----------------------------- MODULE MCIssueTree -----------------------------
(* Boards of up to three issues: one, with two still to be created; two    *)
(* that are not related; and an epic with one story, or two, one done.     *)
(* Some of them are planned for the one sprint.                            *)
EXTENDS IssueTree, TLC

CONSTANTS u1, u2, u3, c1, c2, s1

ThreeUids == {u1, u2, u3}
OneClient == {c1}
TwoClients == {c1, c2}

Issue(key, type, status, parent) ==
    [key |-> key, type |-> type, status |-> status, blocked_from |-> NoStatus,
     parent |-> parent, sprint |-> None, links |-> {}]
Planned(issue) == [issue EXCEPT !.sprint = s1]

Bare == [u \in ThreeUids |-> None]
First == [Bare EXCEPT ![u1] = Issue(1, "epic", "BACKLOG", None)]
Loose == [Bare EXCEPT ![u1] = Planned(Issue(1, "epic", "BACKLOG", None)),
                      ![u2] = Issue(2, "story", "IN_PROGRESS", None)]
Family == [Bare EXCEPT ![u1] = Issue(1, "epic", "BACKLOG", None),
                       ![u2] = Planned(Issue(2, "story", "IN_PROGRESS", u1))]
Large == [Family EXCEPT ![u3] = Issue(3, "story", "DONE", u1)]
Swap == Permutations({c1, c2})
AllBoards == {First, Loose, Family, Large}
=============================================================================
