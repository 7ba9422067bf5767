----------------------------- MODULE MCPlanning -----------------------------
(* Four issues, three of them in one column of an active sprint, with      *)
(* ranks that touch ("i" and "i0") and ranks that a merge made equal; and  *)
(* a project in which a merge has left two active sprints.                 *)
EXTENDS Planning, TLC

CONSTANTS c1, c2
TwoClients == {c1, c2}
OneClient == {c1}
Swap == Permutations(TwoClients)

Two == <<0, 1, 1>>
FourUids == 1..4
TwoIds == 1..2
Issue(sprint, status, backlog, board) ==
    [sprint |-> sprint, status |-> status, backlog_rank |-> backlog, board_rank |-> board]

Touching ==
    [issues |-> <<Issue(1, "TODO", <<0, 1>>, NoRank), Issue(1, "TODO", <<0, 1, 0>>, NoRank),
                  Issue(1, "TODO", <<1>>, <<0, 1>>), Issue(None, "DONE", <<1>>, NoRank)>>,
     sprints |-> <<"ACTIVE", "PLANNED">>]
Merged == [issues |-> <<None, None, None, None>>, sprints |-> <<"ACTIVE", "ACTIVE">>]
New == [issues |-> <<Issue(1, "TODO", <<0, 1, 1>>, NoRank), None, None, None>>,
        sprints |-> <<"PLANNED", "PLANNED">>]
AllBoards == {Touching, Merged, New}
=============================================================================
