------------------------------- MODULE MCClones -------------------------------
(* Two clones that have each made an issue with the same key, two that     *)
(* share a board where it has already come to that, and two that share a   *)
(* question.                                                               *)
EXTENDS Clones

CONSTANTS c1, c2

TwoClones == {c1, c2}
OneNote == {1}

With(placed) == [NoFiles EXCEPT !.issues = [p \in Places |->
                    IF p \in DOMAIN placed THEN placed[p] ELSE None]]
NoComment == [c \in NoteIds |-> None]

Apart(first) ==
    [tree |-> [k \in Clone |-> IF k = first THEN With(<<1, 0>> :> Issue(1, 1))
                                        ELSE With(<<1, 0>> :> Issue(2, 1))],
     origin |-> NoFiles, comment |-> NoComment,
     may |-> [creates |-> 1, crashes |-> 0, comments |-> 1, ops |-> 0, touches |-> 0]]

Merged ==
    LET t == With(<<1, 0>> :> Issue(1, 1) @@ <<1, 1>> :> Issue(2, 1)
                  @@ <<2, 0>> :> Issue(3, 2) @@ <<2, 1>> :> Issue(4, 2))
    IN [tree |-> [k \in Clone |-> t], origin |-> t, comment |-> NoComment,
        may |-> [creates |-> 0, crashes |-> 2, comments |-> 0, ops |-> 0, touches |-> 0]]

Asked ==
    LET t == [With(<<1, 0>> :> Issue(1, 1)) EXCEPT !.bodies[1] = 1]
    IN [tree |-> [k \in Clone |-> t], origin |-> t,
        comment |-> [c \in NoteIds |-> [dir |-> 1, about |-> 1]],
        may |-> [creates |-> 0, crashes |-> 1, comments |-> 0, ops |-> 2, touches |-> 1]]

AllBoards == {Apart(c1), Apart(c2), Merged, Asked}
Symmetry == Permutations(TwoClones)
=============================================================================
