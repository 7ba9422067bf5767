--------------------------- MODULE MCWriteJournal ---------------------------
(* Small instances of WriteJournal for TLC.  Two contents and the absent   *)
(* file make a third hash possible, so that a replay can find "before",    *)
(* "result" or neither; one content is enough where only the order of the  *)
(* effects matters.                                                        *)
EXTENDS WriteJournal

CONSTANTS p1, p2, a, b

OnePath == {p1}
TwoPaths == {p1, p2}
OneContent == {a}
TwoContents == {a, b}
=============================================================================
