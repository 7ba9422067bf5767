\* Keys given out twice, rekeys cut short and overtaken, and ops from both sides.
SPECIFICATION Spec
CONSTANTS
    c1 = c1  c2 = c2
    Clone <- TwoClones
    MaxKey = 6
    Doubled = {1, 2}
    MaxUid = 5
    NoteIds <- OneNote
    None = None
    Boards <- AllBoards
SYMMETRY Symmetry
\* Clones that have nothing to exchange stop.
CHECK_DEADLOCK FALSE
INVARIANTS
    KeysSettle
    SameIssuesSameKeys
    OpsAreKept
    CommentsAreReplayed
PROPERTY EarliestKeeps
