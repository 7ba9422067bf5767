\* Overlapping requests, deletions in many writes, hand edits, a failure.
SPECIFICATION Spec
CONSTANTS
    u1 = u1  u2 = u2  u3 = u3  c1 = c1  c2 = c2  s1 = s1
    Uids <- ThreeUids
    SprintIds = {s1}
    Clients <- TwoClients
    None = None
    Boards <- AllBoards
    NewTypes = {"story", "subtask"}
    MoveTargets = {"IN_REVIEW", "BLOCKED"}
    MaxRequests = 2
    MaxEdits = 1
    MaxFaults = 1
\* A behaviour ends when the bounds are used up.
CHECK_DEADLOCK FALSE
INVARIANTS
    TreeStaysWhole
    KeysAreNotReused
PROPERTIES
    NoLostUpdate
    QuarantineIsExact
SYMMETRY Swap
