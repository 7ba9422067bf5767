\* Edits, moves and copies of files while passes run, fail and are cut off.
SPECIFICATION Spec
CONSTANTS
    p = p  q = q  u = u  v = v
    Paths <- TwoPaths
    Uids <- TwoUids
    Texts = {1}
    None = None  Broken = Broken
    GraceTicks = 1
    MaxTime = 1
    MaxEdits = 3
    MaxFaults = 1
\* A behaviour ends when the bounds are used up.
CHECK_DEADLOCK FALSE
INVARIANTS
    VisibleIsExplained
    ChangesAreReportedOnce
    SilenceIsExplained
    NothingIsOverlooked
PROPERTY DeletionsAreExplained
SYMMETRY Swaps
