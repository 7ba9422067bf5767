\* Crashes, restarts and outside edits around two writes of one file, whose
\* contents tell "before", "result" and "neither" apart.
SPECIFICATION FairSpec
CONSTANTS
    p1 = p1  p2 = p2  a = a  b = b
    Paths <- OnePath
    Contents <- TwoContents
    Absent = Absent
    Unchecked = Unchecked
    MaxOps = 2
    MaxCrashes = 2
    MaxEdits = 1
    MaxFailures = 0
    TornAppends = FALSE
    RacyEditor = FALSE
\* A behaviour ends when the bounds are used up.
CHECK_DEADLOCK FALSE
INVARIANTS
    DoneIsLogged
PROPERTIES
    WritesLandInOrder
    ImplementsAtomicWrites
    EveryWriteSettles
