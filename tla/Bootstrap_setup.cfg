\* Repositories that are initialised, with crashes, failures and people in between.
SPECIFICATION FairSpec
CONSTANTS
    p1 = p1  p2 = p2  t1 = t1  t2 = t2  t3 = t3
    Procs <- TwoProcs
    Temps <- ThreeTemps
    Wanted = "LJ"
    Other = "XY"
    None = None
    Scenarios <- All
\* A board that is ready stays so.
CHECK_DEADLOCK FALSE
INVARIANTS
    OneStructuralCommit
    DoctorIsRight
PROPERTIES
    KeepsWhatItFound
    SetupSucceeds
