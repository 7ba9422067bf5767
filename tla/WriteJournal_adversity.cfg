\* Everything at once, on two paths: torn appends, edits inside a write,
\* exceptions and a crash.
SPECIFICATION Spec
CONSTANTS
    p1 = p1  p2 = p2  a = a  b = b
    Paths <- TwoPaths
    Contents <- OneContent
    Absent = Absent
    Unchecked = Unchecked
    MaxOps = 2
    MaxCrashes = 1
    MaxEdits = 1
    MaxFailures = 1
    TornAppends = TRUE
    RacyEditor = TRUE
\* A behaviour ends when the bounds are used up.
CHECK_DEADLOCK FALSE
INVARIANTS
    TypeOK
    LogIsTrue
    IndexLagIsExplained
