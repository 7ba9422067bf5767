\* Issues move under claims that run out, are blocked or taken over, also across a restart.
SPECIFICATION Spec
CONSTANTS
    i1 = i1  i2 = i2  a1 = a1  a2 = a2  r1 = r1  r2 = r2  c1 = c1  c2 = c2
    Issues <- TwoIssues
    Agents <- TwoAgents
    Runs <- TwoRuns
    Sessions <- OneEach
    Clients <- OneClient
    BlockedBy <- OneLink
    Lease = 2
    NoRun = NoRun  NoAgent = NoAgent
    MaxMoves = 2
    MaxThrows = 1
    MaxCrashes = 1
\* When all runs have ended and no claim is left nothing has to happen.
CHECK_DEADLOCK FALSE
INVARIANT TimelineIsTrue
PROPERTY LeasesRunOut
