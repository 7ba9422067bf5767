\* Two agents contend for an issue; requests overlap, throw and are cut off, and the
\* journal replays what they left.
SPECIFICATION Spec
CONSTANTS
    i1 = i1  i2 = i2  a1 = a1  a2 = a2  r1 = r1  r2 = r2  c1 = c1  c2 = c2
    Issues <- OneIssue
    Agents <- TwoAgents
    Runs <- TwoRuns
    Sessions <- OneEach
    Clients <- TwoClients
    BlockedBy <- NoLinks
    Lease = 1
    NoRun = NoRun  NoAgent = NoAgent
    MaxMoves = 0
    MaxThrows = 1
    MaxCrashes = 1
\* When all runs have ended and no claim is left nothing has to happen.
CHECK_DEADLOCK FALSE
INVARIANT GhostsAreExplained
PROPERTY ClaimsDoNotVanish
SYMMETRY Swaps
