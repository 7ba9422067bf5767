\* Retries, concurrent repeats, a crash, an error, an expiry and an edit from outside of one key.
SPECIFICATION Spec
CONSTANTS
    c1 = c1  c2 = c2  k1 = k1  k2 = k2  issue = issue  comment = comment
    Clients <- TwoClients
    Keys <- OneKey
    Requests <- TwoRequests
    Issues <- IssueOnly
    NoWrite = NoWrite
    MaxWrites = 3
    MaxCrashes = 2
    MaxFailures = 1
    MaxAges = 1
    MaxEdits = 1
\* A behaviour ends when the bounds are used up.
CHECK_DEADLOCK FALSE
INVARIANTS
    OneEntityUnlessExposed
    RepeatsGetTheFirstAnswer
PROPERTY
    NoKeyStaysInProgress
