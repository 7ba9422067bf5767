\* Overlapping moves, spreads, starts, closes and deletions.
SPECIFICATION PlanningSpec
CONSTANTS
    BASE = 2
    INITIAL_RANK <- Two
    MAX_RANK_LENGTH = 4
    REBALANCE_SPAN = 1
    Uids <- FourUids
    Ids <- TwoIds
    c1 = c1  c2 = c2
    Clients <- TwoClients
    None = None
    Boards <- AllBoards
    MaxMoves = 2
    MaxRequests = 3
\* A behaviour ends when the bounds are used up.
CHECK_DEADLOCK FALSE
INVARIANTS
    RanksFit
    SprintsAreSound
PROPERTY OrderIsKept
SYMMETRY Swap
