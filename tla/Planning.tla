------------------------------- MODULE Planning -------------------------------
(***************************************************************************)
(* Backlog, sprints and board together: Ordering and Sprints over the same *)
(* issue files.  A close moves issues between the regions that cards are   *)
(* ordered in, and a move may be spreading ranks over the very files that  *)
(* a close is writing.                                                     *)
(***************************************************************************)
EXTENDS Ranks

CONSTANTS
    Uids, Ids, Clients, None, REBALANCE_SPAN,
    Boards,       \* the boards a behaviour may start from
    MaxMoves,     \* bound: moves in an ordering accepted
    MaxRequests   \* bound: all requests accepted, and issues created or deleted

VARIABLES issues, sprints, handlers, disturbed, contested, late, requests, moves

planningVars == <<issues, sprints, handlers, disturbed, contested, late, requests, moves>>

O == INSTANCE Ordering
S == INSTANCE Sprints

Statuses == {"TODO", "DONE"}   \* one that is settled, one that is not
Issues == [sprint: Ids \cup {None}, status: Statuses,
           backlog_rank: AllRanks \cup {NoRank}, board_rank: AllRanks \cup {NoRank}]

(* A board is files of this shape; nothing is asked of what they say.      *)
ASSUME PlanningAssumption ==
    /\ Uids \subseteq Nat /\ IsFiniteSet(Ids)
    /\ None \notin Ids \cup Issues \cup S!SPRINT_STATUSES
    /\ Boards \subseteq [issues : [Uids -> Issues \cup {None}],
                       sprints : [Ids -> S!SPRINT_STATUSES \cup {None}]]

PlanningInit ==
    /\ \E board \in Boards : issues = board.issues /\ sprints = board.sprints
    /\ handlers = [c \in Clients |-> [op |-> "free"]]
    /\ disturbed = {}
    /\ contested = (Cardinality(S!Active) > 1)
    /\ late = {u \in Uids : S!LeftBehind(u)}
    /\ requests = 0 /\ moves = 0

-----------------------------------------------------------------------------
Count(n) ==
    /\ requests < MaxRequests /\ moves + n <= MaxMoves
    /\ requests' = requests + 1 /\ moves' = moves + n
Rank == UNCHANGED <<sprints, contested, late>>
Disturb == disturbed' = IF issues' = issues THEN disturbed ELSE Clients

RankRequest(c) ==
    /\ Count(1)
    /\ \E u \in Uids, field \in O!RANK_FIELDS, at \in 0..Cardinality(Uids) :
           O!moveIssue(c, u, field, at)
    /\ Rank

RankStep(c) ==
    /\ O!WriteSpread(c) \/ O!Place(c) \/ O!GiveUp(c)
    /\ Rank /\ UNCHANGED <<requests, moves>>

SprintRequest(c) ==
    /\ Count(0)
    /\ \/ S!createSprint(c)
       \/ \E s \in Ids : S!startSprint(c, s) \/ S!deleteSprint(c, s)
       \/ \E s \in Ids, to \in Ids \cup {None} : S!closeSprint(c, s, to)
       \/ \E u \in Uids, s \in Ids \cup {None} : S!updateIssue(c, u, s)
    /\ UNCHANGED disturbed

SprintStep(c) ==
    /\ S!CreateWrite(c) \/ S!MoveOut(c) \/ S!WriteStatus(c) \/ S!AssignWrite(c) \/ S!GiveUp(c)
    /\ Disturb /\ UNCHANGED <<requests, moves>>

Move(u) ==
    /\ Count(0)
    /\ \E status \in Statuses : S!transitionIssue(u, status)
    /\ Disturb

(* A new issue has the last ulid and the last place in the backlog.        *)
CreateIssue(u) ==
    /\ Count(0)
    /\ \A v \in Uids : issues[v] # None => v < u
    /\ issues' = [issues EXCEPT ![u] =
           [sprint |-> None, status |-> "TODO", backlog_rank |-> O!nextBacklogRank,
            board_rank |-> NoRank]]
    /\ Disturb
    /\ UNCHANGED <<sprints, handlers, contested, late>>

DeleteIssue(u) ==
    /\ Count(0)
    /\ issues[u] # None
    /\ issues' = [issues EXCEPT ![u] = None]
    /\ Disturb
    /\ UNCHANGED <<sprints, handlers, contested, late>>

Restart ==
    /\ \E c \in Clients : O!Busy(c)
    /\ handlers' = [c \in Clients |-> [op |-> "free"]]
    /\ UNCHANGED <<issues, sprints, disturbed, contested, late, requests, moves>>

PlanningNext ==
    \/ \E c \in Clients : RankRequest(c) \/ RankStep(c) \/ SprintRequest(c) \/ SprintStep(c)
    \/ \E u \in Uids : Move(u) \/ CreateIssue(u) \/ DeleteIssue(u)
    \/ Restart

PlanningSpec == PlanningInit /\ [][PlanningNext]_planningVars

-----------------------------------------------------------------------------
(* Properties.  Each is stated, and commented, in the module it is about.  *)

PlanningTypeOK ==
    /\ issues \in [Uids -> Issues \cup {None}]
    /\ sprints \in [Ids -> S!SPRINT_STATUSES \cup {None}]
    /\ \A c \in Clients :
           handlers[c].op \in {"free", "move", "createSprint", "start", "close",
                               "deleteSprint", "assign"}
    /\ disturbed \subseteq Clients /\ late \subseteq Uids
    /\ contested \in BOOLEAN /\ requests \in 0..MaxRequests /\ moves \in 0..MaxMoves

(* rank.ts: a rank between two is between them, and a spread is in order.  *)
(* It is about every rank there is, and looked at once, where one starts.  *)
RanksFit == requests = 0 => O!RanksFit

(* r05b: one sprint of a project is active, and sprint.ts: what a close or *)
(* a deletion listed is not left behind.                                   *)
SprintsAreSound == S!OneActiveSprint /\ S!NoWorkIsLeftBehind

(* ordering.ts: an undisturbed move lands between the neighbours it named; *)
(* a spread on its way makes room for it, and changes no order across the  *)
(* edge of its window.                                                     *)
OrderIsKept ==
    [][/\ O!RankedMovesLandWhereAsked
       /\ O!SpreadsMakeRoom
       /\ O!SpreadsAreLocal]_planningVars
=============================================================================
