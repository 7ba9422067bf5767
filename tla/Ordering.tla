------------------------------ MODULE Ordering ------------------------------
(***************************************************************************)
(* domain/ordering.ts: an issue is moved between two neighbours of its     *)
(* region, by a rank between theirs; when there is none the ranks around   *)
(* the place are spread, one file at a time, and it is tried once more.    *)
(*                                                                         *)
(* Every check reads the index, and every write patches the file as it was *)
(* when the request turned to it, and fails if it has changed since.  Rows *)
(* and files agree here; IssueTree and WriteJournal are about when they do *)
(* not.                                                                    *)
(*                                                                         *)
(* X_Y is X with the plausible mistake Y; no action uses it.               *)
(***************************************************************************)
EXTENDS Ranks, SequencesExt

CONSTANTS
    Uids,            \* bound: issues; numbers, in the order of their ulids
    Clients,         \* bound: requests in flight at one time
    None,            \* no file
    REBALANCE_SPAN   \* 64 in the code

VARIABLES
    issues,      \* the issue files
    handlers,    \* the requests in flight
    disturbed    \* history: clients that others have written past since they were accepted

RANK_FIELDS == {"backlog_rank", "board_rank"}
Free == [op |-> "free"]

Present(board) == {u \in Uids : board[u] # None}

(* (rank, uid), and whoever has no rank at the end.                        *)
Sorted(board, uids, field) ==
    LET rank(u) == board[u][field]
        lt(u, v) == \/ rank(u) # NoRank /\ (rank(v) = NoRank \/ Precedes(rank(u), rank(v)))
                    \/ rank(u) = rank(v) /\ u < v
    IN SetToSortSeq(uids, lt)

orderedRegion(board, u, field) ==
    Sorted(board,
           {v \in Present(board) :
                field = "board_rank" => /\ board[v].sprint = board[u].sprint
                                        /\ board[v].status = board[u].status},
           field)

Others(board, u, field) == Remove(orderedRegion(board, u, field), u)

(* The rank for the place after the first `at` of a list of issues.        *)
RankAt(board, list, at, field) ==
    between(IF at = 0 THEN NoRank ELSE board[list[at]][field],
            IF at = Len(list) THEN NoRank ELSE board[list[at + 1]][field])

(* The window around that place is spread: what there is to write.         *)
Window(list, at) ==
    (1 + Max({0, at - REBALANCE_SPAN}))..Min({Len(list), at + REBALANCE_SPAN})

Rebalanced(list, at, field) ==
    LET window == Window(list, at)
        first == Min(window)
        last == Max(window)
        fresh == spread(Cardinality(window),
                        IF first = 1 THEN NoRank ELSE issues[list[first - 1]][field],
                        IF last = Len(list) THEN NoRank ELSE issues[list[last + 1]][field])
        rows == [i \in DOMAIN fresh |-> [uid |-> list[first + i - 1], rank |-> fresh[i]]]
    IN SelectSeq(rows, LAMBDA row : issues[row.uid][field] # row.rank)

-----------------------------------------------------------------------------
Busy(c) == handlers[c].op # "free"
Moving(c) == handlers[c].op = "move"
Settle(c) == disturbed' = disturbed \ {c}
Disturb(c) == disturbed' = disturbed \cup {d \in Clients \ {c} : Busy(d)}
Finish(c) == handlers' = [handlers EXCEPT ![c] = Free]

(* The file a move writes next, as it is when the move turns to it.        *)
Target(h) == IF h.todo = <<>> THEN h.uid ELSE Head(h.todo).uid
Reading(board, h) == [h EXCEPT !.from = board[Target(h)]]

(* Both neighbours are named, and have nobody between them: `at` says      *)
(* which they are.  Staying where one is, with a rank, is no change; a     *)
(* refusal is none either.                                                 *)
moveIssue(c, u, field, at) ==
    LET region == orderedRegion(issues, u, field)
        others == Remove(region, u)
        rank == RankAt(issues, others, at, field)
        todo == IF rank = Exhausted THEN Rebalanced(others, at, field) ELSE <<>>
    IN /\ ~Busy(c) /\ u \in Present(issues)
       /\ at <= Len(others)
       /\ ~(region[at + 1] = u /\ issues[u][field] # NoRank)
       /\ rank # Exhausted \/ todo # <<>>
       /\ handlers' = [handlers EXCEPT ![c] = Reading(issues,
              [op |-> "move", uid |-> u, field |-> field, at |-> at, others |-> others,
               todo |-> todo, rank |-> rank, from |-> None])]
       /\ Settle(c)
       /\ UNCHANGED issues

(* The next file of the move gets a rank, if nobody has written it since.  *)
SetRank(h, rank) ==
    /\ h.from # None /\ issues[Target(h)] = h.from
    /\ issues' = [issues EXCEPT ![Target(h)][h.field] = rank]

Again_NotRefreshed(board, h) == RankAt(issues, h.others, h.at, h.field)

(* After a spread the place is looked up again, by its number.             *)
Again(board, h) ==
    LET others == Others(board, h.uid, h.field)
    IN IF board[h.uid] # None /\ h.at <= Len(others) THEN RankAt(board, others, h.at, h.field)
       ELSE Exhausted

WriteSpread(c) ==
    LET h == handlers[c]
        rest == [h EXCEPT !.todo = Tail(@)]
        next == IF rest.todo = <<>> THEN [rest EXCEPT !.rank = Again(issues', h)] ELSE rest
    IN /\ Moving(c) /\ h.todo # <<>>
       /\ SetRank(h, Head(h.todo).rank)
       /\ handlers' = [handlers EXCEPT ![c] =
              IF next.todo = <<>> /\ next.rank = Exhausted THEN Free ELSE Reading(issues', next)]
       /\ Disturb(c)

Place(c) ==
    /\ Moving(c) /\ handlers[c].todo = <<>>
    /\ SetRank(handlers[c], handlers[c].rank)
    /\ Finish(c)
    /\ Disturb(c)

(* A file has gone, or somebody else has just written it, or a write fails. *)
GiveUp(c) ==
    /\ Moving(c)
    /\ Finish(c)
    /\ UNCHANGED <<issues, disturbed>>

(* nextBacklogRank: a new issue goes to the end, and shares the last rank  *)
(* if there is no room behind it.                                          *)
nextBacklogRank ==
    LET ranked == SelectSeq(Sorted(issues, Present(issues), "backlog_rank"),
                            LAMBDA u : issues[u].backlog_rank # NoRank)
        rank == IF ranked = <<>> THEN NoRank ELSE issues[Last(ranked)].backlog_rank
        next == between(rank, NoRank)
    IN IF next = Exhausted THEN rank ELSE next

-----------------------------------------------------------------------------
(* Properties.                                                             *)

(* A rank between two ranks is strictly between them; the ranks of a       *)
(* spread are in order and inside its bounds (rank.ts, and ADR-005).       *)
RanksFit ==
    \A a, b \in AllRanks \cup {NoRank} :
        /\ between(a, b) # Exhausted =>
               Precedes(a, between(a, b)) /\ (b # NoRank => Precedes(between(a, b), b))
        /\ \A count \in 1..3 :
               LET list == <<a>> \o spread(count, a, b) \o (IF b = NoRank THEN <<>> ELSE <<b>>)
               IN spread(count, a, b) # Exhausted => IsSorted(list, Precedes)

(* A move nobody wrote past leaves its issue between the neighbours it     *)
(* named, and everybody else in their order, even if ranks ran out on the  *)
(* way (ordering.ts:53-63); unless it went below an issue without a rank.  *)
RankedMovesLandWhereAsked ==
    \A c \in Clients : Place(c) /\ c \notin disturbed =>
        LET h == handlers[c]
        IN \/ h.at > 0 /\ issues[h.others[h.at]][h.field] = NoRank
           \/ orderedRegion(issues', h.uid, h.field) = InsertAt(h.others, h.at + 1, h.uid)

(* A spread makes room: the second try of an undisturbed move finds a rank *)
(* (rank.ts, RankSpaceExhausted: "the signal the caller needs"), if the    *)
(* ranks that bound the window are not as long as ranks may be.            *)
Bounded(h) ==
    LET window == Window(h.others, h.at)
    IN \A i \in {Min(window) - 1, Max(window) + 1} \cap DOMAIN h.others :
           Len(issues[h.others[i]][h.field]) < MAX_RANK_LENGTH
SpreadsMakeRoom ==
    \A c \in Clients :
        WriteSpread(c) /\ c \notin disturbed /\ Bounded(handlers[c]) => handlers'[c].op = "move"

(* A spread never carries an issue across one that is outside its window,  *)
(* not even while it is under way or when it is given up.                  *)
SpreadsAreLocal ==
    \A c \in Clients : WriteSpread(c) /\ c \notin disturbed =>
        LET h == handlers[c]
            window == {h.others[i] : i \in Window(h.others, h.at)}
            Outside(list) == SelectSeq(list, LAMBDA u : u \notin window)
            Before(list, u) == {list[i] : i \in 1..SelectInSeq(list, LAMBDA v : v = u)}
        IN \A u \in Range(h.others) \ window :
               window \cap Before(Others(issues, h.uid, h.field), u)
                   = window \cap Before(Others(issues', h.uid, h.field), u)
=============================================================================
