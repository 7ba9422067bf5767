----------------------------- MODULE ClaimLease -----------------------------
(***************************************************************************)
(* Runs, claims and leases: domain/run.ts, domain/claim.ts, the claims     *)
(* table of storage/runtime.ts, and the routes of server/http.ts that use  *)
(* them.                                                                   *)
(*                                                                         *)
(* Runs, issues and events are files; claims are rows of a local database. *)
(* A route checks, then queues a write, then goes on when the write is     *)
(* done: one action per stretch between two awaits.  A write is one step   *)
(* here (WriteJournal says what it is made of), and the index, which the   *)
(* checks read, follows the file in the same step.                         *)
(***************************************************************************)
EXTENDS Naturals, FiniteSets, Sequences, Transitions

CONSTANTS
    Issues,
    Agents,
    Runs,
    Sessions,     \* bound: runs ever started, each by its agent for its issue
    Clients,      \* bound: requests in flight at one time
    BlockedBy,    \* the blocked_by links: pairs of an issue and its blocker
    Lease,        \* 15 minutes, in ticks
    NoRun, NoAgent,
    MaxMoves,     \* bound: transitions, and questions asked
    MaxThrows,    \* bound: steps of requests that throw
    MaxCrashes    \* bound: crashes of the server

ASSUME ClaimLeaseAssumption ==
    /\ Issues # {} /\ NoRun \notin Runs /\ Sessions \subseteq Runs \X Agents \X Issues
    /\ BlockedBy \subseteq Issues \X Issues
    /\ Lease \in Nat \ {0}
    /\ MaxMoves \in Nat /\ MaxThrows \in Nat /\ MaxCrashes \in Nat

VARIABLES
    issues,    \* status of each issue
    asked,     \* issues with an unanswered question or review request
    runs,      \* the run files
    claims,    \* the claims table; "left" is lease_expires_at - now
    handlers,  \* where each request in flight is
    mode,      \* "up", "recording" (start-up tells of expired claims), "down"
    expired,   \* the claims that start-up found expired
    rows,      \* writes that threw and that the journal will replay
    (* history and bounds *)
    events,    \* the event log: verb, issue and run
    moves,     \* agents that moved an issue to a status a claim is needed for
    exposed,   \* runs whose claim and end, or claim and event, were torn apart
    revived,   \* runs that ended while a heartbeat was about to write
    budget

files == <<issues, asked, runs>>
ghosts == <<events, moves, exposed, revived, budget>>
vars == <<issues, asked, runs, claims, handlers, mode, expired, rows,
          events, moves, exposed, revived, budget>>

RunStates == {"none", "RUNNING", "DONE", "CANCELLED"}   \* FAILED is like DONE
RunRecords == [state: RunStates, agent: Agents \cup {NoAgent}, issue: Issues]

NoClaim == [run |-> NoRun, owner |-> NoAgent, left |-> 0]
Claims == [run: Runs \cup {NoRun}, owner: Agents \cup {NoAgent}, left: 0..Lease]

Stages == {"free", "beat", "renew", "end", "ended", "record", "cancel", "tell"}
Free == [at |-> "free", run |-> NoRun]
Handlers == [at: Stages, run: Runs \cup {NoRun}]

CLAIM_GATED == {"IN_PROGRESS", "IN_REVIEW", "DONE"}
CLAIMABLE_FROM == {"TODO", "IN_PROGRESS"}
SETTLED == {"DONE", "CANCELLED"}

Live(i) == claims[i].run # NoRun /\ claims[i].left > 0
Expired == {i \in Issues : claims[i].run # NoRun /\ claims[i].left = 0}

Verbs == {"claim.acquired", "claim.released", "claim.reclaimed", "run.ended"}
Events == [verb: Verbs, issue: Issues, run: Runs]
Event(verb, r) == [verb |-> verb, issue |-> runs[r].issue, run |-> r]
Log(verb, r) == events' = events \cup {Event(verb, r)}

Awake(c, at) == mode = "up" /\ handlers[c].at = at
Goto(c, at) == handlers' = [handlers EXCEPT ![c].at = at]
Finish(c) == handlers' = [handlers EXCEPT ![c] = Free]

Init ==
    /\ issues = [i \in Issues |-> [status |-> "TODO", blocked_from |-> NoStatus]]
    /\ asked = {}
    /\ runs = [r \in Runs |-> [state |-> "none", agent |-> NoAgent,
                               issue |-> CHOOSE i \in Issues : TRUE]]
    /\ claims = [i \in Issues |-> NoClaim]
    /\ handlers = [c \in Clients |-> Free]
    /\ mode = "up" /\ expired = {} /\ rows = <<>>
    /\ events = {} /\ moves = {} /\ exposed = {} /\ revived = {}
    /\ budget = [moves |-> 0, throws |-> 0, crashes |-> 0]

Spend(what, bound) ==
    budget[what] < bound /\ budget' = [budget EXCEPT ![what] = @ + 1]

-----------------------------------------------------------------------------
(* Runs.                                                                   *)

StartRun(r, a, i) ==
    /\ mode = "up" /\ runs[r].state = "none"
    /\ runs' = [runs EXCEPT ![r] = [state |-> "RUNNING", agent |-> a, issue |-> i]]
    /\ UNCHANGED <<issues, asked, claims, handlers, mode, expired, rows, ghosts>>

(* heartbeatRun up to its write: the file it will write back says RUNNING. *)
(* Only the agent of the run gets past requireOwner.                       *)
Heartbeat(c, r) ==
    /\ Awake(c, "free") /\ runs[r].state = "RUNNING"
    /\ handlers' = [handlers EXCEPT ![c] = [at |-> "beat", run |-> r]]
    /\ UNCHANGED <<files, claims, mode, expired, rows, ghosts>>

HeartbeatWrite(c) ==
    /\ Awake(c, "beat")
    /\ runs' = [runs EXCEPT ![handlers[c].run].state = "RUNNING"]
    /\ Goto(c, "renew")
    /\ UNCHANGED <<issues, asked, claims, mode, expired, rows, ghosts>>

(* RuntimeStore.renew: the claim of the run, if its lease has not run out. *)
Renewed_ByIssue(r, table) ==
    [i \in Issues |-> IF i = runs[r].issue /\ table[i].left > 0
                      THEN [table[i] EXCEPT !.left = Lease] ELSE table[i]]

Renewed(r, table) ==
    [i \in Issues |-> IF table[i].run = r /\ table[i].left > 0
                      THEN [table[i] EXCEPT !.left = Lease] ELSE table[i]]

Renew(c) ==
    /\ Awake(c, "renew")
    /\ claims' = Renewed(handlers[c].run, claims)
    /\ Finish(c)
    /\ UNCHANGED <<files, mode, expired, rows, ghosts>>

EndRun(c, r) ==
    /\ Awake(c, "free") /\ runs[r].state = "RUNNING"
    /\ handlers' = [handlers EXCEPT ![c] = [at |-> "end", run |-> r]]
    /\ UNCHANGED <<files, claims, mode, expired, rows, ghosts>>

(* A heartbeat that has read the file will say RUNNING again.              *)
Revived(r) ==
    revived \cup {q \in {r} : \E c \in Clients : handlers[c].at = "beat" /\ handlers[c].run = q}

EndRunWrite_KeepClaim(c) ==
    /\ Awake(c, "end")
    /\ runs' = [runs EXCEPT ![handlers[c].run].state = "DONE"]
    /\ Log("run.ended", handlers[c].run) /\ revived' = Revived(handlers[c].run)
    /\ Finish(c)
    /\ UNCHANGED <<issues, asked, claims, mode, expired, rows, moves, exposed, budget>>

EndRunWrite(c) ==
    /\ Awake(c, "end")
    /\ runs' = [runs EXCEPT ![handlers[c].run].state = "DONE"]
    /\ Log("run.ended", handlers[c].run) /\ revived' = Revived(handlers[c].run)
    /\ Goto(c, "ended")
    /\ UNCHANGED <<issues, asked, claims, mode, expired, rows, moves, exposed, budget>>

(* The claim goes with the run, live or not.                               *)
releaseRun(c) ==
    /\ Awake(c, "ended")
    /\ claims' = [i \in Issues |->
                     IF claims[i].run = handlers[c].run THEN NoClaim ELSE claims[i]]
    /\ Finish(c)
    /\ UNCHANGED <<files, mode, expired, rows, ghosts>>

-----------------------------------------------------------------------------
(* Claims.                                                                 *)

claimability(i) ==
    \A j \in Issues : <<i, j>> \in BlockedBy => issues[j].status \in SETTLED

Claimable(r) ==
    /\ runs[r].state = "RUNNING"
    /\ issues[runs[r].issue].status \in CLAIMABLE_FROM
    /\ claimability(runs[r].issue) /\ runs[r].issue \notin asked

(* RuntimeStore.acquire first forgets every expired claim, and tells no    *)
(* one.                                                                    *)
Unexpired_Early == [i \in Issues |-> IF claims[i].left <= 1 THEN NoClaim ELSE claims[i]]
Unexpired == [i \in Issues |-> IF claims[i].left = 0 THEN NoClaim ELSE claims[i]]

(* A claim can be taken while a release is about to cancel the very run.   *)
CancelUnderWay(r) == \E c \in Clients : handlers[c].at = "cancel" /\ handlers[c].run = r

Acquire(c, r) ==
    LET i == runs[r].issue IN
    /\ Awake(c, "free") /\ Claimable(r) /\ Unexpired[i] = NoClaim
    /\ claims' = [Unexpired EXCEPT ![i] = [run |-> r, owner |-> runs[r].agent, left |-> Lease]]
    /\ handlers' = [handlers EXCEPT ![c] = [at |-> "record", run |-> r]]
    /\ exposed' = IF CancelUnderWay(r) THEN exposed \cup {r} ELSE exposed
    /\ UNCHANGED <<files, mode, expired, rows, events, moves, revived, budget>>

(* A repeat by the same run is the same claim with a new lease; a claim of *)
(* another run refuses the request.                                        *)
ClaimAgain(r) ==
    LET i == runs[r].issue IN
    /\ mode = "up" /\ Claimable(r) /\ Unexpired[i] # NoClaim
    /\ claims' = IF Unexpired[i].run = r THEN Renewed(r, Unexpired) ELSE Unexpired
    /\ UNCHANGED <<files, handlers, mode, expired, rows, ghosts>>

RecordAcquired(c) ==
    /\ Awake(c, "record")
    /\ Log("claim.acquired", handlers[c].run)
    /\ Finish(c)
    /\ UNCHANGED <<files, claims, mode, expired, rows, moves, exposed, revived, budget>>

(* releaseClaim up to the write of the run.  When the run has ended        *)
(* already, endRun throws: the claim is gone and nothing is recorded.      *)
Release(c, i) ==
    LET r == claims[i].run IN
    /\ Awake(c, "free") /\ Live(i)
    /\ claims' = [claims EXCEPT ![i] = NoClaim]
    /\ handlers' = IF runs[r].state = "RUNNING"
                   THEN [handlers EXCEPT ![c] = [at |-> "cancel", run |-> r]]
                   ELSE handlers
    /\ UNCHANGED <<files, mode, expired, rows, ghosts>>

CancelWrite(c) ==
    /\ Awake(c, "cancel")
    /\ runs' = [runs EXCEPT ![handlers[c].run].state = "CANCELLED"]
    /\ Log("run.ended", handlers[c].run) /\ revived' = Revived(handlers[c].run)
    /\ Goto(c, "tell")
    /\ UNCHANGED <<issues, asked, claims, mode, expired, rows, moves, exposed, budget>>

RecordReleased(c) ==
    /\ Awake(c, "tell")
    /\ Log("claim.released", handlers[c].run)
    /\ Finish(c)
    /\ UNCHANGED <<files, claims, mode, expired, rows, moves, exposed, revived, budget>>

-----------------------------------------------------------------------------
(* Transitions of issues (transitionRoute).                                *)

holdsClaimOn_Anyones(i, a) == Live(i)
holdsClaimOn(i, a) == Live(i) /\ claims[i].owner = a

(* The write carries the hash of the file that was patched, so between the *)
(* checks and the write nothing else can have changed the issue: one step. *)
Move(a, i, to) ==
    /\ mode = "up" /\ MayMove(issues[i], to, "agent") /\ Spend("moves", MaxMoves)
    /\ to = "DONE" => i \notin asked
    /\ to \in CLAIM_GATED => holdsClaimOn(i, a)
    /\ issues' = [issues EXCEPT ![i] = patchStatus(@, to)]
    /\ moves' = moves \cup {[issue |-> i, agent |-> a] : s \in CLAIM_GATED \cap {to}}
    /\ UNCHANGED <<asked, runs, claims, handlers, mode, expired, rows, events, exposed, revived>>

(* A person needs no claim.                                                *)
MoveByPerson(i, to) ==
    /\ mode = "up" /\ MayMove(issues[i], to, "admin")
    /\ Spend("moves", MaxMoves)
    /\ issues' = [issues EXCEPT ![i] = patchStatus(@, to)]
    /\ UNCHANGED <<asked, runs, claims, handlers, mode, expired, rows, events, moves, exposed,
                   revived>>

(* Comments: a question or a review request, and its resolution.           *)
Ask(i) ==
    /\ mode = "up" /\ i \notin asked /\ Spend("moves", MaxMoves)
    /\ asked' = asked \cup {i}
    /\ UNCHANGED <<issues, runs, claims, handlers, mode, expired, rows, events, moves, exposed,
                   revived>>

Resolve(i) ==
    /\ mode = "up" /\ i \in asked
    /\ asked' = asked \ {i}
    /\ UNCHANGED <<issues, runs, claims, handlers, mode, expired, rows, ghosts>>

-----------------------------------------------------------------------------
(* Time, failed writes, crashes and start-up.                              *)

Tick ==
    /\ \E i \in Issues : claims[i].left > 0
    /\ claims' = [i \in Issues |-> IF claims[i].left > 0
                                   THEN [claims[i] EXCEPT !.left = @ - 1] ELSE claims[i]]
    /\ UNCHANGED <<files, handlers, mode, expired, rows, ghosts>>

(* What the write of each stage puts into the file of the run, and tells.  *)
Put == [beat |-> "RUNNING", end |-> "DONE", cancel |-> "CANCELLED"]
Tells == [end |-> "run.ended", cancel |-> "run.ended",
          record |-> "claim.acquired", tell |-> "claim.released"]
Writing == {"beat", "end", "record", "cancel", "tell"}

Written(at, r) ==
    IF at \in DOMAIN Put THEN [runs EXCEPT ![r].state = Put[at]] ELSE runs
Told(at, r) == events \cup {Event(Tells[s], r) : s \in {at} \cap DOMAIN Tells}

(* A write that throws was refused, or has left a row with nothing         *)
(* written, or with the file written and nothing told; or it was all done. *)
Outcomes(at) ==
    {"refused"} \cup {o \in {"left", "all"} : at \in Writing}
                \cup {o \in {"put"} : at \in {"end", "cancel"}}

(* A step of a handler throws, and the rest of the handler is skipped: in  *)
(* the middle of a write, or at the claims table (renew, ended).           *)
Fail(c, how) ==
    LET at == handlers[c].at
        r == handlers[c].run IN
    /\ mode = "up" /\ at # "free" /\ how \in Outcomes(at)
    /\ Spend("throws", MaxThrows)
    /\ runs' = IF how \in {"put", "all"} THEN Written(at, r) ELSE runs
    /\ events' = IF how = "all" THEN Told(at, r) ELSE events
    /\ rows' = IF how \in {"left", "put"}
                THEN Append(rows, [at |-> at, run |-> r, expect |-> runs'[r].state]) ELSE rows
    /\ exposed' = IF \/ at \in {"record", "ended"}
                     \/ at \in {"end", "cancel"} /\ how # "refused"
                  THEN exposed \cup {r} ELSE exposed
    /\ revived' = IF at \in {"end", "cancel"} /\ how \in {"put", "all"}
                  THEN Revived(r) ELSE revived
    /\ Finish(c)
    /\ UNCHANGED <<issues, asked, claims, mode, expired, moves>>

Crash ==
    /\ mode # "down" /\ mode' = "down"
    /\ Spend("crashes", MaxCrashes)
    /\ exposed' = exposed \cup {handlers[c].run :
                     c \in {d \in Clients : handlers[d].at \in {"record", "ended"}}}
    /\ handlers' = [c \in Clients |-> Free]
    /\ expired' = {}
    /\ UNCHANGED <<files, claims, rows, events, moves, revived>>

(* Start-up replays the journal first: a row is rolled forward if the file *)
(* is as the write found it, or left it; it is given up if the file has    *)
(* been written since, by a heartbeat that changed no state for one.       *)
ReplayRow ==
    LET row == Head(rows) IN
    /\ mode = "down" /\ rows # <<>> /\ rows' = Tail(rows)
    /\ \/ /\ row.at \in DOMAIN Put => runs[row.run].state = row.expect
          /\ runs' = Written(row.at, row.run) /\ events' = Told(row.at, row.run)
       \/ row.at \in DOMAIN Put /\ UNCHANGED <<runs, events>>
    /\ UNCHANGED <<issues, asked, claims, handlers, mode, expired, moves, exposed, revived,
                   budget>>

(* recordExpiredClaims: what has expired now is told of, claim by claim,   *)
(* and then forgotten.                                                     *)
Start ==
    /\ mode = "down" /\ rows = <<>> /\ mode' = "recording"
    /\ expired' = Expired
    /\ UNCHANGED <<files, claims, handlers, rows, ghosts>>

Untold == {i \in expired : Event("claim.reclaimed", claims[i].run) \notin events}

RecordReclaimed(i) ==
    /\ mode = "recording" /\ i \in Untold
    /\ Log("claim.reclaimed", claims[i].run)
    /\ UNCHANGED <<files, claims, handlers, mode, expired, rows, moves, exposed, revived, budget>>

(* The sweep uses the time at which the claims were listed.                *)
reclaimExpired ==
    /\ mode = "recording" /\ Untold = {} /\ mode' = "up"
    /\ claims' = [i \in Issues |-> IF i \in expired THEN NoClaim ELSE claims[i]]
    /\ expired' = {}
    /\ UNCHANGED <<files, handlers, rows, ghosts>>

-----------------------------------------------------------------------------
Continue(c) ==
    \/ HeartbeatWrite(c) \/ Renew(c) \/ EndRunWrite(c) \/ releaseRun(c)
    \/ RecordAcquired(c) \/ CancelWrite(c) \/ RecordReleased(c)

Recover == ReplayRow \/ Start \/ reclaimExpired \/ \E i \in Issues : RecordReclaimed(i)

Next ==
    \/ \E s \in Sessions : StartRun(s[1], s[2], s[3])
    \/ \E c \in Clients, r \in Runs : Heartbeat(c, r) \/ EndRun(c, r) \/ Acquire(c, r)
    \/ \E r \in Runs : ClaimAgain(r)
    \/ \E c \in Clients, i \in Issues : Release(c, i)
    \/ \E a \in Agents, i \in Issues, to \in Statuses : Move(a, i, to)
    \/ \E c \in Clients : Continue(c) \/ \E how \in {"refused", "left", "put", "all"} : Fail(c, how)
    \/ \E i \in Issues, to \in Statuses : MoveByPerson(i, to)
    \/ \E i \in Issues : Ask(i) \/ Resolve(i)
    \/ Tick \/ Crash \/ Recover

(* Time passes, the event loop runs what is ready, and a stopped server is *)
(* started again.  Nobody has to send a request.                           *)
Spec ==
    /\ Init /\ [][Next]_vars
    /\ WF_vars(Tick) /\ WF_vars(Recover) /\ \A c \in Clients : WF_vars(Continue(c))

(* X_Y is X with the plausible mistake Y; Next uses none of them.          *)

-----------------------------------------------------------------------------
(* Properties.                                                             *)

TypeOK ==
    /\ issues \in [Issues -> IssueStates] /\ asked \subseteq Issues
    /\ runs \in [Runs -> RunRecords]
    /\ claims \in [Issues -> Claims]
    /\ handlers \in [Clients -> Handlers]
    /\ mode \in {"up", "recording", "down"} /\ expired \subseteq Issues
    /\ rows \in Seq([at: Writing, run: Runs, expect: RunStates])
    /\ events \subseteq Events
    /\ moves \subseteq [issue: Issues, agent: Agents]
    /\ exposed \subseteq Runs /\ revived \subseteq Runs
    /\ budget \in [moves: 0..MaxMoves, throws: 0..MaxThrows, crashes: 0..MaxCrashes]

Ended(r) == Event("run.ended", r) \in events

(* The file of the run says so, or the timeline does.                      *)
HasEnded(r) == runs[r].state \in {"DONE", "CANCELLED"} \/ Ended(r)

(* An agent cannot take another's live claim: it goes away only because    *)
(* its run has ended, or because a person released it, which is about to   *)
(* cancel the run; and it is never replaced in the same step (ADR-004 2).  *)
(* Start-up drops no claim it has not told of, however long the telling    *)
(* takes (http.ts:156-164).                                                *)
ClaimsDoNotVanish ==
    [][\A i \in Issues :
          /\ Live(i) /\ claims'[i].run # claims[i].run =>
                /\ claims'[i] = NoClaim
                /\ \/ HasEnded(claims[i].run)
                   \/ \E c \in Clients : /\ handlers'[c].at = "cancel"
                                         /\ handlers'[c].run = claims[i].run
          /\ mode = "recording" /\ claims'[i] # claims[i] /\ claims'[i] = NoClaim =>
                Event("claim.reclaimed", claims[i].run) \in events]_vars

(* The timeline has heard of a run's claim, or is about to, unless the     *)
(* server stopped between the two stores.                                  *)
Recorded(r) ==
    \/ Event("claim.acquired", r) \in events
    \/ r \in exposed
    \/ \E c \in Clients : handlers[c].at = "record" /\ handlers[c].run = r

(* The timeline can show who worked on what: a claim in force is on it     *)
(* (ADR-004 1); whatever an agent has started, sent to review or finished, *)
(* it had claimed under a run of its own (AC19); and a claim that a person *)
(* is said to have released had its run ended (AC20).                      *)
TimelineIsTrue ==
    /\ \A i \in Issues : Live(i) => Recorded(claims[i].run)
    /\ \A m \in moves : \E r \in Runs :
          runs[r].agent = m.agent /\ runs[r].issue = m.issue /\ Recorded(r)
    /\ \A e \in events : e.verb = "claim.released" => Ended(e.run)

(* A claim is in force after the end of its run, which ADR-004 exists to   *)
(* prevent (http.ts:1399-1410), only while the request that ended the run  *)
(* is about to drop it, or                                                 *)
(*  - when that request was cut off between the end and the release, by a  *)
(*    crash or by an exception after the file or its journal row was       *)
(*    written, or when the claim was taken in the moment before its run    *)
(*    was cancelled: the run is in exposed;                                *)
(*  - when a heartbeat that had read the file before the run ended put     *)
(*    RUNNING back (run.ts:330-338): the run is in revived.                *)
GhostsAreExplained ==
    \A i \in Issues : Live(i) /\ HasEnded(claims[i].run) =>
        \/ claims[i].run \in exposed \cup revived
        \/ \E c \in Clients : handlers[c].at = "ended" /\ handlers[c].run = claims[i].run

(* A claim is renewed for its own run for ever, or it runs out: no other   *)
(* run's signs of life keep it, and neither does a server that restarts.   *)
Renewal(r) ==
    \/ ClaimAgain(r)
    \/ \E c \in Clients : handlers[c].run = r /\ Renew(c)
    \/ \E c \in Clients : Acquire(c, r)
LeasesRunOut ==
    \A r \in Runs :
        \/ []<><<Renewal(r)>>_vars
        \/ []<>(\A i \in Issues : claims[i].run = r => ~Live(i))
=============================================================================
