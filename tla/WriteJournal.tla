---------------------------- MODULE WriteJournal ----------------------------
(***************************************************************************)
(* The single writer of a board: storage/writer.ts over storage/outbox.ts. *)
(*                                                                         *)
(* A domain write touches three stores that cannot be committed together:  *)
(* the resource file, the SQLite index and the JSONL event log.  The       *)
(* outbox row is made durable first, every later step leaves a stage       *)
(* marker, and at start-up the rows that are not settled are replayed.     *)
(*                                                                         *)
(* A step of this module is one durable effect, so a crash, an exception   *)
(* or an edit by somebody outside the server may fall between any two.     *)
(* BoardWriter.#writeNow is synchronous: one write is in progress at a     *)
(* time, whatever paths the queued requests name.                          *)
(***************************************************************************)
EXTENDS Naturals, Sequences

CONSTANTS
    Paths,        \* board-relative paths of resource files
    Contents,     \* file contents, told apart by their file_hash
    Absent,       \* the null hash: there is no file
    Unchecked,    \* an expectedHash that is undefined: the caller checks nothing
    MaxOps,       \* bound: outbox rows ever begun
    MaxCrashes,   \* bound: crashes of the server
    MaxEdits,     \* bound: edits of resource files from outside the server
    MaxFailures,  \* bound: exceptions thrown inside a write (ENOSPC, SQLITE_FULL)
    TornAppends,  \* may a crash leave part of an event line in the log?
    RacyEditor    \* may an outside edit fall between a write's read and its rename?

ASSUME WriteJournalAssumption ==
    /\ Absent \notin Contents /\ Unchecked \notin Contents /\ Unchecked # Absent
    /\ MaxOps \in Nat /\ MaxCrashes \in Nat /\ MaxEdits \in Nat /\ MaxFailures \in Nat
    /\ TornAppends \in BOOLEAN /\ RacyEditor \in BOOLEAN

VARIABLES
    (* durable state *)
    disk,      \* hash of every resource file
    temps,     \* paths with a temp file left beside them
    indexed,   \* hash of every resource file as index.sqlite knows it
    rows,      \* the outbox table; a row's seq is its position
    lines,     \* how many readable lines of the event log carry the event of a row
    torn,      \* does the event log end in an unterminated fragment?
    (* the server process *)
    mode,      \* "down", "replaying" or "up"
    todo,      \* seqs Outbox.pending() returned that replay() has not reached
    cur,       \* the row #applyFrom is working on
    (* history, for the properties only *)
    lastWriter,\* the row that put the current file there, 0 for anybody else
    landed,    \* rows whose result was the content of their file
    unseen,    \* paths edited from outside since the index last read them
    budget     \* crashes, edits and failures so far

log == <<lines, torn>>
history == <<lastWriter, landed, unseen>>
vars == <<disk, temps, indexed, rows, lines, torn, mode, todo, cur,
          lastWriter, landed, unseen, budget>>

Seqs == 1..MaxOps
Hashes == Contents \cup {Absent}

Settled == {"DONE", "ABORTED"}
Working == {"PENDING", "FILE_DONE", "INDEX_DONE", "EVENT_DONE"}
Stages == Working \cup Settled

(* `expected` is kept for the properties; the table has no such column.    *)
Row == [kind: {"file", "event"}, path: Paths, before: Hashes, result: Hashes,
        logs: BOOLEAN, stage: Stages, expected: Hashes \cup {Unchecked}]

(* The local variables of #applyFrom: the row, its `stage`, whether the    *)
(* effect of that stage is on disk already, and `checkEvent`.              *)
Step == [seq: 0..MaxOps, at: Working, effect: BOOLEAN, check: BOOLEAN]
Idle == [seq |-> 0, at |-> "PENDING", effect |-> FALSE, check |-> FALSE]
Applying(s, stage, check) ==
    [seq |-> s, at |-> stage, effect |-> FALSE, check |-> check]

Busy == cur.seq # 0
This == rows[cur.seq]
After(stage) ==
    CASE stage = "PENDING"    -> "FILE_DONE"
      [] stage = "FILE_DONE"  -> "INDEX_DONE"
      [] stage = "INDEX_DONE" -> "EVENT_DONE"
      [] stage = "EVENT_DONE" -> "DONE"
LaterOf_Skips(stage) == After(stage)
LaterOf(stage) == IF stage = "PENDING" THEN "FILE_DONE" ELSE stage

(* Outbox.pending(): the rows that are neither DONE nor ABORTED.           *)
Unfinished_Done == {s \in DOMAIN rows : rows[s].stage # "ABORTED"}
Unfinished == {s \in DOMAIN rows : rows[s].stage \in Working}

Init ==
    /\ disk \in [Paths -> Hashes]
    /\ indexed = disk
    /\ temps = {} /\ rows = <<>> /\ lines = [s \in Seqs |-> 0] /\ torn = FALSE
    /\ mode = "up" /\ todo = {} /\ cur = Idle
    /\ lastWriter = [p \in Paths |-> 0] /\ landed = {} /\ unseen = {}
    /\ budget = [crashes |-> 0, edits |-> 0, failures |-> 0]

-----------------------------------------------------------------------------
(* A fresh write: the check against expectedHash, then outbox.begin.  A    *)
(* write whose check fails throws WriteConflictError and changes nothing.  *)

Begin(row) ==
    /\ mode = "up" /\ ~Busy /\ Len(rows) < MaxOps
    /\ rows' = Append(rows, row)
    /\ cur' = Applying(Len(rows) + 1, "PENDING", FALSE)
    /\ UNCHANGED <<disk, temps, indexed, log, mode, todo, history, budget>>

WriteFile(p, result, expected, logs) ==
    /\ expected = Unchecked \/ expected = disk[p]
    /\ Begin([kind |-> "file", path |-> p, before |-> disk[p], result |-> result,
              logs |-> logs, stage |-> "PENDING", expected |-> expected])

(* kind "event": recordExternalChange reports a change already on disk.    *)
WriteEvent(p) ==
    Begin([kind |-> "event", path |-> p, before |-> Absent, result |-> Absent,
           logs |-> TRUE, stage |-> "PENDING", expected |-> Unchecked])

-----------------------------------------------------------------------------
(* #applyFrom, one durable effect at a time.                               *)

Landing(p, s) ==
    /\ disk' = [disk EXCEPT ![p] = rows[s].result]
    /\ lastWriter' = [lastWriter EXCEPT ![p] = IF disk[p] = rows[s].result THEN @ ELSE s]
    /\ landed' = landed \cup {s}
    /\ unseen' = unseen \ {p}
    /\ cur' = [cur EXCEPT !.effect = TRUE]
    /\ UNCHANGED <<indexed, rows, log, mode, todo, budget>>

AtFileStep ==
    Busy /\ cur.at = "PENDING" /\ ~cur.effect /\ This.kind = "file"

WriteTemp ==
    /\ AtFileStep /\ This.result # Absent /\ This.path \notin temps
    /\ temps' = temps \cup {This.path}
    /\ UNCHANGED <<disk, indexed, rows, log, mode, todo, cur, history, budget>>

Rename ==
    /\ AtFileStep /\ This.result # Absent /\ This.path \in temps
    /\ temps' = temps \ {This.path}
    /\ Landing(This.path, cur.seq)

Remove ==
    /\ AtFileStep /\ This.result = Absent
    /\ Landing(This.path, cur.seq)
    /\ UNCHANGED temps

SyncPath_Lost ==
    /\ Busy /\ cur.at = "FILE_DONE" /\ ~cur.effect /\ This.kind = "file"
    /\ cur' = [cur EXCEPT !.effect = TRUE]
    /\ UNCHANGED <<disk, temps, indexed, rows, log, mode, todo, history, budget>>

SyncPath ==
    /\ Busy /\ cur.at = "FILE_DONE" /\ ~cur.effect /\ This.kind = "file"
    /\ indexed' = [indexed EXCEPT ![This.path] = disk[This.path]]
    /\ unseen' = unseen \ {This.path}
    /\ cur' = [cur EXCEPT !.effect = TRUE]
    /\ UNCHANGED <<disk, temps, rows, log, mode, todo, lastWriter, landed, budget>>

AtEventStep == Busy /\ cur.at = "INDEX_DONE" /\ ~cur.effect /\ This.logs

(* containsEventId: a replay looks for the line before appending it.       *)
AlreadyLogged_Never == FALSE
AlreadyLogged == cur.check /\ lines[cur.seq] > 0

(* A line appended to an unterminated fragment is one unreadable line.     *)
AppendLine ==
    /\ AtEventStep /\ ~AlreadyLogged
    /\ lines' = [lines EXCEPT ![cur.seq] = IF torn THEN @ ELSE @ + 1]
    /\ torn' = FALSE
    /\ cur' = [cur EXCEPT !.effect = TRUE]
    /\ UNCHANGED <<disk, temps, indexed, rows, mode, todo, history, budget>>

NothingToDo ==
    \/ cur.at \in {"PENDING", "FILE_DONE"} /\ This.kind = "event"
    \/ cur.at = "INDEX_DONE" /\ (~This.logs \/ AlreadyLogged)
    \/ cur.at = "EVENT_DONE"

Advance_Onward ==
    /\ Busy /\ (cur.effect \/ NothingToDo)
    /\ rows' = [rows EXCEPT ![cur.seq].stage = After(cur.at)]
    /\ cur' = Applying(cur.seq, After(cur.at), cur.check)
    /\ UNCHANGED <<disk, temps, indexed, log, mode, todo, history, budget>>

Advance ==
    /\ Busy /\ (cur.effect \/ NothingToDo)
    /\ rows' = [rows EXCEPT ![cur.seq].stage = After(cur.at)]
    /\ cur' = IF cur.at = "EVENT_DONE" THEN Idle
              ELSE Applying(cur.seq, After(cur.at), cur.check)
    /\ UNCHANGED <<disk, temps, indexed, log, mode, todo, history, budget>>

Apply ==
    WriteTemp \/ Rename \/ Remove \/ SyncPath \/ AppendLine \/ Advance

-----------------------------------------------------------------------------
(* Start-up: openBoard's incremental sync, then BoardWriter.replay().      *)

Start ==
    /\ mode = "down"
    /\ mode' = "replaying"
    /\ indexed' = disk
    /\ unseen' = {}
    /\ temps' = {}
    /\ todo' = Unfinished
    /\ UNCHANGED <<disk, rows, log, cur, lastWriter, landed, budget>>

NextInLine(s) == mode = "replaying" /\ ~Busy /\ s \in todo /\ \A t \in todo : s <= t

ReplayEvent(s) ==
    /\ NextInLine(s) /\ rows[s].kind = "event"
    /\ cur' = Applying(s, LaterOf(rows[s].stage), TRUE)
    /\ todo' = todo \ {s}
    /\ UNCHANGED <<disk, temps, indexed, rows, log, mode, history, budget>>

ReplayFromStart_Always(s) ==
    /\ NextInLine(s) /\ rows[s].kind = "file"
    /\ cur' = Applying(s, "PENDING", TRUE)
    /\ todo' = todo \ {s}
    /\ UNCHANGED <<disk, temps, indexed, rows, log, mode, history, budget>>

ReplayFromStart(s) ==
    /\ NextInLine(s) /\ rows[s].kind = "file" /\ disk[rows[s].path] = rows[s].before
    /\ cur' = Applying(s, "PENDING", TRUE)
    /\ todo' = todo \ {s}
    /\ UNCHANGED <<disk, temps, indexed, rows, log, mode, history, budget>>

ReplayOnward_Forgotten(s) ==
    /\ NextInLine(s) /\ rows[s].kind = "file" /\ disk[rows[s].path] = rows[s].result
    /\ todo' = todo \ {s}
    /\ UNCHANGED <<disk, temps, indexed, rows, log, mode, cur, history, budget>>

ReplayOnward(s) ==
    /\ NextInLine(s) /\ rows[s].kind = "file"
    /\ disk[rows[s].path] # rows[s].before /\ disk[rows[s].path] = rows[s].result
    /\ cur' = Applying(s, LaterOf(rows[s].stage), TRUE)
    /\ todo' = todo \ {s}
    /\ landed' = landed \cup {s}
    /\ UNCHANGED <<disk, temps, indexed, rows, log, mode, lastWriter, unseen, budget>>

ReplayAbort(s) ==
    /\ NextInLine(s) /\ rows[s].kind = "file"
    /\ disk[rows[s].path] \notin {rows[s].before, rows[s].result}
    /\ rows' = [rows EXCEPT ![s].stage = "ABORTED"]
    /\ indexed' = [indexed EXCEPT ![rows[s].path] = disk[rows[s].path]]
    /\ unseen' = unseen \ {rows[s].path}
    /\ todo' = todo \ {s}
    /\ UNCHANGED <<disk, temps, log, mode, cur, lastWriter, landed, budget>>

ReplayComplete ==
    /\ mode = "replaying" /\ ~Busy /\ todo = {}
    /\ mode' = "up"
    /\ UNCHANGED <<disk, temps, indexed, rows, log, todo, cur, history, budget>>

Replay(s) == ReplayEvent(s) \/ ReplayFromStart(s) \/ ReplayOnward(s) \/ ReplayAbort(s)

-----------------------------------------------------------------------------
(* The environment, and the reconciliation that answers it.                *)

Crash ==
    /\ mode # "down" /\ budget.crashes < MaxCrashes
    /\ mode' = "down" /\ cur' = Idle /\ todo' = {}
    /\ budget' = [budget EXCEPT !.crashes = @ + 1]
    /\ UNCHANGED <<disk, temps, indexed, rows, log, history>>

(* A crash while an event line is being appended leaves part of it.        *)
CrashInAppend ==
    /\ TornAppends /\ AtEventStep /\ ~AlreadyLogged /\ budget.crashes < MaxCrashes
    /\ mode' = "down" /\ cur' = Idle /\ todo' = {}
    /\ torn' = TRUE
    /\ budget' = [budget EXCEPT !.crashes = @ + 1]
    /\ UNCHANGED <<disk, temps, indexed, rows, lines, history>>

(* An exception out of #writeNow: the caller gets it, the row keeps the    *)
(* stage it had, the temp file is removed and the server carries on.       *)
Fail ==
    /\ mode = "up" /\ Busy /\ budget.failures < MaxFailures
    /\ cur' = Idle
    /\ temps' = IF AtFileStep THEN temps \ {This.path} ELSE temps
    /\ budget' = [budget EXCEPT !.failures = @ + 1]
    /\ UNCHANGED <<disk, indexed, rows, log, mode, todo, history>>

OutsideEdit(p, hash) ==
    /\ budget.edits < MaxEdits /\ disk[p] # hash
    /\ RacyEditor \/ ~(AtFileStep /\ This.path = p)
    /\ disk' = [disk EXCEPT ![p] = hash]
    /\ lastWriter' = [lastWriter EXCEPT ![p] = 0]
    /\ unseen' = unseen \cup {p}
    /\ budget' = [budget EXCEPT !.edits = @ + 1]
    /\ UNCHANGED <<temps, indexed, rows, log, mode, todo, cur, landed>>

(* incrementalSync run by the watcher between two writes.                  *)
Reconcile ==
    /\ mode = "up" /\ ~Busy /\ unseen # {}
    /\ indexed' = disk
    /\ unseen' = {}
    /\ UNCHANGED <<disk, temps, rows, log, mode, todo, cur, lastWriter, landed, budget>>

-----------------------------------------------------------------------------
Write ==
    \/ \E p \in Paths, result \in Hashes, expected \in Hashes \cup {Unchecked},
          logs \in BOOLEAN : WriteFile(p, result, expected, logs)
    \/ \E p \in Paths : WriteEvent(p)

Server == Apply \/ Start \/ ReplayComplete \/ \E s \in todo : Replay(s)

Environment ==
    \/ Crash \/ CrashInAppend \/ Fail \/ Reconcile
    \/ \E p \in Paths, hash \in Hashes : OutsideEdit(p, hash)

Next == Write \/ Server \/ Environment

(* #applyFrom and replay() are synchronous code, and the operator starts a *)
(* stopped server again; nobody is obliged to write, edit or crash.        *)
Spec == Init /\ [][Next]_vars
FairSpec == Spec /\ WF_vars(Server)

(* X_Y is X with the plausible mistake Y; Next uses none of them.          *)

-----------------------------------------------------------------------------
(* Properties.                                                             *)

TypeOK ==
    /\ disk \in [Paths -> Hashes] /\ indexed \in [Paths -> Hashes]
    /\ temps \subseteq Paths /\ unseen \subseteq Paths
    /\ rows \in Seq(Row) /\ Len(rows) <= MaxOps
    /\ lines \in [Seqs -> Nat] /\ torn \in BOOLEAN
    /\ mode \in {"down", "replaying", "up"}
    /\ todo \subseteq DOMAIN rows /\ landed \subseteq DOMAIN rows
    /\ cur \in Step /\ cur.seq <= Len(rows)
    /\ lastWriter \in [Paths -> 0..MaxOps]
    /\ budget \in [crashes: Nat, edits: Nat, failures: Nat]

(* Exactly one line per event: neither a crash between the append and its  *)
(* stage marker, nor a replay of a replay, appends the event of a row a    *)
(* second time (writer.ts:180-190, containsEventId).                       *)
LoggedAtMostOnce == \A s \in Seqs : lines[s] <= 1

(* A row that reached EVENT_DONE has its event in the log, readable, once. *)
DoneIsLogged ==
    \A s \in DOMAIN rows :
        rows[s].logs /\ rows[s].stage \in {"EVENT_DONE", "DONE"} => lines[s] = 1

(* The event log never reports a change to a file that did not happen, in  *)
(* whatever order crashes, failures and edits fall (writer.ts:144-193).    *)
LoggedHasLanded ==
    \A s \in DOMAIN rows : lines[s] > 0 /\ rows[s].kind = "file" => s \in landed

(* The event log is true: what it says has happened, and it says it once.  *)
LogIsTrue == LoggedAtMostOnce /\ LoggedHasLanded

(* Whenever the server takes requests, the index differs from the disk     *)
(* only for a path somebody edited and the watcher has not seen, or for a  *)
(* path whose write has not passed its index step.                         *)
IndexLagIsExplained ==
    mode = "up" =>
        \A p \in Paths : indexed[p] # disk[p] =>
            \/ p \in unseen
            \/ \E s \in DOMAIN rows : /\ rows[s].path = p /\ rows[s].kind = "file"
                                      /\ rows[s].stage \in {"PENDING", "FILE_DONE"}

(* The results of two writes reach one file in the order the outbox gave   *)
(* them, through crashes and replays: an older write never replaces a      *)
(* newer one.                                                              *)
WritesLandInOrder ==
    [][\A p \in Paths : lastWriter'[p] # 0 => lastWriter'[p] >= lastWriter[p]]_vars

(* Every write the outbox accepted is settled in the end: rolled forward   *)
(* or given up.                                                            *)
EveryWriteSettles == \A s \in Seqs :
    (s \in Unfinished) ~> (s \in DOMAIN rows /\ rows[s].stage \in Settled)

-----------------------------------------------------------------------------
(* The journal implements AtomicWrites when appends are whole and outside  *)
(* edits do not fall between a write's read of its file and its rename.    *)

AbstractWrite(s) ==
    [kind |-> rows[s].kind, path |-> rows[s].path, before |-> rows[s].before,
     result |-> rows[s].result, logs |-> rows[s].logs]

AbstractPhase(s) ==
    IF s \notin DOMAIN rows THEN "free"
    ELSE IF rows[s].stage = "DONE" THEN "finished"
    ELSE IF rows[s].stage = "ABORTED" THEN "abandoned"
    ELSE IF lines[s] > 0 THEN "logged"
    ELSE IF s \in landed \/ rows[s].kind = "event" THEN "landed"
    ELSE "accepted"

Atomic == INSTANCE AtomicWrites WITH
    NoWrite <- Unchecked,
    store <- disk,
    writes <- [s \in Seqs |-> IF s \in DOMAIN rows THEN AbstractWrite(s) ELSE Unchecked],
    phase <- [s \in Seqs |-> AbstractPhase(s)]

(* Implementation: every step of the journal is a step of AtomicWrites or  *)
(* leaves what it speaks of unchanged.                                     *)
ImplementsAtomicWrites == Atomic!Spec
=============================================================================
