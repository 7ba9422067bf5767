------------------------------ MODULE Reconcile ------------------------------
(***************************************************************************)
(* How the index follows issue files that change under it.  What comes     *)
(* through the API storage/writer.ts writes, indexes and records in one    *)
(* step.  What does not, storage/watcher.ts hints at, server/http.ts runs  *)
(* one pass at a time, storage/reindex.ts and reconcile.ts take the board  *)
(* in, and storage/external.ts records what was seen.                      *)
(*                                                                         *)
(* A pass reads the board and commits the index in one step; its events    *)
(* are written afterwards, one after the other, while files go on changing. *)
(***************************************************************************)
EXTENDS Integers, Sequences, FiniteSets, SequencesExt, FiniteSetsExt

CONSTANTS
    Paths,      \* bound: where an issue file may be
    Uids,       \* bound: the identities files claim
    Texts,      \* bound: what else a file may say
    None,       \* no file, no row, nothing pending
    Broken,     \* the content of a file that does not parse
    GraceTicks, \* DELETE_GRACE_MS, in ticks of the clock
    MaxTime,    \* bound: ticks
    MaxEdits,   \* bound: changes of files and requests to verify
    MaxFaults   \* bound: crashes, failures, rebuilds and syncs that record nothing

VARIABLES
    disk,     \* the issue files: a content or None, by path
    touched,  \* paths whose (mtime, size) is not the one in file_state
    index,    \* file_state, issues and index_errors, by path
    now,
    server,   \* "down", "starting" (before the watcher is made) or "up"
    hint,     \* what the watcher's pending batch asks for, or None
    queue,    \* the passes requested and not begun
    running,  \* the pass whose events are being written, or None
    owed,     \* the events it has still to write
    rejected, \* did the last pass throw?
    (* history and bounds *)
    told,     \* what the event log has last said of a path: a content, or None for gone
    news,     \* how often a path was changed from outside, less the reports of it
    lost,     \* paths of which a change was never recorded, or after a later one
    unseen,   \* paths changed without a hint, or whose hint came to nothing
    strayed,  \* uids a write of the server found in a file known to have another
    budget

passes == <<queue, running, owed, rejected>>
history == <<told, news, lost, unseen, strayed>>
vars == <<disk, touched, index, now, server, hint, passes, history, budget>>

Contents == [uid: Uids, text: Texts] \cup {Broken}
Parses(c) == c \notin {Broken, None}
Issue(c) == [uid |-> c.uid, text |-> c.text, state |-> "OK", deadline |-> None]
Rows == [uid: Uids, text: Texts, state: {"OK", "INVALID", "PENDING_DELETE"},
         deadline: Nat \cup {None}]
Index == [known: [Paths -> Contents \cup {None}],    \* file_state.file_hash
          rows: [Paths -> Rows \cup {None}],
          errors: [Paths -> {None, "A", "B"}]]
Passes == {"incremental", "full", "manual", "startup"}
Events == [verb: {"changed", "rekeyed", "deleted"}, path: Paths]

ASSUME ReconcileAssumption ==
    /\ IsFiniteSet(Paths)
    /\ Broken \notin [uid: Uids, text: Texts]
    /\ None \notin Contents \cup Rows \cup Passes \cup {"A", "B"}
    /\ GraceTicks \in Nat \ {0} /\ {MaxTime, MaxEdits, MaxFaults} \subseteq Nat

OutOfStep(idx, files) == {p \in Paths : idx.known[p] # files[p]}

-----------------------------------------------------------------------------
(* The index.                                                              *)

(* A file that parses takes the place of whatever its path contributed     *)
(* before.  One that stops parsing leaves its row, hidden; the stage of an *)
(* error that is there already stays what it is.                           *)
quarantineExisting(row) == IF row = None THEN None ELSE [row EXCEPT !.state = "INVALID"]

loadScannedFile(idx, files, changed) ==
    LET good == {p \in changed : Parses(files[p])}
        bad == changed \ good
    IN [known |-> [p \in Paths |-> IF p \in changed THEN files[p] ELSE idx.known[p]],
        rows |-> [p \in Paths |-> IF p \in good THEN Issue(files[p])
                                  ELSE IF p \in bad THEN quarantineExisting(idx.rows[p])
                                  ELSE idx.rows[p]],
        errors |-> [p \in Paths |-> IF p \in good THEN None
                                    ELSE IF p \in bad /\ idx.errors[p] = None THEN "A"
                                    ELSE idx.errors[p]]]

Same(idx, p, q) ==
    p # q /\ idx.rows[p] # None /\ idx.rows[q] # None /\ idx.rows[p].uid = idx.rows[q].uid

movedTo(idx, p) == {q \in Paths : Same(idx, p, q) /\ idx.rows[q].state = "OK"}

(* What vanished files mean: an issue that is shown at another path has    *)
(* moved; any other becomes a tombstone, with the error of stage A it had. *)
(* One after the other: but no two that vanish show the same issue, so     *)
(* none of them is where another has moved to.                             *)
Tombstone(row) ==
    IF row.state = "PENDING_DELETE" THEN row
    ELSE [row EXCEPT !.state = "PENDING_DELETE", !.deadline = now + GraceTicks]

retirePath(idx, vanished) ==
    LET cleared == {p \in vanished : idx.rows[p] = None \/ movedTo(idx, p) # {}}
    IN [known |-> [p \in Paths |-> IF p \in vanished THEN None ELSE idx.known[p]],
        rows |-> [p \in Paths |-> IF p \in cleared THEN None
                                  ELSE IF p \in vanished THEN Tombstone(idx.rows[p])
                                  ELSE idx.rows[p]],
        errors |-> [p \in Paths |-> IF p \in cleared THEN None ELSE idx.errors[p]]]

(* The tombstones a file that has just been read cancels.                  *)
reviveMoved(idx, q) ==
    IF idx.rows[q] # None /\ idx.rows[q].state = "OK"
    THEN {p \in Paths : /\ Same(idx, p, q) /\ idx.rows[p].state = "PENDING_DELETE"
                        /\ idx.rows[p].deadline # None /\ idx.rows[p].deadline > now}
    ELSE {}

Drop(idx, paths) == [idx EXCEPT !.rows = [p \in Paths |-> IF p \in paths THEN None ELSE @[p]]]

(* Stage B decides anew each time; what stage A found stays.               *)
Released(idx) ==
    [idx EXCEPT
        !.rows = [p \in Paths |->
            IF @[p] # None /\ @[p].state = "INVALID" /\ idx.errors[p] # "A"
            THEN [@[p] EXCEPT !.state = "OK"] ELSE @[p]],
        !.errors = [p \in Paths |-> IF @[p] = "B" THEN None ELSE @[p]]]

duplicateUids(idx) ==
    LET claims == {p \in Paths : idx.rows[p] # None /\ idx.rows[p].state # "PENDING_DELETE"}
    IN {p \in claims : \E q \in claims : Same(idx, p, q)}

Quarantine(idx, paths) ==
    [idx EXCEPT
        !.rows = [p \in Paths |-> IF p \in paths THEN [@[p] EXCEPT !.state = "INVALID"] ELSE @[p]],
        !.errors = [p \in Paths |-> IF p \in paths /\ @[p] = None THEN "B" ELSE @[p]]]

validateBoard_Keeps(idx) == Quarantine(idx, duplicateUids(idx))
validateBoard(idx) == LET free == Released(idx) IN Quarantine(free, duplicateUids(free))

Vanished(idx) == {p \in Paths : idx.known[p] # None /\ disk[p] = None}

(* Load, retire, revive, and stage B last.                                 *)
TakeIn_CheckedFirst(idx, changed) ==
    LET checked == validateBoard(loadScannedFile(idx, disk, changed))
        retired == retirePath(checked, Vanished(checked))
    IN validateBoard(Drop(retired, UNION {reviveMoved(retired, q) : q \in changed}))
TakeIn(idx, changed) ==
    LET loaded == loadScannedFile(idx, disk, changed)
        retired == retirePath(loaded, Vanished(loaded))
    IN validateBoard(Drop(retired, UNION {reviveMoved(retired, q) : q \in changed}))

(* The incremental pass reads only files whose stat fields have changed.   *)
statChanged(idx) == {p \in touched : disk[p] \notin {None, idx.known[p]}}
incrementalSync(idx) == TakeIn(idx, statChanged(idx))

(* The full pass hashes every file, and ends the grace that has run out.   *)
hashChanged_All(idx) == {p \in Paths : disk[p] # None}
hashChanged(idx) == {p \in Paths : disk[p] \notin {None, idx.known[p]}}
Confirm(idx) ==
    [idx EXCEPT !.rows = [p \in Paths |->
        IF @[p] # None /\ @[p].state = "PENDING_DELETE" /\ @[p].deadline # None /\ @[p].deadline <= now
        THEN [@[p] EXCEPT !.deadline = None] ELSE @[p]]]
fullReconcile(idx) == Confirm(TakeIn(idx, hashChanged(idx)))

Empty == [known |-> [p \in Paths |-> None], rows |-> [p \in Paths |-> None],
          errors |-> [p \in Paths |-> None]]
rebuildIndex == validateBoard(loadScannedFile(Empty, disk, {p \in Paths : disk[p] # None}))

(* What a full pass reports of the files that have gone.                   *)
renamed(idx) ==
    LET vanished == {p \in Vanished(idx) : idx.rows[p] # None}
        came == fullReconcile(idx).rows
    IN {p \in vanished : came[p] = None}
       \cup {p \in Paths : /\ idx.rows[p] # None /\ idx.rows[p].state = "PENDING_DELETE"
                           /\ disk[p] = None /\ came[p] = None}
tombstoned(idx) == {p \in Vanished(idx) : fullReconcile(idx).rows[p] # None}

-----------------------------------------------------------------------------
(* The world outside.                                                      *)

Stronger(h1, h2) ==
    IF "full" \in {h1, h2} THEN "full" ELSE IF h1 = None THEN h2 ELSE h1

(* The files of `paths` change to what `files` says.  The platform may     *)
(* miss an event; a directory, a flood or git's own files ask for a full   *)
(* pass; nothing is watched before the watcher is made.                    *)
Edited(paths, files, stat) ==
    /\ budget.edits < MaxEdits
    /\ disk' = files
    /\ touched' = IF stat THEN touched \cup paths ELSE touched
    /\ news' = [p \in Paths |-> news[p] + (IF p \in paths THEN 1 ELSE 0)]
    /\ \E h \in IF server = "up" THEN {None, "incremental", "full"} ELSE {None} :
          /\ hint' = Stronger(hint, h)
          /\ unseen' = IF h = None THEN unseen \cup paths ELSE unseen \ paths
    /\ budget' = [budget EXCEPT !.edits = @ + 1]
    /\ UNCHANGED <<index, now, server, passes, told, lost, strayed>>

Put(p, c) == disk[p] # c /\ Edited({p}, [disk EXCEPT ![p] = c], TRUE)

(* An edit of the same length that puts the old mtime back.                *)
PutUnseenByStat(p, c) ==
    /\ disk[p] \notin {None, c} /\ index.known[p] = disk[p] /\ Parses(c)
    /\ Edited({p}, [disk EXCEPT ![p] = c], FALSE)

Delete(p) == disk[p] # None /\ Edited({p}, [disk EXCEPT ![p] = None], TRUE)

Rename(p, q) ==
    /\ disk[p] # None /\ disk[q] = None
    /\ Edited({p, q}, [disk EXCEPT ![p] = None, ![q] = disk[p]], TRUE)

Tick ==
    /\ now < MaxTime
    /\ \E p \in Paths : index.rows[p] # None /\ index.rows[p].deadline # None
    /\ now' = now + 1
    /\ UNCHANGED <<disk, touched, index, server, hint, passes, history, budget>>

-----------------------------------------------------------------------------
(* The server.                                                             *)

(* A write: the file, its entry in the index and its event in one step.    *)
(* Only that file is read: stage B does not run, no tombstone is cancelled. *)
(* The watcher hints at it as at any other change.  An event that a pass   *)
(* still owes of the path will be the later one.                           *)
syncPath_Unhashed(idx, files, p) ==
    IF files[p] = None THEN retirePath(idx, {p})
    ELSE [loadScannedFile(idx, files, {p}) EXCEPT !.known = idx.known]
syncPath(idx, files, p) ==
    IF files[p] = None THEN retirePath(idx, {p}) ELSE loadScannedFile(idx, files, {p})

Overtaken(p) == \E i \in DOMAIN owed : owed[i].path = p /\ owed[i].verb # "changed"

applyFrom(p, c) ==
    /\ server = "up"
    /\ budget.edits < MaxEdits /\ budget' = [budget EXCEPT !.edits = @ + 1]
    /\ disk' = [disk EXCEPT ![p] = c]
    /\ index' = syncPath(index, disk', p)
    /\ touched' = touched \ {p}
    /\ told' = [told EXCEPT ![p] = c]
    /\ lost' = IF Overtaken(p) THEN lost \cup {p} ELSE lost \ {p}
    /\ strayed' = IF index.rows[p] # None /\ Parses(c) /\ c.uid # index.rows[p].uid
                  THEN strayed \cup {c.uid} ELSE strayed
    /\ \E h \in {None, "incremental", "full"} : hint' = Stronger(hint, h)
    /\ unseen' = unseen \ {p}
    /\ UNCHANGED <<now, server, passes, news>>

Shown(p) == index.rows[p] # None /\ index.rows[p].state = "OK"

(* A new key is one that no row and no error of the index has, and a new   *)
(* uid is nobody's.                                                        *)
createIssue(p, u, t) ==
    /\ disk[p] = None /\ index.rows[p] = None /\ index.errors[p] = None
    /\ \A q \in Paths : /\ Parses(disk[q]) => disk[q].uid # u
                        /\ Parses(index.known[q]) => index.known[q].uid # u
                        /\ index.rows[q] # None => index.rows[q].uid # u
    /\ applyFrom(p, [uid |-> u, text |-> t])

(* The issue is looked up in the index and its file read afresh: an edit   *)
(* no pass has read yet is patched, whatever it says.                      *)
updateIssue(p, t) ==
    /\ Shown(p) /\ disk[p] # None
    /\ applyFrom(p, IF Parses(disk[p]) THEN [disk[p] EXCEPT !.text = t] ELSE Broken)

deleteIssue(p) == Shown(p) /\ disk[p] # None /\ applyFrom(p, None)

Write ==
    \E p \in Paths :
        \/ \E u \in Uids, t \in Texts : createIssue(p, u, t)
        \/ \E t \in Texts : updateIssue(p, t)
        \/ deleteIssue(p)

Fault == budget.faults < MaxFaults /\ budget' = [budget EXCEPT !.faults = @ + 1]

(* The batch the watcher has collected asks for a pass.                    *)
fire_WhenIdle ==
    /\ server = "up" /\ hint # None
    /\ queue' = IF running = None THEN Append(queue, hint) ELSE queue
    /\ hint' = None
    /\ UNCHANGED <<disk, touched, index, now, server, running, owed, rejected, history, budget>>
fire ==
    /\ server = "up" /\ hint # None
    /\ queue' = Append(queue, hint)
    /\ hint' = None
    /\ UNCHANGED <<disk, touched, index, now, server, running, owed, rejected, history, budget>>

(* A person asks for a verification.                                       *)
verifyRoute ==
    /\ server = "up" /\ "manual" \notin Range(queue) \cup {running}
    /\ budget.edits < MaxEdits /\ budget' = [budget EXCEPT !.edits = @ + 1]
    /\ queue' = Append(queue, "manual")
    /\ UNCHANGED <<disk, touched, index, now, server, hint, running, owed, rejected, history>>

Ready == server # "down" /\ running = None /\ queue # <<>>

(* After a pass that threw, the next one is not run at all: its request    *)
(* only resolves.                                                          *)
Skip ==
    /\ Ready /\ rejected
    /\ queue' = Tail(queue)
    /\ rejected' = FALSE
    /\ unseen' = unseen \cup OutOfStep(index, disk)
    /\ UNCHANGED <<disk, touched, index, now, server, hint, running, owed, told, news,
                   lost, strayed, budget>>

Told(verb, paths) == SetToSeq([verb: {verb}, path: paths])

(* The incremental pass says nothing of files that have gone.              *)
reconcileExternal_Shown ==
    /\ index' = incrementalSync(index)
    /\ owed' = Told("changed", {p \in statChanged(index) : index'.rows[p] # None /\ index'.rows[p].state = "OK"})
    /\ unseen' = OutOfStep(index', disk) \ touched
reconcileExternal ==
    /\ owed' = Told("changed", statChanged(index))
    /\ index' = incrementalSync(index)
    /\ unseen' = OutOfStep(index', disk) \ touched

reconcileFull ==
    /\ owed' = Told("changed", hashChanged(index)) \o Told("rekeyed", renamed(index))
               \o Told("deleted", tombstoned(index))
    /\ index' = fullReconcile(index)
    /\ unseen' = {}

Begin ==
    /\ Ready /\ ~rejected
    /\ running' = Head(queue) /\ queue' = Tail(queue)
    /\ IF Head(queue) = "incremental" THEN reconcileExternal ELSE reconcileFull
    /\ touched' = {} /\ strayed' = {}
    /\ UNCHANGED <<disk, now, server, hint, rejected, told, news, lost, budget>>

(* One awaited event.  What it says of the issue is read when it is made.  *)
record_ ==
    /\ owed # <<>>
    /\ LET e == Head(owed)
       IN /\ told' = [told EXCEPT ![e.path] = IF e.verb = "changed" THEN index.known[e.path]
                                              ELSE None]
          /\ news' = [news EXCEPT ![e.path] = @ - (IF e.verb = "changed" THEN 1 ELSE 0)]
          /\ lost' = IF told'[e.path] = index.known[e.path] THEN lost \ {e.path} ELSE lost
    /\ owed' = Tail(owed)
    /\ UNCHANGED <<disk, touched, index, now, server, hint, queue, running, rejected, unseen,
                   strayed, budget>>

(* The watcher is made when the first pass has ended.                      *)
Finish ==
    /\ running # None /\ owed = <<>>
    /\ running' = None /\ rejected' = FALSE
    /\ server' = "up"
    /\ UNCHANGED <<disk, touched, index, now, hint, queue, owed, history, budget>>

Stop ==
    /\ server' = "down" /\ hint' = None
    /\ queue' = <<>> /\ running' = None /\ owed' = <<>> /\ rejected' = FALSE
    /\ lost' = lost \cup {owed[i].path : i \in DOMAIN owed}

(* A pass throws.  If another is queued behind it, or a request awaits it, *)
(* the server goes on; otherwise nobody handles the rejection.             *)
Throw(missed) ==
    /\ IF queue # <<>> \/ running = "manual"
       THEN /\ running' = None /\ owed' = <<>> /\ rejected' = TRUE
            /\ lost' = lost \cup {owed[i].path : i \in DOMAIN owed}
            /\ UNCHANGED <<server, hint, queue>>
       ELSE Stop
    /\ unseen' = unseen \cup missed
    /\ UNCHANGED <<disk, touched, index, now, told, news, strayed>>

(* An event cannot be written.                                             *)
RecordFails == owed # <<>> /\ Fault /\ Throw({})

(* A file vanishes between the scan and its reading: the index rolls back. *)
PassFails ==
    /\ Ready /\ ~rejected /\ Fault
    /\ IF Len(queue) > 1 \/ Head(queue) = "manual"
       THEN queue' = Tail(queue) /\ rejected' = TRUE /\ UNCHANGED <<server, hint>>
       ELSE server' = "down" /\ hint' = None /\ queue' = <<>> /\ UNCHANGED rejected
    /\ unseen' = unseen \cup OutOfStep(index, disk)
    /\ UNCHANGED <<disk, touched, index, now, running, owed, told, news, lost, strayed>>

Crash == server # "down" /\ Fault /\ Stop
         /\ UNCHANGED <<disk, touched, index, now, told, news, unseen, strayed>>

(* The index takes the board in and nothing is recorded.                   *)
Silently(idx) ==
    /\ index' = idx
    /\ touched' = {} /\ strayed' = {}
    /\ lost' = lost \cup {p \in Paths : idx.known[p] # index.known[p]}
    /\ unseen' = OutOfStep(idx, disk) \ touched

(* openBoard brings the index up to date, or rebuilds it, before the       *)
(* start-up pass looks for changes.                                        *)
openBoard ==
    /\ server = "down"
    /\ \/ Silently(incrementalSync(index)) /\ UNCHANGED budget
       \/ Silently(rebuildIndex) /\ Fault
    /\ server' = "starting" /\ queue' = <<"startup">>
    /\ UNCHANGED <<disk, now, hint, running, owed, rejected, told, news>>

(* Creating a user or changing a role syncs the whole board; so does the   *)
(* rebuild a person asks for.                                              *)
createUser ==
    /\ server = "up" /\ Fault
    /\ Silently(incrementalSync(index)) \/ Silently(rebuildIndex)
    /\ UNCHANGED <<disk, now, server, hint, passes, told, news>>

-----------------------------------------------------------------------------
Init ==
    /\ disk \in [Paths -> {None} \cup {c \in Contents : Parses(c)}]
    /\ \A p, q \in Paths : p # q /\ disk[p] # None /\ disk[q] # None => disk[p].uid # disk[q].uid
    /\ touched = {}
    /\ index = rebuildIndex
    /\ now = 0 /\ server = "up" /\ hint = None
    /\ queue = <<>> /\ running = None /\ owed = <<>> /\ rejected = FALSE
    /\ told = disk /\ lost = {} /\ unseen = {} /\ strayed = {}
    /\ news = [p \in Paths |-> 0]
    /\ budget = [edits |-> 0, faults |-> 0]

Outside ==
    \/ \E p \in Paths, c \in Contents : Put(p, c) \/ PutUnseenByStat(p, c)
    \/ \E p \in Paths : Delete(p)
    \/ \E p, q \in Paths : Rename(p, q)
    \/ Tick

Server ==
    \/ Write \/ fire \/ verifyRoute \/ Skip \/ Begin \/ record_ \/ Finish
    \/ RecordFails \/ PassFails \/ Crash \/ openBoard \/ createUser

Next == Outside \/ Server

Spec == Init /\ [][Next]_vars

-----------------------------------------------------------------------------
(* Properties.                                                             *)

TypeOK ==
    /\ disk \in [Paths -> Contents \cup {None}] /\ touched \subseteq Paths
    /\ index \in Index /\ now \in 0..MaxTime
    /\ server \in {"down", "starting", "up"} /\ hint \in {None, "incremental", "full"}
    /\ queue \in Seq(Passes) /\ running \in Passes \cup {None} /\ owed \in Seq(Events)
    /\ rejected \in BOOLEAN /\ told \in [Paths -> Contents \cup {None}]
    /\ news \in [Paths -> Int]
    /\ lost \subseteq Paths /\ unseen \subseteq Paths /\ strayed \subseteq Uids

Quiet == server = "up" /\ hint = None /\ queue = <<>> /\ running = None

Visible(rows) == {p \in Paths : rows[p] # None /\ rows[p].state = "OK"}

(* The index is a function of the files it has read: an issue is shown if  *)
(* a rebuild from those files would show it.  Two things make a            *)
(* difference.  A file that no longer parses keeps its row, which claims   *)
(* the uid it had.  And if it was hidden as a duplicate when it stopped    *)
(* parsing its error keeps the label of stage B, so that the check releases *)
(* it, although integrity.ts:70-72 means not to (reindex.ts:403).  A write  *)
(* of the server is not checked against the others: if the file it patched *)
(* had come to claim another uid, that uid is in doubt until the next pass. *)
VisibleIsExplained ==
    LET read == {p \in Paths : Parses(index.known[p])}
        rebuilt == {p \in read : \A q \in read \ {p} : index.known[p].uid # index.known[q].uid}
        unread == {q \in Paths : index.known[q] = Broken}
        shadowed == {p \in read : \E q \in unread : Same(index, p, q)}
        mislabelled == {q \in unread : index.errors[q] # "A"}
        inDoubt == {p \in Paths : index.rows[p] # None /\ index.rows[p].uid \in strayed}
    IN Visible(index.rows) \ (mislabelled \cup inDoubt) = rebuilt \ (shadowed \cup inDoubt)

(* When an issue becomes a tombstone although the pass finds its uid in    *)
(* another file, that file was not new to the pass: an earlier pass had    *)
(* hidden it, as the second claimant of the uid.  And once its grace has   *)
(* run out a deletion stands: nothing but a file at the same path, or a    *)
(* rebuild, takes the tombstone away.                                      *)
Deleted(rows, p) == rows[p] # None /\ rows[p].state = "PENDING_DELETE"
DeletionsAreExplained ==
    [][\A p \in Paths :
          /\ index.rows[p] # None /\ ~Deleted(index.rows, p) /\ Deleted(index'.rows, p) =>
                \A q \in Paths \ {p} :
                    Parses(index'.known[q]) /\ index'.known[q].uid = index.rows[p].uid =>
                        index.known[q] = index'.known[q] /\ index.rows[q].state = "INVALID"
          /\ Deleted(index.rows, p) /\ (index.rows[p].deadline = None \/ index.rows[p].deadline <= now) =>
                Deleted(index'.rows, p) \/ disk[p] # None \/ index' = rebuildIndex]_vars

(* However passes, crashes, silent syncs and writes of the server follow   *)
(* each other, a pass reports a change from outside at most once, and the  *)
(* server's own writes never: each report answers a change of its own.     *)
ChangesAreReportedOnce == \A p \in Paths : news[p] >= 0

(* When nothing is under way the event log says of each file what the      *)
(* index holds of it, unless an event was lost to a crash, a failure or a  *)
(* sync that records nothing, or written after that of a later write.      *)
SilenceIsExplained ==
    Quiet => \A p \in Paths \ lost : index.known[p] \in {None, told[p]}

(* When nothing is under way the index has read every change the watcher   *)
(* hinted at, unless the pass it asked for was skipped or failed.          *)
NothingIsOverlooked == Quiet => OutOfStep(index, disk) \subseteq unseen
=============================================================================
