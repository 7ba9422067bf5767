------------------------------ MODULE IssueTree ------------------------------
(***************************************************************************)
(* Issues, their parents and their links: domain/issue.ts, update.ts,      *)
(* hierarchy.ts and links.ts, with the rows of index.sqlite they read and  *)
(* the integrity pass that hides a row whose references do not hold.       *)
(*                                                                         *)
(* Every check reads the index; every change patches the file as it is on  *)
(* disk and is written in a later step, if the file is still the one that  *)
(* was patched.  A deletion is many writes, one after the other.  A write  *)
(* is one step here (WriteJournal says what it is made of).                *)
(***************************************************************************)
EXTENDS Integers, FiniteSets, Transitions, FiniteSetsExt

CONSTANTS
    Uids,         \* bound: issues ever created
    SprintIds,    \* bound: sprints an issue may name
    Clients,      \* bound: requests in flight at one time
    None,         \* no parent, no sprint, no file, no strategy
    Boards,       \* the boards a behaviour may start from
    NewTypes,     \* bound: types requests ask for
    MoveTargets,  \* bound: statuses requests and editors ask for
    MaxRequests,  \* bound: requests accepted
    MaxEdits,     \* bound: changes of issue files from outside
    MaxFaults     \* bound: writes that fail, restarts and rebuilds

VARIABLES
    files,     \* the issue files, by the uid they hold
    index,     \* the rows of the issues table
    sprints,   \* the ids that have a sprint file, and those that have a row
    handlers,  \* the requests in flight
    (* history and bounds *)
    named,     \* every key a file has ever had, with the uid that had it
    edited,    \* uids changed, or left by their parent, from outside
    unread,    \* uids changed from outside since the index last read the board
    missed,    \* uids a deletion of their parent did not list: hidden, or hung there later
    loose,     \* keys given to two creations at once, or whose tombstone a rebuild dropped
    budget

history == <<named, edited, unread, missed, loose>>
vars == <<files, index, sprints, handlers, named, edited, unread, missed, loose, budget>>

Types == {"epic", "story", "task", "bug", "spike", "subtask"}
Work == {"story", "task", "bug", "spike"}
ALLOWED_PARENTS ==
    [epic |-> {}, story |-> {"epic"}, task |-> {"epic"}, bug |-> {"epic"}, spike |-> {"epic"},
     subtask |-> Work]

Keys == 1..Cardinality(Uids)
Files == [key: Keys, type: Types, status: Statuses, blocked_from: Statuses \cup {NoStatus},
          parent: Uids \cup {None}, sprint: SprintIds \cup {None}, links: SUBSET Uids]   \* links are blocked_by
States == {"none", "OK", "INVALID", "PENDING_DELETE"}
Rows == [state: States, file: Files \cup {None}]
NoRow == [state |-> "none", file |-> None]

(* A board that requests have made.                                        *)
Whole(board) ==
    \A u, v \in Uids : board[u] # None /\ board[v] # None =>
        /\ board[u].key = board[v].key => u = v
        /\ board[u].parent # None =>
              /\ board[board[u].parent] # None
              /\ board[board[u].parent].type \in ALLOWED_PARENTS[board[u].type]

ASSUME IssueTreeAssumption ==
    /\ IsFiniteSet(Uids) /\ None \notin Uids \cup SprintIds /\ None \notin Files
    /\ Boards \subseteq [Uids -> Files \cup {None}] /\ \A board \in Boards : Whole(board)
    /\ NewTypes \subseteq Types /\ MoveTargets \subseteq Statuses
    /\ MaxRequests \in Nat /\ MaxEdits \in Nat /\ MaxFaults \in Nat

Here(u) == files[u] # None
OK(u) == index[u].state = "OK"
Row(u) == index[u].file

Strategies == {"promote", "cascade_cancel"}
Patches == {"move", "reparent", "plan", "link"}
Ops == Patches \cup {"free", "create", "delete"}
Free == [op |-> "free", uid |-> None, from |-> None, to |-> None, todo |-> {}]
Handlers == [op: Ops, uid: Uids \cup {None}, from: Files \cup {None}, to: Files \cup {None},
             todo: SUBSET [uid: Uids, key: Keys, cancel: BOOLEAN]]

Awake(c) == handlers[c].op = "free" /\ budget.requests < MaxRequests
Receive(c, request) ==
    /\ handlers' = [handlers EXCEPT ![c] = request]
    /\ budget' = [budget EXCEPT !.requests = @ + 1]
Accept(c, request) == Receive(c, request) /\ UNCHANGED <<files, index, sprints, history>>
Finish(c) == handlers' = [handlers EXCEPT ![c] = Free]

(* What a patch of the file on disk becomes once it is written.            *)
Patch(op, u, patched) ==
    [op |-> op, uid |-> u, from |-> files[u], to |-> patched, todo |-> {}]

Init ==
    /\ files \in Boards
    /\ index = [u \in Uids |-> IF Here(u) THEN [state |-> "OK", file |-> files[u]] ELSE NoRow]
    /\ sprints = [files |-> SprintIds, rows |-> SprintIds]
    /\ handlers = [c \in Clients |-> Free]
    /\ named = {<<files[u].key, u>> : u \in {v \in Uids : Here(v)}}
    /\ edited = {} /\ unread = {} /\ missed = {} /\ loose = {}
    /\ budget = [requests |-> 0, edits |-> 0, faults |-> 0]

-----------------------------------------------------------------------------
(* The index.                                                              *)

Present(rows) == {u \in Uids : rows[u].state \in {"OK", "INVALID"}}
With(rows, quarantined) ==
    [u \in Uids |-> IF u \in quarantined THEN [rows[u] EXCEPT !.state = "INVALID"] ELSE rows[u]]

(* A parent or a sprint that no row provides.  The tombstones of issues do *)
(* not count, and a sprint that has gone leaves none.                      *)
danglingReferences(rows, ids) ==
    {u \in Present(rows) : \/ rows[u].file.parent \notin Present(rows) \cup {None}
                          \/ rows[u].file.sprint \notin ids \cup {None}}

(* Every member of a loop of parents, and nothing that hangs below one; a  *)
(* row that is hidden already breaks the loop it is on.                    *)
cycles(rows) ==
    LET ok == {u \in Uids : rows[u].state = "OK"}
    IN UNION {S \in SUBSET ok : {rows[u].file.parent : u \in S} = S}

Quarantined(rows, ids) ==
    LET dangling == With(rows, danglingReferences(rows, ids))
    IN With(dangling, cycles(dangling))

(* Each pass decides anew, so that a repaired file is released.            *)
validateBoard_Keeps(rows, ids) == Quarantined(rows, ids)
validateBoard(rows, ids) ==
    Quarantined([u \in Uids |-> IF rows[u].state = "INVALID"
                                THEN [rows[u] EXCEPT !.state = "OK"] ELSE rows[u]], ids)

(* A file that has gone leaves a tombstone.                                *)
retirePath(row) ==
    IF row.state \in {"OK", "INVALID"} THEN [row EXCEPT !.state = "PENDING_DELETE"] ELSE row

incrementalSync ==
    validateBoard([u \in Uids |->
        IF ~Here(u) THEN retirePath(index[u])
        ELSE IF index[u].file = files[u] /\ index[u].state # "PENDING_DELETE" THEN index[u]
        ELSE [state |-> "OK", file |-> files[u]]], sprints.files)

rebuildIndex ==
    validateBoard([u \in Uids |-> IF Here(u) THEN [state |-> "OK", file |-> files[u]] ELSE NoRow],
                  sprints.files)

(* A pass loads the sprints before it checks who names them.               *)
ReadBoard(rows) ==
    /\ index' = rows
    /\ sprints' = [sprints EXCEPT !.rows = sprints.files]
    /\ unread' = {}

(* The file of u becomes f, and the index reads that one file.             *)
Write(u, f) ==
    /\ files' = [files EXCEPT ![u] = f]
    /\ index' = [index EXCEPT ![u] = IF f = None THEN retirePath(@)
                                     ELSE [state |-> "OK", file |-> f]]
    /\ unread' = unread \ {u}

-----------------------------------------------------------------------------
(* Parents.                                                                *)

(* Is `ancestor` met on the way up from u?  The walk stops at a row that   *)
(* is not OK, and at one it has seen.                                      *)
descendsFrom(u, ancestor) ==
    \A S \in SUBSET Uids :
        u \in S /\ (\A v \in S : OK(v) /\ Row(v).parent # None => Row(v).parent \in S)
        => ancestor \in S

validateParent(u, type, p) ==
    /\ OK(p) /\ p # u
    /\ Row(p).type \in ALLOWED_PARENTS[type]
    /\ ~descendsFrom(p, u)

childrenOf(p) == {u \in Uids : OK(u) /\ Row(u).parent = p}

-----------------------------------------------------------------------------
(* Requests, up to the write.  If-Match holds: the caller has just read    *)
(* the row; a refused request changes nothing.                             *)

(* Tombstones keep their numbers.                                          *)
allocateKey_Live == 1 + Max({0} \cup {Row(u).key : u \in {v \in Uids : OK(v)}})
allocateKey == 1 + Max({0} \cup {Row(u).key : u \in {v \in Uids : index[v].state # "none"}})

KeyTaken(key) == \E v \in Uids : Here(v) /\ files[v].key = key

createIssue(c, u, type, p) ==
    /\ Awake(c) /\ u \notin {n[2] : n \in named}
    /\ \A d \in Clients : handlers[d].uid # u
    /\ p # None => validateParent(u, type, p)
    /\ allocateKey \in Keys /\ ~KeyTaken(allocateKey)
    /\ Receive(c, [Free EXCEPT !.op = "create", !.uid = u,
          !.to = [key |-> allocateKey, type |-> type, status |-> "BACKLOG",
                  blocked_from |-> NoStatus, parent |-> p, sprint |-> None, links |-> {}]])
    /\ loose' = IF \E d \in Clients : handlers[d].op = "create" /\ handlers[d].to.key = allocateKey
                THEN loose \cup {allocateKey} ELSE loose
    /\ UNCHANGED <<files, index, sprints, named, edited, unread, missed>>

(* Of one issue, its parent; with planIssue, its sprint.                   *)
updateIssue(c, u, p) ==
    /\ Awake(c) /\ OK(u) /\ Here(u)
    /\ p # None => validateParent(u, Row(u).type, p)
    /\ files[u].parent # p
    /\ Accept(c, Patch("reparent", u, [files[u] EXCEPT !.parent = p]))

(* To a sprint that has a row, or to none; Sprints has the closed ones.    *)
planIssue(c, u, s) ==
    /\ Awake(c) /\ OK(u) /\ Here(u)
    /\ s \in sprints.rows \cup {None} /\ files[u].sprint # s
    /\ Accept(c, Patch("plan", u, [files[u] EXCEPT !.sprint = s]))

(* The row says which moves there are, the file on disk is what is moved.  *)
WithStatus(f, from, to) ==
    LET p == patchStatus([status |-> from], to)
    IN [f EXCEPT !.status = p.status, !.blocked_from = p.blocked_from]

transitionIssue(c, u, to, role) ==
    /\ Awake(c) /\ OK(u) /\ Here(u) /\ MayMove(Row(u), to, role)
    /\ Accept(c, Patch("move", u, WithStatus(files[u], Row(u).status, to)))

(* The row says which links there are, and they replace those of the file. *)
addLink(c, u, b) ==
    /\ Awake(c) /\ OK(u) /\ Here(u) /\ b # u /\ OK(b) /\ b \notin Row(u).links
    /\ Accept(c, Patch("link", u, [files[u] EXCEPT !.links = Row(u).links \cup {b}]))

removeLink(c, u, b) ==
    /\ Awake(c) /\ OK(u) /\ Here(u) /\ b \in Row(u).links
    /\ Accept(c, Patch("link", u, [files[u] EXCEPT !.links = Row(u).links \ {b}]))

(* The list of children is made once, before the first write.              *)
deleteIssue(c, u, strategy) ==
    /\ Awake(c) /\ OK(u)
    /\ childrenOf(u) # {} => strategy # None
    /\ strategy = "promote" => \A v \in childrenOf(u) : Row(v).type # "subtask"
    /\ Receive(c, [Free EXCEPT !.op = "delete", !.uid = u,
          !.todo = {[uid |-> v, key |-> Row(v).key,
                     cancel |-> strategy = "cascade_cancel" /\ Row(v).status # "CANCELLED"] :
                        v \in childrenOf(u)}])
    /\ missed' = missed \cup {v \in Uids : Here(v) /\ files[v].parent = u /\ ~OK(v)}
    /\ UNCHANGED <<files, index, sprints, named, edited, unread, loose>>

-----------------------------------------------------------------------------
(* The writes.                                                             *)

Deleting(p) == \E d \in Clients : handlers[d].op = "delete" /\ handlers[d].uid = p
Hang(u, f) == missed' = IF f.parent # None /\ (Deleting(f.parent) \/ ~Here(f.parent))
                        THEN missed \cup {u} ELSE missed

CreateWrite(c) ==
    LET h == handlers[c] IN
    /\ h.op = "create"
    /\ IF KeyTaken(h.to.key) THEN UNCHANGED <<files, index, named, unread, missed>>
       ELSE /\ Write(h.uid, h.to) /\ Hang(h.uid, h.to)
            /\ named' = named \cup {<<h.to.key, h.uid>>}
    /\ Finish(c)
    /\ UNCHANGED <<sprints, edited, loose, budget>>

PatchWrite_Unchecked(c) ==
    LET h == handlers[c] IN
    /\ h.op \in Patches
    /\ Here(h.uid) /\ Write(h.uid, h.to) /\ Hang(h.uid, h.to)
    /\ Finish(c)
    /\ UNCHANGED <<sprints, named, edited, loose, budget>>

(* Nothing is written when the file is no longer the one patched.          *)
PatchWrite(c) ==
    LET h == handlers[c] IN
    /\ h.op \in Patches
    /\ IF files[h.uid] # h.from THEN UNCHANGED <<files, index, unread, missed>>
       ELSE Write(h.uid, h.to) /\ Hang(h.uid, h.to)
    /\ Finish(c)
    /\ UNCHANGED <<sprints, named, edited, loose, budget>>

(* A deletion takes its children in the order of their keys.               *)
NextChild(c, t) ==
    /\ handlers[c].op = "delete" /\ t \in handlers[c].todo
    /\ \A s \in handlers[c].todo : t.key <= s.key

(* The child is on the board, and has a way to CANCELLED if it needs one.  *)
Ready(t) ==
    /\ OK(t.uid) /\ Here(t.uid)
    /\ t.cancel => \/ Row(t.uid).status = "CANCELLED"
                   \/ MayMove(Row(t.uid), "CANCELLED", "admin")

CancelChild(c, t) ==
    /\ NextChild(c, t) /\ t.cancel /\ Ready(t)
    /\ IF Row(t.uid).status = "CANCELLED" THEN UNCHANGED <<files, index, unread>>
       ELSE Write(t.uid, WithStatus(files[t.uid], Row(t.uid).status, "CANCELLED"))
    /\ handlers' = [handlers EXCEPT ![c].todo = (@ \ {t}) \cup {[t EXCEPT !.cancel = FALSE]}]
    /\ UNCHANGED <<sprints, named, edited, missed, loose, budget>>

DetachChild_Never(c, t) ==
    /\ NextChild(c, t) /\ ~t.cancel /\ Ready(t)
    /\ handlers' = [handlers EXCEPT ![c].todo = @ \ {t}]
    /\ UNCHANGED <<files, index, sprints, history, budget>>

DetachChild(c, t) ==
    /\ NextChild(c, t) /\ ~t.cancel /\ Ready(t)
    /\ IF files[t.uid].parent = None THEN UNCHANGED <<files, index, unread>>
       ELSE Write(t.uid, [files[t.uid] EXCEPT !.parent = None])
    /\ handlers' = [handlers EXCEPT ![c].todo = @ \ {t}]
    /\ UNCHANGED <<sprints, named, edited, missed, loose, budget>>

(* A child that cannot be read or moved stops the deletion where it is.    *)
GiveUp(c, t) ==
    /\ NextChild(c, t) /\ ~Ready(t)
    /\ Finish(c)
    /\ UNCHANGED <<files, index, sprints, history, budget>>

RemoveFile(c) ==
    /\ handlers[c].op = "delete" /\ handlers[c].todo = {}
    /\ IF Here(handlers[c].uid) THEN Write(handlers[c].uid, None)
       ELSE UNCHANGED <<files, index, unread>>
    /\ Finish(c)
    /\ UNCHANGED <<sprints, named, edited, missed, loose, budget>>

-----------------------------------------------------------------------------
(* Failures, restarts, edits from outside and the passes that follow them. *)

Spend(what, bound) == budget[what] < bound /\ budget' = [budget EXCEPT ![what] = @ + 1]

Fail(c) ==
    /\ handlers[c].op # "free" /\ Spend("faults", MaxFaults)
    /\ Finish(c)
    /\ UNCHANGED <<files, index, sprints, history>>

Restart ==
    /\ Spend("faults", MaxFaults)
    /\ handlers' = [c \in Clients |-> Free]
    /\ ReadBoard(incrementalSync)
    /\ UNCHANGED <<files, named, edited, missed, loose>>

Rebuild ==
    /\ Spend("faults", MaxFaults)
    /\ ReadBoard(rebuildIndex)
    /\ loose' = loose \cup {Row(u).key : u \in {v \in Uids : index[v].state # "none" /\ ~Here(v)}}
    /\ UNCHANGED <<files, handlers, named, edited, missed>>

Reconcile ==
    /\ index # incrementalSync \/ sprints.rows # sprints.files
    /\ ReadBoard(incrementalSync)
    /\ UNCHANGED <<files, handlers, named, edited, missed, loose, budget>>

(* A person or a merge changes a parent, a sprint or a status, or removes  *)
(* a file; a sprint file goes or comes back.                               *)
OutsideEdit(u, f) ==
    /\ Here(u) /\ files[u] # f /\ Spend("edits", MaxEdits)
    /\ files' = [files EXCEPT ![u] = f]
    /\ edited' = edited \cup {u} \cup {v \in Uids : Here(v) /\ files[v].parent = u}
    /\ unread' = unread \cup {u}
    /\ UNCHANGED <<index, sprints, handlers, named, missed, loose>>

OutsideSprint(s) ==
    /\ Spend("edits", MaxEdits)
    /\ sprints' = [sprints EXCEPT !.files = IF s \in @ THEN @ \ {s} ELSE @ \cup {s}]
    /\ UNCHANGED <<files, index, handlers, history>>

-----------------------------------------------------------------------------
Request(c) ==
    \/ \E u \in Uids, type \in NewTypes, p \in Uids \cup {None} : createIssue(c, u, type, p)
    \/ \E u \in Uids, p \in Uids \cup {None} : updateIssue(c, u, p)
    \/ \E u \in Uids, s \in SprintIds \cup {None} : planIssue(c, u, s)
    \/ \E u \in Uids, to \in MoveTargets, role \in {"member", "admin"} :
           transitionIssue(c, u, to, role)
    \/ \E u, b \in Uids : addLink(c, u, b) \/ removeLink(c, u, b)
    \/ \E u \in Uids, strategy \in Strategies \cup {None} : deleteIssue(c, u, strategy)

Continue(c) ==
    \/ CreateWrite(c) \/ PatchWrite(c) \/ RemoveFile(c)
    \/ \E t \in handlers[c].todo : CancelChild(c, t) \/ DetachChild(c, t) \/ GiveUp(c, t)

Outside ==
    \/ \E u \in Uids :
        \/ OutsideEdit(u, None)
        \/ \E p \in Uids \cup {None} : Here(u) /\ OutsideEdit(u, [files[u] EXCEPT !.parent = p])
        \/ \E s \in SprintIds \cup {None} :
               Here(u) /\ OutsideEdit(u, [files[u] EXCEPT !.sprint = s])
        \/ \E s \in MoveTargets : Here(u) /\ OutsideEdit(u, [files[u] EXCEPT !.status = s])
    \/ \E s \in SprintIds : OutsideSprint(s)

Next ==
    \/ \E c \in Clients : Request(c) \/ Continue(c) \/ Fail(c)
    \/ Restart \/ Rebuild \/ Reconcile \/ Outside

Spec == Init /\ [][Next]_vars

(* X_Y is X with the plausible mistake Y; Next uses none of them.          *)

-----------------------------------------------------------------------------
(* Properties.                                                             *)

TypeOK ==
    /\ files \in [Uids -> Files \cup {None}]
    /\ index \in [Uids -> Rows]
    /\ \A u \in Uids : index[u].file = None <=> index[u].state = "none"
    /\ sprints \in [files: SUBSET SprintIds, rows: SUBSET SprintIds]
    /\ handlers \in [Clients -> Handlers]
    /\ named \subseteq Keys \X Uids
    /\ edited \subseteq Uids /\ unread \subseteq Uids /\ missed \subseteq Uids
    /\ loose \subseteq Keys
    /\ budget \in [requests: 0..MaxRequests, edits: 0..MaxEdits, faults: 0..MaxFaults]

(* A request changes the fields it names and leaves the others as they     *)
(* are on disk, whatever other requests and editors did since its check    *)
(* (update.ts, patchIssueFile and expectedHash).                           *)
Keeps(op, f, g) ==
    /\ g.key = f.key /\ g.type = f.type
    /\ op # "reparent" => g.parent = f.parent
    /\ op # "plan" => g.sprint = f.sprint
    /\ op # "link" => g.links = f.links
    /\ op # "move" => g.status = f.status /\ g.blocked_from = f.blocked_from
NoLostUpdate ==
    [][\A c \in Clients :
          LET h == handlers[c] IN
          h.op \in Patches /\ PatchWrite(c) =>
             files'[h.uid] = files[h.uid] \/ Keeps(h.op, files[h.uid], files'[h.uid])]_vars

(* No two files have one key, and a key names one issue for ever, through  *)
(* deletions and restarts (issue.ts:287-292): but a rebuild forgets the    *)
(* deleted ones, and of two overlapping creations the second goes on when  *)
(* the file of the first has gone again (issue.ts:136-145).                *)
KeysAreNotReused ==
    /\ \A u, v \in Uids : Here(u) /\ Here(v) /\ files[u].key = files[v].key => u = v
    /\ \A m, n \in named : m[1] = n[1] /\ m[1] \notin loose => m[2] = n[2]

(* After a pass a row is hidden exactly if its parent or its sprint is     *)
(* missing, or it is on a loop of issues that are not, and a repaired one  *)
(* is back (integrity.ts:50-103).                                          *)
OnLoop(u, board) ==
    \E S \in SUBSET {v \in Uids : board[v] # None} :
        u \in S /\ {board[v].parent : v \in S} = S
Stranded(u, board) ==
    \/ board[u].parent # None /\ board[board[u].parent] = None
    \/ board[u].sprint \notin sprints.files \cup {None}
Sound(board) == [u \in Uids |-> IF board[u] = None \/ Stranded(u, board) THEN None ELSE board[u]]
Broken(u, board) == Stranded(u, board) \/ OnLoop(u, Sound(board))
QuarantineIsExact ==
    [][Reconcile \/ Restart \/ Rebuild =>
          \A u \in Uids :
              /\ index'[u].state = "INVALID" <=> Here(u) /\ Broken(u, files)
              /\ index'[u].state = "OK" <=> Here(u) /\ ~Broken(u, files)]_vars

(* However requests overlap, the issues stay a tree.  No deletion orphans  *)
(* a child in silence: an issue whose parent has gone was edited by hand,  *)
(* was hidden when the children were listed, or was hung below it while it *)
(* was going (PRD 5.1).  Only a hand-made edit closes a loop               *)
(* (hierarchy.ts:97-104).                                                  *)
TreeStaysWhole ==
    \A u \in Uids :
        /\ Here(u) /\ files[u].parent # None /\ ~Here(files[u].parent) =>
              u \in edited \cup missed
        /\ Here(u) /\ OnLoop(u, files) => edited # {}
=============================================================================
