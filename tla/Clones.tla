-------------------------------- MODULE Clones --------------------------------
(***************************************************************************)
(* Boards of one project in several clones, each with its own server, that *)
(* meet through git: issues that were given the same key, the rekeys that  *)
(* settle it (storage/external.ts), and comments and their ops             *)
(* (domain/comment.ts).                                                    *)
(*                                                                         *)
(* git is not part of the code: a pull merges file by file, two different  *)
(* changes of one file leave markers, and a person settles those by hand.  *)
(***************************************************************************)
EXTENDS Rekey, Comments

CONSTANTS
    Clone,       \* the clones
    MaxKey,      \* bound: key numbers
    Doubled,     \* bound: keys of which there may be two files
    MaxUid,      \* bound: issues ever created
    NoteIds,     \* bound: comments
    Boards       \* the boards a behaviour may start from, with what it may do

VARIABLES
    tree,     \* the files of each clone: issues by place, bodies and logs of comments
    origin,   \* the files of the shared branch
    base,     \* the state of the shared branch each clone has merged
    rows,     \* each clone's issues table, by place
    notes,    \* each clone's comments table, with the bodies and logs it was read from
    plan,     \* the rekeys each server has still to apply
    writes,   \* the ops whose write is queued, by clone
    (* history and bounds *)
    comment,  \* of each comment, the directory it lies in and the issue it is about
    due,      \* clones on which the watcher has asked for a full pass, or a pass was cut short
    crossed,  \* clones where issues were created or pulled while a plan was being applied
    had,      \* the keys each issue has had, by clone
    muddled,  \* issues created or rekeyed then, or of whose two versions a person chose one,
              \* or that a merge has left in two files
    seen,     \* the issues and keys from which each clone has rekeyed, if nothing has changed since
    moves,    \* the rekeys made: who, from, to, and planned from which issues
    acked,    \* the ops each clone has acknowledged
    raced,    \* comments whose log has changed while an op was in flight
    reread,   \* <<clone, comment>>: its body was read again after its log
    spent     \* what is left of the board's budget

files == <<tree, origin, base>>
tables == <<rows, notes>>
keyHistory == <<crossed, had, muddled, seen, moves>>
noteHistory == <<comment, acked, raced, reread>>
history == <<due, keyHistory, noteHistory>>
vars == <<files, tables, plan, writes, history, spent>>

Keys == 1..MaxKey
Uids == 1..MaxUid
Places == (Keys \X {0}) \cup (Doubled \X {1})   \* a second file of a key is one a person made
Issue(uid, key) == [uid |-> uid, key |-> key, former |-> {}]

Conflict(f) == f # None /\ "ours" \in DOMAIN f
Readable(f) == f # None /\ ~Conflict(f)
Versions(f) == IF Readable(f) THEN {f} ELSE IF Conflict(f) THEN {f.ours, f.theirs} ELSE {}
Uid(f) == {g.uid : g \in Versions(f)}
OKs(k) == {p \in Places : rows[k][p].state = "OK"}
Row(k, p) == rows[k][p].file
Held(k) == {Row(k, p).uid : p \in OKs(k)}

-----------------------------------------------------------------------------
(* What each server does with its own files.                               *)

Spend(what) == spent[what] > 0 /\ spent' = [spent EXCEPT ![what] = @ - 1]
Changed(k) ==
    /\ crossed' = IF plan[k] # <<>> THEN crossed \cup {k} ELSE crossed
    /\ seen' = [seen EXCEPT ![k] = {}]

WriteIssue(k, p, f) ==
    /\ tree' = [tree EXCEPT ![k].issues[p] = f]
    /\ rows' = [rows EXCEPT ![k][p] = [state |-> "OK", file |-> f]]
    /\ had' = [had EXCEPT ![k][f.uid] = @ \cup {f.key}]

createIssue(k) ==
    LET known == {p \in Places : Row(k, p) # None}
        u == Cardinality({v \in Uids : \E j \in Clone : had[j][v] # {}}) + 1
        n == allocateKey({Row(k, p).key : p \in known}, UNION {Row(k, p).former : p \in known},
                         {p[1] : p \in {q \in Places : rows[k][q].state = "INVALID"}})
    IN /\ Spend("creates")
       /\ u \in Uids /\ n \in Keys
       /\ tree[k].issues[<<n, 0>>] = None
       /\ WriteIssue(k, <<n, 0>>, Issue(u, n))
       /\ Changed(k)
       /\ muddled' = IF k \in crossed' THEN muddled \cup {u} ELSE muddled
       /\ UNCHANGED <<origin, base, notes, plan, writes, due, moves, noteHistory>>

(* What the index makes of an issue file: one with markers keeps its row,  *)
(* hidden.                                                                 *)
Indexed(k, p, f) ==
    IF f = None THEN [state |-> "none", file |-> None]
    ELSE IF Conflict(f) THEN [state |-> "INVALID", file |-> Row(k, p)]
    ELSE [state |-> "OK", file |-> f]
ReadIssues(k) == [p \in Places |-> Indexed(k, p, tree[k].issues[p])]

ReadNotes(k) ==
    [c \in NoteIds |->
        LET now == [body |-> tree[k].bodies[c], log |-> tree[k].logs[c]]
        IN [known |-> now, row |-> Reload(notes[k][c].row, notes[k][c].known, now)]]

(* A full pass reads the board and plans the rekeys of all of it.          *)
reconcileFull(k) ==
    /\ plan[k] = <<>>
    /\ due' = due \ {k} /\ crossed' = crossed \ {k}
    /\ rows' = [rows EXCEPT ![k] = ReadIssues(k)]
    /\ notes' = [notes EXCEPT ![k] = ReadNotes(k)]
    /\ LET claimants == {[uid |-> rows'[k][p].file.uid, key |-> rows'[k][p].file.key, path |-> p] :
                             p \in {q \in Places : rows'[k][q].state = "OK"}}
       IN /\ plan' = [plan EXCEPT ![k] = planRekeys(claimants)]
          /\ seen' = [seen EXCEPT ![k] = IF @ # {} THEN @ ELSE {<<c.uid, c.key>> : c \in claimants}]
    /\ reread' = (reread \cup {<<k, c>> : c \in {d \in NoteIds :
                        notes[k][d].known.body # tree[k].bodies[d]}})
                 \ {<<k, c>> : c \in {d \in NoteIds : notes[k][d].known.log # tree[k].logs[d]}}
    /\ UNCHANGED <<files, writes, had, muddled, moves, comment, acked, raced, spent>>

(* Each rekey patches the file that is there when its turn comes, whatever *)
(* git has made of it: between markers, the first version.  A file that is *)
(* patched already is left alone.                                          *)
applyRekey(k) ==
    /\ plan[k] # <<>>
    /\ plan' = [plan EXCEPT ![k] = Tail(@)]
    /\ LET r == Head(plan[k])
           f == tree[k].issues[r.path]
           one == IF Conflict(f) THEN f.ours ELSE f
           new == patchRekey(one, r.from, r.to)
           patched == IF Conflict(f) THEN [f EXCEPT !.ours = new] ELSE new
       IN IF patched = f THEN UNCHANGED <<tree, rows, had, muddled, moves>>
          ELSE /\ tree' = [tree EXCEPT ![k].issues[r.path] = patched]
               /\ rows' = [rows EXCEPT ![k][r.path] = Indexed(k, r.path, patched)]
               /\ had' = [had EXCEPT ![k][one.uid] = @ \cup {r.to}]
               /\ moves' = moves \cup {[uid |-> one.uid, from |-> r.from, to |-> r.to,
                                        of |-> seen[k]]}
               /\ muddled' = IF k \in crossed THEN muddled \cup {one.uid} ELSE muddled
    /\ UNCHANGED <<origin, base, notes, writes, due, crossed, seen, noteHistory, spent>>

(* The process dies; start-up makes a full pass.                           *)
Crash(k) ==
    /\ plan[k] # <<>> \/ writes[k] # <<>>
    /\ Spend("crashes")
    /\ plan' = [plan EXCEPT ![k] = <<>>] /\ writes' = [writes EXCEPT ![k] = <<>>]
    /\ due' = due \cup {k}
    /\ UNCHANGED <<files, tables, keyHistory, noteHistory>>

-----------------------------------------------------------------------------
(* Comments.                                                               *)

(* The issues a key stands for: its holders or, if there is none, the      *)
(* issues that had it.  Only a single one is an answer.                    *)
findIssue(k, n) ==
    LET direct == {p \in OKs(k) : Row(k, p).key = n}
    IN IF direct # {} THEN direct ELSE {p \in OKs(k) : n \in Row(k, p).former}

addComment(k, c, n) ==
    /\ Spend("comments")
    /\ comment[c] = None
    /\ Cardinality(findIssue(k, n)) = 1
    /\ \E p \in findIssue(k, n) :
          comment' = [comment EXCEPT ![c] = [dir |-> Row(k, p).key, about |-> Row(k, p).uid]]
    /\ tree' = [tree EXCEPT ![k].bodies[c] = 1]
    /\ notes' = [notes EXCEPT ![k][c] =
                    [known |-> [body |-> 1, log |-> NoLog], row |-> Fresh]]
    /\ UNCHANGED <<origin, base, rows, plan, writes, due, keyHistory, acked, raced, reread>>

InFlight(k) == {w.note : w \in Range(writes[k])}

(* The log is read when the request is handled; the write waits its turn.  *)
appendOp(k, c, op) ==
    /\ Spend("ops")
    /\ notes[k][c].row # None
    /\ writes' = [writes EXCEPT ![k] =
            Append(@, [note |-> c, id |-> spent.ops,
                       log |-> Appended(tree[k].logs[c], [id |-> -spent.ops, op |-> op])])]
    /\ raced' = IF c \in InFlight(k) THEN raced \cup {c} ELSE raced
    /\ UNCHANGED <<files, tables, plan, due, keyHistory, comment, acked, reread>>

writeOp(k) ==
    /\ writes[k] # <<>>
    /\ LET w == Head(writes[k])
       IN /\ tree' = [tree EXCEPT ![k].logs[w.note] = w.log]
          /\ notes' = [notes EXCEPT ![k][w.note] =
                [known |-> [@.known EXCEPT !.log = w.log], row |-> commentOpRecords(@.row, w.log)]]
          /\ acked' = acked \cup {[at |-> k, note |-> w.note, id |-> -w.id]}
          /\ reread' = reread \ {<<k, w.note>>}
    /\ writes' = [writes EXCEPT ![k] = Tail(@)]
    /\ UNCHANGED <<origin, base, rows, plan, due, keyHistory, comment, raced, spent>>

(* Somebody rewrites a comment's file by hand, or git puts it back.        *)
Touch(k, c) ==
    /\ Spend("touches")
    /\ tree[k].bodies[c] # None
    /\ tree' = [tree EXCEPT ![k].bodies[c] = @ + 1]
    /\ due' = due \cup {k}
    /\ UNCHANGED <<origin, base, tables, plan, writes, keyHistory, noteHistory>>

-----------------------------------------------------------------------------
(* git.                                                                    *)

Settled(t) ==
    /\ \A p \in Places : ~Conflict(t.issues[p])
    /\ \A c \in NoteIds : ~Marked(t.logs[c])

Merge3(mine, theirs, common, both) ==
    IF mine = common THEN theirs ELSE IF theirs \in {common, mine} THEN mine ELSE both

push(k) ==
    /\ base[k] = origin /\ tree[k] # origin /\ Settled(tree[k])
    /\ origin' = tree[k] /\ base' = [base EXCEPT ![k] = tree[k]]
    /\ UNCHANGED <<tree, tables, plan, writes, history, spent>>

LogsMove(k) == raced' = raced \cup {c \in InFlight(k) : tree'[k].logs[c] # tree[k].logs[c]}

(* The rewritten tree is a signal for a full pass.                         *)
pull(k) ==
    /\ base[k] # origin /\ Settled(tree[k])
    /\ LET t == tree[k]
           b == base[k]
       IN tree' = [tree EXCEPT ![k] =
            [issues |-> [p \in Places |-> Merge3(t.issues[p], origin.issues[p], b.issues[p],
                            [ours |-> t.issues[p], theirs |-> origin.issues[p]])],
             bodies |-> [c \in NoteIds |-> Merge3(t.bodies[c], origin.bodies[c], b.bodies[c],
                                                  t.bodies[c])],
             logs |-> [c \in NoteIds |-> Merge3(t.logs[c], origin.logs[c], b.logs[c],
                            [lines |-> t.logs[c].lines, theirs |-> origin.logs[c].lines])]]]
    /\ base' = [base EXCEPT ![k] = origin]
    /\ due' = due \cup {k} /\ LogsMove(k) /\ Changed(k)
    /\ had' = [had EXCEPT ![k] = [u \in Uids |-> @[u] \cup
                    {f.key : f \in {g \in {origin.issues[p] : p \in Places} : g # None /\ g.uid = u}}]]
    /\ muddled' = muddled \cup {u \in Uids : \E p, q \in Places :
                        p # q /\ u \in Uid(tree'[k].issues[p]) \cap Uid(tree'[k].issues[q])}
    /\ UNCHANGED <<origin, tables, plan, writes, moves,
                   comment, acked, reread, spent>>

(* Two issues in one file become two files; of two versions of one issue a *)
(* person keeps one; both sides' lines of a log are kept, in any order.    *)
KeepBoth(k, p) ==
    LET f == tree[k].issues[p] spare == <<p[1], 1>>
    IN /\ Conflict(f) /\ f.ours.uid # f.theirs.uid
       /\ spare \in Places /\ tree[k].issues[spare] = None
       /\ \/ tree' = [tree EXCEPT ![k].issues = [@ EXCEPT ![p] = f.ours, ![spare] = f.theirs]]
          \/ tree' = [tree EXCEPT ![k].issues = [@ EXCEPT ![p] = f.theirs, ![spare] = f.ours]]
       /\ UNCHANGED muddled
KeepOne(k, p) ==
    LET f == tree[k].issues[p]
    IN /\ Conflict(f) /\ f.ours.uid = f.theirs.uid
       /\ \E g \in {f.ours, f.theirs} : tree' = [tree EXCEPT ![k].issues[p] = g]
       /\ muddled' = muddled \cup {f.ours.uid}
KeepLines(k, c) ==
    LET log == tree[k].logs[c]
    IN /\ Marked(log)
       /\ \E more \in SetToSeqs(Range(log.theirs) \ Range(log.lines)) :
             tree' = [tree EXCEPT ![k].logs[c] = [lines |-> log.lines \o more, theirs |-> <<>>]]
       /\ UNCHANGED muddled
resolve(k) ==
    /\ \/ \E p \in Places : KeepBoth(k, p) \/ KeepOne(k, p)
       \/ \E c \in NoteIds : KeepLines(k, c)
    /\ due' = due \cup {k} /\ LogsMove(k) /\ Changed(k)
    /\ UNCHANGED <<origin, base, tables, plan, writes, had, moves,
                   comment, acked, reread, spent>>

-----------------------------------------------------------------------------
NoFiles == [issues |-> [p \in Places |-> None], bodies |-> [c \in NoteIds |-> None],
            logs |-> [c \in NoteIds |-> NoLog]]
Read(t) == [p \in Places |-> IF t.issues[p] = None THEN [state |-> "none", file |-> None]
                             ELSE [state |-> "OK", file |-> t.issues[p]]]

(* A board is a branch, clones of it that hold what is shared as it is     *)
(* there, and issues that each clone has made since.                       *)
IssueFiles == [uid: Uids, key: Nat, former: {keys \in SUBSET Nat : IsFiniteSet(keys)}]
Lines == [id: Int, op: Ops]
Logs == [lines: Seq(Lines), theirs: Seq(Lines)]
Trees == [issues: [Places -> IssueFiles \cup {None}], bodies: [NoteIds -> Nat \cup {None}],
          logs: [NoteIds -> Logs]]
Kinds == {"creates", "crashes", "comments", "ops", "touches"}
SoundBoard(b) ==
    /\ b.tree \in [Clone -> Trees] /\ b.origin \in Trees /\ b.may \in [Kinds -> Nat]
    /\ Settled(b.origin)
    /\ \A k \in Clone :
          /\ b.tree[k].logs = b.origin.logs
          /\ \A p \in Places : b.origin.issues[p] \in {b.tree[k].issues[p], None}
    /\ \A j, k \in Clone, p, q \in Places :
          LET f == b.tree[j].issues[p] g == b.tree[k].issues[q]
          IN f # None /\ g # None /\ f.uid = g.uid
             => p = q /\ (j = k \/ b.origin.issues[p] # None)
    /\ \E n \in 0..MaxUid : {u \in Uids : \E k \in Clone, p \in Places :
                              u \in Uid(b.tree[k].issues[p])} = 1..n

Sound ==
    /\ Clone # {} /\ {MaxKey, MaxUid} \subseteq Nat /\ Doubled \subseteq Keys
    /\ None \notin IssueFiles \cup [ours: IssueFiles, theirs: IssueFiles]
    /\ \A b \in Boards : SoundBoard(b)
ASSUME ClonesAssumption == Sound

Init ==
    \E b \in Boards :
        /\ tree = b.tree /\ origin = b.origin /\ base = [k \in Clone |-> b.origin]
        /\ rows = [k \in Clone |-> Read(tree[k])]
        /\ notes = [k \in Clone |-> [c \in NoteIds |->
                LET now == [body |-> tree[k].bodies[c], log |-> tree[k].logs[c]]
                IN [known |-> now, row |-> commentOpRecords(commentRecords(now.body), now.log)]]]
        /\ comment = b.comment /\ spent = b.may
        /\ had = [k \in Clone |-> [u \in Uids |->
                {f.key : f \in {g \in {tree[k].issues[p] : p \in Places} : g # None /\ g.uid = u}}]]
        /\ plan = [k \in Clone |-> <<>>] /\ writes = [k \in Clone |-> <<>>]
        /\ due = Clone /\ crossed = {} /\ muddled = {} /\ moves = {}
        /\ seen = [k \in Clone |-> {}]
        /\ acked = {} /\ raced = {} /\ reread = {}

Serve(k) ==
    \/ createIssue(k) \/ reconcileFull(k) \/ applyRekey(k) \/ Crash(k) \/ writeOp(k)
    \/ \E c \in NoteIds, n \in Keys : addComment(k, c, n)
    \/ \E c \in NoteIds, op \in Ops : appendOp(k, c, op)

Git(k) == push(k) \/ pull(k) \/ resolve(k) \/ \E c \in NoteIds : Touch(k, c)

Next == \E k \in Clone : Serve(k) \/ Git(k)

Spec == Init /\ [][Next]_vars

-----------------------------------------------------------------------------
(* Properties.                                                             *)

Calm(k) == plan[k] = <<>> /\ k \notin due

(* When a full pass has been made and its rekeys are written, no two shown *)
(* issues have one key, unless an issue was created or pulled between the  *)
(* plan and the last of its writes.  And a key that an issue has had on a  *)
(* clone still finds an issue there: that one, or the one that holds the   *)
(* key now.                                                                *)
KeysSettle ==
    \A k \in Clone : Calm(k) =>
        /\ k \in crossed \/ \A p, q \in OKs(k) : p # q => Row(k, p).key # Row(k, q).key
        /\ \A u \in Held(k) \ muddled : \A n \in had[k][u] : findIssue(k, n) # {}

(* An issue loses its key only to one that was made before it, unless the  *)
(* board has changed since the plan.                                       *)
EarliestKeeps ==
    [][\A m \in moves' \ moves : m.uid \in muddled' \/ \E f \in {origin.issues[p] : p \in Places}
                                       \cup UNION {{tree[k].issues[p] : p \in Places} : k \in Clone} :
           Readable(f) /\ f.uid < m.uid /\ m.from \in {f.key} \cup f.former]_vars

(* The same issues and keys in two clones, or in one before and after a    *)
(* crash that cut the plan short: an issue is given the same new key.      *)
SameIssuesSameKeys ==
    \A m, n \in moves : m.uid = n.uid /\ m.of = n.of /\ m.of # {} => m.to = n.to

(* An op that was acknowledged stays in the log of its comment, unless an  *)
(* op of the comment was in flight while its log changed.                  *)
OpsAreKept ==
    \A a \in acked : a.note \in raced \/
        LET log == tree[a.at].logs[a.note]
        IN a.id \in {line.id : line \in Range(log.lines) \cup Range(log.theirs)}

(* What a clone shows of a comment is what its log says, however the lines *)
(* came together; but a body that is read again takes the log's word away. *)
CommentsAreReplayed ==
    \A k \in Clone, c \in NoteIds :
        LET note == notes[k][c]
        IN note.row # None /\ ~Marked(note.known.log) /\ <<k, c>> \notin reread
           => /\ note.row.resolved = replay(Fresh, note.known.log.lines).resolved
              /\ note.row.deleted = replay(Fresh, note.known.log.lines).deleted
=============================================================================
