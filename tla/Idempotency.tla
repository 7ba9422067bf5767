----------------------------- MODULE Idempotency -----------------------------
(***************************************************************************)
(* Idempotency keys of create requests: withIdempotency and                *)
(* replayIdempotent (server/http.ts) over the idempotency table of         *)
(* storage/outbox.ts, composed with the journal's promise (AtomicWrites).  *)
(*                                                                         *)
(* A key is reserved before the handler runs, learns its target from       *)
(* inside the write path, and stores the response after it was sent.  The  *)
(* reservation, the journal row and the target are three commits.          *)
(***************************************************************************)
EXTENDS Naturals, FiniteSets

CONSTANTS
    Clients,     \* requests in flight at one time
    Keys,        \* (actor, Idempotency-Key) pairs
    Requests,    \* request bodies, told apart by their canonical hash
    Issues,      \* the requests among them that create an issue, not a run or a comment
    NoWrite,
    MaxWrites,   \* bound: writes the journal ever accepts
    MaxCrashes,  \* bound: crashes of the server
    MaxFailures, \* bound: errors after the journal accepted a write
    MaxAges,     \* bound: times a key passes its 24 hours
    MaxEdits     \* bound: changes from outside to what was created

ASSUME IdempotencyAssumption ==
    /\ Keys # {} /\ Requests # {} /\ Issues \subseteq Requests
    /\ MaxWrites \in Nat /\ MaxCrashes \in Nat /\ MaxFailures \in Nat /\ MaxAges \in Nat
    /\ MaxEdits \in Nat

VARIABLES
    store, writes, phase,   \* the journal: see AtomicWrites
    records,     \* the idempotency table, by key
    handlers,    \* what the handler of each request in flight is doing
    mode,        \* "up", "replaying" or "down"
    (* history and bounds *)
    made,        \* for which key, and which life of it, a write was accepted
    life,        \* how often a key has been forgotten because it was too old
    exposed,     \* lives of keys whose release the journal did not agree with
    answers,     \* which entity each successful answer named, and what it showed of it
    supplanted,  \* writes whose file somebody outside replaced by another
    budget

journal == <<store, writes, phase>>
ghosts == <<made, life, exposed, answers, supplanted>>
vars == <<store, writes, phase, records, handlers, mode, made, life, exposed, answers,
          supplanted, budget>>

Writes == 1..MaxWrites

(* A path holds nothing, what the write for it was to put there, or a file *)
(* of somebody else's.                                                     *)
Contents == {"absent", "present", "foreign"}

J == INSTANCE AtomicWrites WITH Paths <- Writes, Hashes <- Contents, Seqs <- Writes

NoRecord == [state |-> "NONE", req |-> CHOOSE r \in Requests : TRUE,
             body |-> 0, target |-> 0, old |-> FALSE]
Records == [state: {"NONE", "IN_PROGRESS", "DONE"}, req: Requests,
            body: 0..MaxWrites, target: 0..MaxWrites, old: BOOLEAN]

Free == [at |-> "free", key |-> CHOOSE k \in Keys : TRUE,
         req |-> CHOOSE r \in Requests : TRUE, write |-> 0]
Handlers == [at: {"free", "running", "begun", "noted", "written", "answered"},
             key: Keys, req: Requests, write: 0..MaxWrites]

NoMaker == [key |-> CHOOSE k \in Keys : TRUE, life |-> 0, by |-> FALSE]

Init ==
    /\ store = [w \in Writes |-> "absent"] /\ writes = [w \in Writes |-> NoWrite]
    /\ phase = [w \in Writes |-> "free"]
    /\ records = [k \in Keys |-> NoRecord]
    /\ handlers = [c \in Clients |-> Free]
    /\ mode = "up"
    /\ made = [w \in Writes |-> NoMaker] /\ life = [k \in Keys |-> 0]
    /\ exposed = {} /\ answers = {} /\ supplanted = {}
    /\ budget = [crashes |-> 0, failures |-> 0, ages |-> 0, edits |-> 0]

Unfinished == {w \in Writes : phase[w] \in {"accepted", "landed", "logged"}}

(* #writeNow is synchronous: while one handler is inside it, no other code *)
(* of the server runs.                                                     *)
InsideWrite == \E c \in Clients : handlers[c].at \in {"begun", "noted"}
Awake(c, at) == mode = "up" /\ ~InsideWrite /\ handlers[c].at = at
Goto(c, at) == handlers' = [handlers EXCEPT ![c].at = at]

Answer(k, r, w, shown) ==
    answers' = answers \cup {[key |-> k, life |-> life'[k], req |-> r, entity |-> w,
                              shows |-> shown]}

-----------------------------------------------------------------------------
(* reserveIdempotency: the record of an old key is deleted first.          *)

Held(k) == records[k].state # "NONE" /\ ~records[k].old
Forget(k) == life' = IF records[k].old THEN [life EXCEPT ![k] = @ + 1] ELSE life

Claim(c, k, r) ==
    /\ Awake(c, "free") /\ ~Held(k)
    /\ records' = [records EXCEPT ![k] = [NoRecord EXCEPT !.state = "IN_PROGRESS", !.req = r]]
    /\ Forget(k)
    /\ handlers' = [handlers EXCEPT ![c] = [at |-> "running", key |-> k, req |-> r, write |-> 0]]
    /\ UNCHANGED <<journal, mode, made, exposed, answers, supplanted, budget>>

(* replayIdempotent: the stored body, else the issue the target names,     *)
(* whoever put it there.  A run or a comment has no key to be read back by,*)
(* and the answer is 409, as for "mismatch" and "in_progress".             *)
ReadBack(k) ==
    IF records[k].body # 0 THEN records[k].body
    ELSE IF /\ records[k].target # 0 /\ records[k].req \in Issues
            /\ store[records[k].target] # "absent"
         THEN records[k].target
    ELSE 0

Shown(k) == IF records[k].body # 0 THEN "present" ELSE store[records[k].target]

Replay_AnyRequest(c, k, r) ==
    /\ Awake(c, "free") /\ Held(k)
    /\ records[k].state = "DONE" /\ ReadBack(k) # 0
    /\ UNCHANGED life
    /\ Answer(k, r, ReadBack(k), Shown(k))
    /\ UNCHANGED <<journal, records, handlers, mode, made, exposed, supplanted, budget>>

Replay(c, k, r) ==
    /\ Awake(c, "free") /\ Held(k)
    /\ records[k].req = r /\ records[k].state = "DONE" /\ ReadBack(k) # 0
    /\ UNCHANGED life
    /\ Answer(k, r, ReadBack(k), Shown(k))
    /\ UNCHANGED <<journal, records, handlers, mode, made, exposed, supplanted, budget>>

-----------------------------------------------------------------------------
(* The handler of a request that claimed its key.                          *)

(* A refusal, or an exception, before the write: the key is given back.    *)
Refuse(c) ==
    /\ Awake(c, "running")
    /\ records' = [records EXCEPT ![handlers[c].key] =
                      IF @.state = "IN_PROGRESS" THEN NoRecord ELSE @]
    /\ Goto(c, "free")
    /\ UNCHANGED <<journal, mode, ghosts, budget>>

(* outbox.begin, with a path of its own for what is created.               *)
Begin(c) ==
    /\ Awake(c, "running")
    /\ \E w \in Writes :
          /\ phase[w] = "free" /\ \A v \in 1..(w - 1) : phase[v] # "free"
          /\ J!Accept(w, [kind |-> "file", path |-> w, before |-> "absent",
                          result |-> "present", logs |-> TRUE])
          /\ handlers' = [handlers EXCEPT ![c].at = "begun", ![c].write = w]
          /\ made' = [made EXCEPT ![w] = [key |-> handlers[c].key,
                                          life |-> life[handlers[c].key], by |-> TRUE]]
    /\ UNCHANGED <<records, mode, life, exposed, answers, supplanted, budget>>

(* noteIdempotencyTarget: a second commit.                                 *)

Note(c) ==
    /\ mode = "up" /\ handlers[c].at = "begun"
    /\ records' = [records EXCEPT ![handlers[c].key].target =
                      IF records[handlers[c].key].state = "IN_PROGRESS"
                      THEN handlers[c].write ELSE @]
    /\ Goto(c, "noted")
    /\ UNCHANGED <<journal, mode, ghosts, budget>>

Roll(w) == J!Land(w) \/ J!Log(w) \/ J!Finish(w)

Apply(c) ==
    /\ mode = "up" /\ handlers[c].at = "noted"
    /\ Roll(handlers[c].write)
    /\ IF phase'[handlers[c].write] = "finished" THEN Goto(c, "written") ELSE UNCHANGED handlers
    /\ UNCHANGED <<records, mode, ghosts, budget>>

(* An error once the journal has the row, or when what was written cannot  *)
(* be read back: the catch of withIdempotency gives the key back, and the  *)
(* row stays where it is until the next start-up.                          *)
Fail(c) ==
    /\ mode = "up" /\ handlers[c].at \in {"begun", "noted", "written"}
    /\ budget.failures < MaxFailures
    /\ records' = [records EXCEPT ![handlers[c].key] =
                      IF @.state = "IN_PROGRESS" THEN NoRecord ELSE @]
    /\ exposed' = exposed \cup {[key |-> handlers[c].key, life |-> life[handlers[c].key]]}
    /\ Goto(c, "free")
    /\ budget' = [budget EXCEPT !.failures = @ + 1]
    /\ UNCHANGED <<journal, mode, made, life, answers, supplanted>>

(* The response shows what the write left in the index.  It goes out first;*)
(* completeIdempotency follows.                                            *)
Respond(c) ==
    /\ Awake(c, "written")
    /\ UNCHANGED life
    /\ Answer(handlers[c].key, handlers[c].req, handlers[c].write, "present")
    /\ Goto(c, "answered")
    /\ UNCHANGED <<journal, records, mode, made, exposed, supplanted, budget>>

Complete(c) ==
    /\ Awake(c, "answered")
    /\ records' = [records EXCEPT ![handlers[c].key] =
                      IF @.state = "NONE" THEN @
                      ELSE [@ EXCEPT !.state = "DONE", !.body = handlers[c].write]]
    /\ Goto(c, "free")
    /\ UNCHANGED <<journal, mode, ghosts, budget>>

-----------------------------------------------------------------------------
(* Crash and start-up: the journal first, then the keys.                   *)

Crash ==
    /\ mode # "down" /\ budget.crashes < MaxCrashes
    /\ mode' = "down"
    /\ handlers' = [c \in Clients |-> Free]
    /\ exposed' = exposed \cup
          {[key |-> handlers[c].key, life |-> life[handlers[c].key]] :
             c \in {d \in Clients : handlers[d].at = "begun"}}
    /\ budget' = [budget EXCEPT !.crashes = @ + 1]
    /\ UNCHANGED <<journal, records, made, life, answers, supplanted>>

Start ==
    /\ mode = "down" /\ mode' = "replaying"
    /\ UNCHANGED <<journal, records, handlers, ghosts, budget>>

(* BoardWriter.replay: a write whose file somebody else has replaced is    *)
(* given up; the key keeps the target it noted.                            *)
RollForward ==
    /\ mode = "replaying"
    /\ \E w \in Unfinished : Roll(w) \/ J!Abandon(w)
    /\ UNCHANGED <<records, handlers, mode, ghosts, budget>>

(* purgeIdempotency, then resolveOrphanedIdempotency.                      *)
Settled_Released(rec) ==
    IF rec.old \/ rec.state = "IN_PROGRESS" THEN NoRecord ELSE rec

Settled_Left(rec) == IF rec.old THEN NoRecord ELSE rec

Settled(rec) ==
    IF rec.old THEN NoRecord
    ELSE IF rec.state = "IN_PROGRESS"
         THEN IF rec.target # 0 THEN [rec EXCEPT !.state = "DONE"] ELSE NoRecord
    ELSE rec

ResolveOrphans ==
    /\ mode = "replaying" /\ Unfinished = {}
    /\ records' = [k \in Keys |-> Settled(records[k])]
    /\ life' = [k \in Keys |-> IF records[k].old THEN life[k] + 1 ELSE life[k]]
    /\ mode' = "up"
    /\ UNCHANGED <<journal, handlers, made, exposed, answers, supplanted, budget>>

(* 24 hours pass for a key no handler is working for.                      *)
GrowOld(k) ==
    /\ records[k].state # "NONE" /\ ~records[k].old /\ budget.ages < MaxAges
    /\ \A c \in Clients : handlers[c].at # "free" => handlers[c].key # k
    /\ records' = [records EXCEPT ![k].old = TRUE]
    /\ budget' = [budget EXCEPT !.ages = @ + 1]
    /\ UNCHANGED <<journal, handlers, mode, ghosts>>

(* Somebody outside the server (an editor, a checkout, a pull) removes the *)
(* file a write was to create, or puts another in its place.               *)
OutsideEdit(w, content) ==
    /\ ~InsideWrite /\ budget.edits < MaxEdits
    /\ phase[w] # "free" /\ content # store[w]
    /\ J!OutsideChange(w, content)
    /\ supplanted' = IF content = "foreign" THEN supplanted \cup {w} ELSE supplanted
    /\ budget' = [budget EXCEPT !.edits = @ + 1]
    /\ UNCHANGED <<records, handlers, mode, made, life, exposed, answers>>

-----------------------------------------------------------------------------
Handle(c) == Refuse(c) \/ Begin(c) \/ Note(c) \/ Apply(c) \/ Respond(c) \/ Complete(c)
Recover == Start \/ RollForward \/ ResolveOrphans

Next ==
    \/ \E c \in Clients, k \in Keys, r \in Requests : Claim(c, k, r) \/ Replay(c, k, r)
    \/ \E c \in Clients : Handle(c) \/ Fail(c)
    \/ Recover \/ Crash
    \/ \E k \in Keys : GrowOld(k)
    \/ \E w \in Writes, content \in {"absent", "foreign"} : OutsideEdit(w, content)

(* A handler the event loop runs is not held up for ever, and a stopped    *)
(* server is started again.                                                *)
Spec == Init /\ [][Next]_vars /\ WF_vars(Recover) /\ \A c \in Clients : WF_vars(Handle(c))

(* X_Y is X with the plausible mistake Y; Next uses none of them.          *)

-----------------------------------------------------------------------------
(* Properties.                                                             *)

Lives == [key: Keys, life: 0..MaxAges]

TypeOK ==
    /\ J!TypeOK
    /\ records \in [Keys -> Records] /\ handlers \in [Clients -> Handlers]
    /\ mode \in {"up", "replaying", "down"}
    /\ made \in [Writes -> [key: Keys, life: 0..MaxAges, by: BOOLEAN]]
    /\ life \in [Keys -> 0..MaxAges] /\ exposed \subseteq Lives
    /\ answers \subseteq [key: Keys, life: 0..MaxAges, req: Requests, entity: Writes,
                          shows: Contents \ {"absent"}]
    /\ supplanted \subseteq Writes

ProducedBy(l) ==
    {w \in Writes : /\ phase[w] # "free"
                    /\ made[w].by /\ made[w].key = l.key /\ made[w].life = l.life}

(* While it is protected, a key makes one entity, however often the request*)
(* is sent and the server dies (r15 AC10): unless its release fell between *)
(* the journal's commit and the commit of its target, or came after an     *)
(* error in the write (outbox.ts:284-306, http.ts:141-148).                *)
OneEntityUnlessExposed ==
    \A l \in Lives \ exposed : Cardinality(ProducedBy(l)) <= 1

(* Every successful answer of one life of a key answers the same request   *)
(* and names the one entity this life made (http.ts:119-140, S3-D4), and   *)
(* what an answer shows as that entity had reached the disk.  An answer may*)
(* differ from the first only where somebody outside replaced the file: a  *)
(* key that kept only its target is answered with whatever is found there  *)
(* (http.ts:1181-1189), after an aborted replay too (writer.ts:235-241).   *)
RepeatsGetTheFirstAnswer ==
    \A x \in answers :
        /\ x.shows = "present" => phase[x.entity] \notin {"free", "accepted"}
        /\ [key |-> x.key, life |-> x.life] \notin exposed =>
              /\ x.entity \in ProducedBy([key |-> x.key, life |-> x.life])
              /\ x.shows = "foreign" => x.entity \in supplanted
              /\ \A y \in answers : /\ x.key = y.key /\ x.life = y.life
                                   => /\ x.entity = y.entity /\ x.req = y.req
                                      /\ x.shows # y.shows => x.entity \in supplanted

(* "Still being processed" comes true in the end (outbox.ts:294-296).      *)
NoKeyStaysInProgress ==
    \A k \in Keys : (records[k].state = "IN_PROGRESS") ~> (records[k].state # "IN_PROGRESS")
=============================================================================
