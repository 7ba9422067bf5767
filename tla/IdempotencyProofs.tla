-------------------------- MODULE IdempotencyProofs --------------------------
(***************************************************************************)
(* Theorems about Idempotency for every set of keys, requests and clients  *)
(* and every bound.                                                        *)
(***************************************************************************)
EXTENDS Idempotency, FiniteSetTheorems, TLAPS

-----------------------------------------------------------------------------
(* The inductive invariant.  A life of a key is a time in which the key is *)
(* remembered; `exposed` names the lives the properties make no promise    *)
(* for.  MaxAges bounds how often a key grows old, over all keys; nothing  *)
(* below depends on it.                                                    *)

Answers == [key: Keys, life: Nat, req: Requests, entity: Writes, shows: Contents]

(* The write has put its file there, whatever became of the file since.    *)
Landed(w) == phase[w] \notin {"free", "accepted"}

Typed ==
    /\ store \in [Writes -> Contents]
    /\ writes \in [Writes -> J!WriteRecord \cup {NoWrite}]
    /\ phase \in [Writes -> {"free", "accepted", "landed", "logged", "finished", "abandoned"}]
    /\ records \in [Keys -> Records] /\ handlers \in [Clients -> Handlers]
    /\ made \in [Writes -> [key: Keys, life: Nat, by: BOOLEAN]]
    /\ life \in [Keys -> Nat]
    /\ answers \subseteq Answers

Here(k) == [key |-> k, life |-> life[k]]
LifeOf(x) == [key |-> x.key, life |-> x.life]

(* Write w was made in the present life of key k.                          *)
Mine(w, k) ==
    /\ w \in Writes /\ phase[w] # "free"
    /\ made[w].key = k /\ made[w].life = life[k]

Creation(w) == [kind |-> "file", path |-> w, before |-> "absent", result |-> "present",
                logs |-> TRUE]

(* The journal has creations only; what is on disk was put there by its    *)
(* write or by somebody outside.                                           *)
Journalled ==
    \A w \in Writes :
        /\ store[w] = "present" => Landed(w)
        /\ store[w] = "foreign" => w \in supplanted
        /\ phase[w] # "free" => /\ writes[w] = Creation(w) /\ made[w].by
                                /\ made[w].life <= life[made[w].key]

(* A handler that claimed its key has it to itself until it is done.       *)
Owns(c, k) == handlers[c].at # "free" /\ handlers[c].key = k

Grip(c, k) ==
    /\ mode = "up" /\ records[k].state = "IN_PROGRESS" /\ ~records[k].old
    /\ records[k].req = handlers[c].req
    /\ \A d \in Clients : Owns(d, k) => c = d
    /\ handlers[c].at # "running" => Mine(handlers[c].write, k)
    /\ records[k].target = IF handlers[c].at \in {"running", "begun"} THEN 0
                           ELSE handlers[c].write
    /\ handlers[c].at \in {"written", "answered"} => Landed(handlers[c].write)

Holding == \A c \in Clients, k \in Keys : Owns(c, k) => Grip(c, k)

Single ==
    \A v, w \in Writes :
        /\ phase[v] # "free" /\ phase[w] # "free"
        /\ made[v].key = made[w].key /\ made[v].life = made[w].life
        /\ LifeOf(made[v]) \notin exposed
        => v = w

(* What a key has made is in its record, or in the hands of the handler    *)
(* that has not noted it yet.                                              *)
Recalls(k) ==
    /\ records[k].body # 0 => Landed(records[k].body)
    /\ Here(k) \notin exposed =>
          /\ records[k].target # 0 => Mine(records[k].target, k)
          /\ records[k].body # 0 => Mine(records[k].body, k)
          /\ \A w \in Writes : Mine(w, k) =>
                /\ records[k].state # "NONE"
                /\ \/ records[k].target = w
                   \/ \E c \in Clients : /\ handlers[c].at = "begun"
                                         /\ handlers[c].key = k /\ handlers[c].write = w

Remembered == \A k \in Keys : Recalls(k)

(* What an answer showed was written, or put there by somebody outside.    *)
Real(x) ==
    /\ x.shows \in {"present", "foreign"}
    /\ x.shows = "present" => Landed(x.entity)
    /\ x.shows = "foreign" => x.entity \in supplanted

Answered ==
    \A x \in answers :
        /\ Real(x) /\ x.life <= life[x.key]
        /\ LifeOf(x) \notin exposed =>
              /\ phase[x.entity] # "free"
              /\ made[x.entity].key = x.key /\ made[x.entity].life = x.life
              /\ x.life = life[x.key] => records[x.key].req = x.req
              /\ \A y \in answers : y.key = x.key /\ y.life = x.life => y.req = x.req

KeyInv == Typed /\ Journalled /\ Holding /\ Single /\ Remembered /\ Answered

-----------------------------------------------------------------------------
(* Lemmas about the data.                                                  *)

LEMMA WriteNumbers == Writes \subseteq Nat \ {0} /\ Writes \subseteq 0..MaxWrites
BY IdempotencyAssumption DEF Writes

LEMMA EmptyRecord ==
    /\ NoRecord \in Records /\ NoRecord.state = "NONE" /\ NoRecord.body = 0
    /\ NoRecord.target = 0 /\ ~NoRecord.old
<1>1. (CHOOSE r \in Requests : TRUE) \in Requests /\ 0 \in 0..MaxWrites
  BY IdempotencyAssumption
<1>2. PICK q \in Requests : q = (CHOOSE r \in Requests : TRUE)
  BY <1>1
<1>3. NoRecord = [state |-> "NONE", req |-> q, body |-> 0, target |-> 0, old |-> FALSE]
  BY <1>2 DEF NoRecord
<1>4. NoRecord \in Records
  BY <1>1, <1>3 DEF Records
<1>5. NoRecord.state = "NONE" /\ NoRecord.body = 0 /\ NoRecord.target = 0
  BY <1>3
<1>6. ~NoRecord.old
  BY <1>3
<1> QED BY <1>4, <1>5, <1>6

LEMMA NewRecord ==
    ASSUME NEW r \in Requests, NEW d,
           d = [NoRecord EXCEPT !.state = "IN_PROGRESS", !.req = r]
    PROVE  /\ d \in Records /\ d.state = "IN_PROGRESS" /\ d.req = r
           /\ d.body = 0 /\ d.target = 0 /\ ~d.old
BY EmptyRecord DEF Records

LEMMA FreeHandler == Free \in Handlers /\ Free.at = "free"
<1>1. /\ (CHOOSE r \in Requests : TRUE) \in Requests /\ 0 \in 0..MaxWrites
      /\ (CHOOSE k \in Keys : TRUE) \in Keys
  BY IdempotencyAssumption
<1> QED BY <1>1 DEF Free, Handlers

LEMMA GotoStep ==
    ASSUME Typed, NEW c \in Clients,
           NEW at \in {"free", "running", "begun", "noted", "written", "answered"}, Goto(c, at)
    PROVE  /\ handlers' \in [Clients -> Handlers]
           /\ handlers'[c].at = at /\ handlers'[c].key = handlers[c].key
           /\ handlers'[c].req = handlers[c].req /\ handlers'[c].write = handlers[c].write
           /\ \A d \in Clients : d # c => handlers'[d] = handlers[d]
<1>1. handlers \in [Clients -> Handlers]
  BY DEF Typed
<1> QED BY <1>1 DEF Goto, Handlers

LEMMA HandlerFields ==
    ASSUME Typed, NEW c \in Clients
    PROVE  handlers[c].key \in Keys /\ handlers[c].req \in Requests
           /\ handlers[c].write \in 0..MaxWrites
BY DEF Typed, Handlers

LEMMA RecordFields ==
    ASSUME Typed, NEW k \in Keys
    PROVE  /\ records[k] \in Records /\ records[k].req \in Requests
           /\ records[k].body \in 0..MaxWrites /\ records[k].target \in 0..MaxWrites
           /\ records[k].old \in BOOLEAN
BY DEF Typed, Records

(* A write of the journal rolls on: it stays accepted, and what has landed *)
(* has landed for good.                                                    *)
Rolled ==
    /\ writes' = writes /\ supplanted \subseteq supplanted'
    /\ store' \in [Writes -> Contents]
    /\ phase' \in [Writes -> {"free", "accepted", "landed", "logged", "finished", "abandoned"}]
    /\ \A v \in Writes :
          /\ phase'[v] = "free" <=> phase[v] = "free"
          /\ Landed(v) => Landed(v)'
          /\ store'[v] = "present" => Landed(v)'
          /\ store'[v] = "foreign" => v \in supplanted'

LEMMA RollStep ==
    ASSUME Typed, Journalled, NEW w \in Writes, phase[w] # "free",
           Roll(w) \/ J!Abandon(w), supplanted' = supplanted
    PROVE  Rolled
<1>0. /\ writes[w] = Creation(w)
      /\ \A v \in Writes : store[v] = "present" => Landed(v)
      /\ \A v \in Writes : store[v] = "foreign" => v \in supplanted
  BY DEF Journalled
<1>1. writes[w].path = w /\ writes[w].result = "present"
  BY <1>0 DEF Creation
<1>2. CASE J!Land(w)
  BY <1>0, <1>1, <1>2 DEF J!Land, Rolled, Typed, Landed, Contents
<1>3. CASE J!Log(w)
  BY <1>0, <1>1, <1>3 DEF J!Log, J!To, Rolled, Typed, Landed
<1>4. CASE J!Finish(w)
  BY <1>0, <1>1, <1>4 DEF J!Finish, J!To, Rolled, Typed, Landed
<1>5. CASE J!Abandon(w)
  BY <1>0, <1>1, <1>5 DEF J!Abandon, J!To, Rolled, Typed, Landed
<1> QED BY <1>2, <1>3, <1>4, <1>5 DEF Roll

LEMMA KeptJournal ==
    ASSUME Typed, Journalled, UNCHANGED journal, supplanted' = supplanted
    PROVE  Rolled
BY DEF Rolled, journal, Typed, Journalled, Landed

-----------------------------------------------------------------------------
(* What a handler's step leaves alone: the keys of the other handlers.     *)

Only(c, k0) ==
    /\ \A d \in Clients : d # c => handlers'[d] = handlers[d] /\ ~Owns(d, k0)
    /\ handlers'[c].at = "free" \/ handlers'[c].key = k0
    /\ \A k \in Keys : k # k0 => records'[k] = records[k] /\ life'[k] = life[k]
    /\ \A w \in Writes :
          /\ phase[w] # "free" => phase'[w] # "free" /\ made'[w] = made[w]
          /\ phase'[w] # "free" => phase[w] # "free" \/ made'[w].key = k0
          /\ Landed(w) => Landed(w)'
    /\ exposed \subseteq exposed' /\ mode' = mode

LEMMA OthersHold ==
    ASSUME Typed, Holding, NEW c \in Clients, NEW k0 \in Keys, Only(c, k0),
           NEW d \in Clients, d # c, NEW k \in Keys, Owns(d, k)'
    PROVE  Grip(d, k)'
<1>1. handlers'[d] = handlers[d] /\ Owns(d, k) /\ k # k0
  BY DEF Only, Owns
<1>2. Grip(d, k)
  BY <1>1 DEF Holding
<1>3. records'[k] = records[k] /\ life'[k] = life[k] /\ mode' = mode
  BY <1>1 DEF Only
<1>4. \A e \in Clients : Owns(e, k)' => d = e
  BY <1>1, <1>2 DEF Only, Owns, Grip
<1>5. \A w \in Writes : /\ Mine(w, k) => phase'[w] # "free" /\ made'[w] = made[w]
                        /\ Landed(w) => Landed(w)'
  BY DEF Only, Mine
<1>6. handlers[d].at # "running" => Mine(handlers[d].write, k)'
  BY <1>1, <1>2, <1>3, <1>5 DEF Grip, Mine
<1>7. handlers[d].at \in {"written", "answered"} => Landed(handlers[d].write)'
  BY <1>1, <1>2, <1>5 DEF Grip, Mine, Landed
<1> QED BY <1>1, <1>2, <1>3, <1>4, <1>6, <1>7 DEF Grip

LEMMA OthersRecall ==
    ASSUME Typed, Remembered, NEW c \in Clients, NEW k0 \in Keys, Only(c, k0),
           handlers[c].at = "begun" => handlers[c].key = k0,
           NEW k \in Keys, k # k0
    PROVE  Recalls(k)'
<1>1. Recalls(k) /\ records'[k] = records[k] /\ life'[k] = life[k]
  BY DEF Remembered, Only
<1>2. records[k].body # 0 => records[k].body \in Writes
  BY RecordFields, IdempotencyAssumption DEF Writes
<1>3. records'[k].body # 0 => Landed(records[k].body)'
  BY <1>1, <1>2 DEF Recalls, Only
<1>4. Here(k)' = Here(k) /\ (Here(k)' \notin exposed' => Here(k) \notin exposed)
  BY <1>1 DEF Here, Only
<1>5. \A w \in Writes : Mine(w, k)' <=> Mine(w, k)
  BY <1>1 DEF Only, Mine
<1>6. \A w : Mine(w, k) => w \in Writes
  BY DEF Mine
<1>7. \A w \in Writes, d \in Clients :
         handlers[d].at = "begun" /\ handlers[d].key = k /\ handlers[d].write = w
         => handlers'[d].at = "begun" /\ handlers'[d].key = k /\ handlers'[d].write = w
  BY DEF Only
<1>8. ASSUME Here(k)' \notin exposed'
      PROVE  /\ records'[k].target # 0 => Mine(records[k].target, k)'
             /\ records'[k].body # 0 => Mine(records[k].body, k)'
  BY <1>1, <1>4, <1>5, <1>6, <1>8 DEF Recalls
<1>9. ASSUME Here(k)' \notin exposed', NEW w \in Writes, Mine(w, k)'
      PROVE  /\ records'[k].state # "NONE"
             /\ \/ records'[k].target = w
                \/ \E d \in Clients : /\ handlers'[d].at = "begun"
                                      /\ handlers'[d].key = k /\ handlers'[d].write = w
  BY <1>1, <1>4, <1>5, <1>7, <1>9 DEF Recalls
<1> QED BY <1>1, <1>3, <1>8, <1>9 DEF Recalls

-----------------------------------------------------------------------------
(* What the journal and the answers owe the earlier ones.                  *)

SameMakers ==
    /\ made' = made /\ exposed \subseteq exposed'
    /\ life' \in [Keys -> Nat] /\ \A k \in Keys : life[k] <= life'[k]

LEMMA JournalledKept ==
    ASSUME Typed, Journalled, Rolled, SameMakers
    PROVE  Journalled'
<1> SUFFICES ASSUME NEW w \in Writes, phase'[w] # "free"
             PROVE  /\ writes'[w] = Creation(w)
                    /\ made'[w].by /\ made'[w].life <= life'[made'[w].key]
  BY DEF Journalled, Creation, Rolled
<1>1. phase[w] # "free" /\ writes'[w] = writes[w] /\ made'[w] = made[w]
  BY DEF Rolled, SameMakers
<1>2. made[w].key \in Keys /\ made[w].life \in Nat
  BY DEF Typed
<1>3. /\ made[w].life <= life[made[w].key] /\ life[made[w].key] <= life'[made[w].key]
      /\ life[made[w].key] \in Nat /\ life'[made[w].key] \in Nat
  BY <1>1, <1>2 DEF Journalled, SameMakers, Typed
<1>4. made[w].life <= life'[made[w].key]
  BY <1>2, <1>3
<1> QED BY <1>1, <1>4 DEF Journalled, Rolled

LEMMA SingleKept ==
    ASSUME Single, Rolled, SameMakers
    PROVE  Single'
BY DEF Single, Rolled, SameMakers, LifeOf

LEMMA AnswersKept ==
    ASSUME Typed, Answered, Rolled, SameMakers, answers' = answers,
           \A k \in Keys : \/ life'[k] = life[k] + 1
                           \/ life'[k] = life[k] /\ Here(k) \in exposed'
                           \/ life'[k] = life[k] /\ records'[k].req = records[k].req
                           \/ life'[k] = life[k] /\ \A w \in Writes : ~Mine(w, k)
    PROVE  Answered'
<1> SUFFICES ASSUME NEW x \in answers
             PROVE  /\ Real(x)' /\ x.life <= life'[x.key]
                    /\ LifeOf(x) \notin exposed' =>
                          /\ phase'[x.entity] # "free"
                          /\ made'[x.entity].key = x.key /\ made'[x.entity].life = x.life
                          /\ x.life = life'[x.key] => records'[x.key].req = x.req
                          /\ \A y \in answers : y.key = x.key /\ y.life = x.life
                                                => y.req = x.req
  BY DEF Answered, LifeOf
<1>1. x.key \in Keys /\ x.life \in Nat /\ x.entity \in Writes
  BY DEF Typed, Answers
<1>2. Real(x) /\ x.life <= life[x.key]
  BY DEF Answered
<1>3. life[x.key] \in Nat /\ life'[x.key] \in Nat /\ life[x.key] <= life'[x.key]
  BY <1>1 DEF Typed, SameMakers
<1>4. Real(x)' /\ x.life <= life'[x.key]
  <2>1. Real(x)'
    BY <1>1, <1>2 DEF Rolled, Real
  <2> QED BY <1>1, <1>2, <1>3, <2>1
<1>5. ASSUME LifeOf(x) \notin exposed'
      PROVE  /\ phase'[x.entity] # "free"
             /\ made'[x.entity].key = x.key /\ made'[x.entity].life = x.life
             /\ x.life = life'[x.key] => records'[x.key].req = x.req
             /\ \A y \in answers : y.key = x.key /\ y.life = x.life => y.req = x.req
  <2>1. /\ phase[x.entity] # "free"
        /\ made[x.entity].key = x.key /\ made[x.entity].life = x.life
        /\ x.life = life[x.key] => records[x.key].req = x.req
        /\ \A y \in answers : y.key = x.key /\ y.life = x.life => y.req = x.req
    BY <1>5 DEF Answered, SameMakers
  <2>2. phase'[x.entity] # "free" /\ made'[x.entity] = made[x.entity]
    BY <1>1, <2>1 DEF Rolled, SameMakers
  <2>3. ASSUME x.life = life'[x.key]
        PROVE  records'[x.key].req = x.req
    <3>1. x.life = life[x.key]
      BY <1>1, <1>2, <1>3, <2>3
    <3>2. LifeOf(x) = Here(x.key) /\ Mine(x.entity, x.key)
      BY <1>1, <2>1, <3>1 DEF LifeOf, Here, Mine
    <3>3. life'[x.key] # life[x.key] + 1
      BY <1>3, <3>1, <2>3
    <3> QED BY <1>1, <1>5, <2>1, <3>1, <3>2, <3>3
  <2> QED BY <2>1, <2>2, <2>3
<1> QED BY <1>4, <1>5

-----------------------------------------------------------------------------
(* Steps of a handler, between claiming its key and giving it up.          *)

LEMMA Busy ==
    ASSUME KeyInv, NEW c \in Clients, handlers[c].at # "free", NEW k0, k0 = handlers[c].key
    PROVE  /\ k0 \in Keys /\ Owns(c, k0) /\ Grip(c, k0)
           /\ \A d \in Clients : d # c => ~Owns(d, k0)
<1>1. k0 \in Keys /\ Owns(c, k0)
  BY HandlerFields DEF KeyInv, Owns
<1>2. Grip(c, k0)
  BY <1>1 DEF KeyInv, Holding
<1> QED BY <1>1, <1>2 DEF Grip

LEMMA NothingMade ==
    ASSUME KeyInv, NEW k \in Keys, Here(k) \notin exposed, records[k].target = 0,
           \A d \in Clients : ~(handlers[d].at = "begun" /\ handlers[d].key = k)
    PROVE  \A w \in Writes : ~Mine(w, k)
BY WriteNumbers DEF KeyInv, Remembered, Recalls

(* A step that makes no write and gives no answer.                         *)
LEMMA HandlerStep ==
    ASSUME KeyInv, NEW c \in Clients, NEW k0 \in Keys, handlers[c].at # "free",
           handlers[c].key = k0,
           Rolled, made' = made, life' = life, answers' = answers, mode' = mode,
           exposed \subseteq exposed',
           handlers' \in [Clients -> Handlers],
           \A d \in Clients : d # c => handlers'[d] = handlers[d],
           handlers'[c].at = "free" \/ handlers'[c].key = k0,
           records' \in [Keys -> Records],
           \A k \in Keys : k # k0 => records'[k] = records[k],
           \/ Here(k0) \in exposed'
           \/ records'[k0].req = records[k0].req
           \/ \A w \in Writes : ~Mine(w, k0),
           Owns(c, k0)' => Grip(c, k0)',
           Recalls(k0)'
    PROVE  KeyInv'
<1>1. Typed /\ Journalled /\ Holding /\ Single /\ Remembered /\ Answered
  BY DEF KeyInv
<1>2. SameMakers
  BY <1>1 DEF SameMakers, Typed
<1>3. Typed'
  BY <1>1 DEF Typed, Rolled
<1>4. Only(c, k0)
  <2>1. \A d \in Clients : d # c => ~Owns(d, k0)
    BY Busy
  <2> QED BY <2>1 DEF Only, Rolled
<1>5. Holding'
  <2> SUFFICES ASSUME NEW d \in Clients, NEW k \in Keys, Owns(d, k)'
               PROVE  Grip(d, k)'
    BY DEF Holding
  <2>1. CASE d # c
    BY <1>1, <1>4, <2>1, OthersHold
  <2>2. CASE d = c
    <3>1. k = k0
      BY <2>2 DEF Owns
    <3> QED BY <2>2, <3>1
  <2> QED BY <2>1, <2>2
<1>6. Remembered'
  <2>2. ASSUME NEW k \in Keys, k # k0
        PROVE  Recalls(k)'
    BY <1>1, <1>4, <2>2, OthersRecall
  <2> QED BY <2>2 DEF Remembered
<1>7. Answered'
  BY <1>1, <1>2, AnswersKept
<1> QED BY <1>1, <1>2, <1>3, <1>5, <1>6, <1>7, JournalledKept, SingleKept DEF KeyInv

LEMMA RefuseKeeps ==
    ASSUME KeyInv, NEW c \in Clients, Refuse(c)
    PROVE  KeyInv'
<1>1. PICK k0 : k0 = handlers[c].key
  OBVIOUS
<1>2. handlers[c].at = "running"
  BY DEF Refuse, Awake
<1>3. /\ k0 \in Keys /\ Owns(c, k0) /\ Grip(c, k0)
      /\ \A d \in Clients : d # c => ~Owns(d, k0)
  BY <1>1, <1>2, Busy
<1>4. /\ handlers' \in [Clients -> Handlers]
      /\ handlers'[c].at = "free" /\ handlers'[c].key = k0
      /\ \A d \in Clients : d # c => handlers'[d] = handlers[d]
  BY <1>1, GotoStep DEF Refuse, KeyInv
<1>5. /\ records' \in [Keys -> Records] /\ records'[k0] = NoRecord
      /\ \A k \in Keys : k # k0 => records'[k] = records[k]
  BY <1>1, <1>3, EmptyRecord DEF Refuse, Grip, KeyInv, Typed
<1>6. Rolled
  BY KeptJournal DEF Refuse, KeyInv, ghosts
<1>7. /\ made' = made /\ life' = life /\ answers' = answers /\ mode' = mode
      /\ exposed' = exposed /\ phase' = phase
  BY DEF Refuse, ghosts, journal
<1>8. Here(k0) \in exposed \/ \A w \in Writes : ~Mine(w, k0)
  <2>1. records[k0].target = 0
    BY <1>2, <1>3 DEF Grip
  <2>2. \A d \in Clients : ~(handlers[d].at = "begun" /\ handlers[d].key = k0)
    BY <1>2, <1>3 DEF Owns
  <2> QED BY <1>3, <2>1, <2>2, NothingMade
<1>9. Recalls(k0)'
  BY <1>5, <1>7, <1>8, EmptyRecord DEF Recalls, Here, Mine
<1>10. ~Owns(c, k0)'
  BY <1>4 DEF Owns
<1> QED BY <1>1, <1>2, <1>3, <1>4, <1>5, <1>6, <1>7, <1>8, <1>9, <1>10, HandlerStep

LEMMA NoteKeeps ==
    ASSUME KeyInv, NEW c \in Clients, Note(c)
    PROVE  KeyInv'
<1>1. PICK k0, w : k0 = handlers[c].key /\ w = handlers[c].write
  OBVIOUS
<1>2. handlers[c].at = "begun"
  BY DEF Note
<1>3. /\ k0 \in Keys /\ Owns(c, k0) /\ Grip(c, k0)
      /\ \A d \in Clients : d # c => ~Owns(d, k0)
  BY <1>1, <1>2, Busy
<1>4. /\ handlers' \in [Clients -> Handlers]
      /\ handlers'[c].at = "noted" /\ handlers'[c].key = k0
      /\ handlers'[c].req = handlers[c].req /\ handlers'[c].write = w
      /\ \A d \in Clients : d # c => handlers'[d] = handlers[d]
  BY <1>1, GotoStep DEF Note, KeyInv
<1>5. Mine(w, k0) /\ w \in Writes /\ w \in 0..MaxWrites /\ records[k0].state = "IN_PROGRESS"
  BY <1>1, <1>2, <1>3, WriteNumbers DEF Grip, Mine
<1>6. /\ records' \in [Keys -> Records]
      /\ \A k \in Keys : k # k0 => records'[k] = records[k]
      /\ records'[k0].target = w /\ records'[k0].state = "IN_PROGRESS"
      /\ records'[k0].req = records[k0].req /\ records'[k0].body = records[k0].body
      /\ records'[k0].old = records[k0].old
  <2>1. PICK r : r = [records[k0] EXCEPT !.target = w]
    OBVIOUS
  <2>2. records \in [Keys -> Records]
    BY DEF KeyInv, Typed
  <2>3. r \in Records /\ r.target = w /\ r.state = records[k0].state /\ r.old = records[k0].old
        /\ r.req = records[k0].req /\ r.body = records[k0].body
    BY <1>3, <1>5, <2>1, <2>2 DEF Records
  <2>4. records' = [records EXCEPT ![k0] = r]
    BY <1>1, <1>5, <2>1 DEF Note
  <2> QED BY <1>3, <1>5, <2>2, <2>3, <2>4
<1>7. Rolled
  BY KeptJournal DEF Note, KeyInv, ghosts
<1>8. /\ made' = made /\ life' = life /\ answers' = answers /\ mode' = mode
      /\ exposed' = exposed /\ phase' = phase /\ store' = store
  BY DEF Note, ghosts, journal
<1>9. \A v : Mine(v, k0)' <=> Mine(v, k0)
  BY <1>8 DEF Mine
<1>10. Recalls(k0)'
  <2>1. Recalls(k0)
    BY <1>3 DEF KeyInv, Remembered
  <2>2. ASSUME Here(k0) \notin exposed, NEW v \in Writes, Mine(v, k0)
        PROVE  v = w
    <3>1. records[k0].target = 0
      BY <1>2, <1>3 DEF Grip
    <3>2. v # 0
      BY WriteNumbers
    <3> QED BY <1>1, <1>3, <2>1, <2>2, <3>1, <3>2 DEF Recalls, Owns
  <2>3. Here(k0)' = Here(k0)
    BY <1>8 DEF Here
  <2> QED BY <1>5, <1>6, <1>8, <1>9, <2>1, <2>2, <2>3 DEF Recalls, Landed
<1>11. Grip(c, k0)'
  <2>1. \A d \in Clients : Owns(d, k0)' => c = d
    BY <1>3, <1>4 DEF Owns
  <2> QED BY <1>1, <1>3, <1>4, <1>5, <1>6, <1>8, <1>9, <2>1 DEF Grip
<1> QED BY <1>1, <1>2, <1>3, <1>4, <1>6, <1>7, <1>8, <1>10, <1>11, HandlerStep

LEMMA ApplyKeeps ==
    ASSUME KeyInv, NEW c \in Clients, Apply(c)
    PROVE  KeyInv'
<1>1. PICK k0, w : k0 = handlers[c].key /\ w = handlers[c].write
  OBVIOUS
<1>2. handlers[c].at = "noted"
  BY DEF Apply
<1>3. /\ k0 \in Keys /\ Owns(c, k0) /\ Grip(c, k0)
      /\ \A d \in Clients : d # c => ~Owns(d, k0)
  BY <1>1, <1>2, Busy
<1>4. Mine(w, k0) /\ w \in Writes
  BY <1>1, <1>2, <1>3 DEF Grip, Mine
<1>5. Rolled
  BY <1>1, <1>4, RollStep DEF Apply, Mine, KeyInv, ghosts
<1>6. /\ records' = records /\ made' = made /\ life' = life /\ answers' = answers
      /\ mode' = mode /\ exposed' = exposed
  BY DEF Apply, ghosts
<1>7. /\ handlers' \in [Clients -> Handlers]
      /\ handlers'[c].at \in {"noted", "written"} /\ handlers'[c].key = k0
      /\ handlers'[c].req = handlers[c].req /\ handlers'[c].write = w
      /\ \A d \in Clients : d # c => handlers'[d] = handlers[d]
      /\ handlers'[c].at = "written" => phase'[w] = "finished"
  <2>1. CASE phase'[w] = "finished"
    BY <1>1, <2>1, GotoStep DEF Apply, KeyInv
  <2>2. CASE phase'[w] # "finished"
    BY <1>1, <1>2, <2>2 DEF Apply, KeyInv, Typed
  <2> QED BY <2>1, <2>2
<1>8. \A v \in Writes : Mine(v, k0)' <=> Mine(v, k0)
  BY <1>5, <1>6 DEF Mine, Rolled
<1>9. Recalls(k0)'
  <2>1. Recalls(k0) /\ Here(k0)' = Here(k0)
    BY <1>3, <1>6 DEF KeyInv, Remembered, Here
  <2>2. \A v : Mine(v, k0) => v \in Writes
    BY DEF Mine
  <2>3. records[k0].body # 0 => records[k0].body \in Writes
    BY <1>3, RecordFields, IdempotencyAssumption DEF Writes, KeyInv
  <2>4. (records[k0].body # 0 => Landed(records[k0].body))'
    BY <1>5, <1>6, <2>1, <2>3 DEF Recalls, Rolled, Landed
  <2>5. ASSUME Here(k0) \notin exposed, NEW v \in Writes, Mine(v, k0)
        PROVE  records[k0].state # "NONE" /\ records[k0].target = v
    BY <1>2, <1>3, <2>1, <2>5 DEF Recalls, Owns
  <2>6. ASSUME Here(k0)' \notin exposed'
        PROVE  /\ records'[k0].target # 0 => Mine(records[k0].target, k0)'
               /\ records'[k0].body # 0 => Mine(records[k0].body, k0)'
    BY <1>6, <1>8, <2>1, <2>2, <2>6 DEF Recalls
  <2> QED BY <1>6, <1>8, <2>1, <2>4, <2>5, <2>6 DEF Recalls, Landed
<1>10. Grip(c, k0)'
  <2>1. \A d \in Clients : Owns(d, k0)' => c = d
    BY <1>3, <1>7 DEF Owns
  <2>2. handlers'[c].at = "written" => Landed(w)'
    BY <1>7 DEF Landed
  <2>3. Mine(w, k0)'
    BY <1>4, <1>8
  <2> QED BY <1>1, <1>2, <1>3, <1>6, <1>7, <2>1, <2>2, <2>3 DEF Grip
<1>11. records' \in [Keys -> Records]
  BY <1>6 DEF KeyInv, Typed
<1> QED BY <1>1, <1>2, <1>3, <1>5, <1>6, <1>7, <1>9, <1>10, <1>11, HandlerStep

LEMMA FailKeeps ==
    ASSUME KeyInv, NEW c \in Clients, Fail(c)
    PROVE  KeyInv'
<1>1. PICK k0 : k0 = handlers[c].key
  OBVIOUS
<1>2. handlers[c].at \in {"begun", "noted", "written"}
  BY DEF Fail
<1>3. k0 \in Keys /\ Owns(c, k0) /\ Grip(c, k0)
  BY <1>1, <1>2, Busy
<1>4. /\ handlers' \in [Clients -> Handlers]
      /\ handlers'[c].at = "free" /\ handlers'[c].key = k0
      /\ \A d \in Clients : d # c => handlers'[d] = handlers[d]
  BY <1>1, GotoStep DEF Fail, KeyInv
<1>5. /\ records' \in [Keys -> Records] /\ records'[k0] = NoRecord
      /\ \A k \in Keys : k # k0 => records'[k] = records[k]
  BY <1>1, <1>3, EmptyRecord DEF Fail, Grip, KeyInv, Typed
<1>6. Rolled
  BY KeptJournal DEF Fail, KeyInv
<1>7. /\ made' = made /\ life' = life /\ answers' = answers /\ mode' = mode
      /\ exposed \subseteq exposed'
  BY DEF Fail
<1>8. Here(k0) \in exposed' /\ Here(k0)' \in exposed'
  BY <1>1, <1>7 DEF Fail, Here
<1>9. Recalls(k0)'
  BY <1>5, <1>8, EmptyRecord DEF Recalls
<1>10. ~Owns(c, k0)'
  BY <1>4 DEF Owns
<1> QED BY <1>1, <1>2, <1>3, <1>4, <1>5, <1>6, <1>7, <1>8, <1>9, <1>10, HandlerStep

LEMMA CompleteKeeps ==
    ASSUME KeyInv, NEW c \in Clients, Complete(c)
    PROVE  KeyInv'
<1>1. PICK k0, w : k0 = handlers[c].key /\ w = handlers[c].write
  OBVIOUS
<1>2. handlers[c].at = "answered"
  BY DEF Complete, Awake
<1>3. /\ k0 \in Keys /\ Owns(c, k0) /\ Grip(c, k0)
      /\ \A d \in Clients : d # c => ~Owns(d, k0)
  BY <1>1, <1>2, Busy
<1>4. /\ handlers' \in [Clients -> Handlers]
      /\ handlers'[c].at = "free" /\ handlers'[c].key = k0
      /\ \A d \in Clients : d # c => handlers'[d] = handlers[d]
  BY <1>1, GotoStep DEF Complete, KeyInv
<1>5. /\ Mine(w, k0) /\ w \in Writes /\ w \in 0..MaxWrites /\ records[k0].target = w
      /\ records[k0].state = "IN_PROGRESS" /\ Landed(w)
  BY <1>1, <1>2, <1>3, WriteNumbers DEF Grip, Mine
<1>6. /\ records' \in [Keys -> Records]
      /\ \A k \in Keys : k # k0 => records'[k] = records[k]
      /\ records'[k0].target = w /\ records'[k0].state = "DONE"
      /\ records'[k0].req = records[k0].req /\ records'[k0].body = w
  <2>1. PICK r : r = [records[k0] EXCEPT !.state = "DONE", !.body = w]
    OBVIOUS
  <2>2. records \in [Keys -> Records]
    BY DEF KeyInv, Typed
  <2>3. r \in Records /\ r.state = "DONE" /\ r.body = w
        /\ r.req = records[k0].req /\ r.target = records[k0].target
    BY <1>3, <1>5, <2>1, <2>2 DEF Records
  <2>4. records' = [records EXCEPT ![k0] = r]
    BY <1>1, <1>5, <2>1 DEF Complete
  <2> QED BY <1>3, <1>5, <2>2, <2>3, <2>4
<1>7. Rolled
  BY KeptJournal DEF Complete, KeyInv, ghosts
<1>8. /\ made' = made /\ life' = life /\ answers' = answers /\ mode' = mode
      /\ exposed' = exposed /\ phase' = phase /\ store' = store
  BY DEF Complete, ghosts, journal
<1>9. \A v : Mine(v, k0)' <=> Mine(v, k0)
  BY <1>8 DEF Mine
<1>10. Recalls(k0)'
  <2>1. Recalls(k0) /\ Here(k0)' = Here(k0)
    BY <1>3, <1>8 DEF KeyInv, Remembered, Here
  <2>2. ASSUME Here(k0) \notin exposed, NEW v \in Writes, Mine(v, k0)
        PROVE  v = w
    BY <1>2, <1>3, <1>5, <2>1, <2>2 DEF Recalls, Owns
  <2> QED BY <1>5, <1>6, <1>8, <1>9, <2>1, <2>2 DEF Recalls, Landed
<1>11. ~Owns(c, k0)'
  BY <1>4 DEF Owns
<1> QED BY <1>1, <1>2, <1>3, <1>4, <1>6, <1>7, <1>8, <1>10, <1>11, HandlerStep

-----------------------------------------------------------------------------
(* A new answer names what the life has made, to the request it was made   *)
(* for.                                                                    *)

LEMMA NewAnswer ==
    ASSUME Typed, Answered, NEW k \in Keys, NEW r \in Requests, NEW e \in Writes,
           NEW h \in {"present", "foreign"},
           answers' = answers \cup {[key |-> k, life |-> life[k], req |-> r, entity |-> e,
                                     shows |-> h]},
           UNCHANGED <<phase, made, life, exposed, records, supplanted>>,
           h = "present" => Landed(e), h = "foreign" => e \in supplanted,
           records[k].req = r,
           Here(k) \notin exposed => Mine(e, k)
    PROVE  Answered' /\ answers' \subseteq Answers
<1>1. PICK a : a = [key |-> k, life |-> life[k], req |-> r, entity |-> e, shows |-> h]
  OBVIOUS
<1>2. /\ a \in Answers /\ Real(a)
      /\ a.key = k /\ a.life = life[k] /\ a.req = r /\ a.entity = e /\ LifeOf(a) = Here(k)
  BY <1>1 DEF Typed, LifeOf, Here, Answers, Contents, Real
<1>3. \A x \in answers' : x \in answers \/ x = a
  BY <1>1
<1>4. life[k] \in Nat
  BY DEF Typed
<1>5. ASSUME NEW x \in answers', NEW y \in answers', LifeOf(x) \notin exposed,
             y.key = x.key, y.life = x.life
      PROVE  y.req = x.req
  <2>1. LifeOf(y) = LifeOf(x)
    BY <1>5 DEF LifeOf
  <2>2. \A z \in answers : LifeOf(z) \notin exposed /\ z.key = k /\ z.life = life[k] => z.req = r
    BY DEF Answered
  <2>3. CASE x \in answers /\ y \in answers
    BY <1>5, <2>3 DEF Answered
  <2> QED BY <1>2, <1>3, <1>5, <2>1, <2>2, <2>3
<1>6. ASSUME NEW x \in answers'
      PROVE  /\ Real(x) /\ x.life <= life[x.key]
             /\ LifeOf(x) \notin exposed =>
                   /\ phase[x.entity] # "free"
                   /\ made[x.entity].key = x.key /\ made[x.entity].life = x.life
                   /\ x.life = life[x.key] => records[x.key].req = x.req
  <2>1. CASE x \in answers
    BY <2>1 DEF Answered
  <2>2. CASE x = a
    BY <1>2, <1>4, <2>2 DEF Mine
  <2> QED BY <1>3, <2>1, <2>2
<1>7. Answered'
  <2>1. /\ phase' = phase /\ made' = made /\ life' = life
        /\ exposed' = exposed /\ records' = records /\ supplanted' = supplanted
    OBVIOUS
  <2>2. ASSUME NEW x \in answers'
        PROVE  /\ Real(x)' /\ x.life <= life'[x.key]
               /\ LifeOf(x) \notin exposed' =>
                     /\ phase'[x.entity] # "free"
                     /\ made'[x.entity].key = x.key /\ made'[x.entity].life = x.life
                     /\ x.life = life'[x.key] => records'[x.key].req = x.req
                     /\ \A y \in answers' : y.key = x.key /\ y.life = x.life
                                            => y.req = x.req
    <3>1. Real(x)' <=> Real(x)
      BY <2>1 DEF Real, Landed
    <3> QED BY <1>5, <1>6, <2>1, <3>1
  <2> QED BY ONLY <2>2 DEF Answered, LifeOf
<1> QED BY <1>1, <1>2, <1>7 DEF Typed

LEMMA RespondKeeps ==
    ASSUME KeyInv, NEW c \in Clients, Respond(c)
    PROVE  KeyInv'
<1>1. PICK k0, w : k0 = handlers[c].key /\ w = handlers[c].write
  OBVIOUS
<1>2. handlers[c].at = "written"
  BY DEF Respond, Awake
<1>3. /\ k0 \in Keys /\ Owns(c, k0) /\ Grip(c, k0)
      /\ \A d \in Clients : d # c => ~Owns(d, k0)
  BY <1>1, <1>2, Busy
<1>4. /\ handlers' \in [Clients -> Handlers]
      /\ handlers'[c].at = "answered" /\ handlers'[c].key = k0
      /\ handlers'[c].req = handlers[c].req /\ handlers'[c].write = w
      /\ \A d \in Clients : d # c => handlers'[d] = handlers[d]
  BY <1>1, GotoStep DEF Respond, KeyInv
<1>5. Mine(w, k0) /\ w \in Writes /\ Landed(w)
  BY <1>1, <1>2, <1>3 DEF Grip, Mine
<1>6. Rolled
  BY KeptJournal DEF Respond, KeyInv, ghosts
<1>7. /\ made' = made /\ life' = life /\ records' = records /\ mode' = mode
      /\ exposed' = exposed /\ phase' = phase /\ store' = store /\ writes' = writes
      /\ supplanted' = supplanted
  BY DEF Respond, journal
<1>8. PICK r \in Requests : r = handlers[c].req
  BY HandlerFields DEF KeyInv
<1>9. answers' = answers \cup {[key |-> k0, life |-> life[k0], req |-> r, entity |-> w,
                                shows |-> "present"]}
  BY <1>1, <1>7, <1>8 DEF Respond, Answer
<1>10. records[k0].req = r
  BY <1>3, <1>8 DEF Grip
<1>11. /\ Answered'
       /\ answers' \subseteq Answers
  BY <1>3, <1>5, <1>7, <1>9, <1>10, NewAnswer DEF KeyInv
<1>12. Typed' /\ SameMakers
  BY <1>4, <1>7, <1>11 DEF KeyInv, Typed, SameMakers
<1>13. Only(c, k0)
  BY <1>3, <1>4, <1>7 DEF Only, Landed
<1>14. Mine(w, k0)'
  BY <1>5, <1>7 DEF Mine
<1>15. Grip(c, k0)'
  <2>1. \A d \in Clients : Owns(d, k0)' => c = d
    BY <1>3, <1>4 DEF Owns
  <2> QED BY <1>1, <1>2, <1>3, <1>4, <1>5, <1>7, <1>14, <2>1 DEF Grip, Landed
<1>16. Holding'
  <2> SUFFICES ASSUME NEW d \in Clients, NEW k \in Keys, Owns(d, k)'
               PROVE  Grip(d, k)'
    BY DEF Holding
  <2>1. CASE d # c
    BY <1>3, <1>13, <2>1, OthersHold DEF KeyInv
  <2>2. CASE d = c
    BY <1>4, <1>15, <2>2 DEF Owns
  <2> QED BY <2>1, <2>2
<1>17. Remembered'
  <2> SUFFICES ASSUME NEW k \in Keys
               PROVE  Recalls(k)'
    BY DEF Remembered
  <2>1. Recalls(k)
    BY DEF KeyInv, Remembered
  <2>2. \A d \in Clients : handlers[d].at = "begun" => handlers'[d] = handlers[d]
    BY <1>2, <1>4
  <2> QED BY <1>7, <2>1, <2>2 DEF Recalls, Here, Mine, Landed
<1> QED BY <1>6, <1>11, <1>12, <1>16, <1>17, JournalledKept, SingleKept DEF KeyInv

LEMMA ReplayKeeps ==
    ASSUME KeyInv, NEW c \in Clients, NEW k \in Keys, NEW r \in Requests, Replay(c, k, r)
    PROVE  KeyInv'
<1>1. PICK e, h : e = ReadBack(k) /\ h = Shown(k)
  OBVIOUS
<1>2. /\ writes' = writes /\ phase' = phase /\ store' = store /\ records' = records
      /\ handlers' = handlers /\ mode' = mode /\ made' = made /\ life' = life
      /\ exposed' = exposed /\ supplanted' = supplanted
  BY DEF Replay, journal
<1>3. answers' = answers \cup {[key |-> k, life |-> life[k], req |-> r, entity |-> e,
                                shows |-> h]}
  BY <1>1, <1>2 DEF Replay, Answer
<1>4. Recalls(k) /\ records[k].req = r /\ e # 0
  BY <1>1 DEF Replay, KeyInv, Remembered
<1>5. \/ e = records[k].body /\ h = "present"
      \/ e = records[k].target /\ store[e] # "absent" /\ h = store[e]
  BY <1>1, <1>4 DEF ReadBack, Shown
<1>6. e \in Writes
  BY <1>4, <1>5, RecordFields, IdempotencyAssumption DEF Writes, KeyInv
<1>7. /\ h \in {"present", "foreign"} /\ (h = "present" => Landed(e))
      /\ h = "foreign" => e \in supplanted
      /\ Here(k) \notin exposed => Mine(e, k)
  <2>1. store[e] \in Contents
    BY <1>6 DEF KeyInv, Typed
  <2>2. /\ store[e] = "present" => Landed(e)
        /\ store[e] = "foreign" => e \in supplanted
    BY <1>6 DEF KeyInv, Journalled
  <2> QED BY <1>4, <1>5, <2>1, <2>2 DEF Recalls, Contents
<1>8. /\ Answered'
      /\ answers' \subseteq Answers
  BY <1>2, <1>3, <1>4, <1>6, <1>7, NewAnswer DEF KeyInv
<1>9. Typed' /\ SameMakers /\ Rolled
  BY <1>2, <1>8, KeptJournal DEF KeyInv, Typed, SameMakers, journal
<1>10. Holding' /\ Remembered'
  BY <1>2 DEF KeyInv, Holding, Owns, Grip, Mine, Remembered, Recalls, Here, Landed
<1> QED BY <1>8, <1>9, <1>10, JournalledKept, SingleKept DEF KeyInv

-----------------------------------------------------------------------------
(* The write of a handler: nothing else was made in this life of its key.  *)

LEMMA BeginKeeps ==
    ASSUME KeyInv, NEW c \in Clients, Begin(c)
    PROVE  KeyInv'
<1>1. PICK k0 : k0 = handlers[c].key
  OBVIOUS
<1>2. handlers[c].at = "running"
  BY DEF Begin, Awake
<1>3. /\ k0 \in Keys /\ Owns(c, k0) /\ Grip(c, k0)
      /\ \A d \in Clients : d # c => ~Owns(d, k0)
  BY <1>1, <1>2, Busy
<1>4. PICK w \in Writes :
         /\ phase[w] = "free"
         /\ J!Accept(w, [kind |-> "file", path |-> w, before |-> "absent",
                         result |-> "present", logs |-> TRUE])
         /\ handlers' = [handlers EXCEPT ![c].at = "begun", ![c].write = w]
         /\ made' = [made EXCEPT ![w] = [key |-> k0, life |-> life[k0], by |-> TRUE]]
  BY <1>1 DEF Begin
<1>5. w \in 0..MaxWrites /\ w # 0
  BY WriteNumbers
<1>6. /\ records' = records /\ mode' = mode /\ life' = life /\ exposed' = exposed
      /\ answers' = answers /\ supplanted' = supplanted
  BY DEF Begin
<1>7. /\ handlers' \in [Clients -> Handlers]
      /\ handlers'[c].at = "begun" /\ handlers'[c].key = k0
      /\ handlers'[c].req = handlers[c].req /\ handlers'[c].write = w
      /\ \A d \in Clients : d # c => handlers'[d] = handlers[d]
  BY <1>1, <1>4, <1>5 DEF KeyInv, Typed, Handlers
<1>8. Creation(w) \in J!WriteRecord
  BY DEF Creation, J!WriteRecord, Contents
<1>9. /\ store' = store /\ writes' = [writes EXCEPT ![w] = Creation(w)]
      /\ phase' = [phase EXCEPT ![w] = "accepted"]
  BY <1>4 DEF J!Accept, J!To, Creation
<1>10. /\ life[k0] \in Nat /\ made'[w].key = k0 /\ made'[w].life = life[k0] /\ made'[w].by
       /\ made' \in [Writes -> [key: Keys, life: Nat, by: BOOLEAN]]
       /\ \A v \in Writes : v # w => made'[v] = made[v]
  BY <1>3, <1>4 DEF KeyInv, Typed
<1>11. /\ phase'[w] = "accepted" /\ writes'[w] = Creation(w)
       /\ \A v \in Writes : v # w => phase'[v] = phase[v] /\ writes'[v] = writes[v]
  BY <1>9 DEF KeyInv, Typed
<1>12. Typed'
  BY <1>6, <1>7, <1>8, <1>9, <1>10 DEF KeyInv, Typed
<1>13. Here(k0) \in exposed \/ \A v \in Writes : ~Mine(v, k0)
  <2>1. records[k0].target = 0
    BY <1>2, <1>3 DEF Grip
  <2>2. \A d \in Clients : ~(handlers[d].at = "begun" /\ handlers[d].key = k0)
    BY <1>2, <1>3 DEF Owns
  <2> QED BY <1>3, <2>1, <2>2, NothingMade
<1>14. Journalled'
  <2> SUFFICES ASSUME NEW v \in Writes, phase'[v] # "free"
               PROVE  /\ writes'[v] = Creation(v)
                      /\ made'[v].by /\ made'[v].life <= life'[made'[v].key]
    <3>1. /\ \A v \in Writes : store'[v] = "present" => Landed(v)'
          /\ \A v \in Writes : store'[v] = "foreign" => v \in supplanted'
      BY <1>4, <1>6, <1>9, <1>11 DEF KeyInv, Journalled, Landed
    <3> QED BY <3>1 DEF Journalled, Creation
  <2>1. CASE v = w
    BY <1>6, <1>10, <1>11, <2>1
  <2>2. CASE v # w
    BY <1>6, <1>9, <1>10, <1>11, <2>2 DEF KeyInv, Journalled
  <2> QED BY <2>1, <2>2
<1>15. Only(c, k0)
  BY <1>3, <1>4, <1>6, <1>7, <1>9, <1>10, <1>11 DEF Only, Landed
<1>16. Mine(w, k0)'
  BY <1>6, <1>10, <1>11 DEF Mine
<1>17. Grip(c, k0)'
  <2>1. \A d \in Clients : Owns(d, k0)' => c = d
    BY <1>3, <1>7 DEF Owns
  <2> QED BY <1>2, <1>3, <1>6, <1>7, <1>16, <2>1 DEF Grip
<1>18. Holding'
  <2> SUFFICES ASSUME NEW d \in Clients, NEW k \in Keys, Owns(d, k)'
               PROVE  Grip(d, k)'
    BY DEF Holding
  <2>1. CASE d # c
    BY <1>3, <1>15, <2>1, OthersHold DEF KeyInv
  <2>2. CASE d = c
    BY <1>7, <1>17, <2>2 DEF Owns
  <2> QED BY <2>1, <2>2
<1>19. Single'
  <2> SUFFICES ASSUME NEW u \in Writes, NEW v \in Writes,
                      phase'[u] # "free", phase'[v] # "free",
                      made'[u].key = made'[v].key, made'[u].life = made'[v].life,
                      LifeOf(made'[u]) \notin exposed
               PROVE  u = v
    BY <1>6 DEF Single, LifeOf
  <2>1. CASE u # w /\ v # w
    BY <1>10, <1>11, <2>1 DEF KeyInv, Single
  <2>2. CASE u = w \/ v = w
    <3>1. made'[u].key = k0 /\ made'[u].life = life[k0] /\ LifeOf(made'[u]) = Here(k0)
      BY <1>10, <2>2 DEF LifeOf, Here
    <3>2. (u # w => Mine(u, k0)) /\ (v # w => Mine(v, k0))
      BY <1>10, <1>11, <3>1 DEF Mine
    <3> QED BY <1>13, <2>2, <3>1, <3>2
  <2> QED BY <2>1, <2>2
<1>20. Recalls(k0)'
  <2>1. Recalls(k0) /\ Here(k0)' = Here(k0)
    BY <1>3, <1>6 DEF KeyInv, Remembered, Here
  <2>2. records[k0].state = "IN_PROGRESS" /\ records[k0].target = 0
    BY <1>2, <1>3 DEF Grip
  <2>3. ASSUME Here(k0) \notin exposed, NEW v \in Writes, Mine(v, k0)'
        PROVE  v = w
    <3>1. v # w => Mine(v, k0)
      BY <1>6, <1>10, <1>11, <2>3 DEF Mine
    <3> QED BY <1>13, <2>3, <3>1
  <2>4. Here(k0) \notin exposed => records[k0].body = 0
    BY <1>13, <2>1 DEF Recalls, Mine
  <2>5. (records[k0].body # 0 => Landed(records[k0].body))'
    <3>1. records[k0].body # 0 => records[k0].body \in Writes
      BY <1>3, RecordFields, IdempotencyAssumption DEF Writes, KeyInv
    <3> QED BY <1>4, <1>6, <1>11, <2>1, <3>1 DEF Recalls, Landed
  <2> QED BY <1>6, <1>7, <2>1, <2>2, <2>3, <2>4, <2>5 DEF Recalls
<1>21. Remembered'
  <2>1. ASSUME NEW k \in Keys, k # k0
        PROVE  Recalls(k)'
    BY <1>1, <1>3, <1>9, <1>15, <2>1, OthersRecall DEF KeyInv
  <2> QED BY <1>20, <2>1 DEF Remembered
<1>22. Answered'
  <2> SUFFICES ASSUME NEW x \in answers
               PROVE  /\ Real(x)' /\ x.life <= life'[x.key]
                      /\ LifeOf(x) \notin exposed' =>
                            /\ phase'[x.entity] # "free"
                            /\ made'[x.entity].key = x.key /\ made'[x.entity].life = x.life
                            /\ x.life = life'[x.key] => records'[x.key].req = x.req
                            /\ \A y \in answers : y.key = x.key /\ y.life = x.life
                                                  => y.req = x.req
    BY <1>6 DEF Answered, LifeOf
  <2>1. x.entity \in Writes
    BY DEF KeyInv, Typed, Answers
  <2>2. Real(x)' /\ x.life <= life[x.key]
    <3>1. Real(x) /\ x.life <= life[x.key]
      BY DEF KeyInv, Answered
    <3> QED BY <1>4, <1>6, <1>11, <2>1, <3>1 DEF Real, Landed
  <2>3. ASSUME LifeOf(x) \notin exposed
        PROVE  /\ phase'[x.entity] # "free"
               /\ made'[x.entity].key = x.key /\ made'[x.entity].life = x.life
               /\ x.life = life[x.key] => records[x.key].req = x.req
               /\ \A y \in answers : y.key = x.key /\ y.life = x.life => y.req = x.req
    <3>1. /\ phase[x.entity] # "free"
          /\ made[x.entity].key = x.key /\ made[x.entity].life = x.life
          /\ x.life = life[x.key] => records[x.key].req = x.req
          /\ \A y \in answers : y.key = x.key /\ y.life = x.life => y.req = x.req
      BY <2>3 DEF KeyInv, Answered
    <3>2. x.entity # w
      BY <1>4, <3>1
    <3> QED BY <1>10, <1>11, <2>1, <3>1, <3>2
  <2> QED BY <1>6, <1>9, <2>2, <2>3
<1> QED BY <1>12, <1>14, <1>18, <1>19, <1>21, <1>22 DEF KeyInv

-----------------------------------------------------------------------------
(* Claiming a key: either its record is gone, or it was old and a new life *)
(* of the key begins, in which nothing was made yet.                       *)

LEMMA ClaimKeeps ==
    ASSUME KeyInv, NEW c \in Clients, NEW k \in Keys, NEW r \in Requests, Claim(c, k, r)
    PROVE  KeyInv'
<1>1. PICK rec : rec = [NoRecord EXCEPT !.state = "IN_PROGRESS", !.req = r]
  OBVIOUS
<1>2. /\ rec \in Records /\ rec.state = "IN_PROGRESS" /\ rec.req = r
      /\ rec.body = 0 /\ rec.target = 0 /\ ~rec.old
  BY <1>1, NewRecord
<1>3. /\ records' \in [Keys -> Records] /\ records'[k] = rec
      /\ \A j \in Keys : j # k => records'[j] = records[j]
  BY <1>1, <1>2 DEF Claim, KeyInv, Typed
<1>4. [at |-> "running", key |-> k, req |-> r, write |-> 0] \in Handlers
  BY IdempotencyAssumption DEF Handlers
<1>5. /\ handlers' \in [Clients -> Handlers]
      /\ handlers'[c] = [at |-> "running", key |-> k, req |-> r, write |-> 0]
      /\ \A d \in Clients : d # c => handlers'[d] = handlers[d]
  BY <1>4 DEF Claim, KeyInv, Typed
<1>6. handlers'[c].at = "running" /\ handlers'[c].key = k /\ handlers'[c].req = r
  BY <1>5
<1>7. /\ made' = made /\ exposed' = exposed /\ answers' = answers /\ mode' = mode
      /\ phase' = phase /\ store' = store /\ mode = "up" /\ handlers[c].at = "free"
  BY DEF Claim, journal, Awake
<1>8. /\ life' \in [Keys -> Nat] /\ \A j \in Keys : j # k => life'[j] = life[j]
      /\ life'[k] = IF records[k].old THEN life[k] + 1 ELSE life[k]
  BY DEF Claim, Forget, KeyInv, Typed
<1>9. Rolled /\ SameMakers
  <2>1. \A j \in Keys : life[j] \in Nat /\ life[j] <= life'[j]
    BY <1>8 DEF KeyInv, Typed
  <2> QED BY <1>7, <1>8, <2>1, KeptJournal DEF Claim, SameMakers, KeyInv
<1>10. Typed'
  BY <1>3, <1>5, <1>7, <1>8, <1>9 DEF KeyInv, Typed, Rolled
<1>11. \A d \in Clients : ~Owns(d, k)
  BY DEF Claim, Held, KeyInv, Holding, Grip
<1>12. Here(k)' \in exposed \/ \A w \in Writes : ~Mine(w, k)'
  <2> SUFFICES ASSUME Here(k)' \notin exposed, NEW w \in Writes, Mine(w, k)'
               PROVE  FALSE
    OBVIOUS
  <2>1. phase[w] # "free" /\ made[w].key = k /\ made[w].life = life'[k]
    BY <1>7 DEF Mine
  <2>2. made[w].life <= life[k] /\ life[k] \in Nat
    BY <2>1 DEF KeyInv, Journalled, Typed
  <2>3. ~records[k].old /\ life'[k] = life[k]
    BY <1>8, <2>1, <2>2
  <2>4. records[k].state = "NONE"
    BY <2>3 DEF Claim, Held
  <2>5. Mine(w, k) /\ Here(k) \notin exposed
    BY <2>1, <2>3 DEF Mine, Here
  <2> QED BY <2>4, <2>5 DEF KeyInv, Remembered, Recalls
<1>13. Recalls(k)'
  BY <1>2, <1>3, <1>7, <1>12 DEF Recalls
<1>14. Only(c, k)
  BY <1>3, <1>5, <1>6, <1>7, <1>8, <1>11 DEF Only, Landed
<1>15. Remembered'
  <2>1. ASSUME NEW j \in Keys, j # k
        PROVE  Recalls(j)'
    BY <1>7, <1>14, <2>1, OthersRecall DEF KeyInv
  <2> QED BY <1>13, <2>1 DEF Remembered
<1>16. Grip(c, k)'
  <2>1. \A d \in Clients : Owns(d, k)' => c = d
    BY <1>5, <1>11 DEF Owns
  <2> QED BY <1>2, <1>3, <1>6, <1>7, <2>1 DEF Grip
<1>17. Holding'
  <2> SUFFICES ASSUME NEW d \in Clients, NEW j \in Keys, Owns(d, j)'
               PROVE  Grip(d, j)'
    BY DEF Holding
  <2>1. CASE d # c
    BY <1>14, <2>1, OthersHold DEF KeyInv
  <2>2. CASE d = c
    BY <1>6, <1>16, <2>2 DEF Owns
  <2> QED BY <2>1, <2>2
<1>18. Answered'
  <2>1. \A j \in Keys : \/ life'[j] = life[j] + 1
                        \/ life'[j] = life[j] /\ Here(j) \in exposed'
                        \/ life'[j] = life[j] /\ records'[j].req = records[j].req
                        \/ life'[j] = life[j] /\ \A w \in Writes : ~Mine(w, j)
    BY <1>3, <1>7, <1>8, <1>12 DEF Mine, Here
  <2> QED BY <1>7, <1>9, <2>1, AnswersKept DEF KeyInv
<1> QED BY <1>9, <1>10, <1>15, <1>17, <1>18, JournalledKept, SingleKept DEF KeyInv

-----------------------------------------------------------------------------
(* Steps in which no handler holds a key, before or after, or none moves.  *)

LEMMA NobodyHolds ==
    ASSUME KeyInv, mode # "up"
    PROVE  \A c \in Clients : handlers[c].at = "free"
BY HandlerFields DEF KeyInv, Holding, Owns, Grip

LEMMA IdleStep ==
    ASSUME KeyInv, Rolled, SameMakers, answers' = answers,
           handlers' \in [Clients -> Handlers], records' \in [Keys -> Records],
           \A c \in Clients : handlers'[c].at = "free",
           \A k \in Keys : \/ life'[k] = life[k] + 1
                           \/ life'[k] = life[k] /\ Here(k) \in exposed'
                           \/ life'[k] = life[k] /\ records'[k].req = records[k].req
                           \/ life'[k] = life[k] /\ \A w \in Writes : ~Mine(w, k),
           \A k \in Keys : Recalls(k)'
    PROVE  KeyInv'
<1>1. Typed'
  BY DEF KeyInv, Typed, Rolled, SameMakers
<1>2. Holding'
  BY DEF Holding, Owns
<1>3. Remembered'
  BY DEF Remembered
<1>4. Answered'
  BY AnswersKept DEF KeyInv
<1> QED BY <1>1, <1>2, <1>3, <1>4, JournalledKept, SingleKept DEF KeyInv

(* Nothing about a key changes but the progress of the journal.            *)
LEMMA RecallsOn ==
    ASSUME KeyInv, Rolled, NEW k \in Keys, made' = made, life'[k] = life[k],
           exposed \subseteq exposed', records'[k].target = records[k].target,
           records'[k].body = records[k].body,
           records[k].state # "NONE" => records'[k].state # "NONE",
           \A c \in Clients : handlers[c].at = "begun" /\ handlers[c].key = k =>
               handlers'[c] = handlers[c] \/ Here(k) \in exposed'
    PROVE  Recalls(k)'
<1>1. Recalls(k) /\ Here(k)' = Here(k)
  BY DEF KeyInv, Remembered, Here
<1>2. \A w \in Writes : Mine(w, k)' <=> Mine(w, k)
  BY DEF Mine, Rolled
<1>3. \A w : Mine(w, k) => w \in Writes
  BY DEF Mine
<1>4. records[k].body # 0 => records[k].body \in Writes
  BY RecordFields, IdempotencyAssumption DEF Writes, KeyInv
<1>5. (records[k].body # 0 => Landed(records[k].body))'
  BY <1>1, <1>4 DEF Recalls, Rolled, Landed
<1>6. PICK t, b : t = records[k].target /\ b = records[k].body
  OBVIOUS
<1>7. records'[k].target = t /\ records'[k].body = b
  BY <1>6
<1>8. ASSUME Here(k)' \notin exposed'
      PROVE  (t # 0 => Mine(t, k)') /\ (b # 0 => Mine(b, k)')
  BY <1>1, <1>2, <1>3, <1>6, <1>8 DEF Recalls
<1>9. ASSUME Here(k)' \notin exposed', NEW w \in Writes, Mine(w, k)'
      PROVE  /\ records'[k].state # "NONE"
             /\ \/ t = w
                \/ \E c \in Clients : /\ handlers'[c].at = "begun"
                                      /\ handlers'[c].key = k /\ handlers'[c].write = w
  BY <1>1, <1>2, <1>6, <1>9 DEF Recalls
<1> QED BY <1>5, <1>7, <1>8, <1>9 DEF Recalls, Mine, Landed

LEMMA CrashKeeps ==
    ASSUME KeyInv, Crash
    PROVE  KeyInv'
<1>1. /\ handlers' = [c \in Clients |-> Free] /\ records' = records /\ made' = made
      /\ life' = life /\ answers' = answers /\ exposed \subseteq exposed'
  BY DEF Crash
<1>2. \A c \in Clients, k \in Keys :
         handlers[c].at = "begun" /\ handlers[c].key = k => Here(k) \in exposed'
  BY DEF Crash, Here
<1>3. Rolled /\ SameMakers
  <2>1. \A k \in Keys : life[k] \in Nat
    BY DEF KeyInv, Typed
  <2> QED BY <1>1, <2>1, KeptJournal DEF Crash, SameMakers, KeyInv, Typed
<1>4. /\ handlers' \in [Clients -> Handlers] /\ records' \in [Keys -> Records]
      /\ \A c \in Clients : handlers'[c].at = "free"
  BY <1>1, FreeHandler DEF KeyInv, Typed
<1>5. \A k \in Keys : Recalls(k)'
  BY <1>1, <1>2, <1>3, RecallsOn
<1> QED BY <1>1, <1>3, <1>4, <1>5, IdleStep

LEMMA StartKeeps ==
    ASSUME KeyInv, Start
    PROVE  KeyInv'
<1>1. /\ handlers' = handlers /\ records' = records /\ made' = made /\ life' = life
      /\ answers' = answers /\ exposed' = exposed
  BY DEF Start, ghosts
<1>2. \A c \in Clients : handlers[c].at = "free"
  BY NobodyHolds DEF Start
<1>3. Rolled /\ SameMakers
  <2>1. \A k \in Keys : life[k] \in Nat
    BY DEF KeyInv, Typed
  <2> QED BY <1>1, <2>1, KeptJournal DEF Start, SameMakers, KeyInv, Typed, ghosts
<1>4. \A k \in Keys : Recalls(k)'
  BY <1>1, <1>3, RecallsOn
<1> QED BY <1>1, <1>2, <1>3, <1>4, IdleStep DEF KeyInv, Typed

LEMMA RollForwardKeeps ==
    ASSUME KeyInv, RollForward
    PROVE  KeyInv'
<1>1. /\ handlers' = handlers /\ records' = records /\ made' = made /\ life' = life
      /\ answers' = answers /\ exposed' = exposed /\ supplanted' = supplanted
  BY DEF RollForward, ghosts
<1>2. \A c \in Clients : handlers[c].at = "free"
  BY NobodyHolds DEF RollForward
<1>3. Rolled
  <2>1. PICK w \in Unfinished : Roll(w) \/ J!Abandon(w)
    BY DEF RollForward
  <2>2. w \in Writes /\ phase[w] # "free"
    BY DEF Unfinished
  <2> QED BY <1>1, <2>1, <2>2, RollStep DEF KeyInv
<1>4. SameMakers
  <2>1. \A k \in Keys : life[k] \in Nat
    BY DEF KeyInv, Typed
  <2> QED BY <1>1, <2>1 DEF SameMakers, KeyInv, Typed
<1>5. \A k \in Keys : Recalls(k)'
  BY <1>1, <1>3, RecallsOn
<1> QED BY <1>1, <1>2, <1>3, <1>4, <1>5, IdleStep DEF KeyInv, Typed

(* The journal is settled, so a key in progress without a target made      *)
(* nothing (unless its life is exposed) and may be given back.             *)
LEMMA ResolveOrphansKeeps ==
    ASSUME KeyInv, ResolveOrphans
    PROVE  KeyInv'
<1>1. /\ handlers' = handlers /\ made' = made /\ answers' = answers /\ exposed' = exposed
      /\ phase' = phase /\ store' = store
  BY DEF ResolveOrphans, journal
<1>2. \A c \in Clients : handlers[c].at = "free"
  BY NobodyHolds DEF ResolveOrphans
<1>3. /\ life' \in [Keys -> Nat]
      /\ \A k \in Keys : life'[k] = IF records[k].old THEN life[k] + 1 ELSE life[k]
  BY DEF ResolveOrphans, KeyInv, Typed
<1>4. Rolled /\ SameMakers
  <2>1. \A k \in Keys : life[k] \in Nat /\ life[k] <= life'[k]
    BY <1>3 DEF KeyInv, Typed
  <2> QED BY <1>1, <1>3, <2>1, KeptJournal DEF ResolveOrphans, SameMakers, KeyInv
<1>5. ASSUME NEW k \in Keys
      PROVE  /\ Settled(records[k]) \in Records
             /\ \/ Settled(records[k]) = NoRecord /\ records[k].old
                \/ /\ Settled(records[k]) = NoRecord /\ ~records[k].old
                   /\ records[k].target = 0
                \/ /\ ~records[k].old
                   /\ Settled(records[k]).req = records[k].req
                   /\ Settled(records[k]).body = records[k].body
                   /\ Settled(records[k]).target = records[k].target
                   /\ records[k].state # "NONE" => Settled(records[k]).state # "NONE"
  <2>1. records[k] \in Records
    BY RecordFields DEF KeyInv
  <2> QED BY <2>1, EmptyRecord DEF Settled, Records
<1>6. /\ records' \in [Keys -> Records]
      /\ \A k \in Keys : records'[k] = Settled(records[k])
  BY <1>5 DEF ResolveOrphans
<1>7. ASSUME NEW k \in Keys, ~records[k].old, records[k].target = 0, Here(k) \notin exposed
      PROVE  \A w \in Writes : ~Mine(w, k)
  BY <1>2, <1>7, NothingMade
<1>8. ASSUME NEW k \in Keys, records[k].old
      PROVE  \A w \in Writes : ~Mine(w, k)'
  <2> SUFFICES ASSUME NEW w \in Writes, Mine(w, k)'
               PROVE  FALSE
    OBVIOUS
  <2>1. phase[w] # "free" /\ made[w].key = k /\ made[w].life = life[k] + 1
    BY <1>1, <1>3, <1>8 DEF Mine
  <2>2. made[w].life <= life[k] /\ life[k] \in Nat
    BY <2>1 DEF KeyInv, Journalled, Typed
  <2> QED BY <2>1, <2>2
<1>9. ASSUME NEW k \in Keys
      PROVE  Recalls(k)'
  <2>1. CASE Settled(records[k]) = NoRecord /\ records[k].old
    BY <1>6, <1>8, <2>1, EmptyRecord DEF Recalls
  <2>2. CASE /\ Settled(records[k]) = NoRecord /\ ~records[k].old
             /\ records[k].target = 0
    <3>1. Here(k)' = Here(k)
      BY <1>3, <2>2 DEF Here
    <3>2. Here(k) \in exposed \/ \A w \in Writes : ~Mine(w, k)'
      BY <1>1, <1>3, <1>7, <2>2 DEF Mine
    <3> QED BY <1>1, <1>6, <2>2, <3>1, <3>2, EmptyRecord DEF Recalls
  <2>3. CASE /\ ~records[k].old
             /\ Settled(records[k]).body = records[k].body
             /\ Settled(records[k]).target = records[k].target
             /\ records[k].state # "NONE" => Settled(records[k]).state # "NONE"
    BY <1>1, <1>3, <1>4, <1>6, <2>3, RecallsOn
  <2> QED BY <1>5, <2>1, <2>2, <2>3
<1>10. ASSUME NEW k \in Keys
       PROVE  \/ life'[k] = life[k] + 1
              \/ life'[k] = life[k] /\ Here(k) \in exposed'
              \/ life'[k] = life[k] /\ records'[k].req = records[k].req
              \/ life'[k] = life[k] /\ \A w \in Writes : ~Mine(w, k)
  BY <1>1, <1>3, <1>5, <1>6, <1>7
<1>11. handlers' \in [Clients -> Handlers] /\ \A c \in Clients : handlers'[c].at = "free"
  BY <1>1, <1>2 DEF KeyInv, Typed
<1>12. \A k \in Keys : Recalls(k)'
  BY <1>9
<1>13. records' \in [Keys -> Records]
  BY <1>6
<1> QED BY <1>1, <1>4, <1>10, <1>11, <1>12, <1>13, IdleStep

LEMMA GrowOldKeeps ==
    ASSUME KeyInv, NEW k \in Keys, GrowOld(k)
    PROVE  KeyInv'
<1>1. /\ handlers' = handlers /\ made' = made /\ life' = life /\ answers' = answers
      /\ exposed' = exposed /\ mode' = mode /\ phase' = phase /\ store' = store
  BY DEF GrowOld, journal, ghosts
<1>2. /\ records' \in [Keys -> Records]
      /\ \A j \in Keys : j # k => records'[j] = records[j]
      /\ records'[k].state = records[k].state /\ records'[k].req = records[k].req
      /\ records'[k].body = records[k].body /\ records'[k].target = records[k].target
  <2>1. PICK r : r = [records[k] EXCEPT !.old = TRUE]
    OBVIOUS
  <2>2. records \in [Keys -> Records]
    BY DEF KeyInv, Typed
  <2>3. r \in Records /\ r.state = records[k].state /\ r.req = records[k].req
        /\ r.body = records[k].body /\ r.target = records[k].target
    BY <2>1, <2>2 DEF Records
  <2>4. records' = [records EXCEPT ![k] = r]
    BY <2>1 DEF GrowOld
  <2> QED BY <2>2, <2>3, <2>4
<1>3. Rolled /\ SameMakers
  <2>1. \A j \in Keys : life[j] \in Nat
    BY DEF KeyInv, Typed
  <2> QED BY <1>1, <2>1, KeptJournal DEF GrowOld, SameMakers, KeyInv, Typed, ghosts
<1>4. Remembered'
  <2>1. \A j \in Keys : Recalls(j)'
    BY <1>1, <1>2, <1>3, RecallsOn
  <2> QED BY <2>1 DEF Remembered
<1>5. Holding'
  <2> SUFFICES ASSUME NEW d \in Clients, NEW j \in Keys, Owns(d, j)'
               PROVE  Grip(d, j)'
    BY DEF Holding
  <2>1. Owns(d, j) /\ j # k
    BY <1>1 DEF Owns, GrowOld
  <2>2. Grip(d, j) /\ records'[j] = records[j]
    BY <1>2, <2>1 DEF KeyInv, Holding
  <2> QED BY <1>1, <2>2 DEF Grip, Owns, Mine, Landed
<1>6. Answered'
  <2>1. \A j \in Keys : life'[j] = life[j] /\ records'[j].req = records[j].req
    BY <1>1, <1>2
  <2> QED BY <1>1, <1>3, <2>1, AnswersKept DEF KeyInv
<1>7. Typed'
  BY <1>1, <1>2, <1>3 DEF KeyInv, Typed, Rolled
<1> QED BY <1>3, <1>4, <1>5, <1>6, <1>7, JournalledKept, SingleKept DEF KeyInv

LEMMA OutsideEditKeeps ==
    ASSUME KeyInv, NEW w \in Writes, NEW h \in {"absent", "foreign"}, OutsideEdit(w, h)
    PROVE  KeyInv'
<1>1. /\ handlers' = handlers /\ records' = records /\ made' = made /\ life' = life
      /\ answers' = answers /\ exposed' = exposed /\ mode' = mode /\ phase' = phase
      /\ writes' = writes /\ supplanted \subseteq supplanted'
      /\ h = "foreign" => w \in supplanted'
      /\ store' = [store EXCEPT ![w] = h]
  BY DEF OutsideEdit, J!OutsideChange
<1>2. Rolled
  <2>1. store' \in [Writes -> Contents] /\ \A v \in Writes : Landed(v)' <=> Landed(v)
    BY <1>1 DEF KeyInv, Typed, Contents, Landed
  <2>2. /\ \A v \in Writes : store'[v] = "present" => Landed(v)
        /\ \A v \in Writes : store'[v] = "foreign" => v \in supplanted'
    BY <1>1 DEF KeyInv, Typed, Journalled
  <2> QED BY <1>1, <2>1, <2>2 DEF Rolled, KeyInv, Typed
<1>3. SameMakers
  BY <1>1 DEF SameMakers, KeyInv, Typed
<1>4. Typed'
  BY <1>1, <1>2 DEF KeyInv, Typed, Rolled
<1>5. Remembered'
  <2>1. \A k \in Keys : Recalls(k)'
    BY <1>1, <1>2, RecallsOn
  <2> QED BY <2>1 DEF Remembered
<1>6. Holding'
  BY <1>1 DEF KeyInv, Holding, Owns, Grip, Mine, Landed
<1>7. Answered'
  BY <1>1, <1>2, <1>3, AnswersKept DEF KeyInv
<1> QED BY <1>2, <1>3, <1>4, <1>5, <1>6, <1>7, JournalledKept, SingleKept DEF KeyInv

-----------------------------------------------------------------------------
LEMMA InitKeeps == Init => KeyInv
<1> SUFFICES ASSUME Init PROVE KeyInv
  OBVIOUS
<1>1. /\ store = [w \in Writes |-> "absent"] /\ writes = [w \in Writes |-> NoWrite]
      /\ phase = [w \in Writes |-> "free"] /\ records = [k \in Keys |-> NoRecord]
      /\ handlers = [c \in Clients |-> Free] /\ made = [w \in Writes |-> NoMaker]
      /\ life = [k \in Keys |-> 0] /\ answers = {}
  BY DEF Init
<1>2. (CHOOSE k \in Keys : TRUE) \in Keys
  BY IdempotencyAssumption
<1>3. NoMaker \in [key: Keys, life: Nat, by: BOOLEAN]
  BY <1>2 DEF NoMaker
<1>4. Typed
  BY <1>1, <1>3, EmptyRecord, FreeHandler DEF Typed, Contents
<1>5. \A w \in Writes : phase[w] = "free"
  BY <1>1
<1>6. Journalled /\ Single /\ Answered
  BY <1>1, <1>5 DEF Journalled, Single, Answered
<1>7. Holding
  BY <1>1, FreeHandler DEF Holding, Owns
<1>8. Remembered
  BY <1>1, <1>5, EmptyRecord DEF Remembered, Recalls, Mine
<1> QED BY <1>4, <1>6, <1>7, <1>8 DEF KeyInv

LEMMA NextKeeps == KeyInv /\ [Next]_vars => KeyInv'
<1> SUFFICES ASSUME KeyInv, [Next]_vars PROVE KeyInv'
  OBVIOUS
<1>1. ASSUME NEW c \in Clients, NEW k \in Keys, NEW r \in Requests,
             Claim(c, k, r) \/ Replay(c, k, r)
      PROVE  KeyInv'
  BY <1>1, ClaimKeeps, ReplayKeeps
<1>2. ASSUME NEW c \in Clients, Handle(c) \/ Fail(c)
      PROVE  KeyInv'
  BY <1>2, RefuseKeeps, BeginKeeps, NoteKeeps, ApplyKeeps, RespondKeeps, CompleteKeeps,
     FailKeeps DEF Handle
<1>3. CASE Recover
  BY <1>3, StartKeeps, RollForwardKeeps, ResolveOrphansKeeps DEF Recover
<1>4. CASE Crash
  BY <1>4, CrashKeeps
<1>5. ASSUME NEW k \in Keys, GrowOld(k)
      PROVE  KeyInv'
  BY <1>5, GrowOldKeeps
<1>6. ASSUME NEW w \in Writes, NEW h \in {"absent", "foreign"}, OutsideEdit(w, h)
      PROVE  KeyInv'
  BY <1>6, OutsideEditKeeps
<1>7. CASE UNCHANGED vars
  BY <1>7 DEF vars, journal, Landed, Real, KeyInv, Typed, Journalled, Holding, Owns, Grip, Mine, Single,
             Remembered, Recalls, Here, Answered, LifeOf
<1> QED BY <1>1, <1>2, <1>3, <1>4, <1>5, <1>6, <1>7 DEF Next

(* The keys, the journal and the handlers stay in step.                    *)
THEOREM KeysInStep == Spec => []KeyInv
BY InitKeeps, NextKeeps, PTL DEF Spec

(* However many requests a client sends with one key, and however often    *)
(* the server dies between them, one life of the key makes one entity, if  *)
(* its release never fell between the journal's commit and the commit of   *)
(* its target (outbox.ts:284-306, http.ts:119-148).                        *)
THEOREM OneEntityPerKey == Spec => []OneEntityUnlessExposed
<1>1. KeyInv => OneEntityUnlessExposed
  <2> SUFFICES ASSUME KeyInv, NEW l \in Lives \ exposed
               PROVE  Cardinality(ProducedBy(l)) <= 1
    BY DEF OneEntityUnlessExposed
  <2>1. ASSUME NEW v \in ProducedBy(l), NEW w \in ProducedBy(l)
        PROVE  v = w
    <3>1. LifeOf(made[v]) = l
      BY DEF ProducedBy, LifeOf, Lives
    <3> QED BY <3>1 DEF ProducedBy, KeyInv, Single
  <2>2. CASE ProducedBy(l) = {}
    BY <2>2, FS_EmptySet
  <2>3. CASE ProducedBy(l) # {}
    <3>1. PICK w : w \in ProducedBy(l)
      BY <2>3
    <3>2. ProducedBy(l) = {w}
      BY <2>1, <3>1
    <3>3. Cardinality({w}) = 1
      BY FS_Singleton
    <3> QED BY <3>2, <3>3
  <2> QED BY <2>2, <2>3
<1> QED BY <1>1, KeysInStep, PTL

(* A repeat is told of the entity the first request was told of, which the *)
(* same life of its key made; what it is shown of it was written, unless   *)
(* somebody outside has replaced the file (http.ts:119-140, 1172-1189).    *)
THEOREM RepeatsAgree == Spec => []RepeatsGetTheFirstAnswer
<1>1. KeyInv => RepeatsGetTheFirstAnswer
  <2> SUFFICES ASSUME KeyInv, NEW x \in answers
               PROVE  /\ x.shows = "present" => phase[x.entity] \notin {"free", "accepted"}
                      /\ LifeOf(x) \notin exposed =>
                            /\ x.entity \in ProducedBy(LifeOf(x))
                            /\ x.shows = "foreign" => x.entity \in supplanted
                            /\ \A y \in answers :
                                  /\ x.key = y.key /\ x.life = y.life
                                  => /\ x.entity = y.entity /\ x.req = y.req
                                     /\ x.shows # y.shows => x.entity \in supplanted
    BY DEF RepeatsGetTheFirstAnswer, LifeOf
  <2>1. /\ x.shows = "present" => Landed(x.entity)
        /\ x.shows = "foreign" => x.entity \in supplanted
        /\ x.entity \in Writes
    BY DEF KeyInv, Typed, Answers, Answered, Real
  <2>2. ASSUME LifeOf(x) \notin exposed
        PROVE  x.entity \in ProducedBy(LifeOf(x))
    BY <2>1, <2>2 DEF KeyInv, Answered, Journalled, ProducedBy, LifeOf
  <2>3. ASSUME NEW y \in answers, x.key = y.key, x.life = y.life, LifeOf(x) \notin exposed
        PROVE  /\ x.entity = y.entity /\ x.req = y.req
               /\ x.shows # y.shows => x.entity \in supplanted
    <3>1. y.entity \in Writes /\ Real(x) /\ Real(y)
      BY DEF KeyInv, Typed, Answers, Answered
    <3>2. LifeOf(y) = LifeOf(x)
      BY <2>3 DEF LifeOf
    <3>3. /\ phase[x.entity] # "free" /\ phase[y.entity] # "free" /\ y.req = x.req
          /\ made[x.entity].key = made[y.entity].key
          /\ made[x.entity].life = made[y.entity].life
          /\ LifeOf(made[x.entity]) \notin exposed
      BY <2>3, <3>2 DEF KeyInv, Answered, LifeOf
    <3>4. x.entity = y.entity
      BY <2>1, <3>1, <3>3 DEF KeyInv, Single
    <3> QED BY <3>1, <3>3, <3>4 DEF Real
  <2> QED BY <2>1, <2>2, <2>3 DEF Landed
<1> QED BY <1>1, KeysInStep, PTL
=============================================================================
