--------------------------- MODULE IssueTreeProofs ---------------------------
(***************************************************************************)
(* Theorems about IssueTree for every set of issues and requests, every    *)
(* board that is whole and every bound.                                    *)
(***************************************************************************)
EXTENDS IssueTree, FiniteSetTheorems, WellFoundedInduction, TLAPS

-----------------------------------------------------------------------------
(* The inductive invariant.                                                *)

Known(u) == \E k \in Keys : <<k, u>> \in named

(* An issue of that type may hang below p, as far as p's own type goes.    *)
Fits(type, p) == Known(p) /\ (Here(p) => files[p].type \in ALLOWED_PARENTS[type])

(* Files, rows and the keys there have been.  Only a file changed from     *)
(* outside differs from its row, and only until the index reads it.        *)
Ledger ==
    /\ \A u \in Uids : Here(u) =>
          /\ <<files[u].key, u>> \in named
          /\ index[u].state \in {"OK", "INVALID"} /\ Row(u).type = files[u].type
          /\ u \notin unread => Row(u) = files[u]
    /\ \A u \in Uids : index[u].state # "none" => <<Row(u).key, u>> \in named
    /\ \A u \in Uids, j, k \in Keys : <<j, u>> \in named /\ <<k, u>> \in named => j = k
    /\ \A u \in Uids, k \in Keys :
          <<k, u>> \in named /\ k \notin loose => index[u].state # "none"
    /\ unread \subseteq edited
    /\ KeysAreNotReused

(* A creation has a uid of its own, and a key of its own or a loose one.   *)
Creating(c) ==
    handlers[c].op = "create" =>
        /\ handlers[c].uid \in Uids /\ ~Known(handlers[c].uid)
        /\ handlers[c].to \in Files
        /\ handlers[c].to.parent # None => Fits(handlers[c].to.type, handlers[c].to.parent)
        /\ \A u \in Uids : <<handlers[c].to.key, u>> \in named => handlers[c].to.key \in loose
        /\ \A d \in Clients : d # c /\ handlers[d].op = "create" =>
              /\ handlers[d].uid # handlers[c].uid
              /\ handlers[d].to.key = handlers[c].to.key => handlers[c].to.key \in loose

Patching(c) ==
    handlers[c].op \in Patches =>
        /\ handlers[c].uid \in Uids
        /\ handlers[c].from \in Files /\ handlers[c].to \in Files
        /\ Keeps(handlers[c].op, handlers[c].from, handlers[c].to)
        /\ handlers[c].op = "reparent" /\ handlers[c].to.parent # None =>
              Fits(handlers[c].to.type, handlers[c].to.parent)

(* Whatever hangs below an issue that is going is still to be detached, or *)
(* is one of those the deletion cannot know of.                            *)
Covered(c) ==
    handlers[c].op = "delete" =>
        /\ handlers[c].uid \in Uids
        /\ \A u \in Uids : Here(u) /\ files[u].parent = handlers[c].uid =>
              u \in edited \cup missed \cup {t.uid : t \in handlers[c].todo}

Handling == \A c \in Clients : Creating(c) /\ Patching(c) /\ Covered(c)

Branching ==
    \A u \in Uids : Here(u) /\ files[u].parent # None =>
        /\ ~Here(files[u].parent) => u \in edited \cup missed
        /\ edited = {} => Fits(files[u].type, files[u].parent)

TreeInv == TypeOK /\ Ledger /\ Handling /\ Branching

-----------------------------------------------------------------------------
(* Lemmas about the data.                                                  *)

LEMMA SmallestIn ==
    ASSUME NEW T \in SUBSET Nat, T # {}
    PROVE  \E x \in T : \A y \in T : x <= y
<1>1. PICK R : R = OpToRel(<, Nat)
  OBVIOUS
<1>2. IsWellFoundedOn(R, Nat)
  BY <1>1, NatLessThanWellFounded, Zenon
<1>3. ASSUME NEW y \in Nat, NEW x \in Nat, y < x
      PROVE  <<y, x>> \in R
  BY <1>1, <1>3 DEF OpToRel
<1>4. PICK x \in T : \A y \in T : <<y, x>> \notin R
  <2> HIDE <1>1
  <2> QED BY <1>2, WFMin
<1>5. ASSUME NEW y \in T
      PROVE  x <= y
  <2>1. x \in Nat /\ y \in Nat
    OBVIOUS
  <2>2. ~(y < x)
    BY <1>3, <1>4, <2>1
  <2> QED BY <2>1, <2>2
<1> QED BY <1>5

LEMMA LargestIn ==
    ASSUME NEW n \in Nat, NEW S \in SUBSET (0..n), S # {}
    PROVE  Max(S) \in S /\ \A y \in S : y <= Max(S)
<1>1. PICK T : T = {n - y : y \in S}
  OBVIOUS
<1>2. T \in SUBSET Nat /\ T # {}
  <2>1. ASSUME NEW y \in S
        PROVE  n - y \in Nat
    <3>1. y \in 0..n
      OBVIOUS
    <3> QED BY <3>1
  <2> QED BY <1>1, <2>1
<1>3. PICK x \in T : \A y \in T : x <= y
  BY <1>2, SmallestIn
<1>4. PICK m \in S : x = n - m
  BY <1>1
<1>5. ASSUME NEW y \in S
      PROVE  y <= m
  <2>1. n - m <= n - y
    BY <1>1, <1>3, <1>4
  <2>2. m \in 0..n /\ y \in 0..n
    OBVIOUS
  <2> QED BY <2>1, <2>2
<1>6. \E z \in S : \A y \in S : z >= y
  <2>1. \A y \in S : m \in 0..n /\ y \in 0..n
    OBVIOUS
  <2> QED BY <1>5, <2>1
<1>7. Max(S) \in S /\ \A y \in S : Max(S) >= y
  BY <1>6 DEF Max
<1> QED BY <1>7

LEMMA NoFile ==
    /\ None \notin Uids /\ None \notin Files /\ Cardinality(Uids) \in Nat
    /\ NoRow \in Rows /\ NoRow.state = "none" /\ NoRow.file = None
BY IssueTreeAssumption, FS_CardinalityType DEF NoRow, Rows, States

LEMMA RowFields ==
    ASSUME TypeOK, NEW u \in Uids
    PROVE  /\ index[u] \in Rows /\ index[u].state \in States
           /\ index[u].state # "none" => Row(u) \in Files
           /\ index[u].state = "none" => Row(u) = None
           /\ Here(u) => files[u] \in Files
           /\ ~Here(u) => files[u] = None
BY DEF TypeOK, Rows, Row, Here

LEMMA FileFields ==
    ASSUME NEW f \in Files
    PROVE  /\ f.key \in Keys /\ f.type \in Types /\ f.status \in Statuses
           /\ f.parent \in Uids \cup {None} /\ f.sprint \in SprintIds \cup {None}
           /\ f.links \subseteq Uids /\ f # None
BY NoFile DEF Files

(* The number of a new issue is above every one the index remembers.       *)
LEMMA NewNumber ==
    ASSUME TypeOK, NEW u \in Uids, index[u].state # "none"
    PROVE  Row(u).key < allocateKey
<1>1. PICK S : S = {0} \cup {Row(v).key : v \in {w \in Uids : index[w].state # "none"}}
  OBVIOUS
<1>2. PICK n \in Nat : n = Cardinality(Uids)
  BY NoFile
<1>3. \A v \in Uids : index[v].state # "none" => Row(v).key \in 1..n
  BY <1>2, RowFields, FileFields DEF Keys
<1>4. S \in SUBSET (0..n) /\ S # {}
  BY <1>1, <1>2, <1>3
<1>5. Row(u).key \in S
  BY <1>1
<1>6. Max(S) \in 0..n /\ Row(u).key <= Max(S) /\ Row(u).key \in 1..n
  BY <1>2, <1>3, <1>4, <1>5, LargestIn
<1>7. allocateKey = 1 + Max(S)
  BY <1>1 DEF allocateKey
<1> QED BY <1>6, <1>7

-----------------------------------------------------------------------------
(* The integrity pass.                                                     *)

(* The rows of a pass that has read the board, before its checks.          *)
Mirrors(rows) ==
    /\ rows \in [Uids -> Rows]
    /\ \A u \in Uids : Here(u) => rows[u].file = files[u] /\ rows[u].state \in {"OK", "INVALID"}
    /\ \A u \in Uids : ~Here(u) => rows[u].state \in {"none", "PENDING_DELETE"}

LEMMA HiddenRows ==
    ASSUME NEW rows \in [Uids -> Rows], NEW bad
    PROVE  /\ With(rows, bad) \in [Uids -> Rows]
           /\ \A u \in Uids : /\ With(rows, bad)[u].file = rows[u].file
                              /\ With(rows, bad)[u].state = IF u \in bad THEN "INVALID" ELSE rows[u].state
<1>1. ASSUME NEW u \in Uids, NEW r, r = [rows[u] EXCEPT !.state = "INVALID"]
      PROVE  r \in Rows /\ r.file = rows[u].file /\ r.state = "INVALID"
  BY <1>1 DEF Rows, States
<1> QED BY <1>1 DEF With

LEMMA LoopsAreFound ==
    ASSUME TypeOK, NEW E \in [Uids -> Rows], NEW D,
           D = {u \in Uids : Here(u) /\ Stranded(u, files)},
           \A u \in Uids : Here(u) => E[u].file = files[u],
           \A u \in Uids : E[u].state = "OK" <=> Here(u) /\ u \notin D,
           NEW u \in Uids
    PROVE  u \in cycles(E) <=> OnLoop(u, Sound(files))
<1>1. PICK B : B = Sound(files)
  OBVIOUS
<1>2. \A v \in Uids : /\ B[v] # None <=> E[v].state = "OK"
                      /\ B[v] # None => B[v] = files[v] /\ E[v].file = files[v]
  <2>1. \A v \in Uids :
            B[v] = IF files[v] = None \/ Stranded(v, files) THEN None ELSE files[v]
    BY <1>1 DEF Sound
  <2> QED BY <2>1 DEF Here
<1>3. ASSUME NEW S \in SUBSET Uids, \A v \in S : E[v].state = "OK"
      PROVE  {E[v].file.parent : v \in S} = {B[v].parent : v \in S}
  <2>1. \A v \in S : E[v].file.parent = B[v].parent
    BY <1>2, <1>3
  <2> QED BY <2>1
<1>4. {v \in Uids : E[v].state = "OK"} = {v \in Uids : B[v] # None}
  BY <1>2
<1>5. ASSUME u \in cycles(E)
      PROVE  OnLoop(u, Sound(files))
  <2>1. PICK S \in SUBSET {v \in Uids : E[v].state = "OK"} :
              u \in S /\ {E[v].file.parent : v \in S} = S
    BY <1>5 DEF cycles
  <2>2. {B[v].parent : v \in S} = S
    BY <1>3, <2>1
  <2>3. S \in SUBSET {v \in Uids : B[v] # None}
    BY <1>4, <2>1
  <2>4. OnLoop(u, B)
    BY <2>1, <2>2, <2>3 DEF OnLoop
  <2> QED BY <1>1, <2>4
<1>6. ASSUME OnLoop(u, Sound(files))
      PROVE  u \in cycles(E)
  <2>1. PICK S \in SUBSET {v \in Uids : B[v] # None} :
              u \in S /\ {B[v].parent : v \in S} = S
    BY <1>1, <1>6 DEF OnLoop
  <2>2. S \in SUBSET Uids /\ \A v \in S : E[v].state = "OK"
    BY <1>4, <2>1
  <2>3. {E[v].file.parent : v \in S} = S
    BY <1>3, <2>1, <2>2
  <2> QED BY <2>1, <2>2, <2>3 DEF cycles
<1> QED BY <1>5, <1>6

LEMMA Validated ==
    ASSUME TypeOK, NEW rows, Mirrors(rows), NEW V, V = validateBoard(rows, sprints.files)
    PROVE  /\ V \in [Uids -> Rows]
           /\ \A u \in Uids :
                 /\ V[u].file = rows[u].file
                 /\ ~Here(u) => V[u].state = rows[u].state
                 /\ V[u].state = "INVALID" <=> Here(u) /\ Broken(u, files)
                 /\ V[u].state = "OK" <=> Here(u) /\ ~Broken(u, files)
<1>1. PICK G : G = [u \in Uids |-> IF rows[u].state = "INVALID"
                                  THEN [rows[u] EXCEPT !.state = "OK"] ELSE rows[u]]
  OBVIOUS
<1>2. ASSUME NEW u \in Uids, NEW r, r = [rows[u] EXCEPT !.state = "OK"]
      PROVE  r \in Rows /\ r.file = rows[u].file /\ r.state = "OK"
  BY <1>2 DEF Mirrors, Rows, States
<1>3. /\ G \in [Uids -> Rows]
      /\ \A u \in Uids : /\ G[u].file = rows[u].file
                         /\ Here(u) => G[u].state = "OK"
                         /\ ~Here(u) => G[u].state = rows[u].state
  BY <1>1, <1>2 DEF Mirrors
<1>4. Present(G) = {u \in Uids : Here(u)}
  BY <1>3 DEF Present, Mirrors, Here
<1>5. PICK D : D = danglingReferences(G, sprints.files)
  OBVIOUS
<1>6. D = {u \in Uids : Here(u) /\ Stranded(u, files)}
  <2>1. \A u \in Uids : Here(u) => G[u].file = files[u] /\ files[u].parent \in Uids \cup {None}
    BY <1>3, RowFields, FileFields DEF Mirrors, Here
  <2>2. \A u \in Uids : Here(u) =>
            (Stranded(u, files) <=> \/ G[u].file.parent \notin Present(G) \cup {None}
                                    \/ G[u].file.sprint \notin sprints.files \cup {None})
    BY <1>4, <2>1, NoFile DEF Stranded, Here
  <2>3. D = {u \in Present(G) : \/ G[u].file.parent \notin Present(G) \cup {None}
                                 \/ G[u].file.sprint \notin sprints.files \cup {None}}
    BY <1>5 DEF danglingReferences
  <2> QED BY <1>4, <2>2, <2>3
<1>7. PICK E : E = With(G, D)
  OBVIOUS
<1>8. /\ E \in [Uids -> Rows]
      /\ \A u \in Uids : E[u].file = rows[u].file
      /\ \A u \in Uids : E[u].state = IF u \in D THEN "INVALID" ELSE G[u].state
  BY ONLY <1>3, <1>7, HiddenRows
<1>9. \A u \in Uids : E[u].state = "OK" <=> Here(u) /\ u \notin D
  BY <1>3, <1>6, <1>8 DEF Mirrors, Here
<1>10. \A u \in Uids : u \in cycles(E) <=> OnLoop(u, Sound(files))
  <2>1. \A u \in Uids : Here(u) => E[u].file = files[u]
    BY <1>8 DEF Mirrors
  <2> QED BY <1>6, <1>8, <1>9, <2>1, LoopsAreFound
<1>11. V = With(E, cycles(E))
  BY <1>1, <1>5, <1>7 DEF validateBoard, Quarantined
<1>12. /\ V \in [Uids -> Rows]
       /\ \A u \in Uids : V[u].file = E[u].file
       /\ \A u \in Uids : V[u].state = IF u \in cycles(E) THEN "INVALID" ELSE E[u].state
  BY <1>8, <1>11, HiddenRows
<1>13. ASSUME NEW u \in Uids
       PROVE  /\ OnLoop(u, Sound(files)) => Here(u)
              /\ Here(u) => (Broken(u, files) <=> u \in D \/ OnLoop(u, Sound(files)))
  <2>1. OnLoop(u, Sound(files)) => Sound(files)[u] # None
    BY DEF OnLoop
  <2>2. Sound(files)[u] # None => Here(u)
    BY DEF Sound, Here
  <2> QED BY <1>6, <2>1, <2>2 DEF Broken
<1> QED BY <1>3, <1>6, <1>8, <1>10, <1>12, <1>13 DEF Mirrors, Here

-----------------------------------------------------------------------------
(* What the passes make of the index.                                      *)

Passed ==
    /\ index' \in [Uids -> Rows]
    /\ \A u \in Uids :
          /\ Here(u) => index'[u].file = files[u]
          /\ index'[u].state = "INVALID" <=> Here(u) /\ Broken(u, files)
          /\ index'[u].state = "OK" <=> Here(u) /\ ~Broken(u, files)

LEMMA Retired ==
    ASSUME TypeOK, NEW u \in Uids, NEW r, r = retirePath(index[u])
    PROVE  /\ r \in Rows /\ r.file = Row(u)
           /\ index[u].state = "none" => r.state = "none"
           /\ index[u].state # "none" => r.state = "PENDING_DELETE"
BY RowFields DEF retirePath, Rows, States, Row

LEMMA Synchronised ==
    ASSUME TypeOK, index' = incrementalSync
    PROVE  /\ Passed
           /\ \A u \in Uids : ~Here(u) =>
                 /\ index'[u].file = Row(u)
                 /\ index'[u].state = IF index[u].state = "none" THEN "none" ELSE "PENDING_DELETE"
<1>1. PICK rows : rows = [u \in Uids |->
        IF ~Here(u) THEN retirePath(index[u])
        ELSE IF index[u].file = files[u] /\ index[u].state # "PENDING_DELETE" THEN index[u]
        ELSE [state |-> "OK", file |-> files[u]]]
  OBVIOUS
<1>2. ASSUME NEW u \in Uids
      PROVE  /\ rows[u] \in Rows
             /\ Here(u) => rows[u].file = files[u] /\ rows[u].state \in {"OK", "INVALID"}
             /\ ~Here(u) => /\ rows[u].file = Row(u)
                            /\ rows[u].state = IF index[u].state = "none" THEN "none"
                                               ELSE "PENDING_DELETE"
  <2>1. CASE ~Here(u)
    BY <1>1, <2>1, Retired
  <2>2. CASE Here(u) /\ index[u].file = files[u] /\ index[u].state # "PENDING_DELETE"
    BY <1>1, <2>2, RowFields, FileFields DEF Row, States
  <2>3. CASE Here(u) /\ ~(index[u].file = files[u] /\ index[u].state # "PENDING_DELETE")
    <3>1. rows[u] = [state |-> "OK", file |-> files[u]]
      BY <1>1, <2>3
    <3> QED BY <2>3, <3>1, RowFields DEF Rows, States
  <2> QED BY <2>1, <2>2, <2>3
<1>3. Mirrors(rows)
  BY <1>1, <1>2 DEF Mirrors
<1>4. index' = validateBoard(rows, sprints.files)
  BY <1>1 DEF incrementalSync
<1> QED BY <1>2, <1>3, <1>4, Validated DEF Mirrors, Passed

LEMMA Rebuilt ==
    ASSUME TypeOK, index' = rebuildIndex
    PROVE  /\ Passed
           /\ \A u \in Uids : ~Here(u) => index'[u].file = None /\ index'[u].state = "none"
<1>1. PICK rows : rows = [u \in Uids |-> IF Here(u) THEN [state |-> "OK", file |-> files[u]]
                                       ELSE NoRow]
  OBVIOUS
<1>2. ASSUME NEW u \in Uids
      PROVE  /\ rows[u] \in Rows
             /\ Here(u) => rows[u].file = files[u] /\ rows[u].state \in {"OK", "INVALID"}
             /\ ~Here(u) => rows[u].file = None /\ rows[u].state = "none"
  <2>1. CASE ~Here(u)
    BY <1>1, <2>1, NoFile
  <2>2. CASE Here(u)
    <3>1. rows[u] = [state |-> "OK", file |-> files[u]]
      BY <1>1, <2>2
    <3> QED BY <2>2, <3>1, RowFields DEF Rows, States
  <2> QED BY <2>1, <2>2
<1>3. Mirrors(rows)
  BY <1>1, <1>2 DEF Mirrors
<1>4. index' = validateBoard(rows, sprints.files)
  BY <1>1 DEF rebuildIndex
<1> QED BY <1>2, <1>3, <1>4, Validated DEF Mirrors, Passed

-----------------------------------------------------------------------------
(* What a write makes of the board.                                        *)

LEMMA Written ==
    ASSUME TypeOK, NEW u \in Uids, NEW f \in Files \cup {None}, Write(u, f)
    PROVE  /\ files' \in [Uids -> Files \cup {None}]
           /\ index' \in [Uids -> Rows]
           /\ \A v \in Uids : index'[v].file = None <=> index'[v].state = "none"
           /\ unread' = unread \ {u}
           /\ files'[u] = f
           /\ \A v \in Uids : v # u => files'[v] = files[v] /\ index'[v] = index[v]
           /\ f # None => index'[u].state = "OK" /\ index'[u].file = f
           /\ f = None => /\ index'[u].file = Row(u)
                          /\ index[u].state = "none" => index'[u].state = "none"
                          /\ index[u].state # "none" => index'[u].state = "PENDING_DELETE"
<1>1. /\ files' = [files EXCEPT ![u] = f]
      /\ unread' = unread \ {u}
      /\ index' = [index EXCEPT ![u] = IF f = None THEN retirePath(index[u])
                                       ELSE [state |-> "OK", file |-> f]]
  BY DEF Write
<1>2. files \in [Uids -> Files \cup {None}] /\ index \in [Uids -> Rows]
  BY DEF TypeOK
<1>3. \A v \in Uids : v # u => files'[v] = files[v] /\ index'[v] = index[v]
  BY <1>1, <1>2
<1>4. files'[u] = f /\ files' \in [Uids -> Files \cup {None}]
  BY <1>1, <1>2
<1>5. PICK r : r = IF f = None THEN retirePath(index[u]) ELSE [state |-> "OK", file |-> f]
  OBVIOUS
<1>6. f # None => r \in Rows /\ r.state = "OK" /\ r.file = f
  BY <1>5 DEF Rows, States
<1>7. f = None => /\ r \in Rows /\ r.file = Row(u)
                  /\ index[u].state = "none" => r.state = "none"
                  /\ index[u].state # "none" => r.state = "PENDING_DELETE"
  BY <1>5, Retired
<1>8. r \in Rows
  BY <1>6, <1>7
<1>9. index'[u] = r /\ index' \in [Uids -> Rows]
  BY <1>1, <1>2, <1>5, <1>8
<1>10. \A v \in Uids : index'[v].file = None <=> index'[v].state = "none"
  <2>1. \A v \in Uids : index[v].file = None <=> index[v].state = "none"
    BY DEF TypeOK
  <2>2. r.file = None <=> r.state = "none"
    BY <1>6, <1>7, <2>1 DEF Row
  <2> QED BY <1>3, <1>9, <2>1, <2>2
<1> QED BY <1>1, <1>3, <1>4, <1>6, <1>7, <1>9, <1>10

(* A patch keeps the key and the type of the file.                         *)
LEMMA LedgerPatched ==
    ASSUME TypeOK, Ledger, NEW u \in Uids, NEW f \in Files, Here(u), Write(u, f),
           f.key = files[u].key, f.type = files[u].type,
           named' = named, loose' = loose, edited' = edited
    PROVE  Ledger'
<1>1. /\ unread' = unread \ {u} /\ files'[u] = f
      /\ \A v \in Uids : v # u => files'[v] = files[v] /\ index'[v] = index[v]
      /\ index'[u].state = "OK" /\ index'[u].file = f
  BY Written, NoFile
<1>2. \A v \in Uids : Here(v)' <=> Here(v)
  BY <1>1, NoFile DEF Here
<1>3. \A v \in Uids : Here(v) => files'[v].key = files[v].key /\ files'[v].type = files[v].type
  BY <1>1
<1>4. index[u].state # "none" /\ Row(u).key = files[u].key
  <2>1. index[u].state \in {"OK", "INVALID"} /\ <<files[u].key, u>> \in named
    BY DEF Ledger
  <2>2. <<Row(u).key, u>> \in named
    BY <2>1 DEF Ledger
  <2>3. Row(u).key \in Keys /\ files[u].key \in Keys
    BY <2>1, RowFields, FileFields
  <2> QED BY <2>1, <2>2, <2>3 DEF Ledger
<1>5. \A v \in Uids : Here(v)' =>
          /\ <<files'[v].key, v>> \in named
          /\ index'[v].state \in {"OK", "INVALID"} /\ index'[v].file.type = files'[v].type
          /\ v \notin unread' => index'[v].file = files'[v]
  BY <1>1, <1>2, <1>3 DEF Ledger, Row
<1>6. \A v \in Uids : index'[v].state # "none" =>
          <<index'[v].file.key, v>> \in named /\ index[v].state # "none"
  BY <1>1, <1>4 DEF Ledger, Row
<1>7. \A v \in Uids : index[v].state # "none" => index'[v].state # "none"
  BY <1>1
<1>8. \A v, w \in Uids : Here(v)' /\ Here(w)' /\ files'[v].key = files'[w].key => v = w
  BY <1>2, <1>3 DEF Ledger, KeysAreNotReused
<1> QED BY <1>1, <1>5, <1>6, <1>7, <1>8 DEF Ledger, KeysAreNotReused, Here, Row

(* A file that has gone leaves its key to its tombstone.                   *)
LEMMA LedgerRemoved ==
    ASSUME TypeOK, Ledger, NEW u \in Uids, Here(u), Write(u, None),
           named' = named, loose' = loose, edited' = edited
    PROVE  Ledger'
<1>1. /\ unread' = unread \ {u} /\ files'[u] = None
      /\ \A v \in Uids : v # u => files'[v] = files[v] /\ index'[v] = index[v]
      /\ index'[u].file = Row(u)
      /\ index[u].state = "none" => index'[u].state = "none"
      /\ index[u].state # "none" => index'[u].state = "PENDING_DELETE"
  BY Written
<1>2. \A v \in Uids : Here(v)' => Here(v) /\ v # u
  BY <1>1 DEF Here
<1>3. \A v \in Uids : Here(v)' =>
          /\ <<files'[v].key, v>> \in named
          /\ index'[v].state \in {"OK", "INVALID"} /\ index'[v].file.type = files'[v].type
          /\ v \notin unread' => index'[v].file = files'[v]
  BY <1>1, <1>2 DEF Ledger, Row
<1>4. \A v \in Uids : /\ index'[v].state # "none" <=> index[v].state # "none"
                      /\ index'[v].file = index[v].file
  BY <1>1 DEF Row
<1>5. \A v, w \in Uids : Here(v)' /\ Here(w)' /\ files'[v].key = files'[w].key => v = w
  BY <1>1, <1>2 DEF Ledger, KeysAreNotReused
<1> QED BY <1>1, <1>3, <1>4, <1>5 DEF Ledger, KeysAreNotReused, Here, Row

-----------------------------------------------------------------------------
(* What a step leaves as it was.                                           *)

(* An issue keeps its type, and a uid is used once.                        *)
TypesStay ==
    \A p \in Uids : Known(p) /\ Here(p)' => Here(p) /\ files'[p].type = files[p].type

HistoryGrows ==
    named \subseteq named' /\ edited \subseteq edited' /\ missed \subseteq missed'
        /\ loose \subseteq loose'

LEMMA StillFits ==
    ASSUME HistoryGrows, TypesStay, NEW type, NEW p \in Uids, Fits(type, p)
    PROVE  /\ \E k \in Keys : <<k, p>> \in named'
           /\ files'[p] # None => files'[p].type \in ALLOWED_PARENTS[type]
BY DEF HistoryGrows, TypesStay, Fits, Known, Here

LEMMA CreatingStays ==
    ASSUME TypeOK, HistoryGrows, TypesStay, NEW c \in Clients, Creating(c),
           handlers'[c] = handlers[c],
           \A d \in Clients : handlers'[d].op = "create" => handlers'[d] = handlers[d],
           \A u \in Uids, k \in Keys : <<k, u>> \in named' =>
               \/ <<k, u>> \in named
               \/ \E d \in Clients : /\ d # c /\ handlers[d].op = "create"
                                     /\ u = handlers[d].uid /\ k = handlers[d].to.key
    PROVE  Creating(c)'
<1> SUFFICES ASSUME handlers[c].op = "create" PROVE Creating(c)'
  BY DEF Creating
<1>1. PICK u, f : u = handlers[c].uid /\ f = handlers[c].to
  OBVIOUS
<1>2. /\ u \in Uids /\ ~Known(u) /\ f \in Files
      /\ f.parent # None => Fits(f.type, f.parent)
      /\ \A v \in Uids : <<f.key, v>> \in named => f.key \in loose
      /\ \A d \in Clients : d # c /\ handlers[d].op = "create" =>
            handlers[d].uid # u /\ (handlers[d].to.key = f.key => f.key \in loose)
  BY <1>1 DEF Creating
<1>3. f.key \in Keys /\ f.parent \in Uids \cup {None}
  BY <1>2, FileFields
<1>4. ~Known(u)'
  BY <1>2 DEF Known
<1>5. f.parent # None => /\ \E k \in Keys : <<k, f.parent>> \in named'
                         /\ files'[f.parent] # None =>
                               files'[f.parent].type \in ALLOWED_PARENTS[f.type]
  BY <1>2, <1>3, StillFits
<1>6. \A v \in Uids : <<f.key, v>> \in named' => f.key \in loose'
  BY <1>2, <1>3 DEF HistoryGrows
<1>7. \A d \in Clients : d # c /\ handlers'[d].op = "create" =>
          handlers'[d].uid # u /\ (handlers'[d].to.key = f.key => f.key \in loose')
  BY <1>2 DEF HistoryGrows
<1>8. u = handlers'[c].uid /\ f = handlers'[c].to
  BY <1>1
<1>9. ~\E k \in Keys : <<k, u>> \in named'
  BY <1>4 DEF Known
<1> QED BY <1>2, <1>5, <1>6, <1>7, <1>8, <1>9 DEF Creating, Fits, Known, Here

LEMMA PatchingStays ==
    ASSUME HistoryGrows, TypesStay, NEW c \in Clients, Patching(c), handlers'[c] = handlers[c]
    PROVE  Patching(c)'
<1> SUFFICES ASSUME handlers[c].op \in Patches PROVE Patching(c)'
  BY DEF Patching
<1>1. PICK g, f, op : g = handlers[c].from /\ f = handlers[c].to /\ op = handlers[c].op
  OBVIOUS
<1>2. /\ handlers[c].uid \in Uids /\ g \in Files /\ f \in Files /\ Keeps(op, g, f)
      /\ op = "reparent" /\ f.parent # None => Fits(f.type, f.parent)
  BY <1>1 DEF Patching
<1>3. op = "reparent" /\ f.parent # None =>
          /\ \E k \in Keys : <<k, f.parent>> \in named'
          /\ files'[f.parent] # None => files'[f.parent].type \in ALLOWED_PARENTS[f.type]
  BY <1>2, FileFields, StillFits
<1>4. g = handlers'[c].from /\ f = handlers'[c].to /\ op = handlers'[c].op
  BY <1>1
<1>5. (Keeps(handlers[c].op, handlers[c].from, handlers[c].to))'
  BY <1>1, <1>2, <1>4 DEF Keeps
<1> QED BY <1>2, <1>3, <1>4, <1>5 DEF Patching, Fits, Known, Here

(* An issue hung below one that is going is remembered.                    *)
HangsAreMissed ==
    \A u \in Uids : Here(u)' /\ files'[u].parent # None =>
        \/ Here(u) /\ files[u].parent = files'[u].parent
        \/ u \in edited' \cup missed'
        \/ ~Deleting(files'[u].parent)

LEMMA CoveredStays ==
    ASSUME TypeOK, HistoryGrows, HangsAreMissed, NEW c \in Clients, Covered(c),
           handlers'[c] = handlers[c]
    PROVE  Covered(c)'
<1> SUFFICES ASSUME handlers[c].op = "delete" PROVE Covered(c)'
  BY DEF Covered
<1>1. PICK p, todo : p = handlers[c].uid /\ todo = handlers[c].todo
  OBVIOUS
<1>2. p \in Uids /\ p # None
  BY <1>1, NoFile DEF Covered
<1>3. \A u \in Uids : Here(u) /\ files[u].parent = p =>
          u \in edited \cup missed \cup {t.uid : t \in todo}
  BY <1>1 DEF Covered
<1>4. Deleting(p)
  BY <1>1 DEF Deleting
<1>5. \A u \in Uids : Here(u)' /\ files'[u].parent = p =>
          u \in edited' \cup missed' \cup {t.uid : t \in todo}
  BY <1>2, <1>3, <1>4 DEF HangsAreMissed, HistoryGrows
<1>6. p = handlers'[c].uid /\ todo = handlers'[c].todo
  BY <1>1
<1> QED BY <1>2, <1>5, <1>6 DEF Covered, Here

(* Where nothing is hung and nothing goes, the tree stays as it was.       *)
LEMMA BranchStays ==
    ASSUME TypeOK, HistoryGrows, TypesStay, Branching, NEW u \in Uids, Here(u), Here(u)',
           files'[u].type = files[u].type, files'[u].parent = files[u].parent,
           files[u].parent # None,
           Here(files[u].parent) => files'[files[u].parent] # None \/ u \in edited' \cup missed'
    PROVE  /\ files'[files[u].parent] = None => u \in edited' \cup missed'
           /\ edited' = {} => /\ \E k \in Keys : <<k, files[u].parent>> \in named'
                              /\ files'[files[u].parent] # None =>
                                    files'[files[u].parent].type \in ALLOWED_PARENTS[files[u].type]
<1>1. PICK p, type : p = files[u].parent /\ type = files[u].type
  OBVIOUS
<1>2. p \in Uids
  BY <1>1, RowFields, FileFields
<1>3. ~Here(p) => u \in edited \cup missed
  BY <1>1 DEF Branching
<1>4. edited = {} => Fits(type, p)
  BY <1>1 DEF Branching
<1>5. edited' = {} => edited = {}
  BY DEF HistoryGrows
<1>6. Here(p) => files'[p] # None \/ u \in edited' \cup missed'
  BY <1>1
<1>7. files'[p] = None => u \in edited' \cup missed'
  BY <1>3, <1>6 DEF HistoryGrows
<1>8. edited' = {} => /\ \E k \in Keys : <<k, p>> \in named'
                      /\ files'[p] # None => files'[p].type \in ALLOWED_PARENTS[type]
  BY <1>2, <1>4, <1>5, StillFits
<1> QED BY <1>1, <1>7, <1>8

-----------------------------------------------------------------------------
(* Requests.                                                               *)

LEMMA Spent ==
    ASSUME TypeOK, NEW what \in {"requests", "edits", "faults"}, NEW bound \in Nat,
           what = "requests" => bound = MaxRequests,
           what = "edits" => bound = MaxEdits,
           what = "faults" => bound = MaxFaults,
           budget[what] < bound, budget' = [budget EXCEPT ![what] = @ + 1]
    PROVE  budget' \in [requests: 0..MaxRequests, edits: 0..MaxEdits, faults: 0..MaxFaults]
<1>1. budget \in [requests: 0..MaxRequests, edits: 0..MaxEdits, faults: 0..MaxFaults]
  BY DEF TypeOK
<1>2. MaxRequests \in Nat /\ MaxEdits \in Nat /\ MaxFaults \in Nat
  BY IssueTreeAssumption
<1>3. CASE what = "requests"
  <2>1. budget' = [budget EXCEPT !.requests = budget.requests + 1] /\ budget.requests < MaxRequests
    BY <1>3
  <2> QED BY <1>1, <1>2, <2>1
<1>4. CASE what = "edits"
  <2>1. budget' = [budget EXCEPT !.edits = budget.edits + 1] /\ budget.edits < MaxEdits
    BY <1>4
  <2> QED BY <1>1, <1>2, <2>1
<1>5. CASE what = "faults"
  <2>1. budget' = [budget EXCEPT !.faults = budget.faults + 1] /\ budget.faults < MaxFaults
    BY <1>5
  <2> QED BY <1>1, <1>2, <2>1
<1> QED BY <1>3, <1>4, <1>5

(* A request touches neither the files nor the index.                      *)
LEMMA Received ==
    ASSUME TypeOK, Ledger, Handling, Branching, NEW c \in Clients, NEW h \in Handlers,
           Awake(c), Receive(c, h), files' = files, index' = index, sprints' = sprints,
           named' = named,
           edited' = edited, unread' = unread,
           missed \subseteq missed', missed' \subseteq Uids,
           loose \subseteq loose', loose' \subseteq Keys
    PROVE  /\ TypeOK' /\ Ledger' /\ Branching' /\ handlers'[c] = h
           /\ \A d \in Clients : d # c =>
                 /\ handlers'[d] = handlers[d] /\ Patching(d)' /\ Covered(d)'
                 /\ h.op # "create" => Creating(d)'
<1>1. /\ handlers' = [handlers EXCEPT ![c] = h]
      /\ budget' = [budget EXCEPT !.requests = budget.requests + 1]
      /\ handlers[c].op = "free" /\ budget.requests < MaxRequests
  BY DEF Receive, Awake
<1>2. TypeOK'
  <2>1. budget' \in [requests: 0..MaxRequests, edits: 0..MaxEdits, faults: 0..MaxFaults]
    BY <1>1, IssueTreeAssumption DEF TypeOK
  <2>2. handlers' \in [Clients -> Handlers]
    BY <1>1 DEF TypeOK
  <2> QED BY <2>1, <2>2 DEF TypeOK
<1>3. Ledger'
  BY DEF Ledger, KeysAreNotReused, Here, Row
<1>4. HistoryGrows /\ TypesStay /\ HangsAreMissed
  BY DEF HistoryGrows, TypesStay, HangsAreMissed, Here
<1>5. Branching'
  BY DEF Branching, Fits, Known, Here
<1>6. handlers'[c] = h /\ \A d \in Clients : d # c => handlers'[d] = handlers[d]
  BY <1>1 DEF TypeOK
<1>7. ASSUME NEW d \in Clients, d # c
      PROVE  Patching(d)' /\ Covered(d)' /\ (h.op # "create" => Creating(d)')
  <2>1. Creating(d) /\ Patching(d) /\ Covered(d) /\ handlers'[d] = handlers[d]
    BY <1>6, <1>7 DEF Handling
  <2>2. Patching(d)' /\ Covered(d)'
    BY <1>4, <2>1, PatchingStays, CoveredStays
  <2>3. ASSUME h.op # "create"
        PROVE  Creating(d)'
    <3>1. \A e \in Clients : handlers'[e].op = "create" => handlers'[e] = handlers[e]
      BY <1>6, <2>3
    <3> QED BY <1>4, <2>1, <3>1, CreatingStays
  <2> QED BY <2>2, <2>3
<1> QED BY <1>2, <1>3, <1>5, <1>6, <1>7

LEMMA FreeHandler ==
    /\ Free \in Handlers /\ Free.op = "free"
    /\ \A c \in Clients : handlers[c] = Free => Creating(c) /\ Patching(c) /\ Covered(c)
BY DEF Free, Handlers, Ops, Patches, Creating, Patching, Covered

(* What the check of a parent says of the board.                           *)
LEMMA ParentIsKnown ==
    ASSUME TypeOK, Ledger, NEW u, NEW type, NEW p \in Uids, validateParent(u, type, p)
    PROVE  Fits(type, p)
<1>1. index[p].state = "OK" /\ Row(p).type \in ALLOWED_PARENTS[type]
  BY DEF validateParent, OK
<1>2. Known(p)
  <2>1. <<Row(p).key, p>> \in named
    BY <1>1 DEF Ledger
  <2>2. Row(p).key \in Keys
    BY <1>1, RowFields, FileFields
  <2> QED BY <2>1, <2>2 DEF Known
<1>3. Here(p) => files[p].type = Row(p).type
  BY DEF Ledger
<1> QED BY <1>1, <1>2, <1>3 DEF Fits

LEMMA CreateKeeps ==
    ASSUME TreeInv, NEW c \in Clients, NEW u \in Uids, NEW type \in NewTypes,
           NEW p \in Uids \cup {None}, createIssue(c, u, type, p)
    PROVE  TreeInv'
<1>1. TypeOK /\ Ledger /\ Handling /\ Branching
  BY DEF TreeInv
<1>2. PICK k : k = allocateKey
  OBVIOUS
<1>3. PICK f : f = [key |-> k, type |-> type, status |-> "BACKLOG",
                   blocked_from |-> NoStatus, parent |-> p, sprint |-> None, links |-> {}]
  OBVIOUS
<1>4. PICK h : h = [Free EXCEPT !.op = "create", !.uid = u, !.to = f]
  OBVIOUS
<1>5. /\ Awake(c) /\ u \notin {n[2] : n \in named}
      /\ \A d \in Clients : handlers[d].uid # u
      /\ p # None => validateParent(u, type, p)
      /\ k \in Keys /\ ~KeyTaken(k) /\ Receive(c, h)
      /\ loose' = IF \E d \in Clients : handlers[d].op = "create" /\ handlers[d].to.key = k
                  THEN loose \cup {k} ELSE loose
      /\ files' = files /\ index' = index /\ sprints' = sprints /\ named' = named /\ edited' = edited
      /\ unread' = unread /\ missed' = missed
  BY <1>2, <1>3, <1>4 DEF createIssue
<1>6. f \in Files /\ f.key = k /\ f.type = type /\ f.parent = p
  BY <1>3, <1>5, IssueTreeAssumption DEF Files, Statuses, NoStatus
<1>7. h = [op |-> "create", uid |-> u, from |-> None, to |-> f, todo |-> {}]
  BY <1>4 DEF Free
<1>8. h \in Handlers
  BY <1>6, <1>7 DEF Handlers, Ops
<1>9. missed' \subseteq Uids /\ loose' \subseteq Keys /\ loose \subseteq loose'
  BY <1>1, <1>5 DEF TypeOK
<1>10. /\ TypeOK' /\ Ledger' /\ Branching' /\ handlers'[c] = h
       /\ \A d \in Clients : d # c =>
             handlers'[d] = handlers[d] /\ Patching(d)' /\ Covered(d)'
  BY <1>1, <1>5, <1>8, <1>9, Received
<1>11. ~Known(u)
  <2>1. ASSUME NEW j \in Keys, <<j, u>> \in named
        PROVE  FALSE
    <3>1. <<j, u>>[2] \in {n[2] : n \in named}
      BY <2>1
    <3> QED BY <1>5, <3>1
  <2> QED BY <2>1 DEF Known
<1>12. p # None => Fits(type, p)
  BY <1>1, <1>5, ParentIsKnown
<1>13. ASSUME NEW v \in Uids, <<k, v>> \in named
       PROVE  k \in loose
  <2>1. SUFFICES ASSUME k \notin loose PROVE FALSE
    OBVIOUS
  <2>2. index[v].state # "none" /\ <<Row(v).key, v>> \in named
    BY <1>1, <1>5, <1>13, <2>1 DEF Ledger
  <2>3. Row(v).key \in Keys
    BY <1>1, <2>2, RowFields, FileFields
  <2>4. Row(v).key = k
    BY <1>1, <1>5, <1>13, <2>2, <2>3 DEF Ledger
  <2>5. Row(v).key < k
    BY <1>1, <1>2, <2>2, NewNumber
  <2> QED BY <2>3, <2>4, <2>5 DEF Keys
<1>14. \A d \in Clients : d # c /\ handlers[d].op = "create" =>
          /\ handlers[d].uid # u
          /\ handlers[d].to.key = k => k \in loose'
  BY <1>5
<1>15. Creating(c)'
  <2>1. handlers'[c].uid = u /\ handlers'[c].to = f
    BY <1>7, <1>10
  <2>2. \A v \in Uids : <<k, v>> \in named' => k \in loose'
    BY <1>5, <1>9, <1>13
  <2>3. \A d \in Clients : d # c /\ handlers'[d].op = "create" =>
            handlers'[d].uid # u /\ (handlers'[d].to.key = k => k \in loose')
    BY <1>10, <1>14
  <2>4. p # None => /\ \E j \in Keys : <<j, p>> \in named'
                    /\ files'[p] # None => files'[p].type \in ALLOWED_PARENTS[type]
    BY <1>5, <1>12 DEF Fits, Known, Here
  <2>5. ~\E j \in Keys : <<j, u>> \in named'
    BY <1>5, <1>11 DEF Known
  <2> QED BY <1>6, <2>1, <2>2, <2>3, <2>4, <2>5 DEF Creating, Fits, Known, Here
<1>16. Patching(c)' /\ Covered(c)'
  BY <1>7, <1>10 DEF Patching, Patches, Covered
<1>17. ASSUME NEW d \in Clients, d # c, handlers[d].op = "create"
       PROVE  Creating(d)'
  <2>1. PICK w, g : w = handlers[d].uid /\ g = handlers[d].to
    OBVIOUS
  <2>2. /\ w \in Uids /\ ~Known(w) /\ g \in Files
        /\ g.parent # None => Fits(g.type, g.parent)
        /\ \A v \in Uids : <<g.key, v>> \in named => g.key \in loose
        /\ \A e \in Clients : e # d /\ handlers[e].op = "create" =>
              handlers[e].uid # w /\ (handlers[e].to.key = g.key => g.key \in loose)
    BY <1>1, <1>17, <2>1 DEF Handling, Creating
  <2>3. handlers'[d].uid = w /\ handlers'[d].to = g
    BY <1>10, <1>17, <2>1
  <2>4. \A v \in Uids : <<g.key, v>> \in named' => g.key \in loose'
    BY <1>5, <1>9, <2>2
  <2>5. \A e \in Clients : e # d /\ handlers'[e].op = "create" =>
            handlers'[e].uid # w /\ (handlers'[e].to.key = g.key => g.key \in loose')
    <3>1. u # w /\ (k = g.key => k \in loose')
      BY <1>5, <1>17, <2>1
    <3>2. handlers'[c].uid = u /\ handlers'[c].to.key = k
      BY <1>6, <1>7, <1>10
    <3> QED BY <1>9, <1>10, <2>2, <3>1, <3>2
  <2>6. g.parent # None => /\ \E j \in Keys : <<j, g.parent>> \in named'
                           /\ files'[g.parent] # None =>
                                 files'[g.parent].type \in ALLOWED_PARENTS[g.type]
    BY <1>5, <2>2 DEF Fits, Known, Here
  <2>7. ~\E j \in Keys : <<j, w>> \in named'
    BY <1>5, <2>2 DEF Known
  <2> QED BY <2>2, <2>3, <2>4, <2>5, <2>6, <2>7 DEF Creating, Fits, Known, Here
<1>18. \A d \in Clients : Creating(d)'
  BY <1>10, <1>15, <1>17 DEF Creating
<1> QED BY <1>10, <1>16, <1>18 DEF TreeInv, Handling

(* A patch of a file on disk, accepted and not yet written.                *)
LEMMA PatchAccepted ==
    ASSUME TreeInv, NEW c \in Clients, NEW op \in Patches,
           NEW u \in Uids, NEW f \in Files, Here(u), Keeps(op, files[u], f),
           op = "reparent" /\ f.parent # None => Fits(f.type, f.parent),
           Awake(c), Accept(c, Patch(op, u, f))
    PROVE  TreeInv'
<1>1. TypeOK /\ Ledger /\ Handling /\ Branching
  BY DEF TreeInv
<1>2. PICK g : g = files[u]
  OBVIOUS
<1>3. PICK h : h = [op |-> op, uid |-> u, from |-> g, to |-> f, todo |-> {}]
  OBVIOUS
<1>4. g \in Files
  BY <1>1, <1>2, RowFields
<1>5. h \in Handlers
  BY <1>3, <1>4 DEF Handlers, Ops, Patches
<1>6. /\ Receive(c, h) /\ files' = files /\ index' = index /\ sprints' = sprints /\ named' = named
      /\ edited' = edited /\ unread' = unread /\ missed' = missed /\ loose' = loose
  BY <1>2, <1>3 DEF Accept, Patch, history
<1>7. missed' \subseteq Uids /\ loose' \subseteq Keys
  BY <1>1, <1>6 DEF TypeOK
<1>8. /\ TypeOK' /\ Ledger' /\ Branching' /\ handlers'[c] = h
      /\ \A d \in Clients : d # c =>
            Creating(d)' /\ Patching(d)' /\ Covered(d)'
  BY <1>1, <1>3, <1>5, <1>6, <1>7, Received DEF Patches
<1>9. Creating(c)' /\ Covered(c)'
  BY <1>3, <1>8 DEF Creating, Covered, Patches
<1>10. Patching(c)'
  <2>1. /\ handlers'[c].op = op /\ handlers'[c].uid = u
        /\ handlers'[c].from = g /\ handlers'[c].to = f
    BY <1>3, <1>8
  <2>2. (Keeps(handlers[c].op, handlers[c].from, handlers[c].to))'
    BY <1>2, <2>1 DEF Keeps
  <2>3. op = "reparent" /\ f.parent # None =>
            /\ \E j \in Keys : <<j, f.parent>> \in named'
            /\ files'[f.parent] # None => files'[f.parent].type \in ALLOWED_PARENTS[f.type]
    BY <1>6 DEF Fits, Known, Here
  <2> QED BY <1>4, <2>1, <2>2, <2>3 DEF Patching, Fits, Known, Here
<1> QED BY <1>8, <1>9, <1>10 DEF TreeInv, Handling

LEMMA UpdateKeeps ==
    ASSUME TreeInv, NEW c \in Clients, NEW u \in Uids, NEW p \in Uids \cup {None},
           updateIssue(c, u, p)
    PROVE  TreeInv'
<1>1. PICK f : f = [files[u] EXCEPT !.parent = p]
  OBVIOUS
<1>2. /\ Awake(c) /\ OK(u) /\ Here(u) /\ Accept(c, Patch("reparent", u, f))
      /\ p # None => validateParent(u, Row(u).type, p)
  BY <1>1 DEF updateIssue
<1>3. TypeOK /\ Ledger
  BY DEF TreeInv
<1>4. files[u] \in Files
  BY <1>2, <1>3, RowFields
<1>5. f \in Files /\ f.parent = p /\ f.type = files[u].type /\ Keeps("reparent", files[u], f)
  BY <1>1, <1>4 DEF Files, Keeps
<1>6. Row(u).type = f.type
  BY <1>2, <1>3, <1>5 DEF Ledger
<1>7. p # None => Fits(f.type, p)
  BY <1>2, <1>3, <1>6, ParentIsKnown
<1> QED BY <1>2, <1>5, <1>7, PatchAccepted DEF Patches

LEMMA PlanKeeps ==
    ASSUME TreeInv, NEW c \in Clients, NEW u \in Uids, NEW s \in SprintIds \cup {None},
           planIssue(c, u, s)
    PROVE  TreeInv'
<1>1. PICK f : f = [files[u] EXCEPT !.sprint = s]
  OBVIOUS
<1>2. Awake(c) /\ Here(u) /\ Accept(c, Patch("plan", u, f))
  BY <1>1 DEF planIssue
<1>3. files[u] \in Files
  BY <1>2, RowFields DEF TreeInv
<1>4. f \in Files /\ Keeps("plan", files[u], f)
  BY <1>1, <1>3 DEF Files, Keeps
<1> QED BY <1>2, <1>4, PatchAccepted DEF Patches

LEMMA StatusChanged ==
    ASSUME NEW f \in Files, NEW from \in Statuses, NEW to \in Statuses,
           NEW g, g = WithStatus(f, from, to)
    PROVE  g \in Files /\ g.parent = f.parent /\ Keeps("move", f, g)
<1>1. PICK b : b = IF to = "BLOCKED" THEN from ELSE NoStatus
  OBVIOUS
<1>2. b \in Statuses \cup {NoStatus}
  BY <1>1
<1>3. g = [f EXCEPT !.status = to, !.blocked_from = b]
  BY <1>1 DEF WithStatus, patchStatus
<1> QED BY <1>2, <1>3 DEF Files, Keeps

LEMMA TransitionKeeps ==
    ASSUME TreeInv, NEW c \in Clients, NEW u \in Uids, NEW to \in MoveTargets,
           NEW role, transitionIssue(c, u, to, role)
    PROVE  TreeInv'
<1>1. PICK f : f = WithStatus(files[u], Row(u).status, to)
  OBVIOUS
<1>2. Awake(c) /\ OK(u) /\ Here(u) /\ Accept(c, Patch("move", u, f))
  BY <1>1 DEF transitionIssue
<1>3. TypeOK
  BY DEF TreeInv
<1>4. files[u] \in Files /\ Row(u) \in Files
  BY <1>2, <1>3, RowFields DEF OK
<1>5. to \in Statuses /\ Row(u).status \in Statuses
  BY <1>4, FileFields, IssueTreeAssumption
<1>6. f \in Files /\ Keeps("move", files[u], f)
  BY <1>1, <1>4, <1>5, StatusChanged
<1> QED BY <1>2, <1>6, PatchAccepted DEF Patches

LEMMA LinkKeeps ==
    ASSUME TreeInv, NEW c \in Clients, NEW u \in Uids, NEW b \in Uids,
           addLink(c, u, b) \/ removeLink(c, u, b)
    PROVE  TreeInv'
<1>1. PICK links \in {Row(u).links \cup {b}, Row(u).links \ {b}} :
          Awake(c) /\ OK(u) /\ Here(u)
              /\ Accept(c, Patch("link", u, [files[u] EXCEPT !.links = links]))
  BY DEF addLink, removeLink
<1>2. PICK f : f = [files[u] EXCEPT !.links = links]
  OBVIOUS
<1>3. TypeOK
  BY DEF TreeInv
<1>4. files[u] \in Files /\ Row(u) \in Files
  BY <1>1, <1>3, RowFields DEF OK
<1>5. links \subseteq Uids
  BY <1>4, FileFields
<1>6. f \in Files /\ Keeps("link", files[u], f)
  BY <1>2, <1>4, <1>5 DEF Files, Keeps
<1>7. Accept(c, Patch("link", u, f))
  BY <1>1, <1>2
<1> QED BY <1>1, <1>6, <1>7, PatchAccepted DEF Patches

LEMMA DeleteKeeps ==
    ASSUME TreeInv, NEW c \in Clients, NEW u \in Uids, NEW strategy, deleteIssue(c, u, strategy)
    PROVE  TreeInv'
<1>1. TypeOK /\ Ledger /\ Handling /\ Branching
  BY DEF TreeInv
<1>2. PICK todo : todo = {[uid |-> v, key |-> Row(v).key,
                          cancel |-> strategy = "cascade_cancel" /\ Row(v).status # "CANCELLED"] :
                             v \in childrenOf(u)}
  OBVIOUS
<1>3. PICK h : h = [Free EXCEPT !.op = "delete", !.uid = u, !.todo = todo]
  OBVIOUS
<1>4. /\ Awake(c) /\ OK(u) /\ Receive(c, h)
      /\ missed' = missed \cup {v \in Uids : Here(v) /\ files[v].parent = u /\ ~OK(v)}
      /\ files' = files /\ index' = index /\ sprints' = sprints /\ named' = named /\ edited' = edited
      /\ unread' = unread /\ loose' = loose
  BY <1>2, <1>3 DEF deleteIssue
<1>5. h = [op |-> "delete", uid |-> u, from |-> None, to |-> None, todo |-> todo]
  BY <1>3 DEF Free
<1>6. todo \subseteq [uid: Uids, key: Keys, cancel: BOOLEAN]
  <2>1. \A v \in childrenOf(u) : v \in Uids /\ Row(v).key \in Keys
    BY <1>1, RowFields, FileFields DEF childrenOf, OK
  <2>2. ASSUME NEW t \in todo
        PROVE  t \in [uid: Uids, key: Keys, cancel: BOOLEAN]
    <3>1. PICK v \in childrenOf(u) :
              t = [uid |-> v, key |-> Row(v).key,
                   cancel |-> strategy = "cascade_cancel" /\ Row(v).status # "CANCELLED"]
      BY <1>2, <2>2, Zenon
    <3>2. (strategy = "cascade_cancel" /\ Row(v).status # "CANCELLED") \in BOOLEAN
      BY Zenon
    <3>3. PICK b \in BOOLEAN : b = (strategy = "cascade_cancel" /\ Row(v).status # "CANCELLED")
      BY <3>2, Zenon
    <3>4. t = [uid |-> v, key |-> Row(v).key, cancel |-> b]
      BY <3>1, <3>3, Zenon
    <3> QED BY <2>1, <3>4
  <2> QED BY <2>2
<1>7. h \in Handlers
  BY <1>5, <1>6 DEF Handlers, Ops
<1>8. missed \subseteq missed' /\ missed' \subseteq Uids /\ loose' \subseteq Keys
  BY <1>1, <1>4 DEF TypeOK
<1>9. /\ TypeOK' /\ Ledger' /\ Branching' /\ handlers'[c] = h
      /\ \A d \in Clients : d # c => Creating(d)' /\ Patching(d)' /\ Covered(d)'
  BY <1>1, <1>4, <1>5, <1>7, <1>8, Received
<1>10. Creating(c)' /\ Patching(c)'
  BY <1>5, <1>9 DEF Creating, Patching, Patches
<1>11. Covered(c)'
  <2>1. handlers'[c].uid = u /\ handlers'[c].todo = todo
    BY <1>5, <1>9
  <2>2. ASSUME NEW v \in Uids, Here(v), files[v].parent = u
        PROVE  v \in edited \cup missed' \cup {t.uid : t \in todo}
    <3>1. CASE ~OK(v)
      BY <1>4, <2>2, <3>1
    <3>2. CASE v \in unread
      BY <1>1, <3>2 DEF Ledger
    <3>3. CASE OK(v) /\ v \notin unread
      <4>1. Row(v) = files[v]
        BY <1>1, <2>2, <3>3 DEF Ledger
      <4>2. v \in childrenOf(u)
        BY <2>2, <3>3, <4>1 DEF childrenOf
      <4>3. PICK t : t = [uid |-> v, key |-> Row(v).key,
                          cancel |-> strategy = "cascade_cancel" /\ Row(v).status # "CANCELLED"]
        OBVIOUS
      <4>4. t \in todo
        BY <1>2, <4>2, <4>3, Zenon
      <4>5. t.uid = v
        BY <4>3, Zenon
      <4> QED BY <4>4, <4>5
    <3> QED BY <3>1, <3>2, <3>3
  <2> QED BY <1>4, <2>1, <2>2 DEF Covered, Here
<1> QED BY <1>9, <1>10, <1>11 DEF TreeInv, Handling

-----------------------------------------------------------------------------
(* Writes.                                                                 *)

LEMMA Finished ==
    ASSUME TypeOK, Handling, HistoryGrows, TypesStay, HangsAreMissed,
           NEW c \in Clients, Finish(c),
           \A u \in Uids, k \in Keys : <<k, u>> \in named' =>
               \/ <<k, u>> \in named
               \/ /\ handlers[c].op = "create"
                  /\ u = handlers[c].uid /\ k = handlers[c].to.key
    PROVE  handlers' \in [Clients -> Handlers] /\ Handling'
<1>1. /\ handlers' \in [Clients -> Handlers] /\ handlers'[c] = Free
      /\ \A d \in Clients : d # c => handlers'[d] = handlers[d]
  BY FreeHandler DEF TypeOK, Finish
<1>2. \A d \in Clients : handlers'[d].op = "create" => handlers'[d] = handlers[d]
  BY <1>1, FreeHandler
<1>3. ASSUME NEW d \in Clients, d # c
      PROVE  Creating(d)' /\ Patching(d)' /\ Covered(d)'
  <2>1. Creating(d) /\ Patching(d) /\ Covered(d) /\ handlers'[d] = handlers[d]
    BY <1>1, <1>3 DEF Handling
  <2>2. \A u \in Uids, k \in Keys : <<k, u>> \in named' =>
            \/ <<k, u>> \in named
            \/ \E e \in Clients : /\ e # d /\ handlers[e].op = "create"
                                  /\ u = handlers[e].uid /\ k = handlers[e].to.key
    BY <1>3
  <2> QED BY <1>2, <2>1, <2>2, CreatingStays, PatchingStays, CoveredStays
<1>4. Creating(c)' /\ Patching(c)' /\ Covered(c)'
  BY <1>1, FreeHandler DEF Creating, Patching, Patches, Covered
<1> QED BY <1>1, <1>3, <1>4 DEF Handling

LEMMA NoneHung ==
    ASSUME NEW u, NEW f, Hang(u, f)
    PROVE  /\ missed \subseteq missed' /\ missed' \subseteq missed \cup {u}
           /\ f.parent # None => u \in missed' \/ (~Deleting(f.parent) /\ Here(f.parent))
BY DEF Hang

LEMMA CreateWriteKeeps ==
    ASSUME TreeInv, NEW c \in Clients, CreateWrite(c)
    PROVE  TreeInv'
<1>1. TypeOK /\ Ledger /\ Handling /\ Branching
  BY DEF TreeInv
<1>2. PICK u, f : u = handlers[c].uid /\ f = handlers[c].to
  OBVIOUS
<1>3. /\ handlers[c].op = "create" /\ Finish(c)
      /\ edited' = edited /\ loose' = loose /\ budget' = budget /\ sprints' = sprints
      /\ \/ /\ KeyTaken(f.key) /\ files' = files /\ index' = index
            /\ named' = named /\ unread' = unread /\ missed' = missed
         \/ /\ ~KeyTaken(f.key) /\ Write(u, f) /\ Hang(u, f)
            /\ named' = named \cup {<<f.key, u>>}
  BY <1>2 DEF CreateWrite
<1>4. /\ u \in Uids /\ ~Known(u) /\ f \in Files
      /\ f.parent # None => Fits(f.type, f.parent)
      /\ \A v \in Uids : <<f.key, v>> \in named => f.key \in loose
  BY <1>1, <1>2, <1>3 DEF Handling, Creating
<1>5. f.key \in Keys /\ f.parent \in Uids \cup {None} /\ f # None
  BY <1>4, FileFields
<1>6. ~Here(u) /\ index[u].state = "none"
  <2>1. Here(u) => <<files[u].key, u>> \in named /\ files[u].key \in Keys
    BY <1>1, <1>4, RowFields, FileFields DEF Ledger
  <2>2. index[u].state # "none" => <<Row(u).key, u>> \in named /\ Row(u).key \in Keys
    BY <1>1, <1>4, RowFields, FileFields DEF Ledger
  <2> QED BY <1>4, <2>1, <2>2 DEF Known
<1>7. CASE KeyTaken(f.key) /\ files' = files /\ index' = index
             /\ named' = named /\ unread' = unread /\ missed' = missed
  <2>1. HistoryGrows /\ TypesStay /\ HangsAreMissed
    BY <1>3, <1>7 DEF HistoryGrows, TypesStay, HangsAreMissed, Here
  <2>2. handlers' \in [Clients -> Handlers] /\ Handling'
    BY <1>1, <1>3, <1>7, <2>1, Finished
  <2>3. TypeOK'
    BY <1>1, <1>3, <1>7, <2>2 DEF TypeOK
  <2>4. Ledger' /\ Branching'
    BY <1>1, <1>3, <1>7 DEF Ledger, KeysAreNotReused, Branching, Fits, Known, Here, Row
  <2> QED BY <2>2, <2>3, <2>4 DEF TreeInv
<1>8. CASE ~KeyTaken(f.key) /\ Write(u, f) /\ Hang(u, f)
             /\ named' = named \cup {<<f.key, u>>}
  <2>1. /\ files' \in [Uids -> Files \cup {None}] /\ index' \in [Uids -> Rows]
        /\ \A v \in Uids : index'[v].file = None <=> index'[v].state = "none"
        /\ unread' = unread \ {u} /\ files'[u] = f
        /\ \A v \in Uids : v # u => files'[v] = files[v] /\ index'[v] = index[v]
        /\ index'[u].state = "OK" /\ index'[u].file = f
    BY <1>1, <1>4, <1>5, <1>8, Written
  <2>2. /\ missed \subseteq missed' /\ missed' \subseteq missed \cup {u}
        /\ f.parent # None => u \in missed' \/ (~Deleting(f.parent) /\ Here(f.parent))
    BY <1>8, NoneHung
  <2>3. HistoryGrows /\ TypesStay
    BY <1>3, <1>4, <1>8, <2>1, <2>2 DEF HistoryGrows, TypesStay, Here
  <2>4. HangsAreMissed
    BY <2>1, <2>2 DEF HangsAreMissed, Here
  <2>5. \A v \in Uids, k \in Keys : <<k, v>> \in named' =>
            <<k, v>> \in named \/ (v = u /\ k = f.key)
    BY <1>8
  <2>6. handlers' \in [Clients -> Handlers] /\ Handling'
    BY <1>1, <1>2, <1>3, <2>3, <2>4, <2>5, Finished
  <2>7. TypeOK'
    BY <1>1, <1>3, <1>4, <1>5, <1>8, <2>1, <2>2, <2>6 DEF TypeOK
  <2>8. Ledger'
    <3>1. \A v \in Uids : Here(v)' =>
              /\ <<files'[v].key, v>> \in named'
              /\ index'[v].state \in {"OK", "INVALID"} /\ index'[v].file.type = files'[v].type
              /\ v \notin unread' => index'[v].file = files'[v]
      BY <1>1, <1>8, <2>1 DEF Ledger, Here, Row
    <3>2. \A v \in Uids : index'[v].state # "none" => <<index'[v].file.key, v>> \in named'
      BY <1>1, <1>8, <2>1 DEF Ledger, Row
    <3>3. \A v \in Uids, j, k \in Keys : <<j, v>> \in named' /\ <<k, v>> \in named' => j = k
      <4>1. \A j \in Keys : <<j, u>> \notin named
        BY <1>4 DEF Known
      <4> QED BY <1>1, <2>5, <4>1 DEF Ledger
    <3>4. \A v \in Uids, k \in Keys :
              <<k, v>> \in named' /\ k \notin loose' => index'[v].state # "none"
      BY <1>1, <1>3, <2>1, <2>5 DEF Ledger
    <3>5. unread' \subseteq edited'
      BY <1>1, <1>3, <2>1 DEF Ledger
    <3>6. KeysAreNotReused'
      <4>1. \A v, w \in Uids : Here(v)' /\ Here(w)' /\ files'[v].key = files'[w].key => v = w
        <5>1. \A v \in Uids : v # u /\ Here(v)' => Here(v) /\ files'[v].key # f.key
          BY <1>8, <2>1 DEF KeyTaken, Here
        <5> QED BY <1>1, <2>1, <5>1 DEF Ledger, KeysAreNotReused
      <4>2. \A m, n \in named' : m[1] = n[1] /\ m[1] \notin loose' => m[2] = n[2]
        <5>1. \A m, n \in named : m[1] = n[1] /\ m[1] \notin loose => m[2] = n[2]
          BY <1>1 DEF Ledger, KeysAreNotReused
        <5>2. ASSUME NEW m \in named
              PROVE  m[1] = f.key => m[1] \in loose
          <6>1. m = <<m[1], m[2]>> /\ m[2] \in Uids
            BY <1>1 DEF TypeOK
          <6> QED BY <1>4, <6>1
        <5> QED BY <1>3, <1>8, <5>1, <5>2
      <4> QED BY <4>1, <4>2 DEF KeysAreNotReused, Here
    <3> QED BY <3>1, <3>2, <3>3, <3>4, <3>5, <3>6 DEF Ledger, Here, Row
  <2>9. Branching'
    <3>1. ASSUME NEW v \in Uids, Here(v)', files'[v].parent # None
          PROVE  /\ files'[files'[v].parent] = None => v \in edited' \cup missed'
                 /\ edited' = {} => /\ \E k \in Keys : <<k, files'[v].parent>> \in named'
                                    /\ files'[files'[v].parent] # None =>
                                          files'[files'[v].parent].type
                                             \in ALLOWED_PARENTS[files'[v].type]
      <4>1. CASE v = u
        <5>1. PICK p, type : p = f.parent /\ type = f.type
          OBVIOUS
        <5>2. files'[v].parent = p /\ files'[v].type = type /\ p \in Uids /\ Fits(type, p)
          BY <1>4, <1>5, <2>1, <3>1, <4>1, <5>1
        <5>3. p # u
          BY <1>4, <5>2 DEF Fits
        <5>4. files'[p] = None => v \in missed'
          BY <2>1, <2>2, <3>1, <4>1, <5>1, <5>2, <5>3 DEF Here
        <5>5. /\ \E k \in Keys : <<k, p>> \in named'
              /\ files'[p] # None => files'[p].type \in ALLOWED_PARENTS[type]
          BY <2>3, <5>2, StillFits
        <5> QED BY <5>2, <5>4, <5>5
      <4>2. CASE v # u
        <5>1. /\ files'[v] = files[v] /\ Here(v)
              /\ files'[v].parent = files[v].parent /\ files'[v].type = files[v].type
          BY <2>1, <3>1, <4>2 DEF Here
        <5>2. files[v].parent \in Uids \cup {None}
          BY <1>1, <5>1, RowFields, FileFields
        <5>3. Here(files[v].parent) => files'[files[v].parent] # None
          BY <1>6, <2>1, <3>1, <5>1, <5>2 DEF Here
        <5> QED BY <1>1, <2>3, <3>1, <5>1, <5>3, BranchStays
      <4> QED BY <4>1, <4>2
    <3> QED BY <3>1 DEF Branching, Fits, Known, Here
  <2> QED BY <2>6, <2>7, <2>8, <2>9 DEF TreeInv
<1> QED BY <1>3, <1>7, <1>8

(* A file that is patched in place, whoever patches it.                    *)
LEMMA InPlace ==
    ASSUME TypeOK, Ledger, Branching, NEW u \in Uids, NEW f \in Files, Here(u), Write(u, f),
           f.key = files[u].key, f.type = files[u].type,
           named' = named, loose' = loose, edited' = edited,
           missed \subseteq missed',
           f.parent # None =>
               \/ f.parent = files[u].parent
               \/ /\ Fits(f.type, f.parent)
                  /\ u \in missed' \/ (~Deleting(f.parent) /\ Here(f.parent))
    PROVE  Ledger' /\ Branching' /\ HistoryGrows /\ TypesStay /\ HangsAreMissed
<1>1. Ledger'
  BY LedgerPatched
<1>2. /\ files'[u] = f /\ f # None
      /\ \A v \in Uids : v # u => files'[v] = files[v]
  BY Written, FileFields
<1>3. HistoryGrows /\ TypesStay
  BY <1>2 DEF HistoryGrows, TypesStay, Here
<1>4. HangsAreMissed
  BY <1>2 DEF HangsAreMissed, Here
<1>5. \A p \in Uids : Here(p) => files'[p] # None
  BY <1>2 DEF Here
<1>6. ASSUME NEW v \in Uids, Here(v)', files'[v].parent # None
      PROVE  /\ files'[files'[v].parent] = None => v \in edited' \cup missed'
             /\ edited' = {} => /\ \E k \in Keys : <<k, files'[v].parent>> \in named'
                                /\ files'[files'[v].parent] # None =>
                                      files'[files'[v].parent].type
                                         \in ALLOWED_PARENTS[files'[v].type]
  <2>1. CASE files'[v].parent = files[v].parent
    <3>1. Here(v) /\ files'[v].type = files[v].type
      BY <1>2, <1>6 DEF Here
    <3>2. files[v].parent \in Uids \cup {None}
      BY <3>1, RowFields, FileFields
    <3>3. Here(files[v].parent) => files'[files[v].parent] # None
      BY <1>5, <1>6, <2>1, <3>2
    <3> QED BY <1>3, <1>6, <2>1, <3>1, <3>3, BranchStays
  <2>2. CASE files'[v].parent # files[v].parent
    <3>1. PICK p, type : p = f.parent /\ type = f.type
      OBVIOUS
    <3>2. v = u /\ files'[v].parent = p /\ files'[v].type = type /\ p \in Uids
      BY <1>2, <1>6, <2>2, <3>1, FileFields
    <3>3. Fits(type, p) /\ (u \in missed' \/ Here(p))
      BY <1>2, <1>6, <2>2, <3>1, <3>2
    <3>4. /\ \E k \in Keys : <<k, p>> \in named'
          /\ files'[p] # None => files'[p].type \in ALLOWED_PARENTS[type]
      BY <1>3, <3>2, <3>3, StillFits
    <3> QED BY <1>5, <3>2, <3>3, <3>4
  <2> QED BY <2>1, <2>2
<1>7. Branching'
  BY <1>6 DEF Branching, Fits, Known, Here
<1> QED BY <1>1, <1>3, <1>4, <1>7

LEMMA NothingHappens ==
    ASSUME TypeOK, Ledger, Branching, files' = files, index' = index, named' = named,
           loose' = loose, edited' = edited, unread' = unread, missed' = missed
    PROVE  Ledger' /\ Branching' /\ HistoryGrows /\ TypesStay /\ HangsAreMissed
BY DEF Ledger, KeysAreNotReused, Branching, Fits, Known, Here, Row, HistoryGrows, TypesStay,
       HangsAreMissed

LEMMA PatchWriteKeeps ==
    ASSUME TreeInv, NEW c \in Clients, PatchWrite(c)
    PROVE  TreeInv'
<1>1. TypeOK /\ Ledger /\ Handling /\ Branching
  BY DEF TreeInv
<1>2. PICK u, g, f : u = handlers[c].uid /\ g = handlers[c].from /\ f = handlers[c].to
  OBVIOUS
<1>3. /\ handlers[c].op \in Patches /\ Finish(c)
      /\ named' = named /\ edited' = edited /\ loose' = loose /\ budget' = budget /\ sprints' = sprints
      /\ \/ files' = files /\ index' = index /\ unread' = unread /\ missed' = missed
         \/ files[u] = g /\ Write(u, f) /\ Hang(u, f)
  BY <1>2 DEF PatchWrite
<1>4. /\ u \in Uids /\ g \in Files /\ f \in Files /\ Keeps(handlers[c].op, g, f)
      /\ handlers[c].op = "reparent" /\ f.parent # None => Fits(f.type, f.parent)
  BY <1>1, <1>2, <1>3 DEF Handling, Patching
<1>5. /\ Ledger' /\ Branching' /\ HistoryGrows /\ TypesStay /\ HangsAreMissed
      /\ files' \in [Uids -> Files \cup {None}] /\ index' \in [Uids -> Rows]
      /\ \A v \in Uids : index'[v].file = None <=> index'[v].state = "none"
      /\ unread' \subseteq Uids /\ missed' \subseteq Uids
  <2>1. CASE files' = files /\ index' = index /\ unread' = unread /\ missed' = missed
    BY <1>1, <1>3, <2>1, NothingHappens DEF TypeOK
  <2>2. CASE files[u] = g /\ Write(u, f) /\ Hang(u, f)
    <3>1. Here(u) /\ f.key = files[u].key /\ f.type = files[u].type
      BY <1>4, <2>2, NoFile DEF Here, Keeps
    <3>2. /\ missed \subseteq missed' /\ missed' \subseteq missed \cup {u}
          /\ f.parent # None => u \in missed' \/ (~Deleting(f.parent) /\ Here(f.parent))
      BY <2>2, NoneHung
    <3>3. handlers[c].op # "reparent" => f.parent = files[u].parent
      BY <1>4, <2>2 DEF Keeps
    <3>4. Ledger' /\ Branching' /\ HistoryGrows /\ TypesStay /\ HangsAreMissed
      BY <1>1, <1>3, <1>4, <2>2, <3>1, <3>2, <3>3, InPlace
    <3>5. /\ files' \in [Uids -> Files \cup {None}] /\ index' \in [Uids -> Rows]
          /\ \A v \in Uids : index'[v].file = None <=> index'[v].state = "none"
          /\ unread' = unread \ {u}
      BY <1>1, <1>4, <2>2, Written
    <3>6. unread' \subseteq Uids /\ missed' \subseteq Uids
      BY <1>1, <1>4, <3>2, <3>5 DEF TypeOK
    <3> QED BY <3>4, <3>5, <3>6
  <2> QED BY <1>3, <2>1, <2>2
<1>6. handlers' \in [Clients -> Handlers] /\ Handling'
  BY <1>1, <1>3, <1>5, Finished DEF Patches
<1>7. TypeOK'
  BY <1>1, <1>3, <1>5, <1>6 DEF TypeOK
<1> QED BY <1>5, <1>6, <1>7 DEF TreeInv

(* One child after the other: whoever is taken off the list hangs below    *)
(* the issue no more.                                                      *)
LEMMA Worked ==
    ASSUME TypeOK, Handling, HistoryGrows, TypesStay, HangsAreMissed, named' = named,
           NEW c \in Clients, handlers[c].op = "delete",
           NEW todo, todo \subseteq [uid: Uids, key: Keys, cancel: BOOLEAN],
           handlers' = [handlers EXCEPT ![c].todo = todo],
           \A u \in Uids : Here(u)' /\ files'[u].parent = handlers[c].uid =>
               u \in edited' \cup missed' \cup {t.uid : t \in todo}
    PROVE  handlers' \in [Clients -> Handlers] /\ Handling'
<1>1. PICK h : h = [handlers[c] EXCEPT !.todo = todo]
  OBVIOUS
<1>2. handlers[c] \in Handlers
  BY DEF TypeOK
<1>3. h \in Handlers /\ h.op = "delete" /\ h.uid = handlers[c].uid /\ h.todo = todo
  BY <1>1, <1>2 DEF Handlers
<1>4. /\ handlers' \in [Clients -> Handlers] /\ handlers'[c] = h
      /\ \A d \in Clients : d # c => handlers'[d] = handlers[d]
  BY <1>1, <1>3 DEF TypeOK
<1>5. \A d \in Clients : handlers'[d].op = "create" => handlers'[d] = handlers[d]
  BY <1>3, <1>4
<1>6. ASSUME NEW d \in Clients, d # c
      PROVE  Creating(d)' /\ Patching(d)' /\ Covered(d)'
  <2>1. Creating(d) /\ Patching(d) /\ Covered(d) /\ handlers'[d] = handlers[d]
    BY <1>4, <1>6 DEF Handling
  <2> QED BY <1>5, <2>1, CreatingStays, PatchingStays, CoveredStays
<1>7. Creating(c)' /\ Patching(c)'
  BY <1>3, <1>4 DEF Creating, Patching, Patches
<1>8. Covered(c)'
  <2>1. handlers[c].uid \in Uids
    BY DEF Handling, Covered
  <2>2. PICK p : p = handlers[c].uid
    OBVIOUS
  <2>3. handlers'[c].uid = p /\ handlers'[c].todo = todo
    BY <1>3, <1>4, <2>2
  <2> QED BY <2>1, <2>2, <2>3 DEF Covered, Here
<1> QED BY <1>4, <1>6, <1>7, <1>8 DEF Handling

LEMMA ChildFields ==
    ASSUME TreeInv, NEW c \in Clients, NEW t \in handlers[c].todo
    PROVE  /\ t \in [uid: Uids, key: Keys, cancel: BOOLEAN] /\ t.uid \in Uids
           /\ handlers[c].todo \subseteq [uid: Uids, key: Keys, cancel: BOOLEAN]
BY DEF TreeInv, TypeOK, Handlers

LEMMA CancelKeeps ==
    ASSUME TreeInv, NEW c \in Clients, NEW t \in handlers[c].todo, CancelChild(c, t)
    PROVE  TreeInv'
<1>1. TypeOK /\ Ledger /\ Handling /\ Branching
  BY DEF TreeInv
<1>2. PICK u, f : u = t.uid /\ f = WithStatus(files[u], Row(u).status, "CANCELLED")
  OBVIOUS
<1>3. PICK todo : todo = (handlers[c].todo \ {t}) \cup {[t EXCEPT !.cancel = FALSE]}
  OBVIOUS
<1>4. /\ handlers[c].op = "delete" /\ OK(u) /\ Here(u)
      /\ \/ files' = files /\ index' = index /\ unread' = unread
         \/ Write(u, f)
      /\ handlers' = [handlers EXCEPT ![c].todo = todo]
      /\ named' = named /\ edited' = edited /\ loose' = loose /\ missed' = missed
      /\ budget' = budget /\ sprints' = sprints
  BY <1>2, <1>3 DEF CancelChild, NextChild, Ready
<1>5. u \in Uids /\ files[u] \in Files /\ Row(u).status \in Statuses
  BY <1>1, <1>2, <1>4, ChildFields, RowFields, FileFields DEF OK
<1>6. f \in Files /\ f.parent = files[u].parent /\ f.key = files[u].key /\ f.type = files[u].type
  <2>1. "CANCELLED" \in Statuses
    BY DEF Statuses
  <2> QED BY <1>2, <1>5, <2>1, StatusChanged DEF Keeps
<1>7. /\ Ledger' /\ Branching' /\ HistoryGrows /\ TypesStay /\ HangsAreMissed
      /\ files' \in [Uids -> Files \cup {None}] /\ index' \in [Uids -> Rows]
      /\ \A v \in Uids : index'[v].file = None <=> index'[v].state = "none"
      /\ unread' \subseteq Uids
      /\ \A v \in Uids : Here(v)' => Here(v) /\ files'[v].parent = files[v].parent
  <2>1. CASE files' = files /\ index' = index /\ unread' = unread
    BY <1>1, <1>4, <2>1, NothingHappens DEF TypeOK, Here
  <2>2. CASE Write(u, f)
    <3>1. Ledger' /\ Branching' /\ HistoryGrows /\ TypesStay /\ HangsAreMissed
      BY <1>1, <1>4, <1>5, <1>6, <2>2, InPlace
    <3>2. /\ files' \in [Uids -> Files \cup {None}] /\ index' \in [Uids -> Rows]
          /\ \A v \in Uids : index'[v].file = None <=> index'[v].state = "none"
          /\ unread' = unread \ {u} /\ files'[u] = f
          /\ \A v \in Uids : v # u => files'[v] = files[v]
      BY <1>1, <1>5, <1>6, <2>2, Written
    <3>3. \A v \in Uids : Here(v)' => Here(v) /\ files'[v].parent = files[v].parent
      BY <1>4, <1>6, <3>2 DEF Here
    <3> QED BY <1>1, <3>1, <3>2, <3>3 DEF TypeOK
  <2> QED BY <1>4, <2>1, <2>2
<1>8. PICK s : s = [t EXCEPT !.cancel = FALSE]
  OBVIOUS
<1>9. s \in [uid: Uids, key: Keys, cancel: BOOLEAN] /\ s.uid = u
  BY <1>2, <1>8, ChildFields
<1>10. todo \subseteq [uid: Uids, key: Keys, cancel: BOOLEAN]
  BY <1>3, <1>8, <1>9, ChildFields
<1>11. {r.uid : r \in handlers[c].todo} \subseteq {r.uid : r \in todo}
  BY <1>2, <1>3, <1>8, <1>9
<1>12. \A v \in Uids : Here(v)' /\ files'[v].parent = handlers[c].uid =>
           v \in edited' \cup missed' \cup {r.uid : r \in todo}
  BY <1>1, <1>4, <1>7, <1>11 DEF Handling, Covered
<1>13. handlers' \in [Clients -> Handlers] /\ Handling'
  BY <1>1, <1>4, <1>7, <1>10, <1>12, Worked
<1>14. TypeOK'
  BY <1>1, <1>4, <1>7, <1>13 DEF TypeOK
<1> QED BY <1>7, <1>13, <1>14 DEF TreeInv

LEMMA DetachKeeps ==
    ASSUME TreeInv, NEW c \in Clients, NEW t \in handlers[c].todo, DetachChild(c, t)
    PROVE  TreeInv'
<1>1. TypeOK /\ Ledger /\ Handling /\ Branching
  BY DEF TreeInv
<1>2. PICK u, f : u = t.uid /\ f = [files[u] EXCEPT !.parent = None]
  OBVIOUS
<1>3. PICK todo : todo = handlers[c].todo \ {t}
  OBVIOUS
<1>4. /\ handlers[c].op = "delete" /\ OK(u) /\ Here(u)
      /\ \/ files[u].parent = None /\ files' = files /\ index' = index /\ unread' = unread
         \/ Write(u, f)
      /\ handlers' = [handlers EXCEPT ![c].todo = todo]
      /\ named' = named /\ edited' = edited /\ loose' = loose /\ missed' = missed
      /\ budget' = budget /\ sprints' = sprints
  BY <1>2, <1>3 DEF DetachChild, NextChild, Ready
<1>5. u \in Uids /\ files[u] \in Files
  BY <1>1, <1>2, <1>4, ChildFields, RowFields
<1>6. f \in Files /\ f.parent = None /\ f.key = files[u].key /\ f.type = files[u].type
  BY <1>2, <1>5 DEF Files
<1>7. /\ Ledger' /\ Branching' /\ HistoryGrows /\ TypesStay /\ HangsAreMissed
      /\ files' \in [Uids -> Files \cup {None}] /\ index' \in [Uids -> Rows]
      /\ \A v \in Uids : index'[v].file = None <=> index'[v].state = "none"
      /\ unread' \subseteq Uids
      /\ files'[u].parent = None
      /\ \A v \in Uids : v # u => files'[v] = files[v]
  <2>1. CASE files[u].parent = None /\ files' = files /\ index' = index /\ unread' = unread
    BY <1>1, <1>4, <2>1, NothingHappens DEF TypeOK
  <2>2. CASE Write(u, f)
    <3>1. Ledger' /\ Branching' /\ HistoryGrows /\ TypesStay /\ HangsAreMissed
      BY <1>1, <1>4, <1>5, <1>6, <2>2, InPlace
    <3>2. /\ files' \in [Uids -> Files \cup {None}] /\ index' \in [Uids -> Rows]
          /\ \A v \in Uids : index'[v].file = None <=> index'[v].state = "none"
          /\ unread' = unread \ {u} /\ files'[u] = f
          /\ \A v \in Uids : v # u => files'[v] = files[v]
      BY <1>1, <1>5, <1>6, <2>2, Written
    <3> QED BY <1>1, <1>6, <3>1, <3>2 DEF TypeOK
  <2> QED BY <1>4, <2>1, <2>2
<1>8. todo \subseteq [uid: Uids, key: Keys, cancel: BOOLEAN]
  BY <1>3, ChildFields
<1>9. \A v \in Uids : v # u /\ v \in {r.uid : r \in handlers[c].todo} => v \in {r.uid : r \in todo}
  BY <1>2, <1>3
<1>10. handlers[c].uid # None
  BY <1>1, <1>4, NoFile DEF Handling, Covered
<1>11. ASSUME NEW v \in Uids, Here(v)', files'[v].parent = handlers[c].uid
       PROVE  v \in edited' \cup missed' \cup {r.uid : r \in todo}
  <2>1. v # u /\ Here(v) /\ files[v].parent = handlers[c].uid
    BY <1>7, <1>10, <1>11 DEF Here
  <2>2. v \in edited \cup missed \cup {r.uid : r \in handlers[c].todo}
    BY <1>1, <1>4, <2>1 DEF Handling, Covered
  <2> QED BY <1>4, <1>9, <2>1, <2>2
<1>12. handlers' \in [Clients -> Handlers] /\ Handling'
  BY <1>1, <1>4, <1>7, <1>8, <1>11, Worked
<1>13. TypeOK'
  BY <1>1, <1>4, <1>7, <1>12 DEF TypeOK
<1> QED BY <1>7, <1>12, <1>13 DEF TreeInv

(* The handler goes, and nothing else changes but the bounds.              *)
LEMMA StopKeeps ==
    ASSUME TreeInv, NEW c \in Clients, Finish(c), UNCHANGED <<files, index, sprints, history>>,
           budget' \in [requests: 0..MaxRequests, edits: 0..MaxEdits, faults: 0..MaxFaults]
    PROVE  TreeInv'
<1>1. TypeOK /\ Ledger /\ Handling /\ Branching
  BY DEF TreeInv
<1>2. /\ files' = files /\ index' = index /\ sprints' = sprints /\ named' = named /\ loose' = loose
      /\ edited' = edited /\ unread' = unread /\ missed' = missed
  BY DEF history
<1>3. Ledger' /\ Branching' /\ HistoryGrows /\ TypesStay /\ HangsAreMissed
  BY <1>1, <1>2, NothingHappens
<1>4. handlers' \in [Clients -> Handlers] /\ Handling'
  BY <1>1, <1>2, <1>3, Finished
<1>5. TypeOK'
  BY <1>1, <1>2, <1>4 DEF TypeOK
<1> QED BY <1>3, <1>4, <1>5 DEF TreeInv

LEMMA GiveUpKeeps ==
    ASSUME TreeInv, NEW c \in Clients, NEW t \in handlers[c].todo, GiveUp(c, t)
    PROVE  TreeInv'
<1>1. Finish(c) /\ UNCHANGED <<files, index, sprints, history>> /\ budget' = budget
  BY DEF GiveUp
<1>2. budget' \in [requests: 0..MaxRequests, edits: 0..MaxEdits, faults: 0..MaxFaults]
  BY <1>1 DEF TreeInv, TypeOK
<1> QED BY <1>1, <1>2, StopKeeps

LEMMA FailKeeps ==
    ASSUME TreeInv, NEW c \in Clients, Fail(c)
    PROVE  TreeInv'
<1>1. /\ Finish(c) /\ UNCHANGED <<files, index, sprints, history>>
      /\ budget["faults"] < MaxFaults /\ budget' = [budget EXCEPT !["faults"] = @ + 1]
  BY DEF Fail, Spend
<1>2. budget' \in [requests: 0..MaxRequests, edits: 0..MaxEdits, faults: 0..MaxFaults]
  BY <1>1, IssueTreeAssumption, Spent DEF TreeInv
<1> QED BY <1>1, <1>2, StopKeeps

LEMMA RemoveKeeps ==
    ASSUME TreeInv, NEW c \in Clients, RemoveFile(c)
    PROVE  TreeInv'
<1>1. TypeOK /\ Ledger /\ Handling /\ Branching
  BY DEF TreeInv
<1>2. PICK p : p = handlers[c].uid
  OBVIOUS
<1>3. /\ handlers[c].op = "delete" /\ handlers[c].todo = {} /\ Finish(c)
      /\ \/ Here(p) /\ Write(p, None)
         \/ files' = files /\ index' = index /\ unread' = unread
      /\ named' = named /\ edited' = edited /\ loose' = loose /\ missed' = missed
      /\ budget' = budget /\ sprints' = sprints
  BY <1>2 DEF RemoveFile
<1>4. /\ p \in Uids
      /\ \A u \in Uids : Here(u) /\ files[u].parent = p => u \in edited \cup missed
  BY <1>1, <1>2, <1>3 DEF Handling, Covered
<1>5. /\ Ledger' /\ Branching' /\ HistoryGrows /\ TypesStay /\ HangsAreMissed
      /\ files' \in [Uids -> Files \cup {None}] /\ index' \in [Uids -> Rows]
      /\ \A v \in Uids : index'[v].file = None <=> index'[v].state = "none"
      /\ unread' \subseteq Uids
  <2>1. CASE files' = files /\ index' = index /\ unread' = unread
    BY <1>1, <1>3, <2>1, NothingHappens DEF TypeOK
  <2>2. CASE Here(p) /\ Write(p, None)
    <3>1. Ledger'
      BY <1>1, <1>3, <1>4, <2>2, LedgerRemoved
    <3>2. /\ files' \in [Uids -> Files \cup {None}] /\ index' \in [Uids -> Rows]
          /\ \A v \in Uids : index'[v].file = None <=> index'[v].state = "none"
          /\ unread' = unread \ {p} /\ files'[p] = None
          /\ \A v \in Uids : v # p => files'[v] = files[v]
      BY <1>1, <1>4, <2>2, Written
    <3>3. HistoryGrows /\ TypesStay /\ HangsAreMissed
      BY <1>3, <3>2 DEF HistoryGrows, TypesStay, HangsAreMissed, Here
    <3>4. ASSUME NEW v \in Uids, Here(v)', files'[v].parent # None
          PROVE  /\ files'[files'[v].parent] = None => v \in edited' \cup missed'
                 /\ edited' = {} => /\ \E k \in Keys : <<k, files'[v].parent>> \in named'
                                    /\ files'[files'[v].parent] # None =>
                                          files'[files'[v].parent].type
                                             \in ALLOWED_PARENTS[files'[v].type]
      <4>1. /\ Here(v) /\ files'[v].parent = files[v].parent /\ files'[v].type = files[v].type
        BY <3>2, <3>4 DEF Here
      <4>2. files[v].parent \in Uids \cup {None}
        BY <1>1, <4>1, RowFields, FileFields
      <4>3. Here(files[v].parent) => files'[files[v].parent] # None \/ v \in edited' \cup missed'
        BY <1>3, <1>4, <3>2, <3>4, <4>1, <4>2 DEF Here
      <4> QED BY <1>1, <3>3, <3>4, <4>1, <4>3, BranchStays
    <3>5. Branching'
      BY <3>4 DEF Branching, Fits, Known, Here
    <3> QED BY <1>1, <3>1, <3>2, <3>3, <3>5 DEF TypeOK
  <2> QED BY <1>3, <2>1, <2>2
<1>6. handlers' \in [Clients -> Handlers] /\ Handling'
  BY <1>1, <1>3, <1>5, Finished
<1>7. TypeOK'
  BY <1>1, <1>3, <1>5, <1>6 DEF TypeOK
<1> QED BY <1>5, <1>6, <1>7 DEF TreeInv

-----------------------------------------------------------------------------
(* Passes and edits from outside.                                          *)

LEMMA PassKeeps ==
    ASSUME TreeInv, Passed, unread' = {}, sprints' = [sprints EXCEPT !.rows = sprints.files],
           files' = files, named' = named, edited' = edited, missed' = missed,
           loose \subseteq loose', loose' \subseteq Keys,
           \A u \in Uids : ~Here(u) =>
               \/ index'[u].file = Row(u) /\ (index'[u].state = "none" <=> index[u].state = "none")
               \/ /\ index'[u].file = None /\ index'[u].state = "none"
                  /\ index[u].state # "none" => Row(u).key \in loose',
           handlers' \in [Clients -> Handlers],
           \A c \in Clients : handlers'[c] = handlers[c] \/ handlers'[c] = Free,
           budget' \in [requests: 0..MaxRequests, edits: 0..MaxEdits, faults: 0..MaxFaults]
    PROVE  TreeInv'
<1>1. TypeOK /\ Ledger /\ Handling /\ Branching
  BY DEF TreeInv
<1>2. \A u \in Uids : Here(u) => /\ index'[u].file = files[u] /\ files[u] # None
                                 /\ index'[u].state \in {"OK", "INVALID"}
  BY DEF Passed, Here
<1>3. \A u \in Uids : index'[u].file = None <=> index'[u].state = "none"
  <2>1. \A u \in Uids : index[u].file = None <=> index[u].state = "none"
    BY <1>1 DEF TypeOK
  <2> QED BY <1>2, <2>1 DEF Row
<1>4. TypeOK'
  <2>1. sprints' \in [files: SUBSET SprintIds, rows: SUBSET SprintIds]
    BY <1>1 DEF TypeOK
  <2> QED BY <1>1, <1>3, <2>1 DEF TypeOK, Passed
<1>5. HistoryGrows /\ TypesStay /\ HangsAreMissed
  BY DEF HistoryGrows, TypesStay, HangsAreMissed, Here
<1>6. Ledger'
  <2>1. \A u \in Uids : Here(u)' =>
            /\ <<files'[u].key, u>> \in named'
            /\ index'[u].state \in {"OK", "INVALID"} /\ index'[u].file.type = files'[u].type
            /\ u \notin unread' => index'[u].file = files'[u]
    BY <1>1, <1>2 DEF Ledger, Here
  <2>2. \A u \in Uids : index'[u].state # "none" => <<index'[u].file.key, u>> \in named'
    BY <1>1, <1>2 DEF Ledger, Row
  <2>3. ASSUME NEW u \in Uids, NEW k \in Keys, <<k, u>> \in named, k \notin loose'
        PROVE  index'[u].state # "none"
    <3>1. index[u].state # "none" /\ <<Row(u).key, u>> \in named
      BY <1>1, <2>3 DEF Ledger
    <3>2. Row(u).key \in Keys
      BY <1>1, <3>1, RowFields, FileFields
    <3>3. Row(u).key = k
      BY <1>1, <2>3, <3>1, <3>2 DEF Ledger
    <3> QED BY <1>2, <2>3, <3>1, <3>3
  <2>4. KeysAreNotReused'
    BY <1>1 DEF Ledger, KeysAreNotReused, Here
  <2> QED BY <1>1, <2>1, <2>2, <2>3, <2>4 DEF Ledger, Here, Row
<1>7. Branching'
  BY <1>1 DEF Branching, Fits, Known, Here
<1>8. \A c \in Clients : handlers'[c].op = "create" => handlers'[c] = handlers[c]
  BY FreeHandler
<1>9. ASSUME NEW c \in Clients
      PROVE  Creating(c)' /\ Patching(c)' /\ Covered(c)'
  <2>1. CASE handlers'[c] = handlers[c]
    <3>1. Creating(c) /\ Patching(c) /\ Covered(c)
      BY <1>1 DEF Handling
    <3> QED BY <1>1, <1>5, <1>8, <2>1, <3>1, CreatingStays, PatchingStays, CoveredStays
  <2>2. CASE handlers'[c] = Free
    BY <2>2, FreeHandler DEF Creating, Patching, Patches, Covered
  <2> QED BY <2>1, <2>2
<1> QED BY <1>4, <1>6, <1>7, <1>9 DEF TreeInv, Handling

LEMMA ReconcileKeeps ==
    ASSUME TreeInv, Reconcile
    PROVE  TreeInv'
<1>1. /\ index' = incrementalSync /\ unread' = {} /\ files' = files /\ sprints' = [sprints EXCEPT !.rows = sprints.files] /\ handlers' = handlers
      /\ named' = named /\ edited' = edited /\ missed' = missed /\ loose' = loose
      /\ budget' = budget
  BY DEF Reconcile, ReadBoard
<1>2. TypeOK
  BY DEF TreeInv
<1> QED BY <1>1, <1>2, Synchronised, PassKeeps DEF TypeOK

LEMMA RestartKeeps ==
    ASSUME TreeInv, Restart
    PROVE  TreeInv'
<1>1. /\ index' = incrementalSync /\ unread' = {} /\ files' = files /\ sprints' = [sprints EXCEPT !.rows = sprints.files]
      /\ handlers' = [c \in Clients |-> Free]
      /\ named' = named /\ edited' = edited /\ missed' = missed /\ loose' = loose
      /\ budget["faults"] < MaxFaults /\ budget' = [budget EXCEPT !["faults"] = @ + 1]
  BY DEF Restart, ReadBoard, Spend
<1>2. TypeOK
  BY DEF TreeInv
<1>3. budget' \in [requests: 0..MaxRequests, edits: 0..MaxEdits, faults: 0..MaxFaults]
  BY <1>1, <1>2, IssueTreeAssumption, Spent
<1>4. /\ handlers' \in [Clients -> Handlers]
      /\ \A c \in Clients : handlers'[c] = Free
  BY <1>1, FreeHandler
<1>5. loose' \subseteq Keys
  BY <1>1, <1>2 DEF TypeOK
<1> QED BY <1>1, <1>2, <1>3, <1>4, <1>5, Synchronised, PassKeeps

LEMMA RebuildKeeps ==
    ASSUME TreeInv, Rebuild
    PROVE  TreeInv'
<1>1. /\ index' = rebuildIndex /\ unread' = {} /\ files' = files /\ sprints' = [sprints EXCEPT !.rows = sprints.files] /\ handlers' = handlers
      /\ named' = named /\ edited' = edited /\ missed' = missed
      /\ loose' = loose \cup {Row(u).key : u \in {v \in Uids : index[v].state # "none" /\ ~Here(v)}}
      /\ budget["faults"] < MaxFaults /\ budget' = [budget EXCEPT !["faults"] = @ + 1]
  BY DEF Rebuild, ReadBoard, Spend
<1>2. TypeOK
  BY DEF TreeInv
<1>3. budget' \in [requests: 0..MaxRequests, edits: 0..MaxEdits, faults: 0..MaxFaults]
  BY <1>1, <1>2, IssueTreeAssumption, Spent
<1>4. \A u \in Uids : index[u].state # "none" => Row(u).key \in Keys
  BY <1>2, RowFields, FileFields
<1>5. loose \subseteq loose' /\ loose' \subseteq Keys
  BY <1>1, <1>2, <1>4 DEF TypeOK
<1>6. \A u \in Uids : ~Here(u) => /\ index'[u].file = None /\ index'[u].state = "none"
                                  /\ index[u].state # "none" => Row(u).key \in loose'
  BY <1>1, <1>2, Rebuilt
<1>7. Passed
  BY <1>1, <1>2, Rebuilt
<1>8. handlers' \in [Clients -> Handlers]
  BY <1>1, <1>2 DEF TypeOK
<1> QED BY <1>1, <1>3, <1>5, <1>6, <1>7, <1>8, PassKeeps

LEMMA EditKeeps ==
    ASSUME TreeInv, NEW u \in Uids, NEW f \in Files \cup {None}, Here(u),
           f # None => f.key = files[u].key /\ f.type = files[u].type,
           OutsideEdit(u, f)
    PROVE  TreeInv'
<1>1. TypeOK /\ Ledger /\ Handling /\ Branching
  BY DEF TreeInv
<1>2. /\ files' = [files EXCEPT ![u] = f]
      /\ edited' = edited \cup {u} \cup {v \in Uids : Here(v) /\ files[v].parent = u}
      /\ unread' = unread \cup {u} /\ index' = index /\ handlers' = handlers
      /\ sprints' = sprints /\ named' = named /\ missed' = missed /\ loose' = loose
      /\ budget["edits"] < MaxEdits /\ budget' = [budget EXCEPT !["edits"] = @ + 1]
  BY DEF OutsideEdit, Spend
<1>3. budget' \in [requests: 0..MaxRequests, edits: 0..MaxEdits, faults: 0..MaxFaults]
  BY <1>1, <1>2, IssueTreeAssumption, Spent
<1>4. /\ files' \in [Uids -> Files \cup {None}] /\ files'[u] = f
      /\ \A v \in Uids : v # u => files'[v] = files[v]
  BY <1>1, <1>2 DEF TypeOK
<1>5. TypeOK'
  BY <1>1, <1>2, <1>3, <1>4 DEF TypeOK
<1>6. HistoryGrows /\ TypesStay /\ HangsAreMissed
  BY <1>2, <1>4 DEF HistoryGrows, TypesStay, HangsAreMissed, Here
<1>7. \A v \in Uids : Here(v)' => Here(v) /\ files'[v].key = files[v].key
                                          /\ files'[v].type = files[v].type
  BY <1>4 DEF Here
<1>8. Ledger'
  <2>1. \A v \in Uids : Here(v)' =>
            /\ <<files'[v].key, v>> \in named'
            /\ index'[v].state \in {"OK", "INVALID"} /\ index'[v].file.type = files'[v].type
            /\ v \notin unread' => index'[v].file = files'[v]
    BY <1>1, <1>2, <1>4, <1>7 DEF Ledger, Row
  <2>2. unread' \subseteq edited'
    BY <1>1, <1>2 DEF Ledger
  <2>3. KeysAreNotReused'
    BY <1>1, <1>2, <1>7 DEF Ledger, KeysAreNotReused
  <2> QED BY <1>1, <1>2, <2>1, <2>2, <2>3 DEF Ledger, Here, Row
<1>9. Branching'
  <2>1. edited' # {} /\ u \in edited'
    BY <1>2
  <2>2. ASSUME NEW v \in Uids, Here(v)', files'[v].parent # None, v # u
        PROVE  files'[files'[v].parent] = None => v \in edited' \cup missed'
    <3>1. Here(v) /\ files'[v] = files[v]
      BY <1>4, <1>7, <2>2
    <3>2. files[v].parent \in Uids \cup {None}
      BY <1>1, <3>1, RowFields, FileFields
    <3>3. CASE files[v].parent = u
      BY <1>2, <3>1, <3>3
    <3>4. CASE files[v].parent # u
      BY <1>1, <1>2, <1>4, <2>2, <3>1, <3>2, <3>4 DEF Branching, Here
    <3> QED BY <3>3, <3>4
  <2> QED BY <2>1, <2>2 DEF Branching, Here
<1>10. ASSUME NEW c \in Clients
       PROVE  Creating(c)' /\ Patching(c)' /\ Covered(c)'
  <2>1. Creating(c) /\ Patching(c) /\ Covered(c)
    BY <1>1 DEF Handling
  <2> QED BY <1>1, <1>2, <1>6, <2>1, CreatingStays, PatchingStays, CoveredStays
<1> QED BY <1>5, <1>8, <1>9, <1>10 DEF TreeInv, Handling

LEMMA SprintKeeps ==
    ASSUME TreeInv, NEW s \in SprintIds, OutsideSprint(s)
    PROVE  TreeInv'
<1>1. TypeOK /\ Ledger /\ Handling /\ Branching
  BY DEF TreeInv
<1>2. /\ files' = files /\ index' = index /\ handlers' = handlers /\ named' = named
      /\ loose' = loose /\ edited' = edited /\ unread' = unread /\ missed' = missed
      /\ budget["edits"] < MaxEdits /\ budget' = [budget EXCEPT !["edits"] = @ + 1]
      /\ sprints' = [sprints EXCEPT !.files = IF s \in @ THEN @ \ {s} ELSE @ \cup {s}]
  BY DEF OutsideSprint, Spend, history
<1>3. budget' \in [requests: 0..MaxRequests, edits: 0..MaxEdits, faults: 0..MaxFaults]
  BY <1>1, <1>2, IssueTreeAssumption, Spent
<1>4. sprints' \in [files: SUBSET SprintIds, rows: SUBSET SprintIds]
  BY <1>1, <1>2 DEF TypeOK
<1>5. TypeOK'
  BY <1>1, <1>2, <1>3, <1>4 DEF TypeOK
<1>6. Ledger' /\ Branching' /\ HistoryGrows /\ TypesStay /\ HangsAreMissed
  BY <1>1, <1>2, NothingHappens
<1>7. ASSUME NEW c \in Clients
      PROVE  Creating(c)' /\ Patching(c)' /\ Covered(c)'
  <2>1. Creating(c) /\ Patching(c) /\ Covered(c)
    BY <1>1 DEF Handling
  <2> QED BY <1>1, <1>2, <1>6, <2>1, CreatingStays, PatchingStays, CoveredStays
<1> QED BY <1>5, <1>6, <1>7 DEF TreeInv, Handling

LEMMA OutsideKeeps ==
    ASSUME TreeInv, Outside
    PROVE  TreeInv'
<1>1. TypeOK
  BY DEF TreeInv
<1>2. ASSUME NEW u \in Uids, NEW f \in Files \cup {None}, OutsideEdit(u, f),
             f # None => f.key = files[u].key /\ f.type = files[u].type
      PROVE  TreeInv'
  BY <1>2, EditKeeps DEF OutsideEdit
<1>3. ASSUME NEW u \in Uids, NEW p \in Uids \cup {None}, Here(u),
             OutsideEdit(u, [files[u] EXCEPT !.parent = p])
      PROVE  TreeInv'
  <2>1. PICK f : f = [files[u] EXCEPT !.parent = p]
    OBVIOUS
  <2>2. f \in Files /\ f.key = files[u].key /\ f.type = files[u].type
    BY <1>1, <1>3, <2>1, RowFields DEF Files
  <2> QED BY <1>2, <1>3, <2>1, <2>2
<1>4. ASSUME NEW u \in Uids, NEW s \in SprintIds \cup {None}, Here(u),
             OutsideEdit(u, [files[u] EXCEPT !.sprint = s])
      PROVE  TreeInv'
  <2>1. PICK f : f = [files[u] EXCEPT !.sprint = s]
    OBVIOUS
  <2>2. f \in Files /\ f.key = files[u].key /\ f.type = files[u].type
    BY <1>1, <1>4, <2>1, RowFields DEF Files
  <2> QED BY <1>2, <1>4, <2>1, <2>2
<1>5. ASSUME NEW u \in Uids, NEW s \in MoveTargets, Here(u),
             OutsideEdit(u, [files[u] EXCEPT !.status = s])
      PROVE  TreeInv'
  <2>1. PICK f : f = [files[u] EXCEPT !.status = s]
    OBVIOUS
  <2>2. f \in Files /\ f.key = files[u].key /\ f.type = files[u].type
    BY <1>1, <1>5, <2>1, RowFields, IssueTreeAssumption DEF Files
  <2> QED BY <1>2, <1>5, <2>1, <2>2
<1>6. ASSUME NEW u \in Uids, OutsideEdit(u, None)
      PROVE  TreeInv'
  BY <1>2, <1>6
<1> QED BY <1>3, <1>4, <1>5, <1>6, SprintKeeps DEF Outside

-----------------------------------------------------------------------------
(* The theorems.                                                           *)

LEMMA TreeInit == Init => TreeInv
<1> SUFFICES ASSUME Init PROVE TreeInv
  OBVIOUS
<1>1. /\ files \in Boards
      /\ index = [u \in Uids |-> IF Here(u) THEN [state |-> "OK", file |-> files[u]] ELSE NoRow]
      /\ sprints = [files |-> SprintIds, rows |-> SprintIds]
      /\ handlers = [c \in Clients |-> Free]
      /\ named = {<<files[u].key, u>> : u \in {v \in Uids : Here(v)}}
      /\ edited = {} /\ unread = {} /\ missed = {} /\ loose = {}
      /\ budget = [requests |-> 0, edits |-> 0, faults |-> 0]
  BY DEF Init
<1>2. files \in [Uids -> Files \cup {None}] /\ Whole(files)
  BY <1>1, IssueTreeAssumption
<1>3. ASSUME NEW u \in Uids
      PROVE  /\ index[u] \in Rows
             /\ Here(u) => files[u] \in Files /\ index[u].state = "OK" /\ index[u].file = files[u]
             /\ ~Here(u) => index[u].state = "none" /\ index[u].file = None
  <2>1. CASE Here(u)
    <3>1. index[u] = [state |-> "OK", file |-> files[u]] /\ files[u] \in Files
      BY <1>1, <1>2, <2>1 DEF Here
    <3> QED BY <2>1, <3>1 DEF Rows, States
  <2>2. CASE ~Here(u)
    BY <1>1, <2>2, NoFile
  <2> QED BY <2>1, <2>2
<1>4. \A u \in Uids : Here(u) => files[u].key \in Keys /\ files[u].parent \in Uids \cup {None}
  BY <1>3, FileFields
<1>5. TypeOK
  <2>1. budget \in [requests: 0..MaxRequests, edits: 0..MaxEdits, faults: 0..MaxFaults]
    BY <1>1, IssueTreeAssumption
  <2>2. handlers \in [Clients -> Handlers]
    BY <1>1, FreeHandler
  <2>3. named \subseteq Keys \X Uids
    BY <1>1, <1>4
  <2>4. index \in [Uids -> Rows]
    BY <1>1, <1>3
  <2>5. \A u \in Uids : index[u].file = None <=> index[u].state = "none"
    BY <1>3, NoFile
  <2>6. sprints \in [files: SUBSET SprintIds, rows: SUBSET SprintIds]
    BY <1>1
  <2> QED BY <1>1, <1>2, <2>1, <2>2, <2>3, <2>4, <2>5, <2>6 DEF TypeOK
<1>6. \A u, v \in Uids : Here(u) /\ Here(v) =>
          /\ files[u].key = files[v].key => u = v
          /\ files[u].parent # None =>
                Here(files[u].parent)
                    /\ files[files[u].parent].type \in ALLOWED_PARENTS[files[u].type]
  BY <1>2 DEF Whole, Here
<1>7. \A u \in Uids, k \in Keys : <<k, u>> \in named <=> Here(u) /\ k = files[u].key
  BY <1>1, <1>4
<1>8. Ledger
  <2>1. \A m, n \in named : m[1] = n[1] => m[2] = n[2]
    BY <1>1, <1>6
  <2>2. KeysAreNotReused
    BY <1>1, <1>6, <2>1 DEF KeysAreNotReused
  <2>3. \A u \in Uids : Here(u) =>
            /\ <<files[u].key, u>> \in named
            /\ index[u].state \in {"OK", "INVALID"} /\ Row(u).type = files[u].type
            /\ u \notin unread => Row(u) = files[u]
    BY <1>3, <1>4, <1>7 DEF Row
  <2>4. \A u \in Uids : index[u].state # "none" => <<Row(u).key, u>> \in named
    BY <1>3, <1>4, <1>7 DEF Row
  <2>5. \A u \in Uids, j, k \in Keys : <<j, u>> \in named /\ <<k, u>> \in named => j = k
    BY <1>7
  <2>6. \A u \in Uids, k \in Keys :
            <<k, u>> \in named /\ k \notin loose => index[u].state # "none"
    BY <1>3, <1>7
  <2> QED BY <1>1, <2>2, <2>3, <2>4, <2>5, <2>6 DEF Ledger
<1>9. Handling
  BY <1>1, FreeHandler DEF Handling
<1>10. Branching
  BY <1>1, <1>4, <1>6, <1>7 DEF Branching, Fits, Known
<1> QED BY <1>5, <1>8, <1>9, <1>10 DEF TreeInv

LEMMA TreeNext == TreeInv /\ [Next]_vars => TreeInv'
<1> SUFFICES ASSUME TreeInv, [Next]_vars PROVE TreeInv'
  OBVIOUS
<1>1. ASSUME NEW c \in Clients, Request(c)
      PROVE  TreeInv'
  BY <1>1, CreateKeeps, UpdateKeeps, PlanKeeps, TransitionKeeps, LinkKeeps, DeleteKeeps DEF Request
<1>2. ASSUME NEW c \in Clients, Continue(c)
      PROVE  TreeInv'
  BY <1>2, CreateWriteKeeps, PatchWriteKeeps, RemoveKeeps, CancelKeeps, DetachKeeps, GiveUpKeeps
     DEF Continue
<1>3. ASSUME NEW c \in Clients, Fail(c)
      PROVE  TreeInv'
  BY <1>3, FailKeeps
<1>4. CASE Restart \/ Rebuild \/ Reconcile \/ Outside
  BY <1>4, RestartKeeps, RebuildKeeps, ReconcileKeeps, OutsideKeeps
<1>5. CASE UNCHANGED vars
  <2>1. /\ files' = files /\ index' = index /\ handlers' = handlers /\ named' = named
        /\ edited' = edited /\ unread' = unread /\ missed' = missed /\ loose' = loose
        /\ budget' = budget /\ sprints' = sprints
    BY <1>5 DEF vars
  <2>2. TypeOK /\ Ledger /\ Handling /\ Branching
    BY DEF TreeInv
  <2>3. Ledger' /\ Branching' /\ HistoryGrows /\ TypesStay /\ HangsAreMissed
    BY <2>1, <2>2, NothingHappens
  <2>4. TypeOK'
    BY <2>1, <2>2 DEF TypeOK
  <2>5. ASSUME NEW c \in Clients
        PROVE  Creating(c)' /\ Patching(c)' /\ Covered(c)'
    <3>1. Creating(c) /\ Patching(c) /\ Covered(c)
      BY <2>2 DEF Handling
    <3> QED BY <2>1, <2>2, <2>3, <3>1, CreatingStays, PatchingStays, CoveredStays
  <2> QED BY <2>3, <2>4, <2>5 DEF TreeInv, Handling
<1> QED BY <1>1, <1>2, <1>3, <1>4, <1>5 DEF Next

(* The invariant holds of every board and whatever is asked of it.         *)
THEOREM TreeInvariant == Spec => []TreeInv
BY TreeInit, TreeNext, PTL DEF Spec

(* Files, rows, handlers and bounds stay what they are declared to be.     *)
THEOREM TypeCorrect == Spec => []TypeOK
<1>1. TreeInv => TypeOK
  BY DEF TreeInv
<1> QED BY <1>1, TreeInvariant, PTL

(* No two files have one key, and a key that no two overlapping creations  *)
(* were given and no rebuild forgot names one issue for ever.              *)
THEOREM KeysNameOneIssue == Spec => []KeysAreNotReused
<1>1. TreeInv => KeysAreNotReused
  BY DEF TreeInv, Ledger
<1> QED BY <1>1, TreeInvariant, PTL

(* Three steps up, no issue can have a parent.                             *)
LEMMA TypesEnd ==
    ASSUME NEW a \in Types, NEW b, NEW d, NEW e,
           b \in ALLOWED_PARENTS[a], d \in ALLOWED_PARENTS[b], e \in ALLOWED_PARENTS[d]
    PROVE  FALSE
BY DEF Types, ALLOWED_PARENTS, Work

(* No request orphans an issue in silence, and none closes a loop.         *)
THEOREM RequestsKeepTheTree == Spec => []TreeStaysWhole
<1>1. ASSUME TreeInv, NEW u \in Uids, Here(u), OnLoop(u, files)
      PROVE  edited # {}
  <2>1. SUFFICES ASSUME edited = {} PROVE FALSE
    OBVIOUS
  <2>2. PICK S \in SUBSET {v \in Uids : files[v] # None} :
            u \in S /\ {files[v].parent : v \in S} = S
    BY <1>1 DEF OnLoop
  <2>3. \A v \in S : /\ v \in Uids /\ Here(v) /\ files[v].parent \in S
                     /\ files[v].type \in Types
    BY <1>1, <2>2, RowFields, FileFields DEF TreeInv, Here
  <2>4. \A v \in S : files[files[v].parent].type \in ALLOWED_PARENTS[files[v].type]
    BY <1>1, <2>1, <2>3, NoFile DEF TreeInv, Branching, Fits
  <2>5. PICK p, q, r : p = files[u].parent /\ q = files[p].parent /\ r = files[q].parent
    OBVIOUS
  <2>6. /\ p \in S /\ q \in S /\ files[u].type \in Types
        /\ files[p].type \in ALLOWED_PARENTS[files[u].type]
        /\ files[q].type \in ALLOWED_PARENTS[files[p].type]
        /\ files[r].type \in ALLOWED_PARENTS[files[q].type]
    BY <2>2, <2>3, <2>4, <2>5
  <2> QED BY <2>6, TypesEnd
<1>2. TreeInv => TreeStaysWhole
  BY <1>1 DEF TreeInv, Branching, TreeStaysWhole
<1> QED BY <1>2, TreeInvariant, PTL

(* A patch keeps what other requests and editors wrote in the meantime.    *)
THEOREM PatchesKeepTheRest == Spec => NoLostUpdate
<1>1. ASSUME TreeInv, NEW c \in Clients, handlers[c].op \in Patches,
             PatchWrite(c)
      PROVE  \/ files'[handlers[c].uid] = files[handlers[c].uid]
             \/ Keeps(handlers[c].op, files[handlers[c].uid], files'[handlers[c].uid])
  <2>1. PICK u, g, f, op : u = handlers[c].uid /\ g = handlers[c].from /\ f = handlers[c].to
                           /\ op = handlers[c].op
    OBVIOUS
  <2>2. u \in Uids /\ g \in Files /\ f \in Files /\ Keeps(op, g, f)
    BY <1>1, <2>1 DEF TreeInv, Handling, Patching
  <2>3. files' = files \/ (files[u] = g /\ Write(u, f))
    BY <1>1, <2>1 DEF PatchWrite
  <2>4. CASE files' = files
    BY <2>1, <2>4
  <2>5. CASE files[u] = g /\ Write(u, f)
    <3>1. files'[u] = f
      BY <1>1, <2>2, <2>5, Written DEF TreeInv
    <3>2. files[u] = g
      BY <2>5
    <3>3. Keeps(op, files[u], files'[u])
      BY <2>2, <3>1, <3>2
    <3> QED BY <2>1, <3>3
  <2> QED BY <2>3, <2>4, <2>5
<1>2. TreeInv /\ [Next]_vars =>
          [\A c \in Clients :
              LET h == handlers[c] IN
              h.op \in Patches /\ PatchWrite(c) =>
                 files'[h.uid] = files[h.uid] \/ Keeps(h.op, files[h.uid], files'[h.uid])]_vars
  BY <1>1
<1> QED BY <1>2, TreeInvariant, PTL DEF Spec, NoLostUpdate

(* A pass hides what is broken, nothing else, and shows it again.          *)
THEOREM PassesHideWhatIsBroken == Spec => QuarantineIsExact
<1>1. ASSUME TreeInv, Reconcile \/ Restart \/ Rebuild
      PROVE  Passed
  BY <1>1, Synchronised, Rebuilt DEF TreeInv, Reconcile, Restart, Rebuild, ReadBoard
<1>2. TreeInv /\ [Next]_vars =>
          [Reconcile \/ Restart \/ Rebuild =>
              \A u \in Uids :
                  /\ index'[u].state = "INVALID" <=> Here(u) /\ Broken(u, files)
                  /\ index'[u].state = "OK" <=> Here(u) /\ ~Broken(u, files)]_vars
  BY <1>1 DEF Passed
<1> QED BY <1>2, TreeInvariant, PTL DEF Spec, QuarantineIsExact
=============================================================================
