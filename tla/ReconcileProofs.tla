--------------------------- MODULE ReconcileProofs ---------------------------
(***************************************************************************)
(* Proofs about Reconcile, for every set of paths, uids and texts and      *)
(* every number of edits and faults: what the index holds is explained by  *)
(* the files it has read, and what the event log says by what was changed. *)
(***************************************************************************)
EXTENDS Reconcile, FiniteSetTheorems, SequenceTheorems, TLAPS

Claims(idx, p) == idx.rows[p] # None /\ idx.rows[p].state # "PENDING_DELETE"

(* The rows say what the files that were read last said.                   *)
Follows(idx) ==
    \A p \in Paths :
        /\ Parses(idx.known[p]) =>
               Claims(idx, p) /\ idx.rows[p].uid = idx.known[p].uid /\ idx.errors[p] # "A"
        /\ idx.known[p] = None => ~Claims(idx, p)
        /\ idx.known[p] = Broken /\ idx.rows[p] # None =>
               Claims(idx, p) /\ (idx.errors[p] = "A" => idx.rows[p].state = "INVALID")

(* Stage B has been over them: what is shown is alone with its uid, and    *)
(* what it hides is not.                                                   *)
Checked(idx) ==
    \A p \in Paths : Claims(idx, p) =>
        /\ idx.rows[p].state = "OK" =>
               idx.errors[p] # "B" /\ \A q \in Paths : Claims(idx, q) => ~Same(idx, p, q)
        /\ idx.rows[p].state = "INVALID" /\ idx.errors[p] # "A" =>
               \E q \in Paths : Claims(idx, q) /\ Same(idx, p, q)

Known(idx) == idx \in Index /\ Follows(idx)
Sound(idx) == Known(idx) /\ Checked(idx)

(* Since a pass only the uids in doubt may be claimed twice without stage B  *)
(* having seen it, and one it hides may have become unique.                *)
CheckedBut(idx, uids) ==
    \A p \in Paths : Claims(idx, p) /\ idx.rows[p].uid \notin uids =>
        /\ idx.rows[p].state = "OK" =>
               idx.errors[p] # "B" /\ \A q \in Paths : Claims(idx, q) => ~Same(idx, p, q)
        /\ idx.rows[p].state = "INVALID" /\ idx.errors[p] # "A" =>
               \E q \in Paths : Claims(idx, q) /\ Same(idx, p, q)

(* No pass runs while the server is down.                                  *)
(* A pass that is over owes nothing, and one that is not owes one event of *)
(* a path at most; one that says a file has gone is true, unless the file  *)
(* came back and was taken in silently.                                    *)
Pending(p) == \E i \in DOMAIN owed : owed[i].path = p /\ owed[i].verb = "changed"
Owing ==
    /\ server = "down" => running = None
    /\ owed # <<>> => running # None
    /\ \A i, j \in DOMAIN owed : owed[i].path = owed[j].path => i = j
    /\ \A i \in DOMAIN owed : owed[i].verb # "changed" =>
           index.known[owed[i].path] = None \/ owed[i].path \in lost

Unread(p) == disk[p] \notin {None, index.known[p]}
Counted ==
    \A p \in Paths : news[p] >= (IF Unread(p) THEN 1 ELSE 0) + (IF Pending(p) THEN 1 ELSE 0)

Reported == \A p \in Paths \ lost : index.known[p] \in {None, told[p]} \/ Pending(p)

Hinted == server = "down" \/ hint # None \/ queue # <<>> \/ OutOfStep(index, disk) \subseteq unseen

ReconInv ==
    TypeOK /\ Known(index) /\ CheckedBut(index, strayed) /\ Owing /\ Counted /\ Reported /\ Hinted

-----------------------------------------------------------------------------
(* Lemmas about the data.                                                  *)

LEMMA NoneIsNothingElse ==
    /\ None \notin Contents /\ None \notin Rows /\ None \notin Passes
    /\ None # Broken /\ None # "A" /\ None # "B"
    /\ \A c \in Contents \cup {None} : Parses(c) <=> c \in [uid: Uids, text: Texts]
BY ReconcileAssumption DEF Contents, Parses

LEMMA PassLeavesNoDoubt ==
    ASSUME NEW idx, Sound(idx)
    PROVE  Known(idx) /\ CheckedBut(idx, {})
BY DEF Sound, Checked, CheckedBut

LEMMA IndexParts ==
    ASSUME NEW idx \in Index, NEW p \in Paths
    PROVE  /\ idx.known[p] \in Contents \cup {None} /\ idx.errors[p] \in {None, "A", "B"}
           /\ idx.rows[p] \in Rows \cup {None}
           /\ idx.rows[p] # None => /\ idx.rows[p] \in Rows
                                    /\ idx.rows[p].state \in {"OK", "INVALID", "PENDING_DELETE"}
                                    /\ idx.rows[p].deadline \in Nat \cup {None}
                                    /\ idx.rows[p].uid \in Uids
BY DEF Index, Rows

LEMMA IssueIsRow ==
    ASSUME NEW c \in Contents \cup {None}, Parses(c)
    PROVE  /\ Issue(c) \in Rows /\ Issue(c).state = "OK" /\ Issue(c).uid = c.uid
           /\ Issue(c) # None
BY NoneIsNothingElse DEF Issue, Rows

-----------------------------------------------------------------------------
(* What each step of a pass does to the index.                             *)

Files == disk \in [Paths -> Contents \cup {None}]

(* Files are loaded that are there.                                        *)
LEMMA Loaded ==
    ASSUME NEW files \in [Paths -> Contents \cup {None}],
           NEW idx, idx \in Index, Follows(idx), NEW changed \in SUBSET Paths,
           \A p \in changed : files[p] # None,
           NEW new, new = loadScannedFile(idx, files, changed)
    PROVE  /\ new \in Index /\ Follows(new)
           /\ \A p \in Paths : new.known[p] = IF p \in changed THEN files[p] ELSE idx.known[p]
           /\ \A p \in Paths \ changed : new.rows[p] = idx.rows[p] /\ new.errors[p] = idx.errors[p]
           /\ \A p \in changed :
                  IF Parses(files[p]) THEN new.rows[p] = Issue(files[p]) /\ new.errors[p] = None
                  ELSE /\ new.rows[p] = quarantineExisting(idx.rows[p])
                       /\ new.errors[p] = IF idx.errors[p] = None THEN "A" ELSE idx.errors[p]
<1> DEFINE good == {p \in changed : Parses(files[p])}
           bad == changed \ good
           known == [p \in Paths |-> IF p \in changed THEN files[p] ELSE idx.known[p]]
           rows == [p \in Paths |-> IF p \in good THEN Issue(files[p])
                                    ELSE IF p \in bad THEN quarantineExisting(idx.rows[p])
                                    ELSE idx.rows[p]]
           errors == [p \in Paths |-> IF p \in good THEN None
                                      ELSE IF p \in bad /\ idx.errors[p] = None THEN "A"
                                      ELSE idx.errors[p]]
<1>1. new = [known |-> known, rows |-> rows, errors |-> errors]
  BY Zenon DEF loadScannedFile
<1>2. new.known = known /\ new.rows = rows /\ new.errors = errors
  BY <1>1
<1>3. ASSUME NEW p \in Paths
      PROVE  /\ known[p] \in Contents \cup {None} /\ errors[p] \in {None, "A", "B"}
             /\ rows[p] \in Rows \cup {None}
  <2>1. files[p] \in Contents \cup {None}
    OBVIOUS
  <2>2. idx.rows[p] # None => [idx.rows[p] EXCEPT !.state = "INVALID"] \in Rows
    BY IndexParts DEF Rows
  <2> QED BY <2>1, <2>2, IndexParts, IssueIsRow DEF quarantineExisting
<1>4. new \in Index
  BY <1>1, <1>3 DEF Index
<1>5. ASSUME NEW p \in Paths
      PROVE  /\ Parses(new.known[p]) =>
                    Claims(new, p) /\ new.rows[p].uid = new.known[p].uid /\ new.errors[p] # "A"
             /\ new.known[p] = None => ~Claims(new, p)
             /\ new.known[p] = Broken /\ new.rows[p] # None =>
                    Claims(new, p) /\ (new.errors[p] = "A" => new.rows[p].state = "INVALID")
  <2>1. CASE p \in good
    <3>1. new.rows[p] = Issue(files[p]) /\ new.errors[p] = None /\ new.known[p] = files[p]
      BY <1>2, <2>1
    <3>2. files[p] \in Contents \cup {None} /\ Parses(files[p])
      BY <2>1
    <3> QED BY <3>1, <3>2, IssueIsRow, NoneIsNothingElse DEF Claims, Parses
  <2>2. CASE p \in bad
    <3>1. files[p] = Broken /\ new.known[p] = Broken /\ new.rows[p] = quarantineExisting(idx.rows[p])
      BY <1>2, <2>2 DEF Parses
    <3>2. new.rows[p] # None => new.rows[p].state = "INVALID"
      BY <3>1, IndexParts DEF quarantineExisting, Rows
    <3> QED BY <3>1, <3>2, NoneIsNothingElse DEF Claims, Parses
  <2>3. CASE p \notin changed
    <3>1. new.rows[p] = idx.rows[p] /\ new.errors[p] = idx.errors[p] /\ new.known[p] = idx.known[p]
      BY <1>2, <2>3
    <3> QED BY <3>1 DEF Follows, Claims
  <2> QED BY <2>1, <2>2, <2>3
<1>6. Follows(new)
  BY <1>5 DEF Follows
<1>7. \A p \in Paths : new.known[p] = IF p \in changed THEN files[p] ELSE idx.known[p]
  BY <1>2
<1>8. \A p \in Paths \ changed : new.rows[p] = idx.rows[p] /\ new.errors[p] = idx.errors[p]
  BY <1>2
<1>9. \A p \in changed :
          IF Parses(files[p]) THEN new.rows[p] = Issue(files[p]) /\ new.errors[p] = None
          ELSE /\ new.rows[p] = quarantineExisting(idx.rows[p])
               /\ new.errors[p] = IF idx.errors[p] = None THEN "A" ELSE idx.errors[p]
  BY <1>2
<1> QED BY <1>4, <1>6, <1>7, <1>8, <1>9

LEMMA TombstoneIsRow ==
    ASSUME now \in Nat, NEW row \in Rows
    PROVE  /\ Tombstone(row) \in Rows /\ Tombstone(row).state = "PENDING_DELETE"
           /\ row.state = "PENDING_DELETE" => Tombstone(row) = row
<1>1. now + GraceTicks \in Nat
  BY ReconcileAssumption
<1> QED BY <1>1 DEF Tombstone, Rows

LEMMA Retired ==
    ASSUME now \in Nat, NEW idx, idx \in Index, Follows(idx), NEW vanished \in SUBSET Paths,
           NEW new, new = retirePath(idx, vanished)
    PROVE  /\ new \in Index /\ Follows(new)
           /\ \A p \in Paths : new.known[p] = IF p \in vanished THEN None ELSE idx.known[p]
           /\ \A p \in Paths \ vanished : new.rows[p] = idx.rows[p] /\ new.errors[p] = idx.errors[p]
           /\ \A p \in vanished : new.rows[p] # None =>
                  idx.rows[p] # None /\ movedTo(idx, p) = {} /\ ~Claims(new, p)
<1> DEFINE cleared == {p \in vanished : idx.rows[p] = None \/ movedTo(idx, p) # {}}
           known == [p \in Paths |-> IF p \in vanished THEN None ELSE idx.known[p]]
           rows == [p \in Paths |-> IF p \in cleared THEN None
                                    ELSE IF p \in vanished THEN Tombstone(idx.rows[p])
                                    ELSE idx.rows[p]]
           errors == [p \in Paths |-> IF p \in cleared THEN None ELSE idx.errors[p]]
<1>1. new = [known |-> known, rows |-> rows, errors |-> errors]
  BY Zenon DEF retirePath
<1>2. new.known = known /\ new.rows = rows /\ new.errors = errors
  BY <1>1
<1>3. ASSUME NEW p \in Paths
      PROVE  /\ known[p] \in Contents \cup {None} /\ errors[p] \in {None, "A", "B"}
             /\ rows[p] \in Rows \cup {None}
  BY IndexParts, TombstoneIsRow
<1>4. new \in Index
  BY <1>1, <1>3 DEF Index
<1>5. ASSUME NEW p \in vanished
      PROVE  new.known[p] = None /\ ~Claims(new, p)
  <2>1. /\ new.known[p] = None
        /\ \/ new.rows[p] = None
           \/ new.rows[p] = Tombstone(idx.rows[p]) /\ idx.rows[p] # None
    BY <1>2
  <2> QED BY <2>1, IndexParts, TombstoneIsRow DEF Claims
<1>6. ASSUME NEW p \in Paths \ vanished
      PROVE  new.rows[p] = idx.rows[p] /\ new.errors[p] = idx.errors[p] /\ new.known[p] = idx.known[p]
  BY <1>2
<1>7. Follows(new)
  <2>1. ASSUME NEW p \in Paths
        PROVE  /\ Parses(new.known[p]) =>
                      Claims(new, p) /\ new.rows[p].uid = new.known[p].uid /\ new.errors[p] # "A"
               /\ new.known[p] = None => ~Claims(new, p)
               /\ new.known[p] = Broken /\ new.rows[p] # None =>
                      Claims(new, p) /\ (new.errors[p] = "A" => new.rows[p].state = "INVALID")
    <3>1. CASE p \in vanished
      BY <1>5, <3>1, NoneIsNothingElse DEF Parses
    <3>2. CASE p \notin vanished
      BY <1>6, <3>2 DEF Follows, Claims
    <3> QED BY <3>1, <3>2
  <2> QED BY <2>1 DEF Follows
<1>8. \A p \in Paths : new.known[p] = IF p \in vanished THEN None ELSE idx.known[p]
  BY <1>2
<1>9. \A p \in vanished : new.rows[p] # None => idx.rows[p] # None /\ movedTo(idx, p) = {} /\ ~Claims(new, p)
  BY <1>2, <1>5
<1> QED BY <1>4, <1>6, <1>7, <1>8, <1>9

(* Only tombstones are dropped.                                            *)
LEMMA Dropped ==
    ASSUME NEW idx, idx \in Index, Follows(idx), NEW gone \in SUBSET Paths,
           \A p \in gone : ~Claims(idx, p),
           NEW new, new = Drop(idx, gone)
    PROVE  /\ new \in Index /\ Follows(new) /\ new.known = idx.known /\ new.errors = idx.errors
           /\ \A p \in Paths : new.rows[p] = IF p \in gone THEN None ELSE idx.rows[p]
<1>1. PICK rows : rows = [p \in Paths |-> IF p \in gone THEN None ELSE idx.rows[p]]
  OBVIOUS
<1>2. new = [idx EXCEPT !.rows = rows]
  BY <1>1 DEF Drop
<1>3. rows \in [Paths -> Rows \cup {None}]
  BY <1>1, IndexParts
<1>4. new \in Index /\ new.known = idx.known /\ new.errors = idx.errors /\ new.rows = rows
  BY <1>2, <1>3 DEF Index
<1>5. ASSUME NEW p \in Paths
      PROVE  /\ Claims(new, p) <=> Claims(idx, p)
             /\ new.rows[p] # None => new.rows[p] = idx.rows[p]
             /\ Claims(idx, p) => new.rows[p] = idx.rows[p]
  BY <1>1, <1>4 DEF Claims
<1>6. Follows(new)
  BY <1>4, <1>5 DEF Follows
<1> QED BY <1>1, <1>4, <1>6

LEMMA ReleasedIs ==
    ASSUME NEW idx, idx \in Index, Follows(idx), NEW new, new = Released(idx)
    PROVE  /\ new \in Index /\ Follows(new) /\ new.known = idx.known
           /\ \A p \in Paths :
                  /\ Claims(new, p) <=> Claims(idx, p)
                  /\ idx.rows[p] = None <=> new.rows[p] = None
                  /\ idx.rows[p] # None => new.rows[p].uid = idx.rows[p].uid
                  /\ ~Claims(idx, p) => new.rows[p] = idx.rows[p]
                  /\ Claims(new, p) => new.rows[p].state = "OK" \/ new.errors[p] = "A"
                  /\ new.errors[p] \in {None, "A"}
<1>1. PICK rows, errors :
          /\ rows = [p \in Paths |->
                 IF idx.rows[p] # None /\ idx.rows[p].state = "INVALID" /\ idx.errors[p] # "A"
                 THEN [idx.rows[p] EXCEPT !.state = "OK"] ELSE idx.rows[p]]
          /\ errors = [p \in Paths |-> IF idx.errors[p] = "B" THEN None ELSE idx.errors[p]]
  OBVIOUS
<1>2. new = [idx EXCEPT !.rows = rows, !.errors = errors]
  BY <1>1 DEF Released
<1>3. ASSUME NEW p \in Paths
      PROVE  /\ rows[p] \in Rows \cup {None} /\ errors[p] \in {None, "A"}
             /\ errors[p] = "A" <=> idx.errors[p] = "A"
             /\ rows[p] = None <=> idx.rows[p] = None
             /\ idx.rows[p] # None =>
                    /\ rows[p].uid = idx.rows[p].uid
                    /\ rows[p].state = IF idx.rows[p].state = "INVALID" /\ idx.errors[p] # "A" THEN "OK"
                                       ELSE idx.rows[p].state
             /\ idx.rows[p] # None /\ idx.rows[p].state # "INVALID" => rows[p] = idx.rows[p]
             /\ idx.errors[p] = "A" => rows[p] = idx.rows[p]
  <2>1. idx.errors[p] \in {None, "A", "B"} /\ errors[p] = IF idx.errors[p] = "B" THEN None ELSE idx.errors[p]
    BY <1>1, IndexParts
  <2>2. idx.rows[p] # None =>
            /\ [idx.rows[p] EXCEPT !.state = "OK"] \in Rows
            /\ [idx.rows[p] EXCEPT !.state = "OK"].state = "OK"
            /\ [idx.rows[p] EXCEPT !.state = "OK"].uid = idx.rows[p].uid
    BY IndexParts DEF Rows
  <2>3. rows[p] = IF idx.rows[p] # None /\ idx.rows[p].state = "INVALID" /\ idx.errors[p] # "A"
                  THEN [idx.rows[p] EXCEPT !.state = "OK"] ELSE idx.rows[p]
    BY <1>1
  <2>4. idx.rows[p] \in Rows \cup {None}
    BY IndexParts
  <2> QED BY <2>1, <2>2, <2>3, <2>4, NoneIsNothingElse
<1>4. rows \in [Paths -> Rows \cup {None}] /\ errors \in [Paths -> {None, "A", "B"}]
  BY <1>1, <1>3
<1>5. new \in Index /\ new.known = idx.known /\ new.errors = errors /\ new.rows = rows
  BY <1>2, <1>4 DEF Index
<1>6. ASSUME NEW p \in Paths
      PROVE  /\ Claims(new, p) <=> Claims(idx, p)
             /\ idx.rows[p] = None <=> new.rows[p] = None
             /\ idx.rows[p] # None => new.rows[p].uid = idx.rows[p].uid
             /\ ~Claims(idx, p) => new.rows[p] = idx.rows[p]
             /\ Claims(new, p) => new.rows[p].state = "OK" \/ new.errors[p] = "A"
             /\ new.errors[p] \in {None, "A"}
             /\ new.errors[p] = "A" => (idx.errors[p] = "A" /\ new.rows[p] = idx.rows[p])
  BY <1>3, <1>5, IndexParts DEF Claims
<1>7. Follows(new)
  <2>1. ASSUME NEW p \in Paths
        PROVE  /\ Parses(new.known[p]) =>
                      Claims(new, p) /\ new.rows[p].uid = new.known[p].uid /\ new.errors[p] # "A"
               /\ new.known[p] = None => ~Claims(new, p)
               /\ new.known[p] = Broken /\ new.rows[p] # None =>
                      Claims(new, p) /\ (new.errors[p] = "A" => new.rows[p].state = "INVALID")
    BY <1>5, <1>6 DEF Follows, Claims
  <2> QED BY <2>1 DEF Follows
<1> QED BY <1>5, <1>6, <1>7

(* Who claims what is not changed by hiding the ones who share.            *)
LEMMA Validated ==
    ASSUME NEW idx, idx \in Index, Follows(idx), NEW new, new = validateBoard(idx)
    PROVE  /\ Sound(new) /\ new.known = idx.known
           /\ \A p \in Paths :
                  /\ Claims(new, p) <=> Claims(idx, p)
                  /\ ~Claims(idx, p) => new.rows[p] = idx.rows[p]
<1>1. PICK free : free = Released(idx)
  OBVIOUS
<1>2. /\ free \in Index /\ Follows(free) /\ free.known = idx.known
      /\ \A p \in Paths :
             /\ Claims(free, p) <=> Claims(idx, p)
             /\ ~Claims(idx, p) => free.rows[p] = idx.rows[p]
             /\ Claims(free, p) => free.rows[p].state = "OK" \/ free.errors[p] = "A"
             /\ free.errors[p] \in {None, "A"}
  BY <1>1, ReleasedIs
<1>3. PICK twins \in SUBSET Paths : twins = duplicateUids(free)
  BY DEF duplicateUids
<1>4. \A p \in Paths : p \in twins <=>
          Claims(free, p) /\ \E q \in Paths : Claims(free, q) /\ Same(free, p, q)
  BY <1>3 DEF duplicateUids, Claims
<1>5. PICK rows, errors :
          /\ rows = [p \in Paths |-> IF p \in twins THEN [free.rows[p] EXCEPT !.state = "INVALID"]
                                     ELSE free.rows[p]]
          /\ errors = [p \in Paths |-> IF p \in twins /\ free.errors[p] = None THEN "B"
                                       ELSE free.errors[p]]
  OBVIOUS
<1>6. new = [free EXCEPT !.rows = rows, !.errors = errors]
  BY <1>1, <1>3, <1>5 DEF validateBoard, Quarantine
<1>7. ASSUME NEW p \in Paths
      PROVE  /\ rows[p] \in Rows \cup {None} /\ errors[p] \in {None, "A", "B"}
             /\ errors[p] = "A" <=> free.errors[p] = "A"
             /\ rows[p] = None <=> free.rows[p] = None
             /\ free.rows[p] # None => rows[p].uid = free.rows[p].uid
             /\ p \in twins => rows[p].state = "INVALID"
             /\ p \notin twins => rows[p] = free.rows[p]
  <2>1. p \in twins => free.rows[p] # None
    BY <1>4 DEF Claims
  <2>2. free.rows[p] # None =>
            /\ [free.rows[p] EXCEPT !.state = "INVALID"] \in Rows
            /\ [free.rows[p] EXCEPT !.state = "INVALID"].state = "INVALID"
            /\ [free.rows[p] EXCEPT !.state = "INVALID"].uid = free.rows[p].uid
    BY <1>2, IndexParts DEF Rows
  <2>3. rows[p] = IF p \in twins THEN [free.rows[p] EXCEPT !.state = "INVALID"] ELSE free.rows[p]
    BY <1>5
  <2>4. errors[p] = IF p \in twins /\ free.errors[p] = None THEN "B" ELSE free.errors[p]
    BY <1>5
  <2>5. free.rows[p] \in Rows \cup {None}
    BY <1>2, IndexParts
  <2> QED BY <1>2, <2>1, <2>2, <2>3, <2>4, <2>5, NoneIsNothingElse
<1>8. rows \in [Paths -> Rows \cup {None}] /\ errors \in [Paths -> {None, "A", "B"}]
  BY <1>5, <1>7
<1>9. new \in Index /\ new.known = free.known /\ new.errors = errors /\ new.rows = rows
  BY <1>2, <1>6, <1>8 DEF Index
<1>10. ASSUME NEW p \in Paths
       PROVE  /\ Claims(new, p) <=> Claims(free, p)
              /\ ~Claims(free, p) => new.rows[p] = free.rows[p]
              /\ \A q \in Paths : Same(new, p, q) <=> Same(free, p, q)
  <2>1. Claims(new, p) <=> Claims(free, p)
    BY <1>4, <1>7, <1>9 DEF Claims
  <2>2. ~Claims(free, p) => new.rows[p] = free.rows[p]
    BY <1>4, <1>7, <1>9
  <2>3. \A q \in Paths : Same(new, p, q) <=> Same(free, p, q)
    BY <1>7, <1>9 DEF Same
  <2> QED BY <2>1, <2>2, <2>3
<1>11. Follows(new)
  <2>1. ASSUME NEW p \in Paths
        PROVE  /\ Parses(new.known[p]) =>
                      Claims(new, p) /\ new.rows[p].uid = new.known[p].uid /\ new.errors[p] # "A"
               /\ new.known[p] = None => ~Claims(new, p)
               /\ new.known[p] = Broken /\ new.rows[p] # None =>
                      Claims(new, p) /\ (new.errors[p] = "A" => new.rows[p].state = "INVALID")
    BY <1>2, <1>7, <1>9, <1>10 DEF Follows, Claims
  <2> QED BY <2>1 DEF Follows
<1>12. Checked(new)
  <2>1. ASSUME NEW p \in Paths, Claims(new, p)
        PROVE  /\ new.rows[p].state = "OK" =>
                      new.errors[p] # "B" /\ \A q \in Paths : Claims(new, q) => ~Same(new, p, q)
               /\ new.rows[p].state = "INVALID" /\ new.errors[p] # "A" =>
                      \E q \in Paths : Claims(new, q) /\ Same(new, p, q)
    <3>1. new.rows[p].state = "OK" => p \notin twins
      BY <1>7, <1>9
    <3>2. new.rows[p].state = "INVALID" /\ new.errors[p] # "A" => p \in twins
      BY <1>2, <1>7, <1>9, <1>10, <2>1
    <3>3. p \notin twins => new.errors[p] # "B"
      BY <1>2, <1>5, <1>9, NoneIsNothingElse
    <3> QED BY <1>4, <1>10, <2>1, <3>1, <3>2, <3>3
  <2> QED BY <2>1 DEF Checked
<1> QED BY <1>2, <1>9, <1>10, <1>11, <1>12 DEF Sound, Known

-----------------------------------------------------------------------------
(* What a whole pass does to the index.                                    *)

(* A tombstone that a pass makes is of an issue no file that was new to    *)
(* the pass carries on; and one whose grace is over stands while there is  *)
(* no file.                                                                *)
Buried(idx, new) ==
    \A p \in Paths :
        idx.rows[p] # None /\ Claims(idx, p) /\ new.rows[p] # None /\ ~Claims(new, p) =>
            \A q \in Paths \ {p} :
                Parses(new.known[q]) /\ new.known[q].uid = idx.rows[p].uid =>
                    idx.known[q] = new.known[q] /\ idx.rows[q].state = "INVALID"
Stands(idx, new) ==
    \A p \in Paths :
        idx.rows[p] # None /\ ~Claims(idx, p) /\ disk[p] = None
            /\ (idx.rows[p].deadline = None \/ idx.rows[p].deadline <= now) =>
                new.rows[p] # None /\ ~Claims(new, p)

LEMMA TookIn ==
    ASSUME Files, now \in Nat, NEW idx, Known(idx), NEW changed \in SUBSET Paths,
           \A p \in changed : disk[p] # None,
           NEW new, new = TakeIn(idx, changed)
    PROVE  /\ Sound(new) /\ Buried(idx, new) /\ Stands(idx, new)
           /\ \A p \in Paths : new.known[p] = IF p \in changed THEN disk[p]
                                              ELSE IF disk[p] = None THEN None ELSE idx.known[p]
<1>1. PICK loaded : loaded = loadScannedFile(idx, disk, changed)
  OBVIOUS
<1>2. /\ loaded \in Index /\ Follows(loaded)
      /\ \A p \in Paths : loaded.known[p] = IF p \in changed THEN disk[p] ELSE idx.known[p]
      /\ \A p \in Paths \ changed : loaded.rows[p] = idx.rows[p] /\ loaded.errors[p] = idx.errors[p]
      /\ \A p \in changed : Parses(disk[p]) => loaded.rows[p] = Issue(disk[p])
  BY <1>1, Loaded DEF Known, Files
<1>3. PICK vanished \in SUBSET Paths : vanished = Vanished(loaded)
  BY DEF Vanished
<1>4. \A p \in Paths : p \in vanished <=> loaded.known[p] # None /\ disk[p] = None
  BY <1>3 DEF Vanished
<1>5. PICK retired : retired = retirePath(loaded, vanished)
  OBVIOUS
<1>6. /\ retired \in Index /\ Follows(retired)
      /\ \A p \in Paths : retired.known[p] = IF p \in vanished THEN None ELSE loaded.known[p]
      /\ \A p \in Paths \ vanished : retired.rows[p] = loaded.rows[p]
      /\ \A p \in vanished : retired.rows[p] # None =>
             loaded.rows[p] # None /\ movedTo(loaded, p) = {} /\ ~Claims(retired, p)
  BY <1>2, <1>5, Retired
<1>7. PICK gone : gone = UNION {reviveMoved(retired, q) : q \in changed}
  OBVIOUS
<1>8. ASSUME NEW p \in gone
      PROVE  p \in Paths /\ ~Claims(retired, p) /\ retired.rows[p].deadline # None
             /\ retired.rows[p].deadline > now
  BY <1>7 DEF reviveMoved, Claims
<1>9. PICK dropped : dropped = Drop(retired, gone)
  OBVIOUS
<1>10. /\ dropped \in Index /\ Follows(dropped) /\ dropped.known = retired.known
       /\ \A p \in Paths : dropped.rows[p] = IF p \in gone THEN None ELSE retired.rows[p]
  BY <1>6, <1>8, <1>9, Dropped
<1>11. new = validateBoard(dropped)
  BY <1>1, <1>3, <1>5, <1>7, <1>9 DEF TakeIn
<1>12. /\ Sound(new) /\ new.known = dropped.known
       /\ \A p \in Paths : /\ Claims(new, p) <=> Claims(dropped, p)
                           /\ ~Claims(dropped, p) => new.rows[p] = dropped.rows[p]
  BY <1>10, <1>11, Validated
<1>13. ASSUME NEW p \in Paths
       PROVE  new.known[p] = IF p \in changed THEN disk[p]
                             ELSE IF disk[p] = None THEN None ELSE idx.known[p]
  BY <1>2, <1>4, <1>6, <1>10, <1>12
<1>14. Buried(idx, new)
  <2>1. SUFFICES ASSUME NEW p \in Paths, NEW q \in Paths \ {p},
                        idx.rows[p] # None, Claims(idx, p), new.rows[p] # None, ~Claims(new, p),
                        Parses(new.known[q]), new.known[q].uid = idx.rows[p].uid
                 PROVE  idx.known[q] = new.known[q] /\ idx.rows[q].state = "INVALID"
    BY DEF Buried
  <2>2. retired.rows[p] = new.rows[p] /\ ~Claims(retired, p)
    BY <1>10, <1>12, <2>1 DEF Claims
  <2>3. p \in vanished
    <3>1. SUFFICES ASSUME p \notin vanished PROVE FALSE
      OBVIOUS
    <3>2. loaded.rows[p] = new.rows[p] /\ ~Claims(loaded, p)
      BY <1>6, <2>2, <3>1 DEF Claims
    <3>3. p \in changed
      BY <1>2, <2>1, <3>2 DEF Claims
    <3>4. loaded.known[p] = disk[p] /\ disk[p] # None
      BY <1>2, <3>3
    <3> QED BY <1>2, <2>1, <3>2, <3>4 DEF Follows, Parses
  <2>4. p \notin changed /\ loaded.rows[p] = idx.rows[p] /\ movedTo(loaded, p) = {}
    BY <1>2, <1>4, <1>6, <2>1, <2>2, <2>3
  <2>5. loaded.known[q] = new.known[q] /\ new.known[q] # None
    BY <1>6, <1>10, <1>12, <2>1 DEF Parses
  <2>6. Claims(loaded, q) /\ loaded.rows[q].uid = idx.rows[p].uid
    BY <1>2, <2>1, <2>5 DEF Follows
  <2>7. loaded.rows[q].state # "OK"
    BY <2>1, <2>4, <2>6 DEF movedTo, Same, Claims
  <2>8. q \notin changed
    <3>1. SUFFICES ASSUME q \in changed PROVE FALSE
      OBVIOUS
    <3>2. disk[q] = new.known[q] /\ disk[q] \in Contents \cup {None}
      BY <1>2, <2>5, <3>1 DEF Files
    <3> QED BY <1>2, <2>1, <2>7, <3>1, <3>2, IssueIsRow
  <2> QED BY <1>2, <2>5, <2>6, <2>7, <2>8, IndexParts DEF Claims
<1>15. Stands(idx, new)
  <2>1. SUFFICES ASSUME NEW p \in Paths, idx.rows[p] # None, ~Claims(idx, p), disk[p] = None,
                        idx.rows[p].deadline = None \/ idx.rows[p].deadline <= now
                 PROVE  new.rows[p] # None /\ ~Claims(new, p)
    BY DEF Stands
  <2>2. idx.known[p] = None
    BY <2>1 DEF Known, Follows, Parses
  <2>3. retired.rows[p] = idx.rows[p]
    BY <1>2, <1>4, <1>6, <2>1, <2>2
  <2>4. p \notin gone
    <3>1. idx.rows[p].deadline \in Nat \cup {None}
      BY <2>1, IndexParts DEF Known
    <3> QED BY <1>8, <2>1, <2>3, <3>1
  <2>5. dropped.rows[p] = idx.rows[p] /\ ~Claims(dropped, p)
    BY <1>10, <2>1, <2>3, <2>4 DEF Claims
  <2> QED BY <1>12, <2>1, <2>5
<1> QED BY <1>12, <1>13, <1>14, <1>15

LEMMA Confirmed ==
    ASSUME NEW idx, Sound(idx), NEW new, new = Confirm(idx)
    PROVE  /\ Sound(new) /\ new.known = idx.known
           /\ \A p \in Paths : /\ Claims(new, p) <=> Claims(idx, p)
                               /\ new.rows[p] = None <=> idx.rows[p] = None
<1>1. idx \in Index
  BY DEF Sound, Known
<1>2. PICK rows : rows = [p \in Paths |->
          IF idx.rows[p] # None /\ idx.rows[p].state = "PENDING_DELETE"
                 /\ idx.rows[p].deadline # None /\ idx.rows[p].deadline <= now
          THEN [idx.rows[p] EXCEPT !.deadline = None] ELSE idx.rows[p]]
  OBVIOUS
<1>3. new = [idx EXCEPT !.rows = rows]
  BY <1>2 DEF Confirm
<1>4. ASSUME NEW p \in Paths
      PROVE  /\ rows[p] \in Rows \cup {None}
             /\ rows[p] = None <=> idx.rows[p] = None
             /\ rows[p] # None => rows[p].uid = idx.rows[p].uid /\ rows[p].state = idx.rows[p].state
  <2>1. idx.rows[p] # None =>
            /\ [idx.rows[p] EXCEPT !.deadline = None] \in Rows
            /\ [idx.rows[p] EXCEPT !.deadline = None].state = idx.rows[p].state
            /\ [idx.rows[p] EXCEPT !.deadline = None].uid = idx.rows[p].uid
    BY <1>1, IndexParts DEF Rows
  <2>2. rows[p] = idx.rows[p] \/ (idx.rows[p] # None /\ rows[p] = [idx.rows[p] EXCEPT !.deadline = None])
    BY <1>2
  <2> QED BY <1>1, <2>1, <2>2, IndexParts, NoneIsNothingElse
<1>5. rows \in [Paths -> Rows \cup {None}]
  BY <1>2, <1>4
<1>6. new \in Index /\ new.known = idx.known /\ new.errors = idx.errors /\ new.rows = rows
  BY <1>1, <1>3, <1>5 DEF Index
<1>7. ASSUME NEW p \in Paths
      PROVE  /\ Claims(new, p) <=> Claims(idx, p)
             /\ new.rows[p] = None <=> idx.rows[p] = None
             /\ new.rows[p] # None =>
                    new.rows[p].uid = idx.rows[p].uid /\ new.rows[p].state = idx.rows[p].state
             /\ \A q \in Paths : Same(new, p, q) <=> Same(idx, p, q)
  BY <1>4, <1>6 DEF Claims, Same
<1>8. Follows(new)
  <2>1. ASSUME NEW p \in Paths
        PROVE  /\ Parses(new.known[p]) =>
                      Claims(new, p) /\ new.rows[p].uid = new.known[p].uid /\ new.errors[p] # "A"
               /\ new.known[p] = None => ~Claims(new, p)
               /\ new.known[p] = Broken /\ new.rows[p] # None =>
                      Claims(new, p) /\ (new.errors[p] = "A" => new.rows[p].state = "INVALID")
    BY <1>6, <1>7 DEF Sound, Known, Follows, Claims
  <2> QED BY <2>1 DEF Follows
<1>9. Checked(new)
  BY <1>6, <1>7 DEF Sound, Known, Checked, Claims
<1> QED BY <1>6, <1>7, <1>8, <1>9 DEF Sound, Known

(* The two syncs that keep the index, and the one that makes it anew.      *)
LEMMA Synced ==
    ASSUME Files, now \in Nat, touched \subseteq Paths, NEW idx, Known(idx),
           NEW new, new = incrementalSync(idx)
    PROVE  /\ Sound(new) /\ Buried(idx, new) /\ Stands(idx, new)
           /\ \A p \in Paths : /\ p \in statChanged(idx) => new.known[p] = disk[p]
                               /\ p \notin statChanged(idx) =>
                                      new.known[p] = IF disk[p] = None THEN None ELSE idx.known[p]
<1>1. statChanged(idx) \in SUBSET Paths /\ \A p \in statChanged(idx) : disk[p] # None
  BY DEF statChanged
<1>2. new = TakeIn(idx, statChanged(idx))
  BY DEF incrementalSync
<1> QED BY <1>1, <1>2, TookIn

LEMMA Reconciled ==
    ASSUME Files, now \in Nat, NEW idx, Known(idx), NEW new, new = fullReconcile(idx)
    PROVE  /\ Sound(new) /\ Buried(idx, new) /\ Stands(idx, new)
           /\ \A p \in Paths : new.known[p] = disk[p]
<1>1. hashChanged(idx) \in SUBSET Paths /\ \A p \in hashChanged(idx) : disk[p] # None
  BY DEF hashChanged
<1>2. PICK taken : taken = TakeIn(idx, hashChanged(idx))
  OBVIOUS
<1>3. /\ Sound(taken) /\ Buried(idx, taken) /\ Stands(idx, taken)
      /\ \A p \in Paths : taken.known[p] = IF p \in hashChanged(idx) THEN disk[p]
                                           ELSE IF disk[p] = None THEN None ELSE idx.known[p]
  BY <1>1, <1>2, TookIn
<1>4. new = Confirm(taken)
  BY <1>2 DEF fullReconcile
<1>5. /\ Sound(new) /\ new.known = taken.known
      /\ \A p \in Paths : /\ Claims(new, p) <=> Claims(taken, p)
                          /\ new.rows[p] = None <=> taken.rows[p] = None
  BY <1>3, <1>4, Confirmed
<1>6. \A p \in Paths : new.known[p] = disk[p]
  BY <1>3, <1>5 DEF hashChanged
<1>7. Buried(idx, new)
  BY <1>3, <1>5 DEF Buried
<1>8. Stands(idx, new)
  BY <1>3, <1>5 DEF Stands
<1> QED BY <1>5, <1>6, <1>7, <1>8

LEMMA Rebuilt ==
    ASSUME Files, NEW new, new = rebuildIndex
    PROVE  /\ Sound(new)
           /\ \A p \in Paths : new.known[p] = disk[p] /\ (new.rows[p] # None => Claims(new, p))
<1> DEFINE there == {p \in Paths : disk[p] # None}
<1>1. Empty \in Index /\ Follows(Empty)
      /\ \A p \in Paths : Empty.known[p] = None /\ Empty.rows[p] = None
  BY NoneIsNothingElse DEF Empty, Index, Follows, Claims, Parses
<1>2. PICK loaded : loaded = loadScannedFile(Empty, disk, there)
  OBVIOUS
<1>3. /\ loaded \in Index /\ Follows(loaded)
      /\ \A p \in Paths : loaded.known[p] = IF p \in there THEN disk[p] ELSE Empty.known[p]
      /\ \A p \in Paths \ there : loaded.rows[p] = Empty.rows[p] /\ loaded.errors[p] = Empty.errors[p]
      /\ \A p \in there : Parses(disk[p]) => loaded.rows[p] = Issue(disk[p])
  BY <1>1, <1>2, Loaded DEF Files
<1>4. \A p \in Paths : loaded.known[p] = disk[p]
  BY <1>1, <1>3
<1>5. ASSUME NEW p \in Paths, loaded.rows[p] # None PROVE Claims(loaded, p)
  <2>1. disk[p] # None
    BY <1>1, <1>3, <1>5
  <2>2. loaded.known[p] = disk[p]
    BY <1>4
  <2> QED BY <1>3, <1>5, <2>1, <2>2 DEF Follows, Parses
<1>6. new = validateBoard(loaded)
  BY <1>2 DEF rebuildIndex
<1>7. /\ Sound(new) /\ new.known = loaded.known
      /\ \A p \in Paths : /\ Claims(new, p) <=> Claims(loaded, p)
                          /\ ~Claims(loaded, p) => new.rows[p] = loaded.rows[p]
  BY <1>3, <1>6, Validated
<1> QED BY <1>4, <1>5, <1>7 DEF Claims

-----------------------------------------------------------------------------
(* The events a pass owes.                                                 *)

(* One event of each of `paths`.                                           *)
Names(s, paths) ==
    /\ s \in Seq(Events)
    /\ \A i, j \in DOMAIN s : s[i].path = s[j].path => i = j
    /\ \A i \in DOMAIN s : s[i].path \in paths
    /\ \A p \in paths : \E i \in DOMAIN s : s[i].path = p

LEMMA ToldNames ==
    ASSUME NEW verb \in {"changed", "rekeyed", "deleted"}, NEW paths \in SUBSET Paths,
           NEW s, s = Told(verb, paths)
    PROVE  Names(s, paths) /\ \A i \in DOMAIN s : s[i].verb = verb
<1> DEFINE S == [verb: {verb}, path: paths]
           n == Cardinality(S)
<1>1. IsFiniteSet(S) /\ n \in Nat
  <2>1. IsFiniteSet(paths)
    BY ReconcileAssumption, FS_Subset
  <2>2. PICK f : f = [p \in paths |-> [verb |-> verb, path |-> p]]
    OBVIOUS
  <2>3. f \in [paths -> S] /\ \A t \in S : \E p \in paths : f[p] = t
    BY <2>2
  <2>4. f \in Surjection(paths, S)
    BY <2>3 DEF Surjection
  <2>5. IsFiniteSet(S)
    BY <2>1, <2>4, FS_Surjection
  <2> QED BY <2>5, FS_CardinalityType
<1> HIDE DEF n
<1>2. \E f \in [1..n -> S] : IsInjective(f)
  <2>1. ExistsBijection(1..n, S)
    BY <1>1, FS_CardinalityType DEF n
  <2> QED BY <2>1 DEF ExistsBijection, Bijection, Injection
<1>3. s = CHOOSE f \in [1..n -> S] : IsInjective(f)
  BY DEF Told, SetToSeq, n
<1>4. s \in [1..n -> S] /\ IsInjective(s)
  BY <1>2, <1>3
<1>5. \A t \in S : \E i \in 1..n : s[i] = t
  <2>1. IsFiniteSet(1..n) /\ Cardinality(1..n) = n
    BY <1>1, FS_Interval
  <2>2. s \in Injection(1..n, S)
    BY <1>4 DEF Injection
  <2>3. s \in Surjection(1..n, S)
    BY <1>1, <2>1, <2>2, FS_Injection DEF n
  <2> QED BY <2>3 DEF Surjection
<1>7. DOMAIN s = 1..n /\ \A i \in DOMAIN s : s[i] \in S
  BY <1>4
<1>8. S \subseteq Events
  BY DEF Events
<1>9. s \in Seq(Events)
  BY <1>1, <1>4, <1>8
<1>10. ASSUME NEW i \in DOMAIN s, NEW j \in DOMAIN s, s[i].path = s[j].path PROVE i = j
  BY <1>4, <1>7, <1>10 DEF IsInjective
<1>11. ASSUME NEW p \in paths PROVE \E i \in DOMAIN s : s[i].path = p
  <2>1. [verb |-> verb, path |-> p] \in S
    OBVIOUS
  <2>2. PICK i \in 1..n : s[i] = [verb |-> verb, path |-> p]
    BY <1>5, <2>1
  <2> QED BY <1>7, <2>2
<1>12. \A i \in DOMAIN s : s[i].path \in paths /\ s[i].verb = verb
  BY <1>7
<1> QED BY <1>9, <1>10, <1>11, <1>12 DEF Names

Within(u, s, t) ==
    \A i \in DOMAIN u : (\E j \in DOMAIN s : u[i] = s[j]) \/ (\E j \in DOMAIN t : u[i] = t[j])
Keeps(u, s) == \A j \in DOMAIN s : \E i \in DOMAIN u : u[i] = s[j]

LEMMA Joined ==
    ASSUME NEW P, NEW Q, NEW R, R = P \cup Q, \A p \in P : p \notin Q,
           NEW s, NEW t, Names(s, P), Names(t, Q), NEW u, u = s \o t
    PROVE  /\ Names(u, R)
           /\ Within(u, s, t) /\ Keeps(u, s)
<1>1. s \in Seq(Events) /\ t \in Seq(Events)
  BY DEF Names
<1>2. /\ u \in Seq(Events) /\ Len(u) = Len(s) + Len(t) /\ Len(s) \in Nat /\ Len(t) \in Nat
      /\ \A i \in 1..(Len(s) + Len(t)) : u[i] = IF i <= Len(s) THEN s[i] ELSE t[i - Len(s)]
  BY <1>1, ConcatProperties, LenProperties
<1>3. DOMAIN s = 1..Len(s) /\ DOMAIN t = 1..Len(t) /\ DOMAIN u = 1..(Len(s) + Len(t))
  BY <1>1, <1>2, LenProperties
<1>4. ASSUME NEW i \in DOMAIN u
      PROVE  \/ i \in DOMAIN s /\ u[i] = s[i]
             \/ i - Len(s) \in DOMAIN t /\ u[i] = t[i - Len(s)] /\ i \notin DOMAIN s
  BY <1>2, <1>3
<1>5. \A j \in DOMAIN s : j \in DOMAIN u /\ u[j] = s[j]
  BY <1>2, <1>3
<1>6. \A j \in DOMAIN t : j + Len(s) \in DOMAIN u /\ u[j + Len(s)] = t[j]
  BY <1>2, <1>3
<1>7. ASSUME NEW i \in DOMAIN u, NEW j \in DOMAIN u, u[i].path = u[j].path PROVE i = j
  <2>1. CASE i \in DOMAIN s /\ j \in DOMAIN s
    BY <1>5, <1>7, <2>1 DEF Names
  <2>2. CASE i \notin DOMAIN s /\ j \notin DOMAIN s
    <3>1. i - Len(s) = j - Len(s)
      BY <1>4, <1>7, <2>2 DEF Names
    <3> QED BY <1>2, <1>3, <3>1
  <2>3. CASE ~(i \in DOMAIN s <=> j \in DOMAIN s)
    BY <1>4, <1>7, <2>3 DEF Names
  <2> QED BY <2>1, <2>2, <2>3
<1>8. \A i \in DOMAIN u : u[i].path \in P \cup Q
  BY <1>4 DEF Names
<1>9. \A p \in P \cup Q : \E i \in DOMAIN u : u[i].path = p
  <2>1. ASSUME NEW p \in P PROVE \E i \in DOMAIN u : u[i].path = p
    <3>1. PICK j \in DOMAIN s : s[j].path = p
      BY DEF Names
    <3> QED BY <1>5, <3>1
  <2>2. ASSUME NEW p \in Q PROVE \E i \in DOMAIN u : u[i].path = p
    <3>1. PICK j \in DOMAIN t : t[j].path = p
      BY DEF Names
    <3> QED BY <1>6, <3>1
  <2> QED BY <2>1, <2>2
<1>10. Names(u, R)
  BY <1>2, <1>7, <1>8, <1>9 DEF Names
<1>11. Within(u, s, t)
  BY <1>4 DEF Within
<1>12. Keeps(u, s)
  BY <1>5 DEF Keeps
<1> QED BY <1>10, <1>11, <1>12

(* What a full pass owes: a change of every file that is new, and of       *)
(* nothing else; and that some file has gone, which it has.                *)
FullOwed(idx) ==
    Told("changed", hashChanged(idx)) \o Told("rekeyed", renamed(idx))
        \o Told("deleted", tombstoned(idx))
LEMMA FullOwes ==
    ASSUME Files, now \in Nat, NEW idx, Known(idx), NEW new, new = fullReconcile(idx),
           NEW s, s = FullOwed(idx)
    PROVE  /\ s \in Seq(Events)
           /\ \A i, j \in DOMAIN s : s[i].path = s[j].path => i = j
           /\ \A i \in DOMAIN s : IF s[i].verb = "changed" THEN s[i].path \in hashChanged(idx)
                                  ELSE new.known[s[i].path] = None
           /\ \A p \in hashChanged(idx) : \E i \in DOMAIN s : s[i].path = p /\ s[i].verb = "changed"
<1>1. PICK a, b, c : a = Told("changed", hashChanged(idx)) /\ b = Told("rekeyed", renamed(idx))
                     /\ c = Told("deleted", tombstoned(idx))
  OBVIOUS
<1>2. PICK A, B, C \in SUBSET Paths :
          A = hashChanged(idx) /\ B = renamed(idx) /\ C = tombstoned(idx)
  BY DEF hashChanged, renamed, tombstoned, Vanished
<1>3. /\ \A p \in A : disk[p] # None
      /\ \A p \in B : disk[p] = None /\ new.rows[p] = None
      /\ \A p \in C : disk[p] = None /\ new.rows[p] # None
  BY <1>2 DEF hashChanged, renamed, tombstoned, Vanished
<1>4. \A p \in B \cup C : new.known[p] = None
  BY <1>2, <1>3, Reconciled
<1>5. /\ Names(a, A) /\ \A i \in DOMAIN a : a[i].verb = "changed"
      /\ Names(b, B) /\ \A i \in DOMAIN b : b[i].verb = "rekeyed"
      /\ Names(c, C) /\ \A i \in DOMAIN c : c[i].verb = "deleted"
  BY <1>1, <1>2, ToldNames
<1>6. PICK ab, AB : ab = a \o b /\ AB = A \cup B
  OBVIOUS
<1>7. (\A p \in A : p \notin B) /\ (\A p \in AB : p \notin C)
  BY <1>3, <1>6
<1>8. /\ Names(ab, AB)
      /\ Within(ab, a, b) /\ Keeps(ab, a)
  <2>1. Names(a, A) /\ Names(b, B)
    BY <1>5
  <2> QED BY <1>6, <1>7, <2>1, Joined
<1>9. PICK ABC : s = ab \o c /\ ABC = AB \cup C
  BY <1>1, <1>6 DEF FullOwed
<1>10. /\ Names(s, ABC)
       /\ Within(s, ab, c) /\ Keeps(s, ab)
  <2>1. Names(ab, AB) /\ Names(c, C)
    BY <1>5, <1>8
  <2>2. ABC = AB \cup C
    BY <1>9
  <2> QED BY <1>7, <1>9, <2>1, <2>2, Joined
<1>11. ASSUME NEW i \in DOMAIN s
       PROVE  \/ \E j \in DOMAIN a : s[i] = a[j]
              \/ \E j \in DOMAIN b : s[i] = b[j]
              \/ \E j \in DOMAIN c : s[i] = c[j]
  <2>1. CASE \E j \in DOMAIN ab : s[i] = ab[j]
    <3>1. PICK j \in DOMAIN ab : s[i] = ab[j]
      BY <2>1
    <3>2. \/ \E k \in DOMAIN a : ab[j] = a[k]
          \/ \E k \in DOMAIN b : ab[j] = b[k]
      BY <1>8 DEF Within
    <3> QED BY <3>1, <3>2
  <2> QED BY <1>10, <2>1 DEF Within
<1>12. ASSUME NEW i \in DOMAIN s
       PROVE  IF s[i].verb = "changed" THEN s[i].path \in A ELSE new.known[s[i].path] = None
  <2>1. CASE \E j \in DOMAIN a : s[i] = a[j]
    BY <1>5, <2>1 DEF Names
  <2>2. CASE \E j \in DOMAIN b : s[i] = b[j]
    <3>1. s[i].path \in B /\ s[i].verb = "rekeyed"
      BY <1>5, <2>2 DEF Names
    <3> QED BY <1>4, <3>1
  <2>3. CASE \E j \in DOMAIN c : s[i] = c[j]
    <3>1. s[i].path \in C /\ s[i].verb = "deleted"
      BY <1>5, <2>3 DEF Names
    <3> QED BY <1>4, <3>1
  <2> QED BY <1>11, <2>1, <2>2, <2>3
<1>13. ASSUME NEW p \in A
       PROVE  \E i \in DOMAIN s : s[i].path = p /\ s[i].verb = "changed"
  <2>1. PICK k \in DOMAIN a : a[k].path = p /\ a[k].verb = "changed"
    BY <1>5 DEF Names
  <2>2. PICK j \in DOMAIN ab : ab[j] = a[k]
    BY <1>8 DEF Keeps
  <2>3. PICK i \in DOMAIN s : s[i] = ab[j]
    BY <1>10 DEF Keeps
  <2> QED BY <2>1, <2>2, <2>3
<1> QED BY <1>2, <1>10, <1>12, <1>13 DEF Names

-----------------------------------------------------------------------------
(* The invariant.                                                          *)

LEMMA Starts == Init => ReconInv
<1> SUFFICES ASSUME Init PROVE ReconInv
  OBVIOUS
<1>1. Files /\ index = rebuildIndex
  BY DEF Init, Files
<1>2. Sound(index) /\ \A p \in Paths : index.known[p] = disk[p]
  BY <1>1, Rebuilt
<1>3. TypeOK
  <2>1. disk \in [Paths -> Contents \cup {None}] /\ index \in Index
    BY <1>1, <1>2 DEF Files, Sound, Known
  <2>2. now \in 0..MaxTime
    BY ReconcileAssumption DEF Init
  <2>3. /\ touched = {} /\ server = "up" /\ hint = None /\ queue = <<>> /\ running = None
        /\ owed = <<>> /\ rejected = FALSE /\ told = disk /\ lost = {} /\ unseen = {}
        /\ strayed = {}
        /\ news = [p \in Paths |-> 0]
    BY DEF Init
  <2>4. news \in [Paths -> Int] /\ told \in [Paths -> Contents \cup {None}]
    BY <2>1, <2>3
  <2>5. queue \in Seq(Passes) /\ owed \in Seq(Events)
    BY <2>3
  <2> QED BY <2>1, <2>2, <2>3, <2>4, <2>5 DEF TypeOK
<1>4. Owing
  BY DEF Init, Owing
<1>5. Counted
  BY <1>2 DEF Init, Counted, Unread, Pending
<1>6. Reported
  BY <1>2 DEF Init, Reported
<1>7. Hinted
  BY <1>2 DEF Init, Hinted, OutOfStep
<1>8. Known(index) /\ CheckedBut(index, strayed)
  BY <1>2, PassLeavesNoDoubt DEF Init
<1> QED BY <1>3, <1>4, <1>5, <1>6, <1>7, <1>8 DEF ReconInv

(* Files change: only those may come to be unread, and each is counted.    *)
LEMMA EditKeeps ==
    ASSUME ReconInv, NEW paths \in SUBSET Paths, NEW files \in [Paths -> Contents \cup {None}],
           \A p \in Paths \ paths : files[p] = disk[p],
           NEW stat \in BOOLEAN, Edited(paths, files, stat)
    PROVE  ReconInv'
<1>1. /\ disk' = files /\ index' = index /\ owed' = owed /\ running' = running /\ told' = told
      /\ lost' = lost /\ strayed' = strayed /\ server' = server /\ queue' = queue /\ now' = now /\ rejected' = rejected
      /\ touched' = IF stat THEN touched \cup paths ELSE touched
      /\ news' = [p \in Paths |-> news[p] + (IF p \in paths THEN 1 ELSE 0)]
  BY DEF Edited, passes
<1>2. PICK h \in {None, "incremental", "full"} :
          /\ hint' = Stronger(hint, h)
          /\ unseen' = IF h = None THEN unseen \cup paths ELSE unseen \ paths
  BY DEF Edited
<1>3. /\ hint' \in {None, "incremental", "full"}
      /\ hint # None \/ h # None => hint' # None
  BY <1>2, NoneIsNothingElse DEF ReconInv, TypeOK, Stronger, Passes
<1>4. TypeOK'
  BY <1>1, <1>2, <1>3 DEF ReconInv, TypeOK
<1>5. Known(index)' /\ CheckedBut(index, strayed)' /\ Owing'
  BY <1>1 DEF ReconInv, Owing
<1>6. Counted'
  <2>1. SUFFICES ASSUME NEW p \in Paths
                 PROVE  news'[p] >= (IF Unread(p)' THEN 1 ELSE 0) + (IF Pending(p)' THEN 1 ELSE 0)
    BY DEF Counted
  <2>2. news[p] >= (IF Unread(p) THEN 1 ELSE 0) + (IF Pending(p) THEN 1 ELSE 0) /\ news[p] \in Int
    BY DEF ReconInv, Counted, TypeOK
  <2>3. Pending(p)' <=> Pending(p)
    BY <1>1 DEF Pending
  <2>4. p \notin paths => (Unread(p)' <=> Unread(p))
    BY <1>1 DEF Unread
  <2>5. news'[p] = news[p] + (IF p \in paths THEN 1 ELSE 0)
    BY <1>1
  <2> QED BY <2>2, <2>3, <2>4, <2>5
<1>7. Reported'
  BY <1>1 DEF ReconInv, Reported, Pending
<1>8. Hinted'
  <2>1. CASE server = "down" \/ hint # None \/ queue # <<>> \/ h # None
    BY <1>1, <1>3, <2>1 DEF Hinted
  <2>2. CASE OutOfStep(index, disk) \subseteq unseen /\ h = None
    BY <1>1, <1>2, <2>2 DEF Hinted, OutOfStep
  <2> QED BY <2>1, <2>2 DEF ReconInv, Hinted
<1> QED BY <1>4, <1>5, <1>6, <1>7, <1>8 DEF ReconInv

LEMMA OutsideKeeps == ReconInv /\ Outside => ReconInv'
<1> SUFFICES ASSUME ReconInv, Outside PROVE ReconInv'
  OBVIOUS
<1>1. disk \in [Paths -> Contents \cup {None}]
  BY DEF ReconInv, TypeOK
<1>2. ASSUME NEW p \in Paths, NEW c \in Contents, Put(p, c) PROVE ReconInv'
  <2>1. PICK files : files = [disk EXCEPT ![p] = c]
    OBVIOUS
  <2>2. files \in [Paths -> Contents \cup {None}] /\ \A q \in Paths \ {p} : files[q] = disk[q]
    BY <1>1, <2>1
  <2> QED BY <1>2, <2>1, <2>2, EditKeeps DEF Put
<1>3. ASSUME NEW p \in Paths, NEW c \in Contents, PutUnseenByStat(p, c) PROVE ReconInv'
  <2>1. PICK files : files = [disk EXCEPT ![p] = c]
    OBVIOUS
  <2>2. files \in [Paths -> Contents \cup {None}] /\ \A q \in Paths \ {p} : files[q] = disk[q]
    BY <1>1, <2>1
  <2> QED BY <1>3, <2>1, <2>2, EditKeeps DEF PutUnseenByStat
<1>4. ASSUME NEW p \in Paths, Delete(p) PROVE ReconInv'
  <2>1. PICK files : files = [disk EXCEPT ![p] = None]
    OBVIOUS
  <2>2. files \in [Paths -> Contents \cup {None}] /\ \A q \in Paths \ {p} : files[q] = disk[q]
    BY <1>1, <2>1
  <2> QED BY <1>4, <2>1, <2>2, EditKeeps DEF Delete
<1>5. ASSUME NEW p \in Paths, NEW q \in Paths, Rename(p, q) PROVE ReconInv'
  <2>1. PICK files : files = [disk EXCEPT ![p] = None, ![q] = disk[p]]
    OBVIOUS
  <2>2. files \in [Paths -> Contents \cup {None}] /\ \A o \in Paths \ {p, q} : files[o] = disk[o]
    BY <1>1, <2>1
  <2> QED BY <1>5, <2>1, <2>2, EditKeeps DEF Rename
<1>6. ASSUME Tick PROVE ReconInv'
  <2>1. now' = now + 1 /\ now < MaxTime
        /\ UNCHANGED <<disk, touched, index, server, hint, queue, running, owed, rejected,
                       told, news, lost, unseen, strayed>>
    BY <1>6 DEF Tick, passes, history
  <2>2. TypeOK'
    BY <2>1, ReconcileAssumption DEF ReconInv, TypeOK
  <2>3. Known(index)' /\ CheckedBut(index, strayed)' /\ Owing' /\ Counted' /\ Reported' /\ Hinted'
    BY <2>1 DEF ReconInv, Owing, Counted, Unread, Reported, Pending, Hinted
  <2> QED BY <2>2, <2>3 DEF ReconInv
<1> QED BY <1>2, <1>3, <1>4, <1>5, <1>6 DEF Outside

LEMMA QueueKeeps == ReconInv /\ (fire \/ verifyRoute \/ Skip \/ Finish) => ReconInv'
<1>1. ASSUME ReconInv, fire PROVE ReconInv'
  <2>1. /\ hint \in Passes /\ queue' = Append(queue, hint) /\ hint' = None
        /\ UNCHANGED <<disk, touched, index, now, server, running, owed, rejected,
                       told, news, lost, unseen, strayed>>
    BY <1>1 DEF fire, history, ReconInv, TypeOK, Passes
  <2>2. queue' \in Seq(Passes) /\ queue' # <<>>
    BY <1>1, <2>1, AppendProperties DEF ReconInv, TypeOK
  <2>3. TypeOK'
    BY <1>1, <2>1, <2>2 DEF ReconInv, TypeOK
  <2> QED BY <1>1, <2>1, <2>2, <2>3
          DEF ReconInv, Owing, Counted, Unread, Reported, Pending, Hinted
<1>2. ASSUME ReconInv, verifyRoute PROVE ReconInv'
  <2>1. /\ queue' = Append(queue, "manual") /\ "manual" \in Passes
        /\ UNCHANGED <<disk, touched, index, now, server, hint, running, owed, rejected,
                       told, news, lost, unseen, strayed>>
    BY <1>2 DEF verifyRoute, history, Passes
  <2>2. queue' \in Seq(Passes) /\ queue' # <<>>
    BY <1>2, <2>1, AppendProperties DEF ReconInv, TypeOK
  <2>3. TypeOK'
    BY <1>2, <2>1, <2>2 DEF ReconInv, TypeOK
  <2> QED BY <1>2, <2>1, <2>2, <2>3
          DEF ReconInv, Owing, Counted, Unread, Reported, Pending, Hinted
<1>3. ASSUME ReconInv, Skip PROVE ReconInv'
  <2>1. /\ queue # <<>> /\ queue' = Tail(queue) /\ rejected' = FALSE
        /\ unseen' = unseen \cup OutOfStep(index, disk)
        /\ UNCHANGED <<disk, touched, index, now, server, hint, running, owed, told, news, lost, strayed>>
    BY <1>3 DEF Skip, Ready
  <2>2. queue' \in Seq(Passes)
    BY <1>3, <2>1, HeadTailProperties DEF ReconInv, TypeOK
  <2>3. TypeOK'
    BY <1>3, <2>1, <2>2 DEF ReconInv, TypeOK, OutOfStep
  <2>4. Hinted'
    BY <2>1 DEF Hinted, OutOfStep
  <2> QED BY <1>3, <2>1, <2>3, <2>4 DEF ReconInv, Owing, Counted, Unread, Reported, Pending
<1>4. ASSUME ReconInv, Finish PROVE ReconInv'
  <2>1. /\ running # None /\ owed = <<>> /\ running' = None /\ rejected' = FALSE /\ server' = "up"
        /\ UNCHANGED <<disk, touched, index, now, hint, queue, owed, told, news, lost, unseen, strayed>>
    BY <1>4 DEF Finish, history
  <2>2. TypeOK'
    BY <1>4, <2>1 DEF ReconInv, TypeOK
  <2>3. Hinted'
    BY <1>4, <2>1 DEF ReconInv, Hinted, Owing
  <2> QED BY <1>4, <2>1, <2>2, <2>3 DEF ReconInv, Owing, Counted, Unread, Reported, Pending
<1> QED BY <1>1, <1>2, <1>3, <1>4

(* A pass takes in what it will report, and nothing else that is there.    *)
LEMMA BeginKeeps ==
    ASSUME ReconInv, Begin
    PROVE  ReconInv' /\ Buried(index, index') /\ Stands(index, index')
<1>1. /\ queue # <<>> /\ running = None /\ running' = Head(queue) /\ queue' = Tail(queue)
      /\ server # "down" /\ touched' = {} /\ strayed' = {}
      /\ UNCHANGED <<disk, now, server, hint, rejected, told, news, lost>>
  BY DEF Begin, Ready
<1>2. Files /\ now \in Nat /\ touched \subseteq Paths /\ Known(index)
  BY ReconcileAssumption DEF ReconInv, TypeOK, Files
<1>3. running' \in Passes /\ running' # None /\ queue' \in Seq(Passes)
  BY <1>1, HeadTailProperties, NoneIsNothingElse DEF ReconInv, TypeOK
<1>4. owed = <<>> /\ \A p \in Paths : ~Pending(p)
  BY <1>1 DEF ReconInv, Owing, Pending
<1>5. PICK new, events, changed, missed :
          /\ new = index' /\ events = owed' /\ missed = unseen'
          /\ changed = IF Head(queue) = "incremental" THEN statChanged(index) ELSE hashChanged(index)
  OBVIOUS
<1>6. /\ Sound(new) /\ Buried(index, new) /\ Stands(index, new)
      /\ changed \subseteq {p \in Paths : Unread(p)}
      /\ \A p \in changed : new.known[p] = disk[p]
      /\ \A p \in Paths \ changed : new.known[p] \in {None, index.known[p]}
      /\ \A p \in Paths : disk[p] \notin {None, new.known[p]} => Unread(p)
      /\ OutOfStep(new, disk) \subseteq missed /\ missed \subseteq Paths
      /\ events \in Seq(Events)
      /\ \A i, j \in DOMAIN events : events[i].path = events[j].path => i = j
      /\ \A i \in DOMAIN events : IF events[i].verb = "changed" THEN events[i].path \in changed
                                  ELSE new.known[events[i].path] = None
      /\ \A p \in changed : \E i \in DOMAIN events : events[i].path = p /\ events[i].verb = "changed"
  <2>1. CASE Head(queue) = "incremental"
    <3>1. /\ changed = statChanged(index) /\ events = Told("changed", changed)
          /\ new = incrementalSync(index) /\ missed = OutOfStep(new, disk) \ touched
      BY <1>5, <2>1 DEF Begin, reconcileExternal
    <3>2. /\ Sound(new) /\ Buried(index, new) /\ Stands(index, new)
          /\ \A p \in Paths : /\ p \in changed => new.known[p] = disk[p]
                              /\ p \notin changed =>
                                     new.known[p] = IF disk[p] = None THEN None ELSE index.known[p]
      BY <1>2, <3>1, Synced
    <3>3. changed \in SUBSET Paths /\ \A p \in changed : Unread(p)
      BY <1>2, <3>1 DEF statChanged, Unread
    <3>4. Names(events, changed) /\ \A i \in DOMAIN events : events[i].verb = "changed"
      BY <3>1, <3>3, ToldNames
    <3>5. ASSUME NEW p \in touched, p \notin changed PROVE disk[p] \in {None, index.known[p]}
      BY <3>1, <3>5 DEF statChanged
    <3>6. ASSUME NEW p \in OutOfStep(new, disk) PROVE p \in missed
      BY <3>1, <3>2, <3>5, <3>6 DEF OutOfStep
    <3>7. \A p \in Paths : disk[p] \notin {None, new.known[p]} => Unread(p)
      BY <3>2 DEF Unread
    <3>8. missed \subseteq Paths
      BY <3>1 DEF OutOfStep
    <3> QED BY <3>2, <3>3, <3>4, <3>6, <3>7, <3>8 DEF Names
  <2>2. CASE Head(queue) # "incremental"
    <3>1. /\ changed = hashChanged(index) /\ new = fullReconcile(index) /\ missed = {}
          /\ events = FullOwed(index)
      BY <1>5, <2>2 DEF Begin, reconcileFull, FullOwed
    <3>2. /\ Sound(new) /\ Buried(index, new) /\ Stands(index, new)
          /\ \A p \in Paths : new.known[p] = disk[p]
      BY <1>2, <3>1, Reconciled
    <3>3. /\ events \in Seq(Events)
          /\ \A i, j \in DOMAIN events : events[i].path = events[j].path => i = j
          /\ \A i \in DOMAIN events : IF events[i].verb = "changed" THEN events[i].path \in changed
                                      ELSE new.known[events[i].path] = None
          /\ \A p \in changed : \E i \in DOMAIN events :
                 events[i].path = p /\ events[i].verb = "changed"
      BY <1>2, <3>1, FullOwes
    <3>4. /\ changed \in SUBSET Paths /\ \A p \in changed : Unread(p)
          /\ \A p \in Paths \ changed : disk[p] \in {None, index.known[p]}
      BY <3>1 DEF hashChanged, Unread
    <3>5. OutOfStep(new, disk) = {}
      BY <3>2 DEF OutOfStep
    <3> QED BY <3>1, <3>2, <3>3, <3>4, <3>5
  <2> QED BY <2>1, <2>2
<1>7. TypeOK'
  BY <1>1, <1>3, <1>5, <1>6 DEF ReconInv, TypeOK, Sound, Known
<1>8. Known(index)' /\ CheckedBut(index, strayed)'
  <2>1. Known(new) /\ CheckedBut(new, {})
    BY <1>6, PassLeavesNoDoubt
  <2> QED BY <1>1, <1>5, <2>1
<1>9. Owing'
  BY <1>1, <1>3, <1>5, <1>6 DEF Owing
<1>10. \A p \in Paths : Pending(p)' <=> p \in changed
  BY <1>5, <1>6 DEF Pending
<1>11. Counted'
  <2>1. SUFFICES ASSUME NEW p \in Paths
                 PROVE  news'[p] >= (IF Unread(p)' THEN 1 ELSE 0) + (IF Pending(p)' THEN 1 ELSE 0)
    BY DEF Counted
  <2>2. news'[p] = news[p] /\ news[p] \in Int /\ news[p] >= (IF Unread(p) THEN 1 ELSE 0)
    BY <1>1, <1>4 DEF ReconInv, Counted, TypeOK
  <2>3. Unread(p)' <=> disk[p] \notin {None, new.known[p]}
    BY <1>1, <1>5 DEF Unread
  <2>4. p \in changed => ~Unread(p)' /\ Unread(p)
    BY <1>6, <2>3
  <2>5. Unread(p)' => Unread(p)
    BY <1>6, <2>3
  <2> QED BY <1>10, <2>2, <2>4, <2>5
<1>12. Reported'
  BY <1>1, <1>4, <1>5, <1>6, <1>10 DEF ReconInv, Reported
<1>13. Hinted'
  BY <1>1, <1>5, <1>6 DEF Hinted
<1> QED BY <1>5, <1>6, <1>7, <1>8, <1>9, <1>11, <1>12, <1>13 DEF ReconInv

(* An event is written of the path that owes it; no other owes it too.     *)
LEMMA RecordKeeps == ASSUME ReconInv, record_ PROVE ReconInv'
<1>1. PICK e : e = Head(owed)
  OBVIOUS
<1>2. PICK said, gone : said = told' /\ gone = lost'
  OBVIOUS
<1>3. /\ owed # <<>> /\ owed' = Tail(owed)
      /\ said = [told EXCEPT ![e.path] = IF e.verb = "changed" THEN index.known[e.path] ELSE None]
      /\ news' = [news EXCEPT ![e.path] = @ - (IF e.verb = "changed" THEN 1 ELSE 0)]
      /\ gone = IF said[e.path] = index.known[e.path] THEN lost \ {e.path} ELSE lost
      /\ UNCHANGED <<disk, touched, index, now, server, hint, queue, running, rejected, unseen,
                     strayed>>
  BY <1>1, <1>2 DEF record_
<1>4. /\ owed \in Seq(Events) /\ lost \subseteq Paths /\ told \in [Paths -> Contents \cup {None}]
      /\ news \in [Paths -> Int] /\ index \in Index
  BY DEF ReconInv, TypeOK
<1>5. /\ e = owed[1] /\ 1 \in DOMAIN owed /\ e.path \in Paths
      /\ owed' \in Seq(Events) /\ Len(owed') = Len(owed) - 1 /\ Len(owed) \in Nat
      /\ DOMAIN owed = 1..Len(owed) /\ DOMAIN owed' = 1..Len(owed')
      /\ \A i \in DOMAIN owed' : i + 1 \in DOMAIN owed /\ owed'[i] = owed[i + 1]
  <2>1. /\ owed' \in Seq(Events) /\ Len(owed') = Len(owed) - 1 /\ e \in Events
        /\ \A i \in 1..Len(owed') : owed'[i] = owed[i + 1]
    BY <1>1, <1>3, <1>4, HeadTailProperties
  <2>2. /\ Len(owed) \in Nat \ {0} /\ DOMAIN owed = 1..Len(owed) /\ DOMAIN owed' = 1..Len(owed')
    BY <1>3, <1>4, <2>1, LenProperties, EmptySeq
  <2> QED BY <1>1, <1>3, <1>4, <2>1, <2>2 DEF Events
<1>6. \A i, j \in DOMAIN owed : owed[i].path = owed[j].path => i = j
  BY DEF ReconInv, Owing
<1>7. \A i \in DOMAIN owed' : owed'[i].path # e.path
  BY <1>5, <1>6
<1>8. \A i, j \in DOMAIN owed' : owed'[i].path = owed'[j].path => i = j
  <2>1. SUFFICES ASSUME NEW i \in DOMAIN owed', NEW j \in DOMAIN owed', owed'[i].path = owed'[j].path
                 PROVE  i = j
    OBVIOUS
  <2>2. i + 1 = j + 1
    BY <1>5, <1>6, <2>1
  <2> QED BY <1>5, <2>2
<1>9. said \in [Paths -> Contents \cup {None}] /\ news' \in [Paths -> Int] /\ gone \subseteq Paths
  BY <1>3, <1>4, <1>5, IndexParts
<1>10. TypeOK'
  BY <1>2, <1>3, <1>5, <1>9 DEF ReconInv, TypeOK
<1>11. Known(index)' /\ CheckedBut(index, strayed)' /\ Hinted'
  BY <1>3 DEF ReconInv, Hinted
<1>12. Owing'
  <2>1. ASSUME NEW i \in DOMAIN owed', owed'[i].verb # "changed"
        PROVE  index.known[owed'[i].path] = None \/ owed'[i].path \in gone
    <3>1. index.known[owed'[i].path] = None \/ owed'[i].path \in lost
      BY <1>5, <2>1 DEF ReconInv, Owing
    <3> QED BY <1>3, <1>7, <3>1
  <2>2. (server' = "down" => running' = None) /\ (owed' # <<>> => running' # None)
    BY <1>3 DEF ReconInv, Owing
  <2> QED BY <1>2, <1>3, <1>8, <2>1, <2>2 DEF Owing
<1>13. ASSUME NEW p \in Paths
       PROVE  Pending(p)' <=> Pending(p) /\ p # e.path
  <2>1. Pending(p)' => Pending(p) /\ p # e.path
    BY <1>5, <1>7 DEF Pending
  <2>2. ASSUME Pending(p), p # e.path PROVE Pending(p)'
    <3>1. PICK i \in DOMAIN owed : owed[i].path = p /\ owed[i].verb = "changed"
      BY <2>2 DEF Pending
    <3>2. i # 1
      BY <1>5, <2>2, <3>1
    <3>3. i - 1 \in DOMAIN owed' /\ owed'[i - 1] = owed[i]
      BY <1>5, <3>2
    <3> QED BY <3>1, <3>3 DEF Pending
  <2> QED BY <2>1, <2>2
<1>14. Counted'
  <2>1. SUFFICES ASSUME NEW p \in Paths
                 PROVE  news'[p] >= (IF Unread(p)' THEN 1 ELSE 0) + (IF Pending(p)' THEN 1 ELSE 0)
    BY DEF Counted
  <2>2. news[p] >= (IF Unread(p) THEN 1 ELSE 0) + (IF Pending(p) THEN 1 ELSE 0) /\ news[p] \in Int
    BY <1>4 DEF ReconInv, Counted
  <2>3. Unread(p)' <=> Unread(p)
    BY <1>3 DEF Unread
  <2>4. CASE p # e.path
    <3>1. news'[p] = news[p]
      BY <1>3, <1>4, <2>4
    <3> QED BY <1>13, <2>2, <2>3, <2>4, <3>1
  <2>5. CASE p = e.path
    <3>1. news'[p] = news[p] - (IF e.verb = "changed" THEN 1 ELSE 0)
      BY <1>3, <1>4, <2>5
    <3>2. e.verb = "changed" => Pending(p)
      BY <1>5, <2>5 DEF Pending
    <3> QED BY <1>13, <2>2, <2>3, <2>5, <3>1, <3>2
  <2> QED BY <2>4, <2>5
<1>15. Reported'
  <2>1. SUFFICES ASSUME NEW p \in Paths \ gone
                 PROVE  index.known[p] \in {None, said[p]} \/ Pending(p)'
    BY <1>2, <1>3 DEF Reported
  <2>2. CASE p # e.path
    BY <1>3, <1>4, <1>13, <2>1, <2>2 DEF ReconInv, Reported
  <2>3. CASE p = e.path
    <3>1. said[p] = IF e.verb = "changed" THEN index.known[p] ELSE None
      BY <1>3, <1>4, <2>3
    <3>2. e.verb # "changed" => index.known[p] = None \/ p \in lost
      BY <1>5, <2>3 DEF ReconInv, Owing
    <3>3. p \in lost => said[p] = index.known[p]
      BY <1>3, <2>1, <2>3
    <3> QED BY <3>1, <3>2, <3>3
  <2> QED BY <2>2, <2>3
<1> QED BY <1>10, <1>11, <1>12, <1>14, <1>15 DEF ReconInv

(* Nothing is owed any more, and what was is lost.                         *)
LEMMA LosingKeeps ==
    ASSUME ReconInv, running' = None, owed' = <<>>, rejected' \in BOOLEAN,
           server' \in {"down", "starting", "up"}, hint' \in {None, "incremental", "full"},
           queue' \in Seq(Passes), lost' = lost \cup {owed[i].path : i \in DOMAIN owed},
           unseen' \subseteq Paths, unseen \subseteq unseen',
           UNCHANGED <<disk, touched, index, now, told, news, strayed>>,
           \/ server' = "down" \/ OutOfStep(index, disk) \subseteq unseen'
           \/ UNCHANGED <<server, hint, queue>>
    PROVE  ReconInv'
<1>1. lost' \subseteq Paths
  <2>1. \A i \in DOMAIN owed : owed[i] \in Events
    BY DEF ReconInv, TypeOK
  <2> QED BY <2>1 DEF ReconInv, TypeOK, Events
<1>2. TypeOK'
  BY <1>1 DEF ReconInv, TypeOK
<1>3. Known(index)' /\ CheckedBut(index, strayed)' /\ Owing'
  BY DEF ReconInv, Owing
<1>4. \A p \in Paths : ~Pending(p)' /\ (Unread(p)' <=> Unread(p)) /\ (Pending(p) => p \in lost')
  BY DEF Pending, Unread
<1>5. Counted'
  <2>1. SUFFICES ASSUME NEW p \in Paths
                 PROVE  news'[p] >= (IF Unread(p)' THEN 1 ELSE 0) + (IF Pending(p)' THEN 1 ELSE 0)
    BY DEF Counted
  <2>2. news[p] >= (IF Unread(p) THEN 1 ELSE 0) + (IF Pending(p) THEN 1 ELSE 0) /\ news[p] \in Int
    BY DEF ReconInv, Counted, TypeOK
  <2> QED BY <1>4, <2>2
<1>6. Reported'
  BY <1>4 DEF ReconInv, Reported
<1>7. Hinted'
  BY DEF ReconInv, Hinted, OutOfStep
<1> QED BY <1>2, <1>3, <1>5, <1>6, <1>7 DEF ReconInv

LEMMA FailuresKeep == ReconInv /\ (RecordFails \/ PassFails \/ Crash) => ReconInv'
<1>1. ASSUME ReconInv, Stop, UNCHANGED <<disk, touched, index, now, told, news, strayed>>,
             unseen' = unseen
      PROVE  ReconInv'
  <2>1. <<>> \in Seq(Passes) /\ unseen \subseteq Paths
    BY <1>1 DEF ReconInv, TypeOK
  <2> QED BY <1>1, <2>1, LosingKeeps DEF Stop
<1>2. ASSUME ReconInv, RecordFails PROVE ReconInv'
  <2>1. /\ unseen' = unseen /\ UNCHANGED <<disk, touched, index, now, told, news, strayed>>
        /\ \/ Stop
           \/ /\ running' = None /\ owed' = <<>> /\ rejected' = TRUE
              /\ lost' = lost \cup {owed[i].path : i \in DOMAIN owed}
              /\ UNCHANGED <<server, hint, queue>>
    BY <1>2 DEF RecordFails, Throw
  <2>2. /\ unseen \subseteq Paths /\ queue \in Seq(Passes)
        /\ server \in {"down", "starting", "up"} /\ hint \in {None, "incremental", "full"}
    BY <1>2 DEF ReconInv, TypeOK
  <2>3. CASE Stop
    BY <1>1, <1>2, <2>1, <2>3
  <2>4. CASE ~Stop
    BY <1>2, <2>1, <2>2, <2>4, LosingKeeps
  <2> QED BY <2>3, <2>4
<1>3. ASSUME ReconInv, PassFails PROVE ReconInv'
  <2>1. /\ queue # <<>> /\ running = None /\ unseen' = unseen \cup OutOfStep(index, disk)
        /\ UNCHANGED <<disk, touched, index, now, running, owed, told, news, lost, strayed>>
        /\ \/ queue' = Tail(queue) /\ rejected' = TRUE /\ UNCHANGED <<server, hint>>
           \/ server' = "down" /\ hint' = None /\ queue' = <<>> /\ UNCHANGED rejected
    BY <1>3 DEF PassFails, Ready
  <2>2. owed = <<>> /\ lost' = lost \cup {owed[i].path : i \in DOMAIN owed}
    BY <1>3, <2>1 DEF ReconInv, Owing
  <2>3. queue' \in Seq(Passes) /\ rejected' \in BOOLEAN
        /\ server' \in {"down", "starting", "up"} /\ hint' \in {None, "incremental", "full"}
    <3>1. Tail(queue) \in Seq(Passes) /\ <<>> \in Seq(Passes)
      BY <1>3, <2>1, HeadTailProperties DEF ReconInv, TypeOK
    <3>2. rejected \in BOOLEAN /\ server \in {"down", "starting", "up"}
          /\ hint \in {None, "incremental", "full"}
      BY <1>3 DEF ReconInv, TypeOK
    <3>3. queue' \in Seq(Passes)
      BY <2>1, <3>1
    <3>4. rejected' \in BOOLEAN
      BY <2>1, <3>2
    <3> QED BY <2>1, <3>2, <3>3, <3>4
  <2>4. unseen' \subseteq Paths /\ unseen \subseteq unseen' /\ OutOfStep(index, disk) \subseteq unseen'
    BY <1>3, <2>1 DEF ReconInv, TypeOK, OutOfStep
  <2> QED BY <1>3, <2>1, <2>2, <2>3, <2>4, LosingKeeps
<1>4. ASSUME ReconInv, Crash PROVE ReconInv'
  <2>1. Stop /\ UNCHANGED <<disk, touched, index, now, told, news, unseen, strayed>>
    BY <1>4 DEF Crash
  <2> QED BY <1>1, <1>4, <2>1
<1> QED BY <1>2, <1>3, <1>4

(* The board is taken in and nothing is said of it.                        *)
LEMMA SilenceKeeps ==
    ASSUME ReconInv, NEW new, Silently(new), Sound(new),
           \A p \in Paths : disk[p] \notin {None, new.known[p]} => Unread(p),
           OutOfStep(new, disk) \cap touched = {},
           server' \in {"starting", "up"}, queue' \in Seq(Passes),
           UNCHANGED <<disk, now, hint, running, owed, rejected, told, news>>
    PROVE  ReconInv'
<1>1. /\ index' = new /\ touched' = {} /\ strayed' = {} /\ unseen' = OutOfStep(new, disk) \ touched
      /\ lost' = lost \cup {p \in Paths : new.known[p] # index.known[p]}
  BY DEF Silently
<1>2. TypeOK'
  BY <1>1 DEF ReconInv, TypeOK, Sound, Known, OutOfStep
<1>3. Known(index)' /\ CheckedBut(index, strayed)'
  BY <1>1, PassLeavesNoDoubt
<1>4. \A p \in Paths : (Pending(p)' <=> Pending(p)) /\ (Unread(p)' => Unread(p))
  BY <1>1 DEF Pending, Unread
<1>5. Owing'
  <2>1. ASSUME NEW i \in DOMAIN owed, owed[i].verb # "changed"
        PROVE  new.known[owed[i].path] = None \/ owed[i].path \in lost'
    <3>1. index.known[owed[i].path] = None \/ owed[i].path \in lost
      BY <2>1 DEF ReconInv, Owing
    <3>2. owed[i].path \in Paths
      <4>1. owed[i] \in Events
        BY DEF ReconInv, TypeOK
      <4> QED BY <4>1 DEF Events
    <3> QED BY <1>1, <3>1, <3>2
  <2> QED BY <1>1, <2>1 DEF ReconInv, Owing
<1>6. Counted'
  <2>1. SUFFICES ASSUME NEW p \in Paths
                 PROVE  news'[p] >= (IF Unread(p)' THEN 1 ELSE 0) + (IF Pending(p)' THEN 1 ELSE 0)
    BY DEF Counted
  <2>2. news[p] >= (IF Unread(p) THEN 1 ELSE 0) + (IF Pending(p) THEN 1 ELSE 0) /\ news[p] \in Int
    BY DEF ReconInv, Counted, TypeOK
  <2> QED BY <1>4, <2>2
<1>7. Reported'
  BY <1>1, <1>4 DEF ReconInv, Reported
<1>8. OutOfStep(new, disk) \subseteq unseen'
  BY <1>1
<1>9. Hinted'
  BY <1>1, <1>8 DEF Hinted
<1> QED BY <1>2, <1>3, <1>5, <1>6, <1>7, <1>9 DEF ReconInv

(* The two ways to take it in silently.                                    *)
LEMMA SilentSyncs ==
    ASSUME ReconInv, NEW new, new \in {incrementalSync(index), rebuildIndex}
    PROVE  /\ Sound(new) /\ OutOfStep(new, disk) \cap touched = {}
           /\ \A p \in Paths : disk[p] \notin {None, new.known[p]} => Unread(p)
           /\ Buried(index, new) /\ (Stands(index, new) \/ new = rebuildIndex)
<1>1. Files /\ now \in Nat /\ touched \subseteq Paths /\ Known(index)
  BY ReconcileAssumption DEF ReconInv, TypeOK, Files
<1>2. CASE new = incrementalSync(index)
  <2>1. /\ Sound(new) /\ Buried(index, new) /\ Stands(index, new)
        /\ \A p \in Paths : /\ p \in statChanged(index) => new.known[p] = disk[p]
                            /\ p \notin statChanged(index) =>
                                   new.known[p] = IF disk[p] = None THEN None ELSE index.known[p]
    BY <1>1, <1>2, Synced
  <2>2. ASSUME NEW p \in touched, p \in OutOfStep(new, disk) PROVE FALSE
    BY <1>1, <2>1, <2>2 DEF OutOfStep, statChanged
  <2>3. \A p \in Paths : disk[p] \notin {None, new.known[p]} => Unread(p)
    BY <2>1 DEF Unread
  <2> QED BY <2>1, <2>2, <2>3
<1>3. CASE new = rebuildIndex
  <2>1. /\ Sound(new)
        /\ \A p \in Paths : new.known[p] = disk[p] /\ (new.rows[p] # None => Claims(new, p))
    BY <1>1, <1>3, Rebuilt
  <2>2. Buried(index, new)
    BY <2>1 DEF Buried
  <2> QED BY <1>3, <2>1, <2>2 DEF OutOfStep
<1> QED BY <1>2, <1>3

LEMMA OpeningKeeps == ReconInv /\ (openBoard \/ createUser) => ReconInv'
<1>1. ASSUME ReconInv, openBoard PROVE ReconInv'
  <2>1. /\ server' = "starting" /\ queue' = <<"startup">>
        /\ UNCHANGED <<disk, now, hint, running, owed, rejected, told, news>>
    BY <1>1 DEF openBoard
  <2>2. PICK new \in {incrementalSync(index), rebuildIndex} : Silently(new)
    BY <1>1 DEF openBoard
  <2>3. queue' \in Seq(Passes)
    BY <2>1 DEF Passes
  <2> QED BY <1>1, <2>1, <2>2, <2>3, SilentSyncs, SilenceKeeps
<1>2. ASSUME ReconInv, createUser PROVE ReconInv'
  <2>1. /\ server' = "up" /\ queue' = queue
        /\ UNCHANGED <<disk, now, hint, running, owed, rejected, told, news>>
    BY <1>2 DEF createUser, passes
  <2>2. PICK new \in {incrementalSync(index), rebuildIndex} : Silently(new)
    BY <1>2 DEF createUser
  <2>3. queue' \in Seq(Passes)
    BY <1>2, <2>1 DEF ReconInv, TypeOK
  <2> QED BY <1>2, <2>1, <2>2, <2>3, SilentSyncs, SilenceKeeps
<1> QED BY <1>1, <1>2

(* A write of the server.                                                  *)
WriteTo(p, c) ==
    /\ applyFrom(p, c)
    /\ c \in Contents \cup {None} /\ (c = None => Shown(p)) /\ (index.rows[p] # None => Shown(p))
    /\ index.rows[p] = None => Parses(c)
                              /\ \A q \in Paths : index.rows[q] # None => index.rows[q].uid # c.uid

LEMMA WritesAre ==
    ASSUME ReconInv, Write
    PROVE  \E p \in Paths : \E c \in Contents \cup {None} : WriteTo(p, c)
<1>1. disk \in [Paths -> Contents \cup {None}]
  BY DEF ReconInv, TypeOK
<1>2. ASSUME NEW p \in Paths, NEW u \in Uids, NEW t \in Texts, createIssue(p, u, t)
      PROVE  \E c \in Contents \cup {None} : WriteTo(p, c)
  <2>1. PICK c : c = [uid |-> u, text |-> t]
    OBVIOUS
  <2>2. c \in Contents /\ Parses(c) /\ c.uid = u /\ c # None
    BY <2>1, NoneIsNothingElse DEF Contents
  <2>3. applyFrom(p, c)
    BY <1>2, <2>1 DEF createIssue
  <2>4. index.rows[p] = None /\ \A q \in Paths : index.rows[q] # None => index.rows[q].uid # u
    BY <1>2 DEF createIssue
  <2> QED BY <2>2, <2>3, <2>4 DEF WriteTo
<1>3. ASSUME NEW p \in Paths, NEW t \in Texts, updateIssue(p, t)
      PROVE  \E c \in Contents \cup {None} : WriteTo(p, c)
  <2>1. PICK c : c = IF Parses(disk[p]) THEN [disk[p] EXCEPT !.text = t] ELSE Broken
    OBVIOUS
  <2>2. Shown(p) /\ disk[p] # None /\ applyFrom(p, c)
    BY <1>3, <2>1 DEF updateIssue
  <2>3. c \in Contents /\ c # None
    <3>1. CASE Parses(disk[p])
      <4>1. disk[p] \in [uid: Uids, text: Texts]
        BY <1>1, <3>1, NoneIsNothingElse
      <4>2. [disk[p] EXCEPT !.text = t] \in [uid: Uids, text: Texts]
        BY <4>1
      <4> QED BY <2>1, <3>1, <4>2, NoneIsNothingElse DEF Contents
    <3>2. CASE ~Parses(disk[p])
      BY <2>1, <3>2, NoneIsNothingElse DEF Contents
    <3> QED BY <3>1, <3>2
  <2> QED BY <2>2, <2>3 DEF WriteTo, Shown
<1>4. ASSUME NEW p \in Paths, deleteIssue(p)
      PROVE  \E c \in Contents \cup {None} : WriteTo(p, c)
  <2>1. Shown(p) /\ applyFrom(p, None)
    BY <1>4 DEF deleteIssue
  <2> QED BY <2>1 DEF WriteTo, Shown
<1> QED BY <1>2, <1>3, <1>4 DEF Write

(* It changes what the index has of its path only.  What is there then is  *)
(* a new issue, the issue that was shown there, or a uid in doubt.         *)
LEMMA WriteIs ==
    ASSUME ReconInv, NEW p \in Paths, NEW c \in Contents \cup {None}, WriteTo(p, c),
           NEW new, new = index', NEW doubt, doubt = strayed'
    PROVE  /\ Known(new) /\ new.known[p] = c /\ strayed \subseteq doubt /\ doubt \subseteq Uids
           /\ \A q \in Paths \ {p} : /\ new.rows[q] = index.rows[q] /\ new.errors[q] = index.errors[q]
                                    /\ new.known[q] = index.known[q]
           /\ index.rows[p] # None => Shown(p)
           /\ Claims(new, p) =>
                  \/ new.rows[p].uid \in doubt
                  \/ Shown(p) /\ new.rows[p].uid = index.rows[p].uid
                  \/ /\ index.rows[p] = None
                     /\ \A q \in Paths : index.rows[q] # None => index.rows[q].uid # new.rows[p].uid
           /\ Claims(new, p) =>
                  \/ new.rows[p].state = "OK" /\ new.errors[p] = None
                  \/ /\ Shown(p) /\ new.rows[p].state = "INVALID" /\ new.rows[p].uid = index.rows[p].uid
                     /\ new.errors[p] = IF index.errors[p] = None THEN "A" ELSE index.errors[p]
           /\ new.rows[p] # None /\ ~Claims(new, p) =>
                  \A q \in Paths : Same(index, p, q) => index.rows[q].state # "OK"
<1>1. PICK files : files = disk'
  OBVIOUS
<1>2. /\ files = [disk EXCEPT ![p] = c] /\ new = syncPath(index, files, p)
      /\ doubt = IF index.rows[p] # None /\ Parses(c) /\ c.uid # index.rows[p].uid
                 THEN strayed \cup {c.uid} ELSE strayed
  BY <1>1 DEF WriteTo, applyFrom
<1>3. /\ disk \in [Paths -> Contents \cup {None}] /\ index \in Index /\ Follows(index) /\ now \in Nat
      /\ strayed \subseteq Uids
  BY ReconcileAssumption DEF ReconInv, TypeOK, Known
<1>4. files \in [Paths -> Contents \cup {None}] /\ files[p] = c
  BY <1>2, <1>3
<1>5. strayed \subseteq doubt /\ doubt \subseteq Uids
  BY <1>2, <1>3, NoneIsNothingElse
<1>6. /\ c = None => Shown(p)
      /\ index.rows[p] # None => Shown(p)
      /\ index.rows[p] = None => Parses(c)
             /\ \A q \in Paths : index.rows[q] # None => index.rows[q].uid # c.uid
  BY DEF WriteTo
<1>7. CASE c = None
  <2>1. new = retirePath(index, {p})
    BY <1>2, <1>4, <1>7 DEF syncPath
  <2>2. PICK gone \in SUBSET Paths : gone = {p}
    OBVIOUS
  <2>3. /\ new \in Index /\ Follows(new)
        /\ \A q \in Paths : new.known[q] = IF q \in gone THEN None ELSE index.known[q]
        /\ \A q \in Paths \ gone : new.rows[q] = index.rows[q] /\ new.errors[q] = index.errors[q]
        /\ \A q \in gone : new.rows[q] # None =>
               index.rows[q] # None /\ movedTo(index, q) = {} /\ ~Claims(new, q)
    BY <1>3, <2>1, <2>2, Retired
  <2>4. ~Claims(new, p)
    BY <2>2, <2>3 DEF Claims
  <2>5. new.rows[p] # None => \A q \in Paths : Same(index, p, q) => index.rows[q].state # "OK"
    BY <2>2, <2>3 DEF movedTo
  <2> QED BY <1>5, <1>6, <1>7, <2>2, <2>3, <2>4, <2>5 DEF Known
<1>8. CASE c # None
  <2>1. new = loadScannedFile(index, files, {p})
    BY <1>2, <1>4, <1>8 DEF syncPath
  <2>2. PICK read \in SUBSET Paths : read = {p}
    OBVIOUS
  <2>3. /\ new \in Index /\ Follows(new)
        /\ \A q \in Paths : new.known[q] = IF q \in read THEN files[q] ELSE index.known[q]
        /\ \A q \in Paths \ read : new.rows[q] = index.rows[q] /\ new.errors[q] = index.errors[q]
        /\ \A q \in read :
               IF Parses(files[q]) THEN new.rows[q] = Issue(files[q]) /\ new.errors[q] = None
               ELSE /\ new.rows[q] = quarantineExisting(index.rows[q])
                    /\ new.errors[q] = IF index.errors[q] = None THEN "A" ELSE index.errors[q]
    <3>1. \A q \in read : files[q] # None
      BY <1>4, <1>8, <2>2
    <3> QED BY <1>3, <1>4, <2>1, <2>2, <3>1, Loaded
  <2>4. CASE Parses(c)
    <3>1. new.rows[p] = Issue(c) /\ new.errors[p] = None
      BY <1>4, <2>2, <2>3, <2>4
    <3>2. new.rows[p].state = "OK" /\ new.rows[p].uid = c.uid /\ Claims(new, p)
      BY <2>4, <3>1, IssueIsRow DEF Claims
    <3>3. index.rows[p] # None => c.uid \in doubt \/ c.uid = index.rows[p].uid
      BY <1>2, <2>4
    <3> QED BY <1>4, <1>5, <1>6, <2>2, <2>3, <3>1, <3>2, <3>3 DEF Known
  <2>5. CASE ~Parses(c)
    <3>1. /\ new.rows[p] = quarantineExisting(index.rows[p]) /\ index.rows[p] # None /\ Shown(p)
          /\ new.errors[p] = IF index.errors[p] = None THEN "A" ELSE index.errors[p]
      BY <1>4, <1>6, <2>2, <2>3, <2>5
    <3>2. index.rows[p] \in Rows
      BY <1>3, <3>1, IndexParts
    <3>3. /\ new.rows[p].state = "INVALID" /\ new.rows[p].uid = index.rows[p].uid
          /\ new.rows[p] \in Rows
      BY <3>1, <3>2 DEF quarantineExisting, Rows
    <3>4. Claims(new, p)
      BY <3>3, NoneIsNothingElse DEF Claims
    <3> QED BY <1>4, <1>5, <1>6, <2>2, <2>3, <3>1, <3>3, <3>4 DEF Known
  <2> QED BY <2>4, <2>5
<1> QED BY <1>7, <1>8

LEMMA WriteChecked ==
    ASSUME ReconInv, NEW p \in Paths, NEW c \in Contents \cup {None}, WriteTo(p, c),
           NEW new, new = index', NEW doubt, doubt = strayed'
    PROVE  CheckedBut(new, doubt) /\ Buried(index, new) /\ Stands(index, new)
<1>1. /\ Known(new) /\ strayed \subseteq doubt
      /\ \A q \in Paths \ {p} : /\ new.rows[q] = index.rows[q] /\ new.errors[q] = index.errors[q]
                               /\ new.known[q] = index.known[q]
      /\ index.rows[p] # None => Shown(p)
      /\ new.rows[p] # None /\ ~Claims(new, p) =>
             \A q \in Paths : Same(index, p, q) => index.rows[q].state # "OK"
  BY WriteIs
<1>2. /\ Claims(new, p) =>
             \/ new.rows[p].uid \in doubt
             \/ Shown(p) /\ new.rows[p].uid = index.rows[p].uid
             \/ /\ index.rows[p] = None
                /\ \A q \in Paths : index.rows[q] # None => index.rows[q].uid # new.rows[p].uid
      /\ Claims(new, p) =>
             \/ new.rows[p].state = "OK" /\ new.errors[p] = None
             \/ /\ Shown(p) /\ new.rows[p].state = "INVALID" /\ new.rows[p].uid = index.rows[p].uid
                /\ new.errors[p] = IF index.errors[p] = None THEN "A" ELSE index.errors[p]
  BY WriteIs
<1>3. index \in Index /\ Follows(index) /\ CheckedBut(index, strayed)
  BY DEF ReconInv, Known
<1>4. ASSUME Shown(p), index.rows[p].uid \notin doubt
      PROVE  Claims(index, p) /\ index.errors[p] # "B"
             /\ \A q \in Paths : Claims(index, q) => ~Same(index, p, q)
  <2>1. Claims(index, p) /\ index.rows[p].state = "OK"
    BY <1>4 DEF Shown, Claims
  <2> QED BY <1>1, <1>3, <1>4, <2>1 DEF CheckedBut
<1>5. ASSUME NEW q \in Paths \ {p}, Claims(new, p), Claims(new, q), new.rows[p].uid \notin doubt,
             new.rows[q].uid = new.rows[p].uid
      PROVE  FALSE
  <2>1. Claims(index, q) /\ index.rows[q].uid = new.rows[p].uid
    BY <1>1, <1>5 DEF Claims
  <2>2. Shown(p) /\ new.rows[p].uid = index.rows[p].uid
    BY <1>2, <1>5, <2>1 DEF Claims
  <2> QED BY <1>4, <1>5, <2>1, <2>2 DEF Same, Shown, Claims
<1>6. CheckedBut(new, doubt)
  <2>1. SUFFICES ASSUME NEW q \in Paths, Claims(new, q), new.rows[q].uid \notin doubt
                 PROVE  /\ new.rows[q].state = "OK" =>
                               /\ new.errors[q] # "B"
                               /\ \A o \in Paths : Claims(new, o) => ~Same(new, q, o)
                        /\ new.rows[q].state = "INVALID" /\ new.errors[q] # "A" =>
                               \E o \in Paths : Claims(new, o) /\ Same(new, q, o)
    BY DEF CheckedBut
  <2>2. CASE q = p
    <3>1. \A o \in Paths : Claims(new, o) => ~Same(new, q, o)
      BY <1>5, <2>1, <2>2 DEF Same
    <3>2. CASE new.rows[p].state = "OK" /\ new.errors[p] = None
      BY <2>2, <3>1, <3>2, NoneIsNothingElse
    <3>3. CASE ~(new.rows[p].state = "OK" /\ new.errors[p] = None)
      <4>1. /\ Shown(p) /\ new.rows[p].state = "INVALID" /\ new.rows[p].uid = index.rows[p].uid
            /\ new.errors[p] = IF index.errors[p] = None THEN "A" ELSE index.errors[p]
        BY <1>2, <2>1, <2>2, <3>3
      <4>2. index.errors[p] # "B" /\ index.errors[p] \in {None, "A", "B"}
        BY <1>3, <1>4, <2>1, <2>2, <4>1, IndexParts
      <4> QED BY <2>2, <4>1, <4>2
    <3> QED BY <3>2, <3>3
  <2>3. CASE q # p
    <3>1. Claims(index, q) /\ index.rows[q].uid \notin strayed
          /\ index.rows[q] = new.rows[q] /\ index.errors[q] = new.errors[q]
      BY <1>1, <2>1, <2>3 DEF Claims
    <3>2. ASSUME new.rows[q].state = "OK", NEW o \in Paths, Claims(new, o), Same(new, q, o)
          PROVE  FALSE
      <4>1. CASE o = p
        BY <1>5, <2>1, <2>3, <3>2, <4>1 DEF Same
      <4>2. CASE o # p
        <5>1. Claims(index, o) /\ Same(index, q, o)
          BY <1>1, <3>1, <3>2, <4>2 DEF Claims, Same
        <5> QED BY <1>3, <3>1, <3>2, <5>1 DEF CheckedBut
      <4> QED BY <4>1, <4>2
    <3>3. new.rows[q].state = "OK" => new.errors[q] # "B"
      BY <1>3, <3>1 DEF CheckedBut
    <3>4. ASSUME new.rows[q].state = "INVALID", new.errors[q] # "A"
          PROVE  \E o \in Paths : Claims(new, o) /\ Same(new, q, o)
      <4>1. PICK o \in Paths : Claims(index, o) /\ Same(index, q, o)
        BY <1>3, <3>1, <3>4 DEF CheckedBut
      <4>2. o # p
        <5>1. SUFFICES ASSUME o = p PROVE FALSE
          OBVIOUS
        <5>2. Shown(p) /\ index.rows[p].uid = new.rows[q].uid
          BY <1>1, <3>1, <4>1, <5>1 DEF Same
        <5> QED BY <1>4, <2>1, <3>1, <4>1, <5>1, <5>2 DEF Same
      <4> QED BY <1>1, <3>1, <4>1, <4>2 DEF Claims, Same
    <3> QED BY <3>2, <3>3, <3>4
  <2> QED BY <2>2, <2>3
<1>7. Buried(index, new)
  <2>1. SUFFICES ASSUME NEW o \in Paths, NEW q \in Paths \ {o},
                        index.rows[o] # None, Claims(index, o), new.rows[o] # None, ~Claims(new, o),
                        Parses(new.known[q]), new.known[q].uid = index.rows[o].uid
                 PROVE  index.known[q] = new.known[q] /\ index.rows[q].state = "INVALID"
    BY DEF Buried
  <2>2. o = p
    BY <1>1, <2>1 DEF Claims
  <2>3. index.known[q] = new.known[q]
    BY <1>1, <2>1, <2>2
  <2>4. Claims(index, q) /\ index.rows[q].uid = index.rows[p].uid
    BY <1>3, <2>1, <2>2, <2>3 DEF Follows
  <2>5. index.rows[q].state # "OK"
    BY <1>1, <2>1, <2>2, <2>4 DEF Same, Claims
  <2> QED BY <1>3, <2>3, <2>4, <2>5, IndexParts DEF Claims
<1>8. Stands(index, new)
  BY <1>1 DEF Stands, Claims, Shown
<1> QED BY <1>6, <1>7, <1>8

LEMMA WriteKeeps ==
    ASSUME ReconInv, Write
    PROVE  ReconInv' /\ Buried(index, index') /\ Stands(index, index')
<1>1. PICK p \in Paths, c \in Contents \cup {None} : WriteTo(p, c)
  BY WritesAre
<1>2. PICK new, doubt, files, said : new = index' /\ doubt = strayed' /\ files = disk' /\ said = told'
  OBVIOUS
<1>3. /\ server = "up" /\ files = [disk EXCEPT ![p] = c] /\ said = [told EXCEPT ![p] = c]
      /\ touched' = touched \ {p} /\ unseen' = unseen \ {p}
      /\ lost' = IF Overtaken(p) THEN lost \cup {p} ELSE lost \ {p}
      /\ now' = now /\ server' = server /\ news' = news
      /\ UNCHANGED <<queue, running, owed, rejected>>
  BY <1>1, <1>2 DEF WriteTo, applyFrom, passes
<1>4. PICK h \in {None, "incremental", "full"} : hint' = Stronger(hint, h)
  BY <1>1 DEF WriteTo, applyFrom
<1>5. hint' \in {None, "incremental", "full"} /\ (hint # None => hint' # None)
  BY <1>4, NoneIsNothingElse DEF ReconInv, TypeOK, Stronger, Passes
<1>6. /\ Known(new) /\ new.known[p] = c /\ doubt \subseteq Uids
      /\ \A q \in Paths \ {p} : new.known[q] = index.known[q]
  BY <1>1, <1>2, WriteIs
<1>7. CheckedBut(new, doubt) /\ Buried(index, new) /\ Stands(index, new)
  BY <1>1, <1>2, WriteChecked
<1>8. /\ disk \in [Paths -> Contents \cup {None}] /\ told \in [Paths -> Contents \cup {None}]
      /\ lost \subseteq Paths /\ unseen \subseteq Paths /\ touched \subseteq Paths
  BY DEF ReconInv, TypeOK
<1>9. /\ files \in [Paths -> Contents \cup {None}] /\ said \in [Paths -> Contents \cup {None}]
      /\ files[p] = c /\ said[p] = c
      /\ \A q \in Paths \ {p} : files[q] = disk[q] /\ said[q] = told[q]
  BY <1>3, <1>8
<1>10. TypeOK'
  <2>1. new \in Index
    BY <1>6 DEF Known
  <2>2. lost' \subseteq Paths /\ unseen' \subseteq Paths /\ touched' \subseteq Paths
    BY <1>3, <1>8
  <2> QED BY <1>2, <1>3, <1>5, <1>6, <1>9, <2>1, <2>2 DEF ReconInv, TypeOK
<1>11. Owing'
  <2>1. ASSUME NEW i \in DOMAIN owed, owed[i].verb # "changed"
        PROVE  new.known[owed[i].path] = None \/ owed[i].path \in lost'
    <3>1. index.known[owed[i].path] = None \/ owed[i].path \in lost
      BY <2>1 DEF ReconInv, Owing
    <3>2. owed[i].path \in Paths
      <4>1. owed[i] \in Events
        BY DEF ReconInv, TypeOK
      <4> QED BY <4>1 DEF Events
    <3>3. CASE owed[i].path = p
      <4>1. Overtaken(p)
        BY <2>1, <3>3 DEF Overtaken
      <4> QED BY <1>3, <3>3, <4>1
    <3>4. CASE owed[i].path # p
      BY <1>3, <1>6, <3>1, <3>2, <3>4
    <3> QED BY <3>3, <3>4
  <2> QED BY <1>2, <1>3, <2>1 DEF ReconInv, Owing
<1>12. \A q \in Paths : /\ Pending(q)' <=> Pending(q)
                        /\ Unread(q)' => Unread(q)
  BY <1>2, <1>3, <1>6, <1>9 DEF Pending, Unread
<1>13. Counted'
  <2>1. SUFFICES ASSUME NEW q \in Paths
                 PROVE  news'[q] >= (IF Unread(q)' THEN 1 ELSE 0) + (IF Pending(q)' THEN 1 ELSE 0)
    BY DEF Counted
  <2>2. news[q] >= (IF Unread(q) THEN 1 ELSE 0) + (IF Pending(q) THEN 1 ELSE 0) /\ news[q] \in Int
    BY DEF ReconInv, Counted, TypeOK
  <2> QED BY <1>3, <1>12, <2>2
<1>14. Reported'
  <2>1. SUFFICES ASSUME NEW q \in Paths, q \notin lost'
                 PROVE  new.known[q] \in {None, said[q]} \/ Pending(q)
    BY <1>2, <1>12 DEF Reported
  <2>2. CASE q = p
    BY <1>6, <1>9, <2>2
  <2>3. CASE q # p
    BY <1>3, <1>6, <1>9, <2>1, <2>3 DEF ReconInv, Reported
  <2> QED BY <2>2, <2>3
<1>15. Hinted'
  <2>1. CASE hint # None \/ queue # <<>>
    BY <1>3, <1>5, <2>1 DEF Hinted
  <2>2. CASE ~(hint # None \/ queue # <<>>)
    <3>1. OutOfStep(index, disk) \subseteq unseen
      BY <1>3, <2>2 DEF ReconInv, Hinted
    <3>2. OutOfStep(new, files) \subseteq unseen'
      BY <1>3, <1>6, <1>9, <3>1 DEF OutOfStep
    <3> QED BY <1>2, <3>2 DEF Hinted
  <2> QED BY <2>1, <2>2
<1> QED BY <1>2, <1>6, <1>7, <1>10, <1>11, <1>13, <1>14, <1>15 DEF ReconInv

LEMMA NextKeeps == ReconInv /\ [Next]_vars => ReconInv'
<1> SUFFICES ASSUME ReconInv, [Next]_vars PROVE ReconInv'
  OBVIOUS
<1>1. CASE Outside
  BY <1>1, OutsideKeeps
<1>2. CASE fire \/ verifyRoute \/ Skip \/ Finish
  BY <1>2, QueueKeeps
<1>3. CASE Begin
  BY <1>3, BeginKeeps
<1>4. CASE record_
  BY <1>4, RecordKeeps
<1>5. CASE RecordFails \/ PassFails \/ Crash
  BY <1>5, FailuresKeep
<1>6. CASE openBoard \/ createUser
  BY <1>6, OpeningKeeps
<1>7. CASE Write
  BY <1>7, WriteKeeps
<1>8. CASE UNCHANGED vars
  <2>1. UNCHANGED <<disk, touched, index, now, server, hint, queue, running, owed, rejected,
                    told, news, lost, unseen, strayed>>
    BY <1>8 DEF vars, passes, history
  <2>2. TypeOK'
    BY <2>1 DEF ReconInv, TypeOK
  <2> QED BY <2>1, <2>2 DEF ReconInv, Owing, Counted, Unread, Reported, Pending, Hinted
<1> QED BY <1>1, <1>2, <1>3, <1>4, <1>5, <1>6, <1>7, <1>8 DEF Next, Server

-----------------------------------------------------------------------------
(* The theorems.                                                           *)

(* ReconInv holds in every state, whatever files change while passes run,  *)
(* fail and are cut off.                                                   *)
THEOREM ReconInvariant == Spec => []ReconInv
<1>1. Init => ReconInv
  BY Starts
<1>2. ReconInv /\ [Next]_vars => ReconInv'
  BY NextKeeps
<1> QED BY <1>1, <1>2, PTL DEF Spec

(* The index shows what a rebuild from the files it has read would show,   *)
(* but for files that have stopped parsing: they keep their claim on a     *)
(* uid, and the label of the error they had; and for the uids that a write *)
(* of the server found in files known to have others.                      *)
THEOREM IndexShowsItsFiles == Spec => []VisibleIsExplained
<1>1. ReconInv => VisibleIsExplained
  <2> SUFFICES ASSUME ReconInv PROVE VisibleIsExplained
    OBVIOUS
  <2> DEFINE read == {p \in Paths : Parses(index.known[p])}
             rebuilt == {p \in read : \A q \in read \ {p} : index.known[p].uid # index.known[q].uid}
             unread == {q \in Paths : index.known[q] = Broken}
             shadowed == {p \in read : \E q \in unread : Same(index, p, q)}
             mislabelled == {q \in unread : index.errors[q] # "A"}
             inDoubt == {p \in Paths : index.rows[p] # None /\ index.rows[p].uid \in strayed}
  <2>1. index \in Index /\ Follows(index) /\ CheckedBut(index, strayed)
    BY DEF ReconInv, Known
  <2>2. ASSUME NEW p \in read
        PROVE  /\ Claims(index, p) /\ index.rows[p].uid = index.known[p].uid /\ index.errors[p] # "A"
               /\ p \notin unread
    BY <2>1, <2>2, NoneIsNothingElse DEF Follows, Parses
  <2>3. ASSUME NEW p \in Paths, Claims(index, p) PROVE p \in read \cup unread
    BY <2>1, <2>3 DEF Follows, Parses
  <2>4. ASSUME NEW p \in Visible(index.rows), p \notin mislabelled, p \notin inDoubt
        PROVE  p \in rebuilt /\ p \notin shadowed
    <3>1. p \in Paths /\ Claims(index, p) /\ index.rows[p].state = "OK" /\ index.rows[p].uid \notin strayed
      BY <2>4 DEF Visible, Claims
    <3>2. p \in read
      <4>1. SUFFICES ASSUME p \in unread PROVE FALSE
        BY <2>3, <3>1
      <4>2. index.errors[p] = "A"
        BY <2>4, <4>1
      <4> QED BY <2>1, <3>1, <4>1, <4>2 DEF Follows, Claims
    <3>3. \A q \in Paths : Claims(index, q) => ~Same(index, p, q)
      BY <2>1, <3>1 DEF CheckedBut
    <3>4. ASSUME NEW q \in read \ {p} PROVE index.known[p].uid # index.known[q].uid
      BY <2>2, <3>2, <3>3, <3>4 DEF Same, Claims
    <3>5. ASSUME NEW q \in unread, Same(index, p, q) PROVE FALSE
      BY <2>1, <3>3, <3>5 DEF Follows, Same
    <3> QED BY <3>2, <3>4, <3>5
  <2>5. ASSUME NEW p \in rebuilt, p \notin shadowed, p \notin inDoubt
        PROVE  p \in Visible(index.rows) /\ p \notin mislabelled
    <3>1. p \in Paths /\ Claims(index, p) /\ index.errors[p] # "A" /\ p \notin unread
          /\ index.rows[p].uid \notin strayed
      BY <2>2, <2>5 DEF Claims
    <3>2. ASSUME NEW q \in Paths, Claims(index, q), Same(index, p, q) PROVE FALSE
      <4>1. CASE q \in read
        BY <2>2, <2>5, <3>2, <4>1 DEF Same
      <4>2. CASE q \in unread
        BY <2>5, <3>2, <4>2
      <4> QED BY <2>3, <3>2, <4>1, <4>2
    <3>3. index.rows[p].state # "INVALID"
      BY <2>1, <3>1, <3>2 DEF CheckedBut
    <3>4. index.rows[p].state \in {"OK", "INVALID", "PENDING_DELETE"}
      BY <2>1, <3>1, IndexParts DEF Claims
    <3> QED BY <3>1, <3>3, <3>4 DEF Visible, Claims
  <2>6. Visible(index.rows) \ (mislabelled \cup inDoubt) = rebuilt \ (shadowed \cup inDoubt)
    BY <2>4, <2>5
  <2> QED BY <2>6 DEF VisibleIsExplained
<1> QED BY <1>1, ReconInvariant, PTL

(* However passes, crashes, silent syncs and writes of the server follow   *)
(* each other, a pass reports a change from outside at most once, and the  *)
(* server's own writes never.                                              *)
THEOREM NoEditIsToldTwice == Spec => []ChangesAreReportedOnce
<1>1. ReconInv => ChangesAreReportedOnce
  <2> SUFFICES ASSUME ReconInv, NEW p \in Paths PROVE news[p] >= 0
    BY DEF ChangesAreReportedOnce
  <2>1. news[p] >= (IF Unread(p) THEN 1 ELSE 0) + (IF Pending(p) THEN 1 ELSE 0) /\ news[p] \in Int
    BY DEF ReconInv, Counted, TypeOK
  <2> QED BY <2>1
<1> QED BY <1>1, ReconInvariant, PTL

(* What the index has taken in the event log has said, unless it is one of *)
(* the changes that are known to be lost.                                  *)
THEOREM SilenceHasAReason == Spec => []SilenceIsExplained
<1>1. ReconInv => SilenceIsExplained
  BY DEF ReconInv, Owing, Reported, Pending, SilenceIsExplained, Quiet
<1> QED BY <1>1, ReconInvariant, PTL

(* A server with nothing to do has read every change it was told of.       *)
THEOREM HintsAreFollowed == Spec => []NothingIsOverlooked
<1>1. ReconInv => NothingIsOverlooked
  BY DEF ReconInv, Hinted, NothingIsOverlooked, Quiet
<1> QED BY <1>1, ReconInvariant, PTL

(* An issue becomes a tombstone only if no file that is new to the pass    *)
(* carries it on, and a tombstone whose grace is over stays while its file *)
(* stays away and the index is not rebuilt.                                *)
THEOREM TombstonesHaveAReason == Spec => DeletionsAreExplained
<1> DEFINE Explained == 
        \A p \in Paths :
          /\ index.rows[p] # None /\ ~Deleted(index.rows, p) /\ Deleted(index'.rows, p) =>
                \A q \in Paths \ {p} :
                    Parses(index'.known[q]) /\ index'.known[q].uid = index.rows[p].uid =>
                        index.known[q] = index'.known[q] /\ index.rows[q].state = "INVALID"
          /\ Deleted(index.rows, p) /\ (index.rows[p].deadline = None \/ index.rows[p].deadline <= now) =>
                Deleted(index'.rows, p) \/ disk[p] # None \/ index' = rebuildIndex
<1>1. ASSUME ReconInv, NEW new, new = index', Buried(index, new), Stands(index, new) \/ new = rebuildIndex
      PROVE  Explained
  BY <1>1 DEF Buried, Stands, Deleted, Claims
<1>2. ASSUME ReconInv, index' = index PROVE Explained
  BY <1>2 DEF Deleted
<1>3. ReconInv /\ [Next]_vars => [Explained]_vars
  <2> SUFFICES ASSUME ReconInv, Next PROVE Explained
    OBVIOUS
  <2>1. CASE Outside
    <3>1. index' = index
      BY <2>1 DEF Outside, Put, PutUnseenByStat, Delete, Rename, Tick, Edited
    <3> QED BY <1>2, <3>1
  <2>6. CASE Write
    <3>1. PICK new : new = index'
      OBVIOUS
    <3>2. Buried(index, new) /\ Stands(index, new)
      BY <2>6, <3>1, WriteKeeps
    <3> QED BY <1>1, <3>1, <3>2
  <2>2. CASE fire \/ verifyRoute \/ Skip \/ record_ \/ Finish
    <3>1. index' = index
      BY <2>2 DEF fire, verifyRoute, Skip, record_, Finish
    <3> QED BY <1>2, <3>1
  <2>3. CASE RecordFails \/ PassFails \/ Crash
    <3>1. index' = index
      BY <2>3 DEF RecordFails, PassFails, Crash, Throw
    <3> QED BY <1>2, <3>1
  <2>4. CASE Begin
    <3>1. PICK new : new = index'
      OBVIOUS
    <3>2. Buried(index, new) /\ Stands(index, new)
      BY <2>4, <3>1, BeginKeeps
    <3> QED BY <1>1, <3>1, <3>2
  <2>5. CASE openBoard \/ createUser
    <3>1. PICK new \in {incrementalSync(index), rebuildIndex} : new = index'
      BY <2>5 DEF openBoard, createUser, Silently
    <3>2. Buried(index, new) /\ (Stands(index, new) \/ new = rebuildIndex)
      BY SilentSyncs
    <3> QED BY <1>1, <3>1, <3>2
  <2> QED BY <2>1, <2>2, <2>3, <2>4, <2>5, <2>6 DEF Next, Server
<1> QED BY <1>3, ReconInvariant, PTL DEF Spec, DeletionsAreExplained
=============================================================================
