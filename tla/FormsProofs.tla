----------------------------- MODULE FormsProofs -----------------------------
(***************************************************************************)
(* Proofs about Forms, for every set of issues and texts, any number of    *)
(* calls under way and any faults: what a person has not seen is not       *)
(* overwritten, a form submitted again and again makes one issue, and a    *)
(* view that is not the board as it is has a reason for it.                *)
(***************************************************************************)
EXTENDS Forms, FiniteSetTheorems, FunctionTheorems, SequenceTheorems, TLAPS

(* A version that was put before the person, or that issue `d` will never  *)
(* have again: it is somebody else's, or has been replaced.                *)
Past(tag, d, docs, at) == tag \in Int /\ tag <= at /\ tag # docs[d]
Safe(tag, d, known, docs, at) == tag \in known \/ Past(tag, d, docs, at)

(* What is left of a function.  A loader is followed by the one that needs *)
(* it, loaders by loaders and at last by the connection to the stream; a   *)
(* write, and the reading of a form, is the only call of its function.     *)
Alone == {"patch", "delete", "create", "comment", "openEdit"}
Pickers == {"assign", "assignable"}
Steps == Listings \cup Documents \cup Alone \cup {"login", "logout", "connect"}
Loaders == Views \cup Pickers
Before(step, later) ==
    step # "connect" /\ (step \in Loaders => later \in Loaders \cup {"connect"})
Placed(todo, j) ==
    /\ todo[j] \in {"issues", "assign", "openDelete"} => j + 1 \in DOMAIN todo
    /\ todo[j] = "issues" => todo[j + 1] = "board"
    /\ todo[j] = "assign" => todo[j + 1] = "assignable"
    /\ todo[j] \notin Alone
Orderly(todo) ==
    /\ todo \in Seq(Steps)
    /\ \A j \in DOMAIN todo : Placed(todo, j)
    /\ \A j, k \in DOMAIN todo : j < k => Before(todo[j], todo[k])

Loads(t) ==
    /\ t = [todo |-> t.todo, on |-> t.on, by |-> t.by, ans |-> t.ans]
    /\ Orderly(t.todo) /\ t.todo # <<>>

Saves(t, known, docs, at) ==
    /\ t.todo = <<"patch">> /\ t.on \in Issues
    /\ \/ t.by.form = "edit" /\ Safe(t.by.tag, t.on, known, docs, at)
       \/ t.by.form = "assign" /\ (t.by.early = TRUE \/ t.by.tag \in known)
    /\ t.ans # None /\ t.ans.status = 412 =>
           \A d \in Issues \ {t.on} : Past(t.ans.tag, d, docs, at)
Deletes(t, known) ==
    /\ t.todo = <<"delete">> /\ t.by.tag \in known
    /\ t.by = [tag |-> t.by.tag, strategy |-> t.by.strategy, left |-> t.by.left]
Creates(t) == t.todo = <<"create">> /\ t.by.key = t.by.of
Comments(t) == t.todo = <<"comment">>
Edits(t) == t.todo = <<"openEdit">> /\ t.on \in Issues

Fits(t, known, docs, at) ==
    \/ Loads(t)
    \/ /\ t = [todo |-> t.todo, on |-> t.on, by |-> t.by, ans |-> t.ans]
       /\ Saves(t, known, docs, at) \/ Deletes(t, known) \/ Creates(t) \/ Comments(t) \/ Edits(t)

Tasks(ts) == ts \in Seq(Range(ts))
AllFit(ts, known, docs, at) ==
    Tasks(ts) /\ \A i \in DOMAIN ts : Fits(ts[i], known, docs, at)
Picking(ts) == \E i \in DOMAIN ts : Head(ts[i].todo) \in Pickers

(* The parts of the inductive invariant.                                   *)
FormTypes ==
    /\ now \in Int
    /\ files \in [Issues -> Int \cup {None}]
    /\ detail \in Issues \cup {None}
    /\ edit = [key |-> edit.key, tag |-> edit.tag, busy |-> edit.busy, conflict |-> edit.conflict]
    /\ remove = [key |-> remove.key, tag |-> remove.tag, open |-> remove.open, busy |-> remove.busy,
                 stale |-> remove.stale, strategy |-> remove.strategy]
    /\ assign = [key |-> assign.key, tag |-> assign.tag, painted |-> assign.painted,
                 busy |-> assign.busy]
    /\ edit.key \in Issues \cup {None} /\ assign.key \in Issues \cup {None}
    /\ assign.painted \in BOOLEAN /\ remove.open \in BOOLEAN

(* A version names one issue, and none is from the future.                 *)
Versions(docs, at) ==
    \A d \in Issues : docs[d] # None =>
        docs[d] <= at /\ \A c \in Issues \ {d} : docs[c] # docs[d]

EditIsSafe == edit.key # None => Safe(edit.tag, edit.key, seen, files, now)
DialogIsSeen == remove.open = TRUE /\ remove.key # None => remove.tag \in seen
PickersAreSeen == assign.painted = TRUE => assign.tag \in seen \/ Picking(tasks)
KeysAreKept == \A o \in DOMAIN created : created[o] = 0 \/ (created[o] = 1 /\ o \in replied)

FormsInv ==
    /\ FormTypes /\ Versions(files, now)
    /\ AllFit(tasks, seen, files, now)
    /\ EditIsSafe /\ DialogIsSeen /\ PickersAreSeen /\ KeysAreKept
    /\ NothingUnseenIsOverwritten /\ TimelineIsItsIssues

-----------------------------------------------------------------------------
(* Lemmas about versions.                                                  *)

(* What may happen to the documents: versions are new or none.             *)
Later(known, docs, at, known2, docs2, at2) ==
    /\ known \subseteq known2
    /\ at \in Int /\ at2 \in Int /\ at <= at2
    /\ docs2 \in [Issues -> Int \cup {None}]
    /\ \A d \in Issues : docs2[d] = docs[d] \/ docs2[d] = None \/ docs2[d] > at

LEMMA PastStays ==
    ASSUME NEW known, NEW docs, NEW at, NEW known2, NEW docs2, NEW at2,
           Later(known, docs, at, known2, docs2, at2),
           NEW tag, NEW d \in Issues, Past(tag, d, docs, at)
    PROVE  Past(tag, d, docs2, at2)
<1>1. None \notin Int
  BY ScenariosAssumption
<1>2. docs2[d] \in Int \cup {None}
  BY DEF Later
<1> QED BY <1>1, <1>2 DEF Later, Past

LEMMA SafeStays ==
    ASSUME NEW known, NEW docs, NEW at, NEW known2, NEW docs2, NEW at2,
           Later(known, docs, at, known2, docs2, at2),
           NEW tag, NEW d \in Issues, Safe(tag, d, known, docs, at)
    PROVE  Safe(tag, d, known2, docs2, at2)
BY PastStays DEF Safe, Later

LEMMA FitsStays ==
    ASSUME NEW known, NEW docs, NEW at, NEW known2, NEW docs2, NEW at2,
           Later(known, docs, at, known2, docs2, at2),
           NEW t, Fits(t, known, docs, at)
    PROVE  Fits(t, known2, docs2, at2)
<1>1. known \subseteq known2
  BY DEF Later
<1>2. Deletes(t, known) => Deletes(t, known2)
  BY <1>1 DEF Deletes
<1>3. ASSUME Saves(t, known, docs, at)
      PROVE  Saves(t, known2, docs2, at2)
  <2>1. t.on \in Issues
    BY <1>3 DEF Saves
  <2>2. Safe(t.by.tag, t.on, known, docs, at) => Safe(t.by.tag, t.on, known2, docs2, at2)
    BY <2>1, SafeStays
  <2>3. \A d \in Issues : Past(t.ans.tag, d, docs, at) => Past(t.ans.tag, d, docs2, at2)
    BY PastStays
  <2> QED BY <1>1, <1>3, <2>2, <2>3, Zenon DEF Saves
<1> QED BY <1>2, <1>3, Zenon DEF Fits

-----------------------------------------------------------------------------
(* Lemmas about the list of tasks.                                         *)

LEMMA LaterTasksFit ==
    ASSUME NEW known, NEW docs, NEW at, NEW known2, NEW docs2, NEW at2,
           Later(known, docs, at, known2, docs2, at2),
           NEW ts, AllFit(ts, known, docs, at)
    PROVE  AllFit(ts, known2, docs2, at2)
BY FitsStays DEF AllFit

LEMMA HeadOfTask ==
    ASSUME NEW t, NEW known, NEW docs, NEW at, Fits(t, known, docs, at)
    PROVE  /\ t.todo \in Seq(Steps) /\ t.todo # <<>> /\ Head(t.todo) = t.todo[1]
           /\ t = [todo |-> t.todo, on |-> t.on, by |-> t.by, ans |-> t.ans]
           /\ Head(t.todo) \notin Alone => Loads(t)
           /\ Head(t.todo) = "patch" => Saves(t, known, docs, at)
           /\ Head(t.todo) = "delete" => Deletes(t, known)
           /\ Head(t.todo) = "create" => Creates(t)
           /\ Head(t.todo) = "openEdit" => Edits(t)
<1>1. CASE Loads(t)
  <2>1. t.todo \in Seq(Steps) /\ t.todo # <<>> /\ Orderly(t.todo)
    BY <1>1 DEF Loads, Orderly
  <2>2. Head(t.todo) = t.todo[1] /\ 1 \in DOMAIN t.todo
    BY <2>1
  <2>3. Head(t.todo) \notin Alone
    BY <2>1, <2>2 DEF Orderly, Placed
  <2>4. t = [todo |-> t.todo, on |-> t.on, by |-> t.by, ans |-> t.ans]
    BY <1>1, Zenon DEF Loads
  <2> QED BY <1>1, <2>1, <2>2, <2>3, <2>4, Zenon DEF Alone
<1>2. CASE ~Loads(t)
  <2>1. PICK w \in Alone : t.todo = <<w>>
    BY <1>2, Zenon DEF Fits, Saves, Deletes, Creates, Comments, Edits, Alone
  <2>2. t.todo \in Seq(Steps) /\ t.todo # <<>> /\ Head(t.todo) = t.todo[1] /\ Head(t.todo) = w
    <3>1. w \in Steps
      BY DEF Steps
    <3>2. PICK q : q = <<w>>
      OBVIOUS
    <3>3. q \in Seq(Steps) /\ q # <<>> /\ Head(q) = w /\ q[1] = w
      BY <3>1, <3>2
    <3> QED BY <2>1, <3>2, <3>3
  <2>3. t = [todo |-> t.todo, on |-> t.on, by |-> t.by, ans |-> t.ans]
    BY <1>2, Zenon DEF Fits
  <2>4. /\ Saves(t, known, docs, at) => w = "patch"
        /\ Deletes(t, known) => w = "delete"
        /\ Creates(t) => w = "create"
        /\ Comments(t) => w = "comment"
        /\ Edits(t) => w = "openEdit"
    BY <2>1, <2>2 DEF Saves, Deletes, Creates, Comments, Edits
  <2> QED BY <1>2, <2>1, <2>2, <2>3, <2>4 DEF Fits
<1> QED BY <1>1, <1>2

LEMMA AppendFits ==
    ASSUME NEW ts, NEW known, NEW docs, NEW at, AllFit(ts, known, docs, at),
           NEW t, Fits(t, known, docs, at)
    PROVE  /\ AllFit(Append(ts, t), known, docs, at)
           /\ Picking(ts) => Picking(Append(ts, t))
<1>1. ts \in Seq(Range(ts) \cup {t})
  BY DEF AllFit, Tasks
<1>2. PICK s : s = Append(ts, t)
  OBVIOUS
<1>3. /\ s \in Seq(Range(ts) \cup {t}) /\ Len(s) = Len(ts) + 1
      /\ \A j \in 1..Len(ts) : s[j] = ts[j]
      /\ s[Len(ts) + 1] = t
  BY <1>1, <1>2
<1>4. Tasks(s)
  BY <1>3 DEF Tasks, Range
<1>5. \A j \in DOMAIN s : Fits(s[j], known, docs, at)
  BY <1>1, <1>3 DEF AllFit
<1>6. Picking(ts) => Picking(s)
  BY <1>1, <1>3 DEF Picking
<1> QED BY <1>2, <1>4, <1>5, <1>6 DEF AllFit

LEMMA ReplaceFits ==
    ASSUME NEW ts, NEW known, NEW docs, NEW at, AllFit(ts, known, docs, at),
           NEW i \in DOMAIN ts, NEW t, Fits(t, known, docs, at)
    PROVE  /\ AllFit([ts EXCEPT ![i] = t], known, docs, at)
           /\ Head(ts[i].todo) \notin Pickers /\ Picking(ts) => Picking([ts EXCEPT ![i] = t])
           /\ Head(t.todo) \in Pickers => Picking([ts EXCEPT ![i] = t])
<1>1. ts \in Seq(Range(ts))
  BY DEF AllFit, Tasks
<1>2. PICK s : s = [ts EXCEPT ![i] = t]
  OBVIOUS
<1>3. /\ DOMAIN s = DOMAIN ts /\ DOMAIN s = 1..Len(ts) /\ Len(ts) \in Nat
      /\ s[i] = t /\ \A j \in DOMAIN ts : j # i => s[j] = ts[j]
  BY <1>1, <1>2
<1>4. Tasks(s)
  <2>1. s \in [1..Len(ts) -> Range(s)]
    BY <1>2, <1>3 DEF Range
  <2> QED BY <1>3, <2>1 DEF Tasks
<1>5. \A j \in DOMAIN s : Fits(s[j], known, docs, at)
  BY <1>3 DEF AllFit
<1>6. Head(ts[i].todo) \notin Pickers /\ Picking(ts) => Picking(s)
  BY <1>3, Zenon DEF Picking
<1>7. Head(t.todo) \in Pickers => Picking(s)
  BY <1>3 DEF Picking
<1> QED BY <1>2, <1>4, <1>5, <1>6, <1>7 DEF AllFit

LEMMA RemovedAt ==
    ASSUME NEW ts, Tasks(ts), NEW i \in DOMAIN ts
    PROVE  /\ RemoveAt(ts, i) \in Seq(Range(ts)) /\ Len(RemoveAt(ts, i)) = Len(ts) - 1
           /\ \A j \in 1..(Len(ts) - 1) :
                  RemoveAt(ts, i)[j] = IF j < i THEN ts[j] ELSE ts[j + 1]
<1> DEFINE n == Len(ts)
<1>1. ts \in Seq(Range(ts)) /\ n \in Nat /\ i \in 1..n /\ DOMAIN ts = 1..n
  BY DEF Tasks
<1>2. PICK s : s = RemoveAt(ts, i)
  OBVIOUS
<1>3. /\ s \in Seq(Range(ts)) /\ Len(s) = n - 1
      /\ \A j \in 1..(n - 1) : s[j] = IF j < i THEN ts[j] ELSE ts[j + 1]
  <2>1. PICK a, b : a = SubSeq(ts, 1, i - 1) /\ b = SubSeq(ts, i + 1, n)
    OBVIOUS
  <2>2. /\ a \in Seq(Range(ts)) /\ Len(a) = i - 1
        /\ \A j \in 1..(i - 1) : a[j] = ts[j]
    BY <1>1, <2>1
  <2>3. /\ b \in Seq(Range(ts)) /\ Len(b) = n - i
        /\ \A j \in 1..(n - i) : b[j] = ts[j + i]
    BY <1>1, <2>1
  <2>4. s = a \o b
    BY <1>2, <2>1 DEF RemoveAt
  <2>5. s \in Seq(Range(ts)) /\ Len(s) = n - 1
    <3>1. Len(a \o b) = Len(a) + Len(b) /\ a \o b \in Seq(Range(ts))
      BY <2>2, <2>3, ConcatProperties
    <3> QED BY <1>1, <2>2, <2>3, <2>4, <3>1
  <2>6. ASSUME NEW j \in 1..(n - 1)
        PROVE  s[j] = IF j < i THEN ts[j] ELSE ts[j + 1]
    <3>1. CASE j < i
      BY <1>1, <2>2, <2>3, <2>4, <3>1
    <3>2. CASE ~(j < i)
      <4>1. s[j] = b[j - (i - 1)]
        BY <1>1, <2>2, <2>3, <2>4, <3>2
      <4>2. j - (i - 1) \in 1..(n - i) /\ (j - (i - 1)) + i = j + 1
        BY <1>1, <3>2
      <4> QED BY <2>3, <3>2, <4>1, <4>2
    <3> QED BY <3>1, <3>2
  <2> QED BY <2>5, <2>6
<1> QED BY <1>2, <1>3

LEMMA RemoveFits ==
    ASSUME NEW ts, NEW known, NEW docs, NEW at, AllFit(ts, known, docs, at),
           NEW i \in DOMAIN ts
    PROVE  /\ AllFit(RemoveAt(ts, i), known, docs, at)
           /\ Head(ts[i].todo) \notin Pickers /\ Picking(ts) => Picking(RemoveAt(ts, i))
<1> DEFINE n == Len(ts)
<1>1. ts \in Seq(Range(ts)) /\ n \in Nat /\ i \in 1..n /\ DOMAIN ts = 1..n
  BY DEF AllFit, Tasks
<1>2. PICK s : s = RemoveAt(ts, i)
  OBVIOUS
<1>3. /\ s \in Seq(Range(ts)) /\ Len(s) = n - 1
      /\ \A j \in 1..(n - 1) : s[j] = IF j < i THEN ts[j] ELSE ts[j + 1]
  BY <1>1, <1>2, RemovedAt DEF AllFit
<1> HIDE DEF n
<1>4. DOMAIN s = 1..(n - 1)
  BY <1>3
<1>5. Tasks(s)
  <2>1. s \in [1..(n - 1) -> Range(s)]
    BY <1>3, <1>4 DEF Range
  <2> QED BY <1>1, <1>3, <2>1 DEF Tasks
<1>6. ASSUME NEW j \in DOMAIN s
      PROVE  Fits(s[j], known, docs, at)
  <2>1. PICK k \in DOMAIN ts : s[j] = ts[k]
    <3>1. CASE j < i
      BY <1>1, <1>3, <1>4, <3>1
    <3>2. CASE ~(j < i)
      BY <1>1, <1>3, <1>4, <3>2
    <3> QED BY <3>1, <3>2
  <2> QED BY <2>1 DEF AllFit
<1>7. ASSUME Head(ts[i].todo) \notin Pickers, Picking(ts)
      PROVE  Picking(s)
  <2>1. PICK k \in 1..n : Head(ts[k].todo) \in Pickers
    BY <1>1, <1>7 DEF Picking
  <2>2. k # i
    BY <1>7, <2>1
  <2>3. CASE k < i
    BY <1>1, <1>3, <1>4, <2>1, <2>3 DEF Picking
  <2>4. CASE k > i
    <3>1. k - 1 \in 1..(n - 1) /\ ~(k - 1 < i) /\ (k - 1) + 1 = k
      BY <1>1, <2>4
    <3>2. s[k - 1] = ts[k]
      BY <1>3, <3>1
    <3> QED BY <1>4, <2>1, <3>1, <3>2 DEF Picking
  <2> QED BY <1>1, <2>2, <2>3, <2>4
<1> QED BY <1>2, <1>5, <1>6, <1>7 DEF AllFit

-----------------------------------------------------------------------------
(* Lemmas about what is left of a function.                                *)

LEMMA SmallestIsListed ==
    ASSUME NEW T \in SUBSET Nat, T # {}
    PROVE  Min(T) \in T /\ \A y \in T : Min(T) <= y
<1>1. PICK R : R = OpToRel(<, Nat)
  OBVIOUS
<1>2. IsWellFoundedOn(R, Nat)
  BY <1>1, NatLessThanWellFounded, Zenon
<1>3. ASSUME NEW y \in Nat, NEW x \in Nat, y < x
      PROVE  <<y, x>> \in R
  BY <1>1, <1>3 DEF OpToRel
<1>4. PICK x \in T : \A y \in T : <<y, x>> \notin R
  <2> HIDE <1>1
  <2> QED BY <1>2, WFMin
<1>5. ASSUME NEW y \in T
      PROVE  x <= y
  <2>1. x \in Nat /\ y \in Nat
    OBVIOUS
  <2>2. ~(y < x)
    BY <1>3, <1>4, <2>1
  <2> QED BY <2>1, <2>2
<1> QED BY <1>5 DEF Min

LEMMA NothingIsOrderly == Orderly(<<>>)
BY DEF Orderly

LEMMA SuffixIsOrderly ==
    ASSUME NEW todo, Orderly(todo), NEW k \in 1..Len(todo)
    PROVE  /\ Orderly(SubSeq(todo, k, Len(todo)))
           /\ SubSeq(todo, k, Len(todo)) # <<>>
<1> DEFINE n == Len(todo)
<1>1. todo \in Seq(Steps) /\ n \in Nat /\ DOMAIN todo = 1..n
  BY DEF Orderly
<1>2. PICK s : s = SubSeq(todo, k, n)
  OBVIOUS
<1>3. /\ s \in Seq(Steps) /\ Len(s) = n - k + 1 /\ DOMAIN s = 1..(n - k + 1)
      /\ \A j \in 1..(n - k + 1) : s[j] = todo[j + k - 1]
  BY <1>1, <1>2
<1>4. ASSUME NEW j \in DOMAIN s
      PROVE  Placed(s, j)
  <2>1. PICK m \in DOMAIN todo : m = j + k - 1
    BY <1>1, <1>3
  <2>2. Placed(todo, m)
    BY DEF Orderly
  <2>3. s[j] = todo[m]
    BY <1>3, <2>1
  <2>4. m + 1 \in DOMAIN todo => j + 1 \in DOMAIN s /\ s[j + 1] = todo[m + 1]
    BY <1>1, <1>3, <2>1
  <2> QED BY <2>2, <2>3, <2>4 DEF Placed
<1>5. ASSUME NEW j \in DOMAIN s, NEW l \in DOMAIN s, j < l
      PROVE  Before(s[j], s[l])
  <2>1. PICK m \in DOMAIN todo, o \in DOMAIN todo :
            m = j + k - 1 /\ o = l + k - 1 /\ m < o
    BY <1>1, <1>3, <1>5
  <2> QED BY <1>3, <2>1 DEF Orderly
<1>6. s # <<>>
  BY <1>1, <1>3
<1> QED BY <1>2, <1>3, <1>4, <1>5, <1>6 DEF Orderly

LEMMA TailIsOrderly ==
    ASSUME NEW todo, Orderly(todo), todo # <<>>
    PROVE  /\ Orderly(Tail(todo))
           /\ Head(todo) \in {"issues", "assign", "openDelete"} => Tail(todo) # <<>>
           /\ Head(todo) = "assign" => Head(Tail(todo)) = "assignable"
           /\ Head(todo) = "issues" => Head(Tail(todo)) = "board"
<1> DEFINE n == Len(todo)
<1>1. todo \in Seq(Steps) /\ n \in Nat /\ n >= 1 /\ DOMAIN todo = 1..n /\ Head(todo) = todo[1]
  BY DEF Orderly
<1>2. CASE n = 1
  <2>1. Tail(todo) = <<>>
    <3>1. PICK s : s = Tail(todo)
      OBVIOUS
    <3>2. s \in Seq(Steps) /\ Len(s) = 0
      BY <1>1, <1>2, <3>1
    <3>3. s = <<>>
      BY <3>2
    <3> QED BY <3>1, <3>3
  <2>2. Head(todo) \notin {"issues", "assign", "openDelete"}
    BY <1>1, <1>2 DEF Orderly, Placed
  <2> QED BY <2>1, <2>2, NothingIsOrderly
<1>3. CASE n > 1
  <2>1. PICK s : s = Tail(todo)
    OBVIOUS
  <2>2. s = SubSeq(todo, 2, n) /\ 2 \in 1..n
    BY <1>1, <1>3, <2>1
  <2>3. Orderly(s) /\ s # <<>>
    BY <1>1, <2>2, SuffixIsOrderly
  <2>4. Head(s) = todo[2]
    BY <1>1, <1>3, <2>1, <2>3
  <2>5. /\ Head(todo) = "assign" => todo[2] = "assignable"
        /\ Head(todo) = "issues" => todo[2] = "board"
    BY <1>1 DEF Orderly, Placed
  <2> QED BY <2>1, <2>3, <2>4, <2>5
<1> QED BY <1>1, <1>2, <1>3

LEMMA FromIsOrderly ==
    ASSUME NEW todo, Orderly(todo)
    PROVE  /\ Orderly(From(todo))
           /\ todo # <<>> /\ Head(todo) = "issues" => From(todo) # <<>>
<1> DEFINE runs(step) ==
               CASE step \in {"assign", "assignable", "activity"} -> detail # None
                 [] step = "board" -> tab = "board"
                 [] OTHER -> TRUE
           first == {j \in DOMAIN todo : runs(todo[j])}
<1>1. From(todo) = IF first = {} THEN <<>> ELSE SubSeq(todo, Min(first), Len(todo))
  BY DEF From
<1>2. todo \in Seq(Steps) /\ DOMAIN todo = 1..Len(todo) /\ Len(todo) \in Nat
  BY DEF Orderly
<1>3. first \in SUBSET (1..Len(todo)) /\ first \in SUBSET Nat
  BY <1>2
<1>4. ASSUME todo # <<>>, Head(todo) = "issues"
      PROVE  first # {}
  <2>1. 1 \in DOMAIN todo /\ todo[1] = "issues"
    BY <1>2, <1>4
  <2>2. runs("issues")
    OBVIOUS
  <2> QED BY <2>1, <2>2
<1> HIDE DEF first
<1>5. CASE first = {}
  BY <1>1, <1>4, <1>5, NothingIsOrderly
<1>6. CASE first # {}
  <2>1. Min(first) \in 1..Len(todo)
    BY <1>3, <1>6, SmallestIsListed
  <2>2. From(todo) = SubSeq(todo, Min(first), Len(todo))
    BY <1>1, <1>6
  <2> QED BY <2>1, <2>2, SuffixIsOrderly
<1> QED BY <1>5, <1>6

LEMMA JoinedIsOrderly ==
    ASSUME NEW a, NEW b, Orderly(a), Orderly(b),
           \A i \in DOMAIN a, j \in DOMAIN b : Before(a[i], b[j])
    PROVE  /\ Orderly(a \o b)
           /\ a # <<>> => a \o b # <<>> /\ Head(a \o b) = Head(a)
<1> DEFINE m == Len(a)
           n == Len(b)
<1>1. /\ a \in Seq(Steps) /\ m \in Nat /\ DOMAIN a = 1..m
      /\ b \in Seq(Steps) /\ n \in Nat /\ DOMAIN b = 1..n
  BY DEF Orderly
<1>2. PICK s : s = a \o b
  OBVIOUS
<1>3. /\ s \in Seq(Steps) /\ Len(s) = m + n /\ DOMAIN s = 1..(m + n)
      /\ \A j \in 1..(m + n) : s[j] = IF j <= m THEN a[j] ELSE b[j - m]
  BY <1>1, <1>2, ConcatProperties
<1>4. ASSUME NEW j \in DOMAIN s
      PROVE  Placed(s, j)
  <2>1. CASE j <= m
    <3>1. j \in DOMAIN a /\ s[j] = a[j]
      BY <1>1, <1>3, <2>1
    <3>2. Placed(a, j)
      BY <3>1 DEF Orderly
    <3>3. j + 1 \in DOMAIN a => j + 1 \in DOMAIN s /\ s[j + 1] = a[j + 1]
      BY <1>1, <1>3, <2>1
    <3> QED BY <3>1, <3>2, <3>3 DEF Placed
  <2>2. CASE ~(j <= m)
    <3>1. PICK k \in DOMAIN b : k = j - m
      BY <1>1, <1>3, <2>2
    <3>2. Placed(b, k)
      BY DEF Orderly
    <3>3. s[j] = b[k]
      BY <1>3, <2>2, <3>1
    <3>4. k + 1 \in DOMAIN b => j + 1 \in DOMAIN s /\ s[j + 1] = b[k + 1]
      BY <1>1, <1>3, <2>2, <3>1
    <3> QED BY <3>2, <3>3, <3>4 DEF Placed
  <2> QED BY <2>1, <2>2
<1>5. ASSUME NEW j \in DOMAIN s, NEW k \in DOMAIN s, j < k
      PROVE  Before(s[j], s[k])
  <2>1. CASE k <= m
    <3>1. j \in DOMAIN a /\ k \in DOMAIN a /\ s[j] = a[j] /\ s[k] = a[k]
      BY <1>1, <1>3, <1>5, <2>1
    <3> QED BY <1>5, <3>1 DEF Orderly
  <2>2. CASE j <= m /\ ~(k <= m)
    <3>1. /\ j \in DOMAIN a /\ k - m \in DOMAIN b /\ s[j] = a[j] /\ s[k] = b[k - m]
      BY <1>1, <1>3, <2>2
    <3> QED BY <3>1
  <2>3. CASE ~(j <= m)
    <3>1. PICK i \in DOMAIN b, l \in DOMAIN b : i = j - m /\ l = k - m /\ i < l
      BY <1>1, <1>3, <1>5, <2>3
    <3>2. s[j] = b[i] /\ s[k] = b[l]
      BY <1>1, <1>3, <1>5, <2>3, <3>1
    <3> QED BY <3>1, <3>2 DEF Orderly
  <2> QED BY <1>1, <1>3, <1>5, <2>1, <2>2, <2>3
<1>6. a # <<>> => s # <<>> /\ Head(s) = Head(a)
  BY <1>1, <1>3
<1> QED BY <1>2, <1>3, <1>4, <1>5, <1>6 DEF Orderly

LEMMA OneStepIsOrderly ==
    ASSUME NEW step \in (Listings \cup Documents \cup {"login", "logout", "connect"})
                        \ {"issues", "assign", "openEdit", "openDelete"}
    PROVE  Orderly(<<step>>) /\ <<step>> # <<>> /\ Head(<<step>>) = step
BY DEF Orderly, Placed, Steps, Listings, Documents, Alone

(* The lists of calls that the functions of the window begin with.         *)
LEMMA ListsAreOrderly ==
    /\ Orderly(Refresh) /\ Refresh # <<>> /\ Head(Refresh) = "issues"
    /\ Orderly(<<"me">> \o Everything) /\ Orderly(<<"login">> \o Everything)
    /\ <<"me">> \o Everything # <<>> /\ <<"login">> \o Everything # <<>>
    /\ Orderly(Refresh \o <<"activity">>) /\ Orderly(Refresh \o <<"git">>)
    /\ Orderly(Refresh \o <<"assign", "assignable", "activity">>)
    /\ Refresh \o <<"assign", "assignable", "activity">> # <<>>
    /\ Head(Refresh \o <<"assign", "assignable", "activity">>) = "issues"
    /\ Orderly(<<"assign", "assignable", "activity">>)
    /\ <<"assign", "assignable", "activity">> # <<>>
    /\ Head(<<"assign", "assignable", "activity">>) = "assign"
    /\ Orderly(<<"openDelete", "children">>) /\ <<"openDelete", "children">> # <<>>
<1> USE DEF Views, Pickers, Loaders
<1>1. Orderly(Refresh) /\ Refresh # <<>> /\ Head(Refresh) = "issues"
  BY DEF Orderly, Placed, Before, Steps, Listings, Documents, Alone, Refresh
<1>2. Orderly(<<"integrity", "git", "connect">>)
  BY DEF Orderly, Placed, Before, Steps, Listings, Documents, Alone
<1>3. /\ Orderly(<<"me">>) /\ Orderly(<<"login">>) /\ <<"me">> # <<>> /\ <<"login">> # <<>>
      /\ Orderly(<<"activity">>) /\ Orderly(<<"git">>)
  BY OneStepIsOrderly DEF Listings
<1>4. /\ Orderly(<<"assign", "assignable", "activity">>)
      /\ <<"assign", "assignable", "activity">> # <<>>
      /\ Head(<<"assign", "assignable", "activity">>) = "assign"
  BY DEF Orderly, Placed, Before, Steps, Listings, Documents, Alone
<1>5. Orderly(<<"openDelete", "children">>) /\ <<"openDelete", "children">> # <<>>
  BY DEF Orderly, Placed, Before, Steps, Listings, Documents, Alone
<1>6. Orderly(Everything)
  <2>1. \A i \in DOMAIN Refresh, j \in DOMAIN <<"integrity", "git", "connect">> :
            Before(Refresh[i], <<"integrity", "git", "connect">>[j])
    BY DEF Before, Refresh
  <2> QED BY <1>1, <1>2, <2>1, JoinedIsOrderly, Zenon DEF Everything
<1>7. /\ Orderly(<<"me">> \o Everything) /\ <<"me">> \o Everything # <<>>
      /\ Orderly(<<"login">> \o Everything) /\ <<"login">> \o Everything # <<>>
  <2>1. \A i \in DOMAIN <<"me">>, j \in DOMAIN Everything : Before(<<"me">>[i], Everything[j])
    BY DEF Before
  <2>2. \A i \in DOMAIN <<"login">>, j \in DOMAIN Everything :
            Before(<<"login">>[i], Everything[j])
    BY DEF Before
  <2> QED BY <1>3, <1>6, <2>1, <2>2, JoinedIsOrderly, Zenon
<1>8. Orderly(Refresh \o <<"activity">>) /\ Orderly(Refresh \o <<"git">>)
  <2>1. \A i \in DOMAIN Refresh, j \in DOMAIN <<"activity">> : Before(Refresh[i], <<"activity">>[j])
    BY DEF Before, Refresh
  <2>2. \A i \in DOMAIN Refresh, j \in DOMAIN <<"git">> : Before(Refresh[i], <<"git">>[j])
    BY DEF Before, Refresh
  <2> QED BY <1>1, <1>3, <2>1, <2>2, JoinedIsOrderly, Zenon
<1>9. /\ Orderly(Refresh \o <<"assign", "assignable", "activity">>)
      /\ Refresh \o <<"assign", "assignable", "activity">> # <<>>
      /\ Head(Refresh \o <<"assign", "assignable", "activity">>) = "issues"
  <2>1. \A i \in DOMAIN Refresh, j \in DOMAIN <<"assign", "assignable", "activity">> :
            Before(Refresh[i], <<"assign", "assignable", "activity">>[j])
    BY DEF Before, Refresh
  <2> QED BY <1>1, <1>4, <2>1, JoinedIsOrderly, Zenon
<1> QED BY <1>1, <1>4, <1>5, <1>7, <1>8, <1>9, Zenon

LEMMA CallLoads ==
    ASSUME NEW todo, Orderly(todo), todo # <<>>, NEW on, NEW by, NEW known, NEW docs, NEW at
    PROVE  Fits(Call(todo, on, by), known, docs, at) /\ Call(todo, on, by).todo = todo
BY DEF Fits, Loads, Call

-----------------------------------------------------------------------------
(* What a step does to the list of tasks.                                  *)

GoesOn(ts, ts2, known, docs, at) ==
    /\ AllFit(ts2, known, docs, at)
    /\ Picking(ts) => Picking(ts2)

LEMMA CallGoesOn ==
    ASSUME NEW ts, NEW known, NEW docs, NEW at, AllFit(ts, known, docs, at),
           NEW todo, Orderly(todo), todo # <<>>, NEW on, NEW by
    PROVE  GoesOn(ts, Append(ts, Call(todo, on, by)), known, docs, at)
<1>1. PICK t : t = Call(todo, on, by)
  OBVIOUS
<1>2. Fits(t, known, docs, at)
  BY <1>1, CallLoads
<1> QED BY <1>1, <1>2, AppendFits DEF GoesOn

LEMMA EndGoesOn ==
    ASSUME NEW ts, NEW known, NEW docs, NEW at, AllFit(ts, known, docs, at),
           NEW i \in DOMAIN ts, Head(ts[i].todo) \notin Pickers
    PROVE  GoesOn(ts, RemoveAt(ts, i), known, docs, at)
BY RemoveFits DEF GoesOn

LEMMA NextCallGoesOn ==
    ASSUME NEW ts, NEW known, NEW docs, NEW at, AllFit(ts, known, docs, at),
           NEW i \in DOMAIN ts, Head(ts[i].todo) \notin Pickers,
           NEW todo, Orderly(todo), todo # <<>>, NEW on
    PROVE  GoesOn(ts, [ts EXCEPT ![i] = Call(todo, on, None)], known, docs, at)
<1>1. PICK t : t = Call(todo, on, None)
  OBVIOUS
<1>2. Fits(t, known, docs, at)
  BY <1>1, CallLoads
<1> QED BY <1>1, <1>2, ReplaceFits DEF GoesOn

Carried(ts, i, todo, on) ==
    IF todo \in {<<>>, <<"connect">>} THEN RemoveAt(ts, i)
    ELSE [ts EXCEPT ![i] = Call(todo, on, None)]
LEMMA ProceedGoesOn ==
    ASSUME NEW ts, NEW known, NEW docs, NEW at, AllFit(ts, known, docs, at),
           NEW i \in DOMAIN ts, Head(ts[i].todo) \notin Pickers,
           NEW todo, Orderly(todo), NEW on
    PROVE  GoesOn(ts, Carried(ts, i, From(todo), on), known, docs, at)
<1>1. Orderly(From(todo))
  BY FromIsOrderly
<1>2. CASE From(todo) \in {<<>>, <<"connect">>}
  BY <1>2, EndGoesOn DEF Carried
<1>3. CASE From(todo) \notin {<<>>, <<"connect">>}
  <2>1. From(todo) # <<>>
    BY <1>3
  <2> QED BY <1>1, <1>3, <2>1, NextCallGoesOn DEF Carried
<1> QED BY <1>2, <1>3

(* An answer arrives, or is lost.                                          *)
Harmless(t, r, docs, at) ==
    Head(t.todo) = "patch" /\ r.status = 412 =>
        \A d \in Issues \ {t.on} : Past(r.tag, d, docs, at)
LEMMA AnsweredFits ==
    ASSUME NEW t, NEW known, NEW docs, NEW at, Fits(t, known, docs, at),
           NEW r, Harmless(t, r, docs, at)
    PROVE  /\ Fits([t EXCEPT !.ans = r], known, docs, at)
           /\ [t EXCEPT !.ans = r].todo = t.todo
<1>1. t = [todo |-> t.todo, on |-> t.on, by |-> t.by, ans |-> t.ans]
  BY HeadOfTask
<1>2. PICK u : u = [t EXCEPT !.ans = r]
  OBVIOUS
<1>3. u = [todo |-> t.todo, on |-> t.on, by |-> t.by, ans |-> r]
  BY <1>1, <1>2
<1>4. /\ u = [todo |-> u.todo, on |-> u.on, by |-> u.by, ans |-> u.ans]
      /\ u.todo = t.todo /\ u.on = t.on /\ u.by = t.by /\ u.ans = r
  BY <1>3
<1>5. Loads(t) => Loads(u)
  BY <1>4, Zenon DEF Loads
<1>6. ASSUME Saves(t, known, docs, at)
      PROVE  Saves(u, known, docs, at)
  <2>1. Head(t.todo) = "patch"
    BY <1>6 DEF Saves
  <2>2. r.status = 412 => \A d \in Issues \ {t.on} : Past(r.tag, d, docs, at)
    BY <2>1 DEF Harmless
  <2>3. /\ t.todo = <<"patch">> /\ t.on \in Issues
        /\ \/ t.by.form = "edit" /\ Safe(t.by.tag, t.on, known, docs, at)
           \/ t.by.form = "assign" /\ (t.by.early = TRUE \/ t.by.tag \in known)
    BY <1>6, Zenon DEF Saves
  <2> QED BY <1>4, <2>2, <2>3, Zenon DEF Saves
<1>7. /\ Deletes(t, known) => Deletes(u, known)
      /\ Creates(t) => Creates(u)
      /\ Comments(t) => Comments(u)
      /\ Edits(t) => Edits(u)
  BY <1>4 DEF Deletes, Creates, Comments, Edits
<1>8. Fits(u, known, docs, at)
  BY <1>4, <1>5, <1>6, <1>7, Zenon DEF Fits
<1> QED BY <1>2, <1>4, <1>8

LEMMA AnswerGoesOn ==
    ASSUME NEW ts, NEW known, NEW docs, NEW at, AllFit(ts, known, docs, at),
           NEW i \in DOMAIN ts, NEW r, Harmless(ts[i], r, docs, at)
    PROVE  GoesOn(ts, [ts EXCEPT ![i].ans = r], known, docs, at)
<1>1. PICK t : t = [ts[i] EXCEPT !.ans = r]
  OBVIOUS
<1>2. Fits(t, known, docs, at) /\ t.todo = ts[i].todo
  BY <1>1, AnsweredFits DEF AllFit
<1>3. [ts EXCEPT ![i].ans = r] = [ts EXCEPT ![i] = t]
  BY <1>1
<1> QED BY <1>2, <1>3, ReplaceFits DEF GoesOn

LEMMA BreakingGoesOn ==
    ASSUME NEW ts, NEW known, NEW docs, NEW at, AllFit(ts, known, docs, at)
    PROVE  GoesOn(ts, [i \in DOMAIN ts |-> [ts[i] EXCEPT !.ans = Lost]], known, docs, at)
<1>1. PICK s : s = [i \in DOMAIN ts |-> [ts[i] EXCEPT !.ans = Lost]]
  OBVIOUS
<1>2. /\ ts \in Seq(Range(ts)) /\ DOMAIN ts = 1..Len(ts) /\ Len(ts) \in Nat
      /\ DOMAIN s = DOMAIN ts
  BY <1>1 DEF AllFit, Tasks
<1>3. \A i \in DOMAIN s : Fits(s[i], known, docs, at) /\ s[i].todo = ts[i].todo
  <2>1. Lost.status = 0
    BY DEF Lost
  <2>2. ASSUME NEW i \in DOMAIN s
        PROVE  Fits(s[i], known, docs, at) /\ s[i].todo = ts[i].todo
    <3>1. Harmless(ts[i], Lost, docs, at)
      BY <2>1 DEF Harmless
    <3>2. s[i] = [ts[i] EXCEPT !.ans = Lost] /\ Fits(ts[i], known, docs, at)
      BY <1>1, <1>2 DEF AllFit
    <3> QED BY <3>1, <3>2, AnsweredFits
  <2> QED BY <2>2
<1>4. Tasks(s)
  <2>1. s \in [1..Len(ts) -> Range(s)]
    BY <1>1, <1>2 DEF Range
  <2> QED BY <1>2, <2>1 DEF Tasks
<1>5. Picking(ts) => Picking(s)
  BY <1>2, <1>3 DEF Picking
<1> QED BY <1>1, <1>3, <1>4, <1>5 DEF GoesOn, AllFit

LEMMA JoinedFit ==
    ASSUME NEW a, NEW b, NEW known, NEW docs, NEW at,
           AllFit(a, known, docs, at), AllFit(b, known, docs, at)
    PROVE  GoesOn(a, a \o b, known, docs, at)
<1> DEFINE m == Len(a)
           n == Len(b)
           S == Range(a) \cup Range(b)
<1>1. /\ a \in Seq(S) /\ m \in Nat /\ DOMAIN a = 1..m
      /\ b \in Seq(S) /\ n \in Nat /\ DOMAIN b = 1..n
  BY DEF AllFit, Tasks
<1> HIDE DEF S
<1>2. PICK s : s = a \o b
  OBVIOUS
<1>3. /\ s \in Seq(S) /\ Len(s) = m + n /\ DOMAIN s = 1..(m + n)
      /\ \A j \in 1..(m + n) : s[j] = IF j <= m THEN a[j] ELSE b[j - m]
  BY <1>1, <1>2, ConcatProperties
<1>4. Tasks(s)
  <2>1. s \in [1..(m + n) -> Range(s)]
    BY <1>3 DEF Range
  <2> QED BY <1>1, <1>3, <2>1 DEF Tasks
<1>5. ASSUME NEW j \in DOMAIN s
      PROVE  Fits(s[j], known, docs, at)
  <2>1. CASE j <= m
    BY <1>1, <1>3, <2>1 DEF AllFit
  <2>2. CASE ~(j <= m)
    <3>1. j - m \in DOMAIN b /\ s[j] = b[j - m]
      BY <1>1, <1>3, <2>2
    <3> QED BY <3>1 DEF AllFit
  <2> QED BY <2>1, <2>2
<1>6. Picking(a) => Picking(s)
  <2>1. \A j \in DOMAIN a : j \in DOMAIN s /\ s[j] = a[j]
    BY <1>1, <1>3
  <2> QED BY <2>1, Zenon DEF Picking
<1> QED BY <1>2, <1>4, <1>5, <1>6 DEF AllFit, GoesOn

LEMMA OneTaskFits ==
    ASSUME NEW todo, Orderly(todo), todo # <<>>, NEW on, NEW known, NEW docs, NEW at
    PROVE  AllFit(<<Call(todo, on, None)>>, known, docs, at)
<1>1. PICK t : t = Call(todo, on, None)
  OBVIOUS
<1>2. Fits(t, known, docs, at)
  BY <1>1, CallLoads
<1>3. PICK s : s = <<t>>
  OBVIOUS
<1>4. s \in Seq({t}) /\ DOMAIN s = {1} /\ s[1] = t
  BY <1>3
<1>5. Range(s) = {t}
  BY <1>4 DEF Range
<1> QED BY <1>1, <1>2, <1>3, <1>4, <1>5 DEF AllFit, Tasks

LEMMA NoTasksFit ==
    ASSUME NEW known, NEW docs, NEW at
    PROVE  AllFit(<<>>, known, docs, at)
BY DEF AllFit, Tasks

LEMMA PanelsFit ==
    ASSUME NEW known, NEW docs, NEW at, NEW panels, panels = SetToSeq(Panels)
    PROVE  AllFit([j \in DOMAIN panels |-> Call(<<panels[j]>>, None, None)], known, docs, at)
<1> DEFINE n == Cardinality(Panels)
<1>1. IsFiniteSet(Panels) /\ n \in Nat
  <2>1. IsFiniteSet({"integrity", "git"})
    <3>1. IsFiniteSet({"integrity"})
      BY FS_Singleton
    <3>2. IsFiniteSet({"integrity"} \cup {"git"})
      BY <3>1, FS_AddElement
    <3>3. {"integrity"} \cup {"git"} = {"integrity", "git"}
      OBVIOUS
    <3> QED BY <3>2, <3>3
  <2>2. IsFiniteSet(Panels)
    BY <2>1, PanelsAssumption, FS_Subset
  <2> QED BY <2>2, FS_CardinalityType
<1>2. \E f \in [1..n -> Panels] : IsInjective(f)
  <2>1. ExistsBijection(1..n, Panels)
    BY <1>1, FS_CardinalityType
  <2> QED BY <2>1 DEF ExistsBijection, Bijection, Injection
<1>3. panels = CHOOSE f \in [1..n -> Panels] : IsInjective(f)
  BY DEF SetToSeq
<1> HIDE DEF n
<1>4. panels \in [1..n -> Panels]
  BY <1>2, <1>3
<1>5. PICK s : s = [j \in DOMAIN panels |-> Call(<<panels[j]>>, None, None)]
  OBVIOUS
<1>6. DOMAIN s = 1..n
  BY <1>4, <1>5
<1>7. Tasks(s)
  <2>1. s \in [1..n -> Range(s)]
    BY <1>4, <1>5 DEF Range
  <2> QED BY <1>1, <2>1 DEF Tasks
<1>8. ASSUME NEW j \in DOMAIN s
      PROVE  Fits(s[j], known, docs, at)
  <2>1. panels[j] \in {"integrity", "git"}
    BY <1>4, <1>6, PanelsAssumption
  <2>2. Orderly(<<panels[j]>>) /\ <<panels[j]>> # <<>>
    BY <2>1, OneStepIsOrderly DEF Listings
  <2>3. s[j] = Call(<<panels[j]>>, None, None)
    BY <1>4, <1>5, <1>6
  <2> QED BY <2>2, <2>3, CallLoads
<1> QED BY <1>5, <1>7, <1>8 DEF AllFit

-----------------------------------------------------------------------------
(* What a step leaves as it was.                                           *)

Onward == Later(seen, files, now, seen', files', now')

LEMMA NoWriteIsOnward ==
    ASSUME FormsInv, files' = files, now' = now, seen \subseteq seen'
    PROVE  Onward /\ Versions(files', now')
BY DEF FormsInv, FormTypes, Onward, Later

LEMMA TasksStillFit ==
    ASSUME FormsInv, Onward
    PROVE  AllFit(tasks, seen', files', now')
BY LaterTasksFit DEF FormsInv, Onward

SamePickers == assign'.tag = assign.tag /\ assign'.painted = assign.painted

LEMMA Untouched ==
    ASSUME FormsInv, Onward
    PROVE  /\ edit' = edit => EditIsSafe'
           /\ remove' = remove => DialogIsSeen'
           /\ SamePickers /\ GoesOn(tasks, tasks', seen', files', now') => PickersAreSeen'
           /\ created' = created /\ replied \subseteq replied' => KeysAreKept'
           /\ replaced' = replaced /\ hasty' = hasty => NothingUnseenIsOverwritten'
           /\ timeline' = timeline /\ detail' \in {detail, None} => TimelineIsItsIssues'
<1>1. seen \subseteq seen'
  BY DEF Onward, Later
<1>2. ASSUME edit' = edit
      PROVE  EditIsSafe'
  <2>1. SUFFICES ASSUME edit.key # None
                 PROVE  Safe(edit.tag, edit.key, seen', files', now')
    BY <1>2 DEF EditIsSafe
  <2>2. edit.key \in Issues /\ Safe(edit.tag, edit.key, seen, files, now)
    BY <2>1 DEF FormsInv, FormTypes, EditIsSafe
  <2> QED BY <2>2, SafeStays DEF Onward
<1>3. remove' = remove => DialogIsSeen'
  BY <1>1 DEF FormsInv, DialogIsSeen
<1>4. ASSUME SamePickers, GoesOn(tasks, tasks', seen', files', now')
      PROVE  PickersAreSeen'
  <2>1. Picking(tasks) => Picking(tasks')
    BY <1>4 DEF GoesOn
  <2>2. assign.painted = TRUE => assign.tag \in seen \/ Picking(tasks)
    BY DEF FormsInv, PickersAreSeen
  <2>3. assign'.painted = TRUE => assign'.tag \in seen' \/ Picking(tasks')
    BY <1>1, <1>4, <2>1, <2>2 DEF SamePickers
  <2> QED BY <2>3, Zenon DEF PickersAreSeen, Picking
<1>5. created' = created /\ replied \subseteq replied' => KeysAreKept'
  BY DEF FormsInv, KeysAreKept
<1>6. replaced' = replaced /\ hasty' = hasty => NothingUnseenIsOverwritten'
  BY <1>1 DEF FormsInv, NothingUnseenIsOverwritten
<1>7. timeline' = timeline /\ detail' \in {detail, None} => TimelineIsItsIssues'
  BY DEF FormsInv, TimelineIsItsIssues
<1> QED BY <1>2, <1>3, <1>4, <1>5, <1>6, <1>7

(* The pickers of the detail, unless it is they that are loaded.           *)
AssignKept ==
    \/ assign' = assign
    \/ assign' = [assign EXCEPT !.key = detail]
    \/ assign' = [assign EXCEPT !.key = detail']

LEMMA AssignParts ==
    ASSUME FormsInv, AssignKept, detail' \in Issues \cup {None}
    PROVE  /\ SamePickers
           /\ assign' = [key |-> assign'.key, tag |-> assign'.tag, painted |-> assign'.painted,
                         busy |-> assign'.busy]
           /\ assign'.key \in Issues \cup {None} /\ assign'.painted \in BOOLEAN
<1>1. /\ assign = [key |-> assign.key, tag |-> assign.tag, painted |-> assign.painted,
                   busy |-> assign.busy]
      /\ assign.key \in Issues \cup {None} /\ detail \in Issues \cup {None}
      /\ assign.painted \in BOOLEAN
  BY DEF FormsInv, FormTypes
<1>2. CASE assign' = assign
  BY <1>1, <1>2, Zenon DEF SamePickers
<1>3. ASSUME NEW d \in Issues \cup {None}, assign' = [assign EXCEPT !.key = d]
      PROVE  /\ SamePickers
             /\ assign' = [key |-> assign'.key, tag |-> assign'.tag, painted |-> assign'.painted,
                           busy |-> assign'.busy]
             /\ assign'.key \in Issues \cup {None} /\ assign'.painted \in BOOLEAN
  <2>1. assign' = [key |-> d, tag |-> assign.tag, painted |-> assign.painted,
                   busy |-> assign.busy]
    BY <1>1, <1>3
  <2>2. /\ assign'.key = d /\ assign'.tag = assign.tag
        /\ assign'.painted = assign.painted /\ assign'.busy = assign.busy
    BY <2>1
  <2> QED BY <1>1, <2>1, <2>2, Zenon DEF SamePickers
<1> QED BY <1>1, <1>2, <1>3, Zenon DEF AssignKept

(* A step in which no form has a part.                                     *)
LEMMA WindowKeeps ==
    ASSUME FormsInv, WindowOnly, Onward, Versions(files', now'), AssignKept,
           GoesOn(tasks, tasks', seen', files', now'),
           detail' \in Issues \cup {None}, TimelineIsItsIssues'
    PROVE  FormsInv'
<1>1. /\ edit' = edit /\ remove' = remove /\ replied' = replied
      /\ created' = created /\ replaced' = replaced /\ hasty' = hasty
  BY DEF WindowOnly, forms, served, formHistory
<1>2. SamePickers
  BY AssignParts
<1>3. FormTypes'
  <2>1. /\ assign' = [key |-> assign'.key, tag |-> assign'.tag, painted |-> assign'.painted,
                      busy |-> assign'.busy]
        /\ assign'.key \in Issues \cup {None} /\ assign'.painted \in BOOLEAN
    BY AssignParts
  <2>2. FormTypes /\ now' \in Int /\ files' \in [Issues -> Int \cup {None}]
    BY DEF FormsInv, Onward, Later
  <2> QED BY <1>1, <2>1, <2>2, Zenon DEF FormTypes
<1>4. /\ EditIsSafe' /\ DialogIsSeen' /\ PickersAreSeen' /\ KeysAreKept'
      /\ NothingUnseenIsOverwritten'
  BY <1>1, <1>2, Untouched
<1>5. AllFit(tasks', seen', files', now')
  BY DEF GoesOn
<1> QED BY <1>3, <1>4, <1>5, Zenon DEF FormsInv

-----------------------------------------------------------------------------
(* The steps in which no form has a part: loaders.                         *)

LEMMA LandedTask ==
    ASSUME FormsInv, NEW i \in DOMAIN tasks, NEW step, step \notin Alone, Landed(i, step)
    PROVE  /\ Head(tasks[i].todo) = step /\ Loads(tasks[i])
           /\ Orderly(Rest(i))
           /\ step \in {"issues", "assign", "openDelete"} => Rest(i) # <<>>
           /\ step = "assign" => Head(Rest(i)) = "assignable"
<1>1. Head(tasks[i].todo) = step
  BY DEF Landed
<1>2. Loads(tasks[i])
  BY <1>1, HeadOfTask DEF FormsInv, AllFit
<1>3. Orderly(tasks[i].todo) /\ tasks[i].todo # <<>>
  BY <1>2 DEF Loads
<1> QED BY <1>1, <1>2, <1>3, TailIsOrderly DEF Rest

(* A loader has its answer: it goes on with what follows, or ends.         *)
LEMMA LoaderLands ==
    ASSUME FormsInv, WindowOnly, AssignKept, TimelineIsItsIssues',
           files' = files, now' = now, seen' = seen, detail' = detail,
           NEW i \in DOMAIN tasks, NEW step, step \notin Alone \cup Pickers, Landed(i, step),
           \/ tasks' = RemoveAt(tasks, i)
           \/ tasks' = Carried(tasks, i, From(Rest(i)), detail)
           \/ step = "issues" /\ tasks' = Carried(tasks, i, From(Tail(Rest(i))), detail)
    PROVE  FormsInv'
<1>1. /\ Head(tasks[i].todo) \notin Pickers /\ Orderly(Rest(i))
      /\ step = "issues" => Rest(i) # <<>>
  BY LandedTask
<1>2. Onward /\ Versions(files', now')
  BY NoWriteIsOnward
<1>3. AllFit(tasks, seen', files', now')
  BY <1>2, TasksStillFit
<1>4. step = "issues" => Orderly(Tail(Rest(i)))
  BY <1>1, TailIsOrderly
<1>5. GoesOn(tasks, tasks', seen', files', now')
  <2>1. CASE tasks' = RemoveAt(tasks, i)
    BY <1>1, <1>3, <2>1, EndGoesOn
  <2>2. CASE tasks' = Carried(tasks, i, From(Rest(i)), detail)
    BY <1>1, <1>3, <2>2, ProceedGoesOn
  <2>3. CASE step = "issues" /\ tasks' = Carried(tasks, i, From(Tail(Rest(i))), detail)
    BY <1>1, <1>3, <1>4, <2>3, ProceedGoesOn
  <2> QED BY <2>1, <2>2, <2>3
<1>6. detail' \in Issues \cup {None}
  BY DEF FormsInv, FormTypes
<1> QED BY <1>2, <1>5, <1>6, WindowKeeps

LEMMA SameTimeline ==
    ASSUME FormsInv, timeline' = timeline, detail' \in {detail, None}
    PROVE  TimelineIsItsIssues'
BY DEF FormsInv, TimelineIsItsIssues

LEMMA meLandsKeeps ==
    ASSUME FormsInv, WindowOnly, NEW i \in DOMAIN tasks, meLands(i)
    PROVE  FormsInv'
<1>1. files' = files /\ seen' = seen /\ detail' = detail /\ timeline' = timeline
  BY DEF meLands, windowHistory
<1>2. now' = now
  BY DEF meLands, Proceed, newSource, streamVars
<1>3. tasks' = RemoveAt(tasks, i) \/ tasks' = Carried(tasks, i, From(Rest(i)), detail)
  BY DEF meLands, Proceed, Carried
<1>4. AssignKept
  BY DEF meLands, Proceed, AssignKept
<1>5. Landed(i, "me")
  BY DEF meLands
<1> QED BY <1>1, <1>2, <1>3, <1>4, <1>5, SameTimeline, LoaderLands DEF Alone, Pickers

LEMMA loginLandsKeeps ==
    ASSUME FormsInv, WindowOnly, NEW i \in DOMAIN tasks, loginLands(i)
    PROVE  FormsInv'
<1>1. files' = files /\ seen' = seen /\ detail' = detail /\ timeline' = timeline
  BY DEF loginLands, windowHistory
<1>2. now' = now
  BY DEF loginLands, Proceed, newSource, streamVars
<1>3. tasks' = RemoveAt(tasks, i) \/ tasks' = Carried(tasks, i, From(Rest(i)), detail)
  BY DEF loginLands, Proceed, Carried
<1>4. AssignKept
  BY DEF loginLands, Proceed, AssignKept
<1>5. Landed(i, "login")
  BY DEF loginLands
<1> QED BY <1>1, <1>2, <1>3, <1>4, <1>5, SameTimeline, LoaderLands DEF Alone, Pickers

LEMMA logoutLandsKeeps ==
    ASSUME FormsInv, WindowOnly, NEW i \in DOMAIN tasks, logoutLands(i)
    PROVE  FormsInv'
<1>1. /\ files' = files /\ seen' = seen /\ detail' = detail /\ timeline' = timeline
      /\ now' = now /\ AssignKept /\ tasks' = RemoveAt(tasks, i)
  BY DEF logoutLands, windowHistory, streamVars, AssignKept
<1>2. Landed(i, "logout")
  BY DEF logoutLands
<1> QED BY <1>1, <1>2, SameTimeline, LoaderLands DEF Alone, Pickers

LEMMA issuesLandKeeps ==
    ASSUME FormsInv, WindowOnly, NEW i \in DOMAIN tasks, issuesLand(i)
    PROVE  FormsInv'
<1>1. files' = files /\ seen' = seen /\ detail' = detail /\ timeline' = timeline
  BY DEF issuesLand
<1>2. now' = now
  BY DEF issuesLand, Proceed, newSource, closeSource, streamVars
<1>3. \/ tasks' = Carried(tasks, i, From(Rest(i)), detail)
      \/ tasks' = Carried(tasks, i, From(Tail(Rest(i))), detail)
  BY DEF issuesLand, Proceed, Carried
<1>4. AssignKept
  BY DEF issuesLand, Proceed, AssignKept
<1>5. Landed(i, "issues")
  BY DEF issuesLand
<1> QED BY <1>1, <1>2, <1>3, <1>4, <1>5, SameTimeline, LoaderLands DEF Alone, Pickers

LEMMA boardLandsKeeps ==
    ASSUME FormsInv, WindowOnly, NEW i \in DOMAIN tasks, boardLands(i)
    PROVE  FormsInv'
<1>1. files' = files /\ seen' = seen /\ detail' = detail /\ timeline' = timeline
  BY DEF boardLands
<1>2. now' = now
  BY DEF boardLands, Proceed, newSource, streamVars
<1>3. tasks' = Carried(tasks, i, From(Rest(i)), detail) /\ AssignKept
  BY DEF boardLands, Proceed, Carried, AssignKept
<1>4. Landed(i, "board")
  BY DEF boardLands
<1> QED BY <1>1, <1>2, <1>3, <1>4, SameTimeline, LoaderLands DEF Alone, Pickers

LEMMA panelLandsKeeps ==
    ASSUME FormsInv, WindowOnly, NEW i \in DOMAIN tasks, NEW v, panelLands(i, v)
    PROVE  FormsInv'
<1>1. files' = files /\ seen' = seen /\ detail' = detail /\ timeline' = timeline
  BY DEF panelLands
<1>2. now' = now
  BY DEF panelLands, Proceed, newSource, streamVars
<1>3. tasks' = Carried(tasks, i, From(Rest(i)), detail) /\ AssignKept
  BY DEF panelLands, Proceed, Carried, AssignKept
<1>4. Landed(i, v) /\ v \in {"integrity", "git"}
  BY DEF panelLands
<1> QED BY <1>1, <1>2, <1>3, <1>4, SameTimeline, LoaderLands DEF Alone, Pickers

(* loadActivity paints the issue that is open, and no other.               *)
LEMMA activityLandsKeeps ==
    ASSUME FormsInv, WindowOnly, NEW i \in DOMAIN tasks, activityLands(i)
    PROVE  FormsInv'
<1>1. files' = files /\ seen' = seen /\ detail' = detail
  BY DEF activityLands
<1>2. now' = now
  BY DEF activityLands, Proceed, newSource, streamVars
<1>3. tasks' = Carried(tasks, i, From(Rest(i)), detail) /\ AssignKept
  BY DEF activityLands, Proceed, Carried, AssignKept
<1>4. Landed(i, "activity")
  BY DEF activityLands
<1>5. TimelineIsItsIssues'
  <2>1. CASE Status(i) = 200 /\ StillOpen(i)
    <3>1. timeline' = [of |-> tasks[i].on] /\ detail = tasks[i].on
      BY <2>1 DEF activityLands, StillOpen
    <3> QED BY <1>1, <3>1 DEF TimelineIsItsIssues
  <2>2. CASE ~(Status(i) = 200 /\ StillOpen(i))
    BY <1>1, <2>2, SameTimeline DEF activityLands
  <2> QED BY <2>1, <2>2
<1> QED BY <1>1, <1>2, <1>3, <1>4, <1>5, LoaderLands DEF Alone, Pickers

LEMMA checkLandsKeeps ==
    ASSUME FormsInv, WindowOnly, NEW i \in DOMAIN tasks, checkLands(i)
    PROVE  FormsInv'
<1>1. /\ files' = files /\ seen' = seen /\ detail' = detail /\ timeline' = timeline
      /\ AssignKept /\ tasks' = RemoveAt(tasks, i)
  BY DEF checkLands, AssignKept
<1>2. now' = now
  BY DEF checkLands, closeSource, streamVars
<1>3. Landed(i, "check")
  BY DEF checkLands
<1> QED BY <1>1, <1>2, <1>3, SameTimeline, LoaderLands DEF Alone, Pickers

-----------------------------------------------------------------------------
(* The loaders of the pickers.                                             *)

AssignShape(a) ==
    /\ a = [key |-> a.key, tag |-> a.tag, painted |-> a.painted, busy |-> a.busy]
    /\ a.key \in Issues \cup {None} /\ a.painted \in BOOLEAN

LEMMA PickersKeep ==
    ASSUME FormsInv, WindowOnly, files' = files, now' = now, seen \subseteq seen',
           detail' = detail, timeline' = timeline,
           AllFit(tasks', seen', files', now'), AssignShape(assign'), PickersAreSeen'
    PROVE  FormsInv'
<1>1. /\ edit' = edit /\ remove' = remove /\ replied' = replied
      /\ created' = created /\ replaced' = replaced /\ hasty' = hasty
  BY DEF WindowOnly, forms, served, formHistory
<1>2. Onward /\ Versions(files', now')
  BY NoWriteIsOnward
<1>3. FormTypes'
  <2>1. FormTypes
    BY DEF FormsInv
  <2> QED BY <1>1, <2>1, Zenon DEF FormTypes, AssignShape
<1>4. EditIsSafe' /\ DialogIsSeen' /\ KeysAreKept' /\ NothingUnseenIsOverwritten'
      /\ TimelineIsItsIssues'
  BY <1>1, <1>2, Untouched
<1> QED BY <1>2, <1>3, <1>4, Zenon DEF FormsInv

(* The version is kept with the first answer; until the second has come    *)
(* the loader itself says that it is not on the screen.                    *)
LEMMA assignLandsKeeps ==
    ASSUME FormsInv, WindowOnly, NEW i \in DOMAIN tasks, assignLands(i)
    PROVE  FormsInv'
<1>1. /\ files' = files /\ now' = now /\ seen' = seen /\ detail' = detail
      /\ timeline' = timeline /\ Landed(i, "assign")
  BY DEF assignLands, windowHistory, streamVars
<1>2. /\ Head(tasks[i].todo) = "assign" /\ Orderly(Rest(i)) /\ Rest(i) # <<>>
      /\ Head(Rest(i)) = "assignable"
  BY <1>1, LandedTask DEF Alone
<1>3. AllFit(tasks, seen', files', now')
  BY <1>1, NoWriteIsOnward, TasksStillFit
<1>4. AssignShape(assign)
  BY Zenon DEF AssignShape, FormsInv, FormTypes
<1>5. CASE Status(i) = 200
  <2>1. PICK t : t = Call(Rest(i), tasks[i].on, None)
    OBVIOUS
  <2>2. Fits(t, seen', files', now') /\ t.todo = Rest(i)
    BY <1>2, <2>1, CallLoads
  <2>3. tasks' = [tasks EXCEPT ![i] = t]
    BY <1>5, <2>1 DEF assignLands
  <2>4. AllFit(tasks', seen', files', now') /\ Picking(tasks')
    BY <1>2, <1>3, <2>2, <2>3, ReplaceFits DEF Pickers
  <2>5. assign' = [assign EXCEPT !.tag = tasks[i].ans.tag]
    BY <1>5 DEF assignLands
  <2>6. AssignShape(assign')
    BY <1>4, <2>5 DEF AssignShape
  <2>7. PickersAreSeen'
    BY <2>4, Zenon DEF PickersAreSeen, Picking
  <2> QED BY <1>1, <2>4, <2>6, <2>7, PickersKeep
<1>6. CASE Status(i) # 200
  <2>1. PICK rest : rest = From(Tail(Rest(i)))
    OBVIOUS
  <2>2. Orderly(rest)
    BY <1>2, <2>1, TailIsOrderly, FromIsOrderly
  <2>3. tasks' = IF rest = <<>> THEN RemoveAt(tasks, i)
                 ELSE [tasks EXCEPT ![i] = Call(rest, detail, None)]
    BY <1>6, <2>1 DEF assignLands
  <2>4. AllFit(tasks', seen', files', now')
    <3>1. CASE rest = <<>>
      BY <1>3, <2>3, <3>1, RemoveFits
    <3>2. CASE rest # <<>>
      <4>1. PICK t : t = Call(rest, detail, None)
        OBVIOUS
      <4>2. Fits(t, seen', files', now')
        BY <2>2, <3>2, <4>1, CallLoads
      <4> QED BY <1>3, <2>3, <3>2, <4>1, <4>2, ReplaceFits
    <3> QED BY <3>1, <3>2
  <2>5. assign' = [assign EXCEPT !.painted = FALSE]
    BY <1>6 DEF assignLands
  <2>6. AssignShape(assign') /\ assign'.painted = FALSE
    BY <1>4, <2>5 DEF AssignShape
  <2>7. PickersAreSeen'
    BY <2>6 DEF PickersAreSeen
  <2> QED BY <1>1, <2>4, <2>6, <2>7, PickersKeep
<1> QED BY <1>5, <1>6

LEMMA assignableLandsKeeps ==
    ASSUME FormsInv, WindowOnly, NEW i \in DOMAIN tasks, assignableLands(i)
    PROVE  FormsInv'
<1>1. /\ files' = files /\ now' = now /\ seen \subseteq seen' /\ detail' = detail
      /\ timeline' = timeline /\ Landed(i, "assignable")
  BY DEF assignableLands, streamVars
<1>2. Orderly(Rest(i))
  BY <1>1, LandedTask DEF Alone
<1>3. AllFit(tasks, seen', files', now')
  BY <1>1, NoWriteIsOnward, TasksStillFit
<1>4. AssignShape(assign)
  BY Zenon DEF AssignShape, FormsInv, FormTypes
<1>5. PICK rest : rest = From(Rest(i))
  OBVIOUS
<1>6. Orderly(rest)
  BY <1>2, <1>5, FromIsOrderly
<1>7. tasks' = IF rest = <<>> THEN RemoveAt(tasks, i)
               ELSE [tasks EXCEPT ![i] = Call(rest, detail, None)]
  BY <1>5 DEF assignableLands
<1>8. AllFit(tasks', seen', files', now')
  <2>1. CASE rest = <<>>
    BY <1>3, <1>7, <2>1, RemoveFits
  <2>2. CASE rest # <<>>
    <3>1. PICK t : t = Call(rest, detail, None)
      OBVIOUS
    <3>2. Fits(t, seen', files', now')
      BY <1>6, <2>2, <3>1, CallLoads
    <3> QED BY <1>3, <1>7, <2>2, <3>1, <3>2, ReplaceFits
  <2> QED BY <2>1, <2>2
<1>9. PICK ok \in BOOLEAN : ok = (Status(i) = 200)
  OBVIOUS
<1>10. assign' = [assign EXCEPT !.painted = ok]
  BY <1>9 DEF assignableLands
<1>11. AssignShape(assign') /\ assign'.painted = ok /\ assign'.tag = assign.tag
  BY <1>4, <1>10 DEF AssignShape
<1>12. ok = TRUE => assign.tag \in seen'
  BY <1>9 DEF assignableLands
<1>13. PickersAreSeen'
  BY <1>11, <1>12 DEF PickersAreSeen
<1> QED BY <1>1, <1>8, <1>11, <1>13, PickersKeep

-----------------------------------------------------------------------------
(* The other steps in which no form has a part.                            *)

(* One that leaves the documents alone and starts, answers or breaks tasks. *)
LEMMA QuietStepKeeps ==
    ASSUME FormsInv, WindowOnly, files' = files, now' = now, seen' = seen, AssignKept,
           detail' \in Issues \cup {None}, TimelineIsItsIssues',
           AllFit(tasks, seen', files', now') => GoesOn(tasks, tasks', seen', files', now')
    PROVE  FormsInv'
<1>1. Onward /\ Versions(files', now')
  BY NoWriteIsOnward
<1>2. AllFit(tasks, seen', files', now')
  BY <1>1, TasksStillFit
<1> QED BY <1>1, <1>2, WindowKeeps

LEMMA SameTasks ==
    ASSUME NEW ts, NEW known, NEW docs, NEW at, AllFit(ts, known, docs, at)
    PROVE  GoesOn(ts, ts, known, docs, at)
BY DEF GoesOn

LEMMA CutIsQuiet ==
    ASSUME cut \/ disconnect \/ closeSource \/ attach \/ refuse \/ restart \/ receive
           \/ UNCHANGED streamVars
    PROVE  now' = now
BY DEF cut, disconnect, closeSource, attach, refuse, restart, receive, streamVars

(* An answer that is no refusal of a save.                                 *)
LEMMA PlainAnswer ==
    ASSUME NEW i \in DOMAIN tasks, NEW status, status # 412, NEW tag, Answer(i, status, tag),
           NEW known, NEW docs, NEW at, AllFit(tasks, known, docs, at)
    PROVE  GoesOn(tasks, tasks', known, docs, at)
<1>1. PICK r : r = [status |-> status, at |-> now, tag |-> tag]
  OBVIOUS
<1>2. tasks' = [tasks EXCEPT ![i].ans = r]
  BY <1>1 DEF Answer
<1>3. Harmless(tasks[i], r, docs, at)
  BY <1>1 DEF Harmless
<1> QED BY <1>2, <1>3, AnswerGoesOn

LEMMA readKeeps ==
    ASSUME FormsInv, WindowOnly, NEW i \in DOMAIN tasks, read(i)
    PROVE  FormsInv'
<1>1. /\ files' = files /\ now' = now /\ seen' = seen /\ detail' = detail
      /\ timeline' = timeline /\ AssignKept
  BY DEF read, streamVars, shown, windowHistory, AssignKept
<1>2. PICK status, tag : Answer(i, status, tag) /\ status # 412
  BY DEF read
<1>3. AllFit(tasks, seen', files', now') => GoesOn(tasks, tasks', seen', files', now')
  BY <1>2, PlainAnswer
<1>4. detail' \in Issues \cup {None} /\ TimelineIsItsIssues'
  BY <1>1, SameTimeline DEF FormsInv, FormTypes
<1> QED BY <1>1, <1>3, <1>4, QuietStepKeeps

LEMMA signInKeeps ==
    ASSUME FormsInv, WindowOnly, NEW i \in DOMAIN tasks, signIn(i) \/ signOut(i)
    PROVE  FormsInv'
<1>1. /\ files' = files /\ seen' = seen /\ detail' = detail
      /\ timeline' = timeline /\ AssignKept
  BY DEF signIn, signOut, shown, windowHistory, AssignKept
<1>2. now' = now
  BY CutIsQuiet DEF signIn, signOut
<1>3. Answer(i, 200, None)
  BY DEF signIn, signOut
<1>4. AllFit(tasks, seen', files', now') => GoesOn(tasks, tasks', seen', files', now')
  BY <1>3, PlainAnswer
<1>5. detail' \in Issues \cup {None} /\ TimelineIsItsIssues'
  BY <1>1, SameTimeline DEF FormsInv, FormTypes
<1> QED BY <1>1, <1>2, <1>4, <1>5, QuietStepKeeps

(* A function is started.                                                  *)
LEMMA StartKeeps ==
    ASSUME FormsInv, WindowOnly, files' = files, now' = now, seen' = seen, AssignKept,
           detail' \in Issues \cup {None}, TimelineIsItsIssues',
           NEW todo, Orderly(todo), todo # <<>>, NEW on,
           tasks' = Append(tasks, Call(todo, on, None))
    PROVE  FormsInv'
<1>1. AllFit(tasks, seen', files', now') => GoesOn(tasks, tasks', seen', files', now')
  BY CallGoesOn
<1> QED BY <1>1, QuietStepKeeps

LEMMA loginKeeps ==
    ASSUME FormsInv, WindowOnly, login
    PROVE  FormsInv'
<1>1. /\ files' = files /\ now' = now /\ seen' = seen /\ detail' = detail
      /\ timeline' = timeline /\ AssignKept
  BY DEF login, streamVars, shown, windowHistory, AssignKept
<1>2. tasks' = Append(tasks, Call(<<"login">> \o Everything, None, None))
  BY DEF login
<1>3. detail' \in Issues \cup {None} /\ TimelineIsItsIssues'
  BY <1>1, SameTimeline DEF FormsInv, FormTypes
<1>4. Orderly(<<"login">> \o Everything) /\ <<"login">> \o Everything # <<>>
  BY ListsAreOrderly
<1> QED BY <1>1, <1>2, <1>3, <1>4, StartKeeps

LEMMA logoutKeeps ==
    ASSUME FormsInv, WindowOnly, logout
    PROVE  FormsInv'
<1>1. /\ files' = files /\ seen' = seen /\ detail' = detail
      /\ timeline' = timeline /\ AssignKept
  BY DEF logout, shown, windowHistory, AssignKept
<1>2. now' = now
  BY CutIsQuiet DEF logout
<1>3. tasks' = Append(tasks, Call(<<"logout">>, None, None))
  BY DEF logout
<1>4. detail' \in Issues \cup {None} /\ TimelineIsItsIssues'
  BY <1>1, SameTimeline DEF FormsInv, FormTypes
<1>5. Orderly(<<"logout">>) /\ <<"logout">> # <<>>
  BY OneStepIsOrderly
<1> QED BY <1>1, <1>2, <1>3, <1>4, <1>5, StartKeeps

LEMMA switchViewKeeps ==
    ASSUME FormsInv, WindowOnly, switchView
    PROVE  FormsInv'
<1>1. /\ files' = files /\ now' = now /\ seen' = seen /\ detail' = detail
      /\ timeline' = timeline /\ AssignKept
  BY DEF switchView, streamVars, AssignKept
<1>2. tasks' = Append(tasks, Call(Refresh, None, None))
  BY DEF switchView
<1>3. detail' \in Issues \cup {None} /\ TimelineIsItsIssues'
  BY <1>1, SameTimeline DEF FormsInv, FormTypes
<1> QED BY <1>1, <1>2, <1>3, ListsAreOrderly, StartKeeps

(* The activity of the issue before is not kept.                           *)
LEMMA openDetailKeeps ==
    ASSUME FormsInv, WindowOnly, NEW d \in Issues, openDetail(d)
    PROVE  FormsInv'
<1>1. /\ files' = files /\ now' = now /\ seen' = seen /\ detail' = d
      /\ timeline' = None /\ assign' = [assign EXCEPT !.key = d]
  BY DEF openDetail, streamVars
<1>2. tasks' = Append(tasks, Call(<<"assign", "assignable", "activity">>, d, None))
  BY DEF openDetail
<1>3. detail' \in Issues \cup {None} /\ TimelineIsItsIssues' /\ AssignKept
  BY <1>1 DEF TimelineIsItsIssues, AssignKept
<1> QED BY <1>1, <1>2, <1>3, ListsAreOrderly, StartKeeps

LEMMA closeDetailKeeps ==
    ASSUME FormsInv, WindowOnly, closeDetail
    PROVE  FormsInv'
<1>1. /\ files' = files /\ now' = now /\ seen' = seen /\ detail' = None
      /\ timeline' = timeline /\ AssignKept /\ tasks' = tasks
  BY DEF closeDetail, streamVars, windowHistory, AssignKept
<1>2. detail' \in Issues \cup {None} /\ TimelineIsItsIssues'
  BY <1>1, SameTimeline
<1>3. AllFit(tasks, seen', files', now') => GoesOn(tasks, tasks', seen', files', now')
  BY <1>1, SameTasks
<1> QED BY <1>1, <1>2, <1>3, QuietStepKeeps

(* The stream ends, and the window asks who it is.                         *)
LEMMA AskingGoesOn ==
    ASSUME NEW ts, NEW known, NEW docs, NEW at, AllFit(ts, known, docs, at), NEW on
    PROVE  GoesOn(ts, Append(ts, Call(<<"check">>, on, None)), known, docs, at)
<1>1. Orderly(<<"check">>) /\ <<"check">> # <<>>
  BY OneStepIsOrderly DEF Listings
<1> QED BY <1>1, CallGoesOn

LEMMA StreamFaultKeeps ==
    ASSUME FormsInv, WindowOnly, Drop \/ SessionEnds \/ Connect
    PROVE  FormsInv'
<1>1. /\ files' = files /\ seen' = seen /\ detail' = detail
      /\ timeline' = timeline /\ AssignKept
  BY DEF Drop, SessionEnds, Connect, shown, windowHistory, AssignKept
<1>2. now' = now
  BY CutIsQuiet DEF Drop, SessionEnds, Connect
<1>3. tasks' = tasks \/ tasks' = Append(tasks, Call(<<"check">>, source.which, None))
  BY DEF Drop, SessionEnds, Connect, handleStreamError
<1>4. detail' \in Issues \cup {None} /\ TimelineIsItsIssues'
  BY <1>1, SameTimeline DEF FormsInv, FormTypes
<1>5. AllFit(tasks, seen', files', now') => GoesOn(tasks, tasks', seen', files', now')
  BY <1>3, SameTasks, AskingGoesOn
<1> QED BY <1>1, <1>2, <1>4, <1>5, QuietStepKeeps

LEMMA RestartKeeps ==
    ASSUME FormsInv, WindowOnly, Restart
    PROVE  FormsInv'
<1>1. /\ files' = files /\ seen' = seen /\ detail' = detail
      /\ timeline' = timeline /\ AssignKept
  BY DEF Restart, shown, windowHistory, AssignKept
<1>2. now' = now
  BY CutIsQuiet DEF Restart
<1>3. PICK broken : broken = [i \in DOMAIN tasks |-> [tasks[i] EXCEPT !.ans = Lost]]
  OBVIOUS
<1>4. tasks' = broken \/ tasks' = Append(broken, Call(<<"check">>, source.which, None))
  BY <1>3 DEF Restart
<1>5. detail' \in Issues \cup {None} /\ TimelineIsItsIssues'
  BY <1>1, SameTimeline DEF FormsInv, FormTypes
<1>6. ASSUME AllFit(tasks, seen', files', now')
      PROVE  GoesOn(tasks, tasks', seen', files', now')
  <2>1. GoesOn(tasks, broken, seen', files', now')
    BY <1>3, <1>6, BreakingGoesOn
  <2>2. GoesOn(broken, tasks', seen', files', now')
    BY <1>4, <2>1, SameTasks, AskingGoesOn DEF GoesOn
  <2> QED BY <2>1, <2>2, Zenon DEF GoesOn
<1> QED BY <1>1, <1>2, <1>5, <1>6, QuietStepKeeps

LEMMA LoseKeeps ==
    ASSUME FormsInv, WindowOnly, NEW i \in DOMAIN tasks, Lose(i)
    PROVE  FormsInv'
<1>1. /\ files' = files /\ now' = now /\ seen' = seen /\ detail' = detail
      /\ timeline' = timeline /\ AssignKept
  BY DEF Lose, streamVars, shown, windowHistory, AssignKept
<1>2. tasks' = [tasks EXCEPT ![i].ans = Lost]
  BY DEF Lose
<1>3. Harmless(tasks[i], Lost, files', now')
  BY DEF Harmless, Lost
<1>4. AllFit(tasks, seen', files', now') => GoesOn(tasks, tasks', seen', files', now')
  BY <1>2, <1>3, AnswerGoesOn
<1>5. detail' \in Issues \cup {None} /\ TimelineIsItsIssues'
  BY <1>1, SameTimeline DEF FormsInv, FormTypes
<1> QED BY <1>1, <1>4, <1>5, QuietStepKeeps

(* Whatever an event says, everything is loaded again.                     *)
LEMMA onEventKeeps ==
    ASSUME FormsInv, WindowOnly, onEvent
    PROVE  FormsInv'
<1>1. /\ files' = files /\ seen' = seen /\ detail' = detail
      /\ timeline' = timeline /\ AssignKept
  BY DEF onEvent, shown, windowHistory, AssignKept
<1>2. now' = now
  BY CutIsQuiet DEF onEvent
<1>3. PICK panels : panels = SetToSeq(Panels)
  OBVIOUS
<1>4. PICK a, b, c : /\ a = <<Call(Refresh, None, None)>>
                     /\ b = [j \in DOMAIN panels |-> Call(<<panels[j]>>, None, None)]
                     /\ c = IF detail = None THEN <<>> ELSE <<Call(<<"activity">>, detail, None)>>
  OBVIOUS
<1>5. tasks' = tasks \o ((a \o b) \o c)
  BY <1>3, <1>4, Zenon DEF onEvent
<1>6. ASSUME AllFit(tasks, seen', files', now')
      PROVE  GoesOn(tasks, tasks', seen', files', now')
  <2>1. AllFit(a, seen', files', now')
    BY <1>4, ListsAreOrderly, OneTaskFits
  <2>2. AllFit(b, seen', files', now')
    BY <1>3, <1>4, PanelsFit
  <2>3. AllFit(c, seen', files', now')
    <3>1. Orderly(<<"activity">>) /\ <<"activity">> # <<>>
      BY OneStepIsOrderly DEF Listings
    <3> QED BY <1>4, <3>1, NoTasksFit, OneTaskFits
  <2>4. AllFit(a \o b, seen', files', now')
    BY <2>1, <2>2, JoinedFit DEF GoesOn
  <2>5. AllFit((a \o b) \o c, seen', files', now')
    BY <2>3, <2>4, JoinedFit DEF GoesOn
  <2> QED BY <1>5, <1>6, <2>5, JoinedFit
<1>7. detail' \in Issues \cup {None} /\ TimelineIsItsIssues'
  BY <1>1, SameTimeline DEF FormsInv, FormTypes
<1> QED BY <1>1, <1>2, <1>6, <1>7, QuietStepKeeps

-----------------------------------------------------------------------------
(* A document is written: it gets a version nobody has, or none.           *)

LEMMA WriteIsOnward ==
    ASSUME FormsInv, NEW d, NEW version \in {now + 1, None},
           files' = [files EXCEPT ![d] = version], now' = now + 1, seen \subseteq seen'
    PROVE  Onward /\ Versions(files', now')
<1>1. now \in Int /\ files \in [Issues -> Int \cup {None}] /\ Versions(files, now)
  BY DEF FormsInv, FormTypes
<1>2. None \notin Int
  BY ScenariosAssumption
<1>3. /\ files' \in [Issues -> Int \cup {None}]
      /\ \A c \in Issues : files'[c] = IF c = d THEN version ELSE files[c]
  <2>1. version \in Int \cup {None}
    BY <1>1
  <2>2. PICK new : new = files'
    OBVIOUS
  <2>3. /\ new \in [Issues -> Int \cup {None}]
        /\ \A c \in Issues : new[c] = IF c = d THEN version ELSE files[c]
    <3>1. new = [files EXCEPT ![d] = version]
      BY <2>2
    <3> QED BY <1>1, <2>1, <3>1
  <2> QED BY <2>2, <2>3
<1>4. Onward
  BY <1>1, <1>2, <1>3 DEF Onward, Later
<1>5. Versions(files', now')
  BY <1>1, <1>2, <1>3 DEF Versions
<1> QED BY <1>4, <1>5

LEMMA ElsewhereKeeps ==
    ASSUME FormsInv, WindowOnly, NEW d \in Issues, Change(d) \/ Removal(d)
    PROVE  FormsInv'
<1>1. PICK version \in {now + 1, None} : Elsewhere(d, version)
  BY DEF Change, Removal
<1>2. files' = [files EXCEPT ![d] = version] /\ now' = now + 1
  BY <1>1 DEF Elsewhere, publish
<1>3. /\ seen' = seen /\ detail' = detail /\ timeline' = timeline /\ tasks' = tasks
      /\ AssignKept
  BY <1>1 DEF Elsewhere, shown, windowHistory, AssignKept
<1>4. Onward /\ Versions(files', now')
  BY <1>2, <1>3, WriteIsOnward
<1>5. GoesOn(tasks, tasks', seen', files', now')
  BY <1>3, <1>4, TasksStillFit, SameTasks
<1>6. detail' \in Issues \cup {None} /\ TimelineIsItsIssues'
  BY <1>3, SameTimeline DEF FormsInv, FormTypes
<1> QED BY <1>3, <1>4, <1>5, <1>6, WindowKeeps

-----------------------------------------------------------------------------
(* The steps of the forms: what they have in common.                       *)

EditShape(e) ==
    /\ e = [key |-> e.key, tag |-> e.tag, busy |-> e.busy, conflict |-> e.conflict]
    /\ e.key \in Issues \cup {None}
DialogShape(r) ==
    /\ r = [key |-> r.key, tag |-> r.tag, open |-> r.open, busy |-> r.busy,
            stale |-> r.stale, strategy |-> r.strategy]
    /\ r.open \in BOOLEAN

LEMMA ShapesOfForms ==
    ASSUME FormsInv
    PROVE  /\ EditShape(edit) /\ DialogShape(remove) /\ AssignShape(assign)
           /\ detail \in Issues \cup {None} /\ now \in Int
           /\ files \in [Issues -> Int \cup {None}]
BY Zenon DEF FormsInv, FormTypes, EditShape, DialogShape, AssignShape

LEMMA FormKeeps ==
    ASSUME FormsInv, Onward, Versions(files', now'),
           AllFit(tasks', seen', files', now'), PickersAreSeen', KeysAreKept',
           NothingUnseenIsOverwritten', EditIsSafe', DialogIsSeen',
           EditShape(edit'), DialogShape(remove'), AssignShape(assign'),
           timeline' = timeline, detail' \in {detail, None}
    PROVE  FormsInv'
<1>1. TimelineIsItsIssues'
  BY SameTimeline
<1>2. FormTypes'
  <2>1. now' \in Int /\ files' \in [Issues -> Int \cup {None}]
    BY DEF Onward, Later
  <2>2. detail' \in Issues \cup {None}
    BY ShapesOfForms
  <2> QED BY <2>1, <2>2, Zenon DEF FormTypes, EditShape, DialogShape, AssignShape
<1> QED BY <1>1, <1>2, Zenon DEF FormsInv

(* A step in the window: no document is written and nothing is created.    *)
Indoors ==
    /\ files' = files /\ now' = now /\ seen \subseteq seen' /\ timeline' = timeline
    /\ replied' = replied /\ created' = created /\ replaced' = replaced /\ hasty' = hasty

LEMMA IndoorsKeeps ==
    ASSUME FormsInv, Indoors, SamePickers, AssignShape(assign'),
           detail' \in {detail, None},
           edit' = edit \/ (EditShape(edit') /\ EditIsSafe'),
           remove' = remove \/ (DialogShape(remove') /\ DialogIsSeen'),
           AllFit(tasks, seen', files', now') => GoesOn(tasks, tasks', seen', files', now')
    PROVE  FormsInv'
<1>1. Onward /\ Versions(files', now')
  BY NoWriteIsOnward DEF Indoors
<1>2. AllFit(tasks, seen', files', now')
  BY <1>1, TasksStillFit
<1>3. GoesOn(tasks, tasks', seen', files', now')
  BY <1>2
<1>4. AllFit(tasks', seen', files', now') /\ PickersAreSeen'
  BY <1>1, <1>3, Untouched DEF GoesOn
<1>5. KeysAreKept' /\ NothingUnseenIsOverwritten'
  BY <1>1, Untouched DEF Indoors
<1>6. EditShape(edit') /\ EditIsSafe'
  BY <1>1, Untouched, ShapesOfForms
<1>7. DialogShape(remove') /\ DialogIsSeen'
  BY <1>1, Untouched, ShapesOfForms
<1> QED BY <1>1, <1>4, <1>5, <1>6, <1>7, FormKeeps DEF Indoors

LEMMA AssignUnchanged ==
    ASSUME FormsInv, AssignKept, detail' \in {detail, None}
    PROVE  SamePickers /\ AssignShape(assign')
<1>1. detail' \in Issues \cup {None}
  BY ShapesOfForms
<1> QED BY <1>1, AssignParts DEF AssignShape

(* A person's step that starts no call, and one that starts a loader.      *)
LEMMA NoCall ==
    ASSUME FormsInv, tasks' = tasks
    PROVE  AllFit(tasks, seen', files', now') => GoesOn(tasks, tasks', seen', files', now')
BY SameTasks

LEMMA BeginsLoader ==
    ASSUME NEW todo, Orderly(todo), todo # <<>>, NEW on, Begin(todo, on, None)
    PROVE  AllFit(tasks, seen', files', now') => GoesOn(tasks, tasks', seen', files', now')
BY CallGoesOn DEF Begin

(* A call that fits and is the only one of its function.                   *)
LEMMA BeginsAlone ==
    ASSUME NEW step, NEW on, NEW by, Begin(<<step>>, on, by),
           LET t == Call(<<step>>, on, by)
           IN Saves(t, seen', files', now') \/ Deletes(t, seen') \/ Creates(t) \/ Comments(t) \/ Edits(t)
    PROVE  AllFit(tasks, seen', files', now') => GoesOn(tasks, tasks', seen', files', now')
<1>1. PICK t : t = Call(<<step>>, on, by)
  OBVIOUS
<1>2. Saves(t, seen', files', now') \/ Deletes(t, seen') \/ Creates(t) \/ Comments(t) \/ Edits(t)
  BY <1>1
<1>3. t = [todo |-> t.todo, on |-> t.on, by |-> t.by, ans |-> t.ans]
  BY <1>1 DEF Call
<1>4. Fits(t, seen', files', now')
  BY <1>2, <1>3, Zenon DEF Fits
<1>5. tasks' = Append(tasks, t)
  BY <1>1 DEF Begin
<1> QED BY <1>4, <1>5, AppendFits DEF GoesOn

(* An answer is handled: its function ends or goes on with loaders.        *)
LEMMA LandsAndEnds ==
    ASSUME NEW i \in DOMAIN tasks, Head(tasks[i].todo) \notin Pickers, End(i)
    PROVE  AllFit(tasks, seen', files', now') => GoesOn(tasks, tasks', seen', files', now')
BY EndGoesOn DEF End

LEMMA LandsAndReloads ==
    ASSUME NEW i \in DOMAIN tasks, Head(tasks[i].todo) \notin Pickers,
           NEW todo, Orderly(todo), Reload(i, todo)
    PROVE  /\ AllFit(tasks, seen', files', now') => GoesOn(tasks, tasks', seen', files', now')
           /\ now' = now /\ AssignKept
<1>1. tasks' = Carried(tasks, i, From(todo), detail)
  BY DEF Reload, Proceed, Carried
<1>2. now' = now
  BY DEF Reload, Proceed, newSource, streamVars
<1>3. AssignKept
  BY DEF Reload, Proceed, AssignKept
<1> QED BY <1>1, <1>2, <1>3, ProceedGoesOn

-----------------------------------------------------------------------------
(* The edit form.                                                          *)

LEMMA AloneLanded ==
    ASSUME FormsInv, NEW i \in DOMAIN tasks, NEW step \in Alone, Landed(i, step)
    PROVE  /\ Head(tasks[i].todo) = step /\ step \notin Pickers
           /\ step = "patch" => Saves(tasks[i], seen, files, now)
           /\ step = "openEdit" => Edits(tasks[i])
BY HeadOfTask DEF Landed, FormsInv, AllFit, Alone, Pickers

LEMMA openEditKeeps ==
    ASSUME FormsInv, openEdit
    PROVE  FormsInv'
<1>1. /\ Indoors /\ AssignKept /\ detail' = detail /\ edit' = edit /\ remove' = remove
      /\ Begin(<<"openEdit">>, detail, None)
  BY DEF openEdit, streamVars, forms, Still, served, formHistory, Indoors, AssignKept
<1>2. detail \in Issues
  BY ShapesOfForms DEF openEdit
<1>3. SamePickers /\ AssignShape(assign')
  BY <1>1, AssignUnchanged
<1>4. AllFit(tasks, seen', files', now') => GoesOn(tasks, tasks', seen', files', now')
  BY <1>1, <1>2, BeginsAlone DEF Edits, Call
<1> QED BY <1>1, <1>3, <1>4, IndoorsKeeps

(* The version that was read is on the screen.                             *)
LEMMA openEditLandsKeeps ==
    ASSUME FormsInv, NEW i \in DOMAIN tasks, openEditLands(i)
    PROVE  FormsInv'
<1>1. /\ Indoors /\ AssignKept /\ detail' = detail /\ remove' = remove /\ End(i)
      /\ Landed(i, "openEdit")
  BY DEF openEditLands, streamVars, others, Still, served, formHistory, Indoors, AssignKept
<1>2. Head(tasks[i].todo) \notin Pickers
  BY <1>1 DEF Landed, Pickers
<1>3. edit' = edit \/ (EditShape(edit') /\ EditIsSafe')
  <2>1. CASE Status(i) = 200
    <3>1. /\ edit' = [key |-> tasks[i].on, tag |-> tasks[i].ans.tag, busy |-> edit.busy,
                      conflict |-> FALSE]
          /\ tasks[i].ans.tag \in seen'
      BY <2>1 DEF openEditLands
    <3>2. tasks[i].on \in Issues
      BY <1>1, AloneLanded DEF Alone, Edits
    <3> QED BY <3>1, <3>2 DEF EditShape, EditIsSafe, Safe
  <2>2. CASE Status(i) # 200
    BY <2>2 DEF openEditLands
  <2> QED BY <2>1, <2>2
<1>4. SamePickers /\ AssignShape(assign')
  BY <1>1, AssignUnchanged
<1>5. AllFit(tasks, seen', files', now') => GoesOn(tasks, tasks', seen', files', now')
  BY <1>1, <1>2, LandsAndEnds
<1> QED BY <1>1, <1>3, <1>4, <1>5, IndoorsKeeps

LEMMA closeEditKeeps ==
    ASSUME FormsInv, closeEdit
    PROVE  FormsInv'
<1>1. /\ Indoors /\ AssignKept /\ detail' = detail /\ remove' = remove /\ tasks' = tasks
      /\ edit' = [NoEdit EXCEPT !.busy = edit.busy]
  BY DEF closeEdit, streamVars, others, Still, served, formHistory, Indoors, AssignKept
<1>2. EditShape(edit') /\ EditIsSafe'
  BY <1>1 DEF EditShape, EditIsSafe, NoEdit
<1>3. SamePickers /\ AssignShape(assign')
  BY <1>1, AssignUnchanged
<1> QED BY <1>1, <1>2, <1>3, NoCall, IndoorsKeeps

(* The save carries the version the form was read from.                    *)
LEMMA submitEditKeeps ==
    ASSUME FormsInv, submitEdit
    PROVE  FormsInv'
<1> DEFINE by == [form |-> "edit", tag |-> edit.tag]
<1>1. /\ Indoors /\ AssignKept /\ detail' = detail /\ remove' = remove /\ seen' = seen
      /\ edit' = [edit EXCEPT !.busy = TRUE] /\ edit.key # None
      /\ Begin(<<"patch">>, edit.key, by)
  BY DEF submitEdit, streamVars, others, Still, served, formHistory, Indoors, AssignKept
<1>2. EditShape(edit)
  BY ShapesOfForms
<1>3. EditShape(edit') /\ edit'.key = edit.key /\ edit'.tag = edit.tag
  BY <1>1, <1>2 DEF EditShape
<1>4. edit.key \in Issues /\ Safe(edit.tag, edit.key, seen', files', now')
  BY <1>1, <1>2 DEF EditShape, FormsInv, EditIsSafe, Indoors
<1>5. EditIsSafe'
  BY <1>3, <1>4 DEF EditIsSafe
<1>6. Saves(Call(<<"patch">>, edit.key, by), seen', files', now')
  BY <1>4 DEF Saves, Call
<1>7. AllFit(tasks, seen', files', now') => GoesOn(tasks, tasks', seen', files', now')
  BY <1>1, <1>6, BeginsAlone
<1>8. SamePickers /\ AssignShape(assign')
  BY <1>1, AssignUnchanged
<1> QED BY <1>1, <1>3, <1>5, <1>7, <1>8, IndoorsKeeps

(* A refused save shows the newest version, if its form is still the one   *)
(* that is open; another form is left with a version its issue never has.  *)
LEMMA submitEditLandsKeeps ==
    ASSUME FormsInv, NEW i \in DOMAIN tasks, submitEditLands(i)
    PROVE  FormsInv'
<1>1. /\ files' = files /\ timeline' = timeline /\ replied' = replied /\ created' = created
      /\ replaced' = replaced /\ hasty' = hasty /\ detail' = detail /\ remove' = remove
      /\ Landed(i, "patch")
  BY DEF submitEditLands, others, Still, served, formHistory
<1>2. Head(tasks[i].todo) \notin Pickers /\ Saves(tasks[i], seen, files, now)
  BY <1>1, AloneLanded DEF Alone
<1>3. EditShape(edit)
  BY ShapesOfForms
<1>4. CASE Status(i) = 200
  <2>1. edit' = NoEdit /\ Reload(i, Refresh \o <<"activity">>) /\ seen' = seen
    BY <1>4 DEF submitEditLands
  <2>2. /\ AllFit(tasks, seen', files', now') => GoesOn(tasks, tasks', seen', files', now')
        /\ now' = now /\ AssignKept
    BY <1>2, <2>1, ListsAreOrderly, LandsAndReloads
  <2>3. EditShape(edit') /\ EditIsSafe'
    BY <2>1 DEF EditShape, EditIsSafe, NoEdit
  <2>4. SamePickers /\ AssignShape(assign')
    BY <1>1, <2>2, AssignUnchanged
  <2> QED BY <1>1, <2>1, <2>2, <2>3, <2>4, IndoorsKeeps DEF Indoors
<1>5. CASE Status(i) = 412
  <2>1. showConflict(i) /\ End(i) /\ now' = now /\ AssignKept
    BY <1>5 DEF submitEditLands, streamVars, AssignKept
  <2>2. seen \subseteq seen' /\ (edit.key = tasks[i].on => tasks[i].ans.tag \in seen')
    BY <2>1 DEF showConflict
  <2>3. edit' = [edit EXCEPT !.tag = tasks[i].ans.tag, !.busy = FALSE, !.conflict = TRUE]
    BY <2>1 DEF showConflict
  <2>4. EditShape(edit') /\ edit'.key = edit.key /\ edit'.tag = tasks[i].ans.tag
    BY <1>3, <2>3 DEF EditShape
  <2>5. ASSUME edit.key # None
        PROVE  Safe(tasks[i].ans.tag, edit.key, seen', files', now')
    <3>1. edit.key \in Issues
      BY <1>3, <2>5 DEF EditShape
    <3>2. CASE edit.key = tasks[i].on
      BY <2>2, <3>2 DEF Safe
    <3>3. CASE edit.key # tasks[i].on
      <4>1. tasks[i].ans # None /\ tasks[i].ans.status = 412
        BY <1>1, <1>5 DEF Landed, Status
      <4>2. Past(tasks[i].ans.tag, edit.key, files, now)
        BY <1>2, <3>1, <3>3, <4>1 DEF Saves
      <4> QED BY <1>1, <2>1, <4>2 DEF Safe
    <3> QED BY <3>2, <3>3
  <2>6. EditIsSafe'
    BY <2>4, <2>5 DEF EditIsSafe
  <2>7. AllFit(tasks, seen', files', now') => GoesOn(tasks, tasks', seen', files', now')
    BY <1>2, <2>1, LandsAndEnds
  <2>8. SamePickers /\ AssignShape(assign')
    BY <1>1, <2>1, AssignUnchanged
  <2> QED BY <1>1, <2>1, <2>2, <2>4, <2>6, <2>7, <2>8, IndoorsKeeps DEF Indoors
<1>6. CASE Status(i) \notin {200, 412}
  <2>1. /\ edit' = [edit EXCEPT !.busy = FALSE] /\ End(i) /\ now' = now /\ AssignKept
        /\ seen' = seen
    BY <1>6 DEF submitEditLands, streamVars, AssignKept
  <2>2. EditShape(edit') /\ edit'.key = edit.key /\ edit'.tag = edit.tag
    BY <1>3, <2>1 DEF EditShape
  <2>3. EditIsSafe'
    BY <1>1, <2>1, <2>2 DEF FormsInv, EditIsSafe
  <2>4. AllFit(tasks, seen', files', now') => GoesOn(tasks, tasks', seen', files', now')
    BY <1>2, <2>1, LandsAndEnds
  <2>5. SamePickers /\ AssignShape(assign')
    BY <1>1, <2>1, AssignUnchanged
  <2> QED BY <1>1, <2>1, <2>2, <2>3, <2>4, <2>5, IndoorsKeeps DEF Indoors
<1> QED BY <1>4, <1>5, <1>6

LEMMA reloadEditKeeps ==
    ASSUME FormsInv, reloadEdit
    PROVE  FormsInv'
<1>1. /\ Indoors /\ AssignKept /\ detail' = detail /\ edit' = edit /\ remove' = remove
      /\ Begin(<<"reloadEdit">>, edit.key, None)
  BY DEF reloadEdit, streamVars, forms, Still, served, formHistory, Indoors, AssignKept
<1>2. Orderly(<<"reloadEdit">>) /\ <<"reloadEdit">> # <<>>
  BY OneStepIsOrderly DEF Documents
<1>3. SamePickers /\ AssignShape(assign')
  BY <1>1, AssignUnchanged
<1>4. AllFit(tasks, seen', files', now') => GoesOn(tasks, tasks', seen', files', now')
  BY <1>1, <1>2, BeginsLoader
<1> QED BY <1>1, <1>3, <1>4, IndoorsKeeps

LEMMA reloadEditLandsKeeps ==
    ASSUME FormsInv, NEW i \in DOMAIN tasks, reloadEditLands(i)
    PROVE  FormsInv'
<1>1. /\ Indoors /\ AssignKept /\ detail' = detail /\ remove' = remove /\ End(i)
      /\ Landed(i, "reloadEdit")
  BY DEF reloadEditLands, streamVars, others, Still, served, formHistory, Indoors, AssignKept
<1>2. Head(tasks[i].todo) \notin Pickers
  BY <1>1 DEF Landed, Pickers
<1>3. edit' = edit \/ (EditShape(edit') /\ EditIsSafe')
  <2>1. CASE Status(i) = 200
    <3>1. edit' = [edit EXCEPT !.tag = tasks[i].ans.tag] /\ tasks[i].ans.tag \in seen'
      BY <2>1 DEF reloadEditLands
    <3>2. EditShape(edit') /\ edit'.tag = tasks[i].ans.tag
      BY <3>1, ShapesOfForms DEF EditShape
    <3> QED BY <3>1, <3>2 DEF EditIsSafe, Safe
  <2>2. CASE Status(i) # 200
    BY <2>2 DEF reloadEditLands
  <2> QED BY <2>1, <2>2
<1>4. SamePickers /\ AssignShape(assign')
  BY <1>1, AssignUnchanged
<1>5. AllFit(tasks, seen', files', now') => GoesOn(tasks, tasks', seen', files', now')
  BY <1>1, <1>2, LandsAndEnds
<1> QED BY <1>1, <1>3, <1>4, <1>5, IndoorsKeeps

-----------------------------------------------------------------------------
(* The pickers of the detail.                                              *)

LEMMA PickersBusy ==
    ASSUME AssignShape(assign), NEW b, assign' = [assign EXCEPT !.busy = b]
    PROVE  SamePickers /\ AssignShape(assign')
BY DEF AssignShape, SamePickers

(* A choice that is made while no picker is loading is made of what is on   *)
(* the screen.                                                             *)
LEMMA saveAssignKeeps ==
    ASSUME FormsInv, saveAssign
    PROVE  FormsInv'
<1>1. PICK early \in BOOLEAN : early = Painting
  BY DEF Painting
<1>2. PICK by : by = [form |-> "assign", tag |-> assign.tag, early |-> early]
  OBVIOUS
<1>3. /\ Indoors /\ detail' = detail /\ edit' = edit /\ remove' = remove /\ seen' = seen
      /\ assign' = [assign EXCEPT !.busy = TRUE]
  BY DEF saveAssign, streamVars, forms, Still, served, formHistory, Indoors
<1>4. Begin(<<"patch">>, assign.key, by) /\ assign.key # None /\ assign.painted = TRUE
  <2>1. Begin(<<"patch">>, assign.key,
              [form |-> "assign", tag |-> assign.tag, early |-> Painting]) /\ assign.key # None
    BY DEF saveAssign
  <2>2. assign.painted = TRUE
    BY ShapesOfForms DEF saveAssign, AssignShape
  <2> QED BY <1>1, <1>2, <2>1, <2>2
<1>5. AssignShape(assign) /\ assign.key \in Issues
  BY <1>4, ShapesOfForms DEF AssignShape
<1>6. by.form = "assign" /\ by.tag = assign.tag /\ by.early = early
  BY <1>2
<1>7. early = TRUE \/ assign.tag \in seen
  <2>1. Painting <=> Picking(tasks)
    BY Zenon DEF Painting, Picking, Pickers
  <2> QED BY <1>1, <1>4, <2>1 DEF FormsInv, PickersAreSeen
<1>8. Saves(Call(<<"patch">>, assign.key, by), seen', files', now')
  BY <1>3, <1>5, <1>6, <1>7 DEF Saves, Call
<1>9. AllFit(tasks, seen', files', now') => GoesOn(tasks, tasks', seen', files', now')
  BY <1>4, <1>8, BeginsAlone
<1>10. SamePickers /\ AssignShape(assign')
  BY <1>3, <1>5, PickersBusy
<1> QED BY <1>3, <1>9, <1>10, IndoorsKeeps

LEMMA saveAssignLandsKeeps ==
    ASSUME FormsInv, NEW i \in DOMAIN tasks, saveAssignLands(i)
    PROVE  FormsInv'
<1>1. /\ Indoors /\ detail' = detail /\ edit' = edit /\ remove' = remove
      /\ assign' = [assign EXCEPT !.busy = FALSE] /\ Landed(i, "patch")
  BY DEF saveAssignLands, streamVars, forms, Still, served, formHistory, Indoors
<1>2. Head(tasks[i].todo) \notin Pickers
  BY <1>1 DEF Landed, Pickers
<1>3. PICK rest : rest = From(Refresh \o <<"assign", "assignable", "activity">>)
  OBVIOUS
<1>4. Orderly(rest) /\ rest # <<>>
  BY <1>3, ListsAreOrderly, FromIsOrderly
<1>5. \/ tasks' = [tasks EXCEPT ![i] = Call(rest, detail, None)]
      \/ tasks' = RemoveAt(tasks, i)
  BY <1>3 DEF saveAssignLands
<1>6. AllFit(tasks, seen', files', now') => GoesOn(tasks, tasks', seen', files', now')
  BY <1>2, <1>4, <1>5, NextCallGoesOn, EndGoesOn
<1>7. SamePickers /\ AssignShape(assign')
  BY <1>1, ShapesOfForms, PickersBusy
<1> QED BY <1>1, <1>6, <1>7, IndoorsKeeps

-----------------------------------------------------------------------------
(* The deletion dialog.                                                    *)

LEMMA openDeleteKeeps ==
    ASSUME FormsInv, openDelete
    PROVE  FormsInv'
<1>1. /\ Indoors /\ AssignKept /\ detail' = detail /\ edit' = edit /\ remove' = remove
      /\ Begin(<<"openDelete", "children">>, detail, None)
  BY DEF openDelete, streamVars, forms, Still, served, formHistory, Indoors, AssignKept
<1>2. SamePickers /\ AssignShape(assign')
  BY <1>1, AssignUnchanged
<1>3. AllFit(tasks, seen', files', now') => GoesOn(tasks, tasks', seen', files', now')
  BY <1>1, ListsAreOrderly, BeginsLoader
<1> QED BY <1>1, <1>2, <1>3, IndoorsKeeps

(* A dialog that is up already shows what is read for it.                  *)
LEMMA openDeleteLandsKeeps ==
    ASSUME FormsInv, NEW i \in DOMAIN tasks, openDeleteLands(i)
    PROVE  FormsInv'
<1>1. /\ Indoors /\ AssignKept /\ detail' = detail /\ edit' = edit /\ Landed(i, "openDelete")
  BY DEF openDeleteLands, streamVars, others2, Still, served, formHistory, Indoors, AssignKept
<1>2. Head(tasks[i].todo) \notin Pickers /\ Orderly(Rest(i)) /\ Rest(i) # <<>>
  BY <1>1, LandedTask DEF Alone, Pickers
<1>3. SamePickers /\ AssignShape(assign')
  BY <1>1, AssignUnchanged
<1>4. CASE Status(i) = 200
  <2>1. remove' = [remove EXCEPT !.key = tasks[i].on, !.tag = tasks[i].ans.tag,
                                 !.stale = FALSE, !.strategy = "none"]
    BY <1>4 DEF openDeleteLands
  <2>2. /\ DialogShape(remove') /\ remove'.tag = tasks[i].ans.tag
        /\ remove'.open = remove.open
    BY <2>1, ShapesOfForms DEF DialogShape
  <2>3. remove.open = TRUE => tasks[i].ans.tag \in seen'
    BY <1>4 DEF openDeleteLands
  <2>4. DialogIsSeen'
    BY <2>2, <2>3 DEF DialogIsSeen
  <2>5. tasks' = [tasks EXCEPT ![i] = Call(Rest(i), tasks[i].on, None)]
    BY <1>4 DEF openDeleteLands
  <2>6. AllFit(tasks, seen', files', now') => GoesOn(tasks, tasks', seen', files', now')
    BY <1>2, <2>5, NextCallGoesOn
  <2> QED BY <1>1, <1>3, <2>2, <2>4, <2>6, IndoorsKeeps
<1>5. CASE Status(i) # 200
  <2>1. End(i) /\ remove' = remove
    BY <1>5 DEF openDeleteLands
  <2>2. AllFit(tasks, seen', files', now') => GoesOn(tasks, tasks', seen', files', now')
    BY <1>2, <2>1, LandsAndEnds
  <2> QED BY <1>1, <1>3, <2>1, <2>2, IndoorsKeeps
<1> QED BY <1>4, <1>5

LEMMA childrenLandKeeps ==
    ASSUME FormsInv, NEW i \in DOMAIN tasks, childrenLand(i)
    PROVE  FormsInv'
<1>1. /\ Indoors /\ AssignKept /\ detail' = detail /\ edit' = edit /\ Landed(i, "children")
      /\ End(i) /\ remove' = [remove EXCEPT !.open = TRUE]
  BY DEF childrenLand, streamVars, others2, Still, served, formHistory, Indoors, AssignKept
<1>2. Head(tasks[i].todo) \notin Pickers
  BY <1>1 DEF Landed, Pickers
<1>3. SamePickers /\ AssignShape(assign')
  BY <1>1, AssignUnchanged
<1>4. DialogShape(remove') /\ remove'.tag = remove.tag /\ remove'.key = remove.key
  BY <1>1, ShapesOfForms DEF DialogShape
<1>5. remove.key # None => remove.tag \in seen'
  BY DEF childrenLand
<1>6. DialogIsSeen'
  BY <1>4, <1>5 DEF DialogIsSeen
<1>7. AllFit(tasks, seen', files', now') => GoesOn(tasks, tasks', seen', files', now')
  BY <1>1, <1>2, LandsAndEnds
<1> QED BY <1>1, <1>3, <1>4, <1>6, <1>7, IndoorsKeeps

LEMMA closeDeleteKeeps ==
    ASSUME FormsInv, closeDelete
    PROVE  FormsInv'
<1>1. /\ Indoors /\ AssignKept /\ detail' = detail /\ edit' = edit /\ tasks' = tasks
      /\ remove' = [NoDialog EXCEPT !.busy = remove.busy]
  BY DEF closeDelete, streamVars, others2, Still, served, formHistory, Indoors, AssignKept
<1>2. DialogShape(remove') /\ DialogIsSeen'
  BY <1>1 DEF DialogShape, DialogIsSeen, NoDialog
<1>3. SamePickers /\ AssignShape(assign')
  BY <1>1, AssignUnchanged
<1> QED BY <1>1, <1>2, <1>3, NoCall, IndoorsKeeps

LEMMA chooseStrategyKeeps ==
    ASSUME FormsInv, chooseStrategy
    PROVE  FormsInv'
<1>1. /\ Indoors /\ AssignKept /\ detail' = detail /\ edit' = edit /\ tasks' = tasks
      /\ seen' = seen /\ remove' = [remove EXCEPT !.strategy = "chosen"]
  BY DEF chooseStrategy, streamVars, others2, Still, served, formHistory, Indoors, AssignKept
<1>2. /\ DialogShape(remove') /\ remove'.tag = remove.tag /\ remove'.key = remove.key
      /\ remove'.open = remove.open
  BY <1>1, ShapesOfForms DEF DialogShape
<1>3. DialogIsSeen'
  BY <1>1, <1>2 DEF FormsInv, DialogIsSeen
<1>4. SamePickers /\ AssignShape(assign')
  BY <1>1, AssignUnchanged
<1> QED BY <1>1, <1>2, <1>3, <1>4, NoCall, IndoorsKeeps

LEMMA submitDeleteKeeps ==
    ASSUME FormsInv, submitDelete
    PROVE  FormsInv'
<1> DEFINE by == [tag |-> remove.tag, strategy |-> remove.strategy, left |-> "all"]
<1>1. /\ Indoors /\ AssignKept /\ detail' = detail /\ edit' = edit /\ seen' = seen
      /\ remove' = [remove EXCEPT !.busy = TRUE] /\ remove.key # None
      /\ Begin(<<"delete">>, remove.key, by)
  BY DEF submitDelete, streamVars, others2, Still, served, formHistory, Indoors, AssignKept
<1>2. remove.open = TRUE
  BY ShapesOfForms DEF submitDelete, DialogShape
<1>3. /\ DialogShape(remove') /\ remove'.tag = remove.tag /\ remove'.key = remove.key
      /\ remove'.open = remove.open
  BY <1>1, ShapesOfForms DEF DialogShape
<1>4. remove.tag \in seen
  BY <1>1, <1>2 DEF FormsInv, DialogIsSeen
<1>5. DialogIsSeen'
  BY <1>1, <1>3, <1>4 DEF DialogIsSeen
<1>6. Deletes(Call(<<"delete">>, remove.key, by), seen')
  BY <1>1, <1>4 DEF Deletes, Call
<1>7. AllFit(tasks, seen', files', now') => GoesOn(tasks, tasks', seen', files', now')
  BY <1>1, <1>6, BeginsAlone
<1>8. SamePickers /\ AssignShape(assign')
  BY <1>1, AssignUnchanged
<1> QED BY <1>1, <1>3, <1>5, <1>7, <1>8, IndoorsKeeps

LEMMA submitDeleteLandsKeeps ==
    ASSUME FormsInv, NEW i \in DOMAIN tasks, submitDeleteLands(i)
    PROVE  FormsInv'
<1>1. /\ files' = files /\ seen' = seen /\ timeline' = timeline /\ replied' = replied
      /\ created' = created /\ replaced' = replaced /\ hasty' = hasty /\ edit' = edit
      /\ Landed(i, "delete")
  BY DEF submitDeleteLands, others2, Still, served, formHistory
<1>2. Head(tasks[i].todo) \notin Pickers
  BY <1>1 DEF Landed, Pickers
<1>3. CASE Status(i) = 200
  <2>1. remove' = NoDialog /\ detail' = None /\ Reload(i, Refresh \o <<"git">>)
    BY <1>3 DEF submitDeleteLands
  <2>2. /\ AllFit(tasks, seen', files', now') => GoesOn(tasks, tasks', seen', files', now')
        /\ now' = now /\ AssignKept
    BY <1>2, <2>1, ListsAreOrderly, LandsAndReloads
  <2>3. DialogShape(remove') /\ DialogIsSeen'
    BY <2>1 DEF DialogShape, DialogIsSeen, NoDialog
  <2>4. SamePickers /\ AssignShape(assign')
    BY <2>1, <2>2, AssignUnchanged
  <2> QED BY <1>1, <2>1, <2>2, <2>3, <2>4, IndoorsKeeps DEF Indoors
<1>4. CASE Status(i) # 200
  <2>1. /\ End(i) /\ now' = now /\ AssignKept /\ detail' = detail
    BY <1>4 DEF submitDeleteLands, streamVars, AssignKept
  <2>2. PICK late, next : remove' = [remove EXCEPT !.busy = FALSE, !.stale = late,
                                                   !.strategy = next]
    <3>1. PICK late \in BOOLEAN : late = (Status(i) = 412)
      OBVIOUS
    <3>2. PICK next : next = IF Status(i) = 409 THEN "asked" ELSE remove.strategy
      OBVIOUS
    <3>3. remove' = [remove EXCEPT !.busy = FALSE, !.stale = late, !.strategy = next]
      BY <1>4, <3>1, <3>2 DEF submitDeleteLands
    <3> QED BY <3>3
  <2>3. /\ DialogShape(remove') /\ remove'.tag = remove.tag /\ remove'.key = remove.key
        /\ remove'.open = remove.open
    BY <2>2, ShapesOfForms DEF DialogShape
  <2>4. DialogIsSeen'
    BY <1>1, <2>3 DEF FormsInv, DialogIsSeen
  <2>5. AllFit(tasks, seen', files', now') => GoesOn(tasks, tasks', seen', files', now')
    BY <1>2, <2>1, LandsAndEnds
  <2>6. SamePickers /\ AssignShape(assign')
    BY <2>1, AssignUnchanged
  <2> QED BY <1>1, <2>1, <2>3, <2>4, <2>5, <2>6, IndoorsKeeps DEF Indoors
<1> QED BY <1>3, <1>4

-----------------------------------------------------------------------------
(* A new issue, and a comment.                                             *)

LEMMA openCreateKeeps ==
    ASSUME FormsInv, openCreate \/ closeCreate
    PROVE  FormsInv'
<1>1. /\ Indoors /\ AssignKept /\ detail' = detail /\ edit' = edit /\ remove' = remove
      /\ tasks' = tasks
  BY DEF openCreate, closeCreate, streamVars, others3, Still, served, formHistory,
         Indoors, AssignKept
<1>2. SamePickers /\ AssignShape(assign')
  BY <1>1, AssignUnchanged
<1> QED BY <1>1, <1>2, NoCall, IndoorsKeeps

LEMMA submitCreateKeeps ==
    ASSUME FormsInv, NEW text, submitCreate(text)
    PROVE  FormsInv'
<1> DEFINE by == [key |-> <<create.nonce, text>>, of |-> <<create.nonce, text>>]
<1>1. /\ Indoors /\ AssignKept /\ detail' = detail /\ edit' = edit /\ remove' = remove
      /\ Begin(<<"create">>, None, by)
  BY DEF submitCreate, createKey, streamVars, others3, Still, served, formHistory,
         Indoors, AssignKept
<1>2. Creates(Call(<<"create">>, None, by))
  BY DEF Creates, Call
<1>3. AllFit(tasks, seen', files', now') => GoesOn(tasks, tasks', seen', files', now')
  BY <1>1, <1>2, BeginsAlone
<1>4. SamePickers /\ AssignShape(assign')
  BY <1>1, AssignUnchanged
<1> QED BY <1>1, <1>3, <1>4, IndoorsKeeps

LEMMA submitCommentKeeps ==
    ASSUME FormsInv, NEW text, submitComment(text)
    PROVE  FormsInv'
<1>1. PICK by : by = [key |-> <<0, text>>, text |-> text]
  OBVIOUS
<1>2. /\ Indoors /\ AssignKept /\ detail' = detail /\ edit' = edit /\ remove' = remove
      /\ Begin(<<"comment">>, detail, by)
  BY <1>1 DEF submitComment, streamVars, Still, served, formHistory, Indoors, AssignKept
<1>3. Comments(Call(<<"comment">>, detail, by))
  BY DEF Comments, Call
<1>4. AllFit(tasks, seen', files', now') => GoesOn(tasks, tasks', seen', files', now')
  BY <1>2, <1>3, BeginsAlone
<1>5. SamePickers /\ AssignShape(assign')
  BY <1>2, AssignUnchanged
<1> QED BY <1>2, <1>4, <1>5, IndoorsKeeps

LEMMA submitCreateLandsKeeps ==
    ASSUME FormsInv, NEW i \in DOMAIN tasks, submitCreateLands(i) \/ submitCommentLands(i)
    PROVE  FormsInv'
<1>1. /\ files' = files /\ seen' = seen /\ timeline' = timeline /\ replied' = replied
      /\ created' = created /\ replaced' = replaced /\ hasty' = hasty /\ edit' = edit
      /\ remove' = remove /\ detail' = detail
  BY DEF submitCreateLands, submitCommentLands, others3, Still, served, formHistory, windowHistory
<1>2. Landed(i, "create") \/ Landed(i, "comment")
  BY DEF submitCreateLands, submitCommentLands
<1>3. Head(tasks[i].todo) \notin Pickers
  BY <1>2 DEF Landed, Pickers
<1>4. \/ Reload(i, Refresh)
      \/ End(i) /\ UNCHANGED <<streamVars, assign>>
  BY DEF submitCreateLands, submitCommentLands
<1>5. /\ AllFit(tasks, seen', files', now') => GoesOn(tasks, tasks', seen', files', now')
      /\ now' = now /\ AssignKept
  <2>1. CASE Reload(i, Refresh)
    BY <1>3, <2>1, ListsAreOrderly, LandsAndReloads
  <2>2. CASE End(i) /\ UNCHANGED <<streamVars, assign>>
    BY <1>3, <2>2, LandsAndEnds DEF streamVars, AssignKept
  <2> QED BY <1>4, <2>1, <2>2
<1>6. SamePickers /\ AssignShape(assign')
  BY <1>1, <1>5, AssignUnchanged
<1> QED BY <1>1, <1>5, <1>6, IndoorsKeeps DEF Indoors

-----------------------------------------------------------------------------
(* The server's side of the forms.                                         *)

(* A refused save tells the version the issue has, which no other has.     *)
LEMMA RefusalIsHarmless ==
    ASSUME FormsInv, NEW i \in DOMAIN tasks, NEW status, NEW tag, Refuse(i, status, tag),
           status = 412 => Document(i) # None /\ tag = Document(i)
    PROVE  /\ files' = files /\ now' = now /\ replaced' = replaced /\ hasty' = hasty
           /\ AllFit(tasks, seen', files', now') => GoesOn(tasks, tasks', seen', files', now')
<1>1. files' = files /\ now' = now /\ replaced' = replaced /\ hasty' = hasty
  BY DEF Refuse, streamVars
<1>2. PICK r : r = [status |-> status, at |-> now, tag |-> tag]
  OBVIOUS
<1>3. tasks' = [tasks EXCEPT ![i].ans = r]
  BY <1>2 DEF Refuse, Answer
<1>4. Harmless(tasks[i], r, files', now')
  <2>1. SUFFICES ASSUME Head(tasks[i].todo) = "patch", status = 412,
                        NEW d \in Issues \ {tasks[i].on}
                 PROVE  Past(tag, d, files', now')
    BY <1>2 DEF Harmless
  <2>2. tasks[i].on \in Issues
    BY <2>1, HeadOfTask DEF FormsInv, AllFit, Saves
  <2>3. tag = files[tasks[i].on] /\ tag # None
    BY <2>1 DEF Document
  <2>4. tag \in Int /\ tag <= now /\ files[d] # tag
    BY <2>1, <2>2, <2>3, ShapesOfForms DEF FormsInv, Versions
  <2> QED BY <1>1, <2>4 DEF Past
<1>5. AllFit(tasks, seen', files', now') => GoesOn(tasks, tasks', seen', files', now')
  BY <1>3, <1>4, AnswerGoesOn
<1> QED BY <1>1, <1>5

LEMMA RefusalKeeps ==
    ASSUME FormsInv, NEW i \in DOMAIN tasks, NEW status, NEW tag, Refuse(i, status, tag),
           status = 412 => Document(i) # None /\ tag = Document(i),
           Served
    PROVE  FormsInv'
<1>1. /\ seen' = seen /\ timeline' = timeline /\ detail' = detail /\ AssignKept
      /\ edit' = edit /\ remove' = remove /\ replied' = replied /\ created' = created
  BY DEF Served, shown, windowHistory, forms, served, AssignKept
<1>2. /\ files' = files /\ now' = now /\ replaced' = replaced /\ hasty' = hasty
      /\ AllFit(tasks, seen', files', now') => GoesOn(tasks, tasks', seen', files', now')
  BY RefusalIsHarmless
<1>3. SamePickers /\ AssignShape(assign')
  BY <1>1, AssignUnchanged
<1> QED BY <1>1, <1>2, <1>3, IndoorsKeeps DEF Indoors

(* A write replaces a version that the person has seen, or it is hasty.    *)
LEMMA ReplacementKeeps ==
    ASSUME FormsInv, NEW i \in DOMAIN tasks, NEW version \in {now + 1, None}, Write(i, version),
           Served,
           hasty \subseteq hasty', Document(i) \in seen \cup hasty'
    PROVE  FormsInv'
<1>1. /\ seen' = seen /\ timeline' = timeline /\ detail' = detail /\ AssignKept
      /\ edit' = edit /\ remove' = remove /\ replied' = replied /\ created' = created
  BY DEF Served, shown, windowHistory, forms, served, AssignKept
<1>2. files' = [files EXCEPT ![tasks[i].on] = version] /\ now' = now + 1
  BY DEF Write, publish
<1>3. Onward /\ Versions(files', now')
  BY <1>1, <1>2, WriteIsOnward
<1>4. GoesOn(tasks, tasks', seen', files', now')
  BY <1>3, TasksStillFit, PlainAnswer DEF Write
<1>5. SamePickers /\ AssignShape(assign')
  BY <1>1, AssignUnchanged
<1>6. NothingUnseenIsOverwritten'
  <2>1. replaced' = replaced \cup {Document(i)}
    BY DEF Write
  <2> QED BY <1>1, <2>1 DEF FormsInv, NothingUnseenIsOverwritten
<1>7. /\ AllFit(tasks', seen', files', now') /\ PickersAreSeen' /\ KeysAreKept'
      /\ EditIsSafe' /\ DialogIsSeen'
  BY <1>1, <1>3, <1>4, <1>5, Untouched DEF GoesOn
<1>8. EditShape(edit') /\ DialogShape(remove')
  BY <1>1, ShapesOfForms
<1> QED BY <1>1, <1>3, <1>5, <1>6, <1>7, <1>8, FormKeeps

LEMMA updateIssueKeeps ==
    ASSUME FormsInv, NEW i \in DOMAIN tasks, updateIssue(i)
    PROVE  FormsInv'
<1>1. Served
  BY DEF updateIssue
<1>2. Saves(tasks[i], seen, files, now)
  BY HeadOfTask DEF updateIssue, Waiting, FormsInv, AllFit
<1>3. CASE \E status, tag : /\ Refuse(i, status, tag)
                            /\ status = 412 => Document(i) # None /\ tag = Document(i)
  BY <1>1, <1>3, RefusalKeeps
<1>4. CASE /\ By(i).tag = Document(i) /\ Document(i) # None
           /\ Write(i, now + 1)
           /\ hasty' = IF By(i).form = "assign" /\ By(i).early
                       THEN hasty \cup {Document(i)} ELSE hasty
  <2>1. hasty \subseteq hasty'
    BY <1>4
  <2>2. Document(i) \in seen \cup hasty'
    <3>1. CASE By(i).form = "edit" /\ Safe(By(i).tag, tasks[i].on, seen, files, now)
      BY <1>4, <3>1 DEF Safe, Past, Document
    <3>2. CASE By(i).form = "assign" /\ By(i).early = TRUE
      BY <1>4, <3>2
    <3>3. CASE By(i).form = "assign" /\ By(i).tag \in seen
      BY <1>4, <3>3
    <3> QED BY <1>2, <3>1, <3>2, <3>3 DEF Saves, By
  <2> QED BY <1>1, <1>4, <2>1, <2>2, ReplacementKeeps
<1> QED BY <1>3, <1>4 DEF updateIssue

(* A deletion gets on.                                                     *)
LEMMA ProgressKeeps ==
    ASSUME FormsInv, NEW i \in DOMAIN tasks, NEW step, Leaves(i, step), Deletes(tasks[i], seen),
           now' = now \/ now' = now + 1, UNCHANGED <<files, replaced, hasty>>, Served
    PROVE  FormsInv'
<1>1. /\ seen' = seen /\ timeline' = timeline /\ detail' = detail /\ AssignKept
      /\ edit' = edit /\ remove' = remove /\ replied' = replied /\ created' = created
  BY DEF Served, shown, windowHistory, forms, served, AssignKept
<1>2. Onward /\ Versions(files', now')
  <2>1. now \in Int /\ files \in [Issues -> Int \cup {None}] /\ Versions(files, now)
    BY DEF FormsInv, FormTypes
  <2>2. None \notin Int
    BY ScenariosAssumption
  <2> QED BY <1>1, <2>1, <2>2 DEF Onward, Later, Versions
<1>3. GoesOn(tasks, tasks', seen', files', now')
  <2>1. AllFit(tasks, seen', files', now')
    BY <1>2, TasksStillFit
  <2>2. PICK by : by = [tasks[i].by EXCEPT !.left = step]
    OBVIOUS
  <2>3. PICK t : t = [tasks[i] EXCEPT !.by = by]
    OBVIOUS
  <2>4. /\ tasks[i] = [todo |-> tasks[i].todo, on |-> tasks[i].on, by |-> tasks[i].by,
                       ans |-> tasks[i].ans]
        /\ Head(tasks[i].todo) = tasks[i].todo[1]
    BY HeadOfTask, Zenon DEF FormsInv, AllFit
  <2>5. by.tag = tasks[i].by.tag /\ by = [tag |-> by.tag, strategy |-> by.strategy, left |-> by.left]
    BY <2>2 DEF Deletes
  <2>6. /\ t = [todo |-> t.todo, on |-> t.on, by |-> t.by, ans |-> t.ans]
        /\ t.todo = tasks[i].todo /\ t.by = by
    BY <2>3, <2>4
  <2>7. Fits(t, seen', files', now')
    <3>1. Deletes(t, seen')
      BY <1>1, <2>5, <2>6 DEF Deletes
    <3> QED BY <2>6, <3>1, Zenon DEF Fits
  <2>8. tasks' = [tasks EXCEPT ![i] = t]
    <3>1. tasks' = [tasks EXCEPT ![i].by.left = step]
      BY DEF Leaves
    <3> QED BY <2>2, <2>3, <3>1
  <2>9. Head(tasks[i].todo) \notin Pickers
    BY <2>4 DEF Deletes, Pickers
  <2> QED BY <2>1, <2>7, <2>8, <2>9, ReplaceFits DEF GoesOn
<1>4. SamePickers /\ AssignShape(assign')
  BY <1>1, AssignUnchanged
<1>5. NothingUnseenIsOverwritten' /\ KeysAreKept' /\ EditIsSafe' /\ DialogIsSeen' /\ PickersAreSeen'
  BY <1>1, <1>2, <1>3, <1>4, Untouched
<1>6. AllFit(tasks', seen', files', now')
  BY <1>3 DEF GoesOn
<1>7. EditShape(edit') /\ DialogShape(remove')
  BY <1>1, ShapesOfForms
<1> QED BY <1>1, <1>2, <1>4, <1>5, <1>6, <1>7, FormKeeps

LEMMA deleteIssueKeeps ==
    ASSUME FormsInv, NEW i \in DOMAIN tasks, deleteIssue(i)
    PROVE  FormsInv'
<1>1. Served
  BY DEF deleteIssue
<1>2. Deletes(tasks[i], seen)
  BY HeadOfTask DEF deleteIssue, Goes, Waiting, FormsInv, AllFit
<1>3. CASE \E status, tag : /\ Refuse(i, status, tag)
                            /\ status = 412 => Document(i) # None /\ tag = Document(i)
  BY <1>1, <1>3, RefusalKeeps
<1>4. CASE By(i).tag = Document(i) /\ Write(i, None) /\ hasty' = hasty
  <2>1. Document(i) \in seen
    BY <1>2, <1>4 DEF Deletes, By
  <2> QED BY <1>1, <1>4, <2>1, ReplacementKeeps
<1>5. CASE Leaves(i, "children") /\ UNCHANGED <<streamVars, files, replaced, hasty>>
  BY <1>1, <1>2, <1>5, ProgressKeeps DEF streamVars
<1> QED BY <1>3, <1>4, <1>5 DEF deleteIssue

LEMMA moveChildKeeps ==
    ASSUME FormsInv, NEW i \in DOMAIN tasks, moveChild(i)
    PROVE  FormsInv'
<1>1. Served
  BY DEF moveChild
<1>2. Deletes(tasks[i], seen)
  BY HeadOfTask DEF moveChild, Goes, Waiting, FormsInv, AllFit
<1>3. CASE Refuse(i, 500, None)
  BY <1>1, <1>3, RefusalKeeps
<1>4. CASE Leaves(i, "parent") /\ unannounced /\ UNCHANGED <<files, replaced, hasty>>
  BY <1>1, <1>2, <1>4, ProgressKeeps DEF unannounced
<1> QED BY <1>3, <1>4 DEF moveChild

LEMMA removeParentKeeps ==
    ASSUME FormsInv, NEW i \in DOMAIN tasks, removeParent(i)
    PROVE  FormsInv'
<1>1. Served
  BY DEF removeParent
<1>2. Deletes(tasks[i], seen)
  BY HeadOfTask DEF removeParent, Goes, Waiting, FormsInv, AllFit
<1>3. CASE Refuse(i, 500, None)
  BY <1>1, <1>3, RefusalKeeps
<1>4. CASE /\ Write(i, None)
           /\ hasty' = IF By(i).tag # Document(i) THEN hasty \cup {Document(i)} ELSE hasty
  <2>1. hasty \subseteq hasty' /\ Document(i) \in seen \cup hasty'
    BY <1>2, <1>4 DEF Deletes, By
  <2> QED BY <1>1, <1>4, <2>1, ReplacementKeeps
<1> QED BY <1>3, <1>4 DEF removeParent

(* The server knows the key of an issue it has made.                       *)
LEMMA createIssueKeeps ==
    ASSUME FormsInv, NEW i \in DOMAIN tasks, createIssue(i)
    PROVE  FormsInv'
<1>1. /\ files' = files /\ seen' = seen /\ timeline' = timeline /\ detail' = detail
      /\ AssignKept /\ edit' = edit /\ remove' = remove
      /\ replaced' = replaced /\ hasty' = hasty
  BY DEF createIssue, shown, windowHistory, forms, AssignKept
<1>2. now' = now \/ now' = now + 1
  BY DEF createIssue, publish, streamVars
<1>3. Onward /\ Versions(files', now')
  <2>1. now \in Int /\ files \in [Issues -> Int \cup {None}] /\ Versions(files, now)
    BY DEF FormsInv, FormTypes
  <2>2. Onward
    BY <1>1, <1>2, <2>1 DEF Onward, Later
  <2>3. Versions(files', now')
    <3>1. None \notin Int
      BY ScenariosAssumption
    <3> QED BY <1>1, <1>2, <2>1, <3>1 DEF Versions
  <2> QED BY <2>2, <2>3
<1>4. GoesOn(tasks, tasks', seen', files', now')
  <2>1. Answer(i, 401, None) \/ Answer(i, 201, None)
    BY DEF createIssue
  <2> QED BY <1>3, <2>1, TasksStillFit, PlainAnswer
<1>5. KeysAreKept'
  <2>1. CASE replied' = replied /\ created' = created
    BY <1>3, <2>1, Untouched
  <2>2. CASE /\ By(i).key \notin replied /\ replied' = replied \cup {By(i).key}
             /\ created' = [created EXCEPT ![By(i).of] = @ + 1]
    <3>1. Creates(tasks[i])
      BY HeadOfTask DEF createIssue, Waiting, FormsInv, AllFit
    <3>2. By(i).key = By(i).of
      BY <3>1 DEF Creates, By
    <3>3. PICK key : key = By(i).of
      OBVIOUS
    <3>4. PICK new : new = created'
      OBVIOUS
    <3>5. ASSUME NEW o \in DOMAIN new
          PROVE  new[o] = 0 \/ (new[o] = 1 /\ o \in replied')
      <4>1. /\ o \in DOMAIN created
            /\ new[o] = IF o = key THEN created[o] + 1 ELSE created[o]
        BY <2>2, <3>3, <3>4, <3>5
      <4>2. created[o] = 0 \/ (created[o] = 1 /\ o \in replied)
        BY <4>1 DEF FormsInv, KeysAreKept
      <4> QED BY <2>2, <3>2, <3>3, <4>1, <4>2
    <3> QED BY <3>4, <3>5 DEF KeysAreKept
  <2> QED BY <2>1, <2>2 DEF createIssue
<1>6. SamePickers /\ AssignShape(assign')
  BY <1>1, AssignUnchanged
<1>7. /\ AllFit(tasks', seen', files', now') /\ PickersAreSeen' /\ NothingUnseenIsOverwritten'
      /\ EditIsSafe' /\ DialogIsSeen'
  BY <1>1, <1>3, <1>4, <1>6, Untouched DEF GoesOn
<1>8. EditShape(edit') /\ DialogShape(remove')
  BY <1>1, ShapesOfForms
<1> QED BY <1>1, <1>3, <1>5, <1>6, <1>7, <1>8, FormKeeps

LEMMA addCommentKeeps ==
    ASSUME FormsInv, NEW i \in DOMAIN tasks, addComment(i)
    PROVE  FormsInv'
<1>1. /\ files' = files /\ now' = now /\ seen' = seen /\ timeline' = timeline
      /\ detail' = detail /\ AssignKept /\ edit' = edit /\ remove' = remove
      /\ created' = created /\ replaced' = replaced /\ hasty' = hasty
      /\ replied \subseteq replied'
  BY DEF addComment, streamVars, shown, windowHistory, forms, served, formHistory, AssignKept
<1>2. Onward /\ Versions(files', now')
  BY <1>1, NoWriteIsOnward
<1>3. GoesOn(tasks, tasks', seen', files', now')
  <2>1. PICK status : status # 412 /\ Answer(i, status, None)
    BY DEF addComment
  <2> QED BY <1>2, <2>1, TasksStillFit, PlainAnswer
<1>4. SamePickers /\ AssignShape(assign')
  BY <1>1, AssignUnchanged
<1>5. /\ AllFit(tasks', seen', files', now') /\ PickersAreSeen' /\ NothingUnseenIsOverwritten'
      /\ EditIsSafe' /\ DialogIsSeen' /\ KeysAreKept'
  BY <1>1, <1>2, <1>3, <1>4, Untouched DEF GoesOn
<1>6. EditShape(edit') /\ DialogShape(remove')
  BY <1>1, ShapesOfForms
<1> QED BY <1>1, <1>2, <1>4, <1>5, <1>6, FormKeeps

-----------------------------------------------------------------------------
(* The invariant.                                                          *)

LEMMA InitEstablishes == Init => FormsInv
<1> SUFFICES ASSUME Init
             PROVE  FormsInv
  OBVIOUS
<1>1. PICK s \in Scenarios :
          /\ now = 0 /\ files = s.files /\ timeline = None /\ detail = s.detail /\ tasks = s.tasks
          /\ assign = [key |-> None, tag |-> None, painted |-> FALSE, busy |-> FALSE]
          /\ seen = {} /\ edit = NoEdit /\ remove = NoDialog /\ replied = {}
          /\ created = [o \in (1..s.may.openings) \X Texts |-> 0]
          /\ replaced = {} /\ hasty = {}
  BY Zenon DEF Init
<1>2. /\ s.files \in [Issues -> Int \cup {None}]
      /\ \A d \in Issues : s.files[d] # None => s.files[d] <= 0
      /\ \A c, d \in Issues : c # d /\ s.files[c] # None => s.files[c] # s.files[d]
      /\ s.detail \in Issues \cup {None}
      /\ s.tasks \in {<<>>, <<Call(<<"me">> \o Everything, None, None)>>}
  BY ScenariosAssumption
<1>3. FormTypes
  BY <1>1, <1>2 DEF FormTypes, NoEdit, NoDialog
<1>4. Versions(files, now)
  BY <1>1, <1>2 DEF Versions
<1>5. AllFit(tasks, seen, files, now)
  BY <1>1, <1>2, ListsAreOrderly, NoTasksFit, OneTaskFits
<1>6. EditIsSafe /\ DialogIsSeen /\ PickersAreSeen
  BY <1>1 DEF EditIsSafe, DialogIsSeen, PickersAreSeen, NoEdit, NoDialog
<1>7. KeysAreKept /\ NothingUnseenIsOverwritten /\ TimelineIsItsIssues
  BY <1>1 DEF KeysAreKept, NothingUnseenIsOverwritten, TimelineIsItsIssues
<1> QED BY <1>3, <1>4, <1>5, <1>6, <1>7 DEF FormsInv

LEMMA StutteringKeeps ==
    ASSUME FormsInv, UNCHANGED vars
    PROVE  FormsInv'
<1>1. /\ Indoors /\ AssignKept /\ detail' = detail /\ edit' = edit /\ remove' = remove
      /\ tasks' = tasks
  BY DEF vars, windowVars, streamVars, shown, windowHistory, forms, served, formHistory,
         Indoors, AssignKept
<1>2. SamePickers /\ AssignShape(assign')
  BY <1>1, AssignUnchanged
<1> QED BY <1>1, <1>2, NoCall, IndoorsKeeps

LEMMA StepKeeps == FormsInv /\ [Next]_vars => FormsInv'
<1> SUFFICES ASSUME FormsInv, [Next]_vars
             PROVE  FormsInv'
  OBVIOUS
<1>1. ASSUME NEW i \in DOMAIN tasks, Server(i)
      PROVE  FormsInv'
  BY <1>1, readKeeps, signInKeeps, updateIssueKeeps, deleteIssueKeeps, moveChildKeeps,
     removeParentKeeps, createIssueKeeps, addCommentKeeps DEF Server
<1>2. ASSUME NEW i \in DOMAIN tasks, Land(i)
      PROVE  FormsInv'
  <2>1. CASE /\ \/ meLands(i) \/ loginLands(i) \/ logoutLands(i) \/ issuesLand(i) \/ boardLands(i)
                \/ panelLands(i, "integrity") \/ panelLands(i, "git") \/ activityLands(i)
                \/ assignLands(i) \/ assignableLands(i) \/ checkLands(i)
             /\ WindowOnly
    BY <2>1, meLandsKeeps, loginLandsKeeps, logoutLandsKeeps, issuesLandKeeps, boardLandsKeeps,
       panelLandsKeeps, activityLandsKeeps, assignLandsKeeps, assignableLandsKeeps,
       checkLandsKeeps
  <2>2. CASE openEditLands(i) \/ submitEditLands(i) \/ reloadEditLands(i) \/ saveAssignLands(i)
    BY <2>2, openEditLandsKeeps, submitEditLandsKeeps, reloadEditLandsKeeps, saveAssignLandsKeeps
  <2>3. CASE openDeleteLands(i) \/ childrenLand(i) \/ submitDeleteLands(i)
    BY <2>3, openDeleteLandsKeeps, childrenLandKeeps, submitDeleteLandsKeeps
  <2>4. CASE submitCreateLands(i) \/ submitCommentLands(i)
    BY <2>4, submitCreateLandsKeeps
  <2> QED BY <1>2, <2>1, <2>2, <2>3, <2>4 DEF Land
<1>3. CASE (Connect \/ onEvent) /\ WindowOnly
  BY <1>3, StreamFaultKeeps, onEventKeeps
<1>4. CASE Person
  <2>1. CASE /\ login \/ logout \/ switchView \/ closeDetail \/ \E d \in Issues : openDetail(d)
             /\ WindowOnly
    BY <2>1, loginKeeps, logoutKeeps, switchViewKeeps, closeDetailKeeps, openDetailKeeps
  <2>2. CASE openEdit \/ closeEdit \/ submitEdit \/ reloadEdit \/ saveAssign
    BY <2>2, openEditKeeps, closeEditKeeps, submitEditKeeps, reloadEditKeeps, saveAssignKeeps
  <2>3. CASE openDelete \/ closeDelete \/ chooseStrategy \/ submitDelete
    BY <2>3, openDeleteKeeps, closeDeleteKeeps, chooseStrategyKeeps, submitDeleteKeeps
  <2>4. CASE openCreate \/ closeCreate
    BY <2>4, openCreateKeeps
  <2>5. CASE \E text \in Texts : submitCreate(text) \/ submitComment(text)
    BY <2>5, submitCreateKeeps, submitCommentKeeps
  <2> QED BY <1>4, <2>1, <2>2, <2>3, <2>4, <2>5 DEF Person
<1>5. CASE Fault
  BY <1>5, StreamFaultKeeps, RestartKeeps, LoseKeeps, ElsewhereKeeps DEF Fault
<1>6. CASE UNCHANGED vars
  BY <1>6, StutteringKeeps
<1> QED BY <1>1, <1>2, <1>3, <1>4, <1>5, <1>6 DEF Next, System

(* The invariant of the forms holds, however many calls are under way and  *)
(* whatever is lost, cut or changed by others meanwhile.                   *)
THEOREM FormsInvariant == Spec => []FormsInv
<1>1. FormsInv /\ [Next]_vars => FormsInv'
  BY StepKeeps
<1> QED BY InitEstablishes, <1>1, PTL DEF Spec

(* No save and no deletion replaces a version that this window has not put *)
(* before the person, unless a picker was used before it was painted, or a *)
(* deletion moved the children of the issue after it had checked the etag: *)
(* the etags that app.js keeps, with the If-Match check of the server,     *)
(* keep that promise through every order of answers.                       *)
THEOREM SavesReplaceWhatWasSeen == Spec => []NothingUnseenIsOverwritten
<1>1. FormsInv => NothingUnseenIsOverwritten
  BY DEF FormsInv
<1> QED BY <1>1, FormsInvariant, PTL

(* One opening of the form for a new issue makes at most one issue of one  *)
(* text, however often it is submitted and its answers are lost: the key   *)
(* of createKey is that of the opening and the text.                       *)
THEOREM OneOpeningOneIssue == Spec => []OneIssuePerForm
<1>1. FormsInv => OneIssuePerForm
  BY DEF FormsInv, KeysAreKept, OneIssuePerForm
<1> QED BY <1>1, FormsInvariant, PTL

(* The activity under an open detail is that of its issue: loadActivity    *)
(* throws away an answer that comes for another.                           *)
THEOREM ActivityIsOfTheOpenIssue == Spec => []TimelineIsItsIssues
<1>1. FormsInv => TimelineIsItsIssues
  BY DEF FormsInv
<1> QED BY <1>1, FormsInvariant, PTL

-----------------------------------------------------------------------------
(* What the window shows.                                                  *)

(* The stream: numbers that rise to the last one, the events on their way, *)
(* and the position of a source that has one.                              *)
Rising(s, last) ==
    /\ s \in Seq(Nat)
    /\ \A j \in DOMAIN s : IF j = Len(s) THEN s[j] = last ELSE s[j] < last
Sent(w) ==
    /\ w \in Seq([epoch : {epoch}, seq : Nat])
    /\ \A j \in DOMAIN w : IF j = Len(w) THEN w[j].seq = seq ELSE w[j].seq < seq
Position(id) ==
    /\ id \in [epoch : Nat, seq : Nat]
    /\ id.epoch <= epoch /\ (id.epoch = epoch => id.seq <= seq)
StreamInv ==
    /\ epoch \in Nat /\ seq \in Nat /\ now \in Int /\ gap \in Int /\ gap <= now
    /\ Rising(buffer, seq) /\ (buffer = <<>> => seq = 0)
    /\ Sent(wire) /\ (wire # <<>> => Attached)
    /\ source # None =>
           /\ source = [which |-> source.which, state |-> source.state, id |-> source.id]
           /\ source.which \in Int /\ source.state \in {"connecting", "open", "refused"}
           /\ source.id # None => Position(source.id)
    /\ Attached /\ source.id # None => (wire = <<>> <=> source.id = Event(seq))

(* The source will be told of something, and then everything is loaded.    *)
(* Until then it does not matter what a view was loaded from; else it must *)
(* be the board as it is, or a change of which the source is never told.   *)
Told == wire # <<>> \/ (source.id # None /\ source.id # Event(seq))
Goods == {a \in Int : a <= now /\ (a = now \/ a < gap \/ Told)}

(* A task brings a view: it has been asked for, and the answer, if it has  *)
(* come, is good and no older than what is shown; or it will be asked for. *)
Got(t) == t.ans # None /\ t.ans.status = 200
About(t, v, d) == Head(t.todo) = v /\ (v = "activity" => t.on = d)
AsksFor(t, v) == Head(t.todo) \in Loaders /\ \E m \in DOMAIN t.todo : m > 1 /\ t.todo[m] = v
Brings(t, v, a, G, d) ==
    \/ About(t, v, d) /\ (Got(t) => t.ans.at \in G /\ a <= t.ans.at)
    \/ AsksFor(t, v)
Owed(v, a, ts, G, d) == a \in G \/ \E i \in DOMAIN ts : Brings(ts[i], v, a, G, d)

(* What is shown, and what an answer on its way would put in its place, is *)
(* good or will be replaced.                                               *)
Due(st, d, tb) ==
    {v \in ({"issues", "board", "activity"} \cup Panels) \ st :
        (v = "activity" => d # None) /\ (v = "board" => tb = "board")}
TrackedView(v, ts, G, a, d) ==
    /\ Owed(v, a, ts, G, d)
    /\ \A i \in DOMAIN ts : About(ts[i], v, d) /\ Got(ts[i]) =>
           ts[i].ans.at < a \/ Owed(v, ts[i].ans.at, ts, G, d)
Tracked(ts, G, sh, st, d, tb) ==
    \A v \in Due(st, d, tb) : TrackedView(v, ts, G, sh[v], d)
Shown(sh, at) == sh \in [Views -> Int] /\ \A v \in Views : sh[v] <= at
Dated(ts, at) == \A i \in DOMAIN ts : Got(ts[i]) => ts[i].ans.at \in Int /\ ts[i].ans.at <= at

ViewsInv ==
    /\ StreamInv /\ Shown(shows, now) /\ Dated(tasks, now)
    /\ source # None => Tracked(tasks, Goods, shows, stale, detail, tab)

-----------------------------------------------------------------------------
(* Lemmas about the stream.                                                *)

(* The empty buffer of a new process.                                      *)
LEMMA NothingRises == \A last : Rising(<<>>, last)
BY DEF Rising

(* One more number.                                                        *)
LEMMA RisesOnward ==
    ASSUME NEW s, NEW last \in Nat, Rising(s, last)
    PROVE  Rising(Append(s, last + 1), last + 1) /\ Append(s, last + 1) # <<>>
<1>1. s \in Seq(Nat) /\ last + 1 \in Nat
  BY DEF Rising
<1>2. PICK t : t = Append(s, last + 1)
  OBVIOUS
<1>3. /\ t \in Seq(Nat) /\ Len(t) = Len(s) + 1 /\ t # <<>>
      /\ \A j \in 1..Len(s) : t[j] = s[j]
      /\ t[Len(s) + 1] = last + 1
  BY <1>1, <1>2, AppendProperties
<1>4. ASSUME NEW j \in DOMAIN t
      PROVE  IF j = Len(t) THEN t[j] = last + 1 ELSE t[j] < last + 1
  <2>1. j \in 1..Len(s) \/ j = Len(s) + 1
    BY <1>1, <1>3
  <2>2. CASE j \in 1..Len(s)
    <3>1. s[j] <= last /\ s[j] \in Nat
      BY <1>1, <2>2 DEF Rising
    <3> QED BY <1>1, <1>3, <2>2, <3>1
  <2> QED BY <1>1, <1>3, <2>1, <2>2
<1> QED BY <1>2, <1>3, <1>4 DEF Rising

(* The end of a list that rises.                                           *)
LEMMA SuffixRises ==
    ASSUME NEW s, NEW last, Rising(s, last), NEW k \in 1..Len(s)
    PROVE  Rising(SubSeq(s, k, Len(s)), last) /\ SubSeq(s, k, Len(s)) # <<>>
<1> DEFINE n == Len(s)
<1>1. s \in Seq(Nat) /\ n \in Nat /\ DOMAIN s = 1..n
  BY DEF Rising
<1>2. PICK t : t = SubSeq(s, k, n)
  OBVIOUS
<1>3. /\ t \in Seq(Nat) /\ Len(t) = n - k + 1 /\ DOMAIN t = 1..(n - k + 1)
      /\ \A j \in 1..(n - k + 1) : t[j] = s[j + k - 1]
  BY <1>1, <1>2
<1>4. ASSUME NEW j \in DOMAIN t
      PROVE  IF j = Len(t) THEN t[j] = last ELSE t[j] < last
  <2>1. PICK m \in DOMAIN s : m = j + k - 1
    BY <1>1, <1>3
  <2>2. j = Len(t) <=> m = Len(s)
    BY <1>1, <1>3, <2>1
  <2> QED BY <1>3, <2>1, <2>2 DEF Rising
<1>5. t # <<>>
  BY <1>1, <1>3
<1> QED BY <1>2, <1>3, <1>4, <1>5 DEF Rising

(* The buffer drops its first number.                                      *)
LEMMA TailRises ==
    ASSUME NEW s, NEW last, Rising(s, last), s # <<>>
    PROVE  Rising(Tail(s), last) /\ (Len(s) > 1 => Tail(s) # <<>>)
<1>1. s \in Seq(Nat) /\ Len(s) \in Nat /\ Len(s) >= 1
  BY DEF Rising
<1>2. PICK t : t = Tail(s)
  OBVIOUS
<1>3. CASE Len(s) = 1
  <2>1. t \in Seq(Nat) /\ Len(t) = 0
    BY <1>1, <1>2, <1>3
  <2>2. t = <<>>
    BY <2>1
  <2>3. ~(Len(s) > 1)
    BY <1>3
  <2> QED BY <1>2, <2>2, <2>3, NothingRises
<1>4. CASE Len(s) > 1
  <2>1. t = SubSeq(s, 2, Len(s)) /\ 2 \in 1..Len(s)
    BY <1>1, <1>2, <1>4
  <2> QED BY <1>2, <2>1, SuffixRises
<1>5. \A n \in Nat : n >= 1 => n = 1 \/ n > 1
  OBVIOUS
<1> QED BY <1>1, <1>3, <1>4, <1>5

(* What a source that has a position is sent when it attaches: nothing if  *)
(* it is the last one, and else events of which the last one is.           *)
LEMMA EventsOf ==
    ASSUME StreamInv, NEW ns, Rising(ns, seq), NEW w, w = [j \in DOMAIN ns |-> Event(ns[j])]
    PROVE  Sent(w) /\ Len(w) = Len(ns) /\ (w = <<>> <=> ns = <<>>)
<1>1. ns \in Seq(Nat) /\ DOMAIN ns = 1..Len(ns) /\ Len(ns) \in Nat
  BY DEF Rising
<1>2. \A j \in DOMAIN ns : Event(ns[j]) \in [epoch : {epoch}, seq : Nat] /\ Event(ns[j]).seq = ns[j]
  BY <1>1 DEF Event
<1>3. w \in [1..Len(ns) -> [epoch : {epoch}, seq : Nat]]
  BY <1>1, <1>2
<1>4. w \in Seq([epoch : {epoch}, seq : Nat]) /\ Len(w) = Len(ns)
  BY <1>1, <1>3
<1>5. \A j \in DOMAIN w : w[j].seq = ns[j]
  BY <1>2, <1>3
<1>6. Sent(w)
  BY <1>1, <1>4, <1>5 DEF Sent, Rising
<1>7. w = <<>> <=> ns = <<>>
  BY <1>1, <1>4
<1> QED BY <1>4, <1>6, <1>7

(* publish: the event goes to a source that is attached.                   *)
LEMMA SentOnward ==
    ASSUME StreamInv, NEW t, t = Append(wire, Event(seq + 1))
    PROVE  /\ t \in Seq([epoch : {epoch}, seq : Nat]) /\ t # <<>>
           /\ \A j \in DOMAIN t : IF j = Len(t) THEN t[j].seq = seq + 1 ELSE t[j].seq < seq + 1
<1> DEFINE Events == [epoch : {epoch}, seq : Nat]
<1>0. \A E : wire \in Seq(E) => \A j \in 1..Len(wire) : wire[j] \in E /\ j \in DOMAIN wire
  OBVIOUS
<1>1. wire \in Seq(Events) /\ seq \in Nat /\ Event(seq + 1) \in Events /\ Event(seq + 1).seq = seq + 1
  BY DEF StreamInv, Sent, Event
<1>2. \A j \in 1..Len(wire) : wire[j] \in Events /\ wire[j].seq <= seq
  <2> SUFFICES ASSUME NEW j \in 1..Len(wire)
               PROVE  wire[j] \in Events /\ wire[j].seq <= seq
    OBVIOUS
  <2>1. wire[j] \in Events /\ j \in DOMAIN wire
    BY <1>0, <1>1, Zenon
  <2>2. wire[j].seq \in Nat
    BY <2>1
  <2> QED BY <1>1, <2>1, <2>2 DEF StreamInv, Sent
<1> HIDE DEF Events
<1>3. /\ t \in Seq(Events) /\ Len(t) = Len(wire) + 1 /\ Len(wire) \in Nat
      /\ \A j \in 1..Len(wire) : t[j] = wire[j]
      /\ t[Len(wire) + 1] = Event(seq + 1)
  BY <1>1, AppendProperties
<1>4. t # <<>> /\ DOMAIN t = 1..(Len(wire) + 1)
  BY <1>3
<1>5. ASSUME NEW j \in DOMAIN t
      PROVE  IF j = Len(t) THEN t[j].seq = seq + 1 ELSE t[j].seq < seq + 1
  <2>1. CASE j = Len(t)
    BY <1>1, <1>3, <2>1
  <2>2. CASE j # Len(t)
    <3>1. j \in 1..Len(wire)
      BY <1>3, <1>4, <2>2
    <3>2. wire[j].seq <= seq /\ wire[j].seq \in Nat
      BY <1>2, <3>1 DEF Events
    <3> QED BY <1>1, <1>3, <2>2, <3>1, <3>2
  <2> QED BY <2>1, <2>2
<1> QED BY <1>3, <1>4, <1>5 DEF Events

(* The last event that is on its way is the last one there is.             *)
LEMMA TailSent ==
    ASSUME StreamInv, wire # <<>>
    PROVE  /\ Sent(Tail(wire)) /\ Position(Head(wire))
           /\ Tail(wire) = <<>> <=> Head(wire) = Event(seq)
<1>1. /\ wire \in Seq([epoch : {epoch}, seq : Nat]) /\ Len(wire) \in Nat /\ Len(wire) >= 1
      /\ seq \in Nat /\ epoch \in Nat /\ DOMAIN wire = 1..Len(wire)
  BY DEF StreamInv, Sent
<1>2. PICK t, h : t = Tail(wire) /\ h = Head(wire)
  OBVIOUS
<1>3. /\ h = wire[1] /\ h \in [epoch : {epoch}, seq : Nat]
      /\ t \in Seq([epoch : {epoch}, seq : Nat]) /\ Len(t) = Len(wire) - 1
      /\ \A j \in 1..Len(t) : t[j] = wire[j + 1]
      /\ DOMAIN t = 1..Len(t)
  <2>1. PICK E : E = [epoch : {epoch}, seq : Nat]
    OBVIOUS
  <2>2. wire \in Seq(E) /\ wire # <<>>
    BY <1>1, <2>1
  <2>3. /\ h = wire[1] /\ h \in E /\ t \in Seq(E) /\ Len(t) = Len(wire) - 1
        /\ \A j \in 1..Len(t) : t[j] = wire[j + 1]
        /\ DOMAIN t = 1..Len(t)
    BY <1>2, <2>2
  <2> QED BY <2>1, <2>3
<1>4. t = <<>> <=> Len(wire) = 1
  <2>1. t = <<>> <=> Len(t) = 0
    BY <1>3
  <2> QED BY <1>1, <1>3, <2>1
<1>5. ASSUME NEW j \in DOMAIN t
      PROVE  IF j = Len(t) THEN t[j].seq = seq ELSE t[j].seq < seq
  <2>1. PICK m \in DOMAIN wire : m = j + 1
    BY <1>1, <1>3
  <2>2. j = Len(t) <=> m = Len(wire)
    BY <1>1, <1>3, <2>1
  <2>3. t[j] = wire[m]
    BY <1>3, <2>1
  <2> QED BY <2>2, <2>3 DEF StreamInv, Sent
<1>6. 1 \in DOMAIN wire /\ (Len(wire) = 1 => h.seq = seq) /\ (Len(wire) # 1 => h.seq < seq)
  BY <1>1, <1>3 DEF StreamInv, Sent
<1>7. h = [epoch |-> epoch, seq |-> h.seq] /\ h.seq \in Nat
  BY <1>3
<1>8. h \in [epoch : Nat, seq : Nat] /\ h.epoch <= epoch /\ h.seq <= seq
  BY <1>1, <1>6, <1>7
<1>9. h = Event(seq) <=> Len(wire) = 1
  BY <1>1, <1>6, <1>7 DEF Event
<1> QED BY <1>2, <1>3, <1>4, <1>5, <1>8, <1>9 DEF Sent, Position

-----------------------------------------------------------------------------
(* Steps of the stream.  A loud one leaves the source to be told of all    *)
(* there was; a quiet one lets it forget nothing.                          *)
Loud == source' # None => \A a \in Int : a <= now' => a \in Goods'
Quiet == now' = now /\ (source' # None => source # None /\ Goods \subseteq Goods')

(* Of a new change the source will be told, or never: it has no position.  *)
LEMMA publishIsLoud ==
    ASSUME StreamInv, publish
    PROVE  StreamInv' /\ Loud /\ now' = now + 1
<1>1. /\ now' = now + 1 /\ seq' = seq + 1 /\ epoch' = epoch /\ source' = source
      /\ epoch \in Nat /\ seq \in Nat /\ now \in Int /\ gap \in Int /\ gap <= now
  BY DEF publish, StreamInv
<1>2. gap' \in Int /\ gap' <= now'
  BY <1>1 DEF publish
<1>3. Rising(buffer', seq') /\ buffer' # <<>>
  <2>1. PICK all : all = Append(buffer, seq + 1)
    OBVIOUS
  <2>2. Rising(all, seq + 1) /\ all # <<>>
    BY <2>1, RisesOnward DEF StreamInv
  <2>3. buffer' = IF Len(all) > Buffer THEN Tail(all) ELSE all
    BY <2>1 DEF publish
  <2>4. Len(all) \in Nat
    BY <2>2 DEF Rising
  <2>5. Len(all) > Buffer => Len(all) > 1
    BY <2>4, BufferAssumption
  <2> QED BY <1>1, <2>2, <2>3, <2>5, TailRises
<1>4. Attached' <=> Attached
  BY <1>1 DEF Attached
<1>5. CASE Attached
  <2>1. wire' = Append(wire, Event(seq + 1))
    BY <1>5 DEF publish
  <2>2. Sent(wire)' /\ wire' # <<>>
    BY <1>1, <2>1, SentOnward DEF Sent
  <2>3. source.id # None => Position(source.id)
    BY <1>5 DEF StreamInv, Attached
  <2>4. source.id # None => Position(source.id)' /\ source.id # Event(seq)'
    BY <1>1, <2>3 DEF Position, Event
  <2>5. Told'
    BY <2>2 DEF Told
  <2>6. StreamInv'
    BY <1>1, <1>2, <1>3, <1>4, <1>5, <2>2, <2>4 DEF StreamInv, Rising
  <2> QED BY <1>1, <2>5, <2>6 DEF Loud, Goods
<1>6. CASE ~Attached
  <2>1. wire' = <<>> /\ wire = <<>>
    BY <1>6 DEF publish, StreamInv
  <2>2. Sent(wire)'
    BY <2>1 DEF Sent
  <2>3. source # None /\ source.id # None => Position(source.id)' /\ source.id # Event(seq)'
    BY <1>1 DEF StreamInv, Position, Event
  <2>4. StreamInv'
    BY <1>1, <1>2, <1>3, <1>4, <1>6, <2>1, <2>2, <2>3 DEF StreamInv, Rising
  <2>5. source # None /\ source.id = None => gap' = now + 1
    BY <1>6 DEF publish
  <2>6. source # None /\ source.id # None => Told'
    BY <1>1, <2>3 DEF Told
  <2>7. ASSUME source' # None, NEW a \in Int, a <= now'
        PROVE  a \in Goods'
    <3>1. CASE source.id = None
      <4>1. a = now' \/ a < gap'
        BY <1>1, <2>5, <2>7, <3>1
      <4> QED BY <2>7, <4>1 DEF Goods
    <3>2. CASE source.id # None
      BY <1>1, <2>6, <2>7, <3>2 DEF Goods
    <3> QED BY <3>1, <3>2
  <2> QED BY <1>1, <2>4, <2>7 DEF Loud
<1> QED BY <1>5, <1>6

(* A change nobody is told of leaves a gap behind all there was.           *)
LEMMA unannouncedIsLoud ==
    ASSUME StreamInv, unannounced
    PROVE  StreamInv' /\ Loud /\ now' = now + 1
<1>1. /\ now' = now + 1 /\ gap' = now' /\ now \in Int
      /\ epoch' = epoch /\ seq' = seq /\ buffer' = buffer /\ source' = source /\ wire' = wire
  BY DEF unannounced, StreamInv
<1>2. StreamInv'
  BY <1>1 DEF StreamInv, Rising, Sent, Position, Attached, Event
<1>3. Loud
  BY <1>1 DEF Loud, Goods
<1> QED BY <1>1, <1>2, <1>3

(* When a connection ends, a source that had something on its way will be  *)
(* told of all, or by the gap never; one that had not is told no less than *)
(* before.                                                                 *)
LEMMA CutTells ==
    ASSUME StreamInv, cut, source # None => (epoch' = epoch /\ seq' = seq) \/ epoch' = epoch + 1,
           epoch' \in Nat, seq' \in Nat
    PROVE  Loud \/ Quiet
<1>1. /\ now' = now /\ wire' = <<>> /\ now \in Int /\ gap \in Int /\ epoch \in Nat
      /\ source' # None => source # None
  BY DEF cut, StreamInv, Attached
<1>2. CASE source = None
  BY <1>1, <1>2 DEF Quiet
<1>3. CASE source # None /\ source.id = None /\ wire # <<>>
  <2>1. gap' = now
    BY <1>3 DEF cut
  <2> QED BY <1>1, <2>1 DEF Loud, Goods
<1>4. CASE source # None /\ source.id = None /\ wire = <<>>
  <2>1. gap' = gap /\ ~Told
    BY <1>4 DEF cut, Told
  <2> QED BY <1>1, <1>4, <2>1 DEF Quiet, Goods
<1>5. CASE source # None /\ source.id # None
  <2>1. source = [which |-> source.which, state |-> source.state, id |-> source.id]
    BY <1>5 DEF StreamInv
  <2>2. source'.id = source.id
    BY <2>1 DEF cut
  <2>3. Position(source.id) /\ (wire # <<>> => source.id # Event(seq))
    BY <1>5 DEF StreamInv
  <2>4. Told => Told'
    <3>1. Told => source.id # Event(seq)
      BY <2>3 DEF Told
    <3>2. CASE epoch' = epoch /\ seq' = seq
      BY <1>5, <2>2, <3>1, <3>2 DEF Told, Event
    <3>3. CASE epoch' = epoch + 1
      <4>1. source'.id # Event(seq)'
        BY <1>1, <2>2, <2>3, <3>3 DEF Position, Event
      <4> QED BY <1>5, <2>2, <4>1 DEF Told
    <3> QED BY <1>5, <3>2, <3>3
  <2>5. gap' = gap
    BY <1>5 DEF cut
  <2> QED BY <1>1, <1>5, <2>4, <2>5 DEF Quiet, Goods
<1> QED BY <1>2, <1>3, <1>4, <1>5

(* Whatever becomes of the buffer, so long as its numbers rise.            *)
LEMMA CutKeeps ==
    ASSUME StreamInv, cut, epoch' \in Nat, seq' \in Nat, Rising(buffer', seq'),
           buffer' = <<>> => seq' = 0,
           \A id : Position(id) => Position(id)'
    PROVE  StreamInv'
<1>1. now' = now /\ wire' = <<>> /\ gap' \in Int /\ gap' <= now
  BY DEF cut, StreamInv
<1>2. Sent(wire)'
  BY <1>1 DEF Sent
<1>3. source # None => source = [which |-> source.which, state |-> source.state, id |-> source.id]
  BY DEF StreamInv
<1>4. ASSUME source' # None
      PROVE  /\ source' = [which |-> source'.which, state |-> source'.state, id |-> source'.id]
             /\ source'.id = source.id /\ source # None /\ source'.state # "open"
  <2>1. source # None
    BY <1>4 DEF cut, Attached
  <2> QED BY <1>3, <2>1 DEF cut, Attached
<1>5. source' # None /\ source'.id # None => Position(source.id)'
  BY <1>4 DEF StreamInv
<1>7. ~Attached'
  BY <1>4 DEF Attached
<1>8. source' # None => source'.which \in Int /\ source'.state \in {"connecting", "open", "refused"}
  <2>1. source # None => source'.which = source.which /\ source'.state \in {"connecting", source.state}
    BY <1>3 DEF cut
  <2> QED BY <1>4, <2>1 DEF StreamInv
<1> QED BY <1>1, <1>2, <1>4, <1>5, <1>7, <1>8 DEF StreamInv, Rising

LEMMA disconnectTells ==
    ASSUME StreamInv, disconnect
    PROVE  StreamInv' /\ (Loud \/ Quiet) /\ now' = now
<1>1. cut /\ epoch' = epoch /\ seq' = seq /\ buffer' = buffer
  BY DEF disconnect
<1>2. epoch \in Nat /\ seq \in Nat /\ Rising(buffer, seq) /\ (buffer = <<>> => seq = 0)
  BY DEF StreamInv
<1>3. \A id : Position(id) => Position(id)'
  BY <1>1 DEF Position
<1> QED BY <1>1, <1>2, <1>3, CutTells, CutKeeps DEF cut

LEMMA restartTells ==
    ASSUME StreamInv, restart
    PROVE  StreamInv' /\ (Loud \/ Quiet) /\ now' = now
<1>1. cut /\ epoch' = epoch + 1 /\ seq' = 0 /\ buffer' = <<>>
  BY DEF restart
<1>2. epoch \in Nat
  BY DEF StreamInv
<1>3. \A id : Position(id) => Position(id)'
  BY <1>1, <1>2 DEF Position
<1>4. Rising(buffer', seq')
  BY <1>1, NothingRises
<1> QED BY <1>1, <1>2, <1>3, <1>4, CutTells, CutKeeps DEF cut

(* What a source that comes back is sent ends with the last event there is.*)
LEMMA ResumedIsSent ==
    ASSUME StreamInv, NEW id, id # None => Position(id)
    PROVE  /\ Sent(Resumed(id))
           /\ id = None => Resumed(id) = <<>>
           /\ id # None => (Resumed(id) = <<>> <=> id = Event(seq))
<1>0. /\ epoch \in Nat /\ seq \in Nat /\ buffer \in Seq(Nat) /\ Rising(buffer, seq)
      /\ Len(buffer) \in Nat /\ DOMAIN buffer = 1..Len(buffer) /\ (buffer = <<>> => seq = 0)
  BY DEF StreamInv, Rising
<1>1. CASE id = None
  BY <1>1 DEF Resumed, Sent
<1>2. CASE id # None /\ ~parseLastEventId(id)
  <2>1. Resumed(id) = <<Event(seq)>> /\ Event(seq) \in [epoch : {epoch}, seq : Nat] /\ Event(seq).seq = seq
    BY <1>0, <1>2 DEF Resumed, Event
  <2>2. PICK w : w = <<Event(seq)>>
    OBVIOUS
  <2>3. w \in Seq([epoch : {epoch}, seq : Nat]) /\ Len(w) = 1 /\ w[1] = Event(seq) /\ w # <<>>
    BY <2>1, <2>2
  <2>4. Sent(w)
    <3>1. ASSUME NEW j \in DOMAIN w
          PROVE  IF j = Len(w) THEN w[j].seq = seq ELSE w[j].seq < seq
      <4>1. j = 1
        BY <2>3
      <4> QED BY <2>1, <2>3, <4>1
    <3> QED BY <2>3, <3>1 DEF Sent
  <2>5. id # Event(seq)
    <3>1. SUFFICES ASSUME id = Event(seq)
                   PROVE  parseLastEventId(id)
      BY <1>2
    <3>2. id.epoch = epoch /\ id.seq = seq
      BY <3>1 DEF Event
    <3>3. CASE buffer = <<>>
      BY <3>2, <3>3 DEF parseLastEventId
    <3>4. CASE buffer # <<>>
      <4>1. 1 \in DOMAIN buffer /\ Head(buffer) = buffer[1]
        BY <1>0, <3>4
      <4>2. Head(buffer) <= seq /\ Head(buffer) \in Nat
        BY <1>0, <4>1 DEF Rising
      <4> QED BY <1>0, <3>2, <4>2 DEF parseLastEventId
    <3> QED BY <3>3, <3>4
  <2> QED BY <1>2, <2>1, <2>2, <2>3, <2>4, <2>5
<1>3. CASE id # None /\ parseLastEventId(id)
  <2>1. id \in [epoch : Nat, seq : Nat] /\ id.epoch = epoch /\ id.seq <= seq /\ id.seq \in Nat
    BY <1>3 DEF Position, parseLastEventId
  <2>2. PICK later : later = {j \in DOMAIN buffer : buffer[j] > id.seq}
    OBVIOUS
  <2>3. PICK missed : missed = IF later = {} THEN <<>> ELSE SubSeq(buffer, Min(later), Len(buffer))
    OBVIOUS
  <2>4. PICK w : w = [i \in DOMAIN missed |-> Event(missed[i])]
    OBVIOUS
  <2>5. Resumed(id) = w
    BY <1>3, <2>2, <2>3, <2>4 DEF Resumed
  <2>6. id = Event(seq) <=> id.seq = seq
    BY <1>0, <2>1 DEF Event
  <2>7. CASE later = {}
    <3>1. missed = <<>> /\ w = <<>>
      BY <2>3, <2>4, <2>7
    <3>2. id.seq = seq
      <4>1. CASE buffer = <<>>
        BY <1>0, <2>1, <4>1
      <4>2. CASE buffer # <<>>
        <5>1. Len(buffer) \in DOMAIN buffer
          BY <1>0, <4>2
        <5>2. buffer[Len(buffer)] = seq
          BY <1>0, <5>1 DEF Rising
        <5>3. ~(seq > id.seq)
          BY <2>2, <2>7, <5>1, <5>2
        <5> QED BY <1>0, <2>1, <5>3
      <4> QED BY <4>1, <4>2
    <3>3. Sent(w)
      BY <3>1 DEF Sent
    <3> QED BY <1>3, <2>5, <2>6, <3>1, <3>2, <3>3
  <2>8. CASE later # {}
    <3>1. PICK k : k = Min(later)
      OBVIOUS
    <3>2. k \in later
      <4>1. later \subseteq 1..Len(buffer)
        BY <1>0, <2>2
      <4> QED BY <1>0, <2>8, <3>1, <4>1, SmallestIsListed
    <3>3. k \in 1..Len(buffer) /\ buffer[k] > id.seq
      BY <1>0, <2>2, <3>2
    <3>4. missed = SubSeq(buffer, k, Len(buffer))
      BY <2>3, <2>8, <3>1
    <3>5. Rising(missed, seq) /\ missed # <<>>
      BY <1>0, <3>3, <3>4, SuffixRises
    <3>6. Sent(w) /\ w # <<>>
      BY <2>4, <3>5, EventsOf
    <3>7. buffer[k] <= seq /\ buffer[k] \in Nat
      BY <1>0, <3>3 DEF Rising
    <3>8. id.seq # seq
      BY <1>0, <2>1, <3>3, <3>7
    <3> QED BY <1>3, <2>5, <2>6, <3>6, <3>8
  <2> QED BY <2>7, <2>8
<1> QED BY <1>1, <1>2, <1>3

(* EventSource comes back: what it missed is sent, or one resync.          *)
LEMMA attachTells ==
    ASSUME StreamInv, source # None, source.state = "connecting", attach
    PROVE  StreamInv' /\ Quiet
<1>1. /\ now' = now /\ epoch' = epoch /\ seq' = seq /\ buffer' = buffer /\ gap' = gap
      /\ wire' = Resumed(source.id) /\ source' = [source EXCEPT !.state = "open"]
  BY DEF attach
<1>2. source = [which |-> source.which, state |-> source.state, id |-> source.id]
  BY DEF StreamInv
<1>3. /\ source' = [which |-> source'.which, state |-> source'.state, id |-> source'.id]
      /\ source'.id = source.id
      /\ source'.which = source.which /\ source'.state = "open" /\ source.which \in Int
  BY <1>1, <1>2 DEF StreamInv
<1>4. source.id # None => Position(source.id)
  BY DEF StreamInv
<1>5. /\ Sent(wire')
      /\ source.id = None => wire' = <<>>
      /\ source.id # None => (wire' = <<>> <=> source.id = Event(seq))
  BY <1>1, <1>4, ResumedIsSent
<1>6. wire = <<>>
  BY DEF StreamInv, Attached
<1>7. Told <=> Told'
  BY <1>1, <1>3, <1>5, <1>6 DEF Told, Event
<1>9. Quiet
  BY <1>1, <1>7 DEF Quiet, Goods
<1>10. Rising(buffer, seq)' /\ Sent(wire)' /\ (source'.id # None => Position(source.id)')
  BY <1>1, <1>3, <1>4, <1>5 DEF StreamInv, Sent, Position, Rising
<1>11. source'.id # None => (wire' = <<>> <=> source'.id = Event(seq)')
  BY <1>1, <1>3, <1>5 DEF Event
<1>12. /\ epoch' \in Nat /\ seq' \in Nat /\ now' \in Int /\ gap' \in Int /\ gap' <= now'
       /\ buffer' = <<>> => seq' = 0
  BY <1>1 DEF StreamInv
<1>13. Attached'
  <2>1. source' \in Sources
    BY <1>3, <1>4 DEF Sources, Position
  <2> QED BY <1>3, <2>1, NoneAssumption DEF Attached
<1> QED BY <1>3, <1>9, <1>10, <1>11, <1>12, <1>13 DEF StreamInv

LEMMA refuseTells ==
    ASSUME StreamInv, source # None, source.state = "connecting", refuse
    PROVE  StreamInv' /\ Quiet
<1>1. /\ now' = now /\ epoch' = epoch /\ seq' = seq /\ buffer' = buffer /\ gap' = gap
      /\ wire' = wire /\ wire = <<>> /\ source' = [source EXCEPT !.state = "refused"]
  BY DEF refuse, StreamInv, Attached
<1>2. source = [which |-> source.which, state |-> source.state, id |-> source.id]
  BY DEF StreamInv
<1>3. /\ source' = [which |-> source'.which, state |-> source'.state, id |-> source'.id]
      /\ source'.id = source.id
      /\ source'.which = source.which /\ source'.state = "refused" /\ source.which \in Int
  BY <1>1, <1>2 DEF StreamInv
<1>4. ~Attached'
  BY <1>3 DEF Attached
<1>5. Told <=> Told'
  BY <1>1, <1>3 DEF Told, Event
<1>6. Quiet
  BY <1>1, <1>5 DEF Quiet, Goods
<1> QED BY <1>1, <1>3, <1>4, <1>6 DEF StreamInv, Rising, Sent, Position

(* A new source is told of nothing that was.                               *)
LEMMA newSourceIsLoud ==
    ASSUME StreamInv, NEW which \in Int, newSource(which)
    PROVE  StreamInv' /\ Loud /\ now' = now
<1>1. /\ now' = now /\ epoch' = epoch /\ seq' = seq /\ buffer' = buffer /\ gap' = now
      /\ wire' = <<>> /\ source' = [which |-> which, state |-> "connecting", id |-> None]
  BY DEF newSource
<1>2. ~Attached' /\ source'.id = None /\ source'.which = which /\ source'.state = "connecting"
  BY <1>1 DEF Attached
<1>3. source' = [which |-> source'.which, state |-> source'.state, id |-> source'.id]
  BY <1>1
<1>4. Sent(wire)'
  BY <1>1 DEF Sent
<1>5. Loud
  BY <1>1 DEF Loud, Goods, StreamInv
<1> QED BY <1>1, <1>2, <1>3, <1>4, <1>5 DEF StreamInv, Rising

LEMMA closeSourceTells ==
    ASSUME StreamInv, closeSource
    PROVE  StreamInv' /\ source' = None /\ now' = now
BY DEF StreamInv, closeSource, Attached, Sent, Rising

(* The id of the event received is the position of the source.             *)
LEMMA receiveTells ==
    ASSUME StreamInv, wire # <<>>, receive
    PROVE  StreamInv' /\ now' = now /\ source # None
<1>1. /\ now' = now /\ epoch' = epoch /\ seq' = seq /\ buffer' = buffer /\ gap' = gap
      /\ wire' = Tail(wire) /\ source' = [source EXCEPT !.id = Head(wire)]
  BY DEF receive
<1>2. Attached /\ source # None /\ source.state = "open"
  BY DEF StreamInv, Attached
<1>3. source = [which |-> source.which, state |-> source.state, id |-> source.id]
  BY <1>2 DEF StreamInv
<1>4. /\ source' = [which |-> source'.which, state |-> source'.state, id |-> source'.id]
      /\ source'.id = Head(wire)
      /\ source'.which = source.which /\ source'.state = "open" /\ source.which \in Int
  BY <1>1, <1>2, <1>3 DEF StreamInv
<1>5. Sent(Tail(wire)) /\ Position(Head(wire)) /\ (Tail(wire) = <<>> <=> Head(wire) = Event(seq))
  BY TailSent
<1>6. Attached'
  <2>1. source' \in Sources
    BY <1>4, <1>5 DEF Sources, Position
  <2> QED BY <1>4, <2>1, NoneAssumption DEF Attached
<1>7. Rising(buffer, seq)' /\ Sent(wire)' /\ Position(source.id)'
  BY <1>1, <1>4, <1>5 DEF StreamInv, Sent, Position, Rising
<1>8. wire' = <<>> <=> source'.id = Event(seq)'
  BY <1>1, <1>4, <1>5 DEF Event
<1>9. /\ epoch' \in Nat /\ seq' \in Nat /\ now' \in Int /\ gap' \in Int /\ gap' <= now'
      /\ buffer' = <<>> => seq' = 0
  BY <1>1 DEF StreamInv
<1> QED BY <1>1, <1>2, <1>4, <1>6, <1>7, <1>8, <1>9 DEF StreamInv

-----------------------------------------------------------------------------
(* Steps of the tasks.                                                     *)

LEMMA NowIsGood ==
    ASSUME StreamInv
    PROVE  now \in Goods /\ Goods \subseteq Int /\ \A a \in Goods : a <= now
BY DEF StreamInv, Goods

LEMMA NowIsGoodNext ==
    ASSUME StreamInv'
    PROVE  now' \in Goods' /\ Goods' \subseteq Int /\ \A a \in Goods' : a <= now'
BY DEF StreamInv, Goods

LEMMA DueViews == \A st, d, tb : Due(st, d, tb) \subseteq Views
BY PanelsAssumption DEF Due, Views

(* After a loud step nothing is owed.                                      *)
LEMMA LoudKeeps ==
    ASSUME StreamInv', Loud, Shown(shows', now'), Dated(tasks', now')
    PROVE  ViewsInv'
<1>1. ASSUME source' # None, NEW v \in Due(stale', detail', tab')
      PROVE  TrackedView(v, tasks', Goods', shows'[v], detail')
  <2>1. v \in Views
    BY <1>1, DueViews
  <2>2. shows'[v] \in Int /\ shows'[v] <= now'
    BY <2>1 DEF Shown
  <2>3. shows'[v] \in Goods'
    BY <1>1, <2>2 DEF Loud
  <2>4. \A i \in DOMAIN tasks' : Got(tasks'[i]) => tasks'[i].ans.at \in Goods'
    BY <1>1 DEF Loud, Dated
  <2> QED BY <2>3, <2>4 DEF TrackedView, Owed
<1>2. source' # None => Tracked(tasks', Goods', shows', stale', detail', tab')
  BY <1>1 DEF Tracked
<1> QED BY <1>2 DEF ViewsInv

(* A task goes on as it was, with its call answered just now or lost.      *)
Same(t, t2, at) ==
    /\ t2.todo = t.todo /\ t2.on = t.on
    /\ t2.ans = t.ans \/ ~Got(t2) \/ t2.ans.at = at
(* Every loader goes on, and what has been brought was so before.          *)
Hands(ts, ts2, at) ==
    /\ \A i \in DOMAIN ts : Head(ts[i].todo) \in Loaders => \E j \in DOMAIN ts2 : Same(ts[i], ts2[j], at)
    /\ \A j \in DOMAIN ts2 : Head(ts2[j].todo) \in Views /\ Got(ts2[j]) =>
           \/ ts2[j].ans.at = at
           \/ \E i \in DOMAIN ts : /\ ts2[j].todo = ts[i].todo /\ ts2[j].on = ts[i].on
                                   /\ ts2[j].ans = ts[i].ans

(* A task that is the same, or answered just now, brings the same.         *)
LEMMA SameBrings ==
    ASSUME NEW t, NEW t2, NEW at \in Int, Same(t, t2, at), NEW v, NEW a \in Int, a <= at,
           NEW G, NEW G2, G \subseteq G2, at \in G2, NEW d, NEW d2, v = "activity" => d = d2,
           Brings(t, v, a, G, d)
    PROVE  Brings(t2, v, a, G2, d2)
<1>1. CASE AsksFor(t, v)
  BY <1>1 DEF Same, AsksFor, Brings
<1>2. CASE About(t, v, d) /\ (Got(t) => t.ans.at \in G /\ a <= t.ans.at)
  <2>1. About(t2, v, d2)
    BY <1>2 DEF About, Same
  <2>2. ASSUME Got(t2)
        PROVE  t2.ans.at \in G2 /\ a <= t2.ans.at
    <3>1. t2.ans = t.ans \/ t2.ans.at = at
      BY <2>2 DEF Same
    <3>2. CASE t2.ans = t.ans
      <4>1. Got(t)
        BY <2>2, <3>2 DEF Got
      <4> QED BY <1>2, <3>2, <4>1
    <3>3. CASE t2.ans.at = at
      BY <3>3
    <3> QED BY <3>1, <3>2, <3>3
  <2> QED BY <2>1, <2>2 DEF Brings
<1> QED BY <1>1, <1>2 DEF Brings

LEMMA BringersLoad ==
    ASSUME NEW t, NEW v \in Views, NEW a, NEW G, NEW d, Brings(t, v, a, G, d)
    PROVE  Head(t.todo) \in Loaders
BY DEF Brings, About, AsksFor, Loaders

(* What was owed is owed after the step, if every loader is handed on.     *)
LEMMA HandsOwe ==
    ASSUME NEW ts, NEW ts2, NEW at \in Int, Hands(ts, ts2, at), NEW v \in Views, NEW a \in Int, a <= at,
           NEW G, NEW G2, G \subseteq G2, at \in G2, NEW d, NEW d2, v = "activity" => d = d2,
           Owed(v, a, ts, G, d)
    PROVE  Owed(v, a, ts2, G2, d2)
<1>1. CASE a \in G
  BY <1>1 DEF Owed
<1>2. ASSUME NEW i \in DOMAIN ts, Brings(ts[i], v, a, G, d)
      PROVE  Owed(v, a, ts2, G2, d2)
  <2>1. Head(ts[i].todo) \in Loaders
    BY <1>2, BringersLoad
  <2>2. PICK j \in DOMAIN ts2 : Same(ts[i], ts2[j], at)
    BY <2>1 DEF Hands
  <2>3. Brings(ts2[j], v, a, G2, d2)
    BY <1>2, <2>2, SameBrings
  <2> QED BY <2>3 DEF Owed
<1> QED BY <1>1, <1>2 DEF Owed

(* And so is every view tracked.                                           *)
LEMMA HandsTrack ==
    ASSUME NEW ts, NEW ts2, NEW at \in Int, Hands(ts, ts2, at), Dated(ts, at),
           NEW G, NEW G2, G \subseteq G2, at \in G2, NEW sh, Shown(sh, at),
           NEW st, NEW st2, NEW d, NEW d2, NEW tb, NEW tb2,
           Due(st2, d2, tb2) \subseteq Due(st, d, tb),
           "activity" \in Due(st2, d2, tb2) => d = d2,
           Tracked(ts, G, sh, st, d, tb)
    PROVE  Tracked(ts2, G2, sh, st2, d2, tb2)
<1>1. SUFFICES ASSUME NEW v \in Due(st2, d2, tb2)
               PROVE  TrackedView(v, ts2, G2, sh[v], d2)
  BY DEF Tracked
<1>2. v \in Views /\ (v = "activity" => d = d2) /\ TrackedView(v, ts, G, sh[v], d)
  BY DueViews DEF Tracked
<1>3. sh[v] \in Int /\ sh[v] <= at
  BY <1>2 DEF Shown
<1>4. Owed(v, sh[v], ts2, G2, d2)
  BY <1>2, <1>3, HandsOwe DEF TrackedView
<1>5. ASSUME NEW j \in DOMAIN ts2, About(ts2[j], v, d2), Got(ts2[j])
      PROVE  ts2[j].ans.at < sh[v] \/ Owed(v, ts2[j].ans.at, ts2, G2, d2)
  <2>1. Head(ts2[j].todo) \in Views
    BY <1>2, <1>5 DEF About
  <2>2. CASE ts2[j].ans.at = at
    BY <2>2 DEF Owed
  <2>3. ASSUME NEW i \in DOMAIN ts, ts2[j].todo = ts[i].todo, ts2[j].on = ts[i].on,
               ts2[j].ans = ts[i].ans
        PROVE  ts2[j].ans.at < sh[v] \/ Owed(v, ts2[j].ans.at, ts2, G2, d2)
    <3>1. Got(ts[i]) /\ About(ts[i], v, d)
      BY <1>2, <1>5, <2>3 DEF Got, About
    <3>2. ts[i].ans.at \in Int /\ ts[i].ans.at <= at
      BY <3>1 DEF Dated
    <3>3. ts[i].ans.at < sh[v] \/ Owed(v, ts[i].ans.at, ts, G, d)
      BY <1>2, <3>1 DEF TrackedView
    <3>4. Owed(v, ts[i].ans.at, ts, G, d) => Owed(v, ts[i].ans.at, ts2, G2, d2)
      <4>1. ASSUME NEW a \in Int, a <= at, Owed(v, a, ts, G, d)
            PROVE  Owed(v, a, ts2, G2, d2)
        BY <1>2, <4>1, HandsOwe
      <4> QED BY <3>2, <4>1
    <3> QED BY <2>3, <3>3, <3>4
  <2> QED BY <1>5, <2>1, <2>2, <2>3 DEF Hands
<1> QED BY <1>4, <1>5 DEF TrackedView

(* After a quiet step that hands every loader on.                          *)
LEMMA QuietKeeps ==
    ASSUME ViewsInv, StreamInv', Quiet, Hands(tasks, tasks', now), Dated(tasks', now),
           shows' = shows, Due(stale', detail', tab') \subseteq Due(stale, detail, tab),
           "activity" \in Due(stale', detail', tab') => detail = detail'
    PROVE  ViewsInv'
<1>1. now' = now /\ now \in Int
  BY DEF Quiet, ViewsInv, StreamInv
<1>2. ASSUME source' # None
      PROVE  Tracked(tasks', Goods', shows', stale', detail', tab')
  <2>1. source # None /\ Goods \subseteq Goods' /\ now \in Goods'
    BY <1>1, <1>2, NowIsGoodNext DEF Quiet
  <2> QED BY <1>1, <2>1, HandsTrack DEF ViewsInv
<1> QED BY <1>1, <1>2 DEF ViewsInv

(* After a loud one or a quiet one.                                        *)
LEMMA FlowKeeps ==
    ASSUME ViewsInv, StreamInv', Loud \/ Quiet, now' = now, Hands(tasks, tasks', now),
           Dated(tasks', now), shows' = shows,
           Due(stale', detail', tab') \subseteq Due(stale, detail, tab),
           "activity" \in Due(stale', detail', tab') => detail = detail'
    PROVE  ViewsInv'
<1>1. CASE Loud
  <2>1. Shown(shows', now')
    BY DEF ViewsInv
  <2> QED BY <1>1, <2>1, LoudKeeps
<1>2. CASE Quiet
  BY <1>2, QuietKeeps
<1> QED BY <1>1, <1>2

(* The other tasks are left, and what there is beside them is only asked.  *)
Left(ts, i, ts2) ==
    /\ \A k \in DOMAIN ts \ {i} : \E j \in DOMAIN ts2 : ts2[j] = ts[k]
    /\ \A j \in DOMAIN ts2 : ts2[j].ans = None \/ \E k \in DOMAIN ts \ {i} : ts2[j] = ts[k]

(* Of a function that loads nothing nothing is lost.                       *)
LEMMA LeftHands ==
    ASSUME NEW ts, NEW ts2, NEW i, Left(ts, i, ts2), NEW at, Dated(ts, at),
           i \in DOMAIN ts => Head(ts[i].todo) \notin Loaders
    PROVE  Hands(ts, ts2, at) /\ Dated(ts2, at)
<1>1. ASSUME NEW k \in DOMAIN ts, Head(ts[k].todo) \in Loaders
      PROVE  \E j \in DOMAIN ts2 : Same(ts[k], ts2[j], at)
  <2>1. PICK j \in DOMAIN ts2 : ts2[j] = ts[k]
    BY <1>1 DEF Left
  <2> QED BY <2>1 DEF Same
<1>2. ASSUME NEW j \in DOMAIN ts2, Got(ts2[j])
      PROVE  \E k \in DOMAIN ts : ts2[j] = ts[k]
  BY <1>2 DEF Left, Got
<1>3. Dated(ts2, at)
  BY <1>2 DEF Dated
<1> QED BY <1>1, <1>2, <1>3 DEF Hands

LEMMA LeftDates ==
    ASSUME NEW ts, NEW ts2, NEW i, Left(ts, i, ts2), NEW at, Dated(ts, at)
    PROVE  Dated(ts2, at)
<1>1. ASSUME NEW j \in DOMAIN ts2, Got(ts2[j])
      PROVE  \E k \in DOMAIN ts : ts2[j] = ts[k]
  BY <1>1 DEF Left, Got
<1> QED BY <1>1 DEF Dated

LEMMA RemoveLeaves ==
    ASSUME NEW ts, Tasks(ts), NEW i \in DOMAIN ts
    PROVE  Left(ts, i, RemoveAt(ts, i))
<1> DEFINE n == Len(ts)
<1>1. ts \in Seq(Range(ts)) /\ n \in Nat /\ i \in 1..n /\ DOMAIN ts = 1..n
  BY DEF Tasks
<1>2. PICK s : s = RemoveAt(ts, i)
  OBVIOUS
<1>3. /\ s \in Seq(Range(ts)) /\ Len(s) = n - 1
      /\ \A j \in 1..(n - 1) : s[j] = IF j < i THEN ts[j] ELSE ts[j + 1]
  BY <1>1, <1>2, RemovedAt
<1> HIDE DEF n
<1>4. DOMAIN s = 1..(n - 1)
  BY <1>3
<1>5. ASSUME NEW j \in DOMAIN s
      PROVE  \E k \in DOMAIN ts \ {i} : s[j] = ts[k]
  <2>1. CASE j < i
    BY <1>1, <1>3, <1>4, <2>1
  <2>2. CASE ~(j < i)
    <3>1. s[j] = ts[j + 1] /\ j + 1 \in DOMAIN ts \ {i}
      BY <1>1, <1>3, <1>4, <2>2
    <3> QED BY <3>1
  <2> QED BY <2>1, <2>2
<1>6. ASSUME NEW k \in DOMAIN ts \ {i}
      PROVE  \E j \in DOMAIN s : s[j] = ts[k]
  <2>1. CASE k < i
    <3>1. k \in DOMAIN s /\ s[k] = ts[k]
      BY <1>1, <1>3, <1>4, <2>1
    <3> QED BY <3>1
  <2>2. CASE k > i
    <3>1. k - 1 \in 1..(n - 1) /\ ~(k - 1 < i) /\ (k - 1) + 1 = k
      BY <1>1, <2>2
    <3>2. s[k - 1] = ts[k]
      BY <1>3, <3>1
    <3> QED BY <1>4, <3>1, <3>2
  <2> QED BY <1>1, <2>1, <2>2
<1> QED BY <1>2, <1>5, <1>6 DEF Left

LEMMA ReplaceLeaves ==
    ASSUME NEW ts, Tasks(ts), NEW i \in DOMAIN ts, NEW c, c.ans = None
    PROVE  Left(ts, i, [ts EXCEPT ![i] = c])
<1>1. PICK s : s = [ts EXCEPT ![i] = c]
  OBVIOUS
<1>2. ts \in Seq(Range(ts))
  BY DEF Tasks
<1>3. DOMAIN s = DOMAIN ts /\ s[i] = c /\ \A j \in DOMAIN ts : j # i => s[j] = ts[j]
  BY <1>1, <1>2
<1> QED BY <1>1, <1>3 DEF Left

LEMMA AppendLeaves ==
    ASSUME NEW ts, Tasks(ts), NEW c, c.ans = None
    PROVE  Left(ts, 0, Append(ts, c)) /\ 0 \notin DOMAIN ts
<1>1. ts \in Seq(Range(ts) \cup {c}) /\ DOMAIN ts = 1..Len(ts) /\ Len(ts) \in Nat
  BY DEF Tasks
<1>2. PICK s : s = Append(ts, c)
  OBVIOUS
<1>3. /\ s \in Seq(Range(ts) \cup {c}) /\ Len(s) = Len(ts) + 1 /\ DOMAIN s = 1..(Len(ts) + 1)
      /\ \A j \in 1..Len(ts) : s[j] = ts[j]
      /\ s[Len(ts) + 1] = c
  BY <1>1, <1>2
<1>4. ASSUME NEW k \in DOMAIN ts
      PROVE  k \in DOMAIN s /\ s[k] = ts[k]
  BY <1>1, <1>3
<1>5. ASSUME NEW j \in DOMAIN s
      PROVE  j \in DOMAIN ts \/ s[j] = c
  BY <1>1, <1>3
<1>6. 0 \notin DOMAIN ts
  BY <1>1
<1> QED BY <1>2, <1>4, <1>5, <1>6 DEF Left

LEMMA CarriedLeaves ==
    ASSUME NEW ts, Tasks(ts), NEW i \in DOMAIN ts, NEW todo, NEW on
    PROVE  Left(ts, i, Carried(ts, i, todo, on))
<1>1. CASE todo \in {<<>>, <<"connect">>}
  BY <1>1, RemoveLeaves DEF Carried
<1>2. CASE todo \notin {<<>>, <<"connect">>}
  <2>1. PICK c : c = Call(todo, on, None)
    OBVIOUS
  <2>2. c.ans = None
    BY <2>1 DEF Call
  <2> QED BY <1>2, <2>1, <2>2, ReplaceLeaves DEF Carried
<1> QED BY <1>1, <1>2

(* The server answers one call with the board as it is now.                *)
LEMMA AnswerHands ==
    ASSUME NEW ts, Tasks(ts), NEW i \in DOMAIN ts, NEW at, Dated(ts, at), at \in Int,
           ts[i] = [todo |-> ts[i].todo, on |-> ts[i].on, by |-> ts[i].by, ans |-> ts[i].ans],
           NEW r, r.at = at \/ r.status # 200
    PROVE  Hands(ts, [ts EXCEPT ![i].ans = r], at) /\ Dated([ts EXCEPT ![i].ans = r], at)
<1>1. PICK s : s = [ts EXCEPT ![i].ans = r]
  OBVIOUS
<1>2. ts \in Seq(Range(ts))
  BY DEF Tasks
<1>3. /\ DOMAIN s = DOMAIN ts /\ \A j \in DOMAIN ts : j # i => s[j] = ts[j]
      /\ s[i] = [ts[i] EXCEPT !.ans = r]
  BY <1>1, <1>2
<1>4. s[i].todo = ts[i].todo /\ s[i].on = ts[i].on /\ s[i].ans = r
  BY <1>3
<1>5. Got(s[i]) => s[i].ans.at = at
  BY <1>4 DEF Got
<1>6. \A j \in DOMAIN ts : Same(ts[j], s[j], at)
  BY <1>3, <1>4, <1>5 DEF Same
<1>7. Hands(ts, s, at)
  <2>1. \A j \in DOMAIN ts : Head(ts[j].todo) \in Loaders => \E k \in DOMAIN s : Same(ts[j], s[k], at)
    BY <1>3, <1>6
  <2>2. \A j \in DOMAIN s : Got(s[j]) => s[j].ans.at = at \/ s[j] = ts[j]
    BY <1>3, <1>5
  <2> QED BY <1>3, <2>1, <2>2 DEF Hands
<1>8. Dated(s, at)
  BY <1>3, <1>5 DEF Dated
<1> QED BY <1>1, <1>7, <1>8

LEMMA SameHands ==
    ASSUME NEW ts, NEW at, Dated(ts, at)
    PROVE  Hands(ts, ts, at)
BY DEF Hands, Same

(* All that was asked is lost, and one more thing may be asked.            *)
LEMMA BrokenHands ==
    ASSUME NEW ts, Tasks(ts), NEW at, NEW s, s = [i \in DOMAIN ts |-> [ts[i] EXCEPT !.ans = Lost]],
           \A i \in DOMAIN ts :
               ts[i] = [todo |-> ts[i].todo, on |-> ts[i].on, by |-> ts[i].by, ans |-> ts[i].ans]
    PROVE  Tasks(s) /\ Hands(ts, s, at) /\ Dated(s, at)
           /\ \A c : c.ans = None => Hands(ts, Append(s, c), at) /\ Dated(Append(s, c), at)
<1>1. /\ ts \in Seq(Range(ts)) /\ DOMAIN ts = 1..Len(ts) /\ Len(ts) \in Nat
      /\ DOMAIN s = DOMAIN ts
  BY DEF Tasks
<1>2. Tasks(s)
  <2>1. s \in [1..Len(ts) -> Range(s)]
    BY <1>1 DEF Range
  <2> QED BY <1>1, <2>1 DEF Tasks
<1>3. ASSUME NEW i \in DOMAIN ts
      PROVE  s[i].todo = ts[i].todo /\ s[i].on = ts[i].on /\ ~Got(s[i])
  BY DEF Got, Lost
<1>4. Hands(ts, s, at) /\ Dated(s, at)
  BY <1>1, <1>3 DEF Hands, Same, Dated
<1>5. ASSUME NEW c, c.ans = None
      PROVE  Hands(ts, Append(s, c), at) /\ Dated(Append(s, c), at)
  <2>1. PICK s2 : s2 = Append(s, c)
    OBVIOUS
  <2>2. Left(s, 0, s2) /\ 0 \notin DOMAIN s
    BY <1>2, <1>5, <2>1, AppendLeaves
  <2>3. ASSUME NEW j \in DOMAIN s2
        PROVE  ~Got(s2[j])
    BY <1>1, <1>3, <2>2 DEF Left, Got
  <2>4. ASSUME NEW i \in DOMAIN ts
        PROVE  \E j \in DOMAIN s2 : Same(ts[i], s2[j], at)
    <3>1. i \in DOMAIN s \ {0}
      BY <1>1, <2>2
    <3>2. PICK j \in DOMAIN s2 : s2[j] = s[i]
      BY <2>2, <3>1 DEF Left
    <3> QED BY <1>3, <3>2 DEF Same
  <2> QED BY <2>1, <2>3, <2>4 DEF Hands, Dated
<1> QED BY <1>2, <1>4, <1>5

-----------------------------------------------------------------------------
(* A loader has its answer.                                                *)

(* What is still to be loaded, and may be, is carried on.                  *)
Carries(t, v, d) == (t.ans = None /\ About(t, v, d)) \/ AsksFor(t, v)

(* From skips what need not be loaded now, and never a view that is due.   *)
LEMMA FromGoesOn ==
    ASSUME NEW todo, Orderly(todo), NEW m \in DOMAIN todo, NEW v \in Views, todo[m] = v,
           \A j \in DOMAIN todo : todo[j] \in Loaders \cup {"connect"},
           v = "activity" => detail # None, v = "board" => tab = "board"
    PROVE  /\ From(todo) \notin {<<>>, <<"connect">>}
           /\ \/ Head(From(todo)) = v
              \/ /\ Head(From(todo)) \in Loaders
                 /\ \E k \in DOMAIN From(todo) : k > 1 /\ From(todo)[k] = v
<1> DEFINE runs(step) ==
               CASE step \in {"assign", "assignable", "activity"} -> detail # None
                 [] step = "board" -> tab = "board"
                 [] OTHER -> TRUE
           first == {j \in DOMAIN todo : runs(todo[j])}
           n == Len(todo)
<1>1. From(todo) = IF first = {} THEN <<>> ELSE SubSeq(todo, Min(first), n)
  BY DEF From
<1>2. todo \in Seq(Steps) /\ DOMAIN todo = 1..n /\ n \in Nat
  BY DEF Orderly
<1>3. m \in first
  BY DEF Views
<1>4. first \in SUBSET (1..n) /\ first \in SUBSET Nat /\ first # {}
  BY <1>2, <1>3
<1> HIDE DEF first
<1>5. PICK k : k = Min(first)
  OBVIOUS
<1>6. k \in first /\ k <= m /\ k \in 1..n /\ m \in 1..n
  BY <1>2, <1>3, <1>4, <1>5, SmallestIsListed
<1>7. PICK s : s = SubSeq(todo, k, n)
  OBVIOUS
<1>8. /\ s \in Seq(Steps) /\ Len(s) = n - k + 1 /\ DOMAIN s = 1..(n - k + 1)
      /\ \A j \in 1..(n - k + 1) : s[j] = todo[j + k - 1]
  BY <1>2, <1>6, <1>7
<1>9. From(todo) = s
  BY <1>1, <1>4, <1>5, <1>7
<1>10. PICK l \in DOMAIN s : l = m - k + 1
  BY <1>2, <1>6, <1>8
<1>11. s[l] = v
  <2>1. l + k - 1 = m
    BY <1>6, <1>10
  <2> QED BY <1>8, <1>10, <2>1
<1>12. s # <<>> /\ Head(s) = s[1] /\ s[1] = todo[k]
  BY <1>2, <1>6, <1>8
<1>13. v # "connect"
  BY DEF Views
<1>14. s # <<"connect">>
  <2>1. SUFFICES ASSUME s = <<"connect">>
                 PROVE  FALSE
    OBVIOUS
  <2>2. l = 1 /\ s[1] = "connect"
    BY <2>1, <1>8, <1>10
  <2> QED BY <1>11, <1>13, <2>2
<1>15. CASE k = m
  BY <1>9, <1>12, <1>14, <1>15
<1>16. CASE k # m
  <2>1. k < m /\ l > 1
    BY <1>2, <1>6, <1>10, <1>16
  <2>2. Before(todo[k], todo[m])
    BY <1>2, <1>6, <2>1 DEF Orderly
  <2>3. todo[k] \in Loaders
    BY <1>2, <1>6, <2>2 DEF Before
  <2> QED BY <1>9, <1>10, <1>11, <1>12, <1>14, <2>1, <2>3
<1> QED BY <1>15, <1>16

(* So that what a function goes on with carries the view.                  *)
LEMMA CarriedBrings ==
    ASSUME NEW todo, Orderly(todo), NEW m \in DOMAIN todo, NEW v \in Views, todo[m] = v,
           \A j \in DOMAIN todo : todo[j] \in Loaders \cup {"connect"},
           v = "activity" => detail # None, v = "board" => tab = "board"
    PROVE  /\ From(todo) \notin {<<>>, <<"connect">>}
           /\ Carries(Call(From(todo), detail, None), v, detail)
<1>1. PICK rest : rest = From(todo)
  OBVIOUS
<1>2. /\ rest \notin {<<>>, <<"connect">>}
      /\ \/ Head(rest) = v
         \/ Head(rest) \in Loaders /\ \E k \in DOMAIN rest : k > 1 /\ rest[k] = v
  BY <1>1, FromGoesOn
<1>3. PICK c : c = Call(rest, detail, None)
  OBVIOUS
<1>4. c.todo = rest /\ c.on = detail /\ c.ans = None
  BY <1>3 DEF Call
<1>5. Carries(c, v, detail)
  BY <1>2, <1>4 DEF Carries, About, AsksFor
<1> QED BY <1>1, <1>2, <1>3, <1>5

LEMMA ReplacedCarries ==
    ASSUME NEW ts, NEW i \in DOMAIN ts, NEW c, NEW v, NEW d, Carries(c, v, d)
    PROVE  \E j \in DOMAIN [ts EXCEPT ![i] = c] : Carries([ts EXCEPT ![i] = c][j], v, d)
<1>1. PICK s : s = [ts EXCEPT ![i] = c]
  OBVIOUS
<1>2. i \in DOMAIN s /\ s[i] = c
  BY <1>1
<1> QED BY <1>1, <1>2

Painted(t, v, sh, st, sh2, st2, at, d) ==
    \/ sh2 = sh /\ st \subseteq st2 /\ (v \in Views => v \in st2 \/ ~About(t, v, d))
    \/ /\ Got(t) /\ About(t, v, d) /\ sh2 = [sh EXCEPT ![v] = t.ans.at]
       /\ st2 = IF t.ans.at = at THEN st \ {v}
                ELSE IF t.ans.at < sh[v] THEN st \cup {v} ELSE st

(* What was owed is owed without the task that landed, unless that one     *)
(* brought it.                                                             *)
LEMMA StillOwed ==
    ASSUME NEW ts, NEW ts2, NEW i, Left(ts, i, ts2), NEW v, NEW a, NEW G, NEW d,
           AsksFor(ts[i], v) => \E j \in DOMAIN ts2 : Carries(ts2[j], v, d),
           Owed(v, a, ts, G, d)
    PROVE  \/ Owed(v, a, ts2, G, d)
           \/ About(ts[i], v, d) /\ (Got(ts[i]) => ts[i].ans.at \in G /\ a <= ts[i].ans.at)
<1>1. CASE a \in G
  BY <1>1 DEF Owed
<1>2. ASSUME NEW k \in DOMAIN ts, k # i, Brings(ts[k], v, a, G, d)
      PROVE  Owed(v, a, ts2, G, d)
  <2>1. PICK j \in DOMAIN ts2 : ts2[j] = ts[k]
    BY <1>2 DEF Left
  <2> QED BY <1>2, <2>1 DEF Owed
<1>3. CASE AsksFor(ts[i], v)
  <2>1. PICK j \in DOMAIN ts2 : Carries(ts2[j], v, d)
    BY <1>3
  <2>2. Brings(ts2[j], v, a, G, d)
    BY <2>1 DEF Carries, Brings, Got
  <2> QED BY <2>2 DEF Owed
<1>4. CASE Brings(ts[i], v, a, G, d) /\ ~AsksFor(ts[i], v)
  BY <1>4 DEF Brings
<1> QED BY <1>1, <1>2, <1>3, <1>4 DEF Owed

(* An answer lands: what is put in the place of a view is tracked, and so  *)
(* are all the others.                                                     *)
LEMMA LandingTracks ==
    ASSUME NEW ts, NEW ts2, NEW i \in DOMAIN ts, Left(ts, i, ts2),
           NEW at \in Int, Dated(ts, at), NEW G, at \in G,
           NEW sh, NEW sh2, NEW st, NEW st2, NEW d, NEW tb, Shown(sh, at),
           Painted(ts[i], Head(ts[i].todo), sh, st, sh2, st2, at, d),
           \A v \in Due(st2, d, tb) :
               AsksFor(ts[i], v) => \E j \in DOMAIN ts2 : Carries(ts2[j], v, d),
           Tracked(ts, G, sh, st, d, tb)
    PROVE  Tracked(ts2, G, sh2, st2, d, tb)
<1> DEFINE v0 == Head(ts[i].todo)
           b == ts[i].ans.at
<1>1. SUFFICES ASSUME NEW v \in Due(st2, d, tb)
               PROVE  TrackedView(v, ts2, G, sh2[v], d)
  BY DEF Tracked
<1>2. v \in Views /\ v \notin st2 /\ (v \notin st => v \in Due(st, d, tb))
  BY DueViews DEF Due
<1>3. sh \in [Views -> Int] /\ sh[v] \in Int /\ sh[v] <= at
  BY <1>2 DEF Shown
<1>4. ASSUME NEW a, Owed(v, a, ts, G, d)
      PROVE  \/ Owed(v, a, ts2, G, d)
             \/ About(ts[i], v, d) /\ (Got(ts[i]) => b \in G /\ a <= b)
  BY <1>4, StillOwed
<1>5. ASSUME NEW j \in DOMAIN ts2, Got(ts2[j])
      PROVE  /\ ts2[j].ans.at \in Int /\ ts2[j].ans.at <= at
             /\ \E k \in DOMAIN ts : ts2[j] = ts[k]
  <2>1. PICK k \in DOMAIN ts : ts2[j] = ts[k]
    BY <1>5 DEF Left, Got
  <2> QED BY <1>5, <2>1 DEF Dated
<1>6. CASE Got(ts[i]) /\ About(ts[i], v, d) /\ v = v0 /\ sh2 = [sh EXCEPT ![v0] = b]
           /\ st2 = IF b = at THEN st \ {v0} ELSE IF b < sh[v0] THEN st \cup {v0} ELSE st
  <2>1. sh2[v] = b /\ b \in Int /\ b <= at
    BY <1>2, <1>3, <1>6 DEF Dated
  <2>2. CASE b = at
    <3>1. ASSUME NEW j \in DOMAIN ts2, About(ts2[j], v, d), Got(ts2[j])
          PROVE  ts2[j].ans.at < at \/ Owed(v, ts2[j].ans.at, ts2, G, d)
      <4>1. ts2[j].ans.at < at \/ ts2[j].ans.at = at
        BY <1>5, <3>1
      <4> QED BY <4>1 DEF Owed
    <3> QED BY <2>1, <2>2, <3>1 DEF TrackedView, Owed
  <2>3. CASE b # at
    <3>1. sh[v] <= b /\ v \in Due(st, d, tb)
      BY <1>2, <1>3, <1>6, <2>1, <2>3
    <3>2. TrackedView(v, ts, G, sh[v], d)
      BY <3>1 DEF Tracked
    <3>3. b < sh[v] \/ Owed(v, b, ts, G, d)
      BY <1>6, <3>2 DEF TrackedView
    <3>4. Owed(v, b, ts, G, d)
      BY <1>3, <2>1, <3>1, <3>3
    <3>5. Owed(v, b, ts2, G, d)
      BY <1>4, <1>6, <3>4 DEF Owed
    <3>6. ASSUME NEW j \in DOMAIN ts2, About(ts2[j], v, d), Got(ts2[j])
          PROVE  ts2[j].ans.at < b \/ Owed(v, ts2[j].ans.at, ts2, G, d)
      <4>1. PICK k \in DOMAIN ts : ts2[j] = ts[k]
        BY <1>5, <3>6
      <4>2. ts2[j].ans.at \in Int
        BY <1>5, <3>6
      <4>3. ts2[j].ans.at < sh[v] \/ Owed(v, ts2[j].ans.at, ts, G, d)
        BY <3>2, <3>6, <4>1 DEF TrackedView
      <4>4. CASE ts2[j].ans.at < sh[v]
        BY <1>3, <2>1, <3>1, <4>2, <4>4
      <4>5. CASE Owed(v, ts2[j].ans.at, ts, G, d)
        <5>1. Owed(v, ts2[j].ans.at, ts2, G, d) \/ (b \in G /\ ts2[j].ans.at <= b)
          BY <1>4, <1>6, <4>5
        <5>2. ts2[j].ans.at <= b => ts2[j].ans.at < b \/ ts2[j].ans.at = b
          BY <2>1, <4>2
        <5> QED BY <5>1, <5>2 DEF Owed
      <4> QED BY <4>3, <4>4, <4>5
    <3> QED BY <2>1, <3>5, <3>6 DEF TrackedView
  <2> QED BY <2>2, <2>3
<1>7. CASE sh2[v] = sh[v] /\ v \notin st /\ ~About(ts[i], v, d)
  <2>1. TrackedView(v, ts, G, sh[v], d)
    BY <1>2, <1>7 DEF Tracked
  <2>2. Owed(v, sh[v], ts2, G, d)
    BY <1>4, <1>7, <2>1 DEF TrackedView
  <2>3. ASSUME NEW j \in DOMAIN ts2, About(ts2[j], v, d), Got(ts2[j])
        PROVE  ts2[j].ans.at < sh[v] \/ Owed(v, ts2[j].ans.at, ts2, G, d)
    <3>1. PICK k \in DOMAIN ts : ts2[j] = ts[k]
      BY <1>5, <2>3
    <3>2. ts2[j].ans.at < sh[v] \/ Owed(v, ts2[j].ans.at, ts, G, d)
      BY <2>1, <2>3, <3>1 DEF TrackedView
    <3> QED BY <1>4, <1>7, <3>2
  <2> QED BY <1>7, <2>2, <2>3 DEF TrackedView
<1>8. CASE sh2 = sh /\ st \subseteq st2 /\ (v0 \in Views => v0 \in st2 \/ ~About(ts[i], v0, d))
  <2>1. ~About(ts[i], v, d)
    BY <1>2, <1>8 DEF About
  <2> QED BY <1>2, <1>7, <1>8, <2>1
<1>9. CASE /\ Got(ts[i]) /\ About(ts[i], v0, d) /\ sh2 = [sh EXCEPT ![v0] = b]
           /\ st2 = IF b = at THEN st \ {v0} ELSE IF b < sh[v0] THEN st \cup {v0} ELSE st
  <2>1. CASE v = v0
    BY <1>6, <1>9, <2>1
  <2>2. CASE v # v0
    <3>1. ~About(ts[i], v, d)
      BY <2>2 DEF About
    <3>2. sh2[v] = sh[v]
      BY <1>2, <1>3, <1>9, <2>2
    <3>3. v \notin st
      BY <1>2, <1>9, <2>2
    <3> QED BY <1>7, <3>1, <3>2, <3>3
  <2> QED BY <2>1, <2>2
<1> QED BY <1>8, <1>9 DEF Painted

-----------------------------------------------------------------------------
(* Steps in which nothing is painted.                                      *)

Flow ==
    \/ UNCHANGED streamVars
    \/ disconnect \/ restart \/ closeSource \/ newSource(Which)
    \/ source # None /\ source.state = "connecting" /\ (attach \/ refuse)

(* The steps of the stream in which the board does not change and nothing  *)
(* is received.                                                            *)
LEMMA FlowTells ==
    ASSUME StreamInv, Flow
    PROVE  StreamInv' /\ (Loud \/ Quiet) /\ now' = now
<1>1. CASE UNCHANGED streamVars
  BY <1>1 DEF streamVars, StreamInv, Rising, Sent, Position, Attached, Event, Quiet, Goods, Told
<1>2. CASE disconnect
  BY <1>2, disconnectTells
<1>3. CASE restart
  BY <1>3, restartTells
<1>4. CASE closeSource
  BY <1>4, closeSourceTells DEF Loud
<1>5. CASE newSource(Which)
  <2>1. Which \in Int
    BY DEF Which, StreamInv
  <2> QED BY <1>5, <2>1, newSourceIsLoud
<1>6. CASE source # None /\ source.state = "connecting" /\ attach
  BY <1>6, attachTells DEF Quiet
<1>7. CASE source # None /\ source.state = "connecting" /\ refuse
  BY <1>7, refuseTells DEF Quiet
<1> QED BY <1>1, <1>2, <1>3, <1>4, <1>5, <1>6, <1>7 DEF Flow

(* What the invariant of the forms says of the tasks.                      *)
LEMMA FormsGive ==
    ASSUME FormsInv
    PROVE  /\ Tasks(tasks) /\ now \in Int
           /\ \A i \in DOMAIN tasks : tasks[i] = [todo |-> tasks[i].todo, on |-> tasks[i].on,
                                                  by |-> tasks[i].by, ans |-> tasks[i].ans]
BY HeadOfTask DEF FormsInv, AllFit, FormTypes

Aside == shows' = shows /\ stale \subseteq stale' /\ detail' \in {detail, None} /\ tab' = tab

(* The detail may close, a view be known to be stale; nothing else.        *)
LEMMA AsideDue ==
    ASSUME Aside
    PROVE  /\ Due(stale', detail', tab') \subseteq Due(stale, detail, tab)
           /\ "activity" \in Due(stale', detail', tab') => detail = detail'
BY PanelsAssumption DEF Aside, Due

(* The loaders are handed on.                                              *)
LEMMA MoveKeeps ==
    ASSUME ViewsInv, Flow, Aside, Hands(tasks, tasks', now), Dated(tasks', now)
    PROVE  ViewsInv'
<1>1. StreamInv' /\ (Loud \/ Quiet) /\ now' = now
  BY FlowTells DEF ViewsInv
<1> QED BY <1>1, AsideDue, FlowKeeps DEF Aside

(* No task changes.                                                        *)
LEMMA StandsKeeps ==
    ASSUME ViewsInv, Flow, Aside, tasks' = tasks
    PROVE  ViewsInv'
<1>1. Dated(tasks, now)
  BY DEF ViewsInv
<1> QED BY <1>1, SameHands, MoveKeeps

(* A function starts.                                                      *)
LEMMA StartsKeeps ==
    ASSUME FormsInv, ViewsInv, Flow, Aside,
           NEW todo, NEW on, NEW by, tasks' = Append(tasks, Call(todo, on, by))
    PROVE  ViewsInv'
<1>1. PICK c : c = Call(todo, on, by)
  OBVIOUS
<1>2. c.ans = None
  BY <1>1 DEF Call
<1>3. Left(tasks, 0, tasks') /\ 0 \notin DOMAIN tasks
  BY <1>1, <1>2, FormsGive, AppendLeaves
<1>4. Dated(tasks, now)
  BY DEF ViewsInv
<1>5. Hands(tasks, tasks', now) /\ Dated(tasks', now)
  BY <1>3, <1>4, LeftHands
<1> QED BY <1>5, MoveKeeps

(* A function ends.                                                        *)
LEMMA EndsKeeps ==
    ASSUME FormsInv, ViewsInv, Flow, Aside, NEW i \in DOMAIN tasks,
           Head(tasks[i].todo) \notin Loaders, Left(tasks, i, tasks')
    PROVE  ViewsInv'
<1>1. Dated(tasks, now)
  BY DEF ViewsInv
<1>2. Hands(tasks, tasks', now) /\ Dated(tasks', now)
  BY <1>1, LeftHands
<1> QED BY <1>2, MoveKeeps

(* The server answers, and may have changed the board.                     *)
LEMMA ServedKeeps ==
    ASSUME FormsInv, ViewsInv, Aside, NEW i \in DOMAIN tasks, NEW r, r.at = now \/ r.status # 200,
           tasks' = [tasks EXCEPT ![i].ans = r], Flow \/ publish
    PROVE  ViewsInv'
<1>1. Hands(tasks, tasks', now) /\ Dated(tasks', now)
  BY FormsGive, AnswerHands DEF ViewsInv
<1>2. CASE Flow
  BY <1>1, <1>2, MoveKeeps
<1>3. CASE publish
  <2>1. StreamInv' /\ Loud /\ now' = now + 1 /\ now \in Int
    BY <1>3, publishIsLoud, FormsGive DEF ViewsInv
  <2>2. Shown(shows', now') /\ Dated(tasks', now')
    BY <1>1, <2>1 DEF ViewsInv, Aside, Shown, Dated
  <2> QED BY <2>1, <2>2, LoudKeeps
<1> QED BY <1>2, <1>3

(* The board changes elsewhere.                                            *)
LEMMA PublishedKeeps ==
    ASSUME FormsInv, ViewsInv, shows' = shows, tasks' = tasks, publish
    PROVE  ViewsInv'
<1>1. StreamInv' /\ Loud /\ now' = now + 1 /\ now \in Int
  BY publishIsLoud, FormsGive DEF ViewsInv
<1>2. Shown(shows', now') /\ Dated(tasks', now')
  BY <1>1 DEF ViewsInv, Shown, Dated
<1> QED BY <1>1, <1>2, LoudKeeps

-----------------------------------------------------------------------------
(* Steps in which something is.                                            *)

(* A view is painted, and what the function has still to load is carried   *)
(* on.                                                                     *)
LEMMA LandingKeeps ==
    ASSUME FormsInv, ViewsInv, NEW i \in DOMAIN tasks, Left(tasks, i, tasks'),
           UNCHANGED streamVars \/ newSource(Which) \/ closeSource,
           detail' = detail, tab' = tab,
           Painted(tasks[i], Head(tasks[i].todo), shows, stale, shows', stale', now, detail),
           \A v \in Due(stale', detail, tab) :
               AsksFor(tasks[i], v) => \E j \in DOMAIN tasks' : Carries(tasks'[j], v, detail)
    PROVE  ViewsInv'
<1>1. StreamInv' /\ now' = now /\ now \in Int
  BY FlowTells, FormsGive DEF Flow, ViewsInv
<1>2. Dated(tasks, now) /\ Dated(tasks', now)
  BY LeftDates DEF ViewsInv
<1>3. Shown(shows', now)
  <2>1. PICK a : a = tasks[i].ans.at
    OBVIOUS
  <2>2. PICK v : v = Head(tasks[i].todo)
    OBVIOUS
  <2>3. shows' = shows \/ (Got(tasks[i]) /\ shows' = [shows EXCEPT ![v] = a])
    BY <2>1, <2>2 DEF Painted
  <2>4. Got(tasks[i]) => a \in Int /\ a <= now
    BY <1>2, <2>1 DEF Dated
  <2>5. shows \in [Views -> Int] /\ \A w \in Views : shows[w] <= now
    BY DEF ViewsInv, Shown
  <2> QED BY <2>3, <2>4, <2>5 DEF Shown
<1>4. CASE UNCHANGED streamVars
  <2>1. source' = source /\ Goods' = Goods
    BY <1>4 DEF streamVars, Goods, Told, Event
  <2>2. now \in Goods
    BY NowIsGood DEF ViewsInv
  <2>3. source # None => Tracked(tasks', Goods, shows', stale', detail, tab)
    BY <1>1, <1>2, <2>2, LandingTracks DEF ViewsInv
  <2> QED BY <1>1, <1>2, <1>3, <2>1, <2>3 DEF ViewsInv
<1>5. CASE newSource(Which) \/ closeSource
  <2>1. Loud
    <3>1. CASE closeSource
      BY <3>1 DEF closeSource, Loud
    <3>2. CASE newSource(Which)
      <4>1. Which \in Int
        BY DEF Which, StreamInv, ViewsInv
      <4> QED BY <3>2, <4>1, newSourceIsLoud DEF ViewsInv
    <3> QED BY <1>5, <3>1, <3>2
  <2> QED BY <1>1, <1>2, <1>3, <2>1, LoudKeeps
<1> QED BY <1>4, <1>5

(* What a loader has still to load.                                        *)
LEMMA LoaderRest ==
    ASSUME FormsInv, NEW i \in DOMAIN tasks, NEW step \in Loaders, Landed(i, step)
    PROVE  /\ Head(tasks[i].todo) = step /\ Orderly(Rest(i))
           /\ \A j \in DOMAIN Rest(i) : Rest(i)[j] \in Loaders \cup {"connect"}
           /\ step \in {"issues", "assign"} =>
                  /\ Rest(i) # <<>> /\ Orderly(Tail(Rest(i)))
                  /\ \A j \in DOMAIN Tail(Rest(i)) : Tail(Rest(i))[j] \in Loaders \cup {"connect"}
           /\ step = "issues" => Head(Rest(i)) = "board"
           /\ step = "assign" => Head(Rest(i)) = "assignable"
           /\ \A v : AsksFor(tasks[i], v) => \E m \in DOMAIN Rest(i) : Rest(i)[m] = v
           /\ \A v : step \in {"issues", "assign"} /\ AsksFor(tasks[i], v) /\ v # Head(Rest(i)) =>
                  /\ \E m \in DOMAIN Rest(i) : m > 1 /\ Rest(i)[m] = v
                  /\ \E m \in DOMAIN Tail(Rest(i)) : Tail(Rest(i))[m] = v
<1> DEFINE todo == tasks[i].todo
           n == Len(todo)
<1>1. step \notin Alone
  BY DEF Loaders, Views, Pickers, Alone
<1>2. Head(todo) = step /\ Loads(tasks[i]) /\ Orderly(Rest(i))
  BY <1>1, LandedTask
<1>3. Orderly(todo) /\ todo # <<>>
  BY <1>2 DEF Loads
<1>4. todo \in Seq(Steps) /\ n \in Nat /\ n >= 1 /\ DOMAIN todo = 1..n /\ todo[1] = step
  BY <1>2, <1>3 DEF Orderly
<1>5. PICK r : r = Rest(i)
  OBVIOUS
<1>6. /\ r \in Seq(Steps) /\ Len(r) = n - 1 /\ DOMAIN r = 1..(n - 1)
      /\ \A j \in 1..(n - 1) : r[j] = todo[j + 1]
  BY <1>3, <1>4, <1>5 DEF Rest
<1>7. ASSUME NEW j \in DOMAIN r
      PROVE  r[j] \in Loaders \cup {"connect"}
  <2>1. 1 \in DOMAIN todo /\ j + 1 \in DOMAIN todo /\ 1 < j + 1
    BY <1>4, <1>6
  <2>2. Before(todo[1], todo[j + 1])
    BY <1>3, <2>1 DEF Orderly
  <2> QED BY <1>4, <1>6, <2>2 DEF Before
<1>8. ASSUME NEW v, AsksFor(tasks[i], v)
      PROVE  \E m \in DOMAIN r : r[m] = v
  <2>1. PICK m \in DOMAIN todo : m > 1 /\ todo[m] = v
    BY <1>8 DEF AsksFor
  <2>2. m - 1 \in 1..(n - 1) /\ (m - 1) + 1 = m
    BY <1>4, <2>1
  <2>3. r[m - 1] = v
    BY <1>6, <2>1, <2>2
  <2> QED BY <1>6, <2>2, <2>3
<1>9. ASSUME step \in {"issues", "assign"}
      PROVE  /\ r # <<>> /\ Orderly(Tail(r))
             /\ \A j \in DOMAIN Tail(r) : Tail(r)[j] \in Loaders \cup {"connect"}
             /\ Head(r) = IF step = "issues" THEN "board" ELSE "assignable"
             /\ \A v : AsksFor(tasks[i], v) /\ v # Head(r) =>
                    /\ \E m \in DOMAIN r : m > 1 /\ r[m] = v
                    /\ \E m \in DOMAIN Tail(r) : Tail(r)[m] = v
  <2>1. r # <<>> /\ Head(r) = IF step = "issues" THEN "board" ELSE "assignable"
    BY <1>2, <1>3, <1>5, <1>9, TailIsOrderly DEF Rest
  <2>2. Orderly(Tail(r))
    BY <1>2, <1>5, <2>1, TailIsOrderly
  <2>3. PICK q : q = Tail(r)
    OBVIOUS
  <2>4. /\ n >= 2 /\ q \in Seq(Steps) /\ Len(q) = n - 2 /\ DOMAIN q = 1..(n - 2)
        /\ \A j \in 1..(n - 2) : q[j] = r[j + 1]
    BY <1>4, <1>6, <2>1, <2>3
  <2>5. ASSUME NEW j \in DOMAIN q
        PROVE  q[j] \in Loaders \cup {"connect"}
    <3>1. j + 1 \in DOMAIN r /\ q[j] = r[j + 1]
      BY <1>4, <1>6, <2>4
    <3> QED BY <1>7, <3>1
  <2>6. ASSUME NEW v, AsksFor(tasks[i], v), v # Head(r)
        PROVE  /\ \E m \in DOMAIN r : m > 1 /\ r[m] = v
               /\ \E m \in DOMAIN q : q[m] = v
    <3>1. PICK m \in DOMAIN r : r[m] = v
      BY <1>8, <2>6
    <3>2. m # 1
      BY <1>6, <2>1, <2>6, <3>1
    <3>3. m - 1 \in 1..(n - 2) /\ (m - 1) + 1 = m /\ m > 1
      BY <1>4, <1>6, <3>1, <3>2
    <3>4. q[m - 1] = v
      BY <2>4, <3>1, <3>3
    <3> QED BY <2>4, <3>1, <3>3, <3>4
  <2> QED BY <2>1, <2>2, <2>3, <2>5, <2>6
<1> QED BY <1>2, <1>5, <1>7, <1>8, <1>9

(* A loader of a view lands, and the function goes on.                     *)
LEMMA LoaderShows ==
    ASSUME FormsInv, ViewsInv, NEW i \in DOMAIN tasks, NEW step \in Loaders, Landed(i, step),
           UNCHANGED streamVars \/ newSource(Which) \/ closeSource,
           detail' = detail, tab' = tab,
           Painted(tasks[i], step, shows, stale, shows', stale', now, detail),
           \/ tasks' = Carried(tasks, i, From(Rest(i)), detail)
           \/ /\ step = "issues" /\ "board" \in stale'
              /\ tasks' = Carried(tasks, i, From(Tail(Rest(i))), detail)
    PROVE  ViewsInv'
<1>1. /\ Head(tasks[i].todo) = step /\ Orderly(Rest(i))
      /\ \A j \in DOMAIN Rest(i) : Rest(i)[j] \in Loaders \cup {"connect"}
  BY LoaderRest
<1>2. Tasks(tasks)
  BY FormsGive
<1>3. Left(tasks, i, tasks')
  BY <1>2, CarriedLeaves
<1>4. ASSUME NEW v \in Due(stale', detail, tab), AsksFor(tasks[i], v)
      PROVE  \E j \in DOMAIN tasks' : Carries(tasks'[j], v, detail)
  <2>1. v \in Views /\ v \notin stale' /\ (v = "activity" => detail # None) /\ (v = "board" => tab = "board")
    BY DueViews DEF Due
  <2>2. ASSUME NEW todo, Orderly(todo), \A j \in DOMAIN todo : todo[j] \in Loaders \cup {"connect"},
               \E m \in DOMAIN todo : todo[m] = v,
               tasks' = Carried(tasks, i, From(todo), detail)
        PROVE  \E j \in DOMAIN tasks' : Carries(tasks'[j], v, detail)
    <3>1. PICK m \in DOMAIN todo : todo[m] = v
      BY <2>2
    <3>2. /\ From(todo) \notin {<<>>, <<"connect">>}
          /\ Carries(Call(From(todo), detail, None), v, detail)
      BY <2>1, <2>2, <3>1, CarriedBrings
    <3>3. tasks' = [tasks EXCEPT ![i] = Call(From(todo), detail, None)]
      BY <2>2, <3>2 DEF Carried
    <3> QED BY <3>2, <3>3, ReplacedCarries
  <2>3. CASE tasks' = Carried(tasks, i, From(Rest(i)), detail)
    <3>1. \E m \in DOMAIN Rest(i) : Rest(i)[m] = v
      BY <1>4, LoaderRest
    <3> QED BY <1>1, <2>2, <2>3, <3>1
  <2>4. CASE /\ step = "issues" /\ "board" \in stale'
             /\ tasks' = Carried(tasks, i, From(Tail(Rest(i))), detail)
    <3>1. /\ Orderly(Tail(Rest(i)))
          /\ \A j \in DOMAIN Tail(Rest(i)) : Tail(Rest(i))[j] \in Loaders \cup {"connect"}
          /\ \E m \in DOMAIN Tail(Rest(i)) : Tail(Rest(i))[m] = v
      BY <1>4, <2>1, <2>4, LoaderRest
    <3> QED BY <2>2, <2>4, <3>1
  <2> QED BY <2>3, <2>4
<1> QED BY <1>1, <1>3, <1>4, LandingKeeps

LEMMA issuesLandShows ==
    ASSUME FormsInv, ViewsInv, NEW i \in DOMAIN tasks, issuesLand(i)
    PROVE  ViewsInv'
<1>1. /\ Landed(i, "issues") /\ "issues" \in Loaders /\ "issues" # "activity"
      /\ detail' = detail /\ tab' = tab
      /\ UNCHANGED streamVars \/ newSource(Which) \/ closeSource
  BY DEF issuesLand, Loaders, Views, Proceed
<1>2. Head(tasks[i].todo) = "issues" /\ tasks[i].ans # None
  BY <1>1 DEF Landed
<1>3. CASE Status(i) = 200
  <2>1. Got(tasks[i]) /\ About(tasks[i], "issues", detail)
    BY <1>1, <1>2, <1>3 DEF Got, Status, About
  <2>2. Paint("issues", tasks[i].ans.at) /\ tasks' = Carried(tasks, i, From(Rest(i)), detail)
    BY <1>3 DEF issuesLand, Proceed, Carried
  <2>3. Painted(tasks[i], "issues", shows, stale, shows', stale', now, detail)
    BY <2>1, <2>2 DEF Painted, Paint
  <2> QED BY <1>1, <2>2, <2>3, LoaderShows
<1>4. CASE Status(i) # 200
  <2>1. Failed({"issues", "board"}) /\ tasks' = Carried(tasks, i, From(Tail(Rest(i))), detail)
    BY <1>4 DEF issuesLand, Proceed, Carried
  <2>2. Painted(tasks[i], "issues", shows, stale, shows', stale', now, detail) /\ "board" \in stale'
    BY <2>1 DEF Painted, Failed
  <2> QED BY <1>1, <2>1, <2>2, LoaderShows
<1> QED BY <1>3, <1>4

LEMMA boardLandsShows ==
    ASSUME FormsInv, ViewsInv, NEW i \in DOMAIN tasks, boardLands(i)
    PROVE  ViewsInv'
<1>1. /\ Landed(i, "board") /\ "board" \in Loaders /\ "board" # "activity"
      /\ detail' = detail /\ tab' = tab
      /\ UNCHANGED streamVars \/ newSource(Which) \/ closeSource
      /\ tasks' = Carried(tasks, i, From(Rest(i)), detail)
  BY DEF boardLands, Loaders, Views, Proceed, Carried
<1>2. Head(tasks[i].todo) = "board" /\ tasks[i].ans # None
  BY <1>1 DEF Landed
<1>3. Painted(tasks[i], "board", shows, stale, shows', stale', now, detail)
  <2>1. CASE Status(i) = 200
    <3>1. Got(tasks[i]) /\ About(tasks[i], "board", detail)
      BY <1>1, <1>2, <2>1 DEF Got, Status, About
    <3> QED BY <2>1, <3>1 DEF Painted, Paint, boardLands
  <2>2. CASE Status(i) # 200
    BY <2>2 DEF Painted, Failed, boardLands
  <2> QED BY <2>1, <2>2
<1> QED BY <1>1, <1>3, LoaderShows

LEMMA panelLandsShows ==
    ASSUME FormsInv, ViewsInv, NEW i \in DOMAIN tasks, NEW v, panelLands(i, v)
    PROVE  ViewsInv'
<1>1. /\ Landed(i, v) /\ v \in Loaders /\ v # "activity"
      /\ detail' = detail /\ tab' = tab
      /\ UNCHANGED streamVars \/ newSource(Which) \/ closeSource
      /\ tasks' = Carried(tasks, i, From(Rest(i)), detail)
  BY DEF panelLands, Loaders, Views, Proceed, Carried
<1>2. Head(tasks[i].todo) = v /\ tasks[i].ans # None
  BY <1>1 DEF Landed
<1>3. Painted(tasks[i], v, shows, stale, shows', stale', now, detail)
  <2>1. CASE Status(i) = 200
    <3>1. Got(tasks[i]) /\ About(tasks[i], v, detail)
      BY <1>1, <1>2, <2>1 DEF Got, Status, About
    <3> QED BY <2>1, <3>1 DEF Painted, Paint, panelLands
  <2>2. CASE Status(i) # 200
    BY <2>2 DEF Painted, Failed, panelLands
  <2> QED BY <2>1, <2>2
<1> QED BY <1>1, <1>3, LoaderShows

LEMMA activityLandsShows ==
    ASSUME FormsInv, ViewsInv, NEW i \in DOMAIN tasks, activityLands(i)
    PROVE  ViewsInv'
<1>1. /\ Landed(i, "activity") /\ "activity" \in Loaders
      /\ detail' = detail /\ tab' = tab
      /\ UNCHANGED streamVars \/ newSource(Which) \/ closeSource
      /\ tasks' = Carried(tasks, i, From(Rest(i)), detail)
  BY DEF activityLands, Loaders, Views, Proceed, Carried
<1>2. Head(tasks[i].todo) = "activity" /\ tasks[i].ans # None
  BY <1>1 DEF Landed
<1>3. Painted(tasks[i], "activity", shows, stale, shows', stale', now, detail)
  <2>1. CASE Status(i) = 200 /\ StillOpen(i)
    <3>1. Got(tasks[i]) /\ About(tasks[i], "activity", detail)
      BY <1>1, <1>2, <2>1 DEF Got, Status, About, StillOpen
    <3> QED BY <2>1, <3>1 DEF Painted, Paint, activityLands
  <2>2. CASE Status(i) # 200
    BY <2>2 DEF Painted, activityLands
  <2>3. CASE Status(i) = 200 /\ ~StillOpen(i)
    <3>1. ~About(tasks[i], "activity", detail)
      BY <2>3 DEF About, StillOpen
    <3> QED BY <2>3, <3>1 DEF Painted, activityLands
  <2> QED BY <2>1, <2>2, <2>3
<1> QED BY <1>1, <1>3, LoaderShows

(* The pickers are not among the views; what is loaded after them is.      *)
LEMMA PickersShow ==
    ASSUME FormsInv, ViewsInv, NEW i \in DOMAIN tasks, NEW step \in Pickers, Landed(i, step),
           UNCHANGED <<streamVars, shows, stale, detail, tab>>,
           Left(tasks, i, tasks'),
           \A v \in Views : AsksFor(tasks[i], v) /\ (v = "activity" => detail # None)
                            /\ (v = "board" => tab = "board") =>
               \E j \in DOMAIN tasks' : Carries(tasks'[j], v, detail)
    PROVE  ViewsInv'
<1>1. Head(tasks[i].todo) = step /\ step \notin Views
  BY DEF Landed, Pickers, Views
<1>2. Painted(tasks[i], Head(tasks[i].todo), shows, stale, shows', stale', now, detail)
  BY <1>1 DEF Painted
<1>3. ASSUME NEW v \in Due(stale', detail, tab), AsksFor(tasks[i], v)
      PROVE  \E j \in DOMAIN tasks' : Carries(tasks'[j], v, detail)
  <2>1. v \in Views /\ (v = "activity" => detail # None) /\ (v = "board" => tab = "board")
    BY DueViews DEF Due
  <2> QED BY <1>3, <2>1
<1> QED BY <1>2, <1>3, LandingKeeps

(* The pickers have nothing, or are painted: it goes on with what follows. *)
LEMMA PickersGoOn ==
    ASSUME FormsInv, ViewsInv, NEW i \in DOMAIN tasks, NEW step \in Pickers, Landed(i, step),
           UNCHANGED <<streamVars, shows, stale, detail, tab>>,
           NEW todo, Orderly(todo), \A j \in DOMAIN todo : todo[j] \in Loaders \cup {"connect"},
           \A v \in Views : AsksFor(tasks[i], v) => \E m \in DOMAIN todo : todo[m] = v,
           tasks' = IF From(todo) = <<>> THEN RemoveAt(tasks, i)
                    ELSE [tasks EXCEPT ![i] = Call(From(todo), detail, None)]
    PROVE  ViewsInv'
<1>1. Tasks(tasks)
  BY FormsGive
<1>2. PICK c : c = Call(From(todo), detail, None)
  OBVIOUS
<1>3. c.ans = None
  BY <1>2 DEF Call
<1>4. Left(tasks, i, tasks')
  BY <1>1, <1>2, <1>3, RemoveLeaves, ReplaceLeaves
<1>5. ASSUME NEW v \in Views, AsksFor(tasks[i], v), v = "activity" => detail # None,
             v = "board" => tab = "board"
      PROVE  \E j \in DOMAIN tasks' : Carries(tasks'[j], v, detail)
  <2>1. PICK m \in DOMAIN todo : todo[m] = v
    BY <1>5
  <2>2. From(todo) \notin {<<>>, <<"connect">>} /\ Carries(c, v, detail)
    BY <1>2, <1>5, <2>1, CarriedBrings
  <2>3. tasks' = [tasks EXCEPT ![i] = c]
    BY <1>2, <2>2
  <2> QED BY <2>2, <2>3, ReplacedCarries
<1> QED BY <1>4, <1>5, PickersShow

LEMMA assignLandsShows ==
    ASSUME FormsInv, ViewsInv, NEW i \in DOMAIN tasks, assignLands(i)
    PROVE  ViewsInv'
<1>1. /\ Landed(i, "assign") /\ "assign" \in Loaders /\ "assign" \in Pickers
      /\ UNCHANGED <<streamVars, shows, stale, detail, tab>>
  BY DEF assignLands, Loaders, Pickers, windowHistory
<1>2. /\ Rest(i) # <<>> /\ Head(Rest(i)) = "assignable" /\ Orderly(Tail(Rest(i)))
      /\ \A j \in DOMAIN Tail(Rest(i)) : Tail(Rest(i))[j] \in Loaders \cup {"connect"}
  BY <1>1, LoaderRest
<1>3. ASSUME NEW v \in Views, AsksFor(tasks[i], v)
      PROVE  /\ \E m \in DOMAIN Rest(i) : m > 1 /\ Rest(i)[m] = v
             /\ \E m \in DOMAIN Tail(Rest(i)) : Tail(Rest(i))[m] = v
  <2>1. v # Head(Rest(i))
    BY <1>2 DEF Views
  <2> QED BY <1>1, <1>3, <2>1, LoaderRest
<1>4. CASE Status(i) = 200
  <2>1. PICK c : c = Call(Rest(i), tasks[i].on, None)
    OBVIOUS
  <2>2. tasks' = [tasks EXCEPT ![i] = c]
    BY <1>4, <2>1 DEF assignLands
  <2>3. c.ans = None /\ c.todo = Rest(i)
    BY <2>1 DEF Call
  <2>4. Left(tasks, i, tasks')
    BY <2>2, <2>3, FormsGive, ReplaceLeaves
  <2>5. ASSUME NEW v \in Views, AsksFor(tasks[i], v)
        PROVE  \E j \in DOMAIN tasks' : Carries(tasks'[j], v, detail)
    <3>1. Carries(c, v, detail)
      BY <1>2, <1>3, <2>3, <2>5 DEF Carries, AsksFor, Loaders, Pickers
    <3> QED BY <2>2, <3>1, ReplacedCarries
  <2> QED BY <1>1, <2>4, <2>5, PickersShow
<1>5. CASE Status(i) # 200
  <2>1. tasks' = IF From(Tail(Rest(i))) = <<>> THEN RemoveAt(tasks, i)
                 ELSE [tasks EXCEPT ![i] = Call(From(Tail(Rest(i))), detail, None)]
    BY <1>5 DEF assignLands
  <2> QED BY <1>1, <1>2, <1>3, <2>1, PickersGoOn
<1> QED BY <1>4, <1>5

LEMMA assignableLandsShows ==
    ASSUME FormsInv, ViewsInv, NEW i \in DOMAIN tasks, assignableLands(i)
    PROVE  ViewsInv'
<1>1. /\ Landed(i, "assignable") /\ "assignable" \in Loaders /\ "assignable" \in Pickers
      /\ UNCHANGED <<streamVars, shows, stale, detail, tab>>
  BY DEF assignableLands, Loaders, Pickers
<1>2. /\ Orderly(Rest(i))
      /\ \A j \in DOMAIN Rest(i) : Rest(i)[j] \in Loaders \cup {"connect"}
      /\ \A v : AsksFor(tasks[i], v) => \E m \in DOMAIN Rest(i) : Rest(i)[m] = v
  BY <1>1, LoaderRest
<1>3. tasks' = IF From(Rest(i)) = <<>> THEN RemoveAt(tasks, i)
               ELSE [tasks EXCEPT ![i] = Call(From(Rest(i)), detail, None)]
  BY DEF assignableLands
<1> QED BY <1>1, <1>2, <1>3, PickersGoOn

-----------------------------------------------------------------------------
(* Steps of the server, of the person and of the forms.                    *)

SameWindow == UNCHANGED <<shows, stale, detail, tab>>

LEMMA SameAside ==
    ASSUME SameWindow
    PROVE  Aside
BY DEF SameWindow, Aside

LEMMA AnsweredShows ==
    ASSUME FormsInv, ViewsInv, SameWindow, NEW i \in DOMAIN tasks, NEW status, NEW tag,
           Answer(i, status, tag), Flow \/ publish
    PROVE  ViewsInv'
<1>1. PICK r : r = [status |-> status, at |-> now, tag |-> tag]
  OBVIOUS
<1>2. r.at = now /\ tasks' = [tasks EXCEPT ![i].ans = r]
  BY <1>1 DEF Answer
<1> QED BY <1>2, SameAside, ServedKeeps

LEMMA NoLoaders ==
    /\ "me" \notin Loaders /\ "login" \notin Loaders /\ "logout" \notin Loaders
    /\ "check" \notin Loaders /\ "openEdit" \notin Loaders /\ "patch" \notin Loaders
    /\ "reloadEdit" \notin Loaders /\ "openDelete" \notin Loaders /\ "children" \notin Loaders
    /\ "delete" \notin Loaders /\ "create" \notin Loaders /\ "comment" \notin Loaders
BY DEF Loaders, Views, Pickers

(* A deletion gets on, with a change of which no source is told.           *)
LEMMA ProgressShows ==
    ASSUME FormsInv, ViewsInv, SameWindow, NEW i \in DOMAIN tasks, NEW step, Leaves(i, step),
           Waiting(i, {"delete"}), UNCHANGED streamVars \/ unannounced
    PROVE  ViewsInv'
<1>1. Tasks(tasks) /\ Dated(tasks, now)
  BY FormsGive DEF ViewsInv
<1>2. tasks[i] = [todo |-> tasks[i].todo, on |-> tasks[i].on, by |-> tasks[i].by,
                  ans |-> tasks[i].ans]
  BY FormsGive
<1>3. PICK t : t = [tasks[i] EXCEPT !.by = [tasks[i].by EXCEPT !.left = step]]
  OBVIOUS
<1>4. t.ans = None
  BY <1>2, <1>3 DEF Waiting
<1>5. tasks' = [tasks EXCEPT ![i] = t]
  <2>1. tasks' = [tasks EXCEPT ![i].by.left = step]
    BY DEF Leaves
  <2> QED BY <1>3, <2>1
<1>6. Left(tasks, i, tasks') /\ Head(tasks[i].todo) \notin Loaders
  BY <1>1, <1>4, <1>5, ReplaceLeaves, NoLoaders DEF Waiting
<1>7. CASE UNCHANGED streamVars
  BY <1>6, <1>7, SameAside, EndsKeeps DEF Flow
<1>8. CASE unannounced
  <2>1. StreamInv' /\ Loud /\ now' = now + 1 /\ now \in Int
    BY <1>8, unannouncedIsLoud DEF ViewsInv, StreamInv
  <2>2. Dated(tasks', now)
    BY <1>1, <1>6, LeftDates
  <2>3. Shown(shows', now') /\ Dated(tasks', now')
    BY <2>1, <2>2 DEF ViewsInv, SameWindow, Shown, Dated
  <2> QED BY <2>1, <2>3, LoudKeeps
<1> QED BY <1>7, <1>8

LEMMA ServerShows ==
    ASSUME FormsInv, ViewsInv, NEW i \in DOMAIN tasks, Server(i)
    PROVE  ViewsInv'
<1>1. CASE read(i)
  <2>1. SameWindow /\ Flow
    BY <1>1 DEF read, SameWindow, Flow, shown, windowHistory
  <2>2. \E status \in {200, 401, 404}, tag \in {None, files[tasks[i].on]} : Answer(i, status, tag)
    BY <1>1 DEF read
  <2> QED BY <2>1, <2>2, AnsweredShows
<1>2. CASE signIn(i)
  <2>1. SameWindow /\ Flow /\ Answer(i, 200, None)
    BY <1>2 DEF signIn, SameWindow, Flow, shown, windowHistory
  <2> QED BY <2>1, AnsweredShows
<1>3. CASE signOut(i)
  <2>1. SameWindow /\ Flow /\ Answer(i, 200, None)
    BY <1>3 DEF signOut, SameWindow, Flow, shown, windowHistory
  <2> QED BY <2>1, AnsweredShows
<1>4. ASSUME NEW status, NEW tag, Refuse(i, status, tag), SameWindow
      PROVE  ViewsInv'
  <2>1. Answer(i, status, tag) /\ Flow
    BY <1>4 DEF Refuse, Flow
  <2> QED BY <1>4, <2>1, AnsweredShows
<1>5. ASSUME NEW version, Write(i, version), SameWindow
      PROVE  ViewsInv'
  <2>1. Answer(i, 200, version) /\ publish
    BY <1>5 DEF Write
  <2> QED BY <1>5, <2>1, AnsweredShows
<1>6. CASE updateIssue(i)
  <2>1. SameWindow
    BY <1>6 DEF updateIssue, Served, SameWindow, shown, windowHistory
  <2> QED BY <1>4, <1>5, <1>6, <2>1 DEF updateIssue
<1>7. CASE deleteIssue(i)
  <2>1. SameWindow
    BY <1>7 DEF deleteIssue, Served, SameWindow, shown, windowHistory
  <2>2. CASE Leaves(i, "children") /\ UNCHANGED <<streamVars, files, replaced, hasty>>
    BY <1>7, <2>1, <2>2, ProgressShows DEF deleteIssue, Goes
  <2> QED BY <1>4, <1>5, <1>7, <2>1, <2>2 DEF deleteIssue
<1>8. CASE createIssue(i)
  <2>1. SameWindow
    BY <1>8 DEF createIssue, SameWindow, shown, windowHistory
  <2>2. (Answer(i, 401, None) \/ Answer(i, 201, None)) /\ (Flow \/ publish)
    BY <1>8 DEF createIssue, Flow
  <2> QED BY <2>1, <2>2, AnsweredShows
<1>9. CASE addComment(i)
  <2>1. SameWindow /\ Flow
    BY <1>9 DEF addComment, SameWindow, Flow, shown, windowHistory
  <2>2. Answer(i, 401, None) \/ Answer(i, 201, None) \/ Answer(i, 404, None)
    BY <1>9 DEF addComment
  <2> QED BY <2>1, <2>2, AnsweredShows
<1>10. CASE moveChild(i)
  <2>1. SameWindow
    BY <1>10 DEF moveChild, Served, SameWindow, shown, windowHistory
  <2>2. CASE Leaves(i, "parent") /\ unannounced
    BY <1>10, <2>1, <2>2, ProgressShows DEF moveChild, Goes
  <2> QED BY <1>4, <1>10, <2>1, <2>2 DEF moveChild
<1>11. CASE removeParent(i)
  <2>1. SameWindow
    BY <1>11 DEF removeParent, Served, SameWindow, shown, windowHistory
  <2> QED BY <1>4, <1>5, <1>11, <2>1 DEF removeParent
<1> QED BY <1>1, <1>2, <1>3, <1>6, <1>7, <1>8, <1>9, <1>10, <1>11 DEF Server

(* A function that is no loader goes on, or ends.                          *)
LEMMA OtherGoesOn ==
    ASSUME FormsInv, ViewsInv, Flow, Aside,
           NEW i \in DOMAIN tasks, NEW step, step \notin Loaders, Landed(i, step),
           NEW todo, NEW on,
           \/ tasks' = RemoveAt(tasks, i)
           \/ tasks' = Carried(tasks, i, todo, on)
           \/ tasks' = [tasks EXCEPT ![i] = Call(todo, on, None)]
    PROVE  ViewsInv'
<1>1. Head(tasks[i].todo) \notin Loaders /\ Tasks(tasks)
  BY FormsGive DEF Landed
<1>2. PICK c : c = Call(todo, on, None)
  OBVIOUS
<1>3. c.ans = None
  BY <1>2 DEF Call
<1>4. Left(tasks, i, tasks')
  BY <1>1, <1>2, <1>3, RemoveLeaves, CarriedLeaves, ReplaceLeaves
<1> QED BY <1>1, <1>4, EndsKeeps

(* What lands in the window, whatever it is.                               *)
LEMMA WindowLandsShows ==
    ASSUME FormsInv, ViewsInv, NEW i \in DOMAIN tasks,
           meLands(i) \/ loginLands(i) \/ logoutLands(i) \/ checkLands(i)
    PROVE  ViewsInv'
<1>1. CASE meLands(i)
  <2>1. SameWindow /\ Flow /\ Landed(i, "me")
    BY <1>1 DEF meLands, SameWindow, Flow, windowHistory, Proceed
  <2>2. tasks' = RemoveAt(tasks, i) \/ tasks' = Carried(tasks, i, From(Rest(i)), detail)
    BY <1>1 DEF meLands, Proceed, Carried
  <2> QED BY <2>1, <2>2, NoLoaders, SameAside, OtherGoesOn
<1>2. CASE loginLands(i)
  <2>1. SameWindow /\ Flow /\ Landed(i, "login")
    BY <1>2 DEF loginLands, SameWindow, Flow, windowHistory, Proceed
  <2>2. tasks' = RemoveAt(tasks, i) \/ tasks' = Carried(tasks, i, From(Rest(i)), detail)
    BY <1>2 DEF loginLands, Proceed, Carried
  <2> QED BY <2>1, <2>2, NoLoaders, SameAside, OtherGoesOn
<1>3. CASE logoutLands(i)
  <2>1. SameWindow /\ Flow /\ Landed(i, "logout") /\ tasks' = RemoveAt(tasks, i)
    BY <1>3 DEF logoutLands, SameWindow, Flow, windowHistory
  <2> QED BY <2>1, NoLoaders, SameAside, OtherGoesOn
<1>4. CASE checkLands(i)
  <2>1. SameWindow /\ Flow /\ Landed(i, "check") /\ tasks' = RemoveAt(tasks, i)
    BY <1>4 DEF checkLands, SameWindow, Flow
  <2> QED BY <2>1, NoLoaders, SameAside, OtherGoesOn
<1> QED BY <1>1, <1>2, <1>3, <1>4

(* What follows a save is read by loaders.                                 *)
LEMMA ReloadShows ==
    ASSUME FormsInv, ViewsInv, Aside, NEW i \in DOMAIN tasks, NEW step, step \notin Loaders,
           Landed(i, step), NEW todo,
           Reload(i, todo) \/ (End(i) /\ UNCHANGED streamVars)
    PROVE  ViewsInv'
<1>1. Flow
  BY DEF Reload, Proceed, Flow
<1>2. tasks' = RemoveAt(tasks, i) \/ tasks' = Carried(tasks, i, From(todo), detail)
  BY DEF Reload, End, Proceed, Carried
<1> QED BY <1>1, <1>2, OtherGoesOn

(* What lands in a form.                                                   *)
LEMMA FormLandsShows ==
    ASSUME FormsInv, ViewsInv, NEW i \in DOMAIN tasks,
           \/ openEditLands(i) \/ submitEditLands(i) \/ reloadEditLands(i) \/ saveAssignLands(i)
           \/ openDeleteLands(i) \/ childrenLand(i) \/ submitDeleteLands(i)
           \/ submitCreateLands(i) \/ submitCommentLands(i)
    PROVE  ViewsInv'
<1>1. CASE openEditLands(i)
  <2>1. SameWindow /\ Landed(i, "openEdit") /\ End(i) /\ UNCHANGED streamVars
    BY <1>1 DEF openEditLands, SameWindow, Still
  <2> QED BY <2>1, NoLoaders, SameAside, ReloadShows
<1>2. CASE submitEditLands(i)
  <2>1. SameWindow /\ Landed(i, "patch")
    BY <1>2 DEF submitEditLands, SameWindow, Still
  <2>2. Reload(i, Refresh \o <<"activity">>) \/ (End(i) /\ UNCHANGED streamVars)
    BY <1>2, Zenon DEF submitEditLands
  <2> QED BY <2>1, <2>2, NoLoaders, SameAside, ReloadShows
<1>3. CASE reloadEditLands(i)
  <2>1. SameWindow /\ Landed(i, "reloadEdit") /\ End(i) /\ UNCHANGED streamVars
    BY <1>3 DEF reloadEditLands, SameWindow, Still
  <2> QED BY <2>1, NoLoaders, SameAside, ReloadShows
<1>4. CASE saveAssignLands(i)
  <2>1. SameWindow /\ Landed(i, "patch") /\ Flow
    BY <1>4 DEF saveAssignLands, SameWindow, Still, Flow
  <2>2. PICK rest : rest = From(Refresh \o <<"assign", "assignable", "activity">>)
    OBVIOUS
  <2>3. \/ tasks' = RemoveAt(tasks, i)
        \/ tasks' = [tasks EXCEPT ![i] = Call(rest, detail, None)]
    BY <1>4, <2>2 DEF saveAssignLands
  <2> QED BY <2>1, <2>3, NoLoaders, SameAside, OtherGoesOn
<1>5. CASE openDeleteLands(i)
  <2>1. SameWindow /\ Landed(i, "openDelete") /\ Flow
    BY <1>5 DEF openDeleteLands, SameWindow, Still, Flow
  <2>2. \/ tasks' = RemoveAt(tasks, i)
        \/ tasks' = [tasks EXCEPT ![i] = Call(Rest(i), tasks[i].on, None)]
    BY <1>5 DEF openDeleteLands, End
  <2> QED BY <2>1, <2>2, NoLoaders, SameAside, OtherGoesOn
<1>6. CASE childrenLand(i)
  <2>1. SameWindow /\ Landed(i, "children") /\ End(i) /\ UNCHANGED streamVars
    BY <1>6 DEF childrenLand, SameWindow, Still
  <2> QED BY <2>1, NoLoaders, SameAside, ReloadShows
<1>7. CASE submitDeleteLands(i)
  <2>1. Aside /\ Landed(i, "delete")
    BY <1>7 DEF submitDeleteLands, Aside, Still
  <2>2. Reload(i, Refresh \o <<"git">>) \/ (End(i) /\ UNCHANGED streamVars)
    BY <1>7, Zenon DEF submitDeleteLands
  <2> QED BY <2>1, <2>2, NoLoaders, ReloadShows
<1>8. CASE submitCreateLands(i)
  <2>1. SameWindow /\ Landed(i, "create")
    BY <1>8 DEF submitCreateLands, SameWindow, Still
  <2>2. Reload(i, Refresh) \/ (End(i) /\ UNCHANGED streamVars)
    BY <1>8, Zenon DEF submitCreateLands
  <2> QED BY <2>1, <2>2, NoLoaders, SameAside, ReloadShows
<1>9. CASE submitCommentLands(i)
  <2>1. SameWindow /\ Landed(i, "comment")
    BY <1>9 DEF submitCommentLands, SameWindow, windowHistory
  <2>2. Reload(i, Refresh) \/ (End(i) /\ UNCHANGED streamVars)
    BY <1>9, Zenon DEF submitCommentLands
  <2> QED BY <2>1, <2>2, NoLoaders, SameAside, ReloadShows
<1> QED BY <1>1, <1>2, <1>3, <1>4, <1>5, <1>6, <1>7, <1>8, <1>9

LEMMA BeginShows ==
    ASSUME FormsInv, ViewsInv, SameWindow, UNCHANGED streamVars, NEW todo, NEW on, NEW by,
           Begin(todo, on, by)
    PROVE  ViewsInv'
<1>1. Flow /\ Aside
  BY SameAside DEF Flow
<1> QED BY <1>1, StartsKeeps DEF Begin

LEMMA IdleShows ==
    ASSUME FormsInv, ViewsInv, Aside, UNCHANGED streamVars, tasks' = tasks
    PROVE  ViewsInv'
BY StandsKeeps DEF Flow

(* What a person does.                                                     *)
LEMMA PersonShows ==
    ASSUME FormsInv, ViewsInv, Person
    PROVE  ViewsInv'
<1>1. CASE login
  <2>1. SameWindow /\ Flow
    BY <1>1 DEF login, SameWindow, Flow, shown, windowHistory
  <2>2. PICK todo : tasks' = Append(tasks, Call(todo, None, None))
    BY <1>1 DEF login
  <2> QED BY <2>1, <2>2, SameAside, StartsKeeps
<1>2. CASE logout
  <2>1. SameWindow /\ Flow
    BY <1>2 DEF logout, SameWindow, Flow, shown, windowHistory
  <2>2. PICK todo : tasks' = Append(tasks, Call(todo, None, None))
    BY <1>2 DEF logout
  <2> QED BY <2>1, <2>2, SameAside, StartsKeeps
<1>3. ASSUME NEW todo, NEW on, tasks' = Append(tasks, Call(todo, on, None)),
             UNCHANGED streamVars, shows' = shows,
             Due(stale', detail', tab') \subseteq Due(stale, detail, tab),
             "activity" \in Due(stale', detail', tab') => detail = detail'
      PROVE  ViewsInv'
  <2>1. PICK c : c = Call(todo, on, None)
    OBVIOUS
  <2>2. c.ans = None
    BY <2>1 DEF Call
  <2>3. Left(tasks, 0, tasks') /\ 0 \notin DOMAIN tasks
    BY <1>3, <2>1, <2>2, FormsGive, AppendLeaves
  <2>4. Dated(tasks, now) /\ StreamInv
    BY DEF ViewsInv
  <2>5. Hands(tasks, tasks', now) /\ Dated(tasks', now)
    BY <2>3, <2>4, LeftHands
  <2>6. StreamInv' /\ (Loud \/ Quiet) /\ now' = now
    BY <1>3, <2>4, FlowTells DEF Flow
  <2> QED BY <1>3, <2>5, <2>6, FlowKeeps
<1>4. CASE switchView
  <2>1. UNCHANGED <<streamVars, shows, detail>> /\ stale' = stale \cup {"board"}
    BY <1>4 DEF switchView
  <2>2. PICK todo : tasks' = Append(tasks, Call(todo, None, None))
    BY <1>4 DEF switchView
  <2>3. Due(stale', detail', tab') \subseteq Due(stale, detail, tab)
    BY <2>1 DEF Due
  <2> QED BY <1>3, <2>1, <2>2, <2>3
<1>5. ASSUME NEW d \in Issues, openDetail(d)
      PROVE  ViewsInv'
  <2>1. UNCHANGED <<streamVars, shows, tab>> /\ stale' = stale \cup {"activity"}
    BY <1>5 DEF openDetail
  <2>2. PICK todo : tasks' = Append(tasks, Call(todo, d, None))
    BY <1>5 DEF openDetail
  <2>3. /\ Due(stale', detail', tab') \subseteq Due(stale, detail, tab)
        /\ "activity" \notin Due(stale', detail', tab')
    BY <2>1 DEF Due
  <2> QED BY <1>3, <2>1, <2>2, <2>3
<1>6. CASE closeDetail
  <2>1. Aside /\ UNCHANGED streamVars /\ tasks' = tasks
    BY <1>6 DEF closeDetail, Aside, windowHistory
  <2> QED BY <2>1, IdleShows
<1>7. CASE openEdit \/ submitEdit \/ reloadEdit \/ saveAssign \/ openDelete \/ submitDelete
  <2>1. SameWindow /\ UNCHANGED streamVars
    BY <1>7 DEF openEdit, submitEdit, reloadEdit, saveAssign, openDelete, submitDelete,
                SameWindow, Still
  <2>2. \E todo \in {<<"openEdit">>, <<"patch">>, <<"reloadEdit">>, <<"openDelete", "children">>,
                     <<"delete">>},
           on \in {detail, edit.key, assign.key, remove.key},
           by \in {None, [form |-> "edit", tag |-> edit.tag],
                   [form |-> "assign", tag |-> assign.tag, early |-> Painting],
                   [tag |-> remove.tag, strategy |-> remove.strategy, left |-> "all"]} : Begin(todo, on, by)
    BY <1>7, Zenon DEF openEdit, submitEdit, reloadEdit, saveAssign, openDelete, submitDelete
  <2> QED BY <2>1, <2>2, BeginShows
<1>8. CASE closeEdit \/ closeDelete \/ chooseStrategy \/ openCreate \/ closeCreate
  <2>1. SameWindow /\ UNCHANGED streamVars /\ tasks' = tasks
    BY <1>8 DEF closeEdit, closeDelete, chooseStrategy, openCreate, closeCreate, SameWindow, Still
  <2> QED BY <2>1, SameAside, IdleShows
<1>9. ASSUME NEW text \in Texts, submitCreate(text) \/ submitComment(text)
      PROVE  ViewsInv'
  <2>1. SameWindow /\ UNCHANGED streamVars
    BY <1>9 DEF submitCreate, submitComment, SameWindow, Still
  <2>2. \E todo \in {<<"create">>, <<"comment">>}, on \in {None, detail},
           by \in {[key |-> createKey(text), of |-> <<create.nonce, text>>],
                   [key |-> <<0, text>>, text |-> text]} : Begin(todo, on, by)
    BY <1>9, Zenon DEF submitCreate, submitComment
  <2> QED BY <2>1, <2>2, BeginShows
<1> QED BY <1>1, <1>2, <1>4, <1>5, <1>6, <1>7, <1>8, <1>9 DEF Person

(* What goes wrong.                                                        *)
LEMMA FaultShows ==
    ASSUME FormsInv, ViewsInv, Fault
    PROVE  ViewsInv'
<1>1. ASSUME handleStreamError, Flow, SameWindow
      PROVE  ViewsInv'
  BY <1>1, SameAside, StartsKeeps DEF handleStreamError
<1>2. CASE Drop
  <2>1. handleStreamError /\ Flow /\ SameWindow
    BY <1>2 DEF Drop, Flow, SameWindow, shown, windowHistory
  <2> QED BY <1>1, <2>1
<1>3. CASE SessionEnds
  <2>1. SameWindow /\ Flow /\ (handleStreamError \/ tasks' = tasks)
    BY <1>3 DEF SessionEnds, Flow, SameWindow, shown, windowHistory
  <2> QED BY <1>1, <2>1, SameAside, StandsKeeps
<1>4. CASE Restart
  <2>1. SameWindow /\ Flow
    BY <1>4 DEF Restart, Flow, SameWindow, shown, windowHistory
  <2>2. PICK s : s = [i \in DOMAIN tasks |-> [tasks[i] EXCEPT !.ans = Lost]]
    OBVIOUS
  <2>3. PICK c : c = Call(<<"check">>, source.which, None)
    OBVIOUS
  <2>4. c.ans = None /\ (tasks' = s \/ tasks' = Append(s, c))
    BY <1>4, <2>2, <2>3 DEF Restart, Call
  <2>5. /\ Hands(tasks, s, now) /\ Dated(s, now)
        /\ Hands(tasks, Append(s, c), now) /\ Dated(Append(s, c), now)
    BY <2>2, <2>4, FormsGive, BrokenHands
  <2>6. Hands(tasks, tasks', now) /\ Dated(tasks', now)
    BY <2>4, <2>5
  <2> QED BY <2>1, <2>6, SameAside, MoveKeeps
<1>5. ASSUME NEW i \in DOMAIN tasks, Lose(i)
      PROVE  ViewsInv'
  <2>1. SameWindow /\ Flow /\ tasks' = [tasks EXCEPT ![i].ans = Lost] /\ Lost.status # 200
    BY <1>5 DEF Lose, Flow, SameWindow, shown, windowHistory, Lost
  <2> QED BY <2>1, SameAside, ServedKeeps
<1>6. ASSUME NEW d \in Issues, Change(d) \/ Removal(d)
      PROVE  ViewsInv'
  <2>1. shows' = shows /\ tasks' = tasks /\ publish
    BY <1>6 DEF Change, Removal, Elsewhere, shown
  <2> QED BY <2>1, PublishedKeeps
<1> QED BY <1>2, <1>3, <1>4, <1>5, <1>6 DEF Fault

-----------------------------------------------------------------------------
(* The stream connects, and an event arrives.                              *)

(* The connection to the stream opens, fails or is refused.                *)
LEMMA ConnectShows ==
    ASSUME FormsInv, ViewsInv, Connect
    PROVE  ViewsInv'
<1>1. SameWindow /\ Flow
  BY DEF Connect, Flow, SameWindow, shown, windowHistory
<1>2. CASE tasks' = tasks
  BY <1>1, <1>2, SameAside, StandsKeeps
<1>3. CASE handleStreamError
  BY <1>1, <1>3, SameAside, StartsKeeps DEF handleStreamError
<1> QED BY <1>2, <1>3 DEF Connect

(* onEvent goes through all panels.                                        *)
LEMMA PanelsListed ==
    ASSUME NEW panels, panels = SetToSeq(Panels)
    PROVE  /\ panels \in Seq(Panels)
           /\ \A v \in Panels : \E j \in DOMAIN panels : panels[j] = v
<1> DEFINE n == Cardinality(Panels)
<1>1. IsFiniteSet(Panels) /\ n \in Nat
  <2>1. IsFiniteSet({"integrity", "git"})
    <3>1. IsFiniteSet({"integrity"})
      BY FS_Singleton
    <3>2. IsFiniteSet({"integrity"} \cup {"git"})
      BY <3>1, FS_AddElement
    <3>3. {"integrity"} \cup {"git"} = {"integrity", "git"}
      OBVIOUS
    <3> QED BY <3>2, <3>3
  <2>2. IsFiniteSet(Panels)
    BY <2>1, PanelsAssumption, FS_Subset
  <2> QED BY <2>2, FS_CardinalityType
<1>2. \E f \in [1..n -> Panels] : IsInjective(f)
  <2>1. ExistsBijection(1..n, Panels)
    BY <1>1, FS_CardinalityType
  <2> QED BY <2>1 DEF ExistsBijection, Bijection, Injection
<1>3. panels = CHOOSE f \in [1..n -> Panels] : IsInjective(f)
  BY DEF SetToSeq
<1> HIDE DEF n
<1>4. panels \in [1..n -> Panels] /\ IsInjective(panels)
  BY <1>2, <1>3
<1>5. panels \in Seq(Panels)
  BY <1>1, <1>4
<1>6. ASSUME NEW v \in Panels
      PROVE  \E j \in DOMAIN panels : panels[j] = v
  <2> SUFFICES ASSUME \A j \in DOMAIN panels : panels[j] # v
               PROVE  FALSE
    OBVIOUS
  <2>1. panels \in [1..n -> Panels \ {v}]
    BY <1>4
  <2>2. IsFiniteSet(Panels \ {v}) /\ Cardinality(Panels \ {v}) = n - 1
    <3>1. IsFiniteSet(Panels \ {v}) /\ Cardinality(Panels \ {v}) = Cardinality(Panels) - 1
      BY <1>1, FS_RemoveElement
    <3> QED BY <3>1 DEF n
  <2>3. IsFiniteSet(1..n) /\ Cardinality(1..n) = n
    BY <1>1, FS_Interval
  <2>4. \E x, y \in 1..n : x # y /\ panels[x] = panels[y]
    <3>1. PICK S : S = 1..n
      OBVIOUS
    <3>2. PICK T : T = Panels \ {v}
      OBVIOUS
    <3>3. IsFiniteSet(S) /\ IsFiniteSet(T) /\ Cardinality(T) < Cardinality(S) /\ panels \in [S -> T]
      BY <1>1, <2>1, <2>2, <2>3, <3>1, <3>2
    <3>4. \E x, y \in S : x # y /\ panels[x] = panels[y]
      BY <3>3, FS_PigeonHole
    <3> QED BY <3>1, <3>4
  <2> QED BY <1>4, <2>4 DEF IsInjective
<1> QED BY <1>5, <1>6

(* What a list of tasks that joins two others holds.                       *)
Joined(s, a, b) ==
    /\ Tasks(s)
    /\ \A j \in DOMAIN s : \/ j \in DOMAIN a /\ s[j] = a[j]
                           \/ \E k \in DOMAIN b : s[j] = b[k]
    /\ \A j \in DOMAIN a : \E k \in DOMAIN s : s[k] = a[j]
    /\ \A j \in DOMAIN b : \E k \in DOMAIN s : s[k] = b[j]

(* Two lists of tasks, one after the other.                                *)
LEMMA JoinedTasks ==
    ASSUME NEW a, NEW b, Tasks(a), Tasks(b), NEW s, s = a \o b
    PROVE  Joined(s, a, b)
<1> DEFINE m == Len(a)
           n == Len(b)
           R == Range(a) \cup Range(b)
<1>1. a \in Seq(R) /\ b \in Seq(R) /\ m \in Nat /\ n \in Nat /\ DOMAIN a = 1..m /\ DOMAIN b = 1..n
  BY DEF Tasks
<1> HIDE DEF R
<1>0. PICK q : q = a \o b
  OBVIOUS
<1>2. /\ q \in Seq(R) /\ Len(q) = m + n /\ DOMAIN q = 1..(m + n)
      /\ \A j \in 1..(m + n) : q[j] = IF j <= m THEN a[j] ELSE b[j - m]
  BY <1>0, <1>1, ConcatProperties
<1>3. Tasks(q)
  <2>1. q \in [1..(m + n) -> Range(q)]
    BY <1>2 DEF Range
  <2> QED BY <1>1, <1>2, <2>1 DEF Tasks
<1>4. ASSUME NEW j \in DOMAIN q
      PROVE  (j \in DOMAIN a /\ q[j] = a[j]) \/ \E k \in DOMAIN b : q[j] = b[k]
  <2>1. CASE j <= m
    BY <1>1, <1>2, <2>1
  <2>2. CASE ~(j <= m)
    <3>1. j - m \in DOMAIN b /\ q[j] = b[j - m]
      BY <1>1, <1>2, <2>2
    <3> QED BY <3>1
  <2> QED BY <2>1, <2>2
<1>5. ASSUME NEW j \in DOMAIN a
      PROVE  \E k \in DOMAIN q : q[k] = a[j]
  <2>1. j \in DOMAIN q /\ q[j] = a[j]
    BY <1>1, <1>2
  <2> QED BY <2>1
<1>6. ASSUME NEW j \in DOMAIN b
      PROVE  \E k \in DOMAIN q : q[k] = b[j]
  <2>1. j + m \in 1..(m + n) /\ ~(j + m <= m) /\ (j + m) - m = j
    BY <1>1
  <2>2. q[j + m] = b[j]
    BY <1>2, <2>1
  <2> QED BY <1>2, <2>1, <2>2
<1>7. Joined(q, a, b)
  BY <1>3, <1>4, <1>5, <1>6 DEF Joined
<1> QED BY <1>0, <1>7

(* Once everything is asked for again, all that is due is brought.         *)
LEMMA AskedIsTracked ==
    ASSUME NEW ts, NEW G, NEW sh, NEW st, NEW d, NEW tb,
           \A v \in Due(st, d, tb) : \E j \in DOMAIN ts : Carries(ts[j], v, d)
    PROVE  Tracked(ts, G, sh, st, d, tb)
<1>1. ASSUME NEW v \in Due(st, d, tb), NEW a
      PROVE  Owed(v, a, ts, G, d)
  <2>1. PICK j \in DOMAIN ts : Carries(ts[j], v, d)
    OBVIOUS
  <2>2. Brings(ts[j], v, a, G, d)
    BY <2>1 DEF Carries, Brings, Got
  <2> QED BY <2>2 DEF Owed
<1> QED BY <1>1 DEF Tracked, TrackedView

(* An event: whatever it says, all that is due is asked for again.         *)
LEMMA onEventShows ==
    ASSUME FormsInv, ViewsInv, onEvent
    PROVE  ViewsInv'
<1>1. PICK panels : panels = SetToSeq(Panels)
  OBVIOUS
<1>2. PICK refresh : refresh = Call(Refresh, None, None)
  OBVIOUS
<1>3. PICK listed : listed = [j \in DOMAIN panels |-> Call(<<panels[j]>>, None, None)]
  OBVIOUS
<1>4. PICK last : last = IF detail = None THEN <<>> ELSE <<Call(<<"activity">>, detail, None)>>
  OBVIOUS
<1>5. PICK loads : loads = <<refresh>> \o listed \o last
  OBVIOUS
<1>6. tasks' = tasks \o loads /\ wire # <<>> /\ receive /\ SameWindow
  BY <1>1, <1>2, <1>3, <1>4, <1>5 DEF onEvent, SameWindow, shown, windowHistory
<1>7. StreamInv' /\ now' = now
  BY <1>6, receiveTells DEF ViewsInv
<1>8. panels \in Seq(Panels) /\ \A v \in Panels : \E j \in DOMAIN panels : panels[j] = v
  BY <1>1, PanelsListed
<1>9. Tasks(listed) /\ Tasks(last)
  <2>1. DOMAIN listed = 1..Len(panels) /\ Len(panels) \in Nat
    BY <1>3, <1>8
  <2>2. listed \in [1..Len(panels) -> Range(listed)]
    BY <1>3, <2>1 DEF Range
  <2>3. listed \in Seq(Range(listed))
    BY <2>1, <2>2
  <2>4. last \in Seq(Range(last))
    <3>1. CASE detail = None
      BY <1>4, <3>1
    <3>2. CASE detail # None
      <4>1. PICK c : c = Call(<<"activity">>, detail, None)
        OBVIOUS
      <4>2. last = <<c>>
        BY <1>4, <3>2, <4>1
      <4>3. Range(last) = {c}
        BY <4>2 DEF Range
      <4> QED BY <4>2, <4>3
    <3> QED BY <3>1, <3>2
  <2> QED BY <2>3, <2>4 DEF Tasks
<1>10. ASSUME NEW c, c = refresh \/ (\E k \in DOMAIN listed : c = listed[k]) \/ (\E k \in DOMAIN last : c = last[k])
       PROVE  c.ans = None
  <2>1. CASE c = refresh
    BY <1>2, <2>1 DEF Call
  <2>2. CASE \E k \in DOMAIN listed : c = listed[k]
    BY <1>3, <2>2 DEF Call
  <2>3. CASE \E k \in DOMAIN last : c = last[k]
    BY <1>4, <2>3 DEF Call
  <2> QED BY <1>10, <2>1, <2>2, <2>3
<1>11. PICK two : two = <<refresh>> \o listed
  OBVIOUS
<1>12. /\ Tasks(two)
       /\ \A j \in DOMAIN two : two[j] = refresh \/ \E k \in DOMAIN listed : two[j] = listed[k]
       /\ \E j \in DOMAIN two : two[j] = refresh
       /\ \A k \in DOMAIN listed : \E j \in DOMAIN two : two[j] = listed[k]
  <2>1. PICK one : one = <<refresh>>
    OBVIOUS
  <2>2. DOMAIN one = {1} /\ one[1] = refresh
    BY <2>1
  <2>3. Tasks(one)
    <3>1. Range(one) = {refresh}
      BY <2>2 DEF Range
    <3> QED BY <2>1, <3>1 DEF Tasks
  <2>4. two = one \o listed
    BY <1>11, <2>1
  <2>5. Joined(two, one, listed)
    BY <1>9, <2>3, <2>4, JoinedTasks, Zenon
  <2> QED BY <2>2, <2>5 DEF Joined
<1>13. loads = two \o last
  BY <1>5, <1>11
<1>14. /\ Tasks(loads)
       /\ \A j \in DOMAIN loads : loads[j].ans = None
       /\ \E j \in DOMAIN loads : loads[j] = refresh
       /\ \A k \in DOMAIN listed : \E j \in DOMAIN loads : loads[j] = listed[k]
       /\ \A k \in DOMAIN last : \E j \in DOMAIN loads : loads[j] = last[k]
  <2>1. Joined(loads, two, last)
    BY <1>9, <1>12, <1>13, JoinedTasks, Zenon
  <2> QED BY <1>10, <1>12, <2>1 DEF Joined
<1>15. /\ \A j \in DOMAIN tasks' : \/ j \in DOMAIN tasks /\ tasks'[j] = tasks[j]
                                   \/ \E k \in DOMAIN loads : tasks'[j] = loads[k]
       /\ \A j \in DOMAIN loads : \E k \in DOMAIN tasks' : tasks'[k] = loads[j]
  <2>1. Tasks(tasks)
    BY FormsGive
  <2>2. tasks' = tasks \o loads /\ Tasks(loads)
    BY <1>6, <1>14
  <2>3. PICK t : t = tasks'
    OBVIOUS
  <2>4. t = tasks \o loads
    BY <2>2, <2>3
  <2>5. Joined(t, tasks, loads)
    BY <2>1, <2>2, <2>4, JoinedTasks, Zenon
  <2> QED BY <2>3, <2>5 DEF Joined
<1>16. Dated(tasks', now')
  <2>1. Dated(tasks, now)
    BY DEF ViewsInv
  <2> QED BY <1>7, <1>14, <1>15, <2>1 DEF Dated, Got
<1>17. ASSUME NEW v \in Due(stale', detail', tab')
       PROVE  \E j \in DOMAIN tasks' : Carries(tasks'[j], v, detail')
  <2>1. v \in {"issues", "board", "activity"} \cup Panels /\ (v = "activity" => detail # None) /\ detail' = detail
    BY <1>6 DEF Due, SameWindow
  <2>2. CASE v \in {"issues", "board"}
    <3>1. refresh.todo = <<"issues", "board">> /\ refresh.ans = None
      BY <1>2 DEF Call, Refresh
    <3>2. Carries(refresh, v, detail)
      <4>1. CASE v = "issues"
        BY <3>1, <4>1 DEF Carries, About
      <4>2. CASE v = "board"
        <5>1. Head(refresh.todo) = "issues" /\ 2 \in DOMAIN refresh.todo /\ refresh.todo[2] = "board"
          BY <3>1
        <5> QED BY <4>2, <5>1 DEF Carries, AsksFor, Loaders, Views
      <4> QED BY <2>2, <4>1, <4>2
    <3> QED BY <1>14, <1>15, <2>1, <3>2
  <2>3. CASE v \in Panels
    <3>1. PICK k \in DOMAIN panels : panels[k] = v
      BY <1>8, <2>3
    <3>2. k \in DOMAIN listed /\ listed[k] = Call(<<v>>, None, None)
      BY <1>3, <3>1
    <3>3. PICK c : c = Call(<<v>>, None, None)
      OBVIOUS
    <3>4. c.todo = <<v>> /\ c.ans = None /\ v # "activity" /\ Head(<<v>>) = v
      BY <2>3, <3>3, PanelsAssumption DEF Call
    <3>5. Carries(c, v, detail)
      BY <3>4 DEF Carries, About
    <3> QED BY <1>14, <1>15, <2>1, <3>2, <3>3, <3>5
  <2>4. CASE v = "activity"
    <3>1. PICK c : c = Call(<<"activity">>, detail, None)
      OBVIOUS
    <3>2. c.todo = <<"activity">> /\ c.on = detail /\ c.ans = None /\ Head(<<"activity">>) = "activity"
      BY <3>1 DEF Call
    <3>3. Carries(c, v, detail)
      BY <2>4, <3>2 DEF Carries, About
    <3>4. last = <<c>>
      BY <1>4, <2>1, <2>4, <3>1
    <3>5. 1 \in DOMAIN last /\ last[1] = c
      BY <3>4
    <3> QED BY <1>14, <1>15, <2>1, <3>3, <3>5
  <2> QED BY <2>1, <2>2, <2>3, <2>4
<1>18. Tracked(tasks', Goods', shows', stale', detail', tab')
  BY <1>17, AskedIsTracked
<1>19. Shown(shows', now')
  BY <1>6, <1>7 DEF ViewsInv, SameWindow
<1> QED BY <1>7, <1>16, <1>18, <1>19 DEF ViewsInv

-----------------------------------------------------------------------------
(* The window is being opened.                                             *)
LEMMA InitShows ==
    ASSUME Init
    PROVE  ViewsInv
<1>1. PICK s \in Scenarios :
          /\ epoch = 1 /\ seq = 0 /\ buffer = <<>> /\ wire = <<>> /\ now = 0 /\ gap = 0
          /\ source = s.source /\ tasks = s.tasks
          /\ shows = [v \in Views |-> IF s.page = "board" THEN 0 ELSE -1]
  BY DEF Init
<1>2. /\ s.tasks \in {<<>>, <<Call(<<"me">> \o Everything, None, None)>>}
      /\ s.source = None \/
           s.source \in [which: Int, state: {"connecting", "open"},
                        id: {None, [epoch |-> 1, seq |-> 0]}]
  BY ScenariosAssumption
<1>3. Shown(shows, now)
  BY <1>1 DEF Shown
<1>4. Dated(tasks, now)
  <2>1. CASE tasks = <<>>
    BY <2>1 DEF Dated
  <2>2. CASE tasks # <<>>
    <3>1. PICK c : c = Call(<<"me">> \o Everything, None, None)
      OBVIOUS
    <3>2. tasks = <<c>> /\ c.ans = None
      BY <1>1, <1>2, <2>2, <3>1 DEF Call
    <3>3. \A j \in DOMAIN tasks : tasks[j] = c
      BY <3>2
    <3> QED BY <3>2, <3>3 DEF Dated, Got
  <2> QED BY <2>1, <2>2
<1>5. source # None =>
          /\ source = [which |-> source.which, state |-> source.state, id |-> source.id]
          /\ source.which \in Int /\ source.state \in {"connecting", "open", "refused"}
          /\ source.id \in {None, [epoch |-> 1, seq |-> 0]}
  BY <1>1, <1>2
<1>6. [epoch |-> 1, seq |-> 0] = Event(seq) /\ Position(Event(seq))
  BY <1>1 DEF Event, Position
<1>7. Rising(buffer, seq) /\ Sent(wire)
  BY <1>1, NothingRises DEF Sent
<1>8. StreamInv
  <2>1. source # None /\ source.id # None => source.id = Event(seq) /\ Position(source.id)
    BY <1>5, <1>6
  <2>2. /\ epoch \in Nat /\ seq \in Nat /\ now \in Int /\ gap \in Int /\ gap <= now /\ seq = 0
        /\ wire = <<>>
    BY <1>1
  <2> QED BY <1>5, <1>7, <2>1, <2>2 DEF StreamInv, Attached
<1>9. ASSUME source # None
      PROVE  Tracked(tasks, Goods, shows, stale, detail, tab)
  <2>1. \A a \in Int : a <= now => a \in Goods
    BY <1>1 DEF Goods
  <2>2. ASSUME NEW v \in Due(stale, detail, tab)
        PROVE  TrackedView(v, tasks, Goods, shows[v], detail)
    <3>1. shows[v] \in Int /\ shows[v] <= now
      BY <1>3, DueViews DEF Shown
    <3> QED BY <1>4, <2>1, <3>1 DEF TrackedView, Owed, Dated
  <2> QED BY <2>2 DEF Tracked
<1> QED BY <1>3, <1>4, <1>8, <1>9 DEF ViewsInv

(* Every step.                                                             *)
LEMMA StepShows == FormsInv /\ ViewsInv /\ [Next]_vars => ViewsInv'
<1> SUFFICES ASSUME FormsInv, ViewsInv, [Next]_vars
             PROVE  ViewsInv'
  OBVIOUS
<1>1. CASE UNCHANGED vars
  <2>1. UNCHANGED streamVars /\ tasks' = tasks /\ Aside
    BY <1>1 DEF vars, windowVars, shown, windowHistory, Aside
  <2> QED BY <2>1, IdleShows
<1>2. ASSUME NEW i \in DOMAIN tasks, Server(i)
      PROVE  ViewsInv'
  BY <1>2, ServerShows
<1>3. ASSUME NEW i \in DOMAIN tasks, Land(i)
      PROVE  ViewsInv'
  BY <1>3, WindowLandsShows, issuesLandShows, boardLandsShows, panelLandsShows,
     activityLandsShows, assignLandsShows, assignableLandsShows, FormLandsShows DEF Land
<1>4. CASE Connect \/ onEvent
  BY <1>4, ConnectShows, onEventShows
<1>5. CASE Person
  BY <1>5, PersonShows
<1>6. CASE Fault
  BY <1>6, FaultShows
<1> QED BY <1>1, <1>2, <1>3, <1>4, <1>5, <1>6 DEF Next, System

(* A window at rest is owed nothing: every view that is due was loaded from*)
(* the board as it is, or from one before the gap.                         *)
LEMMA ShownIsExplained == ViewsInv => StaleViewsAreExplained
<1> SUFFICES ASSUME ViewsInv, tasks = <<>>, Attached, wire = <<>>,
                    NEW v \in ({"issues", "board", "activity"} \cup Panels) \ stale
             PROVE  \/ shows[v] = now \/ shows[v] < gap
                    \/ v = "activity" /\ detail = None
                    \/ v = "board" /\ tab # "board"
  BY DEF StaleViewsAreExplained
<1>1. source # None /\ ~Told
  BY DEF Attached, ViewsInv, StreamInv, Told
<1>2. CASE v \in Due(stale, detail, tab)
  <2>1. Owed(v, shows[v], tasks, Goods, detail)
    BY <1>1, <1>2 DEF ViewsInv, Tracked, TrackedView
  <2>2. shows[v] \in Goods
    BY <2>1 DEF Owed
  <2> QED BY <1>1, <2>2 DEF Goods
<1>3. CASE v \notin Due(stale, detail, tab)
  BY <1>3 DEF Due
<1> QED BY <1>2, <1>3

(* Whatever connections are cut, processes restarted and answers lost or   *)
(* overtaken: a window at rest shows the board as it is, unless a load has *)
(* failed or the source had no position when the change was made.          *)
THEOREM ViewsAreExplained == Spec => []StaleViewsAreExplained
<1>1. Init => ViewsInv
  BY InitShows
<1>2. FormsInv /\ ViewsInv /\ [Next]_vars => ViewsInv'
  BY StepShows
<1>3. Spec => []FormsInv
  BY FormsInvariant
<1> QED BY <1>1, <1>2, <1>3, ShownIsExplained, PTL DEF Spec
=============================================================================
