---------------------------- MODULE ClonesProofs ----------------------------
(***************************************************************************)
(* Proofs about Clones, for every set of clones and comments, every board  *)
(* to begin with and every number of issues and keys: keys settle alike    *)
(* everywhere, the older issue keeps its key, and what a comment's log was *)
(* acknowledged to hold it holds.                                          *)
(***************************************************************************)
EXTENDS Clones, FiniteSetTheorems, SequenceTheorems, TLAPS

-----------------------------------------------------------------------------
(* Files.  A place holds the versions of its file; the issues of a store   *)
(* are those that any of its versions is of.                               *)

ShownRows == [state: {"none", "OK", "INVALID"}, file: IssueFiles \cup {None}]
Conflicts == [ours: IssueFiles, theirs: IssueFiles]
FileContents == IssueFiles \cup Conflicts \cup {None}
GitTrees == [issues: [Places -> FileContents], bodies: [NoteIds -> Nat \cup {None}],
             logs: [NoteIds -> Logs]]
Rekeys == [uid: Uids, path: Places, from: Nat, to: Nat]
OpWrites == [note: NoteIds, id: Nat, log: Logs]
Moves == [uid: Uids, from: Nat, to: Nat, of: SUBSET (Uids \X Nat)]

Branches ==
    /\ Sound
    /\ tree \in [Clone -> GitTrees] /\ base \in [Clone -> GitTrees] /\ origin \in GitTrees
    /\ Settled(origin) /\ \A k \in Clone : Settled(base[k])
    /\ \A k \in Clone, p \in Places : base[k].issues[p] # None =>
           tree[k].issues[p] # None /\ origin.issues[p] # None

Tables ==
    /\ rows \in [Clone -> [Places -> ShownRows]]
    /\ \A k \in Clone, p \in Places : rows[k][p].state = "OK" => rows[k][p].file # None
    /\ plan \in [Clone -> Seq(Rekeys)]
    /\ writes \in [Clone -> Seq(OpWrites)]
    /\ due \subseteq Clone /\ crossed \subseteq Clone
    /\ had \in [Clone -> [Uids -> SUBSET Nat]]
    /\ muddled \subseteq Uids
    /\ seen \in [Clone -> SUBSET (Uids \X Nat)]
    /\ moves \subseteq Moves
    /\ raced \subseteq NoteIds
    /\ spent \in [Kinds -> Nat]

Stores == {tree[k] : k \in Clone} \cup {base[k] : k \in Clone} \cup {origin}
Of(s, p) == Uid(s.issues[p])
Inhabitants(s) == UNION {Of(s, p) : p \in Places}
Solo(f) == {u \in Uid(f) : Uid(f) = {u}}

(* An issue stays at its number, and is alone there with its file.         *)
Homed ==
    \A s, t \in Stores, p, q \in Places : Of(s, p) \cap Of(t, q) # {} => p[1] = q[1]
Alone(s) ==
    \A p, q \in Places : p # q => Solo(s.issues[p]) \cap Solo(s.issues[q]) = {}
NoTwins == \A s \in Stores : Alone(s)

(* What two clones know came through the branch.                           *)
Travelled ==
    /\ \A k \in Clone :
          /\ Inhabitants(base[k]) \subseteq Inhabitants(origin)
          /\ Inhabitants(base[k]) \subseteq Inhabitants(tree[k])
          /\ Inhabitants(origin) \cap Inhabitants(tree[k]) \subseteq Inhabitants(base[k])
    /\ \A j, k \in Clone : j # k =>
          Inhabitants(tree[j]) \cap Inhabitants(tree[k]) \subseteq Inhabitants(origin)

Housed == Branches /\ Homed /\ NoTwins /\ Travelled

Met == {u \in Uids : \E k \in Clone : had[k][u] # {}}
Numbered ==
    /\ \E n \in 0..MaxUid : Met = 1..n
    /\ \A k \in Clone, u \in Uids : u \in Inhabitants(tree[k]) <=> had[k][u] # {}
    /\ Inhabitants(origin) \subseteq Met

(* Versions get older, never younger: a later one has the keys an earlier  *)
(* one had.                                                                *)
KeysOf(f) == {f.key} \cup f.former
Distinct(f) == \A g, h \in Versions(f) : g.uid = h.uid => g = h
Outgrown(s, t, M) ==
    \A p, q \in Places : \A f \in Versions(s.issues[p]), g \in Versions(t.issues[q]) :
        Distinct(t.issues[q]) /\ f.uid = g.uid /\ f.uid \notin M => KeysOf(f) \subseteq KeysOf(g)
Remembers(s, h, M) ==
    \A p \in Places : \A g \in Versions(s.issues[p]) :
        Distinct(s.issues[p]) /\ g.uid \notin M => h[g.uid] \subseteq KeysOf(g)
Once(s, M) == \A p, q \in Places : p # q => Of(s, p) \cap Of(s, q) \subseteq M
Remembering ==
    \A k \in Clone :
        /\ Once(tree[k], muddled)
        /\ Outgrown(base[k], tree[k], muddled) /\ Outgrown(base[k], origin, muddled)
        /\ Remembers(tree[k], had[k], muddled)

(* The plan, and what each entry of it still relies on.                    *)
ShownIn(is) == {p \in Places : Readable(is[p])}
ReadsIn(is, rw) ==
    \A p \in Places :
        IF p \in ShownIn(is) THEN rw[p] = [state |-> "OK", file |-> is[p]]
        ELSE rw[p].state # "OK"
FitsAt(is, pl, i) ==
    LET r == pl[i]
    IN /\ r.path \in ShownIn(is) /\ is[r.path].uid = r.uid /\ is[r.path].key = r.from
       /\ \E q \in ShownIn(is) : is[q].uid < r.uid /\ r.from \in KeysOf(is[q])
       /\ \A p \in ShownIn(is) : is[p].key < r.to
       /\ \A j \in 1..Len(pl) : i < j => pl[j].path # r.path /\ r.to < pl[j].to
Fitting(is, pl) ==
    /\ \A i \in 1..Len(pl) : FitsAt(is, pl, i)
    /\ \A p, q \in ShownIn(is) : p # q /\ is[p].key = is[q].key =>
          \E i \in 1..Len(pl) : pl[i].path \in {p, q}
PlannedAt(k, is, rw, pl, D, X) ==
    /\ k \notin D \/ (k \notin X /\ pl # <<>>) => ReadsIn(is, rw)
    /\ k \notin X /\ (k \notin D \/ pl # <<>>) => Fitting(is, pl)
    /\ \A i \in 1..Len(pl) : is[pl[i].path] # None
Planned == \A k \in Clone : PlannedAt(k, tree[k].issues, rows[k], plan[k], due, crossed)

(* Logs.                                                                   *)
Ids(log) == {line.id : line \in Range(log.lines) \cup Range(log.theirs)}
QueuedFor(k, c) == {i \in 1..Len(writes[k]) : writes[k][i].note = c}
Logged ==
    /\ \A c \in NoteIds \ raced :
          /\ \A k \in Clone :
                /\ Ids(base[k].logs[c]) \subseteq Ids(tree[k].logs[c])
                /\ Ids(base[k].logs[c]) \subseteq Ids(origin.logs[c])
                /\ \A i \in QueuedFor(k, c) :
                      /\ Ids(tree[k].logs[c]) \subseteq Ids(writes[k][i].log)
                      /\ -writes[k][i].id \in Ids(writes[k][i].log)
                      /\ \A j \in QueuedFor(k, c) : i = j
    /\ \A a \in acked : /\ a.at \in Clone /\ a.note \in NoteIds
                        /\ a.note \notin raced => a.id \in Ids(tree[a.at].logs[a.note])

(* Rekeys.                                                                 *)
Pairs(is) == {<<is[p].uid, is[p].key>> : p \in ShownIn(is)}
Beaten(S) == {c \in S : \E d \in S : d[2] = c[2] /\ d[1] < c[1]}
Before(c, d) == c[2] < d[2] \/ (c[2] = d[2] /\ c[1] < d[1])
Turn(S, c) == Cardinality({d \in Beaten(S) : Before(d, c)}) + 1
LastKey(S) == highest({c[2] : c \in S})
After(S, i) == {IF c \in Beaten(S) /\ Turn(S, c) <= i THEN <<c[1], LastKey(S) + Turn(S, c)>> ELSE c :
                   c \in S}
Steady(k) ==
    seen[k] # {} =>
    LET S == seen[k] IN
        /\ k \notin crossed
        /\ \A c, d \in S : c[1] = d[1] => c = d
        /\ \E i \in 0..Cardinality(Beaten(S)) :
              /\ Pairs(tree[k].issues) = After(S, i)
              /\ plan[k] # <<>> => Len(plan[k]) = Cardinality(Beaten(S)) - i
              /\ \A j \in 1..Len(plan[k]) : \E c \in Beaten(S) :
                    /\ Turn(S, c) = i + j /\ plan[k][j].uid = c[1]
                    /\ plan[k][j].to = LastKey(S) + i + j
Destined ==
    \A m \in moves : m.of # {} =>
        /\ \A c, d \in m.of : c[1] = d[1] => c = d
        /\ \E c \in Beaten(m.of) : m.uid = c[1] /\ m.to = LastKey(m.of) + Turn(m.of, c)
-----------------------------------------------------------------------------
(* Counting.                                                               *)


(* Whoever is counted by how many come before has a place of his own.      *)
StrictOrder(L, R) ==
    /\ \A x \in L : <<x, x>> \notin R
    /\ \A x, y \in L : x # y => <<x, y>> \in R \/ <<y, x>> \in R
    /\ \A x, y, z \in L : <<x, y>> \in R /\ <<y, z>> \in R => <<x, z>> \in R
Counts(L, R, B, T) ==
    /\ B \in [L -> SUBSET L] /\ \A c, d \in L : d \in B[c] <=> <<d, c>> \in R
    /\ T = [c \in L |-> T[c]] /\ \A c \in L : T[c] = Cardinality(B[c]) + 1
RanksThem(L, R, T) ==
    /\ T \in [L -> 1..Cardinality(L)]
    /\ \A x, y \in L : T[x] = T[y] => x = y
    /\ \A x, y \in L : T[x] < T[y] <=> <<x, y>> \in R
    /\ \A i \in 1..Cardinality(L) : \E x \in L : T[x] = i

LEMMA Ranking ==
    ASSUME NEW L, IsFiniteSet(L), NEW R, StrictOrder(L, R), NEW B, NEW T, Counts(L, R, B, T)
    PROVE  Cardinality(L) \in Nat /\ RanksThem(L, R, T)
<1> DEFINE A(c) == B[c]
           n == Cardinality(L)
<1>1. n \in Nat
  BY FS_CardinalityType
<1>2. ASSUME NEW c \in L
      PROVE  IsFiniteSet(A(c)) /\ Cardinality(A(c)) \in 0..(n - 1)
  <2>1. IsFiniteSet(L \ {c}) /\ Cardinality(L \ {c}) = n - 1
    BY FS_RemoveElement
  <2>2. A(c) \in SUBSET (L \ {c})
    BY DEF StrictOrder, Counts
  <2>5. PICK M : M = L \ {c}
    OBVIOUS
  <2> HIDE DEF A, n
  <2>6. IsFiniteSet(M) /\ A(c) \in SUBSET M
    BY <2>1, <2>2, <2>5
  <2>7. IsFiniteSet(A(c)) /\ Cardinality(A(c)) <= Cardinality(M)
    BY <2>6, FS_Subset
  <2>3. IsFiniteSet(A(c)) /\ Cardinality(A(c)) <= n - 1
    BY <2>1, <2>5, <2>7
  <2>4. Cardinality(A(c)) \in Nat
    BY <2>3, FS_CardinalityType
  <2> QED BY <1>1, <2>3, <2>4
<1>3. ASSUME NEW x \in L, NEW y \in L, <<x, y>> \in R
      PROVE  Cardinality(A(x)) < Cardinality(A(y))
  <2>1. A(x) \cup {x} \in SUBSET A(y) /\ x \notin A(x)
    BY <1>3 DEF StrictOrder, Counts
  <2>2. IsFiniteSet(A(x)) /\ IsFiniteSet(A(y)) /\ Cardinality(A(x)) \in Nat
        /\ Cardinality(A(y)) \in Nat
    BY <1>1, <1>2
  <2> HIDE DEF A
  <2>3. Cardinality(A(x) \cup {x}) = Cardinality(A(x)) + 1
    BY <2>1, <2>2, FS_AddElement
  <2>4. Cardinality(A(x) \cup {x}) <= Cardinality(A(y))
    BY <2>1, <2>2, FS_Subset
  <2> QED BY <2>2, <2>3, <2>4
<1>4. \A c \in L : T[c] = Cardinality(A(c)) + 1
  BY DEF Counts
<1>5. T \in [L -> 1..n]
  <2>2. T = [c \in L |-> T[c]]
    BY DEF Counts
  <2> HIDE DEF A, n
  <2>1. \A c \in L : Cardinality(A(c)) + 1 \in 1..n
    BY <1>1, <1>2
  <2> QED BY <1>4, <2>1, <2>2
<1>6. \A x, y \in L : <<x, y>> \in R => T[x] < T[y]
  <2> SUFFICES ASSUME NEW x \in L, NEW y \in L, <<x, y>> \in R
               PROVE  T[x] < T[y]
    OBVIOUS
  <2>1. Cardinality(A(x)) < Cardinality(A(y))
    BY <1>3
  <2> HIDE DEF A
  <2>2. Cardinality(A(x)) \in Int /\ Cardinality(A(y)) \in Int
    BY <1>1, <1>2
  <2> QED BY <1>4, <2>1, <2>2
<1>7. \A x, y \in L : T[x] \in Int /\ T[y] \in Int
  BY <1>1, <1>5
<1> HIDE DEF A
<1>11. ASSUME NEW x \in L, NEW y \in L
       PROVE  /\ T[x] = T[y] => x = y
              /\ T[x] < T[y] <=> <<x, y>> \in R
  <2>1. T[x] \in Int /\ T[y] \in Int
    BY <1>7
  <2>2. <<x, y>> \in R => T[x] < T[y]
    BY <1>6
  <2>3. <<y, x>> \in R => T[y] < T[x]
    BY <1>6
  <2>4. x = y \/ <<x, y>> \in R \/ <<y, x>> \in R
    BY DEF StrictOrder
  <2>5. PICK a, b : a = T[x] /\ b = T[y]
    OBVIOUS
  <2>6. /\ a \in Int /\ b \in Int
        /\ <<x, y>> \in R => a < b
        /\ <<y, x>> \in R => b < a
        /\ x = y => a = b
    BY <2>1, <2>2, <2>3, <2>5
  <2>7. /\ a = b => x = y
        /\ a < b <=> <<x, y>> \in R
    BY <2>4, <2>6
  <2> QED BY <2>5, <2>7
<1>8. \A x, y \in L : T[x] = T[y] => x = y
  BY <1>11
<1>9. \A x, y \in L : T[x] < T[y] <=> <<x, y>> \in R
  BY <1>11
<1>10. \A i \in 1..n : \E x \in L : T[x] = i
  <2>1. IsFiniteSet(1..n) /\ Cardinality(1..n) = n
    BY <1>1, FS_Interval
  <2>2. T \in Injection(L, 1..n)
    BY <1>5, <1>8 DEF Injection, IsInjective
  <2>3. T \in Surjection(L, 1..n)
    BY <2>1, <2>2, FS_Injection
  <2> QED BY <2>3 DEF Surjection
<1> HIDE DEF n
<1> QED BY <1>1, <1>5, <1>8, <1>9, <1>10 DEF n, RanksThem

LEMMA HighestIsThere ==
    ASSUME NEW N \in SUBSET Nat, IsFiniteSet(N)
    PROVE  /\ highest(N) \in Nat
           /\ highest(N) \in N \cup {0}
           /\ \A x \in N : x <= highest(N)
<1> DEFINE L == N \cup {0}
           R == {e \in L \X L : e[1] < e[2]}
<1>1. IsFiniteSet(L)
  BY FS_AddElement
<1>2. \A x, y \in L : <<x, y>> \in R <=> x < y
  OBVIOUS
<1>3. L \subseteq Nat /\ 0 \in L
  OBVIOUS
<1>14. PICK B : B = [c \in L |-> {d \in L : <<d, c>> \in R}]
  OBVIOUS
<1>4. PICK T : T = [c \in L |-> Cardinality(B[c]) + 1]
  OBVIOUS
<1> HIDE DEF L, R
<1>15. Counts(L, R, B, T)
  BY <1>4, <1>14 DEF Counts
<1>5. StrictOrder(L, R)
  BY <1>2, <1>3 DEF StrictOrder
<1>6. /\ Cardinality(L) \in Nat
      /\ T \in [L -> 1..Cardinality(L)]
      /\ \A x, y \in L : T[x] = T[y] => x = y
      /\ \A x, y \in L : T[x] < T[y] <=> <<x, y>> \in R
      /\ \A i \in 1..Cardinality(L) : \E x \in L : T[x] = i
  BY <1>1, <1>5, <1>15, Ranking DEF RanksThem
<1>7. PICK m \in L : T[m] = Cardinality(L)
  <2>1. T[0] \in 1..Cardinality(L)
    BY <1>3, <1>6
  <2>2. Cardinality(L) \in 1..Cardinality(L)
    BY <1>6, <2>1
  <2> QED BY <1>6, <2>2
<1>8. ASSUME NEW y \in L
      PROVE  m >= y
  <2>1. T[y] \in 1..Cardinality(L) /\ Cardinality(L) \in Nat
    BY <1>6
  <2>2. ~(T[m] < T[y])
    BY <1>7, <2>1
  <2>3. ~(m < y)
    BY <1>2, <1>6, <2>2
  <2> QED BY <1>3, <2>3
<1>9. highest(N) = Max(L)
  BY DEF highest, L
<1>10. highest(N) \in L /\ \A y \in L : highest(N) >= y
  BY <1>8, <1>9 DEF Max
<1> QED BY <1>3, <1>10 DEF L

-----------------------------------------------------------------------------
(* The plan: every loser has its turn, and gets a number nobody had.       *)

Sooner(c, d) == c.key < d.key \/ (c.key = d.key /\ c.uid < d.uid)
Position(C, c) == Cardinality({d \in Losers(C) : Sooner(d, c)}) + 1
LastOf(C) == highest({c.key : c \in C})

Numbers(C) ==
    /\ IsFiniteSet(C)
    /\ \A c \in C : c.uid \in Nat /\ c.key \in Nat
    /\ \A c, d \in C : c.uid = d.uid => c = d

LEMMA LosersTakeTurns ==
    ASSUME NEW C, Numbers(C), NEW L, L = Losers(C), NEW n, n = Cardinality(L)
    PROVE  /\ IsFiniteSet(L) /\ n \in Nat
           /\ \A c \in L : Position(C, c) \in 1..n
           /\ \A c, d \in L : Position(C, c) = Position(C, d) => c = d
           /\ \A c, d \in L : Position(C, c) < Position(C, d) <=> Sooner(c, d)
           /\ \A i \in 1..n : \E c \in L : Position(C, c) = i
<1>1. L \in SUBSET C
  BY DEF Losers
<1>2. IsFiniteSet(L)
  BY <1>1, FS_Subset DEF Numbers
<1>3. PICK R : R = {e \in L \X L : Sooner(e[1], e[2])}
  OBVIOUS
<1>4. \A x, y \in L : <<x, y>> \in R <=> Sooner(x, y)
  BY <1>3
<1>5. \A x, y \in L : x.uid \in Nat /\ x.key \in Nat /\ (x.uid = y.uid => x = y)
  BY <1>1 DEF Numbers
<1>6. StrictOrder(L, R)
  <2>1. \A x \in L : <<x, x>> \notin R
    BY <1>4, <1>5 DEF Sooner
  <2>2. ASSUME NEW x \in L, NEW y \in L, x # y
        PROVE  <<x, y>> \in R \/ <<y, x>> \in R
    <3>1. x.uid # y.uid /\ x.uid \in Nat /\ y.uid \in Nat /\ x.key \in Nat /\ y.key \in Nat
      BY <1>5, <2>2
    <3>2. Sooner(x, y) \/ Sooner(y, x)
      BY <3>1 DEF Sooner
    <3> QED BY <1>4, <3>2
  <2>3. ASSUME NEW x \in L, NEW y \in L, NEW z \in L, <<x, y>> \in R, <<y, z>> \in R
        PROVE  <<x, z>> \in R
    <3>1. Sooner(x, y) /\ Sooner(y, z)
      BY <1>4, <2>3
    <3>2. /\ x.uid \in Nat /\ y.uid \in Nat /\ z.uid \in Nat
          /\ x.key \in Nat /\ y.key \in Nat /\ z.key \in Nat
      BY <1>5
    <3>3. Sooner(x, z)
      BY <3>1, <3>2 DEF Sooner
    <3> QED BY <1>4, <3>3
  <2> QED BY <2>1, <2>2, <2>3 DEF StrictOrder
<1>10. PICK B : B = [c \in L |-> {d \in L : <<d, c>> \in R}]
  OBVIOUS
<1>7. PICK T : T = [c \in L |-> Cardinality(B[c]) + 1]
  OBVIOUS
<1>11. Counts(L, R, B, T)
  BY <1>7, <1>10 DEF Counts
<1>8. ASSUME NEW c \in L
      PROVE  T[c] = Position(C, c)
  <2>1. B[c] = {d \in L : Sooner(d, c)}
    BY <1>4, <1>10
  <2> QED BY <1>7, <2>1 DEF Position
<1>9. /\ n \in Nat
      /\ T \in [L -> 1..n]
      /\ \A x, y \in L : T[x] = T[y] => x = y
      /\ \A x, y \in L : T[x] < T[y] <=> <<x, y>> \in R
      /\ \A i \in 1..n : \E x \in L : T[x] = i
  BY <1>2, <1>6, <1>11, Ranking DEF RanksThem
<1>12. ASSUME NEW c \in L, NEW d \in L
       PROVE  /\ Position(C, c) \in 1..n
              /\ Position(C, c) = Position(C, d) => c = d
              /\ Position(C, c) < Position(C, d) <=> Sooner(c, d)
  <2>1. T[c] = Position(C, c) /\ T[d] = Position(C, d)
    BY <1>8
  <2>2. T[c] \in 1..n /\ (T[c] = T[d] => c = d) /\ (T[c] < T[d] <=> <<c, d>> \in R)
    BY <1>9
  <2>3. <<c, d>> \in R <=> Sooner(c, d)
    BY <1>4
  <2> QED BY <2>1, <2>2, <2>3, Zenon
<1>13. \A i \in 1..n : \E c \in L : Position(C, c) = i
  BY <1>8, <1>9
<1> QED BY <1>2, <1>9, <1>12, <1>13

LEMMA PlanIsComplete ==
    ASSUME NEW C, Numbers(C), NEW L, L = Losers(C), NEW n, n = Cardinality(L),
           NEW last, last = LastOf(C), NEW todo, todo = planRekeys(C)
    PROVE  /\ n \in Nat /\ last \in Nat
           /\ \A c \in C : c.key <= last
           /\ todo = [i \in 1..n |-> todo[i]]
           /\ \A i \in 1..n : \E c \in L :
                 /\ Position(C, c) = i
                 /\ todo[i] = [uid |-> c.uid, path |-> c.path, from |-> c.key, to |-> last + i]
           /\ \A c \in L : \E i \in 1..n : Position(C, c) = i /\ todo[i].path = c.path
<1> DEFINE loser(i) == CHOOSE c \in L : Position(C, c) = i
<1>1. /\ n \in Nat
      /\ \A c \in L : Position(C, c) \in 1..n
      /\ \A c, d \in L : Position(C, c) = Position(C, d) => c = d
      /\ \A i \in 1..n : \E c \in L : Position(C, c) = i
  BY LosersTakeTurns
<1>2. last \in Nat /\ \A c \in C : c.key <= last
  <2> DEFINE N == {c.key : c \in C}
  <2>1. N \in SUBSET Nat
    BY DEF Numbers
  <2>2. IsFiniteSet(N)
    <3>1. PICK f : f = [c \in C |-> c.key]
      OBVIOUS
    <3>2. f \in Surjection(C, N)
      BY <3>1 DEF Surjection
    <3>3. IsFiniteSet(C)
      BY DEF Numbers
    <3> HIDE DEF N
    <3> QED BY <3>2, <3>3, FS_Surjection
  <2>3. last = highest(N) /\ \A c \in C : c.key \in N
    BY DEF LastOf
  <2> HIDE DEF N
  <2> QED BY <2>1, <2>2, <2>3, HighestIsThere
<1>3. todo = [i \in 1..n |->
          [uid |-> loser(i).uid, path |-> loser(i).path, from |-> loser(i).key, to |-> last + i]]
  BY DEF planRekeys, Position, Sooner, LastOf
<1>4. ASSUME NEW i \in 1..n
      PROVE  /\ loser(i) \in L /\ Position(C, loser(i)) = i
             /\ todo[i] = [uid |-> loser(i).uid, path |-> loser(i).path,
                           from |-> loser(i).key, to |-> last + i]
  BY <1>1, <1>3
<1> HIDE DEF loser
<1>5. ASSUME NEW c \in L
      PROVE  \E i \in 1..n : Position(C, c) = i /\ todo[i].path = c.path
  <2>1. PICK i \in 1..n : Position(C, c) = i
    BY <1>1
  <2>2. loser(i) = c
    BY <1>1, <1>4, <2>1
  <2>4. todo[i] = [uid |-> loser(i).uid, path |-> loser(i).path,
                   from |-> loser(i).key, to |-> last + i]
    BY <1>4
  <2>3. todo[i].path = c.path
    BY <2>2, <2>4
  <2> QED BY <2>1, <2>3
<1> QED BY <1>1, <1>2, <1>3, <1>4, <1>5

-----------------------------------------------------------------------------
(* What a place holds.                                                     *)

LEMMA VersionsOfFile ==
    ASSUME Sound, NEW f \in FileContents
    PROVE  /\ f = None => Versions(f) = {} /\ ~Readable(f) /\ ~Conflict(f)
           /\ Readable(f) <=> f \in IssueFiles
           /\ Conflict(f) <=> f \in Conflicts
           /\ f \in IssueFiles => Versions(f) = {f} /\ f # None /\ f \notin Conflicts
           /\ f \in Conflicts => Versions(f) = {f.ours, f.theirs} /\ f # None
           /\ Versions(f) \subseteq IssueFiles
<1>1. None \notin IssueFiles /\ None \notin Conflicts
  BY DEF Sound, Conflicts
<1>2. ASSUME f \in IssueFiles
      PROVE  ~Conflict(f) /\ Readable(f)
  BY <1>1, <1>2 DEF Conflict, Readable, IssueFiles
<1>3. ASSUME f \in Conflicts
      PROVE  Conflict(f) /\ ~Readable(f) /\ f.ours \in IssueFiles /\ f.theirs \in IssueFiles
  BY <1>1, <1>3 DEF Conflict, Readable, Conflicts
<1>4. f = None => ~Conflict(f) /\ ~Readable(f)
  BY DEF Conflict, Readable
<1>5. f \in IssueFiles \/ f \in Conflicts \/ f = None
  BY DEF FileContents
<1> QED BY <1>1, <1>2, <1>3, <1>4, <1>5 DEF Versions

Singles(s) == \A p \in Places : s.issues[p] \in IssueFiles \cup {None}

LEMMA SingleFile ==
    ASSUME Sound, NEW f \in IssueFiles \cup {None}
    PROVE  /\ f = None => Uid(f) = {} /\ Solo(f) = {}
           /\ f # None => f \in IssueFiles /\ Uid(f) = {f.uid} /\ Solo(f) = {f.uid}
<1>1. f \in FileContents
  BY DEF FileContents
<1>2. f = None => Versions(f) = {}
  BY <1>1, VersionsOfFile
<1>3. f # None => f \in IssueFiles /\ Versions(f) = {f}
  BY <1>1, VersionsOfFile
<1> QED BY <1>2, <1>3 DEF Uid, Solo

LEMMA ClashFile ==
    ASSUME Sound, NEW f \in Conflicts
    PROVE  /\ Uid(f) = {f.ours.uid, f.theirs.uid}
           /\ f.ours.uid = f.theirs.uid => Solo(f) = {f.ours.uid}
           /\ f.ours.uid # f.theirs.uid => Solo(f) = {}
           /\ f.ours \in IssueFiles /\ f.theirs \in IssueFiles
<1>1. f \in FileContents
  BY DEF FileContents
<1>2. Versions(f) = {f.ours, f.theirs}
  BY <1>1, VersionsOfFile
<1>3. f.ours \in IssueFiles /\ f.theirs \in IssueFiles
  BY DEF Conflicts
<1> QED BY <1>2, <1>3 DEF Uid, Solo

LEMMA SettledIsSingle ==
    ASSUME Sound, NEW s \in GitTrees, Settled(s)
    PROVE  Singles(s)
<1> SUFFICES ASSUME NEW p \in Places
             PROVE  s.issues[p] \in IssueFiles \cup {None}
  BY DEF Singles
<1>1. s.issues[p] \in FileContents
  BY DEF GitTrees
<1>2. ~Conflict(s.issues[p])
  BY DEF Settled
<1>3. s.issues[p] \notin Conflicts
  BY <1>1, <1>2, VersionsOfFile
<1> QED BY <1>1, <1>3 DEF FileContents

LEMMA SingleIsSettled ==
    ASSUME Sound, NEW s, Singles(s), NEW p \in Places
    PROVE  ~Conflict(s.issues[p])
<1>1. s.issues[p] \in FileContents /\ s.issues[p] \in IssueFiles \cup {None}
  BY DEF Singles, FileContents
<1>2. s.issues[p] \notin Conflicts
  BY <1>1, VersionsOfFile
<1> QED BY <1>1, <1>2, VersionsOfFile

-----------------------------------------------------------------------------
(* A merge of what a clone has with what the branch has; both knew the base. *)

Meet(m, o, b) ==
    /\ Singles(m) /\ Singles(o) /\ Singles(b)
    /\ Alone(m) /\ Alone(o) /\ Alone(b)
    /\ \A s, t \in {m, o, b}, p, q \in Places : Of(s, p) \cap Of(t, q) # {} => p[1] = q[1]
    /\ Inhabitants(b) \subseteq Inhabitants(o) /\ Inhabitants(b) \subseteq Inhabitants(m)
    /\ Inhabitants(o) \cap Inhabitants(m) \subseteq Inhabitants(b)
    /\ \A p \in Places : b.issues[p] # None => m.issues[p] # None /\ o.issues[p] # None

Kept(m, o, b, t, p) ==
    t.issues[p] = m.issues[p] /\ (o.issues[p] = m.issues[p] \/ o.issues[p] = b.issues[p])
Taken(m, o, b, t, p) == t.issues[p] = o.issues[p] /\ m.issues[p] = b.issues[p]
Clashing(m, o, b, t, p) ==
    /\ m.issues[p] \in IssueFiles /\ o.issues[p] \in IssueFiles
    /\ m.issues[p] # o.issues[p] /\ m.issues[p] # b.issues[p] /\ o.issues[p] # b.issues[p]
    /\ t.issues[p] = [ours |-> m.issues[p], theirs |-> o.issues[p]]
    /\ t.issues[p] \in Conflicts /\ t.issues[p].ours = m.issues[p]
    /\ t.issues[p].theirs = o.issues[p]
Merged(m, o, b, t) ==
    \A p \in Places : Kept(m, o, b, t, p) \/ Taken(m, o, b, t, p) \/ Clashing(m, o, b, t, p)

LEMMA MergeMerges ==
    ASSUME NEW m, NEW o, NEW b, NEW t, Meet(m, o, b),
           \A p \in Places : t.issues[p] = Merge3(m.issues[p], o.issues[p], b.issues[p],
                                   [ours |-> m.issues[p], theirs |-> o.issues[p]])
    PROVE  Merged(m, o, b, t)
<1> SUFFICES ASSUME NEW p \in Places
             PROVE  Kept(m, o, b, t, p) \/ Taken(m, o, b, t, p) \/ Clashing(m, o, b, t, p)
  BY DEF Merged
<1> DEFINE mp == m.issues[p]
           op == o.issues[p]
           bp == b.issues[p]
           tp == t.issues[p]
<1>1. tp = Merge3(mp, op, bp, [ours |-> mp, theirs |-> op])
  OBVIOUS
<1>2. /\ mp \in IssueFiles \cup {None} /\ op \in IssueFiles \cup {None}
      /\ bp # None => mp # None /\ op # None
  BY DEF Meet, Singles
<1> HIDE DEF mp, op, bp, tp
<1>3. CASE mp = bp
  BY <1>1, <1>3 DEF Merge3, Taken, mp, op, bp, tp
<1>4. CASE mp # bp /\ op \in {bp, mp}
  BY <1>1, <1>4 DEF Merge3, Kept, mp, op, bp, tp
<1>5. CASE mp # bp /\ op \notin {bp, mp}
  <2>1. mp \in IssueFiles /\ op \in IssueFiles
    BY <1>2, <1>5
  <2>2. tp = [ours |-> mp, theirs |-> op]
    BY <1>1, <1>5 DEF Merge3
  <2>3. tp \in Conflicts /\ tp.ours = mp /\ tp.theirs = op
    BY <2>1, <2>2 DEF Conflicts
  <2> QED BY <1>5, <2>1, <2>2, <2>3 DEF Clashing, mp, op, bp, tp
<1> QED BY <1>3, <1>4, <1>5

(* An issue is at most once in a tree without markers.                     *)
LEMMA AloneAt ==
    ASSUME Sound, NEW s, Singles(s), Alone(s), NEW p \in Places, NEW q \in Places,
           NEW u, u \in Of(s, p), u \in Of(s, q)
    PROVE  p = q
<1>1. s.issues[p] \in IssueFiles \cup {None} /\ s.issues[q] \in IssueFiles \cup {None}
  BY DEF Singles
<1>2. u \in Solo(s.issues[p]) /\ u \in Solo(s.issues[q])
  BY <1>1, SingleFile DEF Of
<1> QED BY <1>2 DEF Alone

LEMMA AtMerged ==
    ASSUME Sound, NEW m, NEW o, NEW b, NEW t, Meet(m, o, b), Merged(m, o, b, t),
           NEW p \in Places
    PROVE  /\ Of(t, p) \subseteq Of(m, p) \cup Of(o, p)
           /\ Kept(m, o, b, t, p) => Of(t, p) = Of(m, p)
           /\ Taken(m, o, b, t, p) => Of(t, p) = Of(o, p)
           /\ Clashing(m, o, b, t, p) => Of(t, p) = Of(m, p) \cup Of(o, p)
<1>1. Kept(m, o, b, t, p) => Of(t, p) = Of(m, p)
  BY DEF Kept, Of
<1>2. Taken(m, o, b, t, p) => Of(t, p) = Of(o, p)
  BY DEF Taken, Of
<1>3. ASSUME Clashing(m, o, b, t, p)
      PROVE  Of(t, p) = Of(m, p) \cup Of(o, p)
  <2>1. Uid(m.issues[p]) = {m.issues[p].uid} /\ Uid(o.issues[p]) = {o.issues[p].uid}
    <3>1. m.issues[p] \in IssueFiles \cup {None} /\ m.issues[p] # None
      BY <1>3 DEF Clashing, Sound
    <3>2. o.issues[p] \in IssueFiles \cup {None} /\ o.issues[p] # None
      BY <1>3 DEF Clashing, Sound
    <3> QED BY <3>1, <3>2, SingleFile
  <2>2. Uid(t.issues[p]) = {m.issues[p].uid, o.issues[p].uid}
    <3>1. t.issues[p] \in Conflicts
      BY <1>3 DEF Clashing
    <3> QED BY <1>3, <3>1, ClashFile DEF Clashing
  <2> QED BY <2>1, <2>2 DEF Of
<1> QED BY <1>1, <1>2, <1>3 DEF Merged

LEMMA OnePlaceMore ==
    ASSUME NEW p \in Places, NEW q \in Places, NEW r \in Places,
           p[1] = q[1], q[1] = r[1], p # q
    PROVE  r = p \/ r = q
BY DEF Places

(* Whoever is in one of the two trees is in the merged one, at a place     *)
(* where one of them has it.                                               *)
Meeting(m, o, t) ==
    /\ Inhabitants(t) = Inhabitants(m) \cup Inhabitants(o)
    /\ \A p \in Places : Of(t, p) \subseteq Of(m, p) \cup Of(o, p)
    /\ \A p \in Places : m.issues[p] # None \/ o.issues[p] # None => t.issues[p] # None
    /\ Alone(t)

LEMMA NobodyIsLost ==
    ASSUME Sound, NEW m, NEW o, NEW b, NEW t, Meet(m, o, b), Merged(m, o, b, t),
           NEW p \in Places, NEW u, u \in Of(m, p) \cup Of(o, p)
    PROVE  u \in Inhabitants(t)
<1>1. CASE u \in Of(t, p)
  BY <1>1 DEF Inhabitants
<1>2. CASE u \notin Of(t, p) /\ u \in Of(m, p)
  <2>1. Taken(m, o, b, t, p)
    BY <1>2, AtMerged DEF Merged
  <2>2. u \in Of(b, p)
    BY <1>2, <2>1 DEF Taken, Of
  <2>3. u \in Inhabitants(o)
    BY <2>2 DEF Meet, Inhabitants
  <2>4. PICK q \in Places : u \in Of(o, q)
    BY <2>3 DEF Inhabitants
  <2>5. q # p
    BY <1>2, <2>1, <2>4, AtMerged
  <2>6. CASE u \in Of(t, q)
    BY <2>6 DEF Inhabitants
  <2>7. CASE u \notin Of(t, q)
    <3>1. Kept(m, o, b, t, q)
      BY <2>4, <2>7, AtMerged DEF Merged
    <3>2. CASE o.issues[q] = m.issues[q]
      <4>1. u \in Of(m, q)
        BY <2>4, <3>2 DEF Of
      <4> QED BY <1>2, <2>5, <4>1, AloneAt DEF Meet
    <3>3. CASE o.issues[q] = b.issues[q]
      <4>1. u \in Of(b, q)
        BY <2>4, <3>3 DEF Of
      <4> QED BY <2>2, <2>5, <4>1, AloneAt DEF Meet
    <3> QED BY <3>1, <3>2, <3>3 DEF Kept
  <2> QED BY <2>6, <2>7
<1>3. CASE u \notin Of(t, p) /\ u \in Of(o, p)
  <2>1. Kept(m, o, b, t, p)
    BY <1>3, AtMerged DEF Merged
  <2>2. CASE o.issues[p] = m.issues[p]
    BY <1>3, <2>1, <2>2, AtMerged DEF Of
  <2>3. CASE o.issues[p] = b.issues[p]
    <3>1. u \in Of(b, p)
      BY <1>3, <2>3 DEF Of
    <3>2. u \in Inhabitants(m)
      BY <3>1 DEF Meet, Inhabitants
    <3>3. PICK q \in Places : u \in Of(m, q)
      BY <3>2 DEF Inhabitants
    <3>4. q # p
      BY <1>3, <2>1, <3>3, AtMerged
    <3>5. CASE u \in Of(t, q)
      BY <3>5 DEF Inhabitants
    <3>6. CASE u \notin Of(t, q)
      <4>1. Taken(m, o, b, t, q)
        BY <3>3, <3>6, AtMerged DEF Merged
      <4>2. u \in Of(b, q)
        BY <3>3, <4>1 DEF Taken, Of
      <4> QED BY <3>1, <3>4, <4>2, AloneAt DEF Meet
    <3> QED BY <3>5, <3>6
  <2> QED BY <2>1, <2>2, <2>3 DEF Kept
<1> QED BY <1>1, <1>2, <1>3

(* Nobody has two files of his own: were one from each side, both sides    *)
(* would have moved away from a third place, and a number has only two.    *)
LEMMA NobodyIsTwice ==
    ASSUME Sound, NEW m, NEW o, NEW b, NEW t, Meet(m, o, b), Merged(m, o, b, t),
           NEW p \in Places, NEW q \in Places, p # q,
           NEW u, u \in Solo(t.issues[p]), u \in Solo(t.issues[q]), u \in Of(m, p)
    PROVE  FALSE
<1>1. u \in Of(t, p) /\ u \in Of(t, q)
  BY DEF Solo, Of
<1>2. u \notin Of(m, q)
  BY AloneAt DEF Meet
<1>3. u \in Of(o, q)
  BY <1>1, <1>2, AtMerged
<1>4. u \notin Of(o, p)
  BY <1>3, AloneAt DEF Meet
<1>5. u \in Inhabitants(b)
  BY <1>3 DEF Meet, Inhabitants
<1>6. PICK r \in Places : u \in Of(b, r)
  BY <1>5 DEF Inhabitants
<1>7. r[1] = p[1] /\ r[1] = q[1]
  <2>1. Of(b, r) \cap Of(m, p) # {} /\ Of(b, r) \cap Of(o, q) # {}
    BY <1>3, <1>6
  <2> QED BY <2>1 DEF Meet
<1>8. r = p \/ r = q
  BY <1>7, OnePlaceMore
<1>9. ASSUME NEW x \in Places, u \in Solo(t.issues[x]), u \in Of(m, x), u \notin Of(o, x)
      PROVE  Kept(m, o, b, t, x) /\ o.issues[x] = b.issues[x] /\ u \notin Of(b, x)
  <2>1. ~Clashing(m, o, b, t, x)
    <3> SUFFICES ASSUME Clashing(m, o, b, t, x) PROVE FALSE
      OBVIOUS
    <3>1. /\ m.issues[x] \in IssueFiles \cup {None} /\ m.issues[x] # None
          /\ o.issues[x] \in IssueFiles \cup {None} /\ o.issues[x] # None
          /\ t.issues[x] \in Conflicts
      BY DEF Clashing, Sound
    <3>2. Of(m, x) = {m.issues[x].uid} /\ Of(o, x) = {o.issues[x].uid}
      BY <3>1, SingleFile DEF Of
    <3>3. t.issues[x].ours.uid # t.issues[x].theirs.uid
      BY <1>9, <3>2 DEF Clashing
    <3>4. Solo(t.issues[x]) = {}
      BY <3>1, <3>3, ClashFile
    <3> QED BY <1>9, <3>4
  <2>2. ~Taken(m, o, b, t, x)
    BY <1>9, AtMerged DEF Solo, Of
  <2>3. Kept(m, o, b, t, x)
    BY <2>1, <2>2 DEF Merged
  <2>4. o.issues[x] # m.issues[x]
    BY <1>9 DEF Of
  <2>5. o.issues[x] = b.issues[x]
    BY <2>3, <2>4 DEF Kept
  <2> QED BY <1>9, <2>3, <2>5 DEF Of
<1>10. u \notin Of(b, p)
  BY <1>4, <1>9
<1>11. u \in Of(b, q)
  BY <1>6, <1>8, <1>10
<1>12. ~Clashing(m, o, b, t, q)
  <2> SUFFICES ASSUME Clashing(m, o, b, t, q) PROVE FALSE
    OBVIOUS
  <2>1. /\ m.issues[q] \in IssueFiles \cup {None} /\ m.issues[q] # None
        /\ o.issues[q] \in IssueFiles \cup {None} /\ o.issues[q] # None
        /\ t.issues[q] \in Conflicts
    BY DEF Clashing, Sound
  <2>2. Of(m, q) = {m.issues[q].uid} /\ Of(o, q) = {o.issues[q].uid}
    BY <2>1, SingleFile DEF Of
  <2>3. t.issues[q].ours.uid # t.issues[q].theirs.uid
    BY <1>2, <1>3, <2>2 DEF Clashing
  <2>4. Solo(t.issues[q]) = {}
    BY <2>1, <2>3, ClashFile
  <2> QED BY <2>4
<1>13. ~Kept(m, o, b, t, q)
  BY <1>1, <1>2, AtMerged
<1>14. Taken(m, o, b, t, q)
  BY <1>12, <1>13 DEF Merged
<1> QED BY <1>2, <1>11, <1>14 DEF Taken, Of

LEMMA MergeJoins ==
    ASSUME Sound, NEW m, NEW o, NEW b, NEW t, Meet(m, o, b), Merged(m, o, b, t)
    PROVE  Meeting(m, o, t)
<1>1. \A p \in Places : Of(t, p) \subseteq Of(m, p) \cup Of(o, p)
  BY AtMerged
<1>2. Inhabitants(t) = Inhabitants(m) \cup Inhabitants(o)
  <2>1. \A p \in Places : \A u \in Of(m, p) \cup Of(o, p) : u \in Inhabitants(t)
    BY NobodyIsLost
  <2> QED BY <1>1, <2>1 DEF Inhabitants
<1>3. ASSUME NEW p \in Places, m.issues[p] # None \/ o.issues[p] # None
      PROVE  t.issues[p] # None
  <2>1. b.issues[p] # None => m.issues[p] # None /\ o.issues[p] # None
    BY DEF Meet
  <2>2. Clashing(m, o, b, t, p) => t.issues[p] # None
    <3>1. None \notin Conflicts
      BY DEF Sound, Conflicts
    <3> QED BY <3>1 DEF Clashing
  <2> QED BY <1>3, <2>1, <2>2 DEF Merged, Kept, Taken
<1>4. Alone(t)
  <2> SUFFICES ASSUME NEW p \in Places, NEW q \in Places, p # q,
                      NEW u \in Solo(t.issues[p]) \cap Solo(t.issues[q])
               PROVE  FALSE
    BY DEF Alone
  <2>1. u \in Of(t, p) /\ u \in Of(t, q)
    BY DEF Solo, Of
  <2>2. u \notin Of(m, p) /\ u \notin Of(m, q)
    BY NobodyIsTwice
  <2>3. u \in Of(o, p) /\ u \in Of(o, q)
    BY <2>1, <2>2, <1>1
  <2> QED BY <2>3, AloneAt DEF Meet
<1> QED BY <1>1, <1>2, <1>3, <1>4 DEF Meeting

-----------------------------------------------------------------------------
(* Where the issues live, after a step of a clone, a push and a pull.      *)

LEMMA TheStores ==
    ASSUME Branches
    PROVE  /\ \A k \in Clone : tree[k] \in Stores /\ base[k] \in Stores
           /\ origin \in Stores
           /\ \A s \in Stores : s \in GitTrees
BY DEF Branches, Stores

(* What a clone may do to its own files: new issues take a free place, and *)
(* nobody moves to another number.                                         *)
Grows(s, t, N) ==
    /\ \A p \in Places : s.issues[p] # None => t.issues[p] # None
    /\ Inhabitants(t) = Inhabitants(s) \cup N
    /\ \A p \in Places : \A u \in Of(t, p) :
          u \in N \/ \E q \in Places : q[1] = p[1] /\ u \in Of(s, q)
    /\ \A p, q \in Places : \A u \in N : u \in Of(t, p) /\ u \in Of(t, q) => p[1] = q[1]
    /\ Alone(t)

LEMMA LocalStep ==
    ASSUME Housed, NEW k \in Clone, NEW t \in GitTrees, NEW N,
           tree' = [tree EXCEPT ![k] = t], origin' = origin, base' = base,
           \A s \in Stores : N \cap Inhabitants(s) = {}, Grows(tree[k], t, N)
    PROVE  Housed'
<1>1. tree'[k] = t /\ \A j \in Clone : j # k => tree'[j] = tree[j]
  BY DEF Housed, Branches
<1>2. Branches'
  <2>1. tree' \in [Clone -> GitTrees]
    BY DEF Housed, Branches
  <2>2. ASSUME NEW j \in Clone, NEW p \in Places, base[j].issues[p] # None
        PROVE  tree'[j].issues[p] # None
    <3>1. tree[j].issues[p] # None
      BY <2>2 DEF Housed, Branches
    <3> QED BY <1>1, <3>1 DEF Grows
  <2> QED BY <2>1, <2>2 DEF Housed, Branches
<1>3. Stores' \subseteq Stores \cup {t}
  BY <1>1 DEF Stores
<1>4. NoTwins'
  <2>1. \A s \in Stores' : Alone(s)
    BY <1>3 DEF Housed, NoTwins, Grows
  <2> QED BY <2>1 DEF NoTwins, Alone
<1>5. Homed'
  <2>1. ASSUME NEW s \in Stores', NEW p \in Places, NEW u \in Of(s, p)
        PROVE  \/ s = t /\ u \in N
               \/ \E r \in Stores, q \in Places : q[1] = p[1] /\ u \in Of(r, q)
    <3>1. tree[k] \in Stores
      BY TheStores DEF Housed
    <3>2. CASE s \in Stores
      BY <3>2
    <3>3. CASE s = t
      BY <2>1, <3>1, <3>3 DEF Grows
    <3> QED BY <1>3, <3>2, <3>3
  <2>2. ASSUME NEW r \in Stores, NEW q \in Places, NEW u \in N
        PROVE  u \notin Of(r, q)
    BY DEF Inhabitants
  <2>3. ASSUME NEW s \in Stores', NEW r \in Stores', NEW p \in Places, NEW q \in Places,
               NEW u \in Of(s, p), u \in Of(r, q)
        PROVE  p[1] = q[1]
    <3>1. CASE u \in N
      <4>1. s = t /\ r = t
        BY <2>1, <2>2, <2>3, <3>1
      <4> QED BY <2>3, <3>1, <4>1 DEF Grows
    <3>2. CASE u \notin N
      <4>1. PICK s1 \in Stores, p1 \in Places : p1[1] = p[1] /\ u \in Of(s1, p1)
        BY <2>1, <3>2
      <4>2. PICK r1 \in Stores, q1 \in Places : q1[1] = q[1] /\ u \in Of(r1, q1)
        BY <2>1, <2>3, <3>2
      <4>3. Of(s1, p1) \cap Of(r1, q1) # {}
        BY <4>1, <4>2
      <4> QED BY <4>1, <4>2, <4>3 DEF Housed, Homed
    <3> QED BY <3>1, <3>2
  <2>4. \A s, r \in Stores', p, q \in Places : Of(s, p) \cap Of(r, q) # {} => p[1] = q[1]
    BY <2>3
  <2> QED BY <2>4 DEF Homed, Of
<1>6. Travelled'
  <2>1. \A j \in Clone : Inhabitants(tree[j]) \subseteq Inhabitants(tree'[j])
    BY <1>1 DEF Grows
  <2>2. \A j \in Clone : Inhabitants(tree'[j]) \subseteq Inhabitants(tree[j]) \cup (IF j = k THEN N ELSE {})
    BY <1>1 DEF Grows
  <2>3. N \cap Inhabitants(origin) = {} /\ \A j \in Clone : N \cap Inhabitants(tree[j]) = {}
    BY TheStores DEF Housed
  <2>4. /\ \A j \in Clone :
             /\ Inhabitants(base[j]) \subseteq Inhabitants(origin)
             /\ Inhabitants(base[j]) \subseteq Inhabitants(tree[j])
             /\ Inhabitants(origin) \cap Inhabitants(tree[j]) \subseteq Inhabitants(base[j])
        /\ \A i, j \in Clone : i # j =>
             Inhabitants(tree[i]) \cap Inhabitants(tree[j]) \subseteq Inhabitants(origin)
    BY DEF Housed, Travelled
  <2>5. ASSUME NEW j \in Clone
        PROVE  /\ Inhabitants(base[j]) \subseteq Inhabitants(tree'[j])
               /\ Inhabitants(origin) \cap Inhabitants(tree'[j]) \subseteq Inhabitants(base[j])
    BY <2>1, <2>2, <2>3, <2>4
  <2>6. ASSUME NEW i \in Clone, NEW j \in Clone, i # j
        PROVE  Inhabitants(tree'[i]) \cap Inhabitants(tree'[j]) \subseteq Inhabitants(origin)
    BY <2>2, <2>3, <2>4, <2>6
  <2>7. /\ \A j \in Clone :
             /\ Inhabitants(base'[j]) \subseteq Inhabitants(origin')
             /\ Inhabitants(base'[j]) \subseteq Inhabitants(tree'[j])
             /\ Inhabitants(origin') \cap Inhabitants(tree'[j]) \subseteq Inhabitants(base'[j])
        /\ \A i, j \in Clone : i # j =>
             Inhabitants(tree'[i]) \cap Inhabitants(tree'[j]) \subseteq Inhabitants(origin')
    BY <2>4, <2>5, <2>6
  <2> QED BY <2>7 DEF Travelled, Inhabitants, Of
<1> QED BY <1>2, <1>4, <1>5, <1>6 DEF Housed

LEMMA PushStep ==
    ASSUME Housed, NEW k \in Clone, base[k] = origin, Settled(tree[k]),
           tree' = tree, origin' = tree[k], base' = [base EXCEPT ![k] = tree[k]]
    PROVE  Housed'
<1>1. base'[k] = tree[k] /\ \A j \in Clone : j # k => base'[j] = base[j]
  BY DEF Housed, Branches
<1>2. Branches'
  <2>1. base' \in [Clone -> GitTrees] /\ origin' \in GitTrees
    BY DEF Housed, Branches
  <2>2. Settled(origin') /\ \A j \in Clone : Settled(base'[j])
    BY <1>1 DEF Housed, Branches
  <2>3. ASSUME NEW j \in Clone, NEW p \in Places, base'[j].issues[p] # None
        PROVE  tree'[j].issues[p] # None /\ origin'.issues[p] # None
    <3>1. CASE j = k
      BY <1>1, <2>3, <3>1
    <3>2. CASE j # k
      <4>1. tree[j].issues[p] # None /\ origin.issues[p] # None
        BY <1>1, <2>3, <3>2 DEF Housed, Branches
      <4>2. tree[k].issues[p] # None
        BY <4>1 DEF Housed, Branches
      <4> QED BY <4>1, <4>2
    <3> QED BY <3>1, <3>2
  <2>4. Sound /\ tree' \in [Clone -> GitTrees]
    BY DEF Housed, Branches
  <2>5. /\ \A j \in Clone, p \in Places : base'[j].issues[p] # None =>
               tree'[j].issues[p] # None /\ origin'.issues[p] # None
    BY <2>3
  <2> QED BY <2>1, <2>2, <2>4, <2>5 DEF Branches, Settled
<1>3. \A s \in Stores' : s \in Stores
  BY <1>1 DEF Stores
<1>4. NoTwins'
  <2>1. \A s \in Stores' : Alone(s)
    BY <1>3 DEF Housed, NoTwins
  <2> QED BY <2>1 DEF NoTwins, Alone
<1>5. Homed'
  <2>1. \A s, t \in Stores', p, q \in Places : Of(s, p) \cap Of(t, q) # {} => p[1] = q[1]
    BY <1>3 DEF Housed, Homed
  <2> QED BY <2>1 DEF Homed, Of
<1>6. Travelled'
  <2>1. /\ \A j \in Clone :
             /\ Inhabitants(base[j]) \subseteq Inhabitants(origin)
             /\ Inhabitants(base[j]) \subseteq Inhabitants(tree[j])
             /\ Inhabitants(origin) \cap Inhabitants(tree[j]) \subseteq Inhabitants(base[j])
        /\ \A i, j \in Clone : i # j =>
             Inhabitants(tree[i]) \cap Inhabitants(tree[j]) \subseteq Inhabitants(origin)
    BY DEF Housed, Travelled
  <2>2. Inhabitants(origin) \subseteq Inhabitants(tree[k])
    BY <2>1
  <2>3. ASSUME NEW j \in Clone
        PROVE  /\ Inhabitants(base'[j]) \subseteq Inhabitants(origin')
               /\ Inhabitants(base'[j]) \subseteq Inhabitants(tree'[j])
               /\ Inhabitants(origin') \cap Inhabitants(tree'[j]) \subseteq Inhabitants(base'[j])
    <3>1. CASE j = k
      BY <1>1, <3>1
    <3>2. CASE j # k
      <4>1. Inhabitants(tree[k]) \cap Inhabitants(tree[j]) \subseteq Inhabitants(origin)
        BY <2>1, <3>2
      <4> QED BY <1>1, <2>1, <2>2, <3>2, <4>1
    <3> QED BY <3>1, <3>2
  <2>4. ASSUME NEW i \in Clone, NEW j \in Clone, i # j
        PROVE  Inhabitants(tree'[i]) \cap Inhabitants(tree'[j]) \subseteq Inhabitants(origin')
    BY <2>1, <2>2, <2>4
  <2>5. /\ \A j \in Clone :
             /\ Inhabitants(base'[j]) \subseteq Inhabitants(origin')
             /\ Inhabitants(base'[j]) \subseteq Inhabitants(tree'[j])
             /\ Inhabitants(origin') \cap Inhabitants(tree'[j]) \subseteq Inhabitants(base'[j])
        /\ \A i, j \in Clone : i # j =>
             Inhabitants(tree'[i]) \cap Inhabitants(tree'[j]) \subseteq Inhabitants(origin')
    BY <2>3, <2>4
  <2> QED BY <2>5 DEF Travelled, Inhabitants, Of
<1> QED BY <1>2, <1>4, <1>5, <1>6 DEF Housed

(* A clone that has settled its files meets the branch at its base.        *)
LEMMA TheyMeet ==
    ASSUME Housed, NEW k \in Clone, Settled(tree[k])
    PROVE  Meet(tree[k], origin, base[k])
<1>1. tree[k] \in Stores /\ base[k] \in Stores /\ origin \in Stores
  BY TheStores DEF Housed
<1>2. Singles(tree[k]) /\ Singles(origin) /\ Singles(base[k])
  <2>1. /\ Sound /\ tree[k] \in GitTrees /\ base[k] \in GitTrees /\ origin \in GitTrees
        /\ Settled(origin) /\ Settled(base[k])
    BY DEF Housed, Branches
  <2> QED BY <2>1, SettledIsSingle
<1>3. Alone(tree[k]) /\ Alone(origin) /\ Alone(base[k])
  BY <1>1 DEF Housed, NoTwins
<1>4. \A s, t \in {tree[k], origin, base[k]}, p, q \in Places :
          Of(s, p) \cap Of(t, q) # {} => p[1] = q[1]
  BY <1>1 DEF Housed, Homed
<1>5. /\ Inhabitants(base[k]) \subseteq Inhabitants(origin)
      /\ Inhabitants(base[k]) \subseteq Inhabitants(tree[k])
      /\ Inhabitants(origin) \cap Inhabitants(tree[k]) \subseteq Inhabitants(base[k])
  BY DEF Housed, Travelled
<1>6. \A p \in Places : base[k].issues[p] # None =>
          tree[k].issues[p] # None /\ origin.issues[p] # None
  BY DEF Housed, Branches
<1> QED BY <1>2, <1>3, <1>4, <1>5, <1>6 DEF Meet

LEMMA PullStep ==
    ASSUME Housed, NEW k \in Clone, Settled(tree[k]), NEW t \in GitTrees,
           tree' = [tree EXCEPT ![k] = t], origin' = origin,
           base' = [base EXCEPT ![k] = origin], Merged(tree[k], origin, base[k], t)
    PROVE  Housed'
<1>1. /\ tree'[k] = t /\ \A j \in Clone : j # k => tree'[j] = tree[j]
      /\ base'[k] = origin /\ \A j \in Clone : j # k => base'[j] = base[j]
  BY DEF Housed, Branches
<1>2. Meeting(tree[k], origin, t)
  BY TheyMeet, MergeJoins DEF Housed, Branches
<1>3. Branches'
  <2>1. base' \in [Clone -> GitTrees] /\ tree' \in [Clone -> GitTrees]
    BY DEF Housed, Branches
  <2>2. Settled(origin') /\ \A j \in Clone : Settled(base'[j])
    BY <1>1 DEF Housed, Branches
  <2>3. ASSUME NEW j \in Clone, NEW p \in Places, base'[j].issues[p] # None
        PROVE  tree'[j].issues[p] # None /\ origin'.issues[p] # None
    <3>1. CASE j = k
      BY <1>1, <1>2, <2>3, <3>1 DEF Meeting
    <3>2. CASE j # k
      BY <1>1, <2>3, <3>2 DEF Housed, Branches
    <3> QED BY <3>1, <3>2
  <2>4. Sound /\ origin' \in GitTrees
    BY DEF Housed, Branches
  <2>5. \A j \in Clone, p \in Places : base'[j].issues[p] # None =>
               tree'[j].issues[p] # None /\ origin'.issues[p] # None
    BY <2>3
  <2> QED BY <2>1, <2>2, <2>4, <2>5 DEF Branches, Settled
<1>4. \A s \in Stores' : s \in Stores \/ s = t
  BY <1>1 DEF Stores
<1>5. NoTwins'
  <2>1. \A s \in Stores' : Alone(s)
    BY <1>2, <1>4 DEF Housed, NoTwins, Meeting
  <2> QED BY <2>1 DEF NoTwins, Alone
<1>6. Homed'
  <2>1. ASSUME NEW s \in Stores', NEW p \in Places, NEW u \in Of(s, p)
        PROVE  \E r \in Stores : u \in Of(r, p)
    BY <1>2, <1>4, TheStores DEF Housed, Meeting
  <2>2. ASSUME NEW s \in Stores', NEW r \in Stores', NEW p \in Places, NEW q \in Places,
               NEW u \in Of(s, p), u \in Of(r, q)
        PROVE  p[1] = q[1]
    <3>1. PICK s1 \in Stores : u \in Of(s1, p)
      BY <2>1
    <3>2. PICK r1 \in Stores : u \in Of(r1, q)
      BY <2>1, <2>2
    <3>3. Of(s1, p) \cap Of(r1, q) # {}
      BY <3>1, <3>2
    <3> QED BY <3>3 DEF Housed, Homed
  <2>3. \A s, r \in Stores', p, q \in Places : Of(s, p) \cap Of(r, q) # {} => p[1] = q[1]
    BY <2>2
  <2> QED BY <2>3 DEF Homed, Of
<1>7. Travelled'
  <2>1. /\ \A j \in Clone :
             /\ Inhabitants(base[j]) \subseteq Inhabitants(origin)
             /\ Inhabitants(base[j]) \subseteq Inhabitants(tree[j])
             /\ Inhabitants(origin) \cap Inhabitants(tree[j]) \subseteq Inhabitants(base[j])
        /\ \A i, j \in Clone : i # j =>
             Inhabitants(tree[i]) \cap Inhabitants(tree[j]) \subseteq Inhabitants(origin)
    BY DEF Housed, Travelled
  <2>2. Inhabitants(t) = Inhabitants(tree[k]) \cup Inhabitants(origin)
    BY <1>2 DEF Meeting
  <2>3. ASSUME NEW j \in Clone
        PROVE  /\ Inhabitants(base'[j]) \subseteq Inhabitants(origin')
               /\ Inhabitants(base'[j]) \subseteq Inhabitants(tree'[j])
               /\ Inhabitants(origin') \cap Inhabitants(tree'[j]) \subseteq Inhabitants(base'[j])
    <3>1. CASE j = k
      BY <1>1, <2>2, <3>1
    <3>2. CASE j # k
      BY <1>1, <2>1, <3>2
    <3> QED BY <3>1, <3>2
  <2>4. ASSUME NEW i \in Clone, NEW j \in Clone, i # j
        PROVE  Inhabitants(tree'[i]) \cap Inhabitants(tree'[j]) \subseteq Inhabitants(origin')
    <3>1. CASE i = k
      BY <1>1, <2>1, <2>2, <2>4, <3>1
    <3>2. CASE j = k
      BY <1>1, <2>1, <2>2, <2>4, <3>2
    <3>3. CASE i # k /\ j # k
      BY <1>1, <2>1, <2>4, <3>3
    <3> QED BY <3>1, <3>2, <3>3
  <2>5. /\ \A j \in Clone :
             /\ Inhabitants(base'[j]) \subseteq Inhabitants(origin')
             /\ Inhabitants(base'[j]) \subseteq Inhabitants(tree'[j])
             /\ Inhabitants(origin') \cap Inhabitants(tree'[j]) \subseteq Inhabitants(base'[j])
        /\ \A i, j \in Clone : i # j =>
             Inhabitants(tree'[i]) \cap Inhabitants(tree'[j]) \subseteq Inhabitants(origin')
    BY <2>3, <2>4
  <2> QED BY <2>5 DEF Travelled, Inhabitants, Of
<1> QED BY <1>3, <1>5, <1>6, <1>7 DEF Housed

-----------------------------------------------------------------------------
(* What becomes of an issue's keys.                                        *)

LEMMA SingleVersion ==
    ASSUME Sound, NEW s, Singles(s), NEW p \in Places
    PROVE  /\ Distinct(s.issues[p])
           /\ \A f \in Versions(s.issues[p]) :
                f = s.issues[p] /\ f \in IssueFiles /\ f.uid \in Of(s, p)
           /\ \A u \in Of(s, p) : /\ s.issues[p] \in Versions(s.issues[p])
                                  /\ s.issues[p].uid = u
<1>1. s.issues[p] \in IssueFiles \cup {None}
  BY DEF Singles
<1>2. s.issues[p] \in FileContents
  BY <1>1 DEF FileContents
<1>3. s.issues[p] = None => Versions(s.issues[p]) = {} /\ Of(s, p) = {}
  BY <1>2, VersionsOfFile, SingleFile DEF Of
<1>4. s.issues[p] # None =>
        /\ s.issues[p] \in IssueFiles /\ Versions(s.issues[p]) = {s.issues[p]}
        /\ Of(s, p) = {s.issues[p].uid}
  BY <1>1, <1>2, VersionsOfFile, SingleFile DEF Of
<1> QED BY <1>3, <1>4 DEF Distinct

LEMMA VersionHasUid ==
    ASSUME NEW s, NEW p, NEW g \in Versions(s.issues[p])
    PROVE  g.uid \in Of(s, p)
BY DEF Of, Uid

(* A version in a merged tree is that of one side.                         *)
LEMMA FromOneSide ==
    ASSUME Sound, NEW m, NEW o, NEW b, NEW t, Meet(m, o, b), Merged(m, o, b, t),
           NEW p \in Places, NEW g \in Versions(t.issues[p])
    PROVE  /\ g.uid \in Of(t, p)
           /\ \/ /\ g = m.issues[p] /\ g.uid \in Of(m, p)
                 /\ Kept(m, o, b, t, p) \/ Clashing(m, o, b, t, p)
              \/ /\ g = o.issues[p] /\ g.uid \in Of(o, p)
                 /\ Taken(m, o, b, t, p) \/ Clashing(m, o, b, t, p)
<1>1. g.uid \in Of(t, p)
  BY VersionHasUid
<1>2. CASE Kept(m, o, b, t, p)
  <2>1. g \in Versions(m.issues[p])
    BY <1>2 DEF Kept
  <2> QED BY <1>1, <1>2, <2>1, SingleVersion DEF Meet
<1>3. CASE Taken(m, o, b, t, p)
  <2>1. g \in Versions(o.issues[p])
    BY <1>3 DEF Taken
  <2> QED BY <1>1, <1>3, <2>1, SingleVersion DEF Meet
<1>4. CASE Clashing(m, o, b, t, p)
  <2>1. t.issues[p] \in FileContents /\ t.issues[p] \in Conflicts
    BY <1>4 DEF Clashing, FileContents
  <2>2. g = m.issues[p] \/ g = o.issues[p]
    BY <1>4, <2>1, VersionsOfFile DEF Clashing
  <2>3. m.issues[p] \in FileContents /\ o.issues[p] \in FileContents
    BY <1>4 DEF Clashing, FileContents
  <2>4. m.issues[p] \in Versions(m.issues[p]) /\ o.issues[p] \in Versions(o.issues[p])
    BY <1>4, <2>3, VersionsOfFile DEF Clashing
  <2>5. m.issues[p].uid \in Of(m, p) /\ o.issues[p].uid \in Of(o, p)
    BY <2>4, VersionHasUid
  <2> QED BY <1>1, <1>4, <2>2, <2>5
<1> QED BY <1>2, <1>3, <1>4 DEF Merged

LEMMA ClashVersions ==
    ASSUME Sound, NEW m, NEW o, NEW b, NEW t, NEW p, Clashing(m, o, b, t, p),
           Distinct(t.issues[p])
    PROVE  m.issues[p].uid # o.issues[p].uid
<1>1. t.issues[p] \in FileContents /\ t.issues[p] \in Conflicts
  BY DEF Clashing, FileContents
<1>2. m.issues[p] \in Versions(t.issues[p]) /\ o.issues[p] \in Versions(t.issues[p])
  BY <1>1, VersionsOfFile DEF Clashing
<1> QED BY <1>2 DEF Distinct, Clashing

(* Unless a merge leaves an issue in two files, its version is one that    *)
(* both sides had, or had grown out of.                                    *)
LEMMA MergeOutgrows ==
    ASSUME Sound, NEW m, NEW o, NEW b, NEW t, Meet(m, o, b), Merged(m, o, b, t),
           NEW M, Outgrown(b, m, M), Outgrown(b, o, M), NEW M1, M \subseteq M1,
           \A p, q \in Places : p # q => Of(t, p) \cap Of(t, q) \subseteq M1
    PROVE  Outgrown(m, t, M1) /\ Outgrown(o, t, M1)
<1>1. /\ Singles(m) /\ Singles(o) /\ Singles(b)
      /\ Alone(m) /\ Alone(o) /\ Alone(b)
  BY DEF Meet
<1>2. ASSUME NEW p \in Places, NEW q \in Places,
             NEW f \in Versions(o.issues[p]), NEW g \in Versions(t.issues[q]),
             Distinct(t.issues[q]), f.uid = g.uid, f.uid \notin M1
      PROVE  KeysOf(f) \subseteq KeysOf(g)
  <2> DEFINE u == g.uid
  <2>1. f = o.issues[p] /\ u \in Of(o, p)
    BY <1>1, <1>2, SingleVersion
  <2>2. /\ u \in Of(t, q)
        /\ \/ /\ g = m.issues[q] /\ u \in Of(m, q)
              /\ Kept(m, o, b, t, q) \/ Clashing(m, o, b, t, q)
           \/ /\ g = o.issues[q] /\ u \in Of(o, q)
              /\ Taken(m, o, b, t, q) \/ Clashing(m, o, b, t, q)
    BY FromOneSide
  <2>3. ASSUME o.issues[p] = b.issues[p], g = m.issues[q], u \in Of(m, q)
        PROVE  KeysOf(f) \subseteq KeysOf(g)
    <3>1. f \in Versions(b.issues[p])
      BY <2>3
    <3>2. g \in Versions(m.issues[q]) /\ Distinct(m.issues[q])
      BY <1>1, <2>3, SingleVersion
    <3> QED BY <1>2, <3>1, <3>2 DEF Outgrown
  <2>4. CASE g = o.issues[q] /\ u \in Of(o, q)
    <3>1. p = q
      BY <1>1, <2>1, <2>4, AloneAt
    <3> QED BY <2>1, <2>4, <3>1
  <2>5. CASE p = q /\ g = m.issues[q] /\ u \in Of(m, q)
    <3>1. CASE Clashing(m, o, b, t, q)
      <4>1. m.issues[q].uid # o.issues[q].uid
        BY <1>2, <3>1, ClashVersions
      <4> QED BY <1>2, <2>1, <2>5, <4>1
    <3>2. CASE Kept(m, o, b, t, q)
      BY <2>1, <2>3, <2>5, <3>2 DEF Kept
    <3> QED BY <2>2, <2>4, <3>1, <3>2
  <2>6. CASE p # q /\ g = m.issues[q] /\ u \in Of(m, q)
    <3>1. u \notin Of(t, p)
      BY <1>2, <2>2, <2>6
    <3>2. Kept(m, o, b, t, p)
      BY <2>1, <3>1, AtMerged DEF Merged
    <3>3. o.issues[p] # m.issues[p]
      BY <1>1, <2>1, <2>6, AloneAt DEF Of
    <3>4. o.issues[p] = b.issues[p]
      BY <3>2, <3>3 DEF Kept
    <3> QED BY <2>3, <2>6, <3>4
  <2> QED BY <2>2, <2>4, <2>5, <2>6
<1>3. ASSUME NEW p \in Places, NEW q \in Places,
             NEW f \in Versions(m.issues[p]), NEW g \in Versions(t.issues[q]),
             Distinct(t.issues[q]), f.uid = g.uid, f.uid \notin M1
      PROVE  KeysOf(f) \subseteq KeysOf(g)
  <2> DEFINE u == g.uid
  <2>1. f = m.issues[p] /\ u \in Of(m, p)
    BY <1>1, <1>3, SingleVersion
  <2>2. /\ u \in Of(t, q)
        /\ \/ /\ g = m.issues[q] /\ u \in Of(m, q)
              /\ Kept(m, o, b, t, q) \/ Clashing(m, o, b, t, q)
           \/ /\ g = o.issues[q] /\ u \in Of(o, q)
              /\ Taken(m, o, b, t, q) \/ Clashing(m, o, b, t, q)
    BY FromOneSide
  <2>3. ASSUME m.issues[p] = b.issues[p], g = o.issues[q], u \in Of(o, q)
        PROVE  KeysOf(f) \subseteq KeysOf(g)
    <3>1. f \in Versions(b.issues[p])
      BY <2>3
    <3>2. g \in Versions(o.issues[q]) /\ Distinct(o.issues[q])
      BY <1>1, <2>3, SingleVersion
    <3> QED BY <1>3, <3>1, <3>2 DEF Outgrown
  <2>4. CASE g = m.issues[q] /\ u \in Of(m, q)
    <3>1. p = q
      BY <1>1, <2>1, <2>4, AloneAt
    <3> QED BY <2>1, <2>4, <3>1
  <2>5. CASE p = q /\ g = o.issues[q] /\ u \in Of(o, q)
    <3>1. CASE Clashing(m, o, b, t, q)
      <4>1. m.issues[q].uid # o.issues[q].uid
        BY <1>3, <3>1, ClashVersions
      <4> QED BY <1>3, <2>1, <2>5, <4>1
    <3>2. CASE Taken(m, o, b, t, q)
      BY <2>1, <2>3, <2>5, <3>2 DEF Taken
    <3> QED BY <2>2, <2>4, <3>1, <3>2
  <2>6. CASE p # q /\ g = o.issues[q] /\ u \in Of(o, q)
    <3>1. u \notin Of(t, p)
      BY <1>3, <2>2, <2>6
    <3>2. Taken(m, o, b, t, p)
      BY <2>1, <3>1, AtMerged DEF Merged
    <3> QED BY <2>3, <2>6, <3>2 DEF Taken
  <2> QED BY <2>2, <2>4, <2>5, <2>6
<1> QED BY <1>2, <1>3 DEF Outgrown

-----------------------------------------------------------------------------
(* What the steps do to a file.                                            *)

CloneInv ==
    /\ Housed /\ Tables /\ Numbered /\ Remembering /\ Planned /\ Logged
    /\ (\A k \in Clone : Steady(k)) /\ Destined


LEMMA FilesOfIssues ==
    \A f : f \in IssueFiles <=>
        /\ f \in [uid: Uids, key: Nat, former: SUBSET Nat]
        /\ IsFiniteSet(f.former)
<1> SUFFICES ASSUME NEW f
             PROVE  f \in IssueFiles <=>
                        /\ f \in [uid: Uids, key: Nat, former: SUBSET Nat]
                        /\ IsFiniteSet(f.former)
  OBVIOUS
<1>1. PICK F : F = {keys \in SUBSET Nat : IsFiniteSet(keys)}
  OBVIOUS
<1>2. F = {keys \in SUBSET Nat : IsFiniteSet(keys)}
  BY <1>1
<1>3. IssueFiles = [uid: Uids, key: Nat, former: F]
  BY <1>2 DEF IssueFiles
<1>4. f \in [uid: Uids, key: Nat, former: F] <=>
          f \in [uid: Uids, key: Nat, former: SUBSET Nat] /\ f.former \in F
  BY <1>1
<1>5. f \in [uid: Uids, key: Nat, former: SUBSET Nat] =>
          (f.former \in F <=> IsFiniteSet(f.former))
  BY <1>1
<1> QED BY <1>3, <1>4, <1>5

LEMMA PlacesAreFinite ==
    ASSUME Sound
    PROVE  IsFiniteSet(Places)
<1>1. MaxKey \in Nat /\ Doubled \subseteq 1..MaxKey
  BY DEF Sound, Keys
<1>2. IsFiniteSet(1..MaxKey) /\ IsFiniteSet({0}) /\ IsFiniteSet({1})
  <2>1. IsFiniteSet(1..MaxKey)
    BY <1>1, FS_Interval
  <2>2. \A x : IsFiniteSet({x})
    BY FS_Singleton
  <2> QED BY <2>1, <2>2
<1>3. IsFiniteSet(Doubled)
  BY <1>1, <1>2, FS_Subset
<1>4. IsFiniteSet((1..MaxKey) \X {0}) /\ IsFiniteSet(Doubled \X {1})
  BY <1>2, <1>3, FS_Product
<1>5. IsFiniteSet(((1..MaxKey) \X {0}) \cup (Doubled \X {1}))
  BY <1>4, FS_Union
<1> QED BY <1>5 DEF Places, Keys

One(f) == IF Conflict(f) THEN f.ours ELSE f
Patched(f, r) ==
    LET new == patchRekey(One(f), r.from, r.to)
    IN IF Conflict(f) THEN [f EXCEPT !.ours = new] ELSE new

(* A patch gives the first version its key, and makes it remember.         *)
Renamed(g, r) == [uid |-> g.uid, key |-> r.to, former |-> g.former \cup {r.from}]

LEMMA PatchRenames ==
    ASSUME Sound, NEW f \in FileContents, f # None, NEW r \in Rekeys
    PROVE  /\ One(f) \in IssueFiles /\ One(f) \in Versions(f)
           /\ Renamed(One(f), r) \in IssueFiles
           /\ Patched(f, r) \in FileContents /\ Patched(f, r) # None
           /\ f \in IssueFiles =>
                 /\ One(f) = f /\ Patched(f, r) = Renamed(f, r)
                 /\ Patched(f, r) \in IssueFiles
           /\ f \in Conflicts => /\ Patched(f, r) \in Conflicts /\ One(f) = f.ours
                                 /\ Patched(f, r).ours = Renamed(f.ours, r)
                                 /\ Patched(f, r).theirs = f.theirs
           /\ Uid(Patched(f, r)) = Uid(f)
<1>1. /\ Readable(f) <=> f \in IssueFiles
      /\ Conflict(f) <=> f \in Conflicts
      /\ f \in IssueFiles => Versions(f) = {f} /\ f # None /\ f \notin Conflicts
      /\ f \in Conflicts => Versions(f) = {f.ours, f.theirs}
  BY VersionsOfFile
<1>2. f \in IssueFiles \/ f \in Conflicts
  BY DEF FileContents
<1>3. One(f) \in IssueFiles /\ One(f) \in Versions(f)
  BY <1>1, <1>2 DEF One, Conflicts
<1>4. ASSUME NEW g \in IssueFiles
      PROVE  /\ Renamed(g, r) \in IssueFiles
             /\ patchRekey(g, r.from, r.to) = Renamed(g, r)
  <2>1. r.to \in Nat /\ r.from \in Nat
    BY DEF Rekeys
  <2>5. g \in [uid: Uids, key: Nat, former: SUBSET Nat] /\ IsFiniteSet(g.former)
    BY FilesOfIssues
  <2>2. IsFiniteSet(g.former \cup {r.from})
    BY <2>5, FS_AddElement
  <2>3. Renamed(g, r) \in IssueFiles
    <3>1. Renamed(g, r) \in [uid: Uids, key: Nat, former: SUBSET Nat]
      BY <2>1, <2>5 DEF Renamed
    <3>2. IsFiniteSet(Renamed(g, r).former)
      BY <2>2 DEF Renamed
    <3> QED BY <3>1, <3>2, FilesOfIssues
  <2>4. patchRekey(g, r.from, r.to) = Renamed(g, r)
    <3>1. PICK a, S : a = r.to /\ S = g.former \cup {r.from}
      OBVIOUS
    <3>2. patchRekey(g, r.from, r.to) = [g EXCEPT !.key = a, !.former = S]
      BY <3>1, Zenon DEF patchRekey
    <3>3. [g EXCEPT !.key = a, !.former = S] = [uid |-> g.uid, key |-> a, former |-> S]
      <4>1. PICK x, y, z : g = [uid |-> x, key |-> y, former |-> z]
        BY <2>5
      <4>2. [g EXCEPT !.key = a] = [uid |-> x, key |-> a, former |-> z]
        BY <4>1
      <4>3. PICK h : h = [g EXCEPT !.key = a]
        OBVIOUS
      <4>7. h = [uid |-> x, key |-> a, former |-> z]
        BY <4>2, <4>3
      <4>4. [h EXCEPT !.former = S] = [uid |-> x, key |-> a, former |-> S]
        BY <4>7
      <4>5. [g EXCEPT !.key = a, !.former = S] = [h EXCEPT !.former = S]
        BY <4>3, Zenon
      <4>6. g.uid = x
        BY <4>1
      <4> QED BY <4>4, <4>5, <4>6
    <3> QED BY <3>1, <3>2, <3>3 DEF Renamed
  <2> QED BY <2>3, <2>4
<1>5. Renamed(One(f), r) \in IssueFiles
  BY <1>3, <1>4
<1>6. ASSUME f \in IssueFiles
      PROVE  /\ One(f) = f /\ Patched(f, r) = Renamed(f, r)
             /\ Patched(f, r) \in IssueFiles
  <2>1. One(f) = f /\ ~Conflict(f)
    BY <1>1, <1>6 DEF One
  <2> QED BY <1>4, <1>6, <2>1 DEF Patched
<1>7. ASSUME f \in Conflicts
      PROVE  /\ Patched(f, r) \in Conflicts /\ One(f) = f.ours
             /\ Patched(f, r).ours = Renamed(f.ours, r)
             /\ Patched(f, r).theirs = f.theirs
  <2>1. One(f) = f.ours /\ Conflict(f)
    BY <1>1, <1>7 DEF One
  <2>2. Patched(f, r) = [f EXCEPT !.ours = Renamed(f.ours, r)]
    BY <1>3, <1>4, <2>1 DEF Patched
  <2>3. PICK new : new = Renamed(f.ours, r)
    OBVIOUS
  <2>4. new \in IssueFiles
    BY <1>5, <2>1, <2>3
  <2>5. Patched(f, r) = [f EXCEPT !.ours = new]
    BY <2>2, <2>3
  <2>6. Patched(f, r) = [ours |-> new, theirs |-> f.theirs]
    BY <1>7, <2>5 DEF Conflicts
  <2> QED BY <1>7, <2>1, <2>3, <2>4, <2>6 DEF Conflicts
<1>8. Patched(f, r) \in FileContents /\ Patched(f, r) # None
  <2>1. None \notin IssueFiles /\ None \notin Conflicts
    BY DEF Sound, Conflicts
  <2> QED BY <1>2, <1>6, <1>7, <2>1 DEF FileContents
<1>9. Uid(Patched(f, r)) = Uid(f)
  <2>1. CASE f \in IssueFiles
    <3>1. Patched(f, r).uid = f.uid
      BY <1>6, <2>1 DEF Renamed
    <3> QED BY <1>1, <1>6, <1>8, <2>1, <3>1, SingleFile
  <2>2. CASE f \in Conflicts
    <3>1. Patched(f, r).ours.uid = f.ours.uid
      BY <1>7, <2>2 DEF Renamed
    <3> QED BY <1>7, <2>2, <3>1, ClashFile
  <2> QED BY <1>2, <2>1, <2>2
<1> QED BY <1>3, <1>5, <1>6, <1>7, <1>8, <1>9

(* One file of one clone is written.                                       *)
Placed(k, p, f, t) ==
    /\ t \in GitTrees /\ t.issues = [tree[k].issues EXCEPT ![p] = f]
    /\ t.bodies = tree[k].bodies /\ t.logs = tree[k].logs
    /\ t.issues[p] = f /\ \A q \in Places : q # p => t.issues[q] = tree[k].issues[q]

LEMMA OneFileWritten ==
    ASSUME Branches, NEW k \in Clone, NEW p \in Places, NEW f \in FileContents,
           tree' = [tree EXCEPT ![k].issues[p] = f]
    PROVE  Placed(k, p, f, tree'[k]) /\ tree' = [tree EXCEPT ![k] = tree'[k]]
<1>1. tree[k] \in GitTrees /\ tree \in [Clone -> GitTrees]
  BY DEF Branches
<1>2. tree'[k] = [tree[k] EXCEPT !.issues = [tree[k].issues EXCEPT ![p] = f]]
  BY <1>1
<1>3. tree' = [tree EXCEPT ![k] = tree'[k]]
  BY <1>1, <1>2
<1>4. PICK is : is = [tree[k].issues EXCEPT ![p] = f]
  OBVIOUS
<1>5. is \in [Places -> FileContents] /\ is[p] = f
      /\ \A q \in Places : q # p => is[q] = tree[k].issues[q]
  BY <1>1, <1>4 DEF GitTrees
<1>6. tree'[k] = [issues |-> is, bodies |-> tree[k].bodies, logs |-> tree[k].logs]
  BY <1>1, <1>2, <1>4 DEF GitTrees
<1>7. tree'[k] \in GitTrees
  BY <1>1, <1>5, <1>6 DEF GitTrees
<1> QED BY <1>3, <1>4, <1>5, <1>6, <1>7 DEF Placed

(* The issues stay where they are.                                         *)
LEMMA NobodyMoves ==
    ASSUME Housed, NEW k \in Clone, NEW t \in GitTrees,
           tree' = [tree EXCEPT ![k] = t], origin' = origin, base' = base,
           \A p \in Places : Of(t, p) = Of(tree[k], p),
           \A p \in Places : tree[k].issues[p] # None => t.issues[p] # None
    PROVE  Housed'
<1>1. Alone(tree[k])
  BY TheStores DEF Housed, NoTwins
<1>2. Alone(t)
  <2>1. \A p \in Places : Solo(t.issues[p]) = Solo(tree[k].issues[p])
    BY DEF Solo, Of
  <2> QED BY <1>1, <2>1 DEF Alone
<1>3. PICK N : N = {}
  OBVIOUS
<1>4. Grows(tree[k], t, N)
  BY <1>2, <1>3 DEF Grows, Inhabitants
<1>5. \A s \in Stores : N \cap Inhabitants(s) = {}
  BY <1>3
<1> QED BY <1>4, <1>5, LocalStep

(* Nor does anything else that is said of where they live, while the files *)
(* of issues and what the issues have had stay the same.                   *)
LEMMA SameIssuesHoused ==
    ASSUME Housed, NEW k \in Clone, NEW t \in GitTrees, t.issues = tree[k].issues,
           tree' = [tree EXCEPT ![k] = t], origin' = origin, base' = base
    PROVE  Housed'
BY NobodyMoves DEF Of

-----------------------------------------------------------------------------
(* An issue is created under a number that no store knows.                 *)

LEMMA NobodyKnows ==
    ASSUME CloneInv, NEW u \in Uids, u \notin Met, NEW s \in Stores
    PROVE  u \notin Inhabitants(s)
<1>1. \A k \in Clone : u \notin Inhabitants(tree[k])
  BY DEF CloneInv, Numbered, Met
<1>2. u \notin Inhabitants(origin)
  BY DEF CloneInv, Numbered
<1>3. \A k \in Clone : u \notin Inhabitants(base[k])
  BY <1>2 DEF CloneInv, Housed, Travelled
<1> QED BY <1>1, <1>2, <1>3 DEF Stores

NewKey(k, n) ==
    LET known == {p \in Places : Row(k, p) # None}
    IN n = allocateKey({Row(k, p).key : p \in known}, UNION {Row(k, p).former : p \in known},
                         {p[1] : p \in {q \in Places : rows[k][q].state = "INVALID"}})

Created(k, p, u, f) ==
    /\ u \in Uids /\ u \notin Met /\ Met \cup {u} = 1..u
    /\ p \in Places /\ p[1] \in Keys /\ NewKey(k, p[1])
    /\ f \in IssueFiles /\ f.uid = u /\ f.key = p[1] /\ f.former = {}
    /\ tree[k].issues[p] = None
    /\ Placed(k, p, f, tree'[k]) /\ tree' = [tree EXCEPT ![k] = tree'[k]]
    /\ rows' = [rows EXCEPT ![k][p] = [state |-> "OK", file |-> f]]
    /\ had' = [had EXCEPT ![k][u] = @ \cup {p[1]}]
    /\ muddled' = IF k \in crossed' THEN muddled \cup {u} ELSE muddled

LEMMA CreateCreates ==
    ASSUME CloneInv, NEW k \in Clone, createIssue(k)
    PROVE  \E p, u, f : Created(k, p, u, f)
<1> DEFINE u == Cardinality(Met) + 1
           known == {p \in Places : Row(k, p) # None}
           n == allocateKey({Row(k, p).key : p \in known}, UNION {Row(k, p).former : p \in known},
                         {p[1] : p \in {q \in Places : rows[k][q].state = "INVALID"}})
           f == Issue(u, n)
           p == <<n, 0>>
<1>1. /\ u \in Uids /\ n \in Keys
      /\ tree[k].issues[p] = None
      /\ WriteIssue(k, p, f)
      /\ muddled' = IF k \in crossed' THEN muddled \cup {u} ELSE muddled
  BY DEF createIssue, Met
<1>2. PICK m \in 0..MaxUid : Met = 1..m
  BY DEF CloneInv, Numbered
<1>3. MaxUid \in Nat /\ MaxKey \in Nat
  BY DEF CloneInv, Housed, Branches, Sound
<1>4. Cardinality(Met) = m
  BY <1>2, <1>3, FS_Interval
<1>5. u \notin Met /\ Met \cup {u} = 1..u
  BY <1>2, <1>3, <1>4
<1>6. p \in Places /\ p[1] = n
  BY <1>1 DEF Places
<1>7. f \in IssueFiles /\ f.uid = u /\ f.key = n /\ f.former = {}
  <2>1. f = [uid |-> u, key |-> n, former |-> {}]
    BY DEF Issue
  <2>2. n \in Nat /\ u \in Uids
    BY <1>1, <1>3 DEF Keys
  <2>3. IsFiniteSet({})
    BY FS_EmptySet
  <2> HIDE DEF f, n, u
  <2>4. /\ f \in [uid: Uids, key: Nat, former: SUBSET Nat]
        /\ f.uid = u /\ f.key = n /\ f.former = {}
    BY <2>1, <2>2
  <2> QED BY <2>3, <2>4, FilesOfIssues
<1>8. NewKey(k, p[1])
  BY <1>6 DEF NewKey
<1> HIDE DEF f, n, u
<1>9. /\ tree' = [tree EXCEPT ![k].issues[p] = f]
      /\ rows' = [rows EXCEPT ![k][p] = [state |-> "OK", file |-> f]]
      /\ had' = [had EXCEPT ![k][u] = @ \cup {p[1]}]
  BY <1>1, <1>6, <1>7 DEF WriteIssue
<1> HIDE DEF p
<1>10. Placed(k, p, f, tree'[k]) /\ tree' = [tree EXCEPT ![k] = tree'[k]]
  BY <1>6, <1>7, <1>9, OneFileWritten DEF CloneInv, Housed, FileContents
<1>11. Created(k, p, u, f)
  BY <1>1, <1>5, <1>6, <1>7, <1>8, <1>9, <1>10 DEF Created
<1> QED BY <1>11

LEMMA CreateHouses ==
    ASSUME CloneInv, NEW k \in Clone, NEW p, NEW u, NEW f, Created(k, p, u, f),
           origin' = origin, base' = base
    PROVE  /\ Housed'
           /\ Inhabitants(tree'[k]) = Inhabitants(tree[k]) \cup {u}
           /\ \A q \in Places : q # p => Of(tree'[k], q) = Of(tree[k], q)
           /\ Of(tree'[k], p) = {u}
<1> DEFINE s == tree[k]
           t == tree'[k]
<1>1. /\ u \in Uids /\ u \notin Met /\ p \in Places /\ f \in IssueFiles /\ f.uid = u
      /\ s.issues[p] = None /\ t \in GitTrees /\ tree' = [tree EXCEPT ![k] = t]
      /\ t.issues[p] = f /\ \A q \in Places : q # p => t.issues[q] = s.issues[q]
  BY DEF Created, Placed
<1>2. Sound /\ s \in Stores
  BY TheStores DEF CloneInv, Housed, Branches
<1>3. Of(t, p) = {u} /\ Solo(t.issues[p]) = {u}
  <2>1. f # None
    BY <1>1, <1>2 DEF Sound
  <2> QED BY <1>1, <1>2, <2>1, SingleFile DEF Of
<1>4. Of(s, p) = {}
  BY <1>1, <1>2, SingleFile DEF Of
<1>5. \A q \in Places : q # p => Of(t, q) = Of(s, q)
  BY <1>1 DEF Of
<1>6. \A r \in Stores : u \notin Inhabitants(r)
  BY <1>1, NobodyKnows
<1>7. PICK N : N = {u}
  OBVIOUS
<1>8. Inhabitants(t) = Inhabitants(s) \cup N
  BY <1>1, <1>3, <1>4, <1>5, <1>7 DEF Inhabitants
<1>9. Alone(t)
  <2>1. \A q \in Places : u \notin Of(s, q)
    BY <1>2, <1>6 DEF Inhabitants
  <2>2. Alone(s)
    BY <1>2 DEF CloneInv, Housed, NoTwins
  <2>3. \A q \in Places : q # p => Solo(t.issues[q]) = Solo(s.issues[q])
    BY <1>1
  <2>4. \A q \in Places : u \notin Solo(s.issues[q])
    BY <2>1 DEF Solo, Of
  <2> QED BY <1>3, <2>2, <2>3, <2>4 DEF Alone
<1>10. Grows(s, t, N)
  <2>1. \A q \in Places : s.issues[q] # None => t.issues[q] # None
    BY <1>1
  <2>2. \A q \in Places : \A v \in Of(t, q) :
            v \in N \/ \E r \in Places : r[1] = q[1] /\ v \in Of(s, r)
    BY <1>3, <1>5, <1>7
  <2>3. \A q, r \in Places : \A v \in N : v \in Of(t, q) /\ v \in Of(t, r) => q[1] = r[1]
    <3>1. \A q \in Places : u \in Of(t, q) => q = p
      BY <1>2, <1>5, <1>6 DEF Inhabitants
    <3> QED BY <1>7, <3>1
  <2> QED BY <1>8, <1>9, <2>1, <2>2, <2>3 DEF Grows
<1>11. \A r \in Stores : N \cap Inhabitants(r) = {}
  BY <1>6, <1>7
<1>12. Housed'
  BY <1>1, <1>10, <1>11, LocalStep DEF CloneInv
<1> QED BY <1>3, <1>5, <1>7, <1>8, <1>12

LEMMA FilesStay ==
    ASSUME Housed, tree' = tree, origin' = origin, base' = base
    PROVE  Housed'
<1>1. Branches'
  BY DEF Housed, Branches, Settled
<1>2. Stores' = Stores
  BY DEF Stores
<1>3. NoTwins'
  <2>1. \A s \in Stores' : Alone(s)
    BY <1>2 DEF Housed, NoTwins
  <2> QED BY <2>1 DEF NoTwins, Alone
<1>4. Homed'
  <2>1. \A s, t \in Stores', p, q \in Places : Of(s, p) \cap Of(t, q) # {} => p[1] = q[1]
    BY <1>2 DEF Housed, Homed
  <2> QED BY <2>1 DEF Homed, Of
<1>5. Travelled'
  <2>1. /\ \A j \in Clone :
             /\ Inhabitants(base'[j]) \subseteq Inhabitants(origin')
             /\ Inhabitants(base'[j]) \subseteq Inhabitants(tree'[j])
             /\ Inhabitants(origin') \cap Inhabitants(tree'[j]) \subseteq Inhabitants(base'[j])
        /\ \A i, j \in Clone : i # j =>
             Inhabitants(tree'[i]) \cap Inhabitants(tree'[j]) \subseteq Inhabitants(origin')
    BY DEF Housed, Travelled
  <2> QED BY <2>1 DEF Travelled, Inhabitants, Of
<1> QED BY <1>1, <1>3, <1>4, <1>5 DEF Housed

-----------------------------------------------------------------------------
(* A rekey is applied to the file that is there.                           *)

Rewritten(k, r, f) ==
    /\ Placed(k, r.path, Patched(f, r), tree'[k]) /\ tree' = [tree EXCEPT ![k] = tree'[k]]
    /\ rows' = [rows EXCEPT ![k][r.path] = Indexed(k, r.path, Patched(f, r))]
    /\ had' = [had EXCEPT ![k][One(f).uid] = @ \cup {r.to}]
    /\ moves' = moves \cup {[uid |-> One(f).uid, from |-> r.from, to |-> r.to, of |-> seen[k]]}
    /\ muddled' = IF k \in crossed THEN muddled \cup {One(f).uid} ELSE muddled
LeftAlone == tree' = tree /\ rows' = rows /\ had' = had /\ muddled' = muddled /\ moves' = moves
Applied(k, r, f) ==
    /\ plan[k] # <<>> /\ r = plan[k][1] /\ r \in Rekeys /\ r.path \in Places
    /\ f = tree[k].issues[r.path] /\ f \in FileContents /\ f # None
    /\ plan' = [plan EXCEPT ![k] = Tail(plan[k])]
    /\ \/ Patched(f, r) = f /\ LeftAlone
       \/ Patched(f, r) # f /\ Rewritten(k, r, f)

LEMMA RekeyApplies ==
    ASSUME CloneInv, NEW k \in Clone, applyRekey(k)
    PROVE  \E r, f : Applied(k, r, f)
<1>1. PICK r : r = plan[k][1]
  OBVIOUS
<1>2. PICK f : f = tree[k].issues[r.path]
  OBVIOUS
<1>3. plan[k] \in Seq(Rekeys) /\ plan[k] # <<>>
  BY DEF applyRekey, CloneInv, Tables
<1>4. Head(plan[k]) = r /\ r \in Rekeys /\ r.path \in Places /\ 1 \in 1..Len(plan[k])
  <2>1. PICK todo : todo = plan[k]
    OBVIOUS
  <2>2. Head(todo) = todo[1] /\ todo[1] \in Rekeys /\ 1 \in 1..Len(todo)
    BY <1>3, <2>1, EmptySeq, LenProperties
  <2>3. todo[1].path \in Places
    BY <2>2 DEF Rekeys
  <2> QED BY <1>1, <2>1, <2>2, <2>3
<1>5. f \in FileContents
  BY <1>2, <1>4 DEF CloneInv, Housed, Branches, GitTrees
<1>6. f # None
  BY <1>1, <1>2, <1>4 DEF CloneInv, Planned, PlannedAt
<1>7. plan' = [plan EXCEPT ![k] = Tail(plan[k])]
  BY DEF applyRekey, CloneInv, Tables
<1>8. IF Patched(f, r) = f THEN LeftAlone
      ELSE /\ tree' = [tree EXCEPT ![k].issues[r.path] = Patched(f, r)]
           /\ rows' = [rows EXCEPT ![k][r.path] = Indexed(k, r.path, Patched(f, r))]
           /\ had' = [had EXCEPT ![k][One(f).uid] = @ \cup {r.to}]
           /\ moves' = moves \cup {[uid |-> One(f).uid, from |-> r.from, to |-> r.to,
                                    of |-> seen[k]]}
           /\ muddled' = IF k \in crossed THEN muddled \cup {One(f).uid} ELSE muddled
  BY <1>2, <1>4, Zenon DEF applyRekey, One, Patched, LeftAlone
<1>9. ASSUME Patched(f, r) # f
      PROVE  Rewritten(k, r, f)
  <2>1. Patched(f, r) \in FileContents
    BY <1>4, <1>5, <1>6, PatchRenames DEF CloneInv, Housed, Branches
  <2>2. PICK g : g = Patched(f, r)
    OBVIOUS
  <2>3. Placed(k, r.path, g, tree'[k]) /\ tree' = [tree EXCEPT ![k] = tree'[k]]
    BY <1>4, <1>8, <1>9, <2>1, <2>2, OneFileWritten DEF CloneInv, Housed
  <2> QED BY <1>8, <1>9, <2>2, <2>3 DEF Rewritten
<1> QED BY <1>1, <1>2, <1>3, <1>4, <1>5, <1>6, <1>7, <1>8, <1>9 DEF Applied

LEMMA RekeyHouses ==
    ASSUME CloneInv, NEW k \in Clone, NEW r, NEW f, Applied(k, r, f),
           origin' = origin, base' = base
    PROVE  /\ Housed'
           /\ \A j \in Clone, p \in Places : Of(tree'[j], p) = Of(tree[j], p)
<1>1. CASE LeftAlone
  <2>1. Housed'
    BY <1>1, FilesStay DEF LeftAlone, CloneInv
  <2> QED BY <1>1, <2>1 DEF LeftAlone
<1>2. CASE Rewritten(k, r, f)
  <2>1. Placed(k, r.path, Patched(f, r), tree'[k]) /\ tree' = [tree EXCEPT ![k] = tree'[k]]
    BY <1>2 DEF Rewritten
  <2>2. /\ f \in FileContents /\ f # None /\ r \in Rekeys /\ f = tree[k].issues[r.path]
        /\ r.path \in Places /\ Sound /\ tree \in [Clone -> GitTrees]
    BY DEF Applied, CloneInv, Housed, Branches
  <2>3. Uid(Patched(f, r)) = Uid(f) /\ Patched(f, r) # None
    BY <2>2, PatchRenames
  <2>4. \A p \in Places : Of(tree'[k], p) = Of(tree[k], p)
    BY <2>1, <2>2, <2>3 DEF Of, Placed
  <2>5. \A p \in Places : tree[k].issues[p] # None => tree'[k].issues[p] # None
    BY <2>1, <2>2, <2>3 DEF Placed
  <2>6. tree'[k] \in GitTrees
    BY <2>1 DEF Placed
  <2>7. PICK t \in GitTrees : t = tree'[k]
    BY <2>6
  <2>8. /\ tree' = [tree EXCEPT ![k] = t]
        /\ \A p \in Places : Of(t, p) = Of(tree[k], p)
        /\ \A p \in Places : tree[k].issues[p] # None => t.issues[p] # None
    BY <2>1, <2>4, <2>5, <2>7
  <2>9. Housed'
    BY <2>8, NobodyMoves DEF CloneInv
  <2>10. \A j \in Clone, p \in Places : Of(tree'[j], p) = Of(tree[j], p)
    BY <2>2, <2>4, <2>8
  <2> QED BY <2>9, <2>10
<1> QED BY <1>1, <1>2 DEF Applied

-----------------------------------------------------------------------------
(* A person settles a clash.                                               *)

Two(k, p, g, h) ==
    /\ tree[k].issues[p] \in Conflicts /\ g \in IssueFiles /\ h \in IssueFiles
    /\ g.uid # h.uid /\ Versions(tree[k].issues[p]) = {g, h}
Split(k, p, q, g, h) ==
    /\ Two(k, p, g, h) /\ p \in Places /\ q \in Places /\ q # p /\ q[1] = p[1]
    /\ tree[k].issues[q] = None
    /\ tree'[k] \in GitTrees /\ tree' = [tree EXCEPT ![k] = tree'[k]]
    /\ tree'[k].issues[p] = g /\ tree'[k].issues[q] = h
    /\ \A r \in Places : r # p /\ r # q => tree'[k].issues[r] = tree[k].issues[r]
    /\ tree'[k].logs = tree[k].logs /\ muddled' = muddled

LEMMA KeepBothSplits ==
    ASSUME CloneInv, NEW k \in Clone, NEW p \in Places, KeepBoth(k, p)
    PROVE  \E q, g, h : Split(k, p, q, g, h)
<1>1. PICK q : q = <<p[1], 1>>
  OBVIOUS
<1>2. PICK f : f = tree[k].issues[p]
  OBVIOUS
<1>3. /\ Conflict(f) /\ f.ours.uid # f.theirs.uid /\ q \in Places
      /\ tree[k].issues[q] = None /\ muddled' = muddled
      /\ \/ tree' = [tree EXCEPT ![k].issues = [@ EXCEPT ![p] = f.ours, ![q] = f.theirs]]
         \/ tree' = [tree EXCEPT ![k].issues = [@ EXCEPT ![p] = f.theirs, ![q] = f.ours]]
  BY <1>1, <1>2, Zenon DEF KeepBoth
<1>4. /\ Sound /\ tree \in [Clone -> GitTrees] /\ f \in FileContents
  BY <1>2 DEF CloneInv, Housed, Branches, GitTrees
<1>5. f \in Conflicts /\ f # None /\ Versions(f) = {f.ours, f.theirs}
      /\ f.ours \in IssueFiles /\ f.theirs \in IssueFiles
  BY <1>3, <1>4, VersionsOfFile DEF Conflicts
<1>6. q # p /\ q[1] = p[1]
  BY <1>1, <1>2, <1>3, <1>5
<1>7. ASSUME NEW g \in IssueFiles, NEW h \in IssueFiles,
             tree' = [tree EXCEPT ![k].issues = [@ EXCEPT ![p] = g, ![q] = h]]
      PROVE  /\ tree'[k] \in GitTrees /\ tree' = [tree EXCEPT ![k] = tree'[k]]
             /\ tree'[k].issues[p] = g /\ tree'[k].issues[q] = h
             /\ \A r \in Places : r # p /\ r # q => tree'[k].issues[r] = tree[k].issues[r]
             /\ tree'[k].logs = tree[k].logs
  <2>1. PICK is : is = [tree[k].issues EXCEPT ![p] = g, ![q] = h]
    OBVIOUS
  <2>2. tree[k].issues \in [Places -> FileContents]
    BY <1>4 DEF GitTrees
  <2>3. g \in FileContents /\ h \in FileContents
    BY DEF FileContents
  <2>4. is \in [Places -> FileContents] /\ is[p] = g /\ is[q] = h
        /\ \A r \in Places : r # p /\ r # q => is[r] = tree[k].issues[r]
    BY <1>3, <1>6, <2>1, <2>2, <2>3
  <2>5. tree' = [tree EXCEPT ![k] = [tree[k] EXCEPT !.issues = is]]
    BY <1>4, <1>7, <2>1
  <2>6. tree'[k] = [tree[k] EXCEPT !.issues = is] /\ tree' = [tree EXCEPT ![k] = tree'[k]]
    BY <1>4, <2>5
  <2>7. tree[k] \in GitTrees
    BY <1>4
  <2>8. tree'[k] = [issues |-> is, bodies |-> tree[k].bodies, logs |-> tree[k].logs]
    BY <2>6, <2>7 DEF GitTrees
  <2> QED BY <2>4, <2>6, <2>7, <2>8 DEF GitTrees
<1>8. \E g, h \in {f.ours, f.theirs} :
          /\ {g, h} = {f.ours, f.theirs} /\ g.uid # h.uid
          /\ tree' = [tree EXCEPT ![k].issues = [@ EXCEPT ![p] = g, ![q] = h]]
  <2>1. CASE tree' = [tree EXCEPT ![k].issues = [@ EXCEPT ![p] = f.ours, ![q] = f.theirs]]
    BY <1>3, <2>1
  <2>2. CASE tree' = [tree EXCEPT ![k].issues = [@ EXCEPT ![p] = f.theirs, ![q] = f.ours]]
    BY <1>3, <2>2
  <2> QED BY <1>3, <2>1, <2>2
<1>9. PICK g, h \in {f.ours, f.theirs} :
          /\ {g, h} = {f.ours, f.theirs} /\ g.uid # h.uid
          /\ tree' = [tree EXCEPT ![k].issues = [@ EXCEPT ![p] = g, ![q] = h]]
  BY <1>8
<1>10. Two(k, p, g, h)
  BY <1>2, <1>5, <1>9 DEF Two
<1>11. Split(k, p, q, g, h)
  BY <1>3, <1>5, <1>6, <1>7, <1>9, <1>10 DEF Split
<1> QED BY <1>11

LEMMA SplitHouses ==
    ASSUME CloneInv, NEW k \in Clone, NEW p, NEW q, NEW g, NEW h, Split(k, p, q, g, h),
           origin' = origin, base' = base
    PROVE  /\ Housed'
           /\ Inhabitants(tree'[k]) = Inhabitants(tree[k])
<1> DEFINE s == tree[k]
           t == tree'[k]
<1>1. /\ p \in Places /\ q \in Places /\ q # p /\ q[1] = p[1]
      /\ s.issues[q] = None /\ t \in GitTrees /\ tree' = [tree EXCEPT ![k] = t]
      /\ t.issues[p] = g /\ t.issues[q] = h
      /\ \A r \in Places : r # p /\ r # q => t.issues[r] = s.issues[r]
      /\ g \in IssueFiles /\ h \in IssueFiles /\ g.uid # h.uid
      /\ s.issues[p] \in Conflicts /\ Versions(s.issues[p]) = {g, h}
  BY DEF Split, Two
<1>2. Sound /\ s \in Stores
  BY TheStores DEF CloneInv, Housed, Branches
<1>3. Of(s, p) = {g.uid, h.uid} /\ Of(s, q) = {} /\ s.issues[p] # None
  <2>1. Of(s, p) = {g.uid, h.uid}
    BY <1>1 DEF Of, Uid
  <2>2. Of(s, q) = {}
    BY <1>1, <1>2, SingleFile DEF Of
  <2>3. s.issues[p] # None
    BY <1>1, <1>2 DEF Sound, Conflicts
  <2> QED BY <2>1, <2>2, <2>3
<1>4. /\ Of(t, p) = {g.uid} /\ Solo(t.issues[p]) = {g.uid} /\ g # None
      /\ Of(t, q) = {h.uid} /\ Solo(t.issues[q]) = {h.uid} /\ h # None
  <2>1. g # None /\ h # None
    BY <1>1, <1>2 DEF Sound
  <2> QED BY <1>1, <1>2, <2>1, SingleFile DEF Of
<1>5. \A r \in Places : r # p /\ r # q => Of(t, r) = Of(s, r)
  BY <1>1 DEF Of
<1>6. Inhabitants(t) = Inhabitants(s)
  BY <1>1, <1>3, <1>4, <1>5 DEF Inhabitants
<1>7. Alone(t)
  <2>1. Alone(s)
    BY <1>2 DEF CloneInv, Housed, NoTwins
  <2>2. ASSUME NEW r \in Places, r # p, r # q
        PROVE  g.uid \notin Solo(t.issues[r]) /\ h.uid \notin Solo(t.issues[r])
               /\ Solo(t.issues[r]) = Solo(s.issues[r])
    <3>1. t.issues[r] = s.issues[r]
      BY <1>1, <2>2
    <3>2. Of(s, r) \cap Of(s, p) = {}
      <4> SUFFICES ASSUME Of(s, r) \cap Of(s, p) # {} PROVE FALSE
        OBVIOUS
      <4>1. r[1] = p[1]
        BY <1>1, <1>2 DEF CloneInv, Housed, Homed
      <4> QED BY <1>1, <2>2, <4>1, OnePlaceMore
    <3>3. g.uid \notin Of(s, r) /\ h.uid \notin Of(s, r)
      BY <1>3, <3>2
    <3> QED BY <3>1, <3>3 DEF Solo, Of
  <2> QED BY <1>1, <1>4, <2>1, <2>2 DEF Alone
<1>8. PICK N : N = {}
  OBVIOUS
<1>9. Grows(s, t, N)
  <2>1. \A r \in Places : s.issues[r] # None => t.issues[r] # None
    BY <1>1, <1>4
  <2>2. Inhabitants(t) = Inhabitants(s) \cup N
    BY <1>6, <1>8
  <2>3. ASSUME NEW r \in Places, NEW v \in Of(t, r)
        PROVE  v \in N \/ \E x \in Places : x[1] = r[1] /\ v \in Of(s, x)
    <3>1. CASE r = p
      BY <1>1, <1>3, <1>4, <2>3, <3>1
    <3>2. CASE r = q
      BY <1>1, <1>3, <1>4, <2>3, <3>2
    <3>3. CASE r # p /\ r # q
      BY <1>5, <2>3, <3>3
    <3> QED BY <3>1, <3>2, <3>3
  <2> QED BY <1>7, <1>8, <2>1, <2>2, <2>3 DEF Grows
<1>10. \A r \in Stores : N \cap Inhabitants(r) = {}
  BY <1>8
<1>11. Housed'
  BY <1>1, <1>9, <1>10, LocalStep DEF CloneInv
<1> QED BY <1>6, <1>11

Chosen(k, p, g) ==
    /\ p \in Places /\ tree[k].issues[p] \in Conflicts
    /\ g \in IssueFiles /\ Uid(tree[k].issues[p]) = {g.uid}
    /\ Placed(k, p, g, tree'[k]) /\ tree' = [tree EXCEPT ![k] = tree'[k]]
    /\ muddled' = muddled \cup {g.uid}

LEMMA KeepOneChooses ==
    ASSUME CloneInv, NEW k \in Clone, NEW p \in Places, KeepOne(k, p)
    PROVE  \E g : Chosen(k, p, g)
<1>1. PICK f : f = tree[k].issues[p]
  OBVIOUS
<1>2. PICK g \in {f.ours, f.theirs} : tree' = [tree EXCEPT ![k].issues[p] = g]
  BY <1>1 DEF KeepOne
<1>3. /\ Conflict(f) /\ f.ours.uid = f.theirs.uid
      /\ muddled' = muddled \cup {f.ours.uid}
  BY <1>1 DEF KeepOne
<1>4. Sound /\ Branches /\ f \in FileContents
  BY <1>1 DEF CloneInv, Housed, Branches, GitTrees
<1>5. f \in Conflicts
  BY <1>3, <1>4, VersionsOfFile
<1>6. g \in IssueFiles /\ g.uid = f.ours.uid /\ Uid(f) = {g.uid}
  BY <1>2, <1>3, <1>4, <1>5, ClashFile DEF Conflicts
<1>7. Placed(k, p, g, tree'[k]) /\ tree' = [tree EXCEPT ![k] = tree'[k]]
  BY <1>2, <1>4, <1>6, OneFileWritten DEF FileContents
<1> QED BY <1>1, <1>3, <1>5, <1>6, <1>7 DEF Chosen

LEMMA ChoiceHouses ==
    ASSUME CloneInv, NEW k \in Clone, NEW p, NEW g, Chosen(k, p, g),
           origin' = origin, base' = base
    PROVE  /\ Housed'
           /\ Inhabitants(tree'[k]) = Inhabitants(tree[k])
<1>1. /\ p \in Places /\ g \in IssueFiles /\ Of(tree[k], p) = {g.uid}
      /\ tree'[k] \in GitTrees /\ tree' = [tree EXCEPT ![k] = tree'[k]]
      /\ tree'[k].issues[p] = g
      /\ \A q \in Places : q # p => tree'[k].issues[q] = tree[k].issues[q]
  BY DEF Chosen, Placed, Of
<1>2. Sound
  BY DEF CloneInv, Housed, Branches
<1>3. g # None /\ Of(tree'[k], p) = {g.uid}
  <2>1. g # None
    BY <1>1, <1>2 DEF Sound
  <2> QED BY <1>1, <1>2, <2>1, SingleFile DEF Of
<1>4. PICK t \in GitTrees : t = tree'[k]
  BY <1>1
<1>5. \A q \in Places : Of(t, q) = Of(tree[k], q)
  BY <1>1, <1>3, <1>4 DEF Of
<1>6. \A q \in Places : tree[k].issues[q] # None => t.issues[q] # None
  BY <1>1, <1>3, <1>4
<1>7. tree' = [tree EXCEPT ![k] = t]
  BY <1>1, <1>4
<1>8. Housed'
  BY <1>5, <1>6, <1>7, NobodyMoves DEF CloneInv
<1> QED BY <1>4, <1>5, <1>8 DEF Inhabitants

-----------------------------------------------------------------------------
(* A pull merges file by file.                                             *)

Pulled(k) ==
    /\ Settled(tree[k]) /\ Meet(tree[k], origin, base[k])
    /\ tree'[k] \in GitTrees /\ tree' = [tree EXCEPT ![k] = tree'[k]]
    /\ Merged(tree[k], origin, base[k], tree'[k])
    /\ \A c \in NoteIds :
          tree'[k].logs[c] = Merge3(tree[k].logs[c], origin.logs[c], base[k].logs[c],
                [lines |-> tree[k].logs[c].lines, theirs |-> origin.logs[c].lines])
    /\ base' = [base EXCEPT ![k] = origin] /\ origin' = origin

LEMMA PullPulls ==
    ASSUME CloneInv, NEW k \in Clone, pull(k)
    PROVE  Pulled(k)
<1> DEFINE m == tree[k]
           b == base[k]
           is == [p \in Places |-> Merge3(m.issues[p], origin.issues[p], b.issues[p],
                            [ours |-> m.issues[p], theirs |-> origin.issues[p]])]
           bodies == [c \in NoteIds |-> Merge3(m.bodies[c], origin.bodies[c], b.bodies[c],
                                                  m.bodies[c])]
           logs == [c \in NoteIds |-> Merge3(m.logs[c], origin.logs[c], b.logs[c],
                            [lines |-> m.logs[c].lines, theirs |-> origin.logs[c].lines])]
           t == [issues |-> is, bodies |-> bodies, logs |-> logs]
<1>1. /\ Settled(m) /\ tree' = [tree EXCEPT ![k] = t]
      /\ base' = [base EXCEPT ![k] = origin] /\ origin' = origin
  BY Zenon DEF pull
<1>2. /\ Sound /\ tree \in [Clone -> GitTrees] /\ m \in GitTrees /\ b \in GitTrees
      /\ origin \in GitTrees
  BY DEF CloneInv, Housed, Branches
<1>3. tree'[k] = t /\ tree' = [tree EXCEPT ![k] = tree'[k]]
  BY <1>1, <1>2
<1>4. Meet(m, origin, b)
  BY <1>1, TheyMeet DEF CloneInv
<1>5. t.issues = is /\ t.bodies = bodies /\ t.logs = logs
  OBVIOUS
<1>6. \A p \in Places : t.issues[p] = Merge3(m.issues[p], origin.issues[p], b.issues[p],
                            [ours |-> m.issues[p], theirs |-> origin.issues[p]])
  OBVIOUS
<1>7. \A c \in NoteIds : t.logs[c] = Merge3(m.logs[c], origin.logs[c], b.logs[c],
                [lines |-> m.logs[c].lines, theirs |-> origin.logs[c].lines])
  OBVIOUS
<1>8. is = [p \in Places |-> is[p]] /\ logs = [c \in NoteIds |-> logs[c]]
  OBVIOUS
<1>9. bodies \in [NoteIds -> Nat \cup {None}]
  <2>1. \A c \in NoteIds : m.bodies[c] \in Nat \cup {None} /\ origin.bodies[c] \in Nat \cup {None}
    BY <1>2 DEF GitTrees
  <2> QED BY <2>1 DEF Merge3
<1>14. t = [issues |-> is, bodies |-> bodies, logs |-> logs]
  OBVIOUS
<1> HIDE DEF t, is, bodies, logs
<1>10. Merged(m, origin, b, t)
  BY <1>4, <1>6, MergeMerges
<1>11. is \in [Places -> FileContents]
  <2>1. ASSUME NEW p \in Places
        PROVE  is[p] \in FileContents
    <3>1. m.issues[p] \in FileContents /\ origin.issues[p] \in FileContents
      BY <1>2 DEF GitTrees
    <3>2. Kept(m, origin, b, t, p) \/ Taken(m, origin, b, t, p) \/ Clashing(m, origin, b, t, p)
      BY <1>10 DEF Merged
    <3>3. t.issues[p] \in FileContents
      BY <3>1, <3>2 DEF Kept, Taken, Clashing, FileContents
    <3> QED BY <1>5, <3>3
  <2> QED BY <1>8, <2>1
<1>12. logs \in [NoteIds -> Logs]
  <2>1. ASSUME NEW c \in NoteIds
        PROVE  logs[c] \in Logs
    <3>1. m.logs[c] \in Logs /\ origin.logs[c] \in Logs
      BY <1>2 DEF GitTrees
    <3>2. [lines |-> m.logs[c].lines, theirs |-> origin.logs[c].lines] \in Logs
      BY <3>1 DEF Logs
    <3> QED BY <1>5, <1>7, <3>1, <3>2 DEF Merge3
  <2> QED BY <1>8, <2>1
<1>13. t \in GitTrees
  BY <1>9, <1>11, <1>12, <1>14 DEF GitTrees
<1> QED BY <1>1, <1>3, <1>4, <1>7, <1>10, <1>13 DEF Pulled

-----------------------------------------------------------------------------
(* A comment is written, or its log.                                       *)

LogWritten(k, c, log) ==
    /\ log \in Logs /\ c \in NoteIds
    /\ tree'[k] \in GitTrees /\ tree' = [tree EXCEPT ![k] = tree'[k]]
    /\ tree'[k].issues = tree[k].issues /\ tree'[k].logs = [tree[k].logs EXCEPT ![c] = log]
BodyWritten(k) ==
    /\ tree'[k] \in GitTrees /\ tree' = [tree EXCEPT ![k] = tree'[k]]
    /\ tree'[k].issues = tree[k].issues /\ tree'[k].logs = tree[k].logs

LEMMA OneLogWritten ==
    ASSUME Branches, NEW k \in Clone, NEW c \in NoteIds, NEW log \in Logs,
           tree' = [tree EXCEPT ![k].logs[c] = log]
    PROVE  LogWritten(k, c, log)
<1>1. tree[k] \in GitTrees /\ tree \in [Clone -> GitTrees]
  BY DEF Branches
<1>2. PICK logs : logs = [tree[k].logs EXCEPT ![c] = log]
  OBVIOUS
<1>3. logs \in [NoteIds -> Logs]
  BY <1>1, <1>2 DEF GitTrees
<1>4. tree' = [tree EXCEPT ![k] = [tree[k] EXCEPT !.logs = logs]]
  BY <1>1, <1>2
<1>5. tree'[k] = [tree[k] EXCEPT !.logs = logs] /\ tree' = [tree EXCEPT ![k] = tree'[k]]
  BY <1>1, <1>4
<1>6. tree'[k] = [issues |-> tree[k].issues, bodies |-> tree[k].bodies, logs |-> logs]
  BY <1>1, <1>5 DEF GitTrees
<1>7. tree'[k] \in GitTrees /\ tree'[k].issues = tree[k].issues /\ tree'[k].logs = logs
  BY <1>1, <1>3, <1>6 DEF GitTrees
<1> QED BY <1>2, <1>5, <1>7 DEF LogWritten

LEMMA OneBodyWritten ==
    ASSUME Branches, NEW k \in Clone, NEW c \in NoteIds, NEW body \in Nat,
           tree' = [tree EXCEPT ![k].bodies[c] = body]
    PROVE  BodyWritten(k)
<1>1. tree[k] \in GitTrees /\ tree \in [Clone -> GitTrees]
  BY DEF Branches
<1>2. PICK bodies : bodies = [tree[k].bodies EXCEPT ![c] = body]
  OBVIOUS
<1>3. bodies \in [NoteIds -> Nat \cup {None}]
  BY <1>1, <1>2 DEF GitTrees
<1>4. tree' = [tree EXCEPT ![k] = [tree[k] EXCEPT !.bodies = bodies]]
  BY <1>1, <1>2
<1>5. tree'[k] = [tree[k] EXCEPT !.bodies = bodies] /\ tree' = [tree EXCEPT ![k] = tree'[k]]
  BY <1>1, <1>4
<1>6. tree'[k] = [issues |-> tree[k].issues, bodies |-> bodies, logs |-> tree[k].logs]
  BY <1>1, <1>5 DEF GitTrees
<1>7. tree'[k] \in GitTrees /\ tree'[k].issues = tree[k].issues /\ tree'[k].logs = tree[k].logs
  BY <1>1, <1>3, <1>6 DEF GitTrees
<1> QED BY <1>5, <1>7 DEF BodyWritten

LEMMA CommentIsWritten ==
    ASSUME CloneInv, NEW k \in Clone, NEW c \in NoteIds, NEW n \in Keys, addComment(k, c, n)
    PROVE  BodyWritten(k)
BY OneBodyWritten DEF addComment, CloneInv, Housed

LEMMA TouchIsWritten ==
    ASSUME CloneInv, NEW k \in Clone, NEW c \in NoteIds, Touch(k, c)
    PROVE  BodyWritten(k)
<1>1. tree[k].bodies[c] \in Nat /\ tree \in [Clone -> GitTrees]
  BY DEF Touch, CloneInv, Housed, Branches, GitTrees
<1>2. PICK body \in Nat : body = tree[k].bodies[c] + 1
  BY <1>1
<1>3. tree' = [tree EXCEPT ![k].bodies[c] = body]
  BY <1>1, <1>2 DEF Touch, GitTrees
<1> QED BY <1>3, OneBodyWritten DEF CloneInv, Housed

LEMMA OpIsWritten ==
    ASSUME CloneInv, NEW k \in Clone, writeOp(k)
    PROVE  LET w == writes[k][1]
           IN /\ writes[k] # <<>> /\ w \in OpWrites /\ LogWritten(k, w.note, w.log)
              /\ writes' = [writes EXCEPT ![k] = Tail(writes[k])]
              /\ acked' = acked \cup {[at |-> k, note |-> w.note, id |-> -w.id]}
<1>1. PICK todo : todo = writes[k]
  OBVIOUS
<1>2. todo \in Seq(OpWrites) /\ todo # <<>>
  BY <1>1 DEF writeOp, CloneInv, Tables
<1>3. Head(todo) = todo[1] /\ todo[1] \in OpWrites
  BY <1>2, EmptySeq, LenProperties
<1>4. PICK w : w = todo[1]
  OBVIOUS
<1>5. w.note \in NoteIds /\ w.log \in Logs
  BY <1>3, <1>4 DEF OpWrites
<1>6. /\ tree' = [tree EXCEPT ![k].logs[w.note] = w.log]
      /\ acked' = acked \cup {[at |-> k, note |-> w.note, id |-> -w.id]}
      /\ writes' = [writes EXCEPT ![k] = Tail(@)]
  BY <1>1, <1>3, <1>4 DEF writeOp
<1>7. writes' = [writes EXCEPT ![k] = Tail(writes[k])]
  BY <1>6 DEF CloneInv, Tables
<1>8. LogWritten(k, w.note, w.log)
  BY <1>5, <1>6, OneLogWritten DEF CloneInv, Housed
<1> QED BY <1>1, <1>2, <1>3, <1>4, <1>6, <1>7, <1>8

LEMMA RangeIsFinite ==
    ASSUME NEW S, NEW seq \in Seq(S)
    PROVE  IsFiniteSet(Range(seq)) /\ Range(seq) \subseteq S
<1>1. seq \in [1..Len(seq) -> S] /\ Len(seq) \in Nat
  BY LenProperties
<1>2. PICK R : R = Range(seq)
  OBVIOUS
<1>3. R = {seq[i] : i \in 1..Len(seq)}
  BY <1>1, <1>2 DEF Range
<1>4. seq \in Surjection(1..Len(seq), R)
  BY <1>1, <1>3 DEF Surjection
<1>5. IsFiniteSet(1..Len(seq))
  BY <1>1, FS_Interval
<1>6. IsFiniteSet(R)
  BY <1>4, <1>5, FS_Surjection
<1> QED BY <1>1, <1>2, <1>3, <1>6

LEMMA PermutationsList ==
    ASSUME NEW L, IsFiniteSet(L), NEW more \in SetToSeqs(L)
    PROVE  more \in Seq(L) /\ Range(more) = L
<1>1. PICK n : n = Cardinality(L)
  OBVIOUS
<1>2. n \in Nat
  BY <1>1, FS_CardinalityType
<1>3. more \in [1..n -> L] /\ \A i, j \in 1..n : i # j => more[i] # more[j]
  BY <1>1 DEF SetToSeqs
<1>4. more \in Injection(1..n, L)
  BY <1>3 DEF Injection, IsInjective
<1>5. Cardinality(1..n) = n
  BY <1>2, FS_Interval
<1>6. more \in Surjection(1..n, L)
  BY <1>1, <1>4, <1>5, FS_Injection
<1>7. Range(more) = L
  BY <1>3, <1>6 DEF Surjection, Range
<1> QED BY <1>2, <1>3, <1>7, SeqDef

LEMMA RangeOfBoth ==
    ASSUME NEW S, NEW one \in Seq(S), NEW more \in Seq(S)
    PROVE  one \o more \in Seq(S) /\ Range(one \o more) = Range(one) \cup Range(more)
<1> DEFINE both == one \o more
<1>1. /\ both \in Seq(S) /\ Len(both) = Len(one) + Len(more)
      /\ \A i \in 1..(Len(one) + Len(more)) :
            both[i] = IF i <= Len(one) THEN one[i] ELSE more[i - Len(one)]
  BY ConcatProperties
<1> HIDE DEF both
<1>2. /\ Len(one) \in Nat /\ Len(more) \in Nat
      /\ DOMAIN one = 1..Len(one) /\ DOMAIN more = 1..Len(more)
      /\ DOMAIN both = 1..(Len(one) + Len(more))
  BY <1>1, LenProperties
<1>3. ASSUME NEW x \in Range(one)
      PROVE  x \in Range(both)
  <2>1. PICK i \in 1..Len(one) : x = one[i]
    BY <1>2 DEF Range
  <2>2. i \in 1..(Len(one) + Len(more)) /\ both[i] = x
    BY <1>1, <1>2, <2>1
  <2> QED BY <1>2, <2>2 DEF Range
<1>4. ASSUME NEW x \in Range(more)
      PROVE  x \in Range(both)
  <2>1. PICK i \in 1..Len(more) : x = more[i]
    BY <1>2 DEF Range
  <2>2. PICK j : j = Len(one) + i
    OBVIOUS
  <2>3. j \in 1..(Len(one) + Len(more)) /\ ~(j <= Len(one)) /\ j - Len(one) = i
    BY <1>2, <2>2
  <2>4. both[j] = x
    BY <1>1, <2>1, <2>3
  <2> QED BY <1>2, <2>3, <2>4 DEF Range
<1>5. ASSUME NEW x \in Range(both)
      PROVE  x \in Range(one) \cup Range(more)
  <2>1. PICK i \in 1..(Len(one) + Len(more)) : x = both[i]
    BY <1>2 DEF Range
  <2>2. CASE i <= Len(one)
    BY <1>1, <1>2, <2>1, <2>2 DEF Range
  <2>3. CASE ~(i <= Len(one))
    <3>1. i - Len(one) \in 1..Len(more) /\ x = more[i - Len(one)]
      BY <1>1, <1>2, <2>1, <2>3
    <3> QED BY <1>2, <3>1 DEF Range
  <2> QED BY <2>2, <2>3
<1> QED BY <1>1, <1>3, <1>4, <1>5 DEF both

LEMMA LinesAreWritten ==
    ASSUME CloneInv, NEW k \in Clone, NEW c \in NoteIds, KeepLines(k, c)
    PROVE  \E log : /\ LogWritten(k, c, log) /\ Ids(log) = Ids(tree[k].logs[c])
                    /\ muddled' = muddled
<1>1. tree[k].logs[c] \in Logs
  BY DEF CloneInv, Housed, Branches, GitTrees
<1>2. PICK old : old = tree[k].logs[c]
  OBVIOUS
<1>3. old.lines \in Seq(Lines) /\ old.theirs \in Seq(Lines)
  BY <1>1, <1>2 DEF Logs
<1>4. PICK L : L = Range(old.theirs) \ Range(old.lines)
  OBVIOUS
<1>5. PICK more \in SetToSeqs(L) :
          tree' = [tree EXCEPT ![k].logs[c] = [lines |-> old.lines \o more, theirs |-> <<>>]]
  BY <1>2, <1>4 DEF KeepLines
<1>6. L \subseteq Lines
  BY <1>3, <1>4, LenProperties DEF Range
<1>7. IsFiniteSet(L)
  <2>1. IsFiniteSet(Range(old.theirs))
    BY <1>3, RangeIsFinite
  <2>2. PICK R : R = Range(old.theirs)
    OBVIOUS
  <2>3. L \in SUBSET R
    BY <1>4, <2>2
  <2> QED BY <2>1, <2>2, <2>3, FS_Subset
<1>8. more \in Seq(L) /\ Range(more) = L
  BY <1>7, PermutationsList
<1>9. more \in Seq(Lines)
  BY <1>6, <1>8, SeqMonotonic
<1>10. PICK both : both = old.lines \o more
  OBVIOUS
<1>11. both \in Seq(Lines) /\ Range(both) = Range(old.lines) \cup L
  <2>1. PICK one : one = old.lines
    OBVIOUS
  <2>2. one \in Seq(Lines) /\ both = one \o more
    BY <1>3, <1>10, <2>1
  <2>3. both \in Seq(Lines) /\ Range(both) = Range(one) \cup Range(more)
    BY <1>9, <2>2, RangeOfBoth
  <2> QED BY <1>8, <2>1, <2>3
<1>12. PICK log : log = [lines |-> both, theirs |-> <<>>]
  OBVIOUS
<1>13. log \in Logs /\ log.lines = both /\ log.theirs = <<>>
  BY <1>11, <1>12, EmptySeq DEF Logs
<1>14. LogWritten(k, c, log)
  BY <1>5, <1>10, <1>12, <1>13, OneLogWritten DEF CloneInv, Housed
<1>15. Range(<<>>) = {}
  BY DEF Range
<1>16. Range(log.lines) \cup Range(log.theirs) = Range(old.lines) \cup Range(old.theirs)
  BY <1>4, <1>11, <1>13, <1>15
<1>17. Ids(log) = Ids(old)
  BY <1>16 DEF Ids
<1>18. muddled' = muddled
  BY DEF KeepLines
<1> QED BY <1>2, <1>14, <1>17, <1>18

-----------------------------------------------------------------------------
(* Every step leaves the issues where they live, and the numbers they have *)
(* been given in order.                                                    *)

HadIn(s, u) == {f.key : f \in {g \in {s.issues[p] : p \in Places} : g # None /\ g.uid = u}}

LEMMA WhatIsHad ==
    ASSUME Sound, NEW s, Singles(s), NEW u
    PROVE  /\ HadIn(s, u) \subseteq Nat
           /\ HadIn(s, u) # {} <=> u \in Inhabitants(s)
           /\ \A n \in HadIn(s, u) : \E p \in Places :
                 s.issues[p] \in IssueFiles /\ s.issues[p].uid = u /\ s.issues[p].key = n
                 /\ s.issues[p] \in Versions(s.issues[p])
<1>1. ASSUME NEW n \in HadIn(s, u)
      PROVE  \E p \in Places :
                 s.issues[p] \in IssueFiles /\ s.issues[p].uid = u /\ s.issues[p].key = n
                 /\ s.issues[p] \in Versions(s.issues[p])
  <2>1. PICK p \in Places : s.issues[p] # None /\ s.issues[p].uid = u /\ s.issues[p].key = n
    BY DEF HadIn
  <2>2. s.issues[p] \in IssueFiles /\ s.issues[p] \in FileContents
    BY <2>1 DEF Singles, FileContents
  <2>3. s.issues[p] \in Versions(s.issues[p])
    BY <2>2, VersionsOfFile
  <2> QED BY <2>1, <2>2, <2>3
<1>2. HadIn(s, u) \subseteq Nat
  <2>1. \A f \in IssueFiles : f.key \in Nat
    BY FilesOfIssues
  <2> QED BY <1>1, <2>1
<1>3. HadIn(s, u) # {} => u \in Inhabitants(s)
  <2>1. \A p \in Places : s.issues[p] \in Versions(s.issues[p]) => s.issues[p].uid \in Of(s, p)
    BY VersionHasUid
  <2> QED BY <1>1, <2>1 DEF Inhabitants
<1>4. ASSUME u \in Inhabitants(s)
      PROVE  HadIn(s, u) # {}
  <2>1. PICK p \in Places : u \in Of(s, p)
    BY <1>4 DEF Inhabitants
  <2>2. s.issues[p] # None /\ s.issues[p].uid = u
    <3>1. s.issues[p] \in IssueFiles \cup {None}
      BY DEF Singles
    <3> QED BY <2>1, <3>1, SingleFile DEF Of
  <2>3. s.issues[p].key \in HadIn(s, u)
    BY <2>2 DEF HadIn
  <2> QED BY <2>3
<1> QED BY <1>1, <1>2, <1>3, <1>4

LEMMA NumberedStays ==
    ASSUME CloneInv, \A j \in Clone : Inhabitants(tree'[j]) = Inhabitants(tree[j]),
           \A j \in Clone, u \in Uids : had'[j][u] # {} <=> had[j][u] # {},
           Inhabitants(origin') \subseteq Met
    PROVE  Numbered'
<1>1. Met' = Met
  BY DEF Met
<1>2. \A j \in Clone, u \in Uids : u \in Inhabitants(tree'[j]) <=> had'[j][u] # {}
  BY DEF CloneInv, Numbered
<1>3. \E n \in 0..MaxUid : Met' = 1..n
  BY <1>1 DEF CloneInv, Numbered
<1>4. Inhabitants(origin') \subseteq Met'
  BY <1>1
<1> QED BY <1>2, <1>3, <1>4 DEF Numbered, Inhabitants, Of

LEMMA UidsLiveHere ==
    ASSUME Sound, NEW s \in GitTrees
    PROVE  Inhabitants(s) \subseteq Uids
<1> SUFFICES ASSUME NEW p \in Places, NEW f \in Versions(s.issues[p])
             PROVE  f.uid \in Uids
  BY DEF Inhabitants, Of, Uid
<1>1. s.issues[p] \in FileContents
  BY DEF GitTrees
<1>2. f \in IssueFiles
  BY <1>1, VersionsOfFile
<1> QED BY <1>2, FilesOfIssues

LEMMA CreateNumbers ==
    ASSUME CloneInv, NEW k \in Clone, NEW p, NEW u, NEW f, Created(k, p, u, f),
           origin' = origin, base' = base
    PROVE  Numbered'
<1>1. /\ u \in Uids /\ u \notin Met /\ Met \cup {u} = 1..u
      /\ had' = [had EXCEPT ![k][u] = @ \cup {p[1]}] /\ tree' = [tree EXCEPT ![k] = tree'[k]]
  BY DEF Created
<1>2. Inhabitants(tree'[k]) = Inhabitants(tree[k]) \cup {u}
  BY CreateHouses
<1>3. had \in [Clone -> [Uids -> SUBSET Nat]] /\ tree \in [Clone -> GitTrees] /\ MaxUid \in Nat
  BY DEF CloneInv, Tables, Housed, Branches, Sound
<1>4. /\ had'[k][u] # {}
      /\ \A j \in Clone, v \in Uids : j # k \/ v # u => had'[j][v] = had[j][v]
  BY <1>1, <1>3
<1>5. Met' = Met \cup {u}
  BY <1>1, <1>4 DEF Met
<1>6. \E n \in 0..MaxUid : Met' = 1..n
  BY <1>1, <1>3, <1>5 DEF Uids
<1>7. ASSUME NEW j \in Clone, NEW v \in Uids
      PROVE  v \in Inhabitants(tree'[j]) <=> had'[j][v] # {}
  <2>1. v \in Inhabitants(tree[j]) <=> had[j][v] # {}
    BY DEF CloneInv, Numbered
  <2>2. j # k => tree'[j] = tree[j]
    BY <1>1, <1>3
  <2> QED BY <1>2, <1>4, <2>1, <2>2
<1>8. Inhabitants(origin') \subseteq Met'
  BY <1>5 DEF CloneInv, Numbered
<1> QED BY <1>6, <1>7, <1>8 DEF Numbered, Inhabitants, Of

LEMMA PullNumbers ==
    ASSUME CloneInv, NEW k \in Clone, pull(k)
    PROVE  /\ Housed' /\ Numbered'
           /\ \A u \in Uids : had'[k][u] = had[k][u] \cup HadIn(origin, u)
           /\ \A j \in Clone : j # k => had'[j] = had[j]
<1>1. Pulled(k)
  BY PullPulls
<1>2. /\ Settled(tree[k]) /\ Meet(tree[k], origin, base[k])
      /\ tree'[k] \in GitTrees /\ tree' = [tree EXCEPT ![k] = tree'[k]]
      /\ Merged(tree[k], origin, base[k], tree'[k])
      /\ base' = [base EXCEPT ![k] = origin] /\ origin' = origin
  BY <1>1 DEF Pulled
<1>3. /\ Sound /\ had \in [Clone -> [Uids -> SUBSET Nat]]
      /\ tree \in [Clone -> GitTrees] /\ Singles(origin)
  BY <1>2 DEF CloneInv, Tables, Housed, Branches, Meet
<1>4. PICK t \in GitTrees : t = tree'[k]
  BY <1>2
<1>5. tree' = [tree EXCEPT ![k] = t] /\ Merged(tree[k], origin, base[k], t)
  BY <1>2, <1>4
<1>6. Housed'
  BY <1>2, <1>5, PullStep DEF CloneInv
<1>7. Inhabitants(tree'[k]) = Inhabitants(tree[k]) \cup Inhabitants(origin)
  BY <1>2, <1>3, <1>4, <1>5, MergeJoins DEF Meeting
<1>8. had' = [had EXCEPT ![k] = [u \in Uids |-> had[k][u] \cup HadIn(origin, u)]]
  BY Zenon DEF pull, HadIn
<1>9. /\ \A u \in Uids : had'[k][u] = had[k][u] \cup HadIn(origin, u)
      /\ \A j \in Clone : j # k => had'[j] = had[j]
  BY <1>3, <1>8
<1>10. \A u : HadIn(origin, u) # {} <=> u \in Inhabitants(origin)
  BY <1>3, WhatIsHad
<1>11. ASSUME NEW j \in Clone, NEW v \in Uids
       PROVE  /\ v \in Inhabitants(tree'[j]) <=> had'[j][v] # {}
              /\ had'[j][v] # {} => v \in Met
              /\ had[j][v] # {} => had'[j][v] # {}
  <2>1. v \in Inhabitants(tree[j]) <=> had[j][v] # {}
    BY DEF CloneInv, Numbered
  <2>2. v \in Inhabitants(origin) => v \in Met
    BY DEF CloneInv, Numbered
  <2>3. j # k => tree'[j] = tree[j]
    BY <1>2, <1>3
  <2> QED BY <1>7, <1>9, <1>10, <2>1, <2>2, <2>3 DEF Met
<1>12. Met' = Met
  BY <1>11 DEF Met
<1>13. Numbered'
  <2>1. \E n \in 0..MaxUid : Met' = 1..n
    BY <1>12 DEF CloneInv, Numbered
  <2>2. Inhabitants(origin') \subseteq Met'
    BY <1>2, <1>12 DEF CloneInv, Numbered
  <2>3. \A j \in Clone, v \in Uids : v \in Inhabitants(tree'[j]) <=> had'[j][v] # {}
    BY <1>11
  <2> QED BY <2>1, <2>2, <2>3 DEF Numbered, Inhabitants, Of
<1> QED BY <1>6, <1>9, <1>13

LEMMA HousedKept ==
    ASSUME CloneInv, NEW k \in Clone, Serve(k) \/ Git(k)
    PROVE  Housed' /\ Numbered'
<1> USE DEF files, tables, keyHistory, noteHistory, history
<1>1. tree \in [Clone -> GitTrees] /\ Sound /\ Inhabitants(origin) \subseteq Met
  BY DEF CloneInv, Housed, Branches, Numbered
<1>2. ASSUME NEW j \in Clone, NEW t, tree' = [tree EXCEPT ![j] = t],
             Inhabitants(t) = Inhabitants(tree[j])
      PROVE  \A i \in Clone : Inhabitants(tree'[i]) = Inhabitants(tree[i])
  BY <1>1, <1>2
<1>3. ASSUME tree'[k] \in GitTrees, tree' = [tree EXCEPT ![k] = tree'[k]],
             tree'[k].issues = tree[k].issues, origin' = origin, base' = base, had' = had
      PROVE  Housed' /\ Numbered'
  <2>1. PICK t \in GitTrees : t = tree'[k]
    BY <1>3
  <2>2. Housed'
    BY <1>3, <2>1, SameIssuesHoused DEF CloneInv
  <2>3. Inhabitants(t) = Inhabitants(tree[k])
    BY <1>3, <2>1 DEF Inhabitants, Of
  <2>4. \A j \in Clone : Inhabitants(tree'[j]) = Inhabitants(tree[j])
    BY <1>2, <1>3, <2>1, <2>3
  <2> QED BY <1>1, <1>3, <2>2, <2>4, NumberedStays
<1>4. ASSUME tree' = tree, origin' = origin, base' = base, had' = had
      PROVE  Housed' /\ Numbered'
  BY <1>1, <1>4, FilesStay, NumberedStays DEF CloneInv
<1>5. CASE createIssue(k)
  <2>1. PICK p, u, f : Created(k, p, u, f)
    BY <1>5, CreateCreates
  <2>2. origin' = origin /\ base' = base
    BY <1>5 DEF createIssue
  <2> QED BY <2>1, <2>2, CreateHouses, CreateNumbers
<1>6. CASE applyRekey(k)
  <2>1. PICK r, f : Applied(k, r, f)
    BY <1>6, RekeyApplies
  <2>2. origin' = origin /\ base' = base
    BY <1>6 DEF applyRekey
  <2>3. Housed' /\ \A j \in Clone, p \in Places : Of(tree'[j], p) = Of(tree[j], p)
    BY <2>1, <2>2, RekeyHouses
  <2>4. \A j \in Clone : Inhabitants(tree'[j]) = Inhabitants(tree[j])
    BY <2>3 DEF Inhabitants
  <2>5. ASSUME NEW j \in Clone, NEW u \in Uids
        PROVE  had'[j][u] # {} <=> had[j][u] # {}
    <3>1. CASE LeftAlone
      BY <3>1 DEF LeftAlone
    <3>2. CASE Rewritten(k, r, f)
      <4>1. /\ had' = [had EXCEPT ![k][One(f).uid] = @ \cup {r.to}]
            /\ had \in [Clone -> [Uids -> SUBSET Nat]]
        BY <3>2 DEF Rewritten, CloneInv, Tables
      <4>2. One(f) \in Versions(tree[k].issues[r.path]) /\ r.path \in Places
        BY <1>1, <2>1, PatchRenames DEF Applied
      <4>3. One(f).uid \in Inhabitants(tree[k])
        BY <4>2, VersionHasUid DEF Inhabitants
      <4>4. One(f).uid \in Uids
        BY <1>1, <4>3, UidsLiveHere
      <4>5. had[k][One(f).uid] # {}
        BY <4>3, <4>4 DEF CloneInv, Numbered
      <4> QED BY <4>1, <4>4, <4>5
    <3> QED BY <2>1, <3>1, <3>2 DEF Applied
  <2> QED BY <1>1, <2>2, <2>3, <2>4, <2>5, NumberedStays
<1>7. CASE reconcileFull(k) \/ Crash(k)
           \/ \E c \in NoteIds, op \in Ops : appendOp(k, c, op)
  BY <1>4, <1>7 DEF reconcileFull, Crash, appendOp
<1>8. CASE writeOp(k)
  <2>1. LogWritten(k, writes[k][1].note, writes[k][1].log)
    BY <1>8, OpIsWritten
  <2>2. origin' = origin /\ base' = base /\ had' = had
    BY <1>8 DEF writeOp
  <2> QED BY <1>3, <2>1, <2>2 DEF LogWritten
<1>9. CASE \E c \in NoteIds, n \in Keys : addComment(k, c, n)
  <2>1. BodyWritten(k)
    BY <1>9, CommentIsWritten
  <2>2. origin' = origin /\ base' = base /\ had' = had
    BY <1>9 DEF addComment
  <2> QED BY <1>3, <2>1, <2>2 DEF BodyWritten
<1>10. CASE \E c \in NoteIds : Touch(k, c)
  <2>1. BodyWritten(k)
    BY <1>10, TouchIsWritten
  <2>2. origin' = origin /\ base' = base /\ had' = had
    BY <1>10 DEF Touch
  <2> QED BY <1>3, <2>1, <2>2 DEF BodyWritten
<1>11. CASE push(k)
  <2>1. /\ base[k] = origin /\ Settled(tree[k]) /\ tree' = tree /\ origin' = tree[k]
        /\ base' = [base EXCEPT ![k] = tree[k]] /\ had' = had
    BY <1>11 DEF push
  <2>2. Housed'
    BY <2>1, PushStep DEF CloneInv
  <2>3. Inhabitants(origin') \subseteq Met
    <3>1. Inhabitants(tree[k]) \subseteq Uids
      BY <1>1, UidsLiveHere
    <3>2. Inhabitants(tree[k]) \subseteq Met
      BY <3>1 DEF CloneInv, Numbered, Met
    <3> QED BY <2>1, <3>2
  <2> QED BY <2>1, <2>2, <2>3, NumberedStays
<1>12. CASE pull(k)
  BY <1>12, PullNumbers
<1>13. CASE resolve(k)
  <2>1. origin' = origin /\ base' = base /\ had' = had
    BY <1>13 DEF resolve
  <2>2. ASSUME NEW p \in Places, KeepBoth(k, p)
        PROVE  Housed' /\ Numbered'
    <3>1. PICK q, g, h : Split(k, p, q, g, h)
      BY <2>2, KeepBothSplits
    <3>2. Housed' /\ Inhabitants(tree'[k]) = Inhabitants(tree[k])
      BY <2>1, <3>1, SplitHouses
    <3>3. tree' = [tree EXCEPT ![k] = tree'[k]]
      BY <3>1 DEF Split
    <3>4. \A j \in Clone : Inhabitants(tree'[j]) = Inhabitants(tree[j])
      BY <1>2, <3>2, <3>3
    <3> QED BY <1>1, <2>1, <3>2, <3>4, NumberedStays
  <2>3. ASSUME NEW p \in Places, KeepOne(k, p)
        PROVE  Housed' /\ Numbered'
    <3>1. PICK g : Chosen(k, p, g)
      BY <2>3, KeepOneChooses
    <3>2. Housed' /\ Inhabitants(tree'[k]) = Inhabitants(tree[k])
      BY <2>1, <3>1, ChoiceHouses
    <3>3. tree' = [tree EXCEPT ![k] = tree'[k]]
      BY <3>1 DEF Chosen
    <3>4. \A j \in Clone : Inhabitants(tree'[j]) = Inhabitants(tree[j])
      BY <1>2, <3>2, <3>3
    <3> QED BY <1>1, <2>1, <3>2, <3>4, NumberedStays
  <2>4. ASSUME NEW c \in NoteIds, KeepLines(k, c)
        PROVE  Housed' /\ Numbered'
    <3>1. PICK log : LogWritten(k, c, log)
      BY <2>4, LinesAreWritten
    <3> QED BY <1>3, <2>1, <3>1 DEF LogWritten
  <2> QED BY <1>13, <2>2, <2>3, <2>4 DEF resolve
<1> QED BY <1>5, <1>6, <1>7, <1>8, <1>9, <1>10, <1>11, <1>12, <1>13 DEF Serve, Git

-----------------------------------------------------------------------------
(* Every step keeps what the versions remember.                            *)

RemembersSo(t, b, o, h, M) == Once(t, M) /\ Outgrown(b, t, M) /\ Outgrown(b, o, M) /\ Remembers(t, h, M)

LEMMA RememberingMeans ==
    ASSUME \A j \in Clone : RemembersSo(tree'[j], base'[j], origin', had'[j], muddled')
    PROVE  Remembering'
BY DEF Remembering, RemembersSo, Once, Outgrown, Remembers, Distinct, KeysOf, Of

LEMMA RememberingNow ==
    ASSUME CloneInv
    PROVE  \A j \in Clone : RemembersSo(tree[j], base[j], origin, had[j], muddled)
BY DEF CloneInv, Remembering, RemembersSo

(* Who stays where he is, stays once.                                      *)
LEMMA StillOnce ==
    ASSUME CloneInv, NEW k \in Clone, NEW t, \A p \in Places : Of(t, p) = Of(tree[k], p),
           NEW M, muddled \subseteq M
    PROVE  Once(t, M)
<1>1. Once(tree[k], muddled)
  BY RememberingNow DEF RemembersSo
<1> QED BY <1>1 DEF Once

LEMMA MoreIsMuddled ==
    ASSUME NEW t, NEW b, NEW o, NEW h, NEW M, RemembersSo(t, b, o, h, M), NEW M1, M \subseteq M1
    PROVE  RemembersSo(t, b, o, h, M1)
BY DEF RemembersSo, Once, Outgrown, Remembers

(* A version that a clone writes is new, or remembers all of an old one.   *)
Recalls(s, t, b, h, h1, M) ==
    \A q \in Places : \A g \in Versions(t.issues[q]) :
        Distinct(t.issues[q]) /\ g.uid \notin M =>
            \/ g.uid \notin Inhabitants(b) /\ h1[g.uid] \subseteq KeysOf(g)
            \/ /\ h1[g.uid] \subseteq h[g.uid] \cup KeysOf(g)
               /\ \E p \in Places : \E f \in Versions(s.issues[p]) :
                     /\ Distinct(s.issues[p]) /\ f.uid = g.uid /\ KeysOf(f) \subseteq KeysOf(g)

LEMMA RecallingRemembers ==
    ASSUME NEW s, NEW t, NEW b, NEW o, NEW h, NEW h1, NEW M, NEW M1, M \subseteq M1,
           RemembersSo(s, b, o, h, M), Recalls(s, t, b, h, h1, M1), Once(t, M1)
    PROVE  RemembersSo(t, b, o, h1, M1)
<1>1. RemembersSo(s, b, o, h, M1)
  BY MoreIsMuddled
<1>2. ASSUME NEW q \in Places, NEW g \in Versions(t.issues[q]),
             Distinct(t.issues[q]), g.uid \notin M1
      PROVE  /\ h1[g.uid] \subseteq KeysOf(g)
             /\ \A p \in Places : \A f \in Versions(b.issues[p]) :
                   f.uid = g.uid => KeysOf(f) \subseteq KeysOf(g)
  <2>1. CASE g.uid \notin Inhabitants(b) /\ h1[g.uid] \subseteq KeysOf(g)
    <3>1. \A p \in Places : \A f \in Versions(b.issues[p]) : f.uid \in Inhabitants(b)
      BY VersionHasUid DEF Inhabitants
    <3> QED BY <2>1, <3>1
  <2>2. CASE /\ h1[g.uid] \subseteq h[g.uid] \cup KeysOf(g)
             /\ \E p \in Places : \E f \in Versions(s.issues[p]) :
                   /\ Distinct(s.issues[p]) /\ f.uid = g.uid /\ KeysOf(f) \subseteq KeysOf(g)
    <3>4. PICK p \in Places : \E f \in Versions(s.issues[p]) :
               /\ Distinct(s.issues[p]) /\ f.uid = g.uid /\ KeysOf(f) \subseteq KeysOf(g)
      BY <2>2
    <3>1. PICK f \in Versions(s.issues[p]) :
               /\ Distinct(s.issues[p]) /\ f.uid = g.uid /\ KeysOf(f) \subseteq KeysOf(g)
      BY <3>4
    <3>2. h[g.uid] \subseteq KeysOf(f)
      BY <1>1, <1>2, <3>1 DEF RemembersSo, Remembers
    <3>3. \A x \in Places : \A e \in Versions(b.issues[x]) :
                e.uid = g.uid => KeysOf(e) \subseteq KeysOf(f)
      BY <1>1, <1>2, <3>1 DEF RemembersSo, Outgrown
    <3> QED BY <2>2, <3>1, <3>2, <3>3
  <2> QED BY <1>2, <2>1, <2>2 DEF Recalls
<1>3. Outgrown(b, t, M1)
  BY <1>2 DEF Outgrown
<1>4. Remembers(t, h1, M1)
  BY <1>2 DEF Remembers
<1> QED BY <1>1, <1>3, <1>4 DEF RemembersSo

(* What stays, recalls itself.                                             *)
LEMMA OldVersionsRecall ==
    ASSUME NEW s, NEW p \in Places, NEW f, f = s.issues[p], Distinct(f), NEW g \in Versions(f),
           NEW h, NEW h1, h1[g.uid] = h[g.uid]
    PROVE  /\ h1[g.uid] \subseteq h[g.uid] \cup KeysOf(g)
           /\ \E q \in Places : \E e \in Versions(s.issues[q]) :
                 /\ Distinct(s.issues[q]) /\ e.uid = g.uid /\ KeysOf(e) \subseteq KeysOf(g)
OBVIOUS

LEMMA LocalRemembering ==
    ASSUME CloneInv, NEW k \in Clone, tree' = [tree EXCEPT ![k] = tree'[k]],
           origin' = origin, base' = base, muddled \subseteq muddled',
           \A j \in Clone : j # k => had'[j] = had[j], Once(tree'[k], muddled'),
           Recalls(tree[k], tree'[k], base[k], had[k], had'[k], muddled')
    PROVE  Remembering'
<1>1. \A j \in Clone : RemembersSo(tree[j], base[j], origin, had[j], muddled)
  BY RememberingNow
<1>2. ASSUME NEW j \in Clone
      PROVE  RemembersSo(tree'[j], base'[j], origin', had'[j], muddled')
  <2>1. CASE j = k
    <3>1. RemembersSo(tree'[k], base[k], origin, had'[k], muddled')
      BY <1>1, RecallingRemembers
    <3> QED BY <2>1, <3>1
  <2>2. CASE j # k
    <3>1. tree'[j] = tree[j] /\ had'[j] = had[j]
      BY <2>2 DEF CloneInv, Housed, Branches
    <3>2. RemembersSo(tree[j], base[j], origin, had[j], muddled')
      BY <1>1, MoreIsMuddled
    <3> QED BY <3>1, <3>2
  <2> QED BY <2>1, <2>2
<1> QED BY <1>2, RememberingMeans

LEMMA CreateRemembers ==
    ASSUME CloneInv, NEW k \in Clone, NEW p, NEW u, NEW f, Created(k, p, u, f),
           origin' = origin, base' = base
    PROVE  Remembering'
<1>1. /\ u \in Uids /\ u \notin Met /\ p \in Places /\ f \in IssueFiles /\ f.uid = u
      /\ f.key = p[1] /\ tree' = [tree EXCEPT ![k] = tree'[k]] /\ tree'[k].issues[p] = f
      /\ had' = [had EXCEPT ![k][u] = @ \cup {p[1]}]
      /\ \A q \in Places : q # p => tree'[k].issues[q] = tree[k].issues[q]
      /\ muddled \subseteq muddled'
  BY DEF Created, Placed
<1>2. had \in [Clone -> [Uids -> SUBSET Nat]] /\ Sound /\ had[k][u] = {}
  BY <1>1 DEF CloneInv, Tables, Housed, Branches, Met
<1>3. /\ had'[k][u] = {p[1]} /\ \A j \in Clone : j # k => had'[j] = had[j]
      /\ \A v \in Uids : v # u => had'[k][v] = had[k][v]
  BY <1>1, <1>2
<1>4. \A s \in Stores : u \notin Inhabitants(s)
  BY <1>1, NobodyKnows
<1>5. base[k] \in Stores /\ tree[k] \in Stores /\ tree[k] \in GitTrees
  BY TheStores DEF CloneInv, Housed
<1>6. Recalls(tree[k], tree'[k], base[k], had[k], had'[k], muddled')
  <2> SUFFICES ASSUME NEW q \in Places, NEW g \in Versions(tree'[k].issues[q]),
                      Distinct(tree'[k].issues[q]), g.uid \notin muddled'
               PROVE  \/ g.uid \notin Inhabitants(base[k]) /\ had'[k][g.uid] \subseteq KeysOf(g)
                      \/ /\ had'[k][g.uid] \subseteq had[k][g.uid] \cup KeysOf(g)
                         /\ \E x \in Places : \E e \in Versions(tree[k].issues[x]) :
                               /\ Distinct(tree[k].issues[x]) /\ e.uid = g.uid
                               /\ KeysOf(e) \subseteq KeysOf(g)
    BY DEF Recalls
  <2>1. CASE q = p
    <3>1. f \in FileContents
      BY <1>1 DEF FileContents
    <3>2. g = f
      BY <1>1, <1>2, <2>1, <3>1, VersionsOfFile
    <3> QED BY <1>1, <1>3, <1>4, <1>5, <3>2 DEF KeysOf
  <2>2. CASE q # p
    <3>1. tree'[k].issues[q] = tree[k].issues[q]
      BY <1>1, <2>2
    <3>2. g.uid \in Inhabitants(tree[k])
      BY <3>1, VersionHasUid DEF Inhabitants
    <3>3. g.uid # u /\ g.uid \in Uids
      BY <1>2, <1>4, <1>5, <3>2, UidsLiveHere
    <3>4. had'[k][g.uid] = had[k][g.uid]
      BY <1>3, <3>3
    <3> QED BY <3>1, <3>4, OldVersionsRecall
  <2> QED BY <2>1, <2>2
<1>7. Once(tree'[k], muddled')
  <2>1. /\ \A q \in Places : q # p => Of(tree'[k], q) = Of(tree[k], q)
        /\ Of(tree'[k], p) = {u}
    BY CreateHouses
  <2>2. \A q \in Places : u \notin Of(tree[k], q)
    BY <1>4, <1>5 DEF Inhabitants
  <2>3. Once(tree[k], muddled)
    BY RememberingNow DEF RemembersSo
  <2> QED BY <1>1, <2>1, <2>2, <2>3 DEF Once
<1> QED BY <1>1, <1>3, <1>6, <1>7, LocalRemembering

LEMMA RekeyRemembers ==
    ASSUME CloneInv, NEW k \in Clone, NEW r, NEW f, Applied(k, r, f),
           origin' = origin, base' = base, k \notin crossed => f \in IssueFiles /\ f.key = r.from
    PROVE  Remembering'
<1> DEFINE u == One(f).uid
<1>1. /\ r \in Rekeys /\ r.path \in Places /\ f = tree[k].issues[r.path]
      /\ f \in FileContents /\ f # None
  BY DEF Applied
<1>2. /\ had \in [Clone -> [Uids -> SUBSET Nat]] /\ Sound
      /\ tree \in [Clone -> GitTrees]
  BY DEF CloneInv, Tables, Housed, Branches
<1>5. muddled \subseteq muddled'
  BY DEF Applied, LeftAlone, Rewritten
<1>6. Once(tree'[k], muddled')
  <2>1. \A p \in Places : Of(tree'[k], p) = Of(tree[k], p)
    BY RekeyHouses
  <2> QED BY <1>5, <2>1, StillOnce
<1>3. CASE LeftAlone
  <2>1. \A q \in Places : \A g \in Versions(tree[k].issues[q]) : had'[k][g.uid] = had[k][g.uid]
    BY <1>3 DEF LeftAlone
  <2>2. Recalls(tree[k], tree'[k], base[k], had[k], had'[k], muddled')
    BY <1>3, <2>1, OldVersionsRecall DEF LeftAlone, Recalls
  <2>3. tree' = [tree EXCEPT ![k] = tree'[k]]
    BY <1>2, <1>3 DEF LeftAlone
  <2> QED BY <1>3, <1>5, <1>6, <2>2, <2>3, LocalRemembering DEF LeftAlone
<1>4. CASE Rewritten(k, r, f)
  <2>1. /\ tree' = [tree EXCEPT ![k] = tree'[k]] /\ tree'[k].issues[r.path] = Patched(f, r)
        /\ \A q \in Places : q # r.path => tree'[k].issues[q] = tree[k].issues[q]
        /\ had' = [had EXCEPT ![k][u] = @ \cup {r.to}]
        /\ muddled' = IF k \in crossed THEN muddled \cup {u} ELSE muddled
    BY <1>4 DEF Rewritten, Placed
  <2>2. /\ One(f) \in Versions(f) /\ One(f) \in IssueFiles
        /\ f \in IssueFiles => /\ One(f) = f /\ Patched(f, r) = Renamed(f, r)
                               /\ Patched(f, r) \in IssueFiles
        /\ f \in Conflicts => /\ Patched(f, r) \in Conflicts /\ One(f) = f.ours
                              /\ Patched(f, r).ours = Renamed(f.ours, r)
                              /\ Patched(f, r).theirs = f.theirs
    BY <1>1, <1>2, PatchRenames
  <2>3. u \in Uids
    BY <2>2, FilesOfIssues
  <2> HIDE DEF u
  <2>4. /\ had'[k][u] = had[k][u] \cup {r.to} /\ \A j \in Clone : j # k => had'[j] = had[j]
        /\ \A v : v # u => had'[k][v] = had[k][v]
    BY <1>2, <2>1, <2>3
  <2>5. ASSUME NEW q \in Places, NEW g \in Versions(tree'[k].issues[q]),
               Distinct(tree'[k].issues[q]), g.uid \notin muddled'
        PROVE  /\ had'[k][g.uid] \subseteq had[k][g.uid] \cup KeysOf(g)
               /\ \E x \in Places : \E e \in Versions(tree[k].issues[x]) :
                     /\ Distinct(tree[k].issues[x]) /\ e.uid = g.uid
                     /\ KeysOf(e) \subseteq KeysOf(g)
    <3>1. CASE q # r.path /\ g.uid # u
      <4>1. tree'[k].issues[q] = tree[k].issues[q]
        BY <2>1, <3>1
      <4> QED BY <2>4, <2>5, <3>1, <4>1, OldVersionsRecall
    <3>2. CASE q = r.path /\ f \in IssueFiles
      <4>1. Versions(Patched(f, r)) = {Patched(f, r)} /\ Versions(f) = {f}
        BY <1>1, <1>2, <2>2, <3>2, VersionsOfFile DEF FileContents
      <4>2. g = Renamed(f, r)
        BY <2>1, <2>2, <3>2, <4>1
      <4>3. g.uid = f.uid /\ g.key = r.to /\ g.former = f.former \cup {r.from} /\ u = f.uid
        BY <2>2, <3>2, <4>2 DEF Renamed, u
      <4>4. k \notin crossed
        BY <2>1, <2>5, <4>3
      <4>5. KeysOf(f) \subseteq KeysOf(g) /\ r.to \in KeysOf(g)
        BY <4>3, <4>4 DEF KeysOf
      <4>6. Distinct(f)
        BY <4>1 DEF Distinct
      <4> QED BY <1>1, <2>4, <4>1, <4>3, <4>5, <4>6
    <3>3. CASE k \in crossed /\ q = r.path /\ f \in Conflicts
      <4>1. /\ Versions(Patched(f, r)) = {Renamed(f.ours, r), f.theirs}
            /\ Versions(f) = {f.ours, f.theirs} /\ u = f.ours.uid
        BY <1>1, <1>2, <2>2, <3>3, VersionsOfFile DEF FileContents, u
      <4>2. g.uid # u
        BY <2>1, <2>5, <3>3
      <4>3. g = f.theirs
        BY <2>1, <3>3, <4>1, <4>2 DEF Renamed
      <4>4. Distinct(f)
        BY <4>1, <4>2, <4>3 DEF Distinct
      <4>5. had'[k][g.uid] = had[k][g.uid]
        BY <2>4, <4>2
      <4> QED BY <1>1, <4>1, <4>3, <4>4, <4>5, OldVersionsRecall
    <3>4. CASE q # r.path /\ g.uid = u
      <4>1. k \notin crossed
        BY <2>1, <2>5, <3>4
      <4>2. f \in IssueFiles /\ f.uid = u
        BY <2>2, <4>1 DEF u
      <4>3. tree'[k].issues[q] = tree[k].issues[q]
        BY <2>1, <3>4
      <4>4. u \in Of(tree[k], r.path)
        BY <1>1, <2>2, VersionHasUid DEF u
      <4>5. u \in Of(tree[k], q)
        BY <3>4, <4>3, VersionHasUid
      <4>6. Once(tree[k], muddled)
        BY RememberingNow DEF RemembersSo
      <4>7. u \in muddled
        BY <1>1, <3>4, <4>4, <4>5, <4>6 DEF Once
      <4> QED BY <1>5, <2>5, <3>4, <4>7
    <3>5. f \in IssueFiles \/ (f \in Conflicts /\ k \in crossed)
      BY <1>1 DEF FileContents
    <3> QED BY <3>1, <3>2, <3>3, <3>4, <3>5
  <2>6. Recalls(tree[k], tree'[k], base[k], had[k], had'[k], muddled')
    BY <2>5 DEF Recalls
  <2> QED BY <1>5, <1>6, <2>1, <2>4, <2>6, LocalRemembering
<1> QED BY <1>3, <1>4 DEF Applied

LEMMA SplitRemembers ==
    ASSUME CloneInv, NEW k \in Clone, NEW p, NEW q, NEW g, NEW h, Split(k, p, q, g, h),
           origin' = origin, base' = base, had' = had
    PROVE  Remembering'
<1> DEFINE s == tree[k]
           t == tree'[k]
<1>1. /\ p \in Places /\ q \in Places /\ q # p /\ q[1] = p[1]
      /\ s.issues[q] = None /\ tree' = [tree EXCEPT ![k] = t]
      /\ t.issues[p] = g /\ t.issues[q] = h
      /\ \A r \in Places : r # p /\ r # q => t.issues[r] = s.issues[r]
      /\ g \in IssueFiles /\ h \in IssueFiles /\ g.uid # h.uid
      /\ Versions(s.issues[p]) = {g, h} /\ muddled' = muddled
  BY DEF Split, Two
<1>2. Sound /\ g # None /\ h # None
  BY <1>1 DEF CloneInv, Housed, Branches, Sound
<1>3. Versions(g) = {g} /\ Versions(h) = {h}
  BY <1>1, <1>2, VersionsOfFile DEF FileContents
<1>4. Distinct(s.issues[p])
  BY <1>1 DEF Distinct
<1>5. ASSUME NEW r \in Places, NEW f \in Versions(t.issues[r]), Distinct(t.issues[r])
      PROVE  \E x \in Places : Distinct(s.issues[x]) /\ f \in Versions(s.issues[x])
  <2>1. CASE r = p \/ r = q
    BY <1>1, <1>3, <1>4, <1>5, <2>1
  <2>2. CASE r # p /\ r # q
    BY <1>1, <1>5, <2>2
  <2> QED BY <2>1, <2>2
<1>6. Recalls(s, t, base[k], had[k], had'[k], muddled')
  BY <1>5 DEF Recalls
<1>7. Once(t, muddled')
  <2>1. Of(s, p) = {g.uid, h.uid} /\ Of(t, p) = {g.uid} /\ Of(t, q) = {h.uid}
    <3>1. Of(s, p) = {g.uid, h.uid}
      BY <1>1 DEF Of, Uid
    <3>2. Of(t, p) = {g.uid} /\ Of(t, q) = {h.uid}
      BY <1>1, <1>2, SingleFile DEF Of
    <3> QED BY <3>1, <3>2
  <2>2. \A r \in Places : r # p /\ r # q => Of(t, r) = Of(s, r)
    BY <1>1 DEF Of
  <2>3. Once(s, muddled)
    BY RememberingNow DEF RemembersSo
  <2>4. ASSUME NEW r \in Places, r # p, r # q
        PROVE  Of(t, r) \cap {g.uid, h.uid} \subseteq muddled
    BY <1>1, <2>1, <2>2, <2>3, <2>4 DEF Once
  <2> QED BY <1>1, <2>1, <2>2, <2>3, <2>4 DEF Once
<1> QED BY <1>1, <1>6, <1>7, LocalRemembering

LEMMA ChoiceRemembers ==
    ASSUME CloneInv, NEW k \in Clone, NEW p, NEW g, Chosen(k, p, g),
           origin' = origin, base' = base, had' = had
    PROVE  Remembering'
<1> DEFINE s == tree[k]
           t == tree'[k]
<1>1. /\ p \in Places /\ g \in IssueFiles /\ Of(s, p) = {g.uid}
      /\ tree' = [tree EXCEPT ![k] = t] /\ t.issues[p] = g
      /\ \A q \in Places : q # p => t.issues[q] = s.issues[q]
      /\ muddled' = muddled \cup {g.uid}
  BY DEF Chosen, Placed, Of
<1>2. Sound /\ g # None
  BY <1>1 DEF CloneInv, Housed, Branches, Sound
<1>3. Of(t, p) = {g.uid}
  BY <1>1, <1>2, SingleFile DEF Of
<1>4. \A q \in Places : Of(t, q) = Of(s, q)
  BY <1>1, <1>3 DEF Of
<1>5. Once(t, muddled')
  BY <1>1, <1>4, StillOnce
<1>6. ASSUME NEW q \in Places, NEW f \in Versions(t.issues[q]), f.uid \notin muddled'
      PROVE  f \in Versions(s.issues[q]) /\ t.issues[q] = s.issues[q]
  <2>1. f.uid \in Of(t, q)
    BY VersionHasUid
  <2>2. q # p
    BY <1>1, <1>3, <1>6, <2>1
  <2> QED BY <1>1, <2>2
<1>7. Recalls(s, t, base[k], had[k], had'[k], muddled')
  BY <1>6 DEF Recalls
<1> QED BY <1>1, <1>5, <1>7, LocalRemembering

LEMMA SameIssuesRemembered ==
    ASSUME CloneInv, NEW k \in Clone, tree' = [tree EXCEPT ![k] = tree'[k]],
           tree'[k].issues = tree[k].issues,
           origin' = origin, base' = base, had' = had, muddled' = muddled
    PROVE  Remembering'
<1>1. Recalls(tree[k], tree'[k], base[k], had[k], had'[k], muddled')
  BY DEF Recalls
<1>2. Once(tree'[k], muddled')
  <2>1. \A p \in Places : Of(tree'[k], p) = Of(tree[k], p)
    BY DEF Of
  <2> QED BY <2>1, StillOnce
<1> QED BY <1>1, <1>2, LocalRemembering

LEMMA PushRemembers ==
    ASSUME CloneInv, NEW k \in Clone, base[k] = origin, Settled(tree[k]),
           tree' = tree, origin' = tree[k], base' = [base EXCEPT ![k] = tree[k]],
           had' = had, muddled' = muddled
    PROVE  Remembering'
<1>1. \A j \in Clone : RemembersSo(tree[j], base[j], origin, had[j], muddled)
  BY RememberingNow
<1>2. /\ Sound /\ tree[k] \in GitTrees /\ base[k] \in GitTrees /\ base \in [Clone -> GitTrees]
      /\ Settled(base[k]) /\ Alone(tree[k])
      /\ \A j \in Clone : Inhabitants(base[j]) \subseteq Inhabitants(origin)
  BY TheStores DEF CloneInv, Housed, Branches, NoTwins, Travelled
<1>3. Singles(tree[k]) /\ Singles(base[k])
  BY <1>2, SettledIsSingle
<1>4. Outgrown(tree[k], tree[k], muddled)
  <2> SUFFICES ASSUME NEW p \in Places, NEW q \in Places,
                      NEW f \in Versions(tree[k].issues[p]), NEW g \in Versions(tree[k].issues[q]),
                      f.uid = g.uid
               PROVE  KeysOf(f) \subseteq KeysOf(g)
    BY DEF Outgrown
  <2>1. f = tree[k].issues[p] /\ g = tree[k].issues[q] /\ f.uid \in Of(tree[k], p)
        /\ g.uid \in Of(tree[k], q)
    BY <1>2, <1>3, SingleVersion
  <2>2. p = q
    BY <1>2, <1>3, <2>1, AloneAt
  <2> QED BY <2>1, <2>2
<1>5. ASSUME NEW j \in Clone
      PROVE  Outgrown(base[j], tree[k], muddled)
  <2> SUFFICES ASSUME NEW p \in Places, NEW q \in Places,
                      NEW f \in Versions(base[j].issues[p]), NEW g \in Versions(tree[k].issues[q]),
                      f.uid = g.uid, f.uid \notin muddled
               PROVE  KeysOf(f) \subseteq KeysOf(g)
    BY DEF Outgrown
  <2>1. f.uid \in Inhabitants(origin)
    BY <1>2, VersionHasUid DEF Inhabitants
  <2>2. PICK r \in Places : f.uid \in Of(base[k], r)
    BY <2>1 DEF Inhabitants
  <2>3. PICK e : /\ e = base[k].issues[r] /\ e \in Versions(base[k].issues[r])
                 /\ e.uid = f.uid /\ Distinct(e)
    BY <1>2, <1>3, <2>2, SingleVersion
  <2>4. KeysOf(f) \subseteq KeysOf(e)
    BY <1>1, <2>3 DEF RemembersSo, Outgrown
  <2>5. Distinct(tree[k].issues[q])
    BY <1>2, <1>3, SingleVersion
  <2>6. KeysOf(e) \subseteq KeysOf(g)
    BY <1>1, <2>3, <2>5 DEF RemembersSo, Outgrown
  <2> QED BY <2>4, <2>6
<1>6. ASSUME NEW j \in Clone
      PROVE  RemembersSo(tree'[j], base'[j], origin', had'[j], muddled')
  <2>1. CASE j = k
    <3>1. base'[j] = tree[k]
      BY <1>2, <2>1
    <3> QED BY <1>1, <1>4, <2>1, <3>1 DEF RemembersSo
  <2>2. CASE j # k
    <3>1. base'[j] = base[j]
      BY <1>2, <2>2
    <3> QED BY <1>1, <1>5, <3>1 DEF RemembersSo
  <2> QED BY <2>1, <2>2
<1> QED BY <1>6, RememberingMeans

LEMMA PullRemembers ==
    ASSUME CloneInv, NEW k \in Clone, pull(k)
    PROVE  Remembering'
<1> DEFINE m == tree[k]
           b == base[k]
           t == tree'[k]
<1>1. /\ Meet(m, origin, b) /\ t \in GitTrees /\ tree' = [tree EXCEPT ![k] = t]
      /\ Merged(m, origin, b, t) /\ base' = [base EXCEPT ![k] = origin] /\ origin' = origin
  BY PullPulls DEF Pulled
<1>2. /\ Sound /\ tree \in [Clone -> GitTrees] /\ base \in [Clone -> GitTrees]
  BY DEF CloneInv, Housed, Branches
<1>3. /\ \A u \in Uids : had'[k][u] = had[k][u] \cup HadIn(origin, u)
      /\ \A j \in Clone : j # k => had'[j] = had[j]
  BY PullNumbers
<1>4. muddled' = muddled \cup {u \in Uids : \E p, q \in Places :
                        p # q /\ u \in Uid(t.issues[p]) \cap Uid(t.issues[q])}
  BY Zenon DEF pull
<1>5. ASSUME NEW p \in Places, NEW q \in Places, p # q
      PROVE  Of(t, p) \cap Of(t, q) \subseteq muddled'
  <2>1. Of(t, p) \subseteq Uids
    BY <1>1, <1>2, UidsLiveHere DEF Inhabitants
  <2> QED BY <1>4, <1>5, <2>1 DEF Of
<1>6. \A j \in Clone : RemembersSo(tree[j], base[j], origin, had[j], muddled)
  BY RememberingNow
<1>7. Outgrown(b, m, muddled) /\ Outgrown(b, origin, muddled) /\ Remembers(m, had[k], muddled)
  BY <1>6 DEF RemembersSo
<1>8. muddled \subseteq muddled'
  BY <1>4
<1> HIDE DEF m, b, t
<1>9. Outgrown(m, t, muddled') /\ Outgrown(origin, t, muddled')
  BY <1>1, <1>2, <1>5, <1>7, <1>8, MergeOutgrows
<1>10. Singles(m) /\ Singles(origin) /\ Alone(origin)
  BY <1>1 DEF Meet
<1>11. Outgrown(origin, origin, muddled')
  <2> SUFFICES ASSUME NEW p \in Places, NEW q \in Places,
                      NEW f \in Versions(origin.issues[p]), NEW g \in Versions(origin.issues[q]),
                      f.uid = g.uid
               PROVE  KeysOf(f) \subseteq KeysOf(g)
    BY DEF Outgrown
  <2>1. f = origin.issues[p] /\ g = origin.issues[q] /\ f.uid \in Of(origin, p)
        /\ g.uid \in Of(origin, q)
    BY <1>2, <1>10, SingleVersion
  <2>2. p = q
    BY <1>2, <1>10, <2>1, AloneAt
  <2> QED BY <2>1, <2>2
<1>12. Remembers(t, had'[k], muddled')
  <2> SUFFICES ASSUME NEW q \in Places, NEW g \in Versions(t.issues[q]),
                      Distinct(t.issues[q]), g.uid \notin muddled'
               PROVE  had'[k][g.uid] \subseteq KeysOf(g)
    BY DEF Remembers
  <2> DEFINE u == g.uid
  <2>1. u \in Uids
    BY <1>1, <1>2, VersionHasUid, UidsLiveHere DEF Inhabitants
  <2>2. had[k][u] \subseteq KeysOf(g)
    <3>1. CASE had[k][u] = {}
      BY <3>1
    <3>2. CASE had[k][u] # {}
      <4>1. u \in Inhabitants(m)
        BY <2>1, <3>2 DEF CloneInv, Numbered, m
      <4>2. PICK p \in Places : u \in Of(m, p)
        BY <4>1 DEF Inhabitants
      <4>3. PICK f : /\ f = m.issues[p] /\ f \in Versions(m.issues[p])
                     /\ f.uid = u /\ Distinct(m.issues[p])
        BY <1>2, <1>10, <4>2, SingleVersion
      <4>4. had[k][u] \subseteq KeysOf(f)
        BY <1>7, <1>8, <4>3 DEF Remembers
      <4>5. KeysOf(f) \subseteq KeysOf(g)
        BY <1>9, <4>3 DEF Outgrown
      <4> QED BY <4>4, <4>5
    <3> QED BY <3>1, <3>2
  <2>3. HadIn(origin, u) \subseteq KeysOf(g)
    <3> SUFFICES ASSUME NEW n \in HadIn(origin, u) PROVE n \in KeysOf(g)
      OBVIOUS
    <3>1. PICK p \in Places : /\ origin.issues[p].uid = u /\ origin.issues[p].key = n
                              /\ origin.issues[p] \in Versions(origin.issues[p])
      BY <1>2, <1>10, WhatIsHad
    <3>2. KeysOf(origin.issues[p]) \subseteq KeysOf(g)
      BY <1>9, <3>1 DEF Outgrown
    <3> QED BY <3>1, <3>2 DEF KeysOf
  <2>4. had'[k][u] = had[k][u] \cup HadIn(origin, u)
    BY <1>3, <2>1
  <2> QED BY <2>2, <2>3, <2>4
<1>13. Once(t, muddled')
  BY <1>5 DEF Once
<1>14. ASSUME NEW j \in Clone
       PROVE  RemembersSo(tree'[j], base'[j], origin', had'[j], muddled')
  <2>1. CASE j = k
    <3>1. base'[j] = origin /\ origin' = origin /\ tree'[j] = t
      BY <1>1, <1>2, <2>1 DEF t
    <3> QED BY <1>9, <1>11, <1>12, <1>13, <2>1, <3>1 DEF RemembersSo
  <2>2. CASE j # k
    <3>1. tree'[j] = tree[j] /\ base'[j] = base[j] /\ had'[j] = had[j] /\ origin' = origin
      BY <1>1, <1>2, <1>3, <2>2
    <3>2. RemembersSo(tree[j], base[j], origin, had[j], muddled')
      BY <1>6, <1>8, MoreIsMuddled
    <3> QED BY <3>1, <3>2
  <2> QED BY <2>1, <2>2
<1> QED BY <1>14, RememberingMeans

-----------------------------------------------------------------------------
(* A plan fits the files it is made from.                                  *)

ClaimOf(is, p) == [uid |-> is[p].uid, key |-> is[p].key, path |-> p]
Claimants(is) == {ClaimOf(is, p) : p \in ShownIn(is)}

LEMMA ShownAreFiles ==
    ASSUME Sound, NEW s \in GitTrees, NEW p \in ShownIn(s.issues)
    PROVE  /\ p \in Places /\ s.issues[p] \in IssueFiles /\ s.issues[p] # None
           /\ s.issues[p].uid \in Uids /\ s.issues[p].uid \in Nat /\ s.issues[p].key \in Nat
           /\ s.issues[p].uid \in Solo(s.issues[p])
<1>1. p \in Places /\ Readable(s.issues[p]) /\ s.issues[p] \in FileContents
  BY DEF ShownIn, GitTrees
<1>2. s.issues[p] \in IssueFiles /\ s.issues[p] # None
  BY <1>1, VersionsOfFile
<1>3. s.issues[p].uid \in Uids /\ s.issues[p].key \in Nat
  BY <1>2, FilesOfIssues
<1>4. s.issues[p].uid \in Nat
  BY <1>3 DEF Uids, Sound
<1>5. s.issues[p].uid \in Solo(s.issues[p])
  BY <1>2, SingleFile
<1> QED BY <1>1, <1>2, <1>3, <1>4, <1>5

LEMMA ShownIsFinite ==
    ASSUME Sound, NEW is
    PROVE  IsFiniteSet(ShownIn(is))
BY PlacesAreFinite, FS_Subset DEF ShownIn

LEMMA ClaimantsCount ==
    ASSUME Sound, NEW s \in GitTrees, Alone(s), NEW C, C = Claimants(s.issues)
    PROVE  /\ Numbers(C)
           /\ \A c \in C : \E p \in ShownIn(s.issues) : c = ClaimOf(s.issues, p)
           /\ \A p \in ShownIn(s.issues) : ClaimOf(s.issues, p) \in C
<1>1. /\ \A c \in C : \E p \in ShownIn(s.issues) : c = ClaimOf(s.issues, p)
      /\ \A p \in ShownIn(s.issues) : ClaimOf(s.issues, p) \in C
  BY DEF Claimants
<1>2. IsFiniteSet(C)
  <2>1. PICK S : S = ShownIn(s.issues)
    OBVIOUS
  <2>2. IsFiniteSet(S)
    BY <2>1, ShownIsFinite
  <2>3. PICK f : f = [p \in S |-> ClaimOf(s.issues, p)]
    OBVIOUS
  <2>4. f \in Surjection(S, C)
    BY <1>1, <2>1, <2>3 DEF Surjection
  <2> QED BY <2>2, <2>4, FS_Surjection
<1>3. \A c \in C : c.uid \in Nat /\ c.key \in Nat
  BY <1>1, ShownAreFiles DEF ClaimOf
<1>4. ASSUME NEW c \in C, NEW d \in C, c.uid = d.uid
      PROVE  c = d
  <2>1. PICK p \in ShownIn(s.issues) : c = ClaimOf(s.issues, p)
    BY <1>1
  <2>2. PICK q \in ShownIn(s.issues) : d = ClaimOf(s.issues, q)
    BY <1>1
  <2>3. s.issues[p].uid = s.issues[q].uid
    BY <1>4, <2>1, <2>2 DEF ClaimOf
  <2>4. Solo(s.issues[p]) \cap Solo(s.issues[q]) # {}
    BY <2>3, ShownAreFiles
  <2>5. p = q
    BY <2>4, ShownAreFiles DEF Alone
  <2> QED BY <2>1, <2>2, <2>5
<1> QED BY <1>1, <1>2, <1>3, <1>4 DEF Numbers

(* The i-th entry of a plan is for the i-th loser.                         *)
Entry(C, last, todo, i, c) ==
    /\ c \in Losers(C) /\ Position(C, c) = i
    /\ todo[i] = [uid |-> c.uid, path |-> c.path, from |-> c.key, to |-> last + i]
EntriesOf(C, todo) ==
    /\ LastOf(C) \in Nat /\ \A c \in C : c.key <= LastOf(C)
    /\ Len(todo) = Cardinality(Losers(C))
    /\ \A i \in 1..Len(todo) : \E c \in C : Entry(C, LastOf(C), todo, i, c)
    /\ \A c \in Losers(C) : \E i \in 1..Len(todo) : Position(C, c) = i /\ todo[i].path = c.path

LEMMA PlanLists ==
    ASSUME Sound, NEW s \in GitTrees, Alone(s), NEW C, C = Claimants(s.issues),
           NEW todo, todo = planRekeys(C)
    PROVE  todo \in Seq(Rekeys) /\ EntriesOf(C, todo)
<1>1. /\ Numbers(C)
      /\ \A c \in C : \E p \in ShownIn(s.issues) : c = ClaimOf(s.issues, p)
  BY ClaimantsCount
<1>2. PICK L, n, last : L = Losers(C) /\ n = Cardinality(L) /\ last = LastOf(C)
  OBVIOUS
<1>3. /\ n \in Nat /\ last \in Nat
      /\ \A c \in C : c.key <= last
      /\ todo = [i \in 1..n |-> todo[i]]
      /\ \A i \in 1..n : \E c \in L :
            /\ Position(C, c) = i
            /\ todo[i] = [uid |-> c.uid, path |-> c.path, from |-> c.key, to |-> last + i]
      /\ \A c \in L : \E i \in 1..n : Position(C, c) = i /\ todo[i].path = c.path
  BY <1>1, <1>2, PlanIsComplete
<1>4. L \subseteq C
  BY <1>2 DEF Losers
<1>5. ASSUME NEW i \in 1..n
      PROVE  todo[i] \in Rekeys
  <2>1. PICK c \in L :
            todo[i] = [uid |-> c.uid, path |-> c.path, from |-> c.key, to |-> last + i]
    BY <1>3
  <2>2. PICK p \in ShownIn(s.issues) : c = ClaimOf(s.issues, p)
    BY <1>1, <1>4, <2>1
  <2>3. c.uid \in Uids /\ c.path \in Places /\ c.key \in Nat
    BY <2>2, ShownAreFiles DEF ClaimOf
  <2>4. last + i \in Nat
    BY <1>3
  <2> QED BY <2>1, <2>3, <2>4 DEF Rekeys
<1>6. todo \in [1..n -> Rekeys]
  BY <1>3, <1>5
<1>7. todo \in Seq(Rekeys)
  BY <1>3, <1>6, SeqDef
<1>8. Len(todo) = n
  BY <1>3, <1>6, <1>7, LenProperties
<1>9. \A i \in 1..Len(todo) : \E c \in C : Entry(C, LastOf(C), todo, i, c)
  BY <1>2, <1>3, <1>4, <1>8 DEF Entry
<1> QED BY <1>2, <1>3, <1>7, <1>8, <1>9 DEF EntriesOf

LEMMA PlanFits ==
    ASSUME Sound, NEW s \in GitTrees, Alone(s), NEW C, C = Claimants(s.issues),
           NEW todo, todo = planRekeys(C)
    PROVE  Fitting(s.issues, todo) /\ \A i \in 1..Len(todo) : s.issues[todo[i].path] # None
<1>1. todo \in Seq(Rekeys) /\ EntriesOf(C, todo)
  BY PlanLists
<1>2. /\ Numbers(C)
      /\ \A c \in C : \E p \in ShownIn(s.issues) : c = ClaimOf(s.issues, p)
      /\ \A p \in ShownIn(s.issues) : ClaimOf(s.issues, p) \in C
  BY ClaimantsCount
<1>3. PICK last \in Nat : last = LastOf(C)
  BY <1>1 DEF EntriesOf
<1>4. PICK n \in Nat : n = Len(todo)
  BY <1>1, LenProperties
<1>5. ASSUME NEW i \in 1..n
      PROVE  FitsAt(s.issues, todo, i) /\ s.issues[todo[i].path] # None
  <2>1. PICK c \in C : Entry(C, last, todo, i, c)
    BY <1>1, <1>3, <1>4 DEF EntriesOf
  <2>2. PICK p \in ShownIn(s.issues) : c = ClaimOf(s.issues, p)
    BY <1>2
  <2>3. /\ todo[i].path = p /\ todo[i].uid = s.issues[p].uid /\ todo[i].from = s.issues[p].key
        /\ todo[i].to = last + i
    BY <2>1, <2>2 DEF Entry, ClaimOf
  <2>4. PICK d \in C : d.key = c.key /\ d.uid < c.uid
    BY <2>1 DEF Entry, Losers
  <2>5. PICK q \in ShownIn(s.issues) : d = ClaimOf(s.issues, q)
    BY <1>2
  <2>6. s.issues[q].uid < todo[i].uid /\ todo[i].from \in KeysOf(s.issues[q])
    BY <2>2, <2>3, <2>4, <2>5 DEF ClaimOf, KeysOf
  <2>7. ASSUME NEW x \in ShownIn(s.issues)
        PROVE  s.issues[x].key < todo[i].to
    <3>1. ClaimOf(s.issues, x) \in C /\ s.issues[x].key \in Nat
      BY <1>2, ShownAreFiles
    <3>2. s.issues[x].key <= last
      BY <1>1, <1>3, <3>1 DEF EntriesOf, ClaimOf
    <3> QED BY <2>3, <3>1, <3>2
  <2>8. ASSUME NEW j \in 1..n, i < j
        PROVE  todo[j].path # todo[i].path /\ todo[i].to < todo[j].to
    <3>1. PICK e \in C : Entry(C, last, todo, j, e)
      BY <1>1, <1>3, <1>4 DEF EntriesOf
    <3>2. PICK x \in ShownIn(s.issues) : e = ClaimOf(s.issues, x)
      BY <1>2
    <3>3. todo[j].path = x /\ todo[j].to = last + j
      BY <3>1, <3>2 DEF Entry, ClaimOf
    <3>4. x # p
      BY <2>1, <2>2, <2>8, <3>1, <3>2 DEF Entry
    <3> QED BY <2>3, <2>8, <3>3, <3>4
  <2>9. s.issues[p] # None
    BY ShownAreFiles
  <2> QED BY <1>4, <2>2, <2>3, <2>5, <2>6, <2>7, <2>8, <2>9 DEF FitsAt
<1>6. ASSUME NEW p \in ShownIn(s.issues), NEW q \in ShownIn(s.issues), p # q,
             s.issues[p].key = s.issues[q].key
      PROVE  \E i \in 1..Len(todo) : todo[i].path \in {p, q}
  <2>1. PICK c \in C : c = ClaimOf(s.issues, p)
    BY <1>2
  <2>2. PICK d \in C : d = ClaimOf(s.issues, q)
    BY <1>2
  <2>3. c.key = d.key /\ c.path = p /\ d.path = q /\ c.uid \in Nat /\ d.uid \in Nat /\ c.uid # d.uid
    BY <1>2, <1>6, <2>1, <2>2 DEF ClaimOf, Numbers
  <2>4. c \in Losers(C) \/ d \in Losers(C)
    BY <2>3 DEF Losers
  <2> QED BY <1>1, <2>3, <2>4 DEF EntriesOf
<1> QED BY <1>4, <1>5, <1>6 DEF Fitting

(* When its first entry is applied, the rest of a plan still fits.         *)
LEMMA TailFits ==
    ASSUME Sound, NEW s \in GitTrees, NEW t \in GitTrees, NEW todo \in Seq(Rekeys),
           Fitting(s.issues, todo), todo # <<>>, NEW r, r = todo[1],
           t.issues[r.path] = Renamed(s.issues[r.path], r),
           \A p \in Places : p # r.path => t.issues[p] = s.issues[p]
    PROVE  /\ Fitting(t.issues, Tail(todo)) /\ ShownIn(t.issues) = ShownIn(s.issues)
           /\ s.issues[r.path] \in IssueFiles /\ s.issues[r.path].key = r.from
           /\ s.issues[r.path].uid = r.uid /\ r.from < r.to
<1>1. PICK n \in Nat : n = Len(todo)
  BY LenProperties
<1>2. n >= 1 /\ 1 \in 1..n /\ r \in Rekeys
  BY <1>1, EmptySeq, LenProperties
<1>3. PICK rest \in Seq(Rekeys) : rest = Tail(todo)
  BY HeadTailProperties
<1>4. Len(rest) = n - 1 /\ \A i \in 1..(n - 1) : rest[i] = todo[i + 1]
  BY <1>1, <1>3, HeadTailProperties
<1>5. FitsAt(s.issues, todo, 1)
  BY <1>1, <1>2 DEF Fitting
<1>6. /\ r.path \in ShownIn(s.issues) /\ s.issues[r.path].uid = r.uid
      /\ s.issues[r.path].key = r.from
      /\ \A p \in ShownIn(s.issues) : s.issues[p].key < r.to
      /\ \A j \in 1..n : 1 < j => todo[j].path # r.path /\ r.to < todo[j].to
  BY <1>1, <1>5 DEF FitsAt
<1>7. /\ r.path \in Places /\ s.issues[r.path] \in IssueFiles
  BY <1>6, ShownAreFiles
<1>8. PICK new : new = t.issues[r.path]
  OBVIOUS
<1>9. new.uid = r.uid /\ new.key = r.to /\ new.former = s.issues[r.path].former \cup {r.from}
  BY <1>6, <1>8 DEF Renamed
<1>10. Readable(new)
  <2>1. s.issues[r.path] # None /\ s.issues[r.path] \in FileContents
    BY <1>7 DEF Sound, FileContents
  <2>2. Renamed(One(s.issues[r.path]), r) \in IssueFiles /\ One(s.issues[r.path]) = s.issues[r.path]
    BY <1>2, <1>7, <2>1, PatchRenames
  <2> QED BY <1>8, <2>2, VersionsOfFile DEF FileContents
<1>11. ShownIn(t.issues) = ShownIn(s.issues)
  BY <1>6, <1>8, <1>10 DEF ShownIn
<1>12. \A p \in Places : KeysOf(s.issues[p]) \subseteq KeysOf(t.issues[p])
                           /\ t.issues[p].uid = s.issues[p].uid
  <2>1. KeysOf(s.issues[r.path]) \subseteq KeysOf(new)
    BY <1>6, <1>9 DEF KeysOf
  <2> QED BY <1>6, <1>8, <1>9, <2>1
<1>13. \A p \in ShownIn(s.issues) : p \in Places
  BY DEF ShownIn
<1>14. ASSUME NEW i \in 1..(n - 1)
       PROVE  FitsAt(t.issues, rest, i)
  <2>1. PICK x : x = todo[i + 1]
    OBVIOUS
  <2>2. i + 1 \in 1..n /\ rest[i] = x /\ 1 < i + 1
    <3>1. i + 1 \in 1..n /\ 1 < i + 1
      BY <1>2
    <3>2. rest[i] = todo[i + 1]
      BY <1>4
    <3> QED BY <2>1, <3>1, <3>2
  <2>3. FitsAt(s.issues, todo, i + 1)
    BY <1>1, <2>2 DEF Fitting
  <2>4. /\ x.path \in ShownIn(s.issues) /\ s.issues[x.path].uid = x.uid
        /\ s.issues[x.path].key = x.from
        /\ \E q \in ShownIn(s.issues) : s.issues[q].uid < x.uid /\ x.from \in KeysOf(s.issues[q])
        /\ \A p \in ShownIn(s.issues) : s.issues[p].key < x.to
        /\ \A j \in 1..n : i + 1 < j => todo[j].path # x.path /\ x.to < todo[j].to
    BY <1>1, <2>1, <2>3 DEF FitsAt
  <2>5. x.path # r.path /\ r.to < x.to
    BY <1>6, <2>1, <2>2
  <2>6. t.issues[x.path] = s.issues[x.path]
    BY <1>13, <2>4, <2>5
  <2>7. \E q \in ShownIn(t.issues) : t.issues[q].uid < x.uid /\ x.from \in KeysOf(t.issues[q])
    BY <1>11, <1>12, <1>13, <2>4
  <2>8. ASSUME NEW p \in ShownIn(t.issues)
        PROVE  t.issues[p].key < x.to
    BY <1>8, <1>9, <1>11, <1>13, <2>4, <2>5, <2>8
  <2>9. ASSUME NEW j \in 1..(n - 1), i < j
        PROVE  rest[j].path # x.path /\ x.to < rest[j].to
    <3>1. j + 1 \in 1..n /\ i + 1 < j + 1 /\ rest[j] = todo[j + 1]
      BY <1>4, <2>9
    <3> QED BY <2>4, <3>1
  <2> QED BY <1>4, <1>11, <2>2, <2>4, <2>6, <2>7, <2>8, <2>9 DEF FitsAt
<1>15. ASSUME NEW p \in ShownIn(t.issues), NEW q \in ShownIn(t.issues), p # q,
              t.issues[p].key = t.issues[q].key
       PROVE  \E i \in 1..Len(rest) : rest[i].path \in {p, q}
  <2>1. \A x \in ShownIn(s.issues) : s.issues[x].key \in Nat /\ r.to \in Nat
    BY <1>2, ShownAreFiles DEF Rekeys
  <2>2. p # r.path /\ q # r.path
    BY <1>6, <1>8, <1>9, <1>11, <1>13, <1>15, <2>1
  <2>3. s.issues[p].key = s.issues[q].key
    BY <1>11, <1>13, <1>15, <2>2
  <2>4. PICK i \in 1..n : todo[i].path \in {p, q}
    BY <1>1, <1>11, <1>15, <2>3 DEF Fitting
  <2>5. i # 1
    BY <2>2, <2>4
  <2>6. PICK j : j = i - 1
    OBVIOUS
  <2>7. j \in 1..(n - 1) /\ i = j + 1
    BY <2>5, <2>6
  <2> QED BY <1>4, <2>4, <2>7
<1>16. r.from < r.to
  BY <1>6
<1> QED BY <1>3, <1>4, <1>6, <1>7, <1>11, <1>14, <1>15, <1>16 DEF Fitting

(* The key of a new issue is beyond all that are shown.                    *)
LEMMA NewKeyIsBeyond ==
    ASSUME CloneInv, NEW k \in Clone, NEW n, NewKey(k, n), ReadsIn(tree[k].issues, rows[k]),
           NEW p \in ShownIn(tree[k].issues)
    PROVE  tree[k].issues[p].key < n
<1> DEFINE known == {x \in Places : Row(k, x) # None}
           A == {Row(k, x).key : x \in known}
           F == {Row(k, x).former : x \in known}
           bad == {x \in Places : rows[k][x].state = "INVALID"}
           Q == {x[1] : x \in bad}
<1>1. n = highest((A \cup UNION F) \cup Q) + 1
  BY Zenon DEF NewKey, allocateKey
<1>2. Sound /\ rows \in [Clone -> [Places -> ShownRows]] /\ tree[k] \in GitTrees /\ MaxKey \in Nat
  BY DEF CloneInv, Housed, Tables, Branches, Sound
<1>3. \A x \in known : Row(k, x) \in IssueFiles
  BY <1>2 DEF Row, ShownRows
<1>4. IsFiniteSet(known) /\ IsFiniteSet(bad)
  BY <1>2, PlacesAreFinite, FS_Subset
<1>5. p \in Places /\ tree[k].issues[p] \in IssueFiles /\ tree[k].issues[p] # None
  BY <1>2, ShownAreFiles
<1>6. Row(k, p) = tree[k].issues[p]
  <2>1. rows[k][p] = [state |-> "OK", file |-> tree[k].issues[p]]
    BY <1>5 DEF ReadsIn
  <2> QED BY <2>1 DEF Row
<1>7. tree[k].issues[p].key \in A
  BY <1>5, <1>6
<1>8. A \subseteq Nat /\ IsFiniteSet(A)
  <2>1. A \subseteq Nat
    BY <1>3, FilesOfIssues
  <2>2. PICK f : f = [x \in known |-> Row(k, x).key]
    OBVIOUS
  <2>3. f \in Surjection(known, A)
    BY <2>2 DEF Surjection
  <2> HIDE DEF A, known
  <2> QED BY <1>4, <2>1, <2>3, FS_Surjection
<1>9. UNION F \subseteq Nat /\ IsFiniteSet(UNION F)
  <2>1. \A T \in F : T \subseteq Nat /\ IsFiniteSet(T)
    BY <1>3, FilesOfIssues
  <2>2. PICK f : f = [x \in known |-> Row(k, x).former]
    OBVIOUS
  <2>3. f \in Surjection(known, F)
    BY <2>2 DEF Surjection
  <2> HIDE DEF F, known
  <2>4. IsFiniteSet(F)
    BY <1>4, <2>3, FS_Surjection
  <2>5. IsFiniteSet(UNION F)
    BY <2>1, <2>4, FS_UNION
  <2> QED BY <2>1, <2>5
<1>10. Q \subseteq Nat /\ IsFiniteSet(Q)
  <2>1. \A x \in Places : x[1] \in Nat
    BY <1>2 DEF Places, Keys, Sound
  <2>4. Q \subseteq Nat
    BY <2>1
  <2>2. PICK f : f = [x \in bad |-> x[1]]
    OBVIOUS
  <2>3. f \in Surjection(bad, Q)
    BY <2>2 DEF Surjection
  <2> HIDE DEF Q, bad
  <2> QED BY <1>4, <2>3, <2>4, FS_Surjection
<1>11. PICK U : U = UNION F
  OBVIOUS
<1>12. n = highest((A \cup U) \cup Q) + 1 /\ U \subseteq Nat /\ IsFiniteSet(U)
  BY <1>1, <1>9, <1>11
<1> HIDE DEF A, F, Q, bad, known
<1>13. IsFiniteSet(A \cup U)
  BY <1>8, <1>12, FS_Union
<1>14. IsFiniteSet((A \cup U) \cup Q)
  BY <1>10, <1>13, FS_Union
<1>15. PICK N \in SUBSET Nat : N = (A \cup U) \cup Q
  BY <1>8, <1>10, <1>12
<1>16. highest(N) \in Nat /\ \A x \in N : x <= highest(N)
  BY <1>14, <1>15, HighestIsThere
<1>17. tree[k].issues[p].key \in N /\ tree[k].issues[p].key \in Nat /\ n = highest(N) + 1
  BY <1>7, <1>12, <1>15
<1> QED BY <1>16, <1>17

LEMMA ChangedMeans ==
    ASSUME CloneInv, NEW k \in Clone, Changed(k)
    PROVE  /\ crossed' = IF plan[k] # <<>> THEN crossed \cup {k} ELSE crossed
           /\ seen' = [seen EXCEPT ![k] = {}]
BY DEF Changed

LEMMA OthersStayPlanned ==
    ASSUME CloneInv, NEW j \in Clone, NEW is, is = tree[j].issues, NEW rw, rw = rows[j],
           NEW pl, pl = plan[j], NEW D, j \in due => j \in D, NEW X, j \in crossed => j \in X
    PROVE  PlannedAt(j, is, rw, pl, D, X)
BY DEF CloneInv, Planned, PlannedAt

LEMMA CreatePlans ==
    ASSUME CloneInv, NEW k \in Clone, createIssue(k), NEW p, NEW u, NEW f, Created(k, p, u, f)
    PROVE  PlannedAt(k, tree'[k].issues, rows'[k], plan'[k], due', crossed')
<1> DEFINE is == tree[k].issues
           new == tree'[k].issues
<1>1. /\ plan' = plan /\ due' = due
      /\ crossed' = IF plan[k] # <<>> THEN crossed \cup {k} ELSE crossed
  BY DEF createIssue, Changed
<1>2. /\ p \in Places /\ p[1] \in Keys /\ NewKey(k, p[1]) /\ f \in IssueFiles /\ f.key = p[1]
      /\ is[p] = None /\ new[p] = f /\ \A q \in Places : q # p => new[q] = is[q]
      /\ rows' = [rows EXCEPT ![k][p] = [state |-> "OK", file |-> f]]
  BY DEF Created, Placed
<1>3. /\ Sound /\ rows \in [Clone -> [Places -> ShownRows]] /\ tree[k] \in GitTrees
      /\ plan[k] \in Seq(Rekeys) /\ MaxKey \in Nat
  BY DEF CloneInv, Housed, Tables, Branches, Sound
<1>4. /\ rows'[k][p] = [state |-> "OK", file |-> f]
      /\ \A q \in Places : q # p => rows'[k][q] = rows[k][q]
  BY <1>2, <1>3
<1>5. PlannedAt(k, is, rows[k], plan[k], due, crossed)
  BY DEF CloneInv, Planned
<1>6. Readable(f) /\ f # None
  BY <1>2, <1>3, VersionsOfFile DEF FileContents
<1>7. ShownIn(new) = ShownIn(is) \cup {p}
  BY <1>2, <1>6 DEF ShownIn
<1>8. ReadsIn(is, rows[k]) => ReadsIn(new, rows'[k])
  BY <1>2, <1>4, <1>7 DEF ReadsIn
<1>9. k \notin due' \/ (k \notin crossed' /\ plan'[k] # <<>>) => ReadsIn(new, rows'[k])
  BY <1>1, <1>5, <1>8 DEF PlannedAt
<1>10. ASSUME k \notin crossed', k \notin due' \/ plan'[k] # <<>>
       PROVE  Fitting(new, plan'[k])
  <2>1. plan[k] = <<>> /\ k \notin crossed /\ k \notin due
    BY <1>1, <1>10
  <2>2. Fitting(is, <<>>) /\ ReadsIn(is, rows[k])
    BY <1>5, <2>1 DEF PlannedAt
  <2>3. \A x \in ShownIn(is) : is[x].key < p[1] /\ is[x].key \in Nat
    BY <1>2, <1>3, <2>2, NewKeyIsBeyond, ShownAreFiles
  <2>4. \A x, y \in ShownIn(is) : x # y => is[x].key # is[y].key
    BY <2>2, EmptySeq DEF Fitting
  <2>5. \A x \in ShownIn(is) : x # p /\ new[x] = is[x]
    BY <1>2 DEF ShownIn, Readable
  <2>6. p[1] \in Nat
    BY <1>2, <1>3 DEF Keys
  <2>7. \A x, y \in ShownIn(new) : x # y => new[x].key # new[y].key
    BY <1>2, <1>7, <2>3, <2>4, <2>5, <2>6
  <2> QED BY <1>1, <2>1, <2>7, EmptySeq DEF Fitting
<1>11. ASSUME NEW i \in 1..Len(plan'[k])
       PROVE  new[plan'[k][i].path] # None
  <2>1. plan[k][i].path \in Places
    <3>1. PICK todo \in Seq(Rekeys) : todo = plan[k]
      BY <1>3
    <3>2. i \in 1..Len(todo)
      BY <1>1, <3>1
    <3>3. todo[i] \in Rekeys
      BY <3>1, <3>2, ElementOfSeq
    <3> QED BY <3>1, <3>3 DEF Rekeys
  <2>2. is[plan[k][i].path] # None
    BY <1>1, <1>5 DEF PlannedAt
  <2> QED BY <1>1, <1>2, <1>6, <2>1, <2>2
<1> QED BY <1>9, <1>10, <1>11 DEF PlannedAt

LEMMA ReconcileReads ==
    ASSUME CloneInv, NEW k \in Clone, reconcileFull(k)
    PROVE  /\ ReadsIn(tree[k].issues, rows'[k])
           /\ plan' = [plan EXCEPT ![k] = planRekeys(Claimants(tree[k].issues))]
           /\ seen' = [seen EXCEPT ![k] = IF @ # {} THEN @ ELSE Pairs(tree[k].issues)]
           /\ rows' = [rows EXCEPT ![k] = ReadIssues(k)]
<1> DEFINE is == tree[k].issues
<1>1. /\ Sound /\ rows \in [Clone -> [Places -> ShownRows]] /\ tree[k] \in GitTrees
  BY DEF CloneInv, Housed, Tables, Branches
<1>2. rows' = [rows EXCEPT ![k] = ReadIssues(k)]
  BY DEF reconcileFull
<1>3. rows'[k] = [p \in Places |-> Indexed(k, p, is[p])]
  BY <1>1, <1>2 DEF ReadIssues
<1>4. ASSUME NEW p \in Places
      PROVE  IF p \in ShownIn(is) THEN rows'[k][p] = [state |-> "OK", file |-> is[p]]
             ELSE rows'[k][p].state # "OK"
  <2>1. rows'[k][p] = Indexed(k, p, is[p])
    BY <1>3
  <2> QED BY <2>1 DEF Indexed, ShownIn, Readable
<1>5. ReadsIn(is, rows'[k])
  BY <1>4 DEF ReadsIn
<1>6. {q \in Places : rows'[k][q].state = "OK"} = ShownIn(is)
  <2>1. ASSUME NEW q \in Places
        PROVE  rows'[k][q].state = "OK" <=> q \in ShownIn(is)
    <3>1. CASE q \in ShownIn(is)
      <4>1. rows'[k][q] = [state |-> "OK", file |-> is[q]]
        BY <1>4, <3>1
      <4> QED BY <3>1, <4>1
    <3>2. CASE q \notin ShownIn(is)
      BY <1>4, <3>2
    <3> QED BY <3>1, <3>2
  <2> QED BY <2>1 DEF ShownIn
<1>7. \A p \in ShownIn(is) : rows'[k][p].file = is[p]
  <2> TAKE p \in ShownIn(is)
  <2>1. p \in Places
    BY DEF ShownIn
  <2>2. rows'[k][p] = [state |-> "OK", file |-> is[p]]
    BY <1>4, <2>1
  <2> QED BY <2>2
<1>8. PICK C : C = {[uid |-> rows'[k][p].file.uid, key |-> rows'[k][p].file.key, path |-> p] :
                        p \in {q \in Places : rows'[k][q].state = "OK"}}
  OBVIOUS
<1>9. C = Claimants(is)
  BY <1>6, <1>7, <1>8 DEF Claimants, ClaimOf
<1>10. /\ plan' = [plan EXCEPT ![k] = planRekeys(C)]
       /\ seen' = [seen EXCEPT ![k] = IF @ # {} THEN @ ELSE {<<c.uid, c.key>> : c \in C}]
  BY <1>8, Zenon DEF reconcileFull
<1>11. {<<c.uid, c.key>> : c \in C} = Pairs(is)
  <2>1. \A p \in ShownIn(is) : ClaimOf(is, p).uid = is[p].uid /\ ClaimOf(is, p).key = is[p].key
    BY DEF ClaimOf
  <2>2. C = {ClaimOf(is, p) : p \in ShownIn(is)}
    BY <1>9 DEF Claimants
  <2>3. ASSUME NEW c \in C
        PROVE  <<c.uid, c.key>> \in Pairs(is)
    BY <2>1, <2>2 DEF Pairs
  <2>4. ASSUME NEW x \in Pairs(is)
        PROVE  \E c \in C : x = <<c.uid, c.key>>
    BY <2>1, <2>2 DEF Pairs
  <2> QED BY <2>3, <2>4
<1> QED BY <1>2, <1>5, <1>9, <1>10, <1>11

(* When a rekey is applied, the rest of the plan fits, and the index shows *)
(* the files.                                                              *)
LEMMA RekeyReads ==
    ASSUME CloneInv, NEW k \in Clone, NEW r, NEW f, Applied(k, r, f), ReadsIn(tree[k].issues, rows[k])
    PROVE  ReadsIn(tree'[k].issues, rows'[k])
<1>1. /\ Sound /\ rows \in [Clone -> [Places -> ShownRows]] /\ tree \in [Clone -> GitTrees]
      /\ r \in Rekeys /\ r.path \in Places /\ f \in FileContents /\ f # None
      /\ f = tree[k].issues[r.path]
  BY DEF CloneInv, Housed, Tables, Branches, Applied
<1>2. CASE LeftAlone
  BY <1>2 DEF LeftAlone
<1>3. CASE Rewritten(k, r, f)
  <2>1. PICK g : g = Patched(f, r)
    OBVIOUS
  <2>2. g \in FileContents /\ g # None
    BY <1>1, <2>1, PatchRenames
  <2>3. /\ tree'[k].issues[r.path] = g
        /\ \A q \in Places : q # r.path => tree'[k].issues[q] = tree[k].issues[q]
    BY <1>3, <2>1 DEF Rewritten, Placed
  <2>4. /\ rows'[k][r.path] = Indexed(k, r.path, g)
        /\ \A q \in Places : q # r.path => rows'[k][q] = rows[k][q]
    BY <1>1, <1>3, <2>1 DEF Rewritten
  <2>5. IF Readable(g) THEN rows'[k][r.path] = [state |-> "OK", file |-> g]
        ELSE rows'[k][r.path].state # "OK"
    BY <2>2, <2>4 DEF Indexed, Readable
  <2>6. ASSUME NEW q \in Places
        PROVE  IF q \in ShownIn(tree'[k].issues)
               THEN rows'[k][q] = [state |-> "OK", file |-> tree'[k].issues[q]]
               ELSE rows'[k][q].state # "OK"
    <3>1. CASE q = r.path
      BY <2>3, <2>5, <2>6, <3>1 DEF ShownIn
    <3>2. CASE q # r.path
      <4>1. tree'[k].issues[q] = tree[k].issues[q] /\ rows'[k][q] = rows[k][q]
        BY <2>3, <2>4, <3>2
      <4>2. q \in ShownIn(tree'[k].issues) <=> q \in ShownIn(tree[k].issues)
        BY <4>1 DEF ShownIn
      <4> QED BY <4>1, <4>2 DEF ReadsIn
    <3> QED BY <3>1, <3>2
  <2> QED BY <2>6 DEF ReadsIn
<1> QED BY <1>2, <1>3 DEF Applied

LEMMA RekeyFits ==
    ASSUME CloneInv, NEW k \in Clone, NEW r, NEW f, Applied(k, r, f), k \notin crossed
    PROVE  /\ Fitting(tree'[k].issues, Tail(plan[k]))
           /\ f \in IssueFiles /\ f.key = r.from /\ f.uid = r.uid /\ r.from < r.to
           /\ ReadsIn(tree[k].issues, rows[k]) /\ Rewritten(k, r, f)
           /\ Patched(f, r) = Renamed(f, r)
           /\ ShownIn(tree'[k].issues) = ShownIn(tree[k].issues)
           /\ r.path \in ShownIn(tree[k].issues)
<1>1. /\ Sound /\ tree \in [Clone -> GitTrees] /\ plan[k] \in Seq(Rekeys) /\ plan[k] # <<>>
      /\ r = plan[k][1] /\ r \in Rekeys /\ r.path \in Places /\ f \in FileContents /\ f # None
      /\ f = tree[k].issues[r.path]
  BY DEF CloneInv, Housed, Tables, Branches, Applied
<1>2. Fitting(tree[k].issues, plan[k]) /\ ReadsIn(tree[k].issues, rows[k])
  BY <1>1 DEF CloneInv, Planned, PlannedAt
<1>3. PICK todo \in Seq(Rekeys) : todo = plan[k]
  BY <1>1
<1>4. 1 \in 1..Len(todo)
  BY <1>1, <1>3, EmptySeq, LenProperties
<1>5. r.path \in ShownIn(tree[k].issues) /\ f.uid = r.uid /\ f.key = r.from /\ f.key < r.to
  BY <1>1, <1>2, <1>3, <1>4 DEF Fitting, FitsAt
<1>6. f \in IssueFiles
  BY <1>1, <1>5, ShownAreFiles
<1>7. Patched(f, r) = Renamed(f, r)
  BY <1>1, <1>6, PatchRenames
<1>8. Patched(f, r) # f
  <2>1. Renamed(f, r).key = r.to /\ f.key \in Nat /\ r.to \in Nat
    BY <1>1, <1>5, <1>6, ShownAreFiles DEF Renamed, Rekeys
  <2> QED BY <1>5, <1>7, <2>1
<1>9. Rewritten(k, r, f)
  BY <1>8 DEF Applied
<1>10. /\ tree'[k] \in GitTrees /\ tree'[k].issues[r.path] = Renamed(tree[k].issues[r.path], r)
       /\ \A p \in Places : p # r.path => tree'[k].issues[p] = tree[k].issues[p]
  BY <1>1, <1>7, <1>9 DEF Rewritten, Placed
<1>11. PICK s \in GitTrees : s = tree[k]
  BY <1>1
<1>12. PICK t \in GitTrees : t = tree'[k]
  BY <1>10
<1>13. Fitting(t.issues, Tail(todo)) /\ ShownIn(t.issues) = ShownIn(s.issues)
  <2>1. Fitting(s.issues, todo) /\ todo # <<>> /\ r = todo[1]
        /\ t.issues[r.path] = Renamed(s.issues[r.path], r)
        /\ \A p \in Places : p # r.path => t.issues[p] = s.issues[p]
    BY <1>1, <1>2, <1>3, <1>10, <1>11, <1>12
  <2> QED BY <1>1, <2>1, TailFits
<1> QED BY <1>2, <1>3, <1>5, <1>6, <1>7, <1>9, <1>11, <1>12, <1>13

LEMMA RekeyPlans ==
    ASSUME CloneInv, NEW k \in Clone, NEW r, NEW f, Applied(k, r, f), due' = due, crossed' = crossed
    PROVE  PlannedAt(k, tree'[k].issues, rows'[k], plan'[k], due', crossed')
<1>1. /\ Sound /\ tree \in [Clone -> GitTrees] /\ plan \in [Clone -> Seq(Rekeys)] /\ plan[k] # <<>>
      /\ r \in Rekeys /\ r.path \in Places /\ f \in FileContents /\ f # None
      /\ plan' = [plan EXCEPT ![k] = Tail(plan[k])]
  BY DEF CloneInv, Housed, Tables, Branches, Applied
<1>2. PlannedAt(k, tree[k].issues, rows[k], plan[k], due, crossed)
  BY DEF CloneInv, Planned
<1>3. k \notin due \/ k \notin crossed => ReadsIn(tree[k].issues, rows[k])
  BY <1>1, <1>2 DEF PlannedAt
<1>4. k \notin due \/ k \notin crossed => ReadsIn(tree'[k].issues, rows'[k])
  BY <1>3, RekeyReads
<1>5. k \notin crossed => Fitting(tree'[k].issues, plan'[k])
  BY <1>1, RekeyFits
<1>6. ASSUME NEW i \in 1..Len(plan'[k])
      PROVE  tree'[k].issues[plan'[k][i].path] # None
  <2>1. PICK todo \in Seq(Rekeys) : todo = plan[k]
    BY <1>1
  <2>2. PICK rest \in Seq(Rekeys) : rest = Tail(todo)
    BY <1>1, <2>1, HeadTailProperties
  <2>3. plan'[k] = rest
    BY <1>1, <2>1, <2>2
  <2>4. i + 1 \in 1..Len(todo) /\ rest[i] = todo[i + 1]
    BY <1>1, <2>1, <2>2, <2>3, HeadTailProperties, LenProperties
  <2>5. PICK j \in 1..Len(todo) : j = i + 1
    BY <2>4
  <2>6. todo[j] \in Rekeys /\ rest[i] = todo[j]
    BY <2>4, <2>5, ElementOfSeq
  <2>7. PICK p \in Places : p = todo[j].path
    BY <2>6 DEF Rekeys
  <2>8. tree[k].issues[p] # None
    BY <1>2, <2>1, <2>5, <2>7 DEF PlannedAt
  <2>9. tree'[k].issues[p] # None
    <3>1. CASE LeftAlone
      BY <2>8, <3>1 DEF LeftAlone
    <3>2. CASE Rewritten(k, r, f)
      BY <1>1, <2>8, <3>2, PatchRenames DEF Rewritten, Placed
    <3> QED BY <3>1, <3>2 DEF Applied
  <2> QED BY <2>3, <2>6, <2>7, <2>9
<1> QED BY <1>4, <1>5, <1>6 DEF PlannedAt
-----------------------------------------------------------------------------
(* What a step of one clone leaves to the others.                          *)

Others(k) ==
    \A j \in Clone : j # k =>
        /\ tree'[j] = tree[j] /\ base'[j] = base[j] /\ rows'[j] = rows[j] /\ plan'[j] = plan[j]
        /\ writes'[j] = writes[j] /\ had'[j] = had[j] /\ seen'[j] = seen[j]
        /\ (j \in due' <=> j \in due) /\ (j \in crossed' <=> j \in crossed)

LEMMA OthersAreLeft ==
    ASSUME CloneInv, NEW k \in Clone, Serve(k) \/ Git(k)
    PROVE  Others(k)
<1> USE DEF files, tables, keyHistory, noteHistory, history
<1>1. /\ tree \in [Clone -> GitTrees] /\ base \in [Clone -> GitTrees]
      /\ rows \in [Clone -> [Places -> ShownRows]] /\ plan \in [Clone -> Seq(Rekeys)]
      /\ writes \in [Clone -> Seq(OpWrites)] /\ had \in [Clone -> [Uids -> SUBSET Nat]]
      /\ seen \in [Clone -> SUBSET (Uids \X Nat)]
  BY DEF CloneInv, Housed, Branches, Tables
<1>2. ASSUME Changed(k)
      PROVE  \A j \in Clone : j # k => seen'[j] = seen[j] /\ (j \in crossed' <=> j \in crossed)
  BY <1>1, <1>2 DEF Changed
<1>3. CASE createIssue(k)
  <2>1. PICK p, u, f : Created(k, p, u, f)
    BY <1>3, CreateCreates
  <2>2. Changed(k) /\ base' = base /\ plan' = plan /\ writes' = writes /\ due' = due
    BY <1>3 DEF createIssue
  <2>3. /\ tree' = [tree EXCEPT ![k] = tree'[k]]
        /\ rows' = [rows EXCEPT ![k][p] = [state |-> "OK", file |-> f]]
        /\ had' = [had EXCEPT ![k][u] = @ \cup {p[1]}]
    BY <2>1 DEF Created
  <2>4. \A j \in Clone : j # k => tree'[j] = tree[j] /\ rows'[j] = rows[j] /\ had'[j] = had[j]
    BY <1>1, <2>3
  <2> QED BY <1>2, <2>2, <2>4 DEF Others
<1>4. CASE applyRekey(k)
  <2>1. PICK r, f : Applied(k, r, f)
    BY <1>4, RekeyApplies
  <2>2. base' = base /\ writes' = writes /\ due' = due /\ crossed' = crossed /\ seen' = seen
    BY <1>4 DEF applyRekey
  <2>3. \A j \in Clone : j # k => tree'[j] = tree[j] /\ rows'[j] = rows[j] /\ had'[j] = had[j]
    <3>1. CASE LeftAlone
      BY <3>1 DEF LeftAlone
    <3>2. CASE Rewritten(k, r, f)
      BY <1>1, <3>2 DEF Rewritten
    <3> QED BY <2>1, <3>1, <3>2 DEF Applied
  <2>4. \A j \in Clone : j # k => plan'[j] = plan[j]
    BY <1>1, <2>1 DEF Applied
  <2> QED BY <2>2, <2>3, <2>4 DEF Others
<1>5. CASE reconcileFull(k)
  <2>1. /\ tree' = tree /\ base' = base /\ writes' = writes /\ had' = had
        /\ due' = due \ {k} /\ crossed' = crossed \ {k}
    BY <1>5 DEF reconcileFull
  <2>2. \A j \in Clone : j # k => rows'[j] = rows[j] /\ plan'[j] = plan[j] /\ seen'[j] = seen[j]
    BY <1>1, <1>5, ReconcileReads
  <2> QED BY <2>1, <2>2 DEF Others
<1>6. CASE Crash(k)
  <2>1. /\ tree' = tree /\ base' = base /\ rows' = rows /\ had' = had /\ seen' = seen
        /\ crossed' = crossed /\ due' = due \cup {k}
        /\ plan' = [plan EXCEPT ![k] = <<>>] /\ writes' = [writes EXCEPT ![k] = <<>>]
    BY <1>6 DEF Crash
  <2> QED BY <1>1, <2>1 DEF Others
<1>7. CASE writeOp(k)
  <2>1. LogWritten(k, writes[k][1].note, writes[k][1].log) /\ writes' = [writes EXCEPT ![k] = Tail(writes[k])]
    BY <1>7, OpIsWritten
  <2>2. tree' = [tree EXCEPT ![k] = tree'[k]]
    BY <2>1 DEF LogWritten
  <2>3. /\ base' = base /\ rows' = rows /\ plan' = plan /\ had' = had /\ seen' = seen
        /\ crossed' = crossed /\ due' = due
    BY <1>7 DEF writeOp
  <2> QED BY <1>1, <2>1, <2>2, <2>3 DEF Others
<1>8. CASE \E c \in NoteIds, n \in Keys : addComment(k, c, n)
  <2>1. BodyWritten(k)
    BY <1>8, CommentIsWritten
  <2>2. /\ base' = base /\ rows' = rows /\ plan' = plan /\ had' = had /\ seen' = seen
        /\ crossed' = crossed /\ due' = due /\ writes' = writes
    BY <1>8 DEF addComment
  <2> QED BY <1>1, <2>1, <2>2 DEF Others, BodyWritten
<1>9. CASE \E c \in NoteIds, op \in Ops : appendOp(k, c, op)
  <2>1. /\ tree' = tree /\ base' = base /\ rows' = rows /\ plan' = plan /\ had' = had
        /\ seen' = seen /\ crossed' = crossed /\ due' = due
    BY <1>9 DEF appendOp
  <2>2. \A j \in Clone : j # k => writes'[j] = writes[j]
    BY <1>1, <1>9 DEF appendOp
  <2> QED BY <2>1, <2>2 DEF Others
<1>10. CASE \E c \in NoteIds : Touch(k, c)
  <2>1. BodyWritten(k)
    BY <1>10, TouchIsWritten
  <2>2. /\ base' = base /\ rows' = rows /\ plan' = plan /\ had' = had /\ seen' = seen
        /\ crossed' = crossed /\ due' = due \cup {k} /\ writes' = writes
    BY <1>10 DEF Touch
  <2> QED BY <1>1, <2>1, <2>2 DEF Others, BodyWritten
<1>11. CASE push(k)
  <2>1. /\ tree' = tree /\ rows' = rows /\ plan' = plan /\ had' = had /\ seen' = seen
        /\ crossed' = crossed /\ due' = due /\ writes' = writes
        /\ base' = [base EXCEPT ![k] = tree[k]]
    BY <1>11 DEF push
  <2> QED BY <1>1, <2>1 DEF Others
<1>12. CASE pull(k)
  <2>1. /\ rows' = rows /\ plan' = plan /\ writes' = writes
        /\ due' = due \cup {k} /\ Changed(k)
    BY <1>12 DEF pull
  <2>2. tree' = [tree EXCEPT ![k] = tree'[k]] /\ base' = [base EXCEPT ![k] = origin]
    BY <1>12, PullPulls DEF Pulled
  <2>3. \A j \in Clone : j # k => had'[j] = had[j]
    BY <1>12, PullNumbers
  <2> QED BY <1>1, <1>2, <2>1, <2>2, <2>3 DEF Others
<1>13. CASE resolve(k)
  <2>1. /\ base' = base /\ rows' = rows /\ plan' = plan /\ writes' = writes /\ had' = had
        /\ due' = due \cup {k} /\ Changed(k)
    BY <1>13 DEF resolve
  <2>2. tree' = [tree EXCEPT ![k] = tree'[k]]
    <3>1. ASSUME NEW p \in Places, KeepBoth(k, p)
          PROVE  tree' = [tree EXCEPT ![k] = tree'[k]]
      BY <3>1, KeepBothSplits DEF Split
    <3>2. ASSUME NEW p \in Places, KeepOne(k, p)
          PROVE  tree' = [tree EXCEPT ![k] = tree'[k]]
      BY <3>2, KeepOneChooses DEF Chosen
    <3>3. ASSUME NEW c \in NoteIds, KeepLines(k, c)
          PROVE  tree' = [tree EXCEPT ![k] = tree'[k]]
      BY <3>3, LinesAreWritten DEF LogWritten
    <3> QED BY <1>13, <3>1, <3>2, <3>3 DEF resolve
  <2> QED BY <1>1, <1>2, <2>1, <2>2 DEF Others
<1> QED BY <1>3, <1>4, <1>5, <1>6, <1>7, <1>8, <1>9, <1>10, <1>11, <1>12, <1>13 DEF Serve, Git

(* What a person or git does leaves no plan to rely on.                    *)
LEMMA NothingToRelyOn ==
    ASSUME CloneInv, NEW k \in Clone, k \in due', plan' = plan, Changed(k),
           \A p \in Places : tree[k].issues[p] # None => tree'[k].issues[p] # None
    PROVE  PlannedAt(k, tree'[k].issues, rows'[k], plan'[k], due', crossed')
<1>1. plan[k] # <<>> => k \in crossed'
  BY DEF Changed
<1>2. ASSUME NEW i \in 1..Len(plan'[k])
      PROVE  tree'[k].issues[plan'[k][i].path] # None
  <2>1. PICK todo \in Seq(Rekeys) : todo = plan[k]
    BY DEF CloneInv, Tables
  <2>2. todo[i] \in Rekeys /\ i \in 1..Len(todo)
    BY <2>1, ElementOfSeq
  <2>3. PICK p \in Places : p = todo[i].path
    BY <2>2 DEF Rekeys
  <2>4. tree[k].issues[p] # None
    BY <2>1, <2>2, <2>3 DEF CloneInv, Planned, PlannedAt
  <2> QED BY <2>1, <2>3, <2>4
<1> QED BY <1>1, <1>2 DEF PlannedAt

LEMMA GitStays ==
    ASSUME CloneInv, NEW k \in Clone, pull(k) \/ resolve(k), NEW p \in Places,
           tree[k].issues[p] # None
    PROVE  tree'[k].issues[p] # None
<1>1. Sound /\ tree \in [Clone -> GitTrees]
  BY DEF CloneInv, Housed, Branches
<1>2. CASE pull(k)
  <2>1. Pulled(k)
    BY <1>2, PullPulls
  <2>2. CASE Kept(tree[k], origin, base[k], tree'[k], p)
    BY <2>2 DEF Kept
  <2>3. CASE Taken(tree[k], origin, base[k], tree'[k], p)
    BY <2>1, <2>3 DEF Pulled, Meet, Taken
  <2>4. CASE Clashing(tree[k], origin, base[k], tree'[k], p)
    <3>1. tree'[k].issues[p] \in Conflicts
      BY <2>4 DEF Clashing
    <3> QED BY <1>1, <3>1, VersionsOfFile DEF FileContents
  <2> QED BY <2>1, <2>2, <2>3, <2>4 DEF Pulled, Merged
<1>3. ASSUME NEW q \in Places, KeepBoth(k, q)
      PROVE  tree'[k].issues[p] # None
  <2>1. PICK x, g, h : Split(k, q, x, g, h)
    BY <1>3, KeepBothSplits
  <2>2. g # None /\ h # None
    BY <1>1, <2>1 DEF Split, Two, Sound
  <2> QED BY <2>1, <2>2 DEF Split
<1>4. ASSUME NEW q \in Places, KeepOne(k, q)
      PROVE  tree'[k].issues[p] # None
  <2>1. PICK g : Chosen(k, q, g)
    BY <1>4, KeepOneChooses
  <2>2. g # None
    BY <1>1, <2>1 DEF Chosen, Sound
  <2> QED BY <2>1, <2>2 DEF Chosen, Placed
<1>5. ASSUME NEW c \in NoteIds, KeepLines(k, c)
      PROVE  tree'[k].issues[p] # None
  BY <1>5, LinesAreWritten DEF LogWritten
<1> QED BY <1>2, <1>3, <1>4, <1>5 DEF resolve

LEMMA PlannedKept ==
    ASSUME CloneInv, NEW k \in Clone, Serve(k) \/ Git(k)
    PROVE  Planned'
<1> USE DEF files, tables, keyHistory, noteHistory, history
<1>1. ASSUME NEW j \in Clone, j # k
      PROVE  PlannedAt(j, tree'[j].issues, rows'[j], plan'[j], due', crossed')
  <2>1. /\ tree'[j] = tree[j] /\ rows'[j] = rows[j] /\ plan'[j] = plan[j]
        /\ (j \in due' <=> j \in due) /\ (j \in crossed' <=> j \in crossed)
    BY <1>1, OthersAreLeft DEF Others
  <2>2. PlannedAt(j, tree[j].issues, rows[j], plan[j], due, crossed)
    BY DEF CloneInv, Planned
  <2> QED BY <2>1, <2>2 DEF PlannedAt
<1>2. ASSUME tree'[k].issues = tree[k].issues, rows' = rows, plan' = plan, due \subseteq due',
             crossed' = crossed
      PROVE  PlannedAt(k, tree'[k].issues, rows'[k], plan'[k], due', crossed')
  <2>1. PlannedAt(k, tree[k].issues, rows[k], plan[k], due, crossed)
    BY DEF CloneInv, Planned
  <2> QED BY <1>2, <2>1 DEF PlannedAt
<1>3. PlannedAt(k, tree'[k].issues, rows'[k], plan'[k], due', crossed')
  <2>1. CASE createIssue(k)
    BY <2>1, CreateCreates, CreatePlans
  <2>2. CASE applyRekey(k)
    <3>1. due' = due /\ crossed' = crossed
      BY <2>2 DEF applyRekey
    <3> QED BY <2>2, <3>1, RekeyApplies, RekeyPlans
  <2>3. CASE reconcileFull(k)
    <3>1. tree' = tree /\ ReadsIn(tree[k].issues, rows'[k])
      BY <2>3, ReconcileReads DEF reconcileFull
    <3>2. PICK s \in GitTrees : s = tree[k]
      BY DEF CloneInv, Housed, Branches
    <3>3. PICK C : C = Claimants(s.issues)
      OBVIOUS
    <3>4. PICK todo : todo = planRekeys(C)
      OBVIOUS
    <3>5. Sound /\ Alone(s)
      BY <3>2 DEF CloneInv, Housed, Branches, NoTwins, Stores
    <3>6. Fitting(s.issues, todo) /\ \A i \in 1..Len(todo) : s.issues[todo[i].path] # None
      BY <3>3, <3>4, <3>5, PlanFits
    <3>7. plan'[k] = todo
      <4>1. plan \in [Clone -> Seq(Rekeys)]
        BY DEF CloneInv, Tables
      <4> QED BY <2>3, <3>2, <3>3, <3>4, <4>1, ReconcileReads
    <3> QED BY <3>1, <3>2, <3>6, <3>7 DEF PlannedAt
  <2>4. CASE Crash(k)
    <3>1. plan' = [plan EXCEPT ![k] = <<>>] /\ due' = due \cup {k} /\ plan \in [Clone -> Seq(Rekeys)]
      BY <2>4 DEF Crash, CloneInv, Tables
    <3>2. plan'[k] = <<>> /\ k \in due'
      BY <3>1
    <3> QED BY <3>2, EmptySeq DEF PlannedAt
  <2>5. CASE writeOp(k)
    <3>1. tree'[k].issues = tree[k].issues
      BY <2>5, OpIsWritten DEF LogWritten
    <3> QED BY <1>2, <2>5, <3>1 DEF writeOp
  <2>6. CASE \E c \in NoteIds, n \in Keys : addComment(k, c, n)
    <3>1. tree'[k].issues = tree[k].issues
      BY <2>6, CommentIsWritten DEF BodyWritten
    <3> QED BY <1>2, <2>6, <3>1 DEF addComment
  <2>7. CASE (\E c \in NoteIds, op \in Ops : appendOp(k, c, op)) \/ push(k)
    BY <1>2, <2>7 DEF appendOp, push
  <2>8. CASE \E c \in NoteIds : Touch(k, c)
    <3>1. tree'[k].issues = tree[k].issues
      BY <2>8, TouchIsWritten DEF BodyWritten
    <3> QED BY <1>2, <2>8, <3>1 DEF Touch
  <2>9. CASE pull(k) \/ resolve(k)
    <3>1. k \in due' /\ plan' = plan /\ Changed(k)
      BY <2>9 DEF pull, resolve
    <3> QED BY <2>9, <3>1, GitStays, NothingToRelyOn
  <2> QED BY <2>1, <2>2, <2>3, <2>4, <2>5, <2>6, <2>7, <2>8, <2>9 DEF Serve, Git
<1> QED BY <1>1, <1>3 DEF Planned
-----------------------------------------------------------------------------
LEMMA RememberingKept ==
    ASSUME CloneInv, NEW k \in Clone, Serve(k) \/ Git(k)
    PROVE  Remembering'
<1> USE DEF files, tables, keyHistory, noteHistory, history
<1>1. ASSUME tree' = tree, base' = base, origin' = origin, had' = had, muddled' = muddled
      PROVE  Remembering'
  BY <1>1 DEF CloneInv, Remembering, Once, Of, Outgrown, Remembers
<1>2. CASE createIssue(k)
  <2>1. origin' = origin /\ base' = base
    BY <1>2 DEF createIssue
  <2> QED BY <1>2, <2>1, CreateCreates, CreateRemembers
<1>3. CASE applyRekey(k)
  <2>1. PICK r, f : Applied(k, r, f)
    BY <1>3, RekeyApplies
  <2>2. origin' = origin /\ base' = base
    BY <1>3 DEF applyRekey
  <2>3. k \notin crossed => f \in IssueFiles /\ f.key = r.from
    BY <2>1, RekeyFits
  <2> QED BY <2>1, <2>2, <2>3, RekeyRemembers
<1>4. CASE reconcileFull(k) \/ Crash(k)
           \/ \E c \in NoteIds, op \in Ops : appendOp(k, c, op)
  BY <1>1, <1>4 DEF reconcileFull, Crash, appendOp
<1>5. CASE writeOp(k)
  <2>1. tree' = [tree EXCEPT ![k] = tree'[k]] /\ tree'[k].issues = tree[k].issues
    BY <1>5, OpIsWritten DEF LogWritten
  <2> QED BY <1>5, <2>1, SameIssuesRemembered DEF writeOp
<1>6. CASE \E c \in NoteIds, n \in Keys : addComment(k, c, n)
  <2>1. tree' = [tree EXCEPT ![k] = tree'[k]] /\ tree'[k].issues = tree[k].issues
    BY <1>6, CommentIsWritten DEF BodyWritten
  <2> QED BY <1>6, <2>1, SameIssuesRemembered DEF addComment
<1>7. CASE \E c \in NoteIds : Touch(k, c)
  <2>1. tree' = [tree EXCEPT ![k] = tree'[k]] /\ tree'[k].issues = tree[k].issues
    BY <1>7, TouchIsWritten DEF BodyWritten
  <2> QED BY <1>7, <2>1, SameIssuesRemembered DEF Touch
<1>8. CASE push(k)
  <2>1. /\ base[k] = origin /\ Settled(tree[k]) /\ tree' = tree /\ origin' = tree[k]
        /\ base' = [base EXCEPT ![k] = tree[k]] /\ had' = had /\ muddled' = muddled
    BY <1>8 DEF push
  <2> QED BY <2>1, PushRemembers
<1>9. CASE pull(k)
  BY <1>9, PullRemembers
<1>10. CASE resolve(k)
  <2>1. origin' = origin /\ base' = base /\ had' = had
    BY <1>10 DEF resolve
  <2>2. ASSUME NEW p \in Places, KeepBoth(k, p)
        PROVE  Remembering'
    BY <2>1, <2>2, KeepBothSplits, SplitRemembers
  <2>3. ASSUME NEW p \in Places, KeepOne(k, p)
        PROVE  Remembering'
    BY <2>1, <2>3, KeepOneChooses, ChoiceRemembers
  <2>4. ASSUME NEW c \in NoteIds, KeepLines(k, c)
        PROVE  Remembering'
    <3>1. PICK log : LogWritten(k, c, log) /\ muddled' = muddled
      BY <2>4, LinesAreWritten
    <3> QED BY <2>1, <3>1, SameIssuesRemembered DEF LogWritten
  <2> QED BY <1>10, <2>2, <2>3, <2>4 DEF resolve
<1> QED BY <1>2, <1>3, <1>4, <1>5, <1>6, <1>7, <1>8, <1>9, <1>10 DEF Serve, Git

-----------------------------------------------------------------------------
(* The tables have their types.                                            *)

RowsFit(rw) == /\ rw \in [Clone -> [Places -> ShownRows]]
               /\ \A k \in Clone, p \in Places : rw[k][p].state = "OK" => rw[k][p].file # None

LEMMA OneRowFits ==
    ASSUME CloneInv, NEW k \in Clone, NEW p \in Places, NEW row \in ShownRows,
           row.state = "OK" => row.file # None, rows' = [rows EXCEPT ![k][p] = row]
    PROVE  RowsFit(rows')
<1>1. rows \in [Clone -> [Places -> ShownRows]]
      /\ \A j \in Clone, q \in Places : rows[j][q].state = "OK" => rows[j][q].file # None
  BY DEF CloneInv, Tables
<1>2. rows' \in [Clone -> [Places -> ShownRows]]
  BY <1>1
<1>3. \A j \in Clone, q \in Places : rows'[j][q] = IF j = k /\ q = p THEN row ELSE rows[j][q]
  BY <1>1
<1> QED BY <1>1, <1>2, <1>3 DEF RowsFit

LEMMA IndexedFits ==
    ASSUME CloneInv, NEW k \in Clone, NEW p \in Places, NEW f \in FileContents
    PROVE  /\ Indexed(k, p, f) \in ShownRows
           /\ Indexed(k, p, f).state = "OK" => Indexed(k, p, f).file # None
<1>1. Sound /\ rows[k][p] \in ShownRows
  BY DEF CloneInv, Housed, Branches, Tables
<1>2. Row(k, p) \in IssueFiles \cup {None}
  BY <1>1 DEF Row, ShownRows
<1>3. CASE f = None
  BY <1>3 DEF Indexed, ShownRows
<1>4. CASE f \in Conflicts
  <2>1. f # None /\ Conflict(f)
    BY <1>1, <1>4, VersionsOfFile DEF FileContents
  <2> QED BY <1>2, <2>1 DEF Indexed, ShownRows
<1>5. CASE f \in IssueFiles
  <2>1. f # None /\ ~Conflict(f)
    BY <1>1, <1>5, VersionsOfFile DEF FileContents
  <2> QED BY <1>5, <2>1 DEF Indexed, ShownRows
<1> QED BY <1>3, <1>4, <1>5 DEF FileContents

LEMMA SpendingFits ==
    ASSUME CloneInv, NEW what \in Kinds, Spend(what)
    PROVE  spent' \in [Kinds -> Nat]
BY DEF Spend, CloneInv, Tables

LEMMA FewRows ==
    ASSUME CloneInv, rows' = rows \/ RowsFit(rows'),
           plan' \in [Clone -> Seq(Rekeys)], writes' \in [Clone -> Seq(OpWrites)],
           due' \subseteq Clone, crossed' \subseteq Clone,
           had' \in [Clone -> [Uids -> SUBSET Nat]], muddled' \subseteq Uids,
           seen' \in [Clone -> SUBSET (Uids \X Nat)], moves' \subseteq Moves,
           raced' \subseteq NoteIds, spent' \in [Kinds -> Nat]
    PROVE  Tables'
BY DEF CloneInv, Tables, RowsFit

LEMMA ChangedFits ==
    ASSUME CloneInv, NEW k \in Clone, Changed(k)
    PROVE  crossed' \subseteq Clone /\ seen' \in [Clone -> SUBSET (Uids \X Nat)]
BY DEF Changed, CloneInv, Tables

LEMMA UidsOfVersions ==
    ASSUME Sound, NEW f \in FileContents, NEW g \in Versions(f)
    PROVE  g.uid \in Uids
<1>1. g \in IssueFiles
  BY VersionsOfFile
<1> QED BY <1>1, FilesOfIssues

LEMMA OneLineMore ==
    ASSUME NEW log \in Logs, NEW line
    PROVE  Appended(log, line) = [lines |-> Append(log.lines, line), theirs |-> log.theirs]
<1>1. PICK a, b : log = [lines |-> a, theirs |-> b]
  BY DEF Logs
<1>2. log.lines = a /\ log.theirs = b
  BY <1>1
<1>3. PICK a1 : a1 = Append(a, line)
  OBVIOUS
<1>4. Appended(log, line) = [log EXCEPT !.lines = a1]
  BY <1>2, <1>3, Zenon DEF Appended
<1>5. [log EXCEPT !.lines = a1] = [lines |-> a1, theirs |-> b]
  BY <1>1
<1> QED BY <1>2, <1>3, <1>4, <1>5

LEMMA TablesKept ==
    ASSUME CloneInv, NEW k \in Clone, Serve(k) \/ Git(k)
    PROVE  Tables'
<1> USE DEF files, tables, keyHistory, noteHistory, history
<1>1. /\ Sound /\ tree \in [Clone -> GitTrees] /\ Tables
  BY DEF CloneInv, Housed, Branches
<1>t. /\ plan \in [Clone -> Seq(Rekeys)] /\ writes \in [Clone -> Seq(OpWrites)]
      /\ due \subseteq Clone /\ crossed \subseteq Clone
      /\ had \in [Clone -> [Uids -> SUBSET Nat]] /\ muddled \subseteq Uids
      /\ seen \in [Clone -> SUBSET (Uids \X Nat)] /\ moves \subseteq Moves
      /\ raced \subseteq NoteIds /\ spent \in [Kinds -> Nat]
  BY <1>1 DEF Tables
<1>k. {"creates", "crashes", "comments", "ops", "touches"} = Kinds
  BY DEF Kinds
<1>2. CASE createIssue(k)
  <2>1. PICK p, u, f : Created(k, p, u, f)
    BY <1>2, CreateCreates
  <2>2. /\ Changed(k) /\ plan' = plan /\ writes' = writes /\ due' = due /\ moves' = moves
        /\ raced' = raced /\ Spend("creates")
    BY <1>2 DEF createIssue
  <2>3. u \in Uids /\ p \in Places /\ p[1] \in Nat /\ f \in IssueFiles
    BY <1>1, <2>1 DEF Created, Keys, Sound
  <2>4. f # None
    BY <1>1, <2>3 DEF Sound
  <2>5. RowsFit(rows')
    <3>1. PICK row : row = [state |-> "OK", file |-> f]
      OBVIOUS
    <3>2. row \in ShownRows /\ row.file # None
      BY <2>3, <2>4, <3>1 DEF ShownRows
    <3>3. rows' = [rows EXCEPT ![k][p] = row]
      BY <2>1, <3>1 DEF Created
    <3> QED BY <2>3, <3>2, <3>3, OneRowFits
  <2>6. had' \in [Clone -> [Uids -> SUBSET Nat]] /\ muddled' \subseteq Uids
    BY <1>t, <2>1, <2>3 DEF Created
  <2>7. spent' \in [Kinds -> Nat]
    BY <1>k, <2>2, SpendingFits
  <2> QED BY <1>t, <2>2, <2>5, <2>6, <2>7, ChangedFits, FewRows
<1>3. CASE applyRekey(k)
  <2>1. PICK r, f : Applied(k, r, f)
    BY <1>3, RekeyApplies
  <2>2. /\ writes' = writes /\ due' = due /\ crossed' = crossed /\ seen' = seen
        /\ raced' = raced /\ spent' = spent
    BY <1>3 DEF applyRekey
  <2>3. plan' \in [Clone -> Seq(Rekeys)]
    <3>1. PICK todo \in Seq(Rekeys) : todo = plan[k]
      BY <1>t
    <3>2. Tail(todo) \in Seq(Rekeys) /\ plan' = [plan EXCEPT ![k] = Tail(todo)]
      BY <2>1, <3>1, HeadTailProperties DEF Applied
    <3> QED BY <1>t, <3>2
  <2>4. CASE LeftAlone
    BY <1>t, <2>2, <2>3, <2>4, FewRows DEF LeftAlone
  <2>5. CASE Rewritten(k, r, f)
    <3>1. /\ r \in Rekeys /\ r.path \in Places /\ f \in FileContents /\ f # None
      BY <2>1 DEF Applied
    <3>2. Patched(f, r) \in FileContents /\ One(f) \in Versions(f)
      BY <1>1, <3>1, PatchRenames
    <3>3. One(f).uid \in Uids /\ r.to \in Nat /\ r.from \in Nat
      BY <1>1, <3>1, <3>2, UidsOfVersions DEF Rekeys
    <3>4. RowsFit(rows')
      <4>1. PICK row : row = Indexed(k, r.path, Patched(f, r))
        OBVIOUS
      <4>2. row \in ShownRows /\ (row.state = "OK" => row.file # None)
        BY <3>1, <3>2, <4>1, IndexedFits
      <4>3. rows' = [rows EXCEPT ![k][r.path] = row]
        BY <2>5, <4>1 DEF Rewritten
      <4> QED BY <3>1, <4>2, <4>3, OneRowFits
    <3>5. had' \in [Clone -> [Uids -> SUBSET Nat]] /\ muddled' \subseteq Uids
      BY <1>t, <2>5, <3>3 DEF Rewritten
    <3>6. moves' \subseteq Moves
      BY <1>t, <2>5, <3>3 DEF Rewritten, Moves
    <3> QED BY <1>t, <2>2, <2>3, <3>4, <3>5, <3>6, FewRows
  <2> QED BY <2>1, <2>4, <2>5 DEF Applied
<1>4. CASE reconcileFull(k)
  <2>1. /\ writes' = writes /\ due' = due \ {k} /\ crossed' = crossed \ {k} /\ had' = had
        /\ muddled' = muddled /\ moves' = moves /\ raced' = raced /\ spent' = spent
    BY <1>4 DEF reconcileFull
  <2>2. PICK s \in GitTrees : s = tree[k]
    BY <1>1
  <2>3. PICK C : C = Claimants(s.issues)
    OBVIOUS
  <2>4. PICK todo : todo = planRekeys(C)
    OBVIOUS
  <2>5. Alone(s)
    BY <2>2 DEF CloneInv, Housed, NoTwins, Stores
  <2>6. todo \in Seq(Rekeys)
    BY <1>1, <2>3, <2>4, <2>5, PlanLists
  <2>7. plan' = [plan EXCEPT ![k] = todo]
    BY <1>4, <2>2, <2>3, <2>4, ReconcileReads
  <2>8. Pairs(tree[k].issues) \in SUBSET (Uids \X Nat)
    BY <1>1, <2>2, ShownAreFiles DEF Pairs
  <2>9. seen' \in [Clone -> SUBSET (Uids \X Nat)]
    <3>1. seen' = [seen EXCEPT ![k] = IF @ # {} THEN @ ELSE Pairs(tree[k].issues)]
      BY <1>4, ReconcileReads
    <3> QED BY <1>t, <2>8, <3>1
  <2>10. RowsFit(rows')
    <3>1. rows' = [rows EXCEPT ![k] = ReadIssues(k)]
      BY <1>4, ReconcileReads
    <3>2. \A p \in Places : tree[k].issues[p] \in FileContents
      BY <1>1 DEF GitTrees
    <3>3. PICK rd : rd = ReadIssues(k)
      OBVIOUS
    <3>4. /\ rd \in [Places -> ShownRows]
          /\ \A p \in Places : rd[p].state = "OK" => rd[p].file # None
      BY <3>2, <3>3, IndexedFits DEF ReadIssues
    <3>5. /\ rows \in [Clone -> [Places -> ShownRows]]
          /\ \A j \in Clone, p \in Places : rows[j][p].state = "OK" => rows[j][p].file # None
      BY <1>1 DEF Tables
    <3>6. \A j \in Clone : rows'[j] = IF j = k THEN rd ELSE rows[j]
      BY <3>1, <3>3, <3>5
    <3>7. rows' \in [Clone -> [Places -> ShownRows]]
      BY <3>1, <3>3, <3>4, <3>5
    <3> QED BY <3>4, <3>5, <3>6, <3>7 DEF RowsFit
  <2> QED BY <1>t, <2>1, <2>6, <2>7, <2>9, <2>10, FewRows
<1>5. CASE Crash(k)
  <2>1. /\ rows' = rows /\ had' = had /\ seen' = seen /\ muddled' = muddled /\ moves' = moves
        /\ raced' = raced /\ crossed' = crossed /\ due' = due \cup {k} /\ Spend("crashes")
        /\ plan' = [plan EXCEPT ![k] = <<>>] /\ writes' = [writes EXCEPT ![k] = <<>>]
    BY <1>5 DEF Crash
  <2>2. plan' \in [Clone -> Seq(Rekeys)] /\ writes' \in [Clone -> Seq(OpWrites)]
    BY <1>t, <2>1, EmptySeq
  <2>3. spent' \in [Kinds -> Nat]
    BY <1>k, <2>1, SpendingFits
  <2> QED BY <1>t, <2>1, <2>2, <2>3, FewRows
<1>6. CASE writeOp(k)
  <2>1. /\ rows' = rows /\ plan' = plan /\ had' = had /\ seen' = seen /\ muddled' = muddled
        /\ moves' = moves /\ raced' = raced /\ crossed' = crossed /\ due' = due /\ spent' = spent
    BY <1>6 DEF writeOp
  <2>2. writes' = [writes EXCEPT ![k] = Tail(writes[k])] /\ writes[k] # <<>>
    BY <1>6, OpIsWritten
  <2>3. PICK queue \in Seq(OpWrites) : queue = writes[k]
    BY <1>t
  <2>4. Tail(queue) \in Seq(OpWrites)
    BY <2>2, <2>3, HeadTailProperties
  <2>5. writes' \in [Clone -> Seq(OpWrites)]
    BY <1>t, <2>2, <2>3, <2>4
  <2> QED BY <1>t, <2>1, <2>5, FewRows
<1>7. CASE \E c \in NoteIds, n \in Keys : addComment(k, c, n)
  <2>1. /\ rows' = rows /\ plan' = plan /\ had' = had /\ seen' = seen /\ muddled' = muddled
        /\ moves' = moves /\ raced' = raced /\ crossed' = crossed /\ due' = due
        /\ writes' = writes /\ Spend("comments")
    BY <1>7 DEF addComment
  <2>2. spent' \in [Kinds -> Nat]
    BY <1>k, <2>1, SpendingFits
  <2> QED BY <1>t, <2>1, <2>2, FewRows
<1>8. CASE \E c \in NoteIds : Touch(k, c)
  <2>1. /\ rows' = rows /\ plan' = plan /\ had' = had /\ seen' = seen /\ muddled' = muddled
        /\ moves' = moves /\ raced' = raced /\ crossed' = crossed /\ due' = due \cup {k}
        /\ writes' = writes /\ Spend("touches")
    BY <1>8 DEF Touch
  <2>2. spent' \in [Kinds -> Nat]
    BY <1>k, <2>1, SpendingFits
  <2>3. due' \subseteq Clone
    BY <1>t, <2>1
  <2> QED BY <1>t, <2>1, <2>2, <2>3, FewRows
<1>9. CASE push(k)
  BY <1>t, <1>9, FewRows DEF push
<1>10. CASE \E c \in NoteIds, op \in Ops : appendOp(k, c, op)
  <2>1. PICK c \in NoteIds : \E op \in Ops : appendOp(k, c, op)
    BY <1>10
  <2>2. PICK op \in Ops : appendOp(k, c, op)
    BY <2>1
  <2>3. /\ rows' = rows /\ plan' = plan /\ had' = had /\ seen' = seen /\ muddled' = muddled
        /\ moves' = moves /\ crossed' = crossed /\ due' = due /\ Spend("ops")
        /\ raced' = IF c \in InFlight(k) THEN raced \cup {c} ELSE raced
        /\ writes' = [writes EXCEPT ![k] =
            Append(@, [note |-> c, id |-> spent.ops,
                       log |-> Appended(tree[k].logs[c], [id |-> -spent.ops, op |-> op])])]
    BY <2>2 DEF appendOp
  <2>4. spent' \in [Kinds -> Nat]
    BY <1>k, <2>3, SpendingFits
  <2>5. PICK n \in Nat : n = spent.ops
    BY <1>t, <1>k
  <2>6. PICK log \in Logs : log = tree[k].logs[c]
    BY <1>1 DEF GitTrees
  <2>7. Appended(log, [id |-> -n, op |-> op]) \in Logs
    <3>1. [id |-> -n, op |-> op] \in Lines
      BY DEF Lines
    <3>2. log.lines \in Seq(Lines) /\ log.theirs \in Seq(Lines)
          /\ log = [lines |-> log.lines, theirs |-> log.theirs]
      BY DEF Logs
    <3>3. Append(log.lines, [id |-> -n, op |-> op]) \in Seq(Lines)
      BY <3>1, <3>2, AppendProperties
    <3>4. Appended(log, [id |-> -n, op |-> op])
              = [lines |-> Append(log.lines, [id |-> -n, op |-> op]), theirs |-> log.theirs]
      BY OneLineMore
    <3> QED BY <3>2, <3>3, <3>4 DEF Logs
  <2>8. PICK w : w = [note |-> c, id |-> n, log |-> Appended(log, [id |-> -n, op |-> op])]
    OBVIOUS
  <2>9. w \in OpWrites
    BY <2>7, <2>8 DEF OpWrites
  <2>10. writes' = [writes EXCEPT ![k] = Append(@, w)]
    BY <2>3, <2>5, <2>6, <2>8
  <2>11. PICK queue \in Seq(OpWrites) : queue = writes[k]
    BY <1>t
  <2>12. Append(queue, w) \in Seq(OpWrites)
    BY <2>9, AppendProperties
  <2>13. writes' \in [Clone -> Seq(OpWrites)]
    BY <1>t, <2>10, <2>11, <2>12
  <2>14. raced' \subseteq NoteIds
    BY <1>t, <2>3
  <2> QED BY <1>t, <2>3, <2>4, <2>13, <2>14, FewRows
<1>11. ASSUME LogsMove(k)
       PROVE  raced' \subseteq NoteIds
  <2>1. \A i \in 1..Len(writes[k]) : writes[k][i].note \in NoteIds
    <3>1. PICK queue \in Seq(OpWrites) : queue = writes[k]
      BY <1>t
    <3>2. \A i \in 1..Len(queue) : queue[i] \in OpWrites
      BY ElementOfSeq
    <3> QED BY <3>1, <3>2 DEF OpWrites
  <2>2. InFlight(k) \subseteq NoteIds
    <3>1. PICK queue \in Seq(OpWrites) : queue = writes[k]
      BY <1>t
    <3>2. Range(queue) \subseteq OpWrites
      BY RangeIsFinite
    <3> QED BY <3>1, <3>2 DEF InFlight, OpWrites
  <2> QED BY <1>t, <1>11, <2>2 DEF LogsMove
<1>12. CASE pull(k)
  <2>1. /\ rows' = rows /\ plan' = plan /\ writes' = writes /\ moves' = moves /\ spent' = spent
        /\ due' = due \cup {k} /\ LogsMove(k) /\ Changed(k)
        /\ had' = [had EXCEPT ![k] = [u \in Uids |-> @[u] \cup HadIn(origin, u)]]
        /\ muddled' \subseteq Uids
    BY <1>t, <1>12 DEF pull, HadIn
  <2>2. Singles(origin)
    <3>1. origin \in GitTrees /\ Settled(origin)
      BY DEF CloneInv, Housed, Branches
    <3> QED BY <1>1, <3>1, SettledIsSingle
  <2>3. \A u \in Uids : HadIn(origin, u) \subseteq Nat
    BY <1>1, <2>2, WhatIsHad
  <2>4. PICK H : H = [u \in Uids |-> had[k][u] \cup HadIn(origin, u)]
    OBVIOUS
  <2>5. H \in [Uids -> SUBSET Nat]
    BY <1>t, <2>3, <2>4
  <2>6. had' = [had EXCEPT ![k] = H]
    BY <1>t, <2>1, <2>4
  <2>7. had' \in [Clone -> [Uids -> SUBSET Nat]]
    BY <1>t, <2>5, <2>6
  <2>8. due' \subseteq Clone
    BY <1>t, <2>1
  <2> QED BY <1>t, <1>11, <2>1, <2>7, <2>8, ChangedFits, FewRows
<1>13. CASE resolve(k)
  <2>1. /\ rows' = rows /\ plan' = plan /\ writes' = writes /\ moves' = moves /\ spent' = spent
        /\ had' = had /\ due' = due \cup {k} /\ LogsMove(k) /\ Changed(k)
    BY <1>13 DEF resolve
  <2>2. muddled' \subseteq Uids
    <3>1. ASSUME NEW p \in Places, KeepOne(k, p)
          PROVE  muddled' \subseteq Uids
      <4>1. PICK g : Chosen(k, p, g)
        BY <3>1, KeepOneChooses
      <4>2. g.uid \in Uids
        BY <4>1, FilesOfIssues DEF Chosen
      <4> QED BY <1>t, <4>1, <4>2 DEF Chosen
    <3>2. ASSUME NEW p \in Places, KeepBoth(k, p)
          PROVE  muddled' \subseteq Uids
      BY <1>t, <3>2 DEF KeepBoth
    <3>3. ASSUME NEW c \in NoteIds, KeepLines(k, c)
          PROVE  muddled' \subseteq Uids
      BY <1>t, <3>3 DEF KeepLines
    <3> QED BY <1>13, <3>1, <3>2, <3>3 DEF resolve
  <2>3. due' \subseteq Clone
    BY <1>t, <2>1
  <2> QED BY <1>t, <1>11, <2>1, <2>2, <2>3, ChangedFits, FewRows
<1> QED BY <1>2, <1>3, <1>4, <1>5, <1>6, <1>7, <1>8, <1>9, <1>10, <1>12, <1>13 DEF Serve, Git
-----------------------------------------------------------------------------
(* Logs only grow, and an op that waits to be written knows its log, unless*)
(* the log has changed under it.                                           *)

Waits(q, c) == {i \in 1..Len(q) : q[i].note = c}
WaitingFits(log, q, c) ==
    \A i \in Waits(q, c) :
        Ids(log) \subseteq Ids(q[i].log) /\ -q[i].id \in Ids(q[i].log) /\ \A j \in Waits(q, c) : i = j
LoggedAt(t, b, o, q, c) ==
    /\ Ids(b.logs[c]) \subseteq Ids(t.logs[c]) /\ Ids(b.logs[c]) \subseteq Ids(o.logs[c])
    /\ WaitingFits(t.logs[c], q, c)
AckedAt(tr, R, a) ==
    /\ a.at \in Clone /\ a.note \in NoteIds
    /\ a.note \notin R => a.id \in Ids(tr[a.at].logs[a.note])

LEMMA LoggedMeans ==
    ASSUME \A c \in NoteIds \ raced', j \in Clone :
               LoggedAt(tree'[j], base'[j], origin', writes'[j], c),
           \A a \in acked' : AckedAt(tree', raced', a)
    PROVE  Logged'
BY DEF Logged, LoggedAt, WaitingFits, Waits, QueuedFor, AckedAt, Ids

LEMMA LoggedNow ==
    ASSUME CloneInv
    PROVE  /\ \A c \in NoteIds \ raced, j \in Clone :
                 LoggedAt(tree[j], base[j], origin, writes[j], c)
           /\ \A a \in acked : AckedAt(tree, raced, a)
BY DEF CloneInv, Logged, LoggedAt, WaitingFits, Waits, QueuedFor, AckedAt

LEMMA WaitingStays ==
    ASSUME NEW log, NEW l1, Ids(l1) = Ids(log), NEW q, NEW c, WaitingFits(log, q, c)
    PROVE  WaitingFits(l1, q, c)
BY DEF WaitingFits

LEMMA LinesOfLogs ==
    ASSUME NEW log \in Logs
    PROVE  /\ log.lines \in Seq(Lines) /\ log.theirs \in Seq(Lines)
           /\ Ids(log) = {l.id : l \in Range(log.lines)} \cup {l.id : l \in Range(log.theirs)}
           /\ ~Marked(log) => Ids(log) = {l.id : l \in Range(log.lines)}
<1>1. log.lines \in Seq(Lines) /\ log.theirs \in Seq(Lines)
  BY DEF Logs
<1>2. Ids(log) = {l.id : l \in Range(log.lines)} \cup {l.id : l \in Range(log.theirs)}
  BY DEF Ids
<1>3. ASSUME ~Marked(log)
      PROVE  Range(log.theirs) = {}
  BY <1>3, EmptySeq DEF Marked, Range
<1> QED BY <1>1, <1>2, <1>3

(* Nothing of what an action leaves alone can be lost.                     *)
LEMMA SameLogsLogged ==
    ASSUME CloneInv, NEW k \in Clone, tree' = [tree EXCEPT ![k] = tree'[k]],
           \A c \in NoteIds : Ids(tree'[k].logs[c]) = Ids(tree[k].logs[c]),
           base' = base, origin' = origin, writes' = writes, acked' = acked, raced \subseteq raced'
    PROVE  Logged'
<1>1. tree \in [Clone -> GitTrees]
  BY DEF CloneInv, Housed, Branches
<1>2. \A j \in Clone, c \in NoteIds : Ids(tree'[j].logs[c]) = Ids(tree[j].logs[c])
  BY <1>1
<1>3. ASSUME NEW c \in NoteIds \ raced', NEW j \in Clone
      PROVE  LoggedAt(tree'[j], base'[j], origin', writes'[j], c)
  <2>1. LoggedAt(tree[j], base[j], origin, writes[j], c)
    BY LoggedNow
  <2>2. WaitingFits(tree'[j].logs[c], writes[j], c)
    BY <1>2, <2>1, WaitingStays DEF LoggedAt
  <2> QED BY <1>2, <2>1, <2>2 DEF LoggedAt
<1>4. ASSUME NEW a \in acked'
      PROVE  AckedAt(tree', raced', a)
  <2>1. AckedAt(tree, raced, a)
    BY LoggedNow
  <2> QED BY <1>2, <2>1 DEF AckedAt
<1> QED BY <1>3, <1>4, LoggedMeans

LEMMA CrashLogged ==
    ASSUME CloneInv, NEW k \in Clone, Crash(k)
    PROVE  Logged'
<1>1. /\ tree' = tree /\ base' = base /\ origin' = origin /\ acked' = acked /\ raced' = raced
      /\ writes' = [writes EXCEPT ![k] = <<>>] /\ writes \in [Clone -> Seq(OpWrites)]
  BY DEF Crash, files, noteHistory, CloneInv, Tables
<1>2. \A c : WaitingFits(tree[k].logs[c], <<>>, c)
  BY EmptySeq DEF WaitingFits, Waits
<1>3. ASSUME NEW c \in NoteIds \ raced', NEW j \in Clone
      PROVE  LoggedAt(tree'[j], base'[j], origin', writes'[j], c)
  <2>1. LoggedAt(tree[j], base[j], origin, writes[j], c)
    BY <1>1, LoggedNow
  <2>2. writes'[j] = writes[j] \/ (j = k /\ writes'[j] = <<>>)
    BY <1>1
  <2> QED BY <1>1, <1>2, <2>1, <2>2 DEF LoggedAt
<1>4. \A a \in acked' : AckedAt(tree', raced', a)
  BY <1>1, LoggedNow
<1> QED BY <1>3, <1>4, LoggedMeans

LEMMA AppendLogged ==
    ASSUME CloneInv, NEW k \in Clone, NEW c \in NoteIds, NEW op \in Ops, appendOp(k, c, op)
    PROVE  Logged'
<1>1. /\ tree' = tree /\ base' = base /\ origin' = origin /\ acked' = acked
      /\ raced' = IF c \in InFlight(k) THEN raced \cup {c} ELSE raced
      /\ writes' = [writes EXCEPT ![k] =
            Append(@, [note |-> c, id |-> spent.ops,
                       log |-> Appended(tree[k].logs[c], [id |-> -spent.ops, op |-> op])])]
  BY DEF appendOp, files, noteHistory
<1>2. writes \in [Clone -> Seq(OpWrites)] /\ tree[k] \in GitTrees /\ spent.ops \in Nat
  BY DEF CloneInv, Tables, Housed, Branches, Kinds
<1>3. PICK n \in Nat : n = spent.ops
  BY <1>2
<1>4. PICK log \in Logs : log = tree[k].logs[c]
  BY <1>2 DEF GitTrees
<1>5. PICK line : line = [id |-> -n, op |-> op]
  OBVIOUS
<1>6. PICK w : w = [note |-> c, id |-> n, log |-> Appended(log, line)]
  OBVIOUS
<1>7. PICK q \in Seq(OpWrites) : q = writes[k]
  BY <1>2
<1>8. writes' = [writes EXCEPT ![k] = Append(q, w)]
  BY <1>1, <1>3, <1>4, <1>5, <1>6, <1>7
<1>9. Ids(Appended(log, line)) = Ids(log) \cup {-n}
  <2>1. line \in Lines /\ line.id = -n
    BY <1>5 DEF Lines
  <2>2. log.lines \in Seq(Lines) /\ log = [lines |-> log.lines, theirs |-> log.theirs]
    BY DEF Logs
  <2>3. PICK ls \in Seq(Lines) : ls = log.lines
    BY <2>2
  <2>4. PICK ls1 \in Seq(Lines) : ls1 = Append(ls, line)
    BY <2>1, AppendProperties
  <2>5. Appended(log, line) = [lines |-> ls1, theirs |-> log.theirs]
    BY <2>3, <2>4, OneLineMore
  <2>6. Range(ls1) = Range(ls) \cup {line}
    <3>1. /\ Len(ls1) = Len(ls) + 1 /\ Len(ls) \in Nat /\ ls1[Len(ls) + 1] = line
          /\ \A i \in 1..Len(ls) : ls1[i] = ls[i]
          /\ DOMAIN ls = 1..Len(ls) /\ DOMAIN ls1 = 1..Len(ls1)
      BY <2>1, <2>4, AppendProperties, LenProperties
    <3>2. \A i \in 1..Len(ls) + 1 : i \in 1..Len(ls) \/ i = Len(ls) + 1
      BY <3>1
    <3>3. Len(ls) + 1 \in 1..Len(ls) + 1 /\ \A i \in 1..Len(ls) : i \in 1..Len(ls) + 1
      BY <3>1
    <3> QED BY <3>1, <3>2, <3>3 DEF Range
  <2> QED BY <2>1, <2>3, <2>5, <2>6 DEF Ids
<1>10. PICK q1 \in Seq(OpWrites \cup {w}) : q1 = Append(q, w)
  <2>1. q \in Seq(OpWrites \cup {w})
    BY SeqMonotonic
  <2> QED BY <2>1, AppendProperties
<1>11. /\ Len(q1) = Len(q) + 1 /\ Len(q) \in Nat /\ q1[Len(q) + 1] = w
       /\ \A i \in 1..Len(q) : q1[i] = q[i]
  <2>1. q \in Seq(OpWrites \cup {w})
    BY SeqMonotonic
  <2> QED BY <1>10, <2>1, AppendProperties, LenProperties
<1>12. ASSUME NEW d \in NoteIds \ raced'
       PROVE  WaitingFits(tree[k].logs[d], q1, d)
  <2>1. WaitingFits(tree[k].logs[d], q, d) /\ d \notin raced
    BY <1>1, <1>7, LoggedNow DEF LoggedAt
  <2>2. CASE d # c
    <3>1. Waits(q1, d) = Waits(q, d)
      BY <1>6, <1>11, <2>2 DEF Waits
    <3>2. \A i \in Waits(q, d) : q1[i] = q[i]
      BY <1>11 DEF Waits
    <3> QED BY <2>1, <3>1, <3>2 DEF WaitingFits
  <2>3. CASE d = c
    <3>1. c \notin InFlight(k)
      BY <1>1, <2>3
    <3>2. Waits(q, c) = {}
      <4>1. DOMAIN q = 1..Len(q)
        BY LenProperties
      <4> QED BY <1>7, <3>1, <4>1 DEF Waits, InFlight, Range
    <3>3. Waits(q1, c) = {Len(q) + 1}
      <4>1. \A i \in 1..Len(q1) : i \in 1..Len(q) \/ i = Len(q) + 1
        BY <1>11
      <4>2. Len(q) + 1 \in 1..Len(q1) /\ w.note = c
        BY <1>6, <1>11
      <4>3. \A i \in 1..Len(q) : q1[i].note # c
        BY <1>11, <3>2 DEF Waits
      <4> QED BY <1>11, <4>1, <4>2, <4>3 DEF Waits
    <3>4. Ids(w.log) = Ids(log) \cup {-w.id}
      BY <1>6, <1>9
    <3> QED BY <1>4, <1>11, <2>3, <3>3, <3>4 DEF WaitingFits
  <2> QED BY <2>2, <2>3
<1>13. ASSUME NEW d \in NoteIds \ raced', NEW j \in Clone
       PROVE  LoggedAt(tree'[j], base'[j], origin', writes'[j], d)
  <2>1. LoggedAt(tree[j], base[j], origin, writes[j], d)
    BY <1>1, LoggedNow
  <2>2. writes'[j] = IF j = k THEN q1 ELSE writes[j]
    BY <1>2, <1>8, <1>10
  <2> QED BY <1>1, <1>12, <2>1, <2>2 DEF LoggedAt
<1>14. ASSUME NEW a \in acked'
       PROVE  AckedAt(tree', raced', a)
  <2>1. AckedAt(tree, raced, a)
    BY <1>1, LoggedNow
  <2> QED BY <1>1, <2>1 DEF AckedAt
<1> QED BY <1>13, <1>14, LoggedMeans

LEMMA WriteLogged ==
    ASSUME CloneInv, NEW k \in Clone, writeOp(k)
    PROVE  Logged'
<1>1. base' = base /\ origin' = origin /\ raced' = raced
  BY DEF writeOp
<1>2. PICK w : w = writes[k][1]
  OBVIOUS
<1>3. /\ writes[k] # <<>> /\ w \in OpWrites /\ LogWritten(k, w.note, w.log)
      /\ writes' = [writes EXCEPT ![k] = Tail(writes[k])]
      /\ acked' = acked \cup {[at |-> k, note |-> w.note, id |-> -w.id]}
  BY <1>2, OpIsWritten
<1>4. writes \in [Clone -> Seq(OpWrites)] /\ tree \in [Clone -> GitTrees]
  BY DEF CloneInv, Tables, Housed, Branches
<1>5. PICK q \in Seq(OpWrites) : q = writes[k]
  BY <1>4
<1>6. PICK rest \in Seq(OpWrites) : rest = Tail(q)
  BY <1>3, <1>5, HeadTailProperties
<1>7. /\ Len(q) \in Nat /\ Len(q) >= 1 /\ Len(rest) = Len(q) - 1
      /\ \A i \in 1..(Len(q) - 1) : rest[i] = q[i + 1]
  <2>1. Len(q) \in Nat /\ q # <<>>
    BY <1>3, <1>5, LenProperties
  <2>2. Len(q) # 0
    BY <2>1, EmptySeq
  <2> QED BY <1>6, <2>1, <2>2, HeadTailProperties
<1>8. PICK c \in NoteIds : c = w.note
  BY <1>3 DEF OpWrites
<1>9. 1 \in Waits(q, c)
  BY <1>2, <1>5, <1>7, <1>8 DEF Waits
<1>10. /\ tree' = [tree EXCEPT ![k] = tree'[k]]
       /\ tree'[k].logs = [tree[k].logs EXCEPT ![c] = w.log]
       /\ tree[k].logs \in [NoteIds -> Logs]
  BY <1>3, <1>4, <1>8 DEF LogWritten, GitTrees
<1>11. tree'[k].logs[c] = w.log /\ \A d \in NoteIds : d # c => tree'[k].logs[d] = tree[k].logs[d]
  BY <1>10
<1>12. \A j \in Clone : j # k => tree'[j] = tree[j] /\ writes'[j] = writes[j]
  BY <1>3, <1>4, <1>10
<1>13. writes'[k] = rest
  BY <1>3, <1>4, <1>5, <1>6
<1>14. ASSUME c \notin raced
       PROVE  Ids(tree[k].logs[c]) \subseteq Ids(w.log) /\ -w.id \in Ids(w.log)
              /\ \A j \in Waits(q, c) : j = 1
  <2>1. WaitingFits(tree[k].logs[c], q, c)
    BY <1>5, <1>14, LoggedNow DEF LoggedAt
  <2> QED BY <1>2, <1>5, <1>9, <2>1 DEF WaitingFits
<1>15. ASSUME NEW d \in NoteIds \ raced
       PROVE  WaitingFits(tree'[k].logs[d], rest, d)
  <2>1. ASSUME NEW i \in Waits(rest, d)
        PROVE  i + 1 \in Waits(q, d) /\ rest[i] = q[i + 1] /\ i \in Nat /\ i >= 1
    <3>1. i \in 1..(Len(q) - 1) /\ rest[i].note = d
      BY <1>7 DEF Waits
    <3>2. rest[i] = q[i + 1] /\ i + 1 \in 1..Len(q)
      BY <1>7, <3>1
    <3> QED BY <3>1, <3>2 DEF Waits
  <2>2. CASE d = c
    <3>1. Waits(rest, d) = {}
      BY <1>14, <2>1, <2>2
    <3> QED BY <3>1 DEF WaitingFits
  <2>3. CASE d # c
    <3>1. WaitingFits(tree[k].logs[d], q, d)
      BY <1>5, LoggedNow DEF LoggedAt
    <3>2. tree'[k].logs[d] = tree[k].logs[d]
      BY <1>11, <2>3
    <3>3. ASSUME NEW i \in Waits(rest, d)
          PROVE  /\ Ids(tree'[k].logs[d]) \subseteq Ids(rest[i].log) /\ -rest[i].id \in Ids(rest[i].log)
                 /\ \A j \in Waits(rest, d) : i = j
      <4>1. \A j \in Waits(rest, d) : i + 1 = j + 1
        BY <2>1, <3>1 DEF WaitingFits
      <4>2. \A j \in Waits(rest, d) : i = j
        BY <2>1, <4>1
      <4> QED BY <2>1, <3>1, <3>2, <4>2 DEF WaitingFits
    <3> QED BY <3>3 DEF WaitingFits
  <2> QED BY <2>2, <2>3
<1>16. ASSUME NEW d \in NoteIds \ raced
       PROVE  Ids(tree[k].logs[d]) \subseteq Ids(tree'[k].logs[d])
  BY <1>11, <1>14, <1>16
<1>17. ASSUME NEW d \in NoteIds \ raced', NEW j \in Clone
       PROVE  LoggedAt(tree'[j], base'[j], origin', writes'[j], d)
  <2>1. LoggedAt(tree[j], base[j], origin, writes[j], d)
    BY <1>1, LoggedNow
  <2>2. CASE j = k
    BY <1>1, <1>13, <1>15, <1>16, <2>1, <2>2 DEF LoggedAt
  <2>3. CASE j # k
    BY <1>1, <1>12, <2>1, <2>3
  <2> QED BY <2>2, <2>3
<1>18. ASSUME NEW a \in acked'
       PROVE  AckedAt(tree', raced', a)
  <2>1. CASE a \in acked
    <3>1. AckedAt(tree, raced, a)
      BY <2>1, LoggedNow
    <3> QED BY <1>1, <1>12, <1>16, <3>1 DEF AckedAt
  <2>2. CASE a = [at |-> k, note |-> w.note, id |-> -w.id]
    BY <1>1, <1>8, <1>11, <1>14, <2>2 DEF AckedAt
  <2> QED BY <1>3, <2>1, <2>2
<1> QED BY <1>17, <1>18, LoggedMeans

LEMMA PushLogged ==
    ASSUME CloneInv, NEW k \in Clone, push(k)
    PROVE  Logged'
<1>1. /\ base[k] = origin /\ tree' = tree /\ origin' = tree[k] /\ writes' = writes
      /\ base' = [base EXCEPT ![k] = tree[k]] /\ acked' = acked /\ raced' = raced
  BY DEF push, history, noteHistory
<1>2. base \in [Clone -> GitTrees]
  BY DEF CloneInv, Housed, Branches
<1>3. ASSUME NEW c \in NoteIds \ raced', NEW j \in Clone
      PROVE  LoggedAt(tree'[j], base'[j], origin', writes'[j], c)
  <2>1. LoggedAt(tree[j], base[j], origin, writes[j], c) /\ LoggedAt(tree[k], base[k], origin, writes[k], c)
    BY <1>1, LoggedNow
  <2>2. base'[j] = IF j = k THEN tree[k] ELSE base[j]
    BY <1>1, <1>2
  <2> QED BY <1>1, <2>1, <2>2 DEF LoggedAt
<1>4. \A a \in acked' : AckedAt(tree', raced', a)
  BY <1>1, LoggedNow
<1> QED BY <1>3, <1>4, LoggedMeans

LEMMA PullLogged ==
    ASSUME CloneInv, NEW k \in Clone, pull(k)
    PROVE  Logged'
<1>1. /\ Pulled(k) /\ writes' = writes /\ acked' = acked /\ LogsMove(k)
  BY PullPulls DEF pull
<1>2. /\ tree \in [Clone -> GitTrees] /\ base \in [Clone -> GitTrees] /\ origin \in GitTrees
      /\ Settled(origin) /\ Settled(tree[k])
  BY <1>1 DEF CloneInv, Housed, Branches, Pulled
<1>3. /\ tree' = [tree EXCEPT ![k] = tree'[k]] /\ base' = [base EXCEPT ![k] = origin]
      /\ origin' = origin /\ raced \subseteq raced'
  BY <1>1 DEF Pulled, LogsMove
<1>4. ASSUME NEW c \in NoteIds \ raced
      PROVE  /\ Ids(tree[k].logs[c]) \subseteq Ids(tree'[k].logs[c])
             /\ Ids(origin.logs[c]) \subseteq Ids(tree'[k].logs[c])
  <2>1. LoggedAt(tree[k], base[k], origin, writes[k], c)
    BY LoggedNow
  <2>2. PICK m \in Logs : m = tree[k].logs[c]
    BY <1>2 DEF GitTrees
  <2>3. PICK o \in Logs : o = origin.logs[c]
    BY <1>2 DEF GitTrees
  <2>4. PICK b : b = base[k].logs[c]
    OBVIOUS
  <2>5. PICK t : t = tree'[k].logs[c]
    OBVIOUS
  <2>6. t = Merge3(m, o, b, [lines |-> m.lines, theirs |-> o.lines])
    BY <1>1, <2>2, <2>3, <2>4, <2>5 DEF Pulled
  <2>7. ~Marked(m) /\ ~Marked(o)
    BY <1>2, <2>2, <2>3 DEF Settled
  <2>8. Ids(b) \subseteq Ids(m) /\ Ids(b) \subseteq Ids(o)
    BY <2>1, <2>2, <2>3, <2>4 DEF LoggedAt
  <2>9. Ids(m) \subseteq Ids(t) /\ Ids(o) \subseteq Ids(t)
    <3>1. CASE m = b
      BY <2>6, <2>8, <3>1 DEF Merge3
    <3>2. CASE m # b /\ o \in {b, m}
      BY <2>6, <2>8, <3>2 DEF Merge3
    <3>3. CASE m # b /\ o \notin {b, m}
      <4>1. t = [lines |-> m.lines, theirs |-> o.lines]
        BY <2>6, <3>3 DEF Merge3
      <4>2. t.lines = m.lines /\ t.theirs = o.lines
        BY <4>1
      <4>3. Ids(t) = {l.id : l \in Range(m.lines)} \cup {l.id : l \in Range(o.lines)}
        BY <4>2 DEF Ids
      <4> QED BY <2>7, <4>3, LinesOfLogs
    <3> QED BY <3>1, <3>2, <3>3
  <2> QED BY <2>2, <2>3, <2>5, <2>9
<1>5. ASSUME NEW c \in NoteIds \ raced', NEW j \in Clone
      PROVE  LoggedAt(tree'[j], base'[j], origin', writes'[j], c)
  <2>1. LoggedAt(tree[j], base[j], origin, writes[j], c) /\ c \notin raced
    BY <1>3, LoggedNow
  <2>2. CASE j # k
    BY <1>1, <1>2, <1>3, <2>1, <2>2
  <2>3. CASE j = k
    <3>1. base'[k] = origin
      BY <1>2, <1>3
    <3>2. WaitingFits(tree'[k].logs[c], writes[k], c)
      <4>1. PICK q \in Seq(OpWrites) : q = writes[k]
        BY DEF CloneInv, Tables
      <4>2. CASE c \in InFlight(k)
        BY <1>1, <2>1, <2>3, <4>2 DEF LogsMove, LoggedAt
      <4>3. CASE c \notin InFlight(k)
        <5>1. Waits(q, c) = {}
          <6>1. DOMAIN q = 1..Len(q)
            BY LenProperties
          <6> QED BY <4>1, <4>3, <6>1 DEF Waits, InFlight, Range
        <5> QED BY <4>1, <5>1 DEF WaitingFits
      <4> QED BY <4>2, <4>3
    <3> QED BY <1>1, <1>3, <1>4, <2>1, <2>3, <3>1, <3>2 DEF LoggedAt
  <2> QED BY <2>2, <2>3
<1>6. ASSUME NEW a \in acked'
      PROVE  AckedAt(tree', raced', a)
  <2>1. AckedAt(tree, raced, a)
    BY <1>1, LoggedNow
  <2>2. \A j \in Clone : j # k => tree'[j] = tree[j]
    BY <1>2, <1>3
  <2> QED BY <1>3, <1>4, <2>1, <2>2 DEF AckedAt
<1> QED BY <1>5, <1>6, LoggedMeans

LEMMA LoggedKept ==
    ASSUME CloneInv, NEW k \in Clone, Serve(k) \/ Git(k)
    PROVE  Logged'
<1> USE DEF files, tables, keyHistory, noteHistory, history
<1>1. tree \in [Clone -> GitTrees]
  BY DEF CloneInv, Housed, Branches
<1>2. CASE createIssue(k)
  <2>1. PICK p, u, f : Created(k, p, u, f)
    BY <1>2, CreateCreates
  <2>2. tree' = [tree EXCEPT ![k] = tree'[k]] /\ tree'[k].logs = tree[k].logs
    BY <2>1 DEF Created, Placed
  <2> QED BY <1>2, <2>2, SameLogsLogged DEF createIssue
<1>3. CASE applyRekey(k)
  <2>1. PICK r, f : Applied(k, r, f)
    BY <1>3, RekeyApplies
  <2>2. tree' = [tree EXCEPT ![k] = tree'[k]] /\ tree'[k].logs = tree[k].logs
    <3>1. CASE LeftAlone
      BY <1>1, <3>1 DEF LeftAlone
    <3>2. CASE Rewritten(k, r, f)
      BY <3>2 DEF Rewritten, Placed
    <3> QED BY <2>1, <3>1, <3>2 DEF Applied
  <2> QED BY <1>3, <2>2, SameLogsLogged DEF applyRekey
<1>4. CASE reconcileFull(k)
  <2>1. tree' = tree /\ base' = base /\ origin' = origin /\ writes' = writes /\ acked' = acked
        /\ raced' = raced
    BY <1>4 DEF reconcileFull
  <2> QED BY <1>1, <2>1, SameLogsLogged
<1>5. CASE \E c \in NoteIds, n \in Keys : addComment(k, c, n)
  <2>1. tree' = [tree EXCEPT ![k] = tree'[k]] /\ tree'[k].logs = tree[k].logs
    BY <1>5, CommentIsWritten DEF BodyWritten
  <2> QED BY <1>5, <2>1, SameLogsLogged DEF addComment
<1>6. CASE \E c \in NoteIds : Touch(k, c)
  <2>1. tree' = [tree EXCEPT ![k] = tree'[k]] /\ tree'[k].logs = tree[k].logs
    BY <1>6, TouchIsWritten DEF BodyWritten
  <2> QED BY <1>6, <2>1, SameLogsLogged DEF Touch
<1>7. CASE resolve(k)
  <2>1. base' = base /\ origin' = origin /\ writes' = writes /\ acked' = acked /\ raced \subseteq raced'
    BY <1>7 DEF resolve, LogsMove
  <2>2. ASSUME NEW p \in Places, KeepBoth(k, p)
        PROVE  Logged'
    BY <2>1, <2>2, KeepBothSplits, SameLogsLogged DEF Split
  <2>3. ASSUME NEW p \in Places, KeepOne(k, p)
        PROVE  Logged'
    BY <2>1, <2>3, KeepOneChooses, SameLogsLogged DEF Chosen, Placed
  <2>4. ASSUME NEW c \in NoteIds, KeepLines(k, c)
        PROVE  Logged'
    <3>1. PICK log : LogWritten(k, c, log) /\ Ids(log) = Ids(tree[k].logs[c])
      BY <2>4, LinesAreWritten
    <3>2. tree' = [tree EXCEPT ![k] = tree'[k]] /\ tree'[k].logs = [tree[k].logs EXCEPT ![c] = log]
          /\ tree[k].logs \in [NoteIds -> Logs]
      BY <1>1, <3>1 DEF LogWritten, GitTrees
    <3>3. ASSUME NEW d \in NoteIds
          PROVE  Ids(tree'[k].logs[d]) = Ids(tree[k].logs[d])
      <4>1. tree'[k].logs[d] = IF d = c THEN log ELSE tree[k].logs[d]
        BY <3>2
      <4> QED BY <3>1, <4>1
    <3> QED BY <2>1, <3>2, <3>3, SameLogsLogged
  <2> QED BY <1>7, <2>2, <2>3, <2>4 DEF resolve
<1>8. CASE \E c \in NoteIds, op \in Ops : appendOp(k, c, op)
  BY <1>8, AppendLogged
<1> QED BY <1>2, <1>3, <1>4, <1>5, <1>6, <1>7, <1>8, CrashLogged, WriteLogged, PushLogged,
           PullLogged DEF Serve, Git
-----------------------------------------------------------------------------
(* The order in which losers are rekeyed depends only on the issues and    *)
(* keys a clone shows, and does not change while the rekeys are made.      *)

Tags(S) ==
    /\ IsFiniteSet(S)
    /\ \A c \in S : c = <<c[1], c[2]>> /\ c[1] \in Nat /\ c[2] \in Nat
    /\ \A c, d \in S : c[1] = d[1] => c = d

LEMMA SmallestIsThere ==
    ASSUME NEW N \in SUBSET Nat, IsFiniteSet(N), N # {}
    PROVE  \E x \in N : \A y \in N : x <= y
<1>1. PICK m \in Nat : m = highest(N) /\ \A x \in N : x <= m
  BY HighestIsThere
<1>2. PICK D : D = {m - x : x \in N}
  OBVIOUS
<1>3. D \in SUBSET Nat /\ \A x \in N : m - x \in D
  BY <1>1, <1>2
<1>4. IsFiniteSet(D)
  <2>1. PICK f : f = [x \in N |-> m - x]
    OBVIOUS
  <2>2. f \in Surjection(N, D)
    BY <1>2, <2>1 DEF Surjection
  <2> QED BY <2>2, FS_Surjection
<1>5. PICK h \in Nat : h = highest(D) /\ h \in D \cup {0} /\ \A d \in D : d <= h
  BY <1>3, <1>4, HighestIsThere
<1>6. PICK x \in N : h = m - x
  <2>1. CASE h \in D
    BY <1>2, <2>1
  <2>2. CASE h = 0
    <3>1. PICK x \in N : TRUE
      OBVIOUS
    <3>2. m - x <= 0 /\ x <= m
      BY <1>1, <1>3, <1>5, <2>2, <3>1
    <3> QED BY <1>1, <2>2, <3>1, <3>2
  <2> QED BY <1>5, <2>1, <2>2
<1>7. ASSUME NEW y \in N
      PROVE  x <= y
  <2>1. m - y <= m - x
    BY <1>3, <1>5, <1>6
  <2> QED BY <1>1, <1>6, <2>1
<1> QED BY <1>6, <1>7

LEMMA LastKeyIsLast ==
    ASSUME NEW S, Tags(S)
    PROVE  /\ LastKey(S) \in Nat /\ \A c \in S : c[2] <= LastKey(S)
           /\ LastKey(S) = 0 \/ \E c \in S : c[2] = LastKey(S)
<1>1. PICK N : N = {c[2] : c \in S}
  OBVIOUS
<1>2. N \in SUBSET Nat
  BY <1>1 DEF Tags
<1>3. IsFiniteSet(N)
  <2>1. PICK f : f = [c \in S |-> c[2]]
    OBVIOUS
  <2>2. f \in Surjection(S, N)
    BY <1>1, <2>1 DEF Surjection
  <2> QED BY <2>2, FS_Surjection DEF Tags
<1>4. LastKey(S) = highest(N)
  BY <1>1 DEF LastKey
<1>5. \A c \in S : c[2] \in N
  BY <1>1
<1>6. highest(N) \in Nat /\ highest(N) \in N \cup {0} /\ \A x \in N : x <= highest(N)
  BY <1>2, <1>3, HighestIsThere
<1> QED BY <1>1, <1>4, <1>5, <1>6

LEMMA PairsTakeTurns ==
    ASSUME NEW S, Tags(S), NEW L, L = Beaten(S), NEW n, n = Cardinality(L)
    PROVE  /\ IsFiniteSet(L) /\ n \in Nat /\ L \subseteq S
           /\ \A c \in L : Turn(S, c) \in 1..n
           /\ \A c, d \in L : Turn(S, c) = Turn(S, d) => c = d
           /\ \A c, d \in L : Turn(S, c) < Turn(S, d) <=> Before(c, d)
           /\ \A i \in 1..n : \E c \in L : Turn(S, c) = i
<1>1. L \in SUBSET S
  BY DEF Beaten
<1>2. IsFiniteSet(L)
  BY <1>1, FS_Subset DEF Tags
<1>3. PICK R : R = {e \in L \X L : Before(e[1], e[2])}
  OBVIOUS
<1>4. \A x, y \in L : <<x, y>> \in R <=> Before(x, y)
  BY <1>3
<1>5. \A x, y \in L : x[1] \in Nat /\ x[2] \in Nat /\ (x[1] = y[1] => x = y)
  BY <1>1 DEF Tags
<1>6. StrictOrder(L, R)
  <2>1. \A x \in L : <<x, x>> \notin R
    BY <1>4, <1>5 DEF Before
  <2>2. ASSUME NEW x \in L, NEW y \in L, x # y
        PROVE  <<x, y>> \in R \/ <<y, x>> \in R
    <3>1. x[1] # y[1] /\ x[1] \in Nat /\ y[1] \in Nat /\ x[2] \in Nat /\ y[2] \in Nat
      BY <1>5, <2>2
    <3>2. Before(x, y) \/ Before(y, x)
      BY <3>1 DEF Before
    <3> QED BY <1>4, <3>2
  <2>3. ASSUME NEW x \in L, NEW y \in L, NEW z \in L, <<x, y>> \in R, <<y, z>> \in R
        PROVE  <<x, z>> \in R
    <3>1. Before(x, y) /\ Before(y, z)
      BY <1>4, <2>3
    <3>2. /\ x[1] \in Nat /\ y[1] \in Nat /\ z[1] \in Nat
          /\ x[2] \in Nat /\ y[2] \in Nat /\ z[2] \in Nat
      BY <1>5
    <3>3. Before(x, z)
      BY <3>1, <3>2 DEF Before
    <3> QED BY <1>4, <3>3
  <2> QED BY <2>1, <2>2, <2>3 DEF StrictOrder
<1>10. PICK B : B = [c \in L |-> {d \in L : <<d, c>> \in R}]
  OBVIOUS
<1>7. PICK T : T = [c \in L |-> Cardinality(B[c]) + 1]
  OBVIOUS
<1>11. Counts(L, R, B, T)
  BY <1>7, <1>10 DEF Counts
<1>8. ASSUME NEW c \in L
      PROVE  T[c] = Turn(S, c)
  <2>1. B[c] = {d \in L : Before(d, c)}
    BY <1>4, <1>10
  <2> QED BY <1>7, <2>1 DEF Turn
<1>9. /\ n \in Nat
      /\ T \in [L -> 1..n]
      /\ \A x, y \in L : T[x] = T[y] => x = y
      /\ \A x, y \in L : T[x] < T[y] <=> <<x, y>> \in R
      /\ \A i \in 1..n : \E x \in L : T[x] = i
  BY <1>2, <1>6, <1>11, Ranking DEF RanksThem
<1>12. ASSUME NEW c \in L, NEW d \in L
       PROVE  /\ Turn(S, c) \in 1..n
              /\ Turn(S, c) = Turn(S, d) => c = d
              /\ Turn(S, c) < Turn(S, d) <=> Before(c, d)
  <2>1. T[c] = Turn(S, c) /\ T[d] = Turn(S, d)
    BY <1>8
  <2>2. T[c] \in 1..n /\ (T[c] = T[d] => c = d) /\ (T[c] < T[d] <=> <<c, d>> \in R)
    BY <1>9
  <2>3. <<c, d>> \in R <=> Before(c, d)
    BY <1>4
  <2> QED BY <2>1, <2>2, <2>3, Zenon
<1>13. \A i \in 1..n : \E c \in L : Turn(S, c) = i
  BY <1>8, <1>9
<1> QED BY <1>1, <1>2, <1>9, <1>12, <1>13

(* The issue that keeps its key is one nobody beats.                       *)
LEMMA SomeoneKeeps ==
    ASSUME NEW S, Tags(S), NEW c \in Beaten(S)
    PROVE  \E d \in S \ Beaten(S) : d[2] = c[2] /\ d[1] < c[1]
<1>1. PICK D : D = {d \in S : d[2] = c[2]}
  OBVIOUS
<1>2. PICK N : N = {d[1] : d \in D}
  OBVIOUS
<1>3. IsFiniteSet(D) /\ D \subseteq S /\ c \in D
  BY <1>1, FS_Subset DEF Tags, Beaten
<1>4. N \in SUBSET Nat /\ N # {}
  BY <1>2, <1>3 DEF Tags
<1>5. IsFiniteSet(N)
  <2>1. PICK f : f = [d \in D |-> d[1]]
    OBVIOUS
  <2>2. f \in Surjection(D, N)
    BY <1>2, <2>1 DEF Surjection
  <2> QED BY <1>3, <2>2, FS_Surjection
<1>6. PICK x \in N : \A y \in N : x <= y
  BY <1>4, <1>5, SmallestIsThere
<1>7. PICK d \in D : x = d[1]
  BY <1>2
<1>8. d \in S /\ d[2] = c[2]
  BY <1>1
<1>9. d \notin Beaten(S)
  <2>1. ASSUME NEW e \in S, e[2] = d[2], e[1] < d[1]
        PROVE  FALSE
    <3>1. e \in D
      BY <1>1, <1>8, <2>1
    <3>2. e[1] \in N
      BY <1>2, <3>1
    <3>3. d[1] <= e[1] /\ d[1] \in Nat /\ e[1] \in Nat
      BY <1>4, <1>6, <1>7, <3>2
    <3> QED BY <2>1, <3>3
  <2> QED BY <2>1 DEF Beaten
<1>10. PICK e \in S : e[2] = c[2] /\ e[1] < c[1]
  BY DEF Beaten
<1>11. d[1] <= e[1] /\ d[1] \in Nat /\ e[1] \in Nat /\ c[1] \in Nat
  BY <1>1, <1>2, <1>3, <1>6, <1>7, <1>8, <1>10 DEF Tags
<1> QED BY <1>8, <1>9, <1>10, <1>11
(* When the first i have been rekeyed, the others are still beaten, and    *)
(* their turns come i sooner.                                              *)
LEMMA AfterBeats ==
    ASSUME NEW S, Tags(S), NEW n, n = Cardinality(Beaten(S)), NEW i \in 0..n, NEW A, A = After(S, i)
    PROVE  /\ Tags(A)
           /\ Beaten(A) = {c \in Beaten(S) : Turn(S, c) > i}
           /\ Cardinality(Beaten(A)) = n - i
           /\ LastKey(A) = LastKey(S) + i
           /\ \A c \in Beaten(A) : Turn(A, c) = Turn(S, c) - i
<1>1. PICK L : L = Beaten(S)
  OBVIOUS
<1>2. /\ IsFiniteSet(L) /\ n \in Nat /\ L \subseteq S
      /\ \A c \in L : Turn(S, c) \in 1..n
      /\ \A c, d \in L : Turn(S, c) = Turn(S, d) => c = d
      /\ \A c, d \in L : Turn(S, c) < Turn(S, d) <=> Before(c, d)
      /\ \A j \in 1..n : \E c \in L : Turn(S, c) = j
  BY <1>1, PairsTakeTurns
<1>3. PICK T : T = [c \in L |-> Turn(S, c)]
  OBVIOUS
<1>4. /\ \A c \in L : T[c] = Turn(S, c) /\ T[c] \in 1..n
      /\ \A c, d \in L : T[c] = T[d] => c = d
      /\ \A c, d \in L : T[c] < T[d] <=> Before(c, d)
      /\ \A j \in 1..n : \E c \in L : T[c] = j
  BY <1>2, <1>3
<1>5. PICK M \in Nat : M = LastKey(S) /\ (\A c \in S : c[2] <= M) /\ (M = 0 \/ \E c \in S : c[2] = M)
  BY LastKeyIsLast
<1>6. PICK P : P = {c \in L : T[c] <= i}
  OBVIOUS
<1>7. PICK new : new = [c \in S |-> IF c \in P THEN <<c[1], M + T[c]>> ELSE c]
  OBVIOUS
<1>8. A = {new[c] : c \in S}
  <2>1. ASSUME NEW c \in S
        PROVE  new[c] = IF c \in Beaten(S) /\ Turn(S, c) <= i
                        THEN <<c[1], LastKey(S) + Turn(S, c)>> ELSE c
    BY <1>1, <1>4, <1>5, <1>6, <1>7
  <2> QED BY <2>1 DEF After
<1>9. P \subseteq L /\ P \subseteq S /\ i \in Nat /\ i <= n
  BY <1>2, <1>6
<1>10. \A c \in S : c = <<c[1], c[2]>> /\ c[1] \in Nat /\ c[2] \in Nat /\ c[2] <= M
  BY <1>5 DEF Tags
<1>11. ASSUME NEW c \in S
       PROVE  /\ new[c][1] = c[1] /\ new[c] = <<new[c][1], new[c][2]>>
              /\ new[c][1] \in Nat /\ new[c][2] \in Nat
              /\ c \in P => new[c][2] = M + T[c] /\ T[c] \in 1..i
              /\ c \notin P => new[c] = c
  <2>1. CASE c \in P
    <3>1. new[c] = <<c[1], M + T[c]>> /\ T[c] \in 1..i
      BY <1>2, <1>4, <1>6, <1>7, <1>9, <2>1
    <3> QED BY <1>10, <2>1, <3>1
  <2>2. CASE c \notin P
    <3>1. new[c] = c
      BY <1>7, <2>2
    <3> QED BY <1>10, <2>2, <3>1
  <2> QED BY <2>1, <2>2
<1>12. Tags(A)
  <2>1. IsFiniteSet(A)
    <3>1. new \in Surjection(S, A)
      BY <1>7, <1>8 DEF Surjection
    <3> QED BY <3>1, FS_Surjection DEF Tags
  <2>2. ASSUME NEW x \in A
        PROVE  x = <<x[1], x[2]>> /\ x[1] \in Nat /\ x[2] \in Nat
    BY <1>8, <1>11
  <2>3. ASSUME NEW x \in A, NEW y \in A, x[1] = y[1]
        PROVE  x = y
    <3>1. PICK c \in S : x = new[c]
      BY <1>8
    <3>2. PICK d \in S : y = new[d]
      BY <1>8
    <3>3. c[1] = d[1]
      BY <1>11, <2>3, <3>1, <3>2
    <3> QED BY <3>1, <3>2, <3>3 DEF Tags
  <2> QED BY <2>1, <2>2, <2>3 DEF Tags
<1>13. ASSUME NEW x \in Beaten(A)
       PROVE  x \in L \ P
  <2>1. x \in A
    BY DEF Beaten
  <2>2. PICK c \in S : x = new[c]
    BY <1>8, <2>1
  <2>3. PICK y \in A : y[2] = x[2] /\ y[1] < x[1]
    BY DEF Beaten
  <2>4. PICK d \in S : y = new[d]
    BY <1>8
  <2>5. d[1] < c[1] /\ d # c /\ new[d][2] = new[c][2] /\ c[1] \in Nat /\ d[1] \in Nat
    BY <1>10, <1>11, <2>2, <2>3, <2>4
  <2>6. ~(c \in P /\ d \in P)
    <3>1. ASSUME c \in P, d \in P
          PROVE  FALSE
      <4>1. M + T[c] = M + T[d] /\ T[c] \in 1..i /\ T[d] \in 1..i
        BY <1>11, <2>5, <3>1
      <4>2. T[c] = T[d]
        BY <1>9, <4>1
      <4> QED BY <1>4, <1>9, <2>5, <3>1, <4>2
    <3> QED BY <3>1
  <2>7. ~(c \in P /\ d \notin P) /\ ~(c \notin P /\ d \in P)
    BY <1>9, <1>10, <1>11, <2>5
  <2>8. c \notin P /\ d \notin P
    BY <2>6, <2>7
  <2>9. x = c /\ y = d
    BY <1>11, <2>2, <2>4, <2>8
  <2>10. c \in Beaten(S)
    BY <2>3, <2>9 DEF Beaten
  <2> QED BY <1>1, <2>8, <2>9, <2>10
<1>14. ASSUME NEW c \in L \ P
       PROVE  c \in Beaten(A)
  <2>1. PICK d \in S \ Beaten(S) : d[2] = c[2] /\ d[1] < c[1]
    BY <1>1, SomeoneKeeps
  <2>2. d \notin P /\ c \in S
    BY <1>1, <1>2, <1>9, <2>1
  <2>3. new[c] = c /\ new[d] = d
    BY <1>11, <2>1, <2>2
  <2>4. c \in A /\ d \in A
    BY <1>8, <2>1, <2>2, <2>3
  <2> QED BY <2>1, <2>4 DEF Beaten
<1>15. Beaten(A) = L \ P
  BY <1>13, <1>14
<1>16. Beaten(A) = {c \in Beaten(S) : Turn(S, c) > i}
  <2>1. \A c \in L : c \in P <=> ~(T[c] > i)
    BY <1>4, <1>6, <1>9
  <2> QED BY <1>1, <1>4, <1>15, <2>1
<1>17. IsFiniteSet(P) /\ Cardinality(P) = i
  <2>1. IsFiniteSet(P)
    BY <1>2, <1>9, FS_Subset
  <2>2. PICK f : f = [c \in P |-> T[c]]
    OBVIOUS
  <2>3. f \in Bijection(P, 1..i)
    <3>1. f \in [P -> 1..i]
      BY <1>9, <1>11, <2>2
    <3>2. \A c, d \in P : f[c] = f[d] => c = d
      BY <1>4, <1>9, <2>2
    <3>3. ASSUME NEW j \in 1..i
          PROVE  \E c \in P : f[c] = j
      <4>1. j \in 1..n /\ j <= i
        BY <1>2, <1>9
      <4>2. PICK c \in L : T[c] = j
        BY <1>4, <4>1
      <4> QED BY <1>6, <2>2, <4>1, <4>2
    <3> QED BY <3>1, <3>2, <3>3 DEF Bijection, Injection, Surjection, IsInjective
  <2>4. ExistsBijection(P, 1..i)
    BY <2>3 DEF ExistsBijection
  <2>5. Cardinality(1..i) = Cardinality(P)
    BY <2>1, <2>4, FS_Bijection
  <2>6. Cardinality(1..i) = i
    BY <1>9, FS_Interval
  <2> QED BY <2>1, <2>5, <2>6
<1>18. Cardinality(Beaten(A)) = n - i
  <2>1. L \cap P = P
    BY <1>9
  <2>2. Cardinality(L \ P) = Cardinality(L) - Cardinality(L \cap P)
    BY <1>2, FS_Difference
  <2> QED BY <1>1, <1>15, <1>17, <2>1, <2>2
<1>19. ASSUME NEW c \in Beaten(A)
       PROVE  Turn(A, c) = Turn(S, c) - i
  <2>1. PICK X : X = {d \in L : Before(d, c)}
    OBVIOUS
  <2>2. c \in L /\ c \notin P
    BY <1>15
  <2>3. \A d \in P : T[d] < T[c]
    BY <1>4, <1>6, <1>9, <2>2
  <2>4. P \subseteq X
    BY <1>4, <1>9, <2>1, <2>2, <2>3
  <2>5. {d \in Beaten(A) : Before(d, c)} = X \ P
    BY <1>15, <2>1
  <2>6. IsFiniteSet(X)
    BY <1>2, <2>1, FS_Subset
  <2>7. Cardinality(X \ P) = Cardinality(X) - Cardinality(X \cap P) /\ X \cap P = P
    BY <2>4, <2>6, FS_Difference
  <2>8. Turn(S, c) = Cardinality(X) + 1
    BY <1>1, <2>1 DEF Turn
  <2>9. Turn(A, c) = Cardinality(X \ P) + 1
    BY <2>5 DEF Turn
  <2>10. Cardinality(X) \in Nat
    BY <2>6, FS_CardinalityType
  <2>11. PICK x \in Nat : x = Cardinality(X)
    BY <2>10
  <2>12. Cardinality(X \ P) = x - i
    BY <1>17, <2>7, <2>11
  <2>13. Turn(S, c) = x + 1 /\ Turn(A, c) = (x - i) + 1
    BY <2>8, <2>9, <2>11, <2>12
  <2> QED BY <1>9, <2>13
<1>20. LastKey(A) = M + i
  <2>1. LastKey(A) \in Nat /\ (\A x \in A : x[2] <= LastKey(A))
        /\ (LastKey(A) = 0 \/ \E x \in A : x[2] = LastKey(A))
    BY <1>12, LastKeyIsLast
  <2>2. CASE i = 0
    <3>1. P = {}
      BY <1>4, <1>6, <2>2
    <3>2. \A c \in S : new[c] = c
      BY <1>11, <3>1
    <3>3. A = S
      BY <1>8, <3>2
    <3> QED BY <1>5, <2>2, <3>3
  <2>3. CASE i # 0
    <3>1. i \in 1..n
      BY <1>2, <1>9, <2>3
    <3>2. PICK c \in L : T[c] = i
      BY <1>4, <3>1
    <3>3. c \in P /\ c \in S
      BY <1>2, <1>6, <1>9, <3>2
    <3>4. new[c] \in A /\ new[c][2] = M + i
      BY <1>8, <1>11, <3>2, <3>3
    <3>5. M + i <= LastKey(A)
      BY <2>1, <3>4
    <3>6. ASSUME NEW x \in A
          PROVE  x[2] <= M + i
      <4>1. PICK d \in S : x = new[d]
        BY <1>8
      <4>2. CASE d \in P
        BY <1>9, <1>11, <4>1, <4>2
      <4>3. CASE d \notin P
        BY <1>9, <1>10, <1>11, <4>1, <4>3
      <4> QED BY <4>2, <4>3
    <3> QED BY <1>9, <2>1, <2>3, <3>5, <3>6
  <2> QED BY <2>2, <2>3
<1> QED BY <1>5, <1>12, <1>16, <1>18, <1>19, <1>20

(* What is counted of claimants is counted of their issues and keys.       *)
LEMMA ImagesCount ==
    ASSUME NEW D, IsFiniteSet(D), NEW f, \A c, d \in D : f[c] = f[d] => c = d,
           NEW E, E = {f[d] : d \in D}
    PROVE  Cardinality(E) = Cardinality(D)
<1>1. PICK g : g = [d \in D |-> f[d]]
  OBVIOUS
<1>2. g \in Bijection(D, E)
  BY <1>1 DEF Bijection, Injection, Surjection, IsInjective
<1>3. ExistsBijection(D, E)
  BY <1>2 DEF ExistsBijection
<1> QED BY <1>3, FS_Bijection

PlansFor(todo, P) ==
    /\ Tags(P) /\ Len(todo) = Cardinality(Beaten(P))
    /\ \A j \in 1..Len(todo) : \E x \in Beaten(P) :
          Turn(P, x) = j /\ todo[j].uid = x[1] /\ todo[j].to = LastKey(P) + j

LEMMA PlanOfPairs ==
    ASSUME Sound, NEW s \in GitTrees, Alone(s)
    PROVE  PlansFor(planRekeys(Claimants(s.issues)), Pairs(s.issues))
<1>a. PICK C : C = Claimants(s.issues)
  OBVIOUS
<1>b. PICK todo : todo = planRekeys(C)
  OBVIOUS
<1>c. PICK P : P = Pairs(s.issues)
  OBVIOUS
<1>1. todo \in Seq(Rekeys) /\ EntriesOf(C, todo)
  BY <1>a, <1>b, PlanLists
<1>2. /\ Numbers(C)
      /\ \A c \in C : \E p \in ShownIn(s.issues) : c = ClaimOf(s.issues, p)
      /\ \A p \in ShownIn(s.issues) : ClaimOf(s.issues, p) \in C
  BY <1>a, ClaimantsCount
<1>3. PICK pair : pair = [c \in C |-> <<c.uid, c.key>>]
  OBVIOUS
<1>4. P = {pair[c] : c \in C}
  <2>1. ASSUME NEW p \in ShownIn(s.issues)
        PROVE  pair[ClaimOf(s.issues, p)] = <<s.issues[p].uid, s.issues[p].key>>
    <3>1. PICK c \in C : c = ClaimOf(s.issues, p)
      BY <1>2
    <3>2. c.uid = s.issues[p].uid /\ c.key = s.issues[p].key
      BY <3>1 DEF ClaimOf
    <3>3. pair[c] = <<c.uid, c.key>>
      BY <1>3
    <3> QED BY <3>1, <3>2, <3>3
  <2>2. ASSUME NEW x \in P
        PROVE  \E c \in C : x = pair[c]
    <3>1. PICK p \in ShownIn(s.issues) : x = <<s.issues[p].uid, s.issues[p].key>>
      BY <1>c DEF Pairs
    <3>2. ClaimOf(s.issues, p) \in C
      BY <1>2
    <3> QED BY <2>1, <3>1, <3>2
  <2>3. ASSUME NEW c \in C
        PROVE  pair[c] \in P
    <3>1. PICK p \in ShownIn(s.issues) : c = ClaimOf(s.issues, p)
      BY <1>2
    <3>2. pair[c] = <<s.issues[p].uid, s.issues[p].key>>
      BY <2>1, <3>1
    <3> QED BY <1>c, <3>2 DEF Pairs
  <2> QED BY <2>2, <2>3
<1>5. ASSUME NEW c \in C
      PROVE  pair[c] = <<c.uid, c.key>> /\ pair[c][1] = c.uid /\ pair[c][2] = c.key
             /\ c.uid \in Nat /\ c.key \in Nat
  BY <1>2, <1>3 DEF Numbers
<1>6. \A c, d \in C : pair[c] = pair[d] => c = d
  BY <1>2, <1>5 DEF Numbers
<1>7. Tags(P)
  <2>1. IsFiniteSet(P)
    <3>1. pair \in Surjection(C, P)
      BY <1>3, <1>4 DEF Surjection
    <3> QED BY <1>2, <3>1, FS_Surjection DEF Numbers
  <2>2. ASSUME NEW x \in P
        PROVE  x = <<x[1], x[2]>> /\ x[1] \in Nat /\ x[2] \in Nat
    BY <1>4, <1>5
  <2>3. ASSUME NEW x \in P, NEW y \in P, x[1] = y[1]
        PROVE  x = y
    <3>1. PICK c \in C : x = pair[c]
      BY <1>4
    <3>2. PICK d \in C : y = pair[d]
      BY <1>4
    <3>3. c.uid = d.uid
      BY <1>5, <2>3, <3>1, <3>2
    <3> QED BY <1>2, <3>1, <3>2, <3>3 DEF Numbers
  <2> QED BY <2>1, <2>2, <2>3 DEF Tags
<1>8. PICK L : L = Losers(C)
  OBVIOUS
<1>9. L \subseteq C /\ IsFiniteSet(L)
  <2>1. L \in SUBSET C
    BY <1>8 DEF Losers
  <2> QED BY <1>2, <2>1, FS_Subset DEF Numbers
<1>10. ASSUME NEW c \in C
       PROVE  c \in L <=> pair[c] \in Beaten(P)
  <2>1. ASSUME c \in L
        PROVE  pair[c] \in Beaten(P)
    <3>1. PICK d \in C : d.key = c.key /\ d.uid < c.uid
      BY <1>8, <2>1 DEF Losers
    <3>2. pair[c] \in P /\ pair[d] \in P
      BY <1>4
    <3> QED BY <1>5, <3>1, <3>2 DEF Beaten
  <2>2. ASSUME pair[c] \in Beaten(P)
        PROVE  c \in L
    <3>1. PICK y \in P : y[2] = pair[c][2] /\ y[1] < pair[c][1]
      BY <2>2 DEF Beaten
    <3>2. PICK d \in C : y = pair[d]
      BY <1>4
    <3>3. d.key = c.key /\ d.uid < c.uid
      BY <1>5, <3>1, <3>2
    <3> QED BY <1>8, <3>3 DEF Losers
  <2> QED BY <2>1, <2>2
<1>11. Beaten(P) = {pair[c] : c \in L}
  <2>1. Beaten(P) \subseteq P
    BY DEF Beaten
  <2> QED BY <1>4, <1>9, <1>10, <2>1
<1>12. Cardinality(Beaten(P)) = Cardinality(L)
  BY <1>6, <1>9, <1>11, ImagesCount
<1>13. ASSUME NEW c \in L
       PROVE  Turn(P, pair[c]) = Position(C, c)
  <2>1. PICK D : D = {d \in L : Sooner(d, c)}
    OBVIOUS
  <2>2. PICK E : E = {x \in Beaten(P) : Before(x, pair[c])}
    OBVIOUS
  <2>3. \A d \in L : Sooner(d, c) <=> Before(pair[d], pair[c])
    BY <1>5, <1>9 DEF Sooner, Before
  <2>4. E = {pair[d] : d \in D}
    BY <1>11, <2>1, <2>2, <2>3
  <2>5. IsFiniteSet(D) /\ D \subseteq C
    BY <1>9, <2>1, FS_Subset
  <2>6. Cardinality(E) = Cardinality(D)
    BY <1>6, <2>4, <2>5, ImagesCount
  <2> QED BY <1>8, <2>1, <2>2, <2>6 DEF Turn, Position
<1>14. LastKey(P) = LastOf(C)
  <2>1. PICK N : N = {c.key : c \in C}
    OBVIOUS
  <2>2. PICK N2 : N2 = {x[2] : x \in P}
    OBVIOUS
  <2>3. N = N2
    BY <1>4, <1>5, <2>1, <2>2
  <2> QED BY <2>1, <2>2, <2>3 DEF LastKey, LastOf
<1>15. Len(todo) = Cardinality(Beaten(P))
  BY <1>1, <1>8, <1>12 DEF EntriesOf
<1>16. ASSUME NEW j \in 1..Len(todo)
       PROVE  \E x \in Beaten(P) : Turn(P, x) = j /\ todo[j].uid = x[1] /\ todo[j].to = LastKey(P) + j
  <2>1. PICK c \in C : Entry(C, LastOf(C), todo, j, c)
    BY <1>1 DEF EntriesOf
  <2>2. c \in L /\ Position(C, c) = j /\ todo[j].uid = c.uid /\ todo[j].to = LastOf(C) + j
    BY <1>8, <2>1 DEF Entry
  <2>3. pair[c] \in Beaten(P) /\ Turn(P, pair[c]) = j
    BY <1>10, <1>13, <2>2
  <2> QED BY <1>5, <1>14, <2>2, <2>3
<1> QED BY <1>a, <1>b, <1>c, <1>7, <1>15, <1>16 DEF PlansFor
SteadyAt(k, S, is, pl, X) ==
    /\ k \notin X
    /\ \A c, d \in S : c[1] = d[1] => c = d
    /\ \E i \in 0..Cardinality(Beaten(S)) :
          /\ Pairs(is) = After(S, i)
          /\ pl # <<>> => Len(pl) = Cardinality(Beaten(S)) - i
          /\ \A j \in 1..Len(pl) : \E c \in Beaten(S) :
                /\ Turn(S, c) = i + j /\ pl[j].uid = c[1]
                /\ pl[j].to = LastKey(S) + i + j

LEMMA SteadyMeans ==
    ASSUME NEW k \in Clone, seen'[k] # {} => SteadyAt(k, seen'[k], tree'[k].issues, plan'[k], crossed')
    PROVE  Steady(k)'
BY DEF Steady, SteadyAt, Pairs, ShownIn

LEMMA SteadyNow ==
    ASSUME CloneInv, NEW k \in Clone, seen[k] # {}
    PROVE  SteadyAt(k, seen[k], tree[k].issues, plan[k], crossed)
<1>1. Steady(k)
  BY DEF CloneInv
<1> QED BY <1>1 DEF Steady, SteadyAt

LEMMA SeenAreTags ==
    ASSUME CloneInv, NEW k \in Clone, seen[k] # {}
    PROVE  Tags(seen[k])
<1>1. PICK S : S = seen[k]
  OBVIOUS
<1>2. S \in SUBSET (Uids \X Nat) /\ Uids = 1..MaxUid /\ MaxUid \in Nat
  BY <1>1 DEF CloneInv, Housed, Branches, Tables, Sound, Uids
<1>3. \A c, d \in S : c[1] = d[1] => c = d
  BY <1>1, SteadyNow DEF SteadyAt
<1>4. IsFiniteSet(S)
  <2>1. PICK f : f = [c \in S |-> c[1]]
    OBVIOUS
  <2>2. f \in Injection(S, Uids)
    BY <1>2, <1>3, <2>1 DEF Injection, IsInjective
  <2>3. IsFiniteSet(Uids)
    BY <1>2, FS_Interval
  <2> QED BY <2>2, <2>3, FS_Injection
<1>5. \A c \in S : c = <<c[1], c[2]>> /\ c[1] \in Nat /\ c[2] \in Nat
  BY <1>2
<1> QED BY <1>1, <1>3, <1>4, <1>5 DEF Tags

LEMMA AfterNothing ==
    ASSUME NEW S, Tags(S)
    PROVE  After(S, 0) = S
<1>1. PICK n \in Nat : n = Cardinality(Beaten(S))
  BY PairsTakeTurns
<1>2. \A c \in Beaten(S) : Turn(S, c) \in 1..n
  BY <1>1, PairsTakeTurns
<1>3. \A c \in S : ~(c \in Beaten(S) /\ Turn(S, c) <= 0)
  BY <1>1, <1>2
<1> QED BY <1>3 DEF After

(* A pass that is made again, after a crash, goes on where the first had   *)
(* got to.                                                                 *)
LEMMA ReconcileSteady ==
    ASSUME CloneInv, NEW k \in Clone, reconcileFull(k)
    PROVE  Steady(k)'
<1>1. /\ Sound /\ tree \in [Clone -> GitTrees] /\ plan \in [Clone -> Seq(Rekeys)]
      /\ seen \in [Clone -> SUBSET (Uids \X Nat)] /\ tree' = tree /\ crossed' = crossed \ {k}
  BY DEF CloneInv, Housed, Branches, Tables, reconcileFull, files
<1>2. PICK s \in GitTrees : s = tree[k]
  BY <1>1
<1>3. PICK C : C = Claimants(s.issues)
  OBVIOUS
<1>4. PICK todo : todo = planRekeys(C)
  OBVIOUS
<1>5. PICK P : P = Pairs(s.issues)
  OBVIOUS
<1>6. Alone(s)
  BY <1>2 DEF CloneInv, Housed, NoTwins, Stores
<1>7. /\ Tags(P) /\ Len(todo) = Cardinality(Beaten(P))
      /\ \A j \in 1..Len(todo) : \E x \in Beaten(P) :
            Turn(P, x) = j /\ todo[j].uid = x[1] /\ todo[j].to = LastKey(P) + j
  <2>1. PlansFor(todo, P)
    BY <1>1, <1>3, <1>4, <1>5, <1>6, PlanOfPairs
  <2> QED BY <2>1 DEF PlansFor
<1>8. plan'[k] = todo /\ seen'[k] = IF seen[k] # {} THEN seen[k] ELSE P
  BY <1>1, <1>2, <1>3, <1>4, <1>5, ReconcileReads
<1>9. PICK S : S = seen'[k]
  OBVIOUS
<1>10. PICK n : n = Cardinality(Beaten(S))
  OBVIOUS
<1>11. Tags(S) /\ \E i \in 0..n : P = After(S, i)
  <2>1. CASE seen[k] # {}
    <3>1. S = seen[k]
      BY <1>8, <1>9, <2>1
    <3> QED BY <1>2, <1>5, <1>10, <2>1, <3>1, SteadyNow, SeenAreTags DEF SteadyAt
  <2>2. CASE seen[k] = {}
    <3>1. S = P
      BY <1>8, <1>9, <2>2
    <3>2. n \in Nat
      BY <1>7, <1>10, <3>1, PairsTakeTurns
    <3> QED BY <1>7, <3>1, <3>2, AfterNothing
  <2> QED BY <2>1, <2>2
<1>12. PICK i \in 0..n : P = After(S, i)
  BY <1>11
<1>13. n \in Nat
  BY <1>10, <1>11, PairsTakeTurns
<1>14. /\ Beaten(P) = {c \in Beaten(S) : Turn(S, c) > i}
       /\ Cardinality(Beaten(P)) = n - i
       /\ LastKey(P) = LastKey(S) + i
       /\ \A c \in Beaten(P) : Turn(P, c) = Turn(S, c) - i
  BY <1>10, <1>11, <1>12, AfterBeats
<1>15. LastKey(S) \in Nat /\ \A c \in Beaten(S) : Turn(S, c) \in Nat
  BY <1>10, <1>11, <1>13, PairsTakeTurns, LastKeyIsLast
<1>16. ASSUME NEW j \in 1..Len(todo)
       PROVE  \E c \in Beaten(S) : /\ Turn(S, c) = i + j /\ todo[j].uid = c[1]
                                   /\ todo[j].to = LastKey(S) + i + j
  <2>1. PICK x \in Beaten(P) : Turn(P, x) = j /\ todo[j].uid = x[1] /\ todo[j].to = LastKey(P) + j
    BY <1>7
  <2>2. x \in Beaten(S) /\ Turn(S, x) - i = j /\ Turn(S, x) \in Nat
    BY <1>14, <1>15, <2>1
  <2>3. Turn(S, x) = i + j
    BY <1>13, <2>2
  <2>4. todo[j].to = LastKey(S) + i + j
    BY <1>13, <1>14, <1>15, <2>1
  <2> QED BY <2>1, <2>2, <2>3, <2>4
<1>17. Len(todo) = n - i
  BY <1>7, <1>14
<1>18. Pairs(tree'[k].issues) = After(S, i)
  BY <1>1, <1>2, <1>5, <1>12
<1>19. SteadyAt(k, S, tree'[k].issues, plan'[k], crossed')
  BY <1>1, <1>8, <1>10, <1>11, <1>16, <1>17, <1>18 DEF SteadyAt, Tags
<1> QED BY <1>9, <1>19, SteadyMeans

(* A rekey does what its turn says.                                        *)
LEMMA RekeySteady ==
    ASSUME CloneInv, NEW k \in Clone, NEW r, NEW f, Applied(k, r, f), seen' = seen,
           crossed' = crossed, seen[k] # {}
    PROVE  /\ Steady(k)'
           /\ \E c \in Beaten(seen[k]) : One(f).uid = c[1] /\ r.to = LastKey(seen[k]) + Turn(seen[k], c)
<1>1. /\ Sound /\ tree \in [Clone -> GitTrees] /\ plan \in [Clone -> Seq(Rekeys)]
      /\ plan[k] # <<>> /\ r = plan[k][1] /\ r.path \in Places /\ f = tree[k].issues[r.path]
      /\ plan' = [plan EXCEPT ![k] = Tail(plan[k])] /\ r \in Rekeys /\ f \in FileContents /\ f # None
  BY DEF CloneInv, Housed, Branches, Tables, Applied
<1>2. PICK S : S = seen[k]
  OBVIOUS
<1>3. Tags(S) /\ SteadyAt(k, S, tree[k].issues, plan[k], crossed)
  BY <1>2, SeenAreTags, SteadyNow
<1>4. PICK n \in Nat : n = Cardinality(Beaten(S))
  BY <1>3, PairsTakeTurns
<1>5. PICK todo \in Seq(Rekeys) : todo = plan[k]
  BY <1>1
<1>6. PICK i \in 0..n : /\ Pairs(tree[k].issues) = After(S, i)
                        /\ Len(todo) = n - i
                        /\ \A j \in 1..Len(todo) : \E c \in Beaten(S) :
                              /\ Turn(S, c) = i + j /\ todo[j].uid = c[1]
                              /\ todo[j].to = LastKey(S) + i + j
  BY <1>1, <1>3, <1>4, <1>5 DEF SteadyAt
<1>7. 1 \in 1..Len(todo) /\ Len(todo) \in Nat
  BY <1>1, <1>5, EmptySeq, LenProperties
<1>8. PICK M \in Nat : M = LastKey(S)
  BY <1>3, LastKeyIsLast
<1>9. PICK c \in Beaten(S) : Turn(S, c) = i + 1 /\ r.uid = c[1] /\ r.to = M + i + 1
  BY <1>1, <1>5, <1>6, <1>7, <1>8
<1>10. k \notin crossed
  BY <1>3 DEF SteadyAt
<1>11. /\ f \in IssueFiles /\ f.key = r.from /\ f.uid = r.uid /\ Rewritten(k, r, f)
       /\ Patched(f, r) = Renamed(f, r)
       /\ ShownIn(tree'[k].issues) = ShownIn(tree[k].issues) /\ r.path \in ShownIn(tree[k].issues)
  BY <1>10, RekeyFits
<1>12. /\ tree'[k].issues[r.path] = Renamed(f, r)
       /\ \A q \in Places : q # r.path => tree'[k].issues[q] = tree[k].issues[q]
  BY <1>11 DEF Rewritten, Placed
<1>13. PICK V : V = ShownIn(tree[k].issues)
  OBVIOUS
<1>14. \A p \in V : p \in Places
  BY <1>13 DEF ShownIn
<1>15. PICK old : old = [p \in V |-> <<tree[k].issues[p].uid, tree[k].issues[p].key>>]
  OBVIOUS
<1>16. PICK new : new = [p \in V |-> <<tree'[k].issues[p].uid, tree'[k].issues[p].key>>]
  OBVIOUS
<1>17. Pairs(tree[k].issues) = {old[p] : p \in V} /\ Pairs(tree'[k].issues) = {new[p] : p \in V}
  <2>1. Pairs(tree[k].issues) = {old[p] : p \in V}
    BY <1>13, <1>15 DEF Pairs
  <2>2. Pairs(tree'[k].issues) = {new[p] : p \in V}
    BY <1>11, <1>13, <1>16 DEF Pairs
  <2> QED BY <2>1, <2>2
<1>18. \A p \in V : new[p] = IF p = r.path THEN <<c[1], M + i + 1>> ELSE old[p]
  <2>1. Renamed(f, r).uid = c[1] /\ Renamed(f, r).key = M + i + 1
    BY <1>9, <1>11 DEF Renamed
  <2> QED BY <1>12, <1>14, <1>15, <1>16, <2>1
<1>19. old[r.path][1] = c[1] /\ r.path \in V
  BY <1>1, <1>9, <1>11, <1>13, <1>15
<1>20. ASSUME NEW p \in V, old[p][1] = c[1]
       PROVE  p = r.path
  <2>1. PICK s \in GitTrees : s = tree[k]
    BY <1>1
  <2>2. Alone(s)
    BY <2>1 DEF CloneInv, Housed, NoTwins, Stores
  <2>3. s.issues[p].uid = s.issues[r.path].uid
    BY <1>1, <1>9, <1>11, <1>15, <1>20, <2>1
  <2>4. s.issues[p].uid \in Solo(s.issues[p]) /\ s.issues[r.path].uid \in Solo(s.issues[r.path])
    BY <1>1, <1>13, <1>19, <2>1, ShownAreFiles
  <2> QED BY <1>14, <1>19, <2>2, <2>3, <2>4 DEF Alone
<1>21. PICK was : was = [d \in S |-> IF d \in Beaten(S) /\ Turn(S, d) <= i
                                     THEN <<d[1], M + Turn(S, d)>> ELSE d]
  OBVIOUS
<1>22. After(S, i) = {was[d] : d \in S}
  BY <1>8, <1>21 DEF After
<1>23. PICK is : is = [d \in S |-> IF d \in Beaten(S) /\ Turn(S, d) <= i + 1
                                   THEN <<d[1], M + Turn(S, d)>> ELSE d]
  OBVIOUS
<1>24. After(S, i + 1) = {is[d] : d \in S}
  BY <1>8, <1>23 DEF After
<1>25. c \in S /\ \A d \in Beaten(S) : Turn(S, d) \in Nat /\ (Turn(S, d) = Turn(S, c) => d = c)
  <2>1. \A d \in Beaten(S) : Turn(S, d) \in 1..n
    BY <1>3, <1>4, PairsTakeTurns
  <2>2. \A d \in Beaten(S) : Turn(S, d) = Turn(S, c) => d = c
    BY <1>3, PairsTakeTurns
  <2>3. Beaten(S) \subseteq S
    BY DEF Beaten
  <2> QED BY <2>1, <2>2, <2>3
<1>26. ASSUME NEW d \in S
       PROVE  is[d] = (IF d = c THEN <<c[1], M + i + 1>> ELSE was[d]) /\ was[d][1] = d[1]
  <2>1. was[d][1] = d[1]
    BY <1>21
  <2>2. CASE d = c
    <3>1. is[c] = <<c[1], M + Turn(S, c)>>
      BY <1>9, <1>23, <1>25
    <3>2. M + Turn(S, c) = M + i + 1
      BY <1>9
    <3> QED BY <2>1, <2>2, <3>1, <3>2
  <2>3. CASE d # c
    <3>1. d \in Beaten(S) => Turn(S, d) # i + 1 /\ Turn(S, d) \in Nat
      BY <1>9, <1>25, <2>3
    <3>2. (d \in Beaten(S) /\ Turn(S, d) <= i) <=> (d \in Beaten(S) /\ Turn(S, d) <= i + 1)
      BY <3>1
    <3> QED BY <1>21, <1>23, <2>1, <2>3, <3>2
  <2> QED BY <2>2, <2>3
<1>27. ASSUME NEW p \in V
       PROVE  new[p] \in After(S, i + 1)
  <2>1. old[p] \in After(S, i)
    BY <1>6, <1>17
  <2>2. PICK d \in S : old[p] = was[d]
    BY <1>22, <2>1
  <2>3. p = r.path <=> d = c
    BY <1>3, <1>19, <1>20, <1>25, <1>26, <2>2 DEF Tags
  <2>4. new[p] = is[d]
    BY <1>18, <1>26, <2>2, <2>3
  <2> QED BY <1>24, <2>4
<1>28. ASSUME NEW d \in S
       PROVE  is[d] \in Pairs(tree'[k].issues)
  <2>1. was[d] \in Pairs(tree[k].issues)
    BY <1>6, <1>22
  <2>2. PICK p \in V : old[p] = was[d]
    BY <1>17, <2>1
  <2>3. p = r.path <=> d = c
    BY <1>3, <1>19, <1>20, <1>25, <1>26, <2>2 DEF Tags
  <2>4. new[p] = is[d]
    BY <1>18, <1>26, <2>2, <2>3
  <2> QED BY <1>17, <2>4
<1>29. Pairs(tree'[k].issues) = After(S, i + 1)
  BY <1>17, <1>24, <1>27, <1>28
<1>30. PICK rest \in Seq(Rekeys) : rest = Tail(todo)
  BY <1>1, <1>5, HeadTailProperties
<1>31. plan'[k] = rest /\ Len(rest) = n - (i + 1) /\ i + 1 \in 0..n
       /\ \A j \in 1..Len(rest) : j + 1 \in 1..Len(todo) /\ rest[j] = todo[j + 1]
  <2>1. plan'[k] = rest
    BY <1>1, <1>5, <1>30
  <2>2. Len(rest) = Len(todo) - 1 /\ \A j \in 1..(Len(todo) - 1) : rest[j] = todo[j + 1]
    BY <1>1, <1>5, <1>30, HeadTailProperties
  <2>3. Len(rest) = n - (i + 1) /\ i + 1 \in 0..n
    BY <1>6, <1>7, <2>2
  <2>4. ASSUME NEW j \in 1..Len(rest)
        PROVE  j + 1 \in 1..Len(todo) /\ rest[j] = todo[j + 1]
    <3>1. j \in 1..(Len(todo) - 1) /\ j + 1 \in 1..Len(todo)
      BY <1>7, <2>2
    <3> QED BY <2>2, <3>1
  <2> QED BY <2>1, <2>3, <2>4
<1>32. ASSUME NEW j \in 1..Len(rest)
       PROVE  \E d \in Beaten(S) : /\ Turn(S, d) = i + 1 + j /\ rest[j].uid = d[1]
                                   /\ rest[j].to = M + (i + 1) + j
  <2>1. PICK l \in 1..Len(todo) : l = j + 1 /\ rest[j] = todo[l]
    BY <1>31
  <2>2. PICK d \in Beaten(S) : Turn(S, d) = i + l /\ todo[l].uid = d[1] /\ todo[l].to = M + i + l
    BY <1>6, <1>8
  <2> QED BY <2>1, <2>2
<1>33. SteadyAt(k, S, tree'[k].issues, plan'[k], crossed')
  <2>1. \A a, b \in S : a[1] = b[1] => a = b
    BY <1>3 DEF Tags
  <2> QED BY <1>4, <1>8, <1>10, <1>29, <1>31, <1>32, <2>1 DEF SteadyAt
<1>34. One(f) = f
  BY <1>1, <1>11, PatchRenames
<1>35. One(f).uid = c[1] /\ r.to = M + Turn(S, c)
  BY <1>9, <1>11, <1>34
<1> QED BY <1>2, <1>8, <1>33, <1>35, SteadyMeans
LEMMA SteadyStays ==
    ASSUME CloneInv, NEW j \in Clone, tree'[j].issues = tree[j].issues, plan'[j] = plan[j],
           seen'[j] = seen[j], j \in crossed' <=> j \in crossed
    PROVE  Steady(j)'
<1>1. ASSUME seen'[j] # {}
      PROVE  SteadyAt(j, seen'[j], tree'[j].issues, plan'[j], crossed')
  <2>1. SteadyAt(j, seen[j], tree[j].issues, plan[j], crossed)
    BY <1>1, SteadyNow
  <2> QED BY <2>1 DEF SteadyAt
<1> QED BY <1>1, SteadyMeans

LEMMA SteadyKept ==
    ASSUME CloneInv, NEW k \in Clone, Serve(k) \/ Git(k), NEW j \in Clone
    PROVE  Steady(j)'
<1> USE DEF files, tables, keyHistory, noteHistory, history
<1>1. CASE j # k
  <2>1. /\ tree'[j] = tree[j] /\ plan'[j] = plan[j] /\ seen'[j] = seen[j]
        /\ (j \in crossed' <=> j \in crossed)
    BY <1>1, OthersAreLeft DEF Others
  <2> QED BY <2>1, SteadyStays
<1>2. ASSUME Changed(k)
      PROVE  Steady(k)'
  <2>1. seen'[k] = {}
    BY <1>2 DEF Changed, CloneInv, Tables
  <2> QED BY <2>1, SteadyMeans
<1>3. Steady(k)'
  <2>1. CASE createIssue(k) \/ pull(k) \/ resolve(k)
    BY <1>2, <2>1 DEF createIssue, pull, resolve
  <2>2. CASE reconcileFull(k)
    BY <2>2, ReconcileSteady
  <2>3. CASE applyRekey(k)
    <3>1. seen' = seen /\ crossed' = crossed
      BY <2>3 DEF applyRekey
    <3>2. CASE seen[k] = {}
      BY <3>1, <3>2, SteadyMeans
    <3>3. CASE seen[k] # {}
      BY <2>3, <3>1, <3>3, RekeyApplies, RekeySteady
    <3> QED BY <3>2, <3>3
  <2>4. CASE Crash(k)
    <3>1. tree' = tree /\ seen' = seen /\ crossed' = crossed /\ plan' = [plan EXCEPT ![k] = <<>>]
          /\ plan \in [Clone -> Seq(Rekeys)]
      BY <2>4 DEF Crash, CloneInv, Tables
    <3>2. plan'[k] = <<>>
      BY <3>1
    <3>3. ASSUME seen'[k] # {}
          PROVE  SteadyAt(k, seen'[k], tree'[k].issues, plan'[k], crossed')
      <4>1. SteadyAt(k, seen[k], tree[k].issues, plan[k], crossed)
        BY <3>1, <3>3, SteadyNow
      <4> QED BY <3>1, <3>2, <4>1, EmptySeq DEF SteadyAt
    <3> QED BY <3>3, SteadyMeans
  <2>5. CASE writeOp(k)
    <3>1. tree'[k].issues = tree[k].issues
      BY <2>5, OpIsWritten DEF LogWritten
    <3> QED BY <2>5, <3>1, SteadyStays DEF writeOp
  <2>6. CASE \E c \in NoteIds, n \in Keys : addComment(k, c, n)
    <3>1. tree'[k].issues = tree[k].issues
      BY <2>6, CommentIsWritten DEF BodyWritten
    <3> QED BY <2>6, <3>1, SteadyStays DEF addComment
  <2>7. CASE \E c \in NoteIds : Touch(k, c)
    <3>1. tree'[k].issues = tree[k].issues
      BY <2>7, TouchIsWritten DEF BodyWritten
    <3> QED BY <2>7, <3>1, SteadyStays DEF Touch
  <2>8. CASE (\E c \in NoteIds, op \in Ops : appendOp(k, c, op)) \/ push(k)
    BY <2>8, SteadyStays DEF appendOp, push
  <2> QED BY <2>1, <2>2, <2>3, <2>4, <2>5, <2>6, <2>7, <2>8 DEF Serve, Git
<1> QED BY <1>1, <1>3

(* The only moves are those that applyRekey makes.                         *)
MovedBy(k, r, f) == [uid |-> One(f).uid, from |-> r.from, to |-> r.to, of |-> seen[k]]

LEMMA WhoMoves ==
    ASSUME CloneInv, NEW k \in Clone, Serve(k) \/ Git(k)
    PROVE  \/ moves' = moves
           \/ \E r, f : /\ Applied(k, r, f) /\ Rewritten(k, r, f) /\ seen' = seen
                        /\ crossed' = crossed /\ moves' = moves \cup {MovedBy(k, r, f)}
<1> USE DEF files, tables, keyHistory, noteHistory, history
<1>1. CASE applyRekey(k)
  <2>1. PICK r, f : Applied(k, r, f)
    BY <1>1, RekeyApplies
  <2>2. seen' = seen /\ crossed' = crossed
    BY <1>1 DEF applyRekey
  <2>3. CASE LeftAlone
    BY <2>3 DEF LeftAlone
  <2>4. CASE Rewritten(k, r, f)
    BY <2>1, <2>2, <2>4 DEF Rewritten, MovedBy
  <2> QED BY <2>1, <2>3, <2>4 DEF Applied
<1>2. CASE ~applyRekey(k)
  BY <1>2 DEF Serve, Git, createIssue, reconcileFull, Crash, writeOp, addComment,
              appendOp, push, pull, resolve, Touch
<1> QED BY <1>1, <1>2

DestinedAt(m) ==
    m.of # {} =>
        /\ \A c, d \in m.of : c[1] = d[1] => c = d
        /\ \E c \in Beaten(m.of) : m.uid = c[1] /\ m.to = LastKey(m.of) + Turn(m.of, c)

LEMMA DestinedKept ==
    ASSUME CloneInv, NEW k \in Clone, Serve(k) \/ Git(k)
    PROVE  Destined'
<1>1. \A m \in moves : DestinedAt(m)
  BY DEF CloneInv, Destined, DestinedAt
<1>2. \A m \in moves' : DestinedAt(m)
  <2>1. CASE moves' = moves
    BY <1>1, <2>1
  <2>2. ASSUME NEW r, NEW f, Applied(k, r, f), seen' = seen, crossed' = crossed,
               moves' = moves \cup {MovedBy(k, r, f)}
        PROVE  \A m \in moves' : DestinedAt(m)
    <3>1. PICK m : m = MovedBy(k, r, f)
      OBVIOUS
    <3>2. m.uid = One(f).uid /\ m.to = r.to /\ m.of = seen[k]
      BY <3>1 DEF MovedBy
    <3>3. ASSUME seen[k] # {}
          PROVE  DestinedAt(m)
      <4>1. \E c \in Beaten(seen[k]) : One(f).uid = c[1] /\ r.to = LastKey(seen[k]) + Turn(seen[k], c)
        BY <2>2, <3>3, RekeySteady
      <4>2. \A c, d \in seen[k] : c[1] = d[1] => c = d
        BY <3>3, SteadyNow DEF SteadyAt
      <4> QED BY <3>2, <4>1, <4>2 DEF DestinedAt
    <3>4. DestinedAt(m)
      BY <3>2, <3>3 DEF DestinedAt
    <3> QED BY <1>1, <2>2, <3>1, <3>4
  <2> QED BY <2>1, <2>2, WhoMoves
<1> QED BY <1>2 DEF Destined, DestinedAt

LEMMA CloneInvKept ==
    ASSUME CloneInv, [Next]_vars
    PROVE  CloneInv'
<1>1. ASSUME NEW k \in Clone, Serve(k) \/ Git(k)
      PROVE  CloneInv'
  <2>1. Housed' /\ Numbered'
    BY <1>1, HousedKept
  <2>2. Tables'
    BY <1>1, TablesKept
  <2>3. Remembering'
    BY <1>1, RememberingKept
  <2>4. Planned'
    BY <1>1, PlannedKept
  <2>5. Logged'
    BY <1>1, LoggedKept
  <2>6. \A j \in Clone : Steady(j)'
    BY <1>1, SteadyKept
  <2>7. Destined'
    BY <1>1, DestinedKept
  <2> QED BY <2>1, <2>2, <2>3, <2>4, <2>5, <2>6, <2>7 DEF CloneInv
<1>2. CASE UNCHANGED vars
  <2>1. /\ tree' = tree /\ origin' = origin /\ base' = base /\ rows' = rows /\ plan' = plan
        /\ writes' = writes /\ due' = due /\ crossed' = crossed /\ had' = had
        /\ muddled' = muddled /\ seen' = seen /\ moves' = moves /\ acked' = acked
        /\ raced' = raced /\ spent' = spent
    BY <1>2 DEF vars, files, tables, keyHistory, noteHistory, history
  <2>2. Housed'
    BY <2>1, FilesStay DEF CloneInv
  <2>3. Tables'
    BY <2>1 DEF CloneInv, Tables
  <2>4. Numbered'
    <3>1. Inhabitants(origin) \subseteq Met
      BY DEF CloneInv, Numbered
    <3>2. Inhabitants(origin') = Inhabitants(origin)
      BY <2>1
    <3> QED BY <2>1, <3>1, <3>2, NumberedStays
  <2>5. Remembering'
    BY <2>1 DEF CloneInv, Remembering, Once, Of
  <2>6. Planned'
    BY <2>1 DEF CloneInv, Planned
  <2>7. Logged'
    <3>1. /\ \A c \in NoteIds \ raced, j \in Clone :
               LoggedAt(tree[j], base[j], origin, writes[j], c)
          /\ \A a \in acked : AckedAt(tree, raced, a)
      BY LoggedNow
    <3>2. \A c \in NoteIds \ raced', j \in Clone :
              LoggedAt(tree'[j], base'[j], origin', writes'[j], c)
      BY <2>1, <3>1
    <3>3. \A a \in acked' : AckedAt(tree', raced', a)
      BY <2>1, <3>1
    <3> QED BY <3>2, <3>3, LoggedMeans
  <2>8. \A j \in Clone : Steady(j)'
    BY <2>1, SteadyStays
  <2>9. Destined'
    BY <2>1 DEF CloneInv, Destined
  <2> QED BY <2>2, <2>3, <2>4, <2>5, <2>6, <2>7, <2>8, <2>9 DEF CloneInv
<1> QED BY <1>1, <1>2 DEF Next
-----------------------------------------------------------------------------
(* A board a behaviour may start from.                                     *)

Started(b) ==
    /\ b \in Boards /\ SoundBoard(b)
    /\ tree = b.tree /\ origin = b.origin /\ base = [k \in Clone |-> b.origin]
    /\ rows = [k \in Clone |-> Read(tree[k])] /\ spent = b.may
    /\ had = [k \in Clone |-> [u \in Uids |-> HadIn(tree[k], u)]]
    /\ plan = [k \in Clone |-> <<>>] /\ writes = [k \in Clone |-> <<>>]
    /\ due = Clone /\ crossed = {} /\ muddled = {} /\ moves = {}
    /\ seen = [k \in Clone |-> {}] /\ acked = {} /\ raced = {}

LEMMA SomeBoardStarts ==
    ASSUME Sound, Init
    PROVE  \E b : Started(b)
<1>1. PICK b \in Boards :
        /\ tree = b.tree /\ origin = b.origin /\ base = [k \in Clone |-> b.origin]
        /\ rows = [k \in Clone |-> Read(tree[k])] /\ spent = b.may
        /\ had = [k \in Clone |-> [u \in Uids |->
                {f.key : f \in {g \in {tree[k].issues[p] : p \in Places} : g # None /\ g.uid = u}}]]
        /\ plan = [k \in Clone |-> <<>>] /\ writes = [k \in Clone |-> <<>>]
        /\ due = Clone /\ crossed = {} /\ muddled = {} /\ moves = {}
        /\ seen = [k \in Clone |-> {}] /\ acked = {} /\ raced = {}
  BY DEF Init
<1>2. SoundBoard(b)
  BY DEF Sound
<1>3. had = [k \in Clone |-> [u \in Uids |-> HadIn(tree[k], u)]]
  BY <1>1 DEF HadIn
<1> QED BY <1>1, <1>2, <1>3 DEF Started

(* What the clones hold is what the branch holds, and issues of their own. *)
LEMMA WhatIsShared ==
    ASSUME Sound, NEW b, Started(b)
    PROVE  /\ tree \in [Clone -> Trees] /\ origin \in Trees
           /\ \A k \in Clone : Singles(tree[k]) /\ base[k] = origin
           /\ \A k \in Clone, p \in Places : origin.issues[p] \in {tree[k].issues[p], None}
           /\ \A j, k \in Clone, p, q \in Places : Of(tree[j], p) \cap Of(tree[k], q) # {} =>
                 p = q /\ (j = k \/ origin.issues[p] # None)
           /\ \A s \in Stores : \E k \in Clone : \A p \in Places : s.issues[p] \in {tree[k].issues[p], None}
           /\ Stores = {tree[k] : k \in Clone} \cup {origin}
<1>1. /\ tree \in [Clone -> Trees] /\ origin \in Trees /\ \A k \in Clone : base[k] = origin
      /\ \A k \in Clone, p \in Places : origin.issues[p] \in {tree[k].issues[p], None}
  BY DEF Started, SoundBoard
<1>2. ASSUME NEW j \in Clone, NEW k \in Clone, NEW p \in Places, NEW q \in Places,
             tree[j].issues[p] # None, tree[k].issues[q] # None,
             tree[j].issues[p].uid = tree[k].issues[q].uid
      PROVE  p = q /\ (j = k \/ origin.issues[p] # None)
  BY <1>2 DEF Started, SoundBoard
<1>3. \A k \in Clone : Singles(tree[k])
  BY <1>1 DEF Singles, Trees
<1>4. ASSUME NEW k \in Clone, NEW p \in Places, NEW u \in Of(tree[k], p)
      PROVE  tree[k].issues[p] # None /\ tree[k].issues[p].uid = u
  BY <1>3, SingleFile DEF Singles, Of
<1>5. ASSUME NEW j \in Clone, NEW k \in Clone, NEW p \in Places, NEW q \in Places,
             Of(tree[j], p) \cap Of(tree[k], q) # {}
      PROVE  p = q /\ (j = k \/ origin.issues[p] # None)
  <2>1. PICK u : u \in Of(tree[j], p) /\ u \in Of(tree[k], q)
    BY <1>5
  <2> QED BY <1>2, <1>4, <2>1
<1>6. Stores = {tree[k] : k \in Clone} \cup {origin}
  <2>1. {base[k] : k \in Clone} = {origin}
    BY <1>1 DEF Sound
  <2> QED BY <2>1 DEF Stores
<1>7. ASSUME NEW s \in Stores
      PROVE  \E k \in Clone : \A p \in Places : s.issues[p] \in {tree[k].issues[p], None}
  <2>1. CASE s = origin
    <3>1. PICK k : k \in Clone
      BY DEF Sound
    <3> QED BY <1>1, <2>1, <3>1
  <2>2. CASE s \in {tree[k] : k \in Clone}
    BY <2>2
  <2> QED BY <1>6, <2>1, <2>2
<1> QED BY <1>1, <1>3, <1>5, <1>6, <1>7

LEMMA NobodyThere ==
    ASSUME Sound, NEW s, NEW p, s.issues[p] = None
    PROVE  Of(s, p) = {} /\ Solo(s.issues[p]) = {}
BY SingleFile DEF Of

LEMMA StartHoused ==
    ASSUME Sound, NEW b, Started(b)
    PROVE  Housed
<1>1. /\ tree \in [Clone -> Trees] /\ origin \in Trees
      /\ \A k \in Clone : Singles(tree[k]) /\ base[k] = origin
      /\ \A k \in Clone, p \in Places : origin.issues[p] \in {tree[k].issues[p], None}
      /\ \A j, k \in Clone, p, q \in Places : Of(tree[j], p) \cap Of(tree[k], q) # {} =>
            p = q /\ (j = k \/ origin.issues[p] # None)
      /\ \A s \in Stores : \E k \in Clone : \A p \in Places : s.issues[p] \in {tree[k].issues[p], None}
  BY WhatIsShared
<1>2. Trees \subseteq GitTrees
  <2>1. IssueFiles \cup {None} \subseteq FileContents
    BY DEF FileContents
  <2> QED BY <2>1 DEF Trees, GitTrees
<1>3. Branches
  <2>1. Settled(origin)
    BY DEF Started, SoundBoard
  <2>2. tree \in [Clone -> GitTrees] /\ origin \in GitTrees /\ base \in [Clone -> GitTrees]
    BY <1>1, <1>2 DEF Started
  <2>3. \A k \in Clone, p \in Places : base[k].issues[p] # None =>
            tree[k].issues[p] # None /\ origin.issues[p] # None
    BY <1>1
  <2> QED BY <1>1, <2>1, <2>2, <2>3 DEF Branches
<1>4. \A s \in Stores : \E k \in Clone : \A p \in Places : Of(s, p) \subseteq Of(tree[k], p)
  <2>1. ASSUME NEW s \in Stores, NEW k \in Clone, NEW p \in Places,
               s.issues[p] \in {tree[k].issues[p], None}
        PROVE  Of(s, p) \subseteq Of(tree[k], p)
    BY <2>1, NobodyThere DEF Of
  <2> QED BY <1>1, <2>1
<1>5. Homed
  <2>1. ASSUME NEW s \in Stores, NEW t \in Stores, NEW p \in Places, NEW q \in Places,
               Of(s, p) \cap Of(t, q) # {}
        PROVE  p[1] = q[1]
    <3>1. PICK j \in Clone : Of(s, p) \subseteq Of(tree[j], p)
      BY <1>4
    <3>2. PICK k \in Clone : Of(t, q) \subseteq Of(tree[k], q)
      BY <1>4
    <3>3. Of(tree[j], p) \cap Of(tree[k], q) # {}
      BY <2>1, <3>1, <3>2
    <3> QED BY <1>1, <3>3
  <2> QED BY <2>1 DEF Homed
<1>6. NoTwins
  <2>1. ASSUME NEW s \in Stores, NEW p \in Places, NEW q \in Places, p # q
        PROVE  Solo(s.issues[p]) \cap Solo(s.issues[q]) = {}
    <3>1. PICK j \in Clone : \A r \in Places : Of(s, r) \subseteq Of(tree[j], r)
      BY <1>4
    <3>2. Solo(s.issues[p]) \subseteq Of(s, p) /\ Solo(s.issues[q]) \subseteq Of(s, q)
      BY DEF Solo, Of
    <3>3. Of(tree[j], p) \cap Of(tree[j], q) = {}
      BY <1>1, <2>1
    <3> QED BY <3>1, <3>2, <3>3
  <2> QED BY <2>1 DEF NoTwins, Alone
<1>7. Travelled
  <2>1. \A k \in Clone, p \in Places : Of(origin, p) \subseteq Of(tree[k], p)
    BY <1>1, NobodyThere DEF Of
  <2>2. \A k \in Clone : Inhabitants(origin) \subseteq Inhabitants(tree[k])
    BY <2>1 DEF Inhabitants
  <2>3. ASSUME NEW j \in Clone, NEW k \in Clone, j # k, NEW u,
               u \in Inhabitants(tree[j]), u \in Inhabitants(tree[k])
        PROVE  u \in Inhabitants(origin)
    <3>1. PICK p \in Places : u \in Of(tree[j], p)
      BY <2>3 DEF Inhabitants
    <3>2. PICK q \in Places : u \in Of(tree[k], q)
      BY <2>3 DEF Inhabitants
    <3>3. origin.issues[p] # None
      BY <1>1, <2>3, <3>1, <3>2
    <3>4. u \in Of(origin, p)
      BY <1>1, <3>1, <3>3 DEF Of
    <3> QED BY <3>4 DEF Inhabitants
  <2> QED BY <1>1, <2>2, <2>3 DEF Travelled
<1> QED BY <1>3, <1>5, <1>6, <1>7 DEF Housed

LEMMA StartHolds ==
    ASSUME Sound, NEW b, Started(b)
    PROVE  CloneInv
<1>1. /\ tree \in [Clone -> Trees] /\ origin \in Trees
      /\ \A k \in Clone : Singles(tree[k]) /\ base[k] = origin
      /\ \A k \in Clone, p \in Places : origin.issues[p] \in {tree[k].issues[p], None}
      /\ \A j, k \in Clone, p, q \in Places : Of(tree[j], p) \cap Of(tree[k], q) # {} =>
            p = q /\ (j = k \/ origin.issues[p] # None)
  BY WhatIsShared
<1>2. Housed
  BY StartHoused
<1>3. /\ plan = [k \in Clone |-> <<>>] /\ writes = [k \in Clone |-> <<>>]
      /\ due = Clone /\ crossed = {} /\ muddled = {} /\ moves = {}
      /\ seen = [k \in Clone |-> {}] /\ acked = {} /\ raced = {}
      /\ rows = [k \in Clone |-> Read(tree[k])]
      /\ had = [k \in Clone |-> [u \in Uids |-> HadIn(tree[k], u)]]
      /\ spent \in [Kinds -> Nat]
  BY DEF Started, SoundBoard
<1>4. \A k \in Clone, u \in Uids : /\ had[k][u] = HadIn(tree[k], u) /\ had[k][u] \subseteq Nat
                                   /\ had[k][u] # {} <=> u \in Inhabitants(tree[k])
  BY <1>1, <1>3, WhatIsHad
<1>5. Tables
  <2>1. ASSUME NEW k \in Clone, NEW p \in Places
        PROVE  rows[k][p] \in ShownRows /\ (rows[k][p].state = "OK" => rows[k][p].file # None)
    <3>1. rows[k][p] = IF tree[k].issues[p] = None THEN [state |-> "none", file |-> None]
                       ELSE [state |-> "OK", file |-> tree[k].issues[p]]
      BY <1>3 DEF Read
    <3>2. tree[k].issues[p] \in IssueFiles \cup {None}
      BY <1>1 DEF Singles
    <3> QED BY <3>1, <3>2 DEF ShownRows
  <2>2. rows \in [Clone -> [Places -> ShownRows]]
    BY <1>3, <2>1 DEF Read
  <2>3. had \in [Clone -> [Uids -> SUBSET Nat]]
    BY <1>3, <1>4
  <2>4. plan \in [Clone -> Seq(Rekeys)] /\ writes \in [Clone -> Seq(OpWrites)]
    BY <1>3, EmptySeq
  <2> QED BY <1>3, <2>1, <2>2, <2>3, <2>4 DEF Tables
<1>6. Numbered
  <2>1. PICK n \in 0..MaxUid : {u \in Uids : \E k \in Clone, p \in Places :
                                    u \in Uid(tree[k].issues[p])} = 1..n
    BY DEF Started, SoundBoard
  <2>2. \A u \in Uids : (\E k \in Clone : had[k][u] # {}) <=>
            \E k \in Clone, p \in Places : u \in Uid(tree[k].issues[p])
    BY <1>4 DEF Inhabitants, Of
  <2>3. Met = 1..n
    BY <2>1, <2>2 DEF Met
  <2>4. Inhabitants(origin) \subseteq Met
    <3>1. PICK k : k \in Clone
      BY DEF Sound
    <3>2. Inhabitants(origin) \subseteq Inhabitants(tree[k])
      BY <1>1, <1>2, <3>1 DEF Housed, Travelled
    <3>3. Inhabitants(tree[k]) \subseteq Uids
      BY <1>2, <3>1, UidsLiveHere DEF Housed, Branches
    <3> QED BY <1>4, <3>1, <3>2, <3>3 DEF Met
  <2> QED BY <1>4, <2>3, <2>4 DEF Numbered
<1>7. ASSUME NEW j \in Clone, NEW k \in Clone, NEW p \in Places, NEW q \in Places,
             NEW f \in Versions(tree[j].issues[p]), NEW g \in Versions(tree[k].issues[q]),
             f.uid = g.uid
      PROVE  p = q /\ f = tree[j].issues[p] /\ g = tree[k].issues[q]
  <2>1. f.uid \in Of(tree[j], p) /\ g.uid \in Of(tree[k], q)
    BY DEF Of, Uid
  <2>2. tree[j].issues[p] \in FileContents /\ tree[k].issues[q] \in FileContents
        /\ tree[j].issues[p] \notin Conflicts /\ tree[k].issues[q] \notin Conflicts
    <3>1. tree[j].issues[p] \in IssueFiles \cup {None} /\ tree[k].issues[q] \in IssueFiles \cup {None}
      BY <1>1 DEF Singles
    <3>2. None \notin Conflicts
      BY DEF Sound, Conflicts
    <3>3. \A h \in IssueFiles : h \in FileContents /\ h \notin Conflicts
      BY VersionsOfFile DEF FileContents
    <3> QED BY <3>1, <3>2, <3>3 DEF FileContents
  <2>3. f = tree[j].issues[p] /\ g = tree[k].issues[q]
    BY <2>2, VersionsOfFile DEF FileContents
  <2> QED BY <1>1, <1>7, <2>1, <2>3
<1>8. Remembering
  <2>1. ASSUME NEW k \in Clone
        PROVE  RemembersSo(tree[k], base[k], origin, had[k], muddled)
    <3>1. Once(tree[k], muddled)
      BY <1>1 DEF Once
    <3>2. ASSUME NEW p \in Places, NEW f \in Versions(origin.issues[p])
          PROVE  \A j \in Clone : f \in Versions(tree[j].issues[p])
      <4>1. origin.issues[p] # None
        BY <3>2 DEF Versions, Readable, Conflict
      <4> QED BY <1>1, <3>2, <4>1
    <3>3. Outgrown(base[k], tree[k], muddled)
      <4>1. ASSUME NEW p \in Places, NEW q \in Places, NEW f \in Versions(origin.issues[p]),
                   NEW g \in Versions(tree[k].issues[q]), f.uid = g.uid
            PROVE  KeysOf(f) \subseteq KeysOf(g)
        BY <1>7, <3>2, <4>1
      <4> QED BY <1>1, <4>1 DEF Outgrown
    <3>4. Outgrown(base[k], origin, muddled)
      <4>1. ASSUME NEW p \in Places, NEW q \in Places, NEW f \in Versions(origin.issues[p]),
                   NEW g \in Versions(origin.issues[q]), f.uid = g.uid
            PROVE  KeysOf(f) \subseteq KeysOf(g)
        BY <1>7, <3>2, <4>1
      <4> QED BY <1>1, <4>1 DEF Outgrown
    <3>5. Remembers(tree[k], had[k], muddled)
      <4>1. ASSUME NEW q \in Places, NEW g \in Versions(tree[k].issues[q]),
                   NEW n \in had[k][g.uid]
            PROVE  n \in KeysOf(g)
        <5>1. g.uid \in Uids
          <6>1. tree[k].issues[q] \in FileContents
            BY <1>2 DEF Housed, Branches, GitTrees
          <6> QED BY <6>1, UidsOfVersions
        <5>2. PICK p \in Places : /\ tree[k].issues[p].uid = g.uid /\ tree[k].issues[p].key = n
                                  /\ tree[k].issues[p] \in Versions(tree[k].issues[p])
          BY <1>1, <1>4, <4>1, <5>1, WhatIsHad
        <5>3. p = q /\ g = tree[k].issues[q]
          BY <1>7, <5>2
        <5> QED BY <5>2, <5>3 DEF KeysOf
      <4> QED BY <4>1 DEF Remembers
    <3> QED BY <3>1, <3>3, <3>4, <3>5 DEF RemembersSo
  <2> QED BY <2>1 DEF RemembersSo, Remembering
<1>9. Planned
  BY <1>3, EmptySeq DEF Planned, PlannedAt
<1>10. Logged
  <2>1. \A k \in Clone : tree[k].logs = origin.logs
    BY DEF Started, SoundBoard
  <2>2. \A k \in Clone, c \in NoteIds : QueuedFor(k, c) = {}
    BY <1>3, EmptySeq DEF QueuedFor
  <2> QED BY <1>1, <1>3, <2>1, <2>2 DEF Logged
<1>11. Destined /\ \A k \in Clone : Steady(k)
  BY <1>3 DEF Destined, Steady
<1> QED BY <1>2, <1>5, <1>6, <1>8, <1>9, <1>10, <1>11 DEF CloneInv
-----------------------------------------------------------------------------
(* What the clones' boards rely on holds in every state (storage/external.ts,
   domain/comment.ts): files stay where their issues are, the plan of a full
   pass fits the files until the board changes, versions of an issue only gain
   keys, and the lines of a log stay where they are.                       *)
THEOREM ClonesHold == Spec => []CloneInv
<1>1. Init => CloneInv
  BY ClonesAssumption, SomeBoardStarts, StartHolds
<1>2. CloneInv /\ [Next]_vars => CloneInv'
  BY CloneInvKept
<1> QED BY <1>1, <1>2, PTL DEF Spec

(* What a clone that is calm shows is what its files hold.                 *)
LEMMA CalmReads ==
    ASSUME CloneInv, NEW k \in Clone, Calm(k)
    PROVE  /\ OKs(k) = ShownIn(tree[k].issues)
           /\ \A p \in OKs(k) : /\ Row(k, p) = tree[k].issues[p]
                                /\ Row(k, p) \in IssueFiles
           /\ k \notin crossed => Fitting(tree[k].issues, <<>>)
<1>1. k \notin due /\ plan[k] = <<>> /\ PlannedAt(k, tree[k].issues, rows[k], plan[k], due, crossed)
  BY DEF Calm, CloneInv, Planned
<1>2. ReadsIn(tree[k].issues, rows[k]) /\ (k \notin crossed => Fitting(tree[k].issues, <<>>))
  BY <1>1 DEF PlannedAt
<1>3. OKs(k) = ShownIn(tree[k].issues)
  <2>1. ASSUME NEW p \in Places
        PROVE  rows[k][p].state = "OK" <=> p \in ShownIn(tree[k].issues)
    <3>1. CASE p \in ShownIn(tree[k].issues)
      <4>1. rows[k][p] = [state |-> "OK", file |-> tree[k].issues[p]]
        BY <1>2, <3>1 DEF ReadsIn
      <4> QED BY <3>1, <4>1
    <3>2. CASE p \notin ShownIn(tree[k].issues)
      <4>1. rows[k][p].state # "OK"
        BY <1>2, <3>2 DEF ReadsIn
      <4> QED BY <3>2, <4>1
    <3> QED BY <3>1, <3>2
  <2>2. ShownIn(tree[k].issues) \subseteq Places
    BY DEF ShownIn
  <2> QED BY <2>1, <2>2 DEF OKs
<1>4. ASSUME NEW p \in ShownIn(tree[k].issues)
      PROVE  Row(k, p) = tree[k].issues[p] /\ Row(k, p) \in IssueFiles
  <2>1. p \in Places /\ Row(k, p) = tree[k].issues[p]
    <3>1. p \in Places
      BY <1>4 DEF ShownIn
    <3>2. rows[k][p] = [state |-> "OK", file |-> tree[k].issues[p]]
      BY <1>2, <1>4, <3>1 DEF ReadsIn
    <3> QED BY <3>1, <3>2 DEF Row
  <2>2. Sound /\ tree[k].issues[p] \in FileContents /\ Readable(tree[k].issues[p])
    BY <2>1 DEF CloneInv, Housed, Branches, GitTrees, ShownIn
  <2> QED BY <2>1, <2>2, VersionsOfFile
<1> QED BY <1>2, <1>3, <1>4

LEMMA CalmKeysDiffer ==
    ASSUME CloneInv, NEW k \in Clone, Calm(k), k \notin crossed,
           NEW p \in OKs(k), NEW q \in OKs(k), p # q
    PROVE  Row(k, p).key # Row(k, q).key
<1>1. Fitting(tree[k].issues, <<>>)
  BY CalmReads
<1>2. p \in ShownIn(tree[k].issues) /\ q \in ShownIn(tree[k].issues)
      /\ Row(k, p) = tree[k].issues[p] /\ Row(k, q) = tree[k].issues[q]
  BY CalmReads
<1>3. 1..Len(<<>>) = {}
  OBVIOUS
<1>4. tree[k].issues[p].key # tree[k].issues[q].key
  BY <1>1, <1>2, <1>3 DEF Fitting
<1> QED BY <1>2, <1>4

LEMMA CalmKeysAreFound ==
    ASSUME CloneInv, NEW k \in Clone, Calm(k), NEW u \in Held(k) \ muddled, NEW n \in had[k][u]
    PROVE  findIssue(k, n) # {}
<1>1. PICK p \in OKs(k) : u = Row(k, p).uid
  BY DEF Held
<1>2. p \in Places /\ Row(k, p) = tree[k].issues[p] /\ tree[k].issues[p] \in IssueFiles
  BY <1>1, CalmReads DEF OKs
<1>3. Versions(tree[k].issues[p]) = {tree[k].issues[p]}
  BY <1>2, VersionsOfFile DEF FileContents, CloneInv, Housed, Branches
<1>4. Distinct(tree[k].issues[p])
  BY <1>3 DEF Distinct
<1>5. had[k][u] \subseteq KeysOf(tree[k].issues[p])
  BY <1>1, <1>2, <1>3, <1>4 DEF CloneInv, Remembering, Remembers
<1>6. n = Row(k, p).key \/ n \in Row(k, p).former
  BY <1>2, <1>5 DEF KeysOf
<1> QED BY <1>1, <1>6 DEF findIssue

(* When a full pass has been made and its rekeys are written
   (storage/external.ts reconcileFull, planRekeys, applyRekey), no two issues
   a clone shows have one key, unless the board changed while a plan was being
   applied; and a key that an issue has had still finds an issue.          *)
THEOREM KeysHaveSettled == Spec => []KeysSettle
<1>1. ASSUME CloneInv
      PROVE  KeysSettle
  BY <1>1, CalmKeysDiffer, CalmKeysAreFound DEF KeysSettle
<1> QED BY <1>1, ClonesHold, PTL

LEMMA LaterTurns ==
    ASSUME CloneInv, NEW m \in moves, NEW n \in moves, m.uid = n.uid, m.of = n.of, m.of # {}
    PROVE  m.to = n.to
<1>1. DestinedAt(m) /\ DestinedAt(n)
  BY DEF CloneInv, Destined, DestinedAt
<1>2. PICK c \in Beaten(m.of) : m.uid = c[1] /\ m.to = LastKey(m.of) + Turn(m.of, c)
  BY <1>1 DEF DestinedAt
<1>3. PICK d \in Beaten(m.of) : n.uid = d[1] /\ n.to = LastKey(m.of) + Turn(m.of, d)
  BY <1>1 DEF DestinedAt
<1>4. c \in m.of /\ d \in m.of /\ c[1] = d[1]
  BY <1>2, <1>3 DEF Beaten
<1>5. c = d
  BY <1>1, <1>4 DEF DestinedAt
<1> QED BY <1>2, <1>3, <1>5

(* From the same issues and keys every clone gives an issue the same new key
   (storage/external.ts planRekeys): also a plan that a crash cut short and
   the next start makes again.                                             *)
THEOREM ClonesAgreeOnKeys == Spec => []SameIssuesSameKeys
<1>1. ASSUME CloneInv
      PROVE  SameIssuesSameKeys
  BY <1>1, LaterTurns DEF SameIssuesSameKeys
<1> QED BY <1>1, ClonesHold, PTL

(* An op that a clone acknowledged (domain/comment.ts appendOp) stays in its
   log through pulls, conflicts and what a person makes of them, unless the
   log changed under an op in flight.                                      *)
THEOREM AcknowledgedOpsStay == Spec => []OpsAreKept
<1>1. ASSUME CloneInv
      PROVE  OpsAreKept
  <2>1. ASSUME NEW a \in acked, a.note \notin raced
        PROVE  a.id \in Ids(tree[a.at].logs[a.note])
    BY <1>1, <2>1 DEF CloneInv, Logged
  <2> QED BY <2>1 DEF OpsAreKept, Ids
<1> QED BY <1>1, ClonesHold, PTL

LEMMA LoserHasAnElder ==
    ASSUME CloneInv, NEW k \in Clone, NEW r, NEW f, Applied(k, r, f), k \notin crossed
    PROVE  \E q \in Places : LET e == tree[k].issues[q] IN
              Readable(e) /\ e.uid < f.uid /\ r.from \in {e.key} \cup e.former
<1>1. Fitting(tree[k].issues, plan[k]) /\ plan[k] \in Seq(Rekeys) /\ plan[k] # <<>> /\ r = plan[k][1]
      /\ f = tree[k].issues[r.path]
  BY DEF CloneInv, Planned, PlannedAt, Tables, Applied
<1>2. PICK todo \in Seq(Rekeys) : todo = plan[k]
  BY <1>1
<1>3. 1 \in 1..Len(todo)
  BY <1>1, <1>2, EmptySeq, LenProperties
<1>4. f.uid = r.uid /\ \E q \in ShownIn(tree[k].issues) :
          tree[k].issues[q].uid < r.uid /\ r.from \in KeysOf(tree[k].issues[q])
  BY <1>1, <1>2, <1>3 DEF Fitting, FitsAt
<1> QED BY <1>4 DEF ShownIn, KeysOf

LEMMA EldersKeep ==
    ASSUME CloneInv, NEW k \in Clone, Serve(k) \/ Git(k), NEW m \in moves' \ moves
    PROVE  m.uid \in muddled' \/ \E f \in {origin.issues[p] : p \in Places}
                    \cup UNION {{tree[j].issues[p] : p \in Places} : j \in Clone} :
               Readable(f) /\ f.uid < m.uid /\ m.from \in {f.key} \cup f.former
<1>1. PICK r, f : /\ Applied(k, r, f) /\ Rewritten(k, r, f) /\ crossed' = crossed
                  /\ moves' = moves \cup {MovedBy(k, r, f)}
  BY WhoMoves
<1>2. m.uid = One(f).uid /\ m.from = r.from
  BY <1>1 DEF MovedBy
<1>3. CASE k \in crossed
  BY <1>1, <1>2, <1>3 DEF Rewritten
<1>4. CASE k \notin crossed
  <2>1. f \in IssueFiles
    BY <1>1, <1>4, RekeyFits
  <2>2. One(f) = f
    BY <2>1, VersionsOfFile DEF One, FileContents, CloneInv, Housed, Branches
  <2>3. PICK q \in Places : /\ Readable(tree[k].issues[q]) /\ tree[k].issues[q].uid < f.uid
                            /\ r.from \in {tree[k].issues[q].key} \cup tree[k].issues[q].former
    BY <1>1, <1>4, LoserHasAnElder
  <2>4. tree[k].issues[q] \in UNION {{tree[j].issues[p] : p \in Places} : j \in Clone}
    OBVIOUS
  <2> QED BY <1>2, <2>2, <2>3, <2>4
<1> QED BY <1>3, <1>4

(* An issue loses its key only to one that was made before it and has had the
   key (storage/external.ts planRekeys and applyRekey), unless the board has
   changed since the plan.                                                 *)
THEOREM EldersKeepTheirKeys == Spec => EarliestKeeps
<1>1. ASSUME CloneInv, [Next]_vars
      PROVE  [\A m \in moves' \ moves : m.uid \in muddled' \/ \E f \in {origin.issues[p] : p \in Places}
                    \cup UNION {{tree[k].issues[p] : p \in Places} : k \in Clone} :
               Readable(f) /\ f.uid < m.uid /\ m.from \in {f.key} \cup f.former]_vars
  BY <1>1, EldersKeep DEF Next
<1> QED BY <1>1, ClonesHold, PTL DEF EarliestKeeps, Spec
=============================================================================
