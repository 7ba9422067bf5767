--------------------------- MODULE BootstrapProofs ---------------------------
(***************************************************************************)
(* Theorems about Bootstrap, for every number of processes and worktrees   *)
(* and every repository to start from: the data branch begins one board,   *)
(* no command takes away what it has not made, and doctor is right.        *)
(***************************************************************************)
EXTENDS Bootstrap, FiniteSetTheorems, SequenceTheorems, TLAPS

-----------------------------------------------------------------------------
(* The steps that are left of a plan.  A plan that makes a board and one   *)
(* that takes the board that is there differ in the place of the rule for  *)
(* the ignored files: it is committed with the scaffold, or added to the   *)
(* board that has been attached.                                           *)

StepNames == {"addTemp", "orphan", "scaffold", "dataIgnore", "commit", "attach", "identity",
              "codeIgnore", "push", "verify", "track", "fastForward"}
Makes == {"addTemp", "orphan", "scaffold", "dataIgnore", "commit", "attach", "identity",
          "codeIgnore", "push"}
Takes == {"verify", "track", "fastForward", "attach", "dataIgnore", "identity", "codeIgnore", "push"}

MakeRank(x) ==
    CASE x = "addTemp" -> 1 [] x = "orphan" -> 2 [] x = "scaffold" -> 3 [] x = "dataIgnore" -> 4
      [] x = "commit" -> 5 [] x = "attach" -> 6 [] x = "identity" -> 7 [] x = "codeIgnore" -> 8
      [] OTHER -> 9
TakeRank(x) ==
    CASE x = "verify" -> 1 [] x = "track" -> 2 [] x = "fastForward" -> 3 [] x = "attach" -> 4
      [] x = "dataIgnore" -> 5 [] x = "identity" -> 6 [] x = "codeIgnore" -> 7 [] OTHER -> 8

Left(todo) == {todo[i] : i \in DOMAIN todo}
Making(todo) ==
    /\ Left(todo) \subseteq Makes
    /\ \A i, j \in DOMAIN todo : i < j => MakeRank(todo[i]) < MakeRank(todo[j])
Taking(todo) ==
    /\ Left(todo) \subseteq Takes
    /\ \A i, j \in DOMAIN todo : i < j => TakeRank(todo[i]) < TakeRank(todo[j])

Undos == {<<>>, <<"removeTemp">>, <<"detachBoard", "removeTemp">>,
          <<"deleteBranch", "detachBoard", "removeTemp">>,
          <<"detachBoard">>, <<"deleteBranch", "detachBoard">>}

-----------------------------------------------------------------------------
(* The parts of the inductive invariant.                                   *)

Commands == [do : {"idle", "fetch", "plan", "run", "undo"}, what : {"init", "push", "repair", None},
             project : Projects, todo : Seq(StepNames), undo : Undos, temp : Temps \cup {None},
             madeBranch : BOOLEAN, madeTree : BOOLEAN]

GitTypes ==
    /\ branch \in Histories \cup {None} /\ tracking \in Histories \cup {None}
    /\ remote \in Histories \cup {None}
    /\ trees \in [Paths -> Worktrees \cup {None}]
    /\ occupied \in BOOLEAN /\ codeIgnore \in Rules /\ linked \in {"there", "away", None}
    /\ count \in Nat
TypeOK == GitTypes /\ lock \in Procs \cup {None} /\ run \in [Procs -> Commands]

(* The lock of the repository keeps the commands apart.                    *)
Exclusive ==
    \A p \in Procs : /\ run[p].do = "idle" => run[p] = Idle
                     /\ run[p].do # "idle" => lock = p

(* The worktrees, whoever has made them.  Only a board's directory can be  *)
(* away, and its files with it; a worktree put inside another directory is *)
(* on the data branch; a worktree that is on the branch is the only one,   *)
(* but for temporary ones that have not come so far; a board has a branch. *)
On(x, what) == trees[x] # None /\ trees[x].on = what
Whole ==
    /\ \A t \in Temps : trees[t] # None => trees[t].dir
    /\ \A x \in Paths : trees[x] # None /\ ~trees[x].dir
           => trees[x].on = "data" /\ ~trees[x].files
    /\ trees["inside"] # None => On("inside", "data")
    /\ \A x, y \in Paths : x # y /\ On(x, "data") /\ trees[y] # None
           => y \in Temps /\ On(y, "detached")
    /\ \A x \in {"board", "inside"} : trees[x] # None => branch # None

(* A command that is on its way.  It has a worktree of its own, or will    *)
(* have one, until it attaches it: then there is no board, and until its   *)
(* commit no branch.                                                       *)
Scratch(r) == "addTemp" \in Left(r.todo) \/ r.temp # None
Early == {"orphan", "scaffold", "commit"}
Begins(r) ==
    LET left == Left(r.todo)
    IN /\ IF Scratch(r) THEN Making(r.todo) /\ "attach" \in left
          ELSE Taking(r.todo) /\ ("attach" \in left => "dataIgnore" \in left)
       /\ "attach" \in left => "identity" \in left
       /\ Scratch(r) =>
            /\ trees["board"] = None /\ trees["inside"] = None
            /\ branch = None <=> "commit" \in left
            /\ "addTemp" \in left => Early \subseteq left /\ r.temp = None
       /\ "orphan" \in left => ~CheckedOut
       /\ r.temp # None =>
            /\ trees[r.temp] # None
            /\ "orphan" \notin left => trees[r.temp].on = "data"
            /\ "scaffold" \notin left => trees[r.temp].files /\ Covers(trees[r.temp].ignore)

(* What the steps that are no longer left have brought about.              *)
Reaches(r) ==
    LET left == Left(r.todo)
    IN /\ "codeIgnore" \notin left => Covers(codeIgnore)
       /\ "attach" \notin left => occupied \/ (On("board", "data") /\ trees["board"].dir)
       /\ "attach" \notin left /\ "board" \in made => occupied \/ trees["board"].files
       /\ {"attach", "dataIgnore"} \cap left = {} => occupied \/ Covers(trees["board"].ignore)
       /\ "identity" \notin left => occupied \/ trees["board"].node
       /\ "fastForward" \in left =>
            branch # None /\ tracking # None /\ (Attached \/ IsPrefix(branch, tracking))

(* What a rollback will take away is the command's own.                    *)
OwnsTemp(r) == r.temp # None => r.temp \in made
OwnsBranch(r) ==
    r.madeBranch => /\ branch = None \/ "branch" \in made
                    /\ trees["board"] = None \/ On("board", "data")
OwnsTree(r) ==
    r.madeTree =>
        /\ \A x \in {"board", "inside"} : trees[x] = None \/ x \in made
        /\ IF occupied THEN trees["inside"] # None ELSE trees["board"] # None /\ trees["board"].dir

Fits(r) ==
    /\ r.do \in {"fetch", "plan"} =>
          r.temp = None /\ ~r.madeBranch /\ ~r.madeTree /\ "board" \notin made
    /\ r.do = "run" => Begins(r) /\ Reaches(r) /\ OwnsTemp(r) /\ OwnsBranch(r) /\ OwnsTree(r)
    /\ r.do = "undo" =>
          /\ OwnsTemp(r) /\ OwnsBranch(r)
          /\ "detachBoard" \in Left(r.undo) => OwnsTree(r)
OnTheirWay == \A p \in Procs : Fits(run[p])

BootInv == TypeOK /\ Exclusive /\ Whole /\ OnTheirWay

-----------------------------------------------------------------------------
(* Lemmas about the data: plans and their tails, histories, worktrees.     *)

LEMMA LeftOfTail ==
    ASSUME NEW todo \in Seq(StepNames), todo # <<>>
    PROVE  /\ Left(todo) = {Head(todo)} \cup Left(Tail(todo))
           /\ Tail(todo) \in Seq(StepNames)
           /\ Making(todo) => /\ Making(Tail(todo)) /\ Head(todo) \in Makes
                              /\ \A x \in Left(Tail(todo)) : MakeRank(Head(todo)) < MakeRank(x)
           /\ Taking(todo) => /\ Taking(Tail(todo)) /\ Head(todo) \in Takes
                              /\ \A x \in Left(Tail(todo)) : TakeRank(Head(todo)) < TakeRank(x)
<1>1. /\ Tail(todo) \in Seq(StepNames) /\ Len(Tail(todo)) = Len(todo) - 1 /\ Len(todo) \in Nat \ {0}
      /\ Head(todo) = todo[1] /\ DOMAIN todo = 1..Len(todo) /\ DOMAIN Tail(todo) = 1..(Len(todo) - 1)
      /\ \A i \in 1..(Len(todo) - 1) : Tail(todo)[i] = todo[i + 1]
  OBVIOUS
<1>2. \A i \in DOMAIN todo : i = 1 \/ (i - 1 \in DOMAIN Tail(todo) /\ todo[i] = Tail(todo)[i - 1])
  BY <1>1
<1>3. Left(todo) = {Head(todo)} \cup Left(Tail(todo))
  <2>1. ASSUME NEW i \in DOMAIN todo PROVE todo[i] \in {Head(todo)} \cup Left(Tail(todo))
    <3>1. CASE i = 1
      BY <1>1, <3>1
    <3>2. CASE i - 1 \in DOMAIN Tail(todo) /\ todo[i] = Tail(todo)[i - 1]
      BY <3>2, Zenon DEF Left
    <3> QED BY <1>2, <3>1, <3>2
  <2>2. \A i \in DOMAIN Tail(todo) : i + 1 \in DOMAIN todo /\ Tail(todo)[i] = todo[i + 1]
    BY <1>1
  <2>3. {Head(todo)} \cup Left(Tail(todo)) \subseteq Left(todo)
    BY <1>1, <2>2 DEF Left
  <2> QED BY <2>1, <2>3, Zenon DEF Left
<1>4. \A x \in Left(Tail(todo)) : \E i \in DOMAIN todo : 1 < i /\ x = todo[i]
  BY <1>1 DEF Left
<1>5. \A i, j \in DOMAIN Tail(todo) : i < j => /\ i + 1 \in DOMAIN todo /\ j + 1 \in DOMAIN todo
                                                /\ i + 1 < j + 1
                                                /\ Tail(todo)[i] = todo[i + 1]
                                                /\ Tail(todo)[j] = todo[j + 1]
  BY <1>1
<1>6. 1 \in DOMAIN todo
  BY <1>1
<1>7. ASSUME Making(todo)
      PROVE  /\ Making(Tail(todo)) /\ Head(todo) \in Makes
             /\ \A x \in Left(Tail(todo)) : MakeRank(Head(todo)) < MakeRank(x)
  <2>1. \A i, j \in DOMAIN Tail(todo) : i < j => MakeRank(Tail(todo)[i]) < MakeRank(Tail(todo)[j])
    BY <1>5, <1>7, Zenon DEF Making
  <2>2. \A x \in Left(Tail(todo)) : MakeRank(Head(todo)) < MakeRank(x)
    BY <1>1, <1>4, <1>6, <1>7, Zenon DEF Making
  <2> QED BY <1>3, <1>7, <2>1, <2>2, Zenon DEF Making
<1>8. ASSUME Taking(todo)
      PROVE  /\ Taking(Tail(todo)) /\ Head(todo) \in Takes
             /\ \A x \in Left(Tail(todo)) : TakeRank(Head(todo)) < TakeRank(x)
  <2>1. \A i, j \in DOMAIN Tail(todo) : i < j => TakeRank(Tail(todo)[i]) < TakeRank(Tail(todo)[j])
    BY <1>5, <1>8, Zenon DEF Taking
  <2>2. \A x \in Left(Tail(todo)) : TakeRank(Head(todo)) < TakeRank(x)
    BY <1>1, <1>4, <1>6, <1>8, Zenon DEF Taking
  <2> QED BY <1>3, <1>8, <2>1, <2>2, Zenon DEF Taking
<1> QED BY <1>1, <1>3, <1>7, <1>8

(* What comes after the attachment has one order.                          *)
LEMMA SameEnd ==
    ASSUME NEW todo \in Seq(StepNames), Making(todo),
           \A x \in Left(todo) : 6 < MakeRank(x)
    PROVE  Taking(todo)
<1>1. \A x \in Left(todo) : x \in {"identity", "codeIgnore", "push"}
  BY DEF Making, Makes, MakeRank
<1>2. \A x, y \in {"identity", "codeIgnore", "push"} :
          MakeRank(x) < MakeRank(y) => TakeRank(x) < TakeRank(y)
  BY DEF MakeRank, TakeRank
<1>3. \A i \in DOMAIN todo : todo[i] \in Left(todo)
  BY DEF Left
<1> QED BY <1>1, <1>2, <1>3 DEF Making, Taking, Takes

(* Plans are put together from parts.                                      *)
LEMMA PartsOfPlan ==
    ASSUME NEW s \in Seq(StepNames), NEW t \in Seq(StepNames)
    PROVE  /\ s \o t \in Seq(StepNames) /\ Left(s \o t) = Left(s) \cup Left(t)
           /\ Making(s) /\ Making(t) /\ (\A x \in Left(s), y \in Left(t) : MakeRank(x) < MakeRank(y))
                 => Making(s \o t)
           /\ Taking(s) /\ Taking(t) /\ (\A x \in Left(s), y \in Left(t) : TakeRank(x) < TakeRank(y))
                 => Taking(s \o t)
<1>1. /\ s \o t \in Seq(StepNames) /\ Len(s \o t) = Len(s) + Len(t)
      /\ \A i \in 1..(Len(s) + Len(t)) :
             (s \o t)[i] = IF i <= Len(s) THEN s[i] ELSE t[i - Len(s)]
  BY ConcatProperties
<1>2. \A i \in DOMAIN (s \o t) :
         \/ i \in DOMAIN s /\ (s \o t)[i] = s[i] /\ s[i] \in Left(s)
         \/ i - Len(s) \in DOMAIN t /\ (s \o t)[i] = t[i - Len(s)] /\ t[i - Len(s)] \in Left(t)
                /\ i > Len(s)
  BY <1>1 DEF Left
<1>3. \A i \in DOMAIN s : i \in DOMAIN (s \o t) /\ (s \o t)[i] = s[i]
  BY <1>1
<1>4. \A i \in DOMAIN t : i + Len(s) \in DOMAIN (s \o t) /\ (s \o t)[i + Len(s)] = t[i]
  BY <1>1
<1>5. Left(s \o t) = Left(s) \cup Left(t)
  <2>1. \A i \in DOMAIN (s \o t) : (s \o t)[i] \in Left(s) \cup Left(t)
    BY <1>2, Zenon
  <2>2. (\A i \in DOMAIN s : s[i] \in Left(s \o t)) /\ \A i \in DOMAIN t : t[i] \in Left(s \o t)
    BY <1>3, <1>4, Zenon DEF Left
  <2> QED BY <2>1, <2>2, Zenon DEF Left
<1>6. \A i, j \in DOMAIN (s \o t) : i < j =>
         \/ i \in DOMAIN s /\ j \in DOMAIN s /\ (s \o t)[i] = s[i] /\ (s \o t)[j] = s[j]
         \/ (s \o t)[i] \in Left(s) /\ (s \o t)[j] \in Left(t)
         \/ /\ i - Len(s) \in DOMAIN t /\ j - Len(s) \in DOMAIN t /\ i - Len(s) < j - Len(s)
            /\ (s \o t)[i] = t[i - Len(s)] /\ (s \o t)[j] = t[j - Len(s)]
  BY <1>1, <1>2
<1>7. ASSUME Making(s), Making(t), \A x \in Left(s), y \in Left(t) : MakeRank(x) < MakeRank(y)
      PROVE  Making(s \o t)
  <2>1. Left(s \o t) \subseteq Makes
    BY <1>5, <1>7 DEF Making
  <2>2. \A i, j \in DOMAIN (s \o t) : i < j => MakeRank((s \o t)[i]) < MakeRank((s \o t)[j])
    BY <1>6, <1>7, Zenon DEF Making
  <2> QED BY <2>1, <2>2 DEF Making
<1>8. ASSUME Taking(s), Taking(t), \A x \in Left(s), y \in Left(t) : TakeRank(x) < TakeRank(y)
      PROVE  Taking(s \o t)
  <2>1. Left(s \o t) \subseteq Takes
    BY <1>5, <1>8 DEF Taking
  <2>2. \A i, j \in DOMAIN (s \o t) : i < j => TakeRank((s \o t)[i]) < TakeRank((s \o t)[j])
    BY <1>6, <1>8, Zenon DEF Taking
  <2> QED BY <2>1, <2>2 DEF Taking
<1> QED BY <1>1, <1>5, <1>7, <1>8

(* A commit on top of a board is no second board, and keeps what is there. *)
LEMMA MoreHistory ==
    ASSUME NEW h \in Histories, NEW c \in Revisions, ~c.board
    PROVE  Append(h, c) \in Histories /\ IsPrefix(h, Append(h, c))
<1>1. /\ h \in Seq(Revisions) /\ Len(h) \in Nat /\ h # <<>>
      /\ Append(h, c) \in Seq(Revisions) /\ Len(Append(h, c)) = Len(h) + 1
      /\ \A i \in 1..Len(h) : Append(h, c)[i] = h[i]
      /\ Append(h, c)[Len(h) + 1] = c /\ Append(h, c) # <<>>
      /\ \A i \in 1..Len(h) : h[i].board = (i = 1)
  BY DEF Histories
<1>2. Len(h) # 0
  BY <1>1
<1>3. ASSUME NEW i \in DOMAIN Append(h, c) PROVE Append(h, c)[i].board = (i = 1)
  <2>1. i \in 1..Len(h) \/ i = Len(h) + 1
    BY <1>1
  <2>2. CASE i \in 1..Len(h)
    BY <1>1, <2>2
  <2>3. CASE i = Len(h) + 1
    <3>1. i # 1 /\ Append(h, c)[i] = c
      BY <1>1, <1>2, <2>3
    <3>2. c.board = FALSE
      BY DEF Revisions
    <3> QED BY <3>1, <3>2
  <2> QED BY <2>1, <2>2, <2>3
<1>4. Append(h, c) \in Histories
  BY <1>1, <1>3 DEF Histories
<1>5. SubSeq(h, 1, Len(h)) = SubSeq(Append(h, c), 1, Len(h))
  BY <1>1
<1> QED BY <1>1, <1>4, <1>5 DEF IsPrefix

LEMMA FirstHistory ==
    ASSUME NEW c \in Revisions, c.board PROVE <<c>> \in Histories
BY DEF Histories, Revisions

LEMMA SamePrefix == ASSUME NEW h \in Histories PROVE IsPrefix(h, h)
BY DEF Histories, IsPrefix

-----------------------------------------------------------------------------
(* The plans.                                                              *)

LEMMA NoSteps == <<>> \in Seq(StepNames) /\ Left(<<>>) = {} /\ Making(<<>>) /\ Taking(<<>>)
BY DEF Left, Making, Taking

LEMMA OneStep ==
    ASSUME NEW x \in StepNames
    PROVE  /\ <<x>> \in Seq(StepNames) /\ Left(<<x>>) = {x}
           /\ x \in Makes => Making(<<x>>)
           /\ x \in Takes => Taking(<<x>>)
<1>1. <<x>> \in Seq(StepNames) /\ DOMAIN <<x>> = {1} /\ <<x>>[1] = x
  OBVIOUS
<1>2. Left(<<x>>) = {x}
  BY <1>1 DEF Left
<1> QED BY <1>1, <1>2 DEF Making, Taking

LEMMA TwoSteps ==
    ASSUME NEW x \in StepNames, NEW y \in StepNames
    PROVE  /\ <<x, y>> \in Seq(StepNames) /\ Left(<<x, y>>) = {x, y}
           /\ {x, y} \subseteq Makes /\ MakeRank(x) < MakeRank(y) => Making(<<x, y>>)
           /\ {x, y} \subseteq Takes /\ TakeRank(x) < TakeRank(y) => Taking(<<x, y>>)
<1>1. <<x, y>> \in Seq(StepNames) /\ DOMAIN <<x, y>> = {1, 2} /\ <<x, y>>[1] = x /\ <<x, y>>[2] = y
  OBVIOUS
<1>2. Left(<<x, y>>) = {x, y}
  BY <1>1 DEF Left
<1> QED BY <1>1, <1>2 DEF Making, Taking

LEMMA ThreeSteps ==
    ASSUME NEW x \in StepNames, NEW y \in StepNames, NEW z \in StepNames
    PROVE  /\ <<x, y, z>> \in Seq(StepNames) /\ Left(<<x, y, z>>) = {x, y, z}
           /\ {x, y, z} \subseteq Makes /\ MakeRank(x) < MakeRank(y) /\ MakeRank(y) < MakeRank(z)
              /\ MakeRank(x) < MakeRank(z) => Making(<<x, y, z>>)
           /\ {x, y, z} \subseteq Takes /\ TakeRank(x) < TakeRank(y) /\ TakeRank(y) < TakeRank(z)
              /\ TakeRank(x) < TakeRank(z) => Taking(<<x, y, z>>)
<1>1. /\ <<x, y, z>> \in Seq(StepNames) /\ DOMAIN <<x, y, z>> = {1, 2, 3}
      /\ <<x, y, z>>[1] = x /\ <<x, y, z>>[2] = y /\ <<x, y, z>>[3] = z
  OBVIOUS
<1>2. Left(<<x, y, z>>) = {x, y, z}
  BY <1>1 DEF Left
<1> QED BY <1>1, <1>2 DEF Making, Taking

(* The last steps of every plan.                                           *)
LEMMA LastSteps ==
    ASSUME NEW what, NEW tail, tail = (IF what = "push" THEN <<"push">> ELSE <<>>)
    PROVE  /\ Finish \o tail \in Seq(StepNames) /\ {"identity", "codeIgnore"} \subseteq Left(Finish \o tail)
           /\ Left(Finish \o tail) \subseteq {"identity", "codeIgnore", "push"}
           /\ Making(Finish \o tail) /\ Taking(Finish \o tail)
<1>1. /\ Finish \in Seq(StepNames) /\ Left(Finish) = {"identity", "codeIgnore"}
      /\ Making(Finish) /\ Taking(Finish)
  BY TwoSteps DEF Finish, StepNames, Makes, Takes, MakeRank, TakeRank
<1>2. /\ tail \in Seq(StepNames) /\ Left(tail) \subseteq {"push"} /\ Making(tail) /\ Taking(tail)
  <2>1. CASE what = "push"
    BY <2>1, OneStep DEF StepNames, Makes, Takes
  <2>2. CASE what # "push"
    BY <2>2, NoSteps
  <2> QED BY <2>1, <2>2
<1>3. \A x \in Left(Finish), y \in Left(tail) :
          MakeRank(x) < MakeRank(y) /\ TakeRank(x) < TakeRank(y)
  BY <1>1, <1>2 DEF MakeRank, TakeRank
<1> QED BY <1>1, <1>2, <1>3, PartsOfPlan

LEMMA PlanToMake ==
    ASSUME NEW end \in Seq(StepNames), Making(end), Left(end) \subseteq {"identity", "codeIgnore", "push"},
           NEW todo,
           todo = <<"addTemp", "orphan", "scaffold", "dataIgnore", "commit", "attach">> \o end
    PROVE  /\ todo \in Seq(StepNames) /\ Making(todo)
           /\ Left(todo) = {"addTemp", "orphan", "scaffold", "dataIgnore", "commit", "attach"}
                           \cup Left(end)
<1>1. PICK one : one = <<"addTemp", "orphan", "scaffold">>
  OBVIOUS
<1>2. PICK two : two = <<"dataIgnore", "commit", "attach">>
  OBVIOUS
<1>3. <<"addTemp", "orphan", "scaffold", "dataIgnore", "commit", "attach">> = one \o two
  BY <1>1, <1>2
<1>4. /\ \A x \in {"addTemp", "orphan", "scaffold", "dataIgnore", "commit", "attach"} :
             x \in StepNames /\ x \in Makes
      /\ MakeRank("addTemp") = 1 /\ MakeRank("orphan") = 2 /\ MakeRank("scaffold") = 3
      /\ MakeRank("dataIgnore") = 4 /\ MakeRank("commit") = 5 /\ MakeRank("attach") = 6
  BY DEF StepNames, Makes, MakeRank
<1>5. one \in Seq(StepNames) /\ Making(one) /\ Left(one) = {"addTemp", "orphan", "scaffold"}
  BY <1>1, <1>4, ThreeSteps
<1>6. two \in Seq(StepNames) /\ Making(two) /\ Left(two) = {"dataIgnore", "commit", "attach"}
  BY <1>2, <1>4, ThreeSteps
<1>7. \A x \in Left(one), y \in Left(two) : MakeRank(x) < MakeRank(y)
  BY <1>4, <1>5, <1>6
<1>8. PICK six : six = one \o two
  OBVIOUS
<1>9. /\ six \in Seq(StepNames) /\ Making(six)
      /\ Left(six) = {"addTemp", "orphan", "scaffold", "dataIgnore", "commit", "attach"}
  <2>1. /\ one \o two \in Seq(StepNames) /\ Left(one \o two) = Left(one) \cup Left(two)
        /\ Making(one \o two)
    BY <1>5, <1>6, <1>7, PartsOfPlan, Zenon
  <2> QED BY <2>1, <1>5, <1>6, <1>8
<1>10. \A x \in Left(six), y \in Left(end) : MakeRank(x) < MakeRank(y)
  BY <1>4, <1>9 DEF MakeRank
<1>11. todo = six \o end
  BY <1>3, <1>8
<1>12. /\ six \o end \in Seq(StepNames) /\ Left(six \o end) = Left(six) \cup Left(end)
       /\ Making(six \o end)
  BY <1>9, <1>10, PartsOfPlan, Zenon
<1> QED BY <1>9, <1>11, <1>12

LEMMA PlanToTake ==
    ASSUME NEW s \in Seq(StepNames), NEW end \in Seq(StepNames), Taking(s), Taking(end),
           Left(s) \subseteq {"verify", "track", "fastForward", "attach", "dataIgnore"},
           Left(end) \subseteq {"identity", "codeIgnore", "push"}
    PROVE  s \o end \in Seq(StepNames) /\ Taking(s \o end) /\ Left(s \o end) = Left(s) \cup Left(end)
<1>1. \A x \in Left(s), y \in Left(end) : TakeRank(x) < TakeRank(y)
  BY DEF TakeRank
<1> QED BY <1>1, PartsOfPlan

LEMMA SameConcat ==
    ASSUME NEW a \in Seq(StepNames), NEW b \in Seq(StepNames), NEW c \in Seq(StepNames)
    PROVE  (a \o b) \o c = a \o (b \o c)
BY ConcatAssociative

(* What is planned in the states that are acted upon.                      *)
Planned(state, todo) ==
    /\ todo \in Seq(StepNames) /\ state \in {"S0", "S1", "S2", "S3", "S8"}
    /\ {"dataIgnore", "identity", "codeIgnore"} \subseteq Left(todo)
    /\ IF state = "S0"
       THEN Making(todo) /\ {"addTemp", "orphan", "scaffold", "commit", "attach"} \subseteq Left(todo)
            /\ Left(todo) \subseteq Makes
       ELSE Taking(todo)
    /\ state # "S8" => "fastForward" \notin Left(todo)
    /\ "fastForward" \in Left(todo) => Relation = "behind"
    /\ "attach" \notin Left(todo) => state = "S3" \/ (state = "S8" /\ BoardPath # "absent")
LEMMA PlanShape ==
    ASSUME NEW state, NEW what, Plan(state, what) # <<>>, NEW todo,
           todo = Plan(state, what) \o (IF what = "push" THEN <<"push">> ELSE <<>>)
    PROVE  Planned(state, todo)
<1>1. state \in {"S0", "S1", "S2", "S3", "S8"}
  BY DEF Plan
<1>2. PICK tail : tail = (IF what = "push" THEN <<"push">> ELSE <<>>)
  OBVIOUS
<1>3. PICK end : end = Finish \o tail
  OBVIOUS
<1>4. /\ end \in Seq(StepNames) /\ {"identity", "codeIgnore"} \subseteq Left(end)
      /\ Left(end) \subseteq {"identity", "codeIgnore", "push"} /\ Making(end) /\ Taking(end)
  BY <1>2, <1>3, LastSteps
<1>5. /\ tail \in Seq(StepNames) /\ Finish \in Seq(StepNames)
      /\ <<"dataIgnore">> \in Seq(StepNames)
  BY <1>2, OneStep, TwoSteps, NoSteps DEF StepNames, Finish
<1>6. PICK checks : checks = Checks(what)
  OBVIOUS
<1>7. checks \in Seq(StepNames) /\ Taking(checks) /\ Left(checks) \subseteq {"verify"}
  <2>1. CASE what = "repair"
    BY <2>1, <1>6, NoSteps DEF Checks
  <2>2. CASE what # "repair"
    BY <2>2, <1>6, OneStep DEF Checks, StepNames, Takes
  <2> QED BY <2>1, <2>2
<1>8. CASE state = "S0"
  <2>1. Plan(state, what) = <<"addTemp", "orphan", "scaffold", "dataIgnore", "commit", "attach">> \o Finish
    BY <1>8 DEF Plan
  <2>2. <<"addTemp", "orphan", "scaffold", "dataIgnore", "commit", "attach">> \in Seq(StepNames)
    BY DEF StepNames
  <2>3. todo = <<"addTemp", "orphan", "scaffold", "dataIgnore", "commit", "attach">> \o end
    BY <2>1, <2>2, <1>2, <1>3, <1>5, SameConcat
  <2>4. /\ todo \in Seq(StepNames) /\ Making(todo)
        /\ Left(todo) = {"addTemp", "orphan", "scaffold", "dataIgnore", "commit", "attach"}
                        \cup Left(end)
    BY <2>3, <1>4, PlanToMake
  <2> QED BY <1>1, <1>4, <1>8, <2>4 DEF Planned, Makes
<1>9. ASSUME NEW first \in Seq(StepNames), Taking(first), state # "S0",
             Left(first) \subseteq {"verify", "track", "fastForward", "attach", "dataIgnore"},
             Plan(state, what) = first \o Finish
      PROVE  /\ todo \in Seq(StepNames) /\ Taking(todo) /\ Left(todo) = Left(first) \cup Left(end)
             /\ {"identity", "codeIgnore"} \subseteq Left(todo)
  <2>1. todo = (first \o Finish) \o tail
    BY <1>2, <1>9, Zenon
  <2>2. todo = first \o end
    BY <2>1, <1>3, <1>5, SameConcat
  <2>3. /\ first \o end \in Seq(StepNames) /\ Taking(first \o end)
        /\ Left(first \o end) = Left(first) \cup Left(end)
    BY <1>4, <1>9, PlanToTake
  <2> QED BY <2>2, <2>3, <1>4
<1>10. CASE state = "S1"
  <2>1. PICK mid : mid = <<"track", "attach", "dataIgnore">>
    OBVIOUS
  <2>2. /\ "track" \in StepNames /\ "attach" \in StepNames /\ "dataIgnore" \in StepNames
        /\ {"track", "attach", "dataIgnore"} \subseteq Takes
        /\ TakeRank("track") < TakeRank("attach") /\ TakeRank("attach") < TakeRank("dataIgnore")
        /\ TakeRank("track") < TakeRank("dataIgnore")
    BY DEF StepNames, Takes, TakeRank
  <2>3. mid \in Seq(StepNames) /\ Taking(mid) /\ Left(mid) = {"track", "attach", "dataIgnore"}
    BY <2>1, <2>2, ThreeSteps
  <2>4. \A x \in Left(checks), y \in Left(mid) : TakeRank(x) < TakeRank(y)
    BY <2>3, <1>7 DEF TakeRank
  <2>5. PICK first : first = checks \o mid
    OBVIOUS
  <2>6. first \in Seq(StepNames) /\ Taking(first) /\ Left(first) = Left(checks) \cup Left(mid)
    BY <2>3, <2>4, <2>5, <1>7, PartsOfPlan
  <2>7. Plan(state, what) = first \o Finish
    BY <1>10, <1>5, <1>6, <1>7, <2>1, <2>3, <2>5, SameConcat DEF Plan
  <2>8. /\ todo \in Seq(StepNames) /\ Taking(todo) /\ Left(todo) = Left(first) \cup Left(end)
        /\ {"identity", "codeIgnore"} \subseteq Left(todo)
    BY <1>9, <1>10, <1>7, <2>3, <2>6, <2>7
  <2> QED BY <1>1, <1>4, <1>7, <1>10, <2>3, <2>6, <2>8 DEF Planned
<1>11. CASE state = "S2"
  <2>1. PICK mid : mid = <<"attach", "dataIgnore">>
    OBVIOUS
  <2>2. /\ "attach" \in StepNames /\ "dataIgnore" \in StepNames /\ {"attach", "dataIgnore"} \subseteq Takes
        /\ TakeRank("attach") < TakeRank("dataIgnore")
    BY DEF StepNames, Takes, TakeRank
  <2>3. mid \in Seq(StepNames) /\ Taking(mid) /\ Left(mid) = {"attach", "dataIgnore"}
    BY <2>1, <2>2, TwoSteps
  <2>4. \A x \in Left(checks), y \in Left(mid) : TakeRank(x) < TakeRank(y)
    BY <2>3, <1>7 DEF TakeRank
  <2>5. PICK first : first = checks \o mid
    OBVIOUS
  <2>6. first \in Seq(StepNames) /\ Taking(first) /\ Left(first) = Left(checks) \cup Left(mid)
    BY <2>3, <2>4, <2>5, <1>7, PartsOfPlan
  <2>7. Plan(state, what) = first \o Finish
    BY <1>11, <1>5, <1>6, <1>7, <2>1, <2>3, <2>5, SameConcat DEF Plan
  <2>8. /\ todo \in Seq(StepNames) /\ Taking(todo) /\ Left(todo) = Left(first) \cup Left(end)
        /\ {"identity", "codeIgnore"} \subseteq Left(todo)
    BY <1>9, <1>11, <1>7, <2>3, <2>6, <2>7
  <2> QED BY <1>1, <1>4, <1>7, <1>11, <2>3, <2>6, <2>8 DEF Planned
<1>12. /\ "dataIgnore" \in StepNames /\ "dataIgnore" \in Takes
       /\ <<"dataIgnore">> \in Seq(StepNames) /\ Taking(<<"dataIgnore">>)
       /\ Left(<<"dataIgnore">>) = {"dataIgnore"}
  BY OneStep DEF StepNames, Takes
<1>13. CASE state = "S3"
  <2>4. \A x \in Left(checks), y \in Left(<<"dataIgnore">>) : TakeRank(x) < TakeRank(y)
    BY <1>12, <1>7 DEF TakeRank
  <2>5. PICK first : first = checks \o <<"dataIgnore">>
    OBVIOUS
  <2>6. first \in Seq(StepNames) /\ Taking(first) /\ Left(first) = Left(checks) \cup {"dataIgnore"}
    BY <1>12, <2>4, <2>5, <1>7, PartsOfPlan
  <2>7. Plan(state, what) = first \o Finish
    BY <1>13, <1>5, <1>6, <1>7, <2>5, SameConcat DEF Plan
  <2>8. /\ todo \in Seq(StepNames) /\ Taking(todo) /\ Left(todo) = Left(first) \cup Left(end)
        /\ {"identity", "codeIgnore"} \subseteq Left(todo)
    BY <1>9, <1>13, <1>7, <2>6, <2>7
  <2> QED BY <1>1, <1>4, <1>7, <1>13, <2>6, <2>8 DEF Planned
<1>14. CASE state = "S8"
  <2>1. PICK forward : forward = (IF Relation = "behind" THEN <<"fastForward">> ELSE <<>>)
    OBVIOUS
  <2>2. PICK add : add = (IF BoardPath = "absent" THEN <<"attach">> ELSE <<>>)
    OBVIOUS
  <2>3. /\ forward \in Seq(StepNames) /\ Taking(forward) /\ Left(forward) \subseteq {"fastForward"}
        /\ "fastForward" \in Left(forward) => Relation = "behind"
    <3>1. CASE Relation = "behind"
      BY <2>1, <3>1, OneStep DEF StepNames, Takes
    <3>2. CASE Relation # "behind"
      BY <2>1, <3>2, NoSteps
    <3> QED BY <3>1, <3>2
  <2>4. /\ add \in Seq(StepNames) /\ Taking(add) /\ Left(add) \subseteq {"attach"}
        /\ "attach" \notin Left(add) => BoardPath # "absent"
    <3>1. CASE BoardPath = "absent"
      BY <2>2, <3>1, OneStep DEF StepNames, Takes
    <3>2. CASE BoardPath # "absent"
      BY <2>2, <3>2, NoSteps
    <3> QED BY <3>1, <3>2
  <2>5. PICK a : a = checks \o forward
    OBVIOUS
  <2>6. a \in Seq(StepNames) /\ Taking(a) /\ Left(a) = Left(checks) \cup Left(forward)
    <3>1. \A x \in Left(checks), y \in Left(forward) : TakeRank(x) < TakeRank(y)
      BY <1>7, <2>3 DEF TakeRank
    <3> QED BY <1>7, <2>3, <2>5, <3>1, PartsOfPlan
  <2>7. PICK b : b = a \o add
    OBVIOUS
  <2>8. b \in Seq(StepNames) /\ Taking(b) /\ Left(b) = Left(a) \cup Left(add)
    <3>1. \A x \in Left(a), y \in Left(add) : TakeRank(x) < TakeRank(y)
      BY <1>7, <2>3, <2>4, <2>6 DEF TakeRank
    <3> QED BY <2>4, <2>6, <2>7, <3>1, PartsOfPlan
  <2>9. PICK first : first = b \o <<"dataIgnore">>
    OBVIOUS
  <2>10. first \in Seq(StepNames) /\ Taking(first) /\ Left(first) = Left(b) \cup {"dataIgnore"}
    <3>1. \A x \in Left(b), y \in Left(<<"dataIgnore">>) : TakeRank(x) < TakeRank(y)
      BY <1>7, <1>12, <2>3, <2>4, <2>6, <2>8 DEF TakeRank
    <3> QED BY <1>12, <2>8, <2>9, <3>1, PartsOfPlan
  <2>11. Plan(state, what) = first \o Finish
    BY <1>14, <1>6, <2>1, <2>2, <2>5, <2>7, <2>9, Zenon DEF Plan
  <2>12. /\ todo \in Seq(StepNames) /\ Taking(todo) /\ Left(todo) = Left(first) \cup Left(end)
         /\ {"identity", "codeIgnore"} \subseteq Left(todo)
    <3>1. Left(first) \subseteq {"verify", "track", "fastForward", "attach", "dataIgnore"}
      BY <1>7, <2>3, <2>4, <2>6, <2>8, <2>10
    <3> QED BY <1>9, <1>14, <2>10, <2>11, <3>1
  <2> QED BY <1>1, <1>4, <1>7, <1>14, <2>3, <2>4, <2>6, <2>8, <2>10, <2>12 DEF Planned
<1> QED BY <1>1, <1>8, <1>10, <1>11, <1>13, <1>14

-----------------------------------------------------------------------------
(* One command at a time.                                                  *)

LEMMA Acting ==
    ASSUME BootInv, NEW p \in Procs, run[p].do # "idle"
    PROVE  /\ lock = p /\ lock # None /\ run[p] \in Commands /\ Fits(run[p])
           /\ \A q \in Procs : q # p => run[q] = Idle /\ run[q].do = "idle"
BY NamesAssumption DEF BootInv, TypeOK, Exclusive, OnTheirWay

LEMMA IdleCommand ==
    /\ Idle \in Commands /\ Idle.do = "idle" /\ Idle.temp = None /\ ~Idle.madeBranch /\ ~Idle.madeTree
    /\ Idle.todo = <<>> /\ Idle.undo = <<>>
BY DEF Idle, Commands, Undos, Projects

LEMMA IdleFits ==
    ASSUME NEW r, r.do = "idle" PROVE Fits(r)'
BY DEF Fits

(* A command that goes on, and one that ends.                              *)
LEMMA Onward ==
    ASSUME BootInv, NEW p \in Procs, run[p].do # "idle", NEW n \in Commands, n.do # "idle",
           run' = [run EXCEPT ![p] = n], lock' = lock, GitTypes', Whole', Fits(n)'
    PROVE  BootInv'
<1>1. lock = p /\ \A q \in Procs : q # p => run[q] = Idle /\ run[q].do = "idle"
  BY Acting
<1>2. /\ run' \in [Procs -> Commands] /\ run'[p] = n
      /\ \A q \in Procs : q # p => run'[q] = run[q]
  BY DEF BootInv, TypeOK
<1>3. TypeOK'
  BY <1>2 DEF BootInv, TypeOK
<1>4. Exclusive'
  BY <1>1, <1>2 DEF Exclusive
<1>5. ASSUME NEW q \in Procs PROVE Fits(run[q])'
  <2>1. CASE q = p
    BY <2>1, <1>2 DEF Fits, Begins, Reaches, OwnsTemp, OwnsBranch, OwnsTree, Scratch, On
  <2>2. CASE q # p
    BY <2>2, <1>1, <1>2 DEF Fits
  <2> QED BY <2>1, <2>2
<1> QED BY <1>3, <1>4, <1>5 DEF BootInv, OnTheirWay

LEMMA Over ==
    ASSUME BootInv, NEW p \in Procs, run[p].do # "idle", End(p), GitTypes', Whole'
    PROVE  BootInv'
<1>1. lock = p /\ \A q \in Procs : q # p => run[q] = Idle /\ run[q].do = "idle"
  BY Acting
<1>2. /\ run' \in [Procs -> Commands] /\ lock' = None
      /\ \A q \in Procs : run'[q] = Idle /\ run'[q].do = "idle"
  BY <1>1, IdleCommand DEF BootInv, TypeOK, End
<1> QED BY <1>2 DEF BootInv, TypeOK, Exclusive, OnTheirWay, Fits

(* What a step finds, and what is left after it.                           *)
LEMMA Doing ==
    ASSUME BootInv, NEW p \in Procs, run[p].do = "run", run[p].todo # <<>>,
           NEW n, n = Done(p)
    PROVE  /\ run[p] \in Commands /\ Begins(run[p]) /\ Reaches(run[p])
           /\ OwnsTemp(run[p]) /\ OwnsBranch(run[p]) /\ OwnsTree(run[p])
           /\ n \in Commands /\ n.do = "run" /\ n.todo = Tail(run[p].todo) /\ n.temp = run[p].temp
           /\ n.madeBranch = run[p].madeBranch /\ n.madeTree = run[p].madeTree
           /\ n.undo = run[p].undo /\ n.what = run[p].what /\ n.project = run[p].project
           /\ Left(run[p].todo) = {Head(run[p].todo)} \cup Left(n.todo)
           /\ Making(run[p].todo) =>
                 /\ Making(n.todo) /\ Head(run[p].todo) \in Makes
                 /\ \A x \in Left(n.todo) : x \in Makes /\ MakeRank(Head(run[p].todo)) < MakeRank(x)
           /\ Taking(run[p].todo) =>
                 /\ Taking(n.todo) /\ Head(run[p].todo) \in Takes
                 /\ \A x \in Left(n.todo) : x \in Takes /\ TakeRank(Head(run[p].todo)) < TakeRank(x)
<1>1. run[p] \in Commands /\ Fits(run[p])
  BY Acting
<1>2. run[p].todo \in Seq(StepNames)
  BY <1>1 DEF Commands
<1>3. Tail(run[p].todo) \in Seq(StepNames)
  BY <1>2, LeftOfTail
<1>4. /\ n \in Commands /\ n.do = "run" /\ n.todo = Tail(run[p].todo) /\ n.temp = run[p].temp
      /\ n.madeBranch = run[p].madeBranch /\ n.madeTree = run[p].madeTree
      /\ n.undo = run[p].undo /\ n.what = run[p].what /\ n.project = run[p].project
  BY <1>1, <1>3 DEF Commands, Done
<1>5. /\ Begins(run[p]) /\ Reaches(run[p]) /\ OwnsTemp(run[p]) /\ OwnsBranch(run[p]) /\ OwnsTree(run[p])
  BY <1>1 DEF Fits
<1>6. /\ Making(Tail(run[p].todo)) => Left(Tail(run[p].todo)) \subseteq Makes
      /\ Taking(Tail(run[p].todo)) => Left(Tail(run[p].todo)) \subseteq Takes
  BY DEF Making, Taking
<1> QED BY <1>1, <1>2, <1>4, <1>5, <1>6, LeftOfTail

Keeps ==
    /\ Things \ Things' \subseteq
         made \cup Away \cup (IF trees["inside"] = None THEN {} ELSE {"directory"})
    /\ branch # None /\ branch' # None => IsPrefix(branch, branch')

(* A worktree in which a step has written something.                       *)
Better(old, new) ==
    \A x \in Paths :
        /\ old[x] = None <=> new[x] = None
        /\ old[x] # None => /\ new[x].on = old[x].on /\ new[x].dir = old[x].dir
                            /\ old[x].files => new[x].files
                            /\ new[x].files => old[x].files \/ old[x].dir
                            /\ Covers(old[x].ignore) => Covers(new[x].ignore)
                            /\ old[x].node => new[x].node

LEMMA BetterThings ==
    ASSUME Better(trees, trees'), branch' = branch, occupied' = occupied, linked' = linked
    PROVE  /\ Things' = Things /\ CheckedOut' = CheckedOut /\ Attached' = Attached
           /\ \A x \in Paths : \A what : On(x, what)' <=> On(x, what)
           /\ Whole => Whole'
<1>1. "board" \in Paths /\ "inside" \in Paths /\ Temps \subseteq Paths
  BY DEF Paths
<1>2. Things' = Things
  BY DEF Better, Things
<1>3. CheckedOut' = CheckedOut
  BY DEF Better, CheckedOut
<1>4. Attached' = Attached
  BY <1>1 DEF Better, Attached
<1>5. \A x \in Paths : \A what : On(x, what)' <=> On(x, what)
  BY DEF Better, On
<1>6. Whole => Whole'
  BY <1>1, <1>5 DEF Better, Whole
<1> QED BY <1>2, <1>3, <1>4, <1>5, <1>6

(* The steps that only complete what is there.                             *)
LEMMA Completes ==
    ASSUME BootInv, NEW p \in Procs, run[p].do = "run", run[p].todo # <<>>, NEW n, n = Done(p),
           NEW h, h = Head(run[p].todo), run' = [run EXCEPT ![p] = n], lock' = lock, Note, GitTypes',
           branch' = branch, occupied' = occupied, linked' = linked,
           Covers(codeIgnore) => Covers(codeIgnore'), Better(trees, trees'),
           h \in {"verify", "scaffold", "dataIgnore", "identity", "codeIgnore", "push"},
           h # "push" => tracking' = tracking,
           h = "codeIgnore" => Covers(codeIgnore'),
           h = "dataIgnore" => \/ trees["board"] = None \/ run[p].temp # None
                               \/ ~(trees["board"].dir \/ occupied) \/ Covers(trees'["board"].ignore),
           h = "identity" => trees["board"] = None \/ trees'["board"].node,
           h = "scaffold" /\ run[p].temp # None =>
               trees'[run[p].temp].files /\ Covers(trees'[run[p].temp].ignore)
    PROVE  BootInv' /\ Keeps
<1> PICK r : r = run[p]
  OBVIOUS
<1> DEFINE L == Left(r.todo)
           T == Left(n.todo)
<1>1. /\ r \in Commands /\ Begins(r) /\ Reaches(r) /\ OwnsTemp(r) /\ OwnsBranch(r) /\ OwnsTree(r)
      /\ n \in Commands /\ n.do = "run" /\ n.temp = r.temp
      /\ n.madeBranch = r.madeBranch /\ n.madeTree = r.madeTree
  BY Doing
<1>2. /\ L = {h} \cup T
      /\ Making(r.todo) => Making(n.todo) /\ h \in Makes /\ \A x \in T : MakeRank(h) < MakeRank(x)
      /\ Taking(r.todo) => Taking(n.todo) /\ h \in Takes /\ \A x \in T : TakeRank(h) < TakeRank(x)
  BY Doing
<1>3. /\ Things' = Things /\ CheckedOut' = CheckedOut /\ Attached' = Attached /\ Whole'
      /\ \A x \in Paths : \A what : On(x, what)' <=> On(x, what)
  BY BetterThings DEF BootInv
<1>4. made' = made
  BY <1>3 DEF Note
<1>5. Keeps
  <2>1. branch # None => IsPrefix(branch, branch)
    BY SamePrefix DEF BootInv, TypeOK, GitTypes
  <2> QED BY <2>1, <1>3 DEF Keeps
<1>6. "board" \in Paths /\ "inside" \in Paths /\ (r.temp # None => r.temp \in Temps /\ r.temp \in Paths)
  BY <1>1 DEF Paths, Commands
<1> HIDE DEF L, T
<1>7. Scratch(n) <=> Scratch(r)
  BY <1>1, <1>2 DEF Scratch, L, T
<1>8. ASSUME NEW x \in L, x \in {"addTemp", "orphan", "commit", "attach", "track", "fastForward"}
      PROVE  x \in T
  BY <1>2, <1>8
<1>9. Scratch(r) => "attach" \in T /\ Making(n.todo) /\ L \subseteq Makes
  BY <1>1, <1>2, <1>8 DEF Begins, L, Making
<1>10. ~Scratch(r) => Taking(n.todo) /\ L \subseteq Takes /\ r.temp = None
  BY <1>1, <1>2 DEF Begins, L, Taking, Scratch
<1>11. "attach" \in L <=> "attach" \in T
  BY <1>2
<1>12. "attach" \in T => "identity" \in T
  <2>1. "attach" \in T /\ h = "identity" => FALSE
    <3>1. Making(r.todo) \/ Taking(r.todo)
      BY <1>1 DEF Begins
    <3> QED BY <3>1, <1>2 DEF MakeRank, TakeRank
  <2> QED BY <2>1, <1>1, <1>2, <1>11 DEF Begins, L
<1>13. ~Scratch(r) /\ "attach" \in T => "dataIgnore" \in T
  <2>1. ~Scratch(r) /\ "attach" \in T /\ h = "dataIgnore" => FALSE
    <3>1. ~Scratch(r) => Taking(r.todo)
      BY <1>1 DEF Begins
    <3> QED BY <3>1, <1>2 DEF TakeRank
  <2> QED BY <2>1, <1>1, <1>2, <1>11 DEF Begins, L
<1>14. Scratch(r) => /\ trees'["board"] = None /\ trees'["inside"] = None
                     /\ branch' = None <=> "commit" \in T
                     /\ "addTemp" \in T => Early \subseteq T /\ r.temp = None
  <2>1. "commit" \in L <=> "commit" \in T
    BY <1>2
  <2>2. "addTemp" \in T /\ h \in {"scaffold"} /\ Scratch(r) => FALSE
    <3>1. Scratch(r) => Making(r.todo)
      BY <1>1 DEF Begins
    <3> QED BY <3>1, <1>2 DEF MakeRank
  <2> QED BY <2>1, <2>2, <1>1, <1>2, <1>6 DEF Begins, Early, Better, L
<1>15. "orphan" \in T => ~CheckedOut'
  BY <1>1, <1>2, <1>3 DEF Begins, L
<1>16. r.temp # None =>
         /\ trees'[r.temp] # None
         /\ "orphan" \notin T => trees'[r.temp].on = "data"
         /\ "scaffold" \notin T => trees'[r.temp].files /\ Covers(trees'[r.temp].ignore)
  BY <1>1, <1>2, <1>6 DEF Begins, Better, L
<1>17. Begins(n)'
  <2>1. Scratch(n)' <=> Scratch(n)
    BY DEF Scratch
  <2> QED BY <1>1, <1>7, <1>9, <1>10, <1>12, <1>13, <1>14, <1>15, <1>16, <2>1 DEF Begins, T
<1>18. Reaches(n)'
  <2>1. "codeIgnore" \notin T => Covers(codeIgnore')
    BY <1>1, <1>2 DEF Reaches, L
  <2>2. "attach" \notin T => occupied' \/ (On("board", "data")' /\ trees'["board"].dir)
    BY <1>1, <1>3, <1>6, <1>11 DEF Reaches, L, Better, On
  <2>3. "attach" \notin T => r.temp = None
    BY <1>9, <1>10
  <2>4. {"attach", "dataIgnore"} \cap T = {} => occupied' \/ Covers(trees'["board"].ignore)
    BY <1>1, <1>2, <1>6, <2>2, <2>3 DEF Reaches, L, Better, On
  <2>5. "identity" \notin T => occupied' \/ trees'["board"].node
    BY <1>1, <1>2, <1>6, <1>12, <2>2 DEF Reaches, L, Better, On
  <2>6. "fastForward" \in T => h # "push"
    <3>1. Making(r.todo) \/ Taking(r.todo)
      BY <1>1 DEF Begins
    <3> QED BY <3>1, <1>2 DEF MakeRank, TakeRank
  <2>7. "fastForward" \in T =>
           branch' # None /\ tracking' # None /\ (Attached' \/ IsPrefix(branch', tracking'))
    BY <1>1, <1>2, <1>3, <2>6 DEF Reaches, L
  <2>8. "attach" \notin T /\ "board" \in made' => occupied' \/ trees'["board"].files
    BY <1>1, <1>4, <1>6, <1>11, <2>2 DEF Reaches, L, Better, On
  <2> QED BY <2>1, <2>2, <2>4, <2>5, <2>7, <2>8 DEF Reaches, T
<1>19. OwnsTemp(n)' /\ OwnsBranch(n)' /\ OwnsTree(n)'
  BY <1>1, <1>3, <1>4, <1>6 DEF OwnsTemp, OwnsBranch, OwnsTree, Better
<1>20. Fits(n)'
  BY <1>1, <1>17, <1>18, <1>19 DEF Fits
<1> QED BY <1>1, <1>3, <1>5, <1>20, Onward

(* A worktree that is written into.                                        *)
LEMMA WriteInto ==
    ASSUME GitTypes, NEW x \in Paths, trees[x] # None, NEW w \in Worktrees,
           w.on = trees[x].on, w.dir = trees[x].dir, trees[x].files => w.files, w.files => trees[x].files \/ trees[x].dir,
           Covers(trees[x].ignore) => Covers(w.ignore), trees[x].node => w.node,
           trees' = [trees EXCEPT ![x] = w]
    PROVE  Better(trees, trees') /\ trees' \in [Paths -> Worktrees \cup {None}] /\ trees'[x] = w
BY NamesAssumption DEF GitTypes, Better

LEMMA SameTrees == Better(trees, trees)
BY DEF Better

(* The worktree of one's own is there when it is needed.                   *)
LEMMA OwnTree ==
    ASSUME BootInv, NEW p \in Procs, run[p].do = "run", run[p].todo # <<>>,
           Head(run[p].todo) \in Early
    PROVE  /\ Scratch(run[p]) /\ "addTemp" \notin Left(run[p].todo)
           /\ run[p].temp \in Temps /\ run[p].temp \in Paths /\ trees[run[p].temp] \in Worktrees
<1>1. PICK n : n = Done(p)
  OBVIOUS
<1>2. /\ run[p] \in Commands /\ Begins(run[p])
      /\ Left(run[p].todo) = {Head(run[p].todo)} \cup Left(n.todo)
      /\ Making(run[p].todo) => \A x \in Left(n.todo) : MakeRank(Head(run[p].todo)) < MakeRank(x)
      /\ Taking(run[p].todo) => Head(run[p].todo) \in Takes
  BY <1>1, Doing
<1>3. Scratch(run[p])
  BY <1>2 DEF Begins, Takes, Early
<1>4. Making(run[p].todo)
  BY <1>2, <1>3 DEF Begins
<1>5. "addTemp" \notin Left(run[p].todo)
  BY <1>2, <1>4 DEF Early, MakeRank
<1>6. run[p].temp # None /\ trees[run[p].temp] # None
  BY <1>2, <1>3, <1>5 DEF Scratch, Begins
<1>7. run[p].temp \in Temps /\ run[p].temp \in Paths
  BY <1>2, <1>6 DEF Commands, Paths
<1> QED BY <1>3, <1>5, <1>6, <1>7 DEF BootInv, TypeOK, GitTypes

LEMMA AtRun ==
    ASSUME BootInv, NEW p \in Procs, NEW step, At(p, step)
    PROVE  run[p].do = "run" /\ run[p].todo # <<>> /\ Head(run[p].todo) = step
BY DEF At

LEMMA StepVerify ==
    ASSUME BootInv, NEW p \in Procs, verify(p), Note, linked' = linked, lock' = lock PROVE BootInv' /\ Keeps
<1>1. PICK n : n = Done(p)
  OBVIOUS
<1>2. run[p].do = "run" /\ run[p].todo # <<>> /\ Head(run[p].todo) = "verify"
  BY AtRun DEF verify
<1>3. Better(trees, trees') /\ GitTypes'
  BY SameTrees DEF verify, git, BootInv, TypeOK, GitTypes
<1> QED BY <1>1, <1>2, <1>3, Completes DEF verify, git, Next1

LEMMA StepPush ==
    ASSUME BootInv, NEW p \in Procs, push(p), Note, linked' = linked, lock' = lock PROVE BootInv' /\ Keeps
<1>1. PICK n : n = Done(p)
  OBVIOUS
<1>2. run[p].do = "run" /\ run[p].todo # <<>> /\ Head(run[p].todo) = "push"
  BY AtRun DEF push
<1>3. Better(trees, trees') /\ GitTypes'
  BY SameTrees DEF push, BootInv, TypeOK, GitTypes
<1> QED BY <1>1, <1>2, <1>3, Completes DEF push, Next1

LEMMA StepCodeIgnore ==
    ASSUME BootInv, NEW p \in Procs, addCodeIgnore(p), Note, linked' = linked, lock' = lock PROVE BootInv' /\ Keeps
<1>1. PICK n : n = Done(p)
  OBVIOUS
<1>2. run[p].do = "run" /\ run[p].todo # <<>> /\ Head(run[p].todo) = "codeIgnore"
  BY AtRun DEF addCodeIgnore
<1>3. Covers(codeIgnore') /\ codeIgnore' \in Rules
  BY DEF addCodeIgnore, Ensured, Covers, Rules, BootInv, TypeOK, GitTypes
<1>4. Better(trees, trees') /\ GitTypes'
  BY <1>3, SameTrees DEF addCodeIgnore, BootInv, TypeOK, GitTypes
<1> QED BY <1>1, <1>2, <1>3, <1>4, Completes DEF addCodeIgnore, Next1

LEMMA StepIdentity ==
    ASSUME BootInv, NEW p \in Procs, identity(p), Note, linked' = linked, lock' = lock PROVE BootInv' /\ Keeps
<1>1. PICK n : n = Done(p)
  OBVIOUS
<1>2. run[p].do = "run" /\ run[p].todo # <<>> /\ Head(run[p].todo) = "identity"
  BY AtRun DEF identity
<1>3. /\ Better(trees, trees') /\ trees' \in [Paths -> Worktrees \cup {None}]
      /\ trees["board"] = None \/ trees'["board"].node
  <2>1. CASE trees["board"] = None
    BY <2>1, SameTrees DEF identity, BootInv, TypeOK, GitTypes
  <2>2. CASE trees["board"] # None
    <3>1. "board" \in Paths /\ trees["board"] \in Worktrees
      BY <2>2 DEF Paths, BootInv, TypeOK, GitTypes
    <3>2. PICK w : w = [trees["board"] EXCEPT !.node = TRUE]
      OBVIOUS
    <3>3. /\ w \in Worktrees /\ w.node /\ w.on = trees["board"].on /\ w.dir = trees["board"].dir
          /\ w.files = trees["board"].files /\ w.ignore = trees["board"].ignore
      BY <3>1, <3>2 DEF Worktrees
    <3>4. trees' = [trees EXCEPT !["board"] = w]
      BY <2>2, <3>2, Zenon DEF identity
    <3> QED BY <2>2, <3>1, <3>3, <3>4, WriteInto DEF BootInv, TypeOK
  <2> QED BY <2>1, <2>2
<1>4. GitTypes'
  BY <1>3 DEF identity, BootInv, TypeOK, GitTypes
<1> QED BY <1>1, <1>2, <1>3, <1>4, Completes DEF identity, Next1

LEMMA StepDataIgnore ==
    ASSUME BootInv, NEW p \in Procs, dataIgnore(p), Note, linked' = linked, lock' = lock PROVE BootInv' /\ Keeps
<1>1. PICK n : n = Done(p)
  OBVIOUS
<1>2. run[p].do = "run" /\ run[p].todo # <<>> /\ Head(run[p].todo) = "dataIgnore"
  BY AtRun DEF dataIgnore
<1>3. PICK at : at = IF run[p].temp = None THEN "board" ELSE run[p].temp
  OBVIOUS
<1>4. at \in Paths
  BY <1>2, <1>3, Acting DEF Paths, Commands
<1>5. /\ Better(trees, trees') /\ trees' \in [Paths -> Worktrees \cup {None}]
      /\ trees[at] = None \/ ~(trees[at].dir \/ occupied) \/ Covers(trees'[at].ignore)
  <2>1. CASE ~(trees[at] # None /\ (trees[at].dir \/ occupied))
    BY <2>1, <1>3, SameTrees DEF dataIgnore, BootInv, TypeOK, GitTypes
  <2>2. CASE trees[at] # None /\ (trees[at].dir \/ occupied)
    <3>1. trees[at] \in Worktrees
      BY <2>2, <1>4 DEF BootInv, TypeOK, GitTypes
    <3>2. PICK w : w = [trees[at] EXCEPT !.ignore = Ensured(@)]
      OBVIOUS
    <3>5. Ensured(trees[at].ignore) \in Rules /\ Covers(Ensured(trees[at].ignore))
      BY <3>1 DEF Worktrees, Ensured, Covers, Rules
    <3>3. /\ w \in Worktrees /\ Covers(w.ignore) /\ w.on = trees[at].on /\ w.dir = trees[at].dir
          /\ w.files = trees[at].files /\ w.node = trees[at].node
      BY <3>1, <3>2, <3>5 DEF Worktrees
    <3>4. trees' = [trees EXCEPT ![at] = w]
      BY <2>2, <3>2, <1>3, Zenon DEF dataIgnore
    <3> QED BY <1>4, <2>2, <3>1, <3>3, <3>4, WriteInto DEF BootInv, TypeOK
  <2> QED BY <2>1, <2>2
<1>6. GitTypes'
  BY <1>5 DEF dataIgnore, BootInv, TypeOK, GitTypes
<1> QED BY <1>1, <1>2, <1>3, <1>5, <1>6, Completes DEF dataIgnore, Next1

LEMMA StepScaffold ==
    ASSUME BootInv, NEW p \in Procs, scaffold(p), Note, linked' = linked, lock' = lock PROVE BootInv' /\ Keeps
<1>1. PICK n : n = Done(p)
  OBVIOUS
<1>2. run[p].do = "run" /\ run[p].todo # <<>> /\ Head(run[p].todo) = "scaffold"
  BY AtRun DEF scaffold
<1>3. PICK at : at = run[p].temp
  OBVIOUS
<1>4. at \in Temps /\ at \in Paths /\ trees[at] \in Worktrees /\ trees[at] # None
  BY <1>2, <1>3, OwnTree, NamesAssumption DEF Early
<1>10. trees[at].dir
  BY <1>4 DEF BootInv, Whole
<1>5. PICK w : w = [trees[at] EXCEPT !.files = TRUE, !.ignore = "anchored"]
  OBVIOUS
<1>6. /\ w \in Worktrees /\ Covers(w.ignore) /\ w.files /\ w.on = trees[at].on /\ w.dir = trees[at].dir
      /\ w.node = trees[at].node
  BY <1>4, <1>5 DEF Worktrees, Rules, Covers
<1>7. trees' = [trees EXCEPT ![at] = w]
  <2>1. trees' = [trees EXCEPT ![at].files = TRUE, ![at].ignore = "anchored"]
    BY <1>3 DEF scaffold
  <2>2. trees \in [Paths -> Worktrees \cup {None}]
    BY DEF BootInv, TypeOK, GitTypes
  <2> QED BY <1>4, <1>5, <2>1, <2>2
<1>8. Better(trees, trees') /\ trees' \in [Paths -> Worktrees \cup {None}] /\ trees'[at] = w
  BY <1>4, <1>6, <1>7, <1>10, WriteInto DEF BootInv, TypeOK
<1>9. GitTypes'
  BY <1>8 DEF scaffold, BootInv, TypeOK, GitTypes
<1> QED BY <1>1, <1>2, <1>3, <1>6, <1>8, <1>9, Completes DEF scaffold, Next1

(* The steps that make a board: a worktree, on a branch with no commit     *)
(* yet, and the commit.                                                    *)
LEMMA StepAddTemp ==
    ASSUME BootInv, NEW p \in Procs, addTemp(p), Note, linked' = linked, lock' = lock PROVE BootInv' /\ Keeps
<1>1. PICK r, n : r = run[p] /\ n = Done(p)
  OBVIOUS
<1>2. r.do = "run" /\ r.todo # <<>> /\ Head(r.todo) = "addTemp"
  BY <1>1, AtRun DEF addTemp
<1>3. PICK t \in Temps :
          /\ trees[t] = None
          /\ trees' = [trees EXCEPT ![t] = Tree("detached", FALSE, "none")]
          /\ run' = [run EXCEPT ![p] = [Done(p) EXCEPT !.temp = t]]
  BY DEF addTemp
<1>4. PICK w, m : w = Tree("detached", FALSE, "none") /\ m = [n EXCEPT !.temp = t]
  OBVIOUS
<1> DEFINE L == Left(r.todo)
           T == Left(n.todo)
<1>5. /\ r \in Commands /\ Begins(r) /\ Reaches(r) /\ OwnsBranch(r) /\ OwnsTree(r)
      /\ n \in Commands /\ n.do = "run"
      /\ n.madeBranch = r.madeBranch /\ n.madeTree = r.madeTree
      /\ L = {"addTemp"} \cup T
      /\ Making(r.todo) => Making(n.todo) /\ \A x \in T : MakeRank("addTemp") < MakeRank(x)
  BY <1>1, <1>2, Doing
<1>6. /\ m \in Commands /\ m.do = "run" /\ m.temp = t /\ m.todo = n.todo
      /\ m.madeBranch = r.madeBranch /\ m.madeTree = r.madeTree
  BY <1>4, <1>5 DEF Commands
<1>7. w \in Worktrees /\ w.on = "detached" /\ w.dir /\ w # None
  <2>1. w = [on |-> "detached", dir |-> TRUE, files |-> FALSE, ignore |-> "none", node |-> FALSE]
    BY <1>4 DEF Tree
  <2>2. w \in Worktrees
    BY <2>1 DEF Worktrees, Rules
  <2> QED BY <2>1, <2>2, NamesAssumption
<1>8. t \in Paths /\ t # "board" /\ t # "inside" /\ t # None /\ "board" \in Paths /\ "inside" \in Paths
  BY NamesAssumption DEF Paths
<1>9. trees \in [Paths -> Worktrees \cup {None}]
  BY DEF BootInv, TypeOK, GitTypes
<1>10. /\ trees' \in [Paths -> Worktrees \cup {None}] /\ trees'[t] = w
       /\ \A x \in Paths : x # t => trees'[x] = trees[x]
  BY <1>3, <1>4, <1>7, <1>8, <1>9
<1>11. UNCHANGED <<branch, tracking, remote, occupied, codeIgnore, count>>
  BY DEF addTemp
<1>12. GitTypes'
  BY <1>10, <1>11 DEF BootInv, TypeOK, GitTypes
<1>13. Things' = Things \cup {t} /\ t \notin Things
  <2>1. t \notin {"branch", "directory", "linked"}
    BY NamesAssumption
  <2>2. Things' = {x \in Paths : trees'[x] # None} \cup (IF branch = None THEN {} ELSE {"branch"})
                  \cup (IF occupied THEN {"directory"} ELSE {})
                  \cup (IF linked = None THEN {} ELSE {"linked"})
    BY <1>11 DEF Things
  <2>3. {x \in Paths : trees'[x] # None} = {x \in Paths : trees[x] # None} \cup {t}
    BY <1>7, <1>8, <1>10
  <2> QED BY <1>3, <2>1, <2>2, <2>3 DEF Things
<1>14. made' = made \cup {t}
  BY <1>13 DEF Note
<1>15. Keeps
  <2>1. branch # None => IsPrefix(branch, branch)
    BY SamePrefix DEF BootInv, TypeOK, GitTypes
  <2> QED BY <2>1, <1>11, <1>13 DEF Keeps
<1> HIDE DEF L, T
<1>16. Scratch(r) /\ Making(r.todo) /\ Scratch(m)
  BY <1>5, <1>6, <1>8 DEF Scratch, Begins, L
<1>17. /\ trees["board"] = None /\ trees["inside"] = None /\ "attach" \in T /\ "identity" \in T
       /\ Early \subseteq T /\ "addTemp" \notin T /\ ~CheckedOut
       /\ branch = None <=> "commit" \in T
  <2>1. "addTemp" \notin T
    BY <1>5, <1>16 DEF MakeRank
  <2> QED BY <2>1, <1>5, <1>16 DEF Begins, L, Early
<1>18. ~CheckedOut'
  BY <1>7, <1>8, <1>10, <1>17 DEF CheckedOut
<1>19. Whole'
  <2>1. \A x \in Paths : trees'[x] # None /\ x # t => trees[x] # None /\ trees'[x] = trees[x]
    BY <1>10
  <2>2. \A x \in Paths, y \in Paths : x # y /\ On(x, "data")' /\ trees'[y] # None
            => y \in Temps /\ On(y, "detached")'
    BY <1>18 DEF On, CheckedOut
  <2>3. \A x \in Temps : trees'[x] # None => trees'[x].dir
    BY <1>7, <1>10 DEF BootInv, Whole, Paths
  <2>4. \A x \in Paths : trees'[x] # None /\ ~trees'[x].dir
            => trees'[x].on = "data" /\ ~trees'[x].files
    BY <1>7, <1>10 DEF BootInv, Whole
  <2>5. trees'["board"] = None /\ trees'["inside"] = None
    BY <1>8, <1>10, <1>17
  <2> QED BY <2>2, <2>3, <2>4, <2>5 DEF Whole, On
<1>20. Begins(m)'
  <2>1. trees'["board"] = None /\ trees'["inside"] = None
    BY <1>8, <1>10, <1>17
  <2>2. Making(m.todo)
    BY <1>5, <1>6, <1>16
  <2> QED BY <1>6, <1>7, <1>10, <1>11, <1>16, <1>17, <1>18, <2>1, <2>2 DEF Begins, Scratch, T, Early
<1>21. Reaches(m)'
  <2>1. "codeIgnore" \notin T => Covers(codeIgnore')
    BY <1>5, <1>11 DEF Reaches, L
  <2>2. "fastForward" \notin T
    BY <1>5, <1>16 DEF Making, Makes, T
  <2> QED BY <1>6, <1>17, <2>1, <2>2 DEF Reaches, T
<1>22. OwnsTemp(m)' /\ OwnsBranch(m)' /\ OwnsTree(m)'
  BY <1>5, <1>6, <1>8, <1>10, <1>11, <1>14, <1>17 DEF OwnsTemp, OwnsBranch, OwnsTree, On
<1>23. Fits(m)'
  BY <1>6, <1>20, <1>21, <1>22 DEF Fits
<1>24. run' = [run EXCEPT ![p] = m]
  BY <1>1, <1>3, <1>4
<1> QED BY <1>1, <1>2, <1>6, <1>12, <1>15, <1>19, <1>23, <1>24, Onward

LEMMA StepOrphan ==
    ASSUME BootInv, NEW p \in Procs, orphan(p), Note, linked' = linked, lock' = lock PROVE BootInv' /\ Keeps
<1>1. PICK r, n : r = run[p] /\ n = Done(p)
  OBVIOUS
<1>2. r.do = "run" /\ r.todo # <<>> /\ Head(r.todo) = "orphan"
  BY <1>1, AtRun DEF orphan
<1>3. PICK t, m, w : /\ t = r.temp /\ m = [n EXCEPT !.madeBranch = TRUE]
                     /\ w = [trees[t] EXCEPT !.on = "data"]
  OBVIOUS
<1> DEFINE L == Left(r.todo)
           T == Left(n.todo)
<1>4. /\ r \in Commands /\ Begins(r) /\ Reaches(r) /\ OwnsTemp(r) /\ OwnsBranch(r) /\ OwnsTree(r)
      /\ n \in Commands /\ n.do = "run" /\ n.temp = t
      /\ n.madeTree = r.madeTree
      /\ L = {"orphan"} \cup T
      /\ Making(r.todo) => Making(n.todo) /\ \A x \in T : MakeRank("orphan") < MakeRank(x)
  BY <1>1, <1>2, <1>3, Doing
<1>5. /\ m \in Commands /\ m.do = "run" /\ m.temp = t /\ m.todo = n.todo
      /\ m.madeBranch /\ m.madeTree = r.madeTree
  BY <1>3, <1>4 DEF Commands
<1>6. Scratch(r) /\ "addTemp" \notin L /\ t \in Temps /\ t \in Paths /\ trees[t] \in Worktrees
  BY <1>1, <1>2, <1>3, OwnTree DEF Early
<1>7. /\ w \in Worktrees /\ w.on = "data" /\ w.dir = trees[t].dir /\ w.files = trees[t].files
      /\ w.ignore = trees[t].ignore /\ w # None /\ trees[t] # None
  BY <1>3, <1>6, NamesAssumption DEF Worktrees
<1>8. t # "board" /\ t # "inside" /\ t # None /\ "board" \in Paths /\ "inside" \in Paths
  BY <1>6, NamesAssumption DEF Paths
<1>9. trees' = [trees EXCEPT ![t] = w]
  BY <1>1, <1>3 DEF orphan
<1>10. /\ trees' \in [Paths -> Worktrees \cup {None}] /\ trees'[t] = w
       /\ \A x \in Paths : x # t => trees'[x] = trees[x]
  BY <1>6, <1>7, <1>9 DEF BootInv, TypeOK, GitTypes
<1>11. UNCHANGED <<branch, tracking, remote, occupied, codeIgnore, count>> /\ branch = None
  BY DEF orphan
<1>12. GitTypes'
  BY <1>10, <1>11 DEF BootInv, TypeOK, GitTypes
<1>13. Things' = Things
  <2>1. {x \in Paths : trees'[x] # None} = {x \in Paths : trees[x] # None}
    BY <1>7, <1>10
  <2> QED BY <1>11, <2>1 DEF Things
<1>14. made' = made /\ Keeps
  BY <1>11, <1>13 DEF Note, Keeps
<1> HIDE DEF L, T
<1>15. /\ trees["board"] = None /\ trees["inside"] = None /\ "attach" \in L /\ "identity" \in L
       /\ ~CheckedOut /\ Making(n.todo) /\ T \subseteq Makes /\ "orphan" \notin T
       /\ branch = None <=> "commit" \in L
  <2>1. Making(r.todo) /\ "orphan" \in L
    BY <1>4, <1>6 DEF Begins
  <2>2. "orphan" \notin T /\ Making(n.todo)
    BY <1>4, <2>1 DEF MakeRank
  <2> QED BY <2>1, <2>2, <1>4, <1>6 DEF Begins, L, T, Making
<1>16. "attach" \in T /\ "identity" \in T /\ "commit" \in T /\ "addTemp" \notin T
  BY <1>4, <1>6, <1>11, <1>15
<1>17. trees'["board"] = None /\ trees'["inside"] = None
  BY <1>8, <1>10, <1>15
<1>18. Whole'
  <2>1. \A x \in Paths : x # t /\ trees'[x] # None => x \in Temps /\ trees'[x].on = "detached"
    BY <1>10, <1>15, <1>17 DEF CheckedOut, Paths, BootInv, TypeOK, GitTypes, Worktrees
  <2>2. \A x \in Paths, y \in Paths : x # y /\ On(x, "data")' /\ trees'[y] # None
            => y \in Temps /\ On(y, "detached")'
    BY <2>1 DEF On
  <2>3. \A x \in Temps : trees'[x] # None => trees'[x].dir
    BY <1>6, <1>7, <1>10 DEF BootInv, Whole, Paths
  <2>4. \A x \in Paths : trees'[x] # None /\ ~trees'[x].dir
            => trees'[x].on = "data" /\ ~trees'[x].files
    BY <1>7, <1>10 DEF BootInv, Whole
  <2> QED BY <2>2, <2>3, <2>4, <1>17 DEF Whole, On
<1>19. Begins(m)'
  <2>1. /\ trees'[t] # None /\ trees'[t].on = "data"
        /\ "scaffold" \notin T => trees'[t].files /\ Covers(trees'[t].ignore)
    BY <1>3, <1>4, <1>6, <1>7, <1>8, <1>10 DEF Begins, L
  <2>2. Scratch(m)'
    BY <1>5, <1>8 DEF Scratch
  <2> QED BY <1>5, <1>8, <1>11, <1>15, <1>16, <1>17, <2>1, <2>2 DEF Begins, T
<1>20. Reaches(m)'
  <2>1. "codeIgnore" \notin T => Covers(codeIgnore')
    BY <1>4, <1>11 DEF Reaches, L
  <2>2. "fastForward" \notin T
    BY <1>15 DEF Makes
  <2> QED BY <1>5, <1>16, <2>1, <2>2 DEF Reaches, T
<1>21. OwnsTemp(m)' /\ OwnsBranch(m)' /\ OwnsTree(m)'
  BY <1>3, <1>4, <1>5, <1>8, <1>10, <1>11, <1>14, <1>15, <1>17 DEF OwnsTemp, OwnsBranch, OwnsTree, On
<1>22. Fits(m)'
  BY <1>5, <1>19, <1>20, <1>21 DEF Fits
<1>23. run' = [run EXCEPT ![p] = m]
  BY <1>1, <1>3 DEF orphan
<1> QED BY <1>1, <1>2, <1>5, <1>12, <1>14, <1>18, <1>22, <1>23, Onward

LEMMA StepCommit ==
    ASSUME BootInv, NEW p \in Procs, commit(p), Note, linked' = linked, lock' = lock PROVE BootInv' /\ Keeps
<1>1. PICK r, n : r = run[p] /\ n = Done(p)
  OBVIOUS
<1>2. r.do = "run" /\ r.todo # <<>> /\ Head(r.todo) = "commit"
  BY <1>1, AtRun DEF commit
<1>3. PICK t, c : /\ t = r.temp
                  /\ c = [n |-> count + 1, board |-> TRUE, project |-> r.project, rule |-> trees[t].ignore]
  OBVIOUS
<1> DEFINE L == Left(r.todo)
           T == Left(n.todo)
<1>4. /\ r \in Commands /\ Begins(r) /\ Reaches(r) /\ OwnsTemp(r) /\ OwnsBranch(r) /\ OwnsTree(r)
      /\ n \in Commands /\ n.do = "run" /\ n.temp = t
      /\ n.madeTree = r.madeTree /\ n.madeBranch = r.madeBranch
      /\ L = {"commit"} \cup T
      /\ Making(r.todo) => Making(n.todo) /\ \A x \in T : MakeRank("commit") < MakeRank(x)
  BY <1>1, <1>2, <1>3, Doing
<1>5. Scratch(r) /\ "addTemp" \notin L /\ t \in Temps /\ t \in Paths /\ trees[t] \in Worktrees
  BY <1>1, <1>2, <1>3, OwnTree DEF Early
<1>6. t # None /\ trees[t] # None
  BY <1>5, NamesAssumption DEF Paths
<1>7. Making(r.todo) /\ "commit" \in L
  BY <1>4, <1>5 DEF Begins
<1> HIDE DEF L, T
<1>8. /\ trees["board"] = None /\ trees["inside"] = None /\ "attach" \in L /\ "identity" \in L
      /\ branch = None /\ Making(n.todo) /\ T \subseteq Makes
  BY <1>4, <1>5, <1>7 DEF Begins, L, T, Making
<1>9. /\ "attach" \in T /\ "identity" \in T /\ "commit" \notin T /\ "addTemp" \notin T
      /\ "orphan" \notin T /\ "scaffold" \notin T /\ "orphan" \notin L /\ "scaffold" \notin L
  BY <1>4, <1>5, <1>7, <1>8 DEF MakeRank
<1>10. c \in Revisions /\ c.board
  <2>1. count \in Nat /\ trees[t].ignore \in Rules /\ r.project \in Projects
    BY <1>4, <1>5 DEF BootInv, TypeOK, GitTypes, Worktrees, Commands
  <2> QED BY <1>3, <2>1 DEF Revisions
<1>11. branch' = <<c>> /\ branch' \in Histories /\ branch' # None /\ count' \in Nat
  <2>1. branch' = Append(<<>>, c)
    BY <1>1, <1>3, <1>8, Zenon DEF commit
  <2>2. <<c>> = Append(<<>>, c)
    OBVIOUS
  <2>3. <<c>> \in Histories
    BY <1>10, FirstHistory
  <2>4. branch' = <<c>>
    BY <2>1, <2>2, Zenon
  <2>5. count' \in Nat
    BY DEF commit, BootInv, TypeOK, GitTypes
  <2> QED BY <2>3, <2>4, <2>5, NamesAssumption, Zenon
<1>12. UNCHANGED <<tracking, remote, trees, occupied, codeIgnore>>
  BY DEF commit
<1>13. GitTypes'
  BY <1>11, <1>12 DEF BootInv, TypeOK, GitTypes
<1>14. Things' = Things \cup {"branch"}
  BY <1>8, <1>11, <1>12 DEF Things
<1>15. Keeps /\ made \subseteq made' /\ ("branch" \in made' \/ "branch" \in Things)
  BY <1>8, <1>14 DEF Keeps, Note
<1>16. "branch" \notin Things
  BY <1>8, NamesAssumption DEF Things, Paths
<1>17. Whole'
  BY <1>8, <1>11, <1>12 DEF BootInv, Whole, On
<1>18. Begins(n)'
  <2>1. Scratch(n)'
    BY <1>4, <1>6 DEF Scratch
  <2>2. trees[t].on = "data" /\ trees[t].files /\ Covers(trees[t].ignore)
    BY <1>3, <1>4, <1>6, <1>9 DEF Begins, L
  <2> QED BY <1>4, <1>6, <1>8, <1>9, <1>11, <1>12, <2>1, <2>2 DEF Begins, T
<1>19. Reaches(n)'
  <2>1. "codeIgnore" \notin T => Covers(codeIgnore')
    BY <1>4, <1>12 DEF Reaches, L
  <2>2. "fastForward" \notin T
    BY <1>8 DEF Makes
  <2> QED BY <1>9, <2>1, <2>2 DEF Reaches, T
<1>20. OwnsTemp(n)' /\ OwnsBranch(n)' /\ OwnsTree(n)'
  BY <1>3, <1>4, <1>8, <1>12, <1>15, <1>16 DEF OwnsTemp, OwnsBranch, OwnsTree, On
<1>21. Fits(n)'
  BY <1>4, <1>18, <1>19, <1>20 DEF Fits
<1>22. run' = [run EXCEPT ![p] = n]
  BY <1>1 DEF commit, Next1
<1> QED BY <1>1, <1>2, <1>4, <1>13, <1>15, <1>17, <1>21, <1>22, Onward

(* The steps that take a branch over: from the remote, and from behind it. *)
LEMMA StepTrack ==
    ASSUME BootInv, NEW p \in Procs, track(p), Note, linked' = linked, lock' = lock PROVE BootInv' /\ Keeps
<1>1. PICK r, n : r = run[p] /\ n = Done(p)
  OBVIOUS
<1>2. r.do = "run" /\ r.todo # <<>> /\ Head(r.todo) = "track"
  BY <1>1, AtRun DEF track
<1>3. PICK m : m = [n EXCEPT !.madeBranch = TRUE]
  OBVIOUS
<1> DEFINE L == Left(r.todo)
           T == Left(n.todo)
<1>4. /\ r \in Commands /\ Begins(r) /\ Reaches(r) /\ OwnsTemp(r) /\ OwnsTree(r)
      /\ n \in Commands /\ n.do = "run" /\ n.temp = r.temp /\ n.madeTree = r.madeTree
      /\ L = {"track"} \cup T
      /\ Taking(r.todo) => Taking(n.todo) /\ \A x \in T : TakeRank("track") < TakeRank(x)
      /\ Making(r.todo) => "track" \in Makes
  BY <1>1, <1>2, Doing
<1>5. /\ m \in Commands /\ m.do = "run" /\ m.temp = r.temp /\ m.todo = n.todo
      /\ m.madeBranch /\ m.madeTree = r.madeTree
  BY <1>3, <1>4 DEF Commands
<1>6. ~Scratch(r) /\ Taking(r.todo)
  BY <1>4 DEF Begins, Makes
<1>7. /\ branch = None /\ branch' = tracking /\ branch' \in Histories /\ branch' # None
      /\ UNCHANGED <<tracking, remote, trees, occupied, codeIgnore, count>>
  BY NamesAssumption DEF track, BootInv, TypeOK, GitTypes
<1>8. GitTypes'
  BY <1>7 DEF BootInv, TypeOK, GitTypes
<1>9. Things' = Things \cup {"branch"} /\ "branch" \notin Things
  BY <1>7, NamesAssumption DEF Things, Paths
<1>10. Keeps /\ made \subseteq made' /\ "branch" \in made' /\ ("board" \in made' => "board" \in made)
  BY <1>7, <1>9 DEF Keeps, Note
<1> HIDE DEF L, T
<1>11. trees["board"] = None /\ trees["inside"] = None
  BY <1>7 DEF BootInv, Whole
<1>12. Whole'
  BY <1>7, <1>11 DEF BootInv, Whole, On
<1>13. /\ r.temp = None /\ "addTemp" \notin T /\ "orphan" \notin T
       /\ Taking(n.todo) /\ T \subseteq Takes
       /\ "attach" \in L <=> "attach" \in T
       /\ "dataIgnore" \in L <=> "dataIgnore" \in T
       /\ "identity" \in L <=> "identity" \in T
       /\ "codeIgnore" \in L <=> "codeIgnore" \in T
       /\ "fastForward" \in T => "fastForward" \in L
  BY <1>4, <1>6 DEF Taking, Scratch, L, T, Takes
<1>14. "fastForward" \notin T
  BY <1>4, <1>7, <1>13 DEF Reaches, L
<1>15. Begins(m)'
  <2>1. ~Scratch(m)'
    BY <1>5, <1>6, <1>4, <1>13 DEF Scratch, T
  <2>2. "orphan" \notin T
    BY <1>13 DEF Takes
  <2> QED BY <1>4, <1>5, <1>6, <1>13, <2>1, <2>2 DEF Begins, T, L
<1>16. Reaches(m)'
  BY <1>4, <1>5, <1>7, <1>10, <1>13, <1>14 DEF Reaches, L, T, On, Attached
<1>17. OwnsTemp(m)' /\ OwnsBranch(m)' /\ OwnsTree(m)'
  BY <1>4, <1>5, <1>7, <1>10, <1>11 DEF OwnsTemp, OwnsBranch, OwnsTree, On
<1>18. Fits(m)'
  BY <1>5, <1>15, <1>16, <1>17 DEF Fits
<1>19. run' = [run EXCEPT ![p] = m]
  BY <1>1, <1>3 DEF track
<1> QED BY <1>1, <1>2, <1>5, <1>8, <1>10, <1>12, <1>18, <1>19, Onward

LEMMA StepFastForward ==
    ASSUME BootInv, NEW p \in Procs, fastForward(p), Note, linked' = linked, lock' = lock PROVE BootInv' /\ Keeps
<1>1. PICK r, n : r = run[p] /\ n = Done(p)
  OBVIOUS
<1>2. r.do = "run" /\ r.todo # <<>> /\ Head(r.todo) = "fastForward"
  BY <1>1, AtRun DEF fastForward
<1> DEFINE L == Left(r.todo)
           T == Left(n.todo)
<1>3. /\ r \in Commands /\ Begins(r) /\ Reaches(r) /\ OwnsTemp(r) /\ OwnsBranch(r) /\ OwnsTree(r)
      /\ n \in Commands /\ n.do = "run" /\ n.temp = r.temp /\ n.madeTree = r.madeTree
      /\ n.madeBranch = r.madeBranch
      /\ L = {"fastForward"} \cup T
      /\ Taking(r.todo) => Taking(n.todo) /\ \A x \in T : TakeRank("fastForward") < TakeRank(x)
      /\ Making(r.todo) => "fastForward" \in Makes
  BY <1>1, <1>2, Doing
<1>4. ~Scratch(r) /\ Taking(r.todo)
  BY <1>3 DEF Begins, Makes
<1>5. branch # None /\ tracking # None /\ (Attached \/ IsPrefix(branch, tracking))
  BY <1>3 DEF Reaches
<1>6. /\ branch' \in {branch, tracking} /\ branch \in Histories /\ tracking \in Histories
      /\ branch' \in Histories /\ branch' # None
      /\ UNCHANGED <<tracking, remote, trees, occupied, codeIgnore, count>>
  BY <1>5, NamesAssumption DEF fastForward, BootInv, TypeOK, GitTypes
<1>7. IsPrefix(branch, branch')
  <2>1. IsPrefix(branch, branch)
    BY <1>6, SamePrefix
  <2>2. branch' = branch \/ IsPrefix(branch, tracking)
    BY <1>5 DEF fastForward, CanFastForward
  <2> QED BY <1>6, <2>1, <2>2
<1>8. GitTypes'
  BY <1>6 DEF BootInv, TypeOK, GitTypes
<1>9. Things' = Things /\ Keeps /\ made' = made
  <2>1. Things' = Things
    BY <1>5, <1>6 DEF Things
  <2> QED BY <1>7, <2>1 DEF Keeps, Note
<1> HIDE DEF L, T
<1>10. Whole'
  BY <1>5, <1>6 DEF BootInv, Whole, On
<1>11. /\ r.temp = None /\ "addTemp" \notin T /\ "orphan" \notin T
       /\ Taking(n.todo) /\ T \subseteq Takes
       /\ "attach" \in L <=> "attach" \in T
       /\ "dataIgnore" \in L <=> "dataIgnore" \in T
       /\ "identity" \in L <=> "identity" \in T
       /\ "codeIgnore" \in L <=> "codeIgnore" \in T
  BY <1>3, <1>4 DEF Taking, Scratch, L, T, Takes
<1>12. "fastForward" \notin T
  BY <1>3, <1>4 DEF TakeRank
<1>13. Begins(n)'
  <2>1. ~Scratch(n)'
    BY <1>3, <1>4, <1>11 DEF Scratch, T
  <2> QED BY <1>3, <1>4, <1>11, <2>1 DEF Begins, T, L
<1>14. Reaches(n)'
  BY <1>3, <1>6, <1>9, <1>11, <1>12 DEF Reaches, L, T, On, Attached
<1>15. OwnsTemp(n)' /\ OwnsTree(n)'
  BY <1>3, <1>6, <1>9 DEF OwnsTemp, OwnsTree
<1>16. OwnsBranch(n)'
  BY <1>3, <1>5, <1>6, <1>9 DEF OwnsBranch, On
<1>17. Fits(n)'
  BY <1>3, <1>13, <1>14, <1>15, <1>16 DEF Fits
<1>18. run' = [run EXCEPT ![p] = n]
  BY <1>1 DEF fastForward, Next1
<1> QED BY <1>1, <1>2, <1>3, <1>8, <1>9, <1>10, <1>17, <1>18, Onward

(* The board gets its worktree: the one that was made for it, or a new one. *)
LEMMA StepAttach ==
    ASSUME BootInv, NEW p \in Procs, attach(p), Note, linked' = linked, lock' = lock PROVE BootInv' /\ Keeps
<1>1. PICK r, n : r = run[p] /\ n = Done(p)
  OBVIOUS
<1>2. r.do = "run" /\ r.todo # <<>> /\ Head(r.todo) = "attach"
  BY <1>1, AtRun DEF attach
<1>3. PICK t, m : t = r.temp /\ m = [n EXCEPT !.temp = None, !.madeTree = TRUE]
  OBVIOUS
<1> DEFINE L == Left(r.todo)
           T == Left(n.todo)
<1>4. /\ r \in Commands /\ Begins(r) /\ Reaches(r) /\ OwnsTemp(r) /\ OwnsBranch(r) /\ OwnsTree(r)
      /\ n \in Commands /\ n.do = "run" /\ n.temp = t
      /\ n.madeBranch = r.madeBranch
      /\ L = {"attach"} \cup T
      /\ Taking(r.todo) => Taking(n.todo) /\ \A x \in T : x \in Takes /\ TakeRank("attach") < TakeRank(x)
      /\ Making(r.todo) => Making(n.todo) /\ \A x \in T : x \in Makes /\ MakeRank("attach") < MakeRank(x)
  BY <1>1, <1>2, <1>3, Doing
<1>5. /\ m \in Commands /\ m.do = "run" /\ m.temp = None /\ m.todo = n.todo
      /\ m.madeBranch = r.madeBranch /\ m.madeTree
  BY <1>3, <1>4 DEF Commands
<1>6. /\ CanAttach(p) /\ trees["board"] = None
      /\ t = None => branch # None /\ ~occupied /\ ~CheckedOut
      /\ trees' = IF t = None THEN [trees EXCEPT !["board"] = Checkout]
                  ELSE [trees EXCEPT ![IF occupied THEN "inside" ELSE "board"] = trees[t], ![t] = None]
      /\ UNCHANGED <<branch, tracking, remote, occupied, codeIgnore, count>>
  BY <1>1, <1>3 DEF attach, CanAttach
<1>7. PICK at : at = IF t # None /\ occupied THEN "inside" ELSE "board"
  OBVIOUS
<1>8. PICK w : w = IF t = None THEN Checkout ELSE trees[t]
  OBVIOUS
<1>9. "board" \in Paths /\ "inside" \in Paths /\ at \in {"board", "inside"} /\ at \in Paths
      /\ trees \in [Paths -> Worktrees \cup {None}]
  BY <1>7 DEF Paths, BootInv, TypeOK, GitTypes
<1> HIDE DEF L, T
<1>10. /\ T \subseteq {"dataIgnore", "identity", "codeIgnore", "push"} /\ Taking(n.todo)
       /\ "identity" \in T
       /\ t = None => "dataIgnore" \in T
  <2>1. CASE Scratch(r)
    <3>1. Making(r.todo)
      BY <2>1, <1>4 DEF Begins
    <3>2. \A x \in T : 6 < MakeRank(x) /\ x \in {"identity", "codeIgnore", "push"}
      BY <3>1, <1>4 DEF MakeRank, Makes
    <3>3. Taking(n.todo)
      BY <3>1, <3>2, <1>4, SameEnd DEF T, Commands
    <3>4. "addTemp" \notin L
      BY <3>2, <1>4
    <3> QED BY <2>1, <3>2, <3>3, <3>4, <1>3, <1>4 DEF Begins, Scratch, L
  <2>2. CASE ~Scratch(r)
    <3>1. Taking(r.todo)
      BY <2>2, <1>4 DEF Begins
    <3>2. \A x \in T : x \in {"dataIgnore", "identity", "codeIgnore", "push"}
      BY <3>1, <1>4 DEF TakeRank, Takes
    <3> QED BY <2>2, <3>1, <3>2, <1>4 DEF Begins, L
  <2> QED BY <2>1, <2>2
<1>11. /\ w \in Worktrees /\ w # None /\ w.on = "data" /\ w.dir /\ w.files /\ branch # None
       /\ t # None => Covers(w.ignore)
  <2>1. CASE t = None
    <3>1. branch \in Histories
      BY <2>1, <1>6 DEF BootInv, TypeOK, GitTypes
    <3>2. branch[1].rule \in Rules
      <4>1. branch \in Seq(Revisions) /\ branch # <<>>
        BY <3>1 DEF Histories
      <4>2. branch[1] \in Revisions
        BY <4>1
      <4> QED BY <4>2 DEF Revisions
    <3>3. w = [on |-> "data", dir |-> TRUE, files |-> TRUE, ignore |-> branch[1].rule, node |-> FALSE]
      BY <2>1, <1>8 DEF Checkout, Tree
    <3>4. w \in Worktrees
      BY <3>2, <3>3 DEF Worktrees
    <3> QED BY <2>1, <3>3, <3>4, <1>6, NamesAssumption
  <2>2. CASE t # None
    <3>1. t \in Temps /\ t \in Paths
      BY <2>2, <1>3, <1>4 DEF Commands, Paths
    <3>2. "orphan" \notin L /\ "scaffold" \notin L /\ "commit" \notin L
      BY <1>4, <1>10
    <3>3. /\ trees[t] # None /\ trees[t].on = "data" /\ trees[t].files /\ Covers(trees[t].ignore)
          /\ branch # None
      BY <2>2, <3>2, <1>3, <1>4 DEF Begins, Scratch, L
    <3>4. trees[t].dir
      BY <3>1, <3>3 DEF BootInv, Whole
    <3> QED BY <2>2, <3>1, <3>3, <3>4, <1>8, <1>9
  <2> QED BY <2>1, <2>2
<1>12. /\ t # None => t \in Temps /\ t \in Paths /\ t # "board" /\ t # "inside" /\ trees[t] # None
                      /\ trees["inside"] = None
       /\ t = None => trees["inside"] = None
  <2>1. CASE t # None
    BY <2>1, <1>3, <1>4, NamesAssumption DEF Commands, Paths, Begins, Scratch
  <2>2. CASE t = None
    BY <2>2, <1>6, <1>9 DEF BootInv, Whole, CheckedOut, On
  <2> QED BY <2>1, <2>2
<1>13. /\ trees' \in [Paths -> Worktrees \cup {None}] /\ trees'[at] = w
       /\ \A x \in Paths : x # at => trees'[x] = IF x = t THEN None ELSE trees[x]
  <2>1. CASE t = None
    BY <2>1, <1>6, <1>7, <1>8, <1>9, <1>11, NamesAssumption
  <2>2. CASE t # None
    <3>1. trees' = [trees EXCEPT ![at] = w, ![t] = None]
      BY <2>2, <1>6, <1>7, <1>8
    <3>2. t # at
      BY <2>2, <1>9, <1>12
    <3> QED BY <2>2, <3>1, <3>2, <1>9, <1>11, <1>12
  <2> QED BY <2>1, <2>2
<1>14. GitTypes'
  BY <1>6, <1>13 DEF BootInv, TypeOK, GitTypes
<1>15. trees[at] = None
  BY <1>6, <1>9, <1>12
<1>16. /\ \A x \in Things : x # t => x \in Things'
       /\ t = None => Things \subseteq Things'
       /\ at \notin Things /\ at \in Things'
  <2>1. /\ \A x \in {y \in Paths : trees[y] # None} : x # t => x \in {y \in Paths : trees'[y] # None}
        /\ t = None => {y \in Paths : trees[y] # None} \subseteq {y \in Paths : trees'[y] # None}
        /\ at \in {y \in Paths : trees'[y] # None} /\ at \notin {y \in Paths : trees[y] # None}
    BY <1>9, <1>11, <1>12, <1>13, <1>15, NamesAssumption
  <2>2. at \notin {"branch", "directory", "linked"}
    BY <1>9
  <2> QED BY <2>1, <2>2, <1>6 DEF Things
<1>17. made' = made \cup (Things' \ Things)
  BY DEF Note
<1>18. Keeps
  <2>1. branch # None => IsPrefix(branch, branch)
    BY SamePrefix DEF BootInv, TypeOK, GitTypes
  <2>2. t # None => t \in made
    BY <1>3, <1>4 DEF OwnsTemp
  <2> QED BY <2>1, <2>2, <1>6, <1>16 DEF Keeps
<1>19. \A x \in Paths : x # at /\ trees'[x] # None =>
           /\ x \in Temps /\ x # t /\ trees'[x] = trees[x]
           /\ trees[x].on = "detached" /\ trees[x].dir
  <2> SUFFICES ASSUME NEW x \in Paths, x # at, trees'[x] # None
               PROVE  /\ x \in Temps /\ x # t /\ trees'[x] = trees[x]
                      /\ trees[x].on = "detached" /\ trees[x].dir
    OBVIOUS
  <2>1. x # t /\ trees'[x] = trees[x] /\ trees[x] \in Worktrees
    BY <1>9, <1>13
  <2>2. x \in Temps
    BY <2>1, <1>6, <1>12 DEF Paths
  <2>3. trees[x].on = "detached"
    <3>1. CASE t = None
      BY <3>1, <2>1, <1>6 DEF CheckedOut, Worktrees
    <3>2. CASE t # None
      BY <3>2, <2>1, <1>8, <1>11, <1>12 DEF BootInv, Whole, On
    <3> QED BY <3>1, <3>2
  <2> QED BY <2>1, <2>2, <2>3 DEF BootInv, Whole
<1>20. Whole'
  <2>1. \A x \in Temps : trees'[x] # None => trees'[x].dir
    BY <1>11, <1>13, <1>19 DEF Paths
  <2>2. \A x \in Paths : trees'[x] # None /\ ~trees'[x].dir
            => trees'[x].on = "data" /\ ~trees'[x].files
    BY <1>11, <1>13, <1>19
  <2>3. trees'["inside"] # None => On("inside", "data")'
    BY <1>9, <1>11, <1>13, <1>12 DEF On
  <2>4. \A x \in Paths, y \in Paths : x # y /\ On(x, "data")' /\ trees'[y] # None
            => y \in Temps /\ On(y, "detached")'
    BY <1>13, <1>19 DEF On
  <2>5. \A x \in {"board", "inside"} : trees'[x] # None => branch' # None
    BY <1>6, <1>9, <1>11, <1>12, <1>13
  <2> QED BY <2>1, <2>2, <2>3, <2>4, <2>5 DEF Whole
<1>21. Begins(m)'
  <2>1. ~Scratch(m)' /\ "attach" \notin T /\ "orphan" \notin T /\ "addTemp" \notin T
    BY <1>5, <1>10 DEF Scratch, T
  <2> QED BY <2>1, <1>5, <1>10 DEF Begins, T
<1>22. occupied => at = "inside"
  BY <1>6, <1>7
<1>23. ~occupied => at = "board"
  BY <1>7
<1>24. Reaches(m)'
  <2>1. "codeIgnore" \notin T => Covers(codeIgnore')
    BY <1>4, <1>6 DEF Reaches, L
  <2>2. occupied' \/ (On("board", "data")' /\ trees'["board"].dir)
    BY <1>6, <1>11, <1>13, <1>23 DEF On
  <2>3. "dataIgnore" \notin T => occupied' \/ Covers(trees'["board"].ignore)
    BY <1>6, <1>10, <1>11, <1>13, <1>23
  <2>4. occupied' \/ trees'["board"].files
    BY <1>6, <1>11, <1>13, <1>23
  <2> QED BY <1>5, <1>10, <2>1, <2>2, <2>3, <2>4 DEF Reaches, T
<1>25. OwnsTree(m)'
  <2>1. \A x \in {"board", "inside"} : trees'[x] = None \/ x \in made'
    BY <1>6, <1>9, <1>12, <1>13, <1>16, <1>17
  <2> QED BY <2>1, <1>6, <1>11, <1>13, <1>22, <1>23 DEF OwnsTree
<1>26. OwnsTemp(m)' /\ OwnsBranch(m)'
  <2>1. trees'["board"] = None \/ On("board", "data")'
    BY <1>6, <1>9, <1>11, <1>12, <1>13 DEF On
  <2> QED BY <2>1, <1>4, <1>5, <1>6, <1>17 DEF OwnsTemp, OwnsBranch
<1>27. Fits(m)'
  BY <1>5, <1>21, <1>24, <1>25, <1>26 DEF Fits
<1>28. run' = [run EXCEPT ![p] = m]
  BY <1>1, <1>3 DEF attach
<1> QED BY <1>1, <1>2, <1>5, <1>14, <1>18, <1>20, <1>27, <1>28, Onward

LEMMA EveryStep ==
    ASSUME BootInv, NEW p \in Procs, Step(p) PROVE BootInv' /\ Keeps
<1>1. Note /\ lock' = lock /\ linked' = linked
  BY DEF Step
<1>2. \/ addTemp(p) \/ orphan(p) \/ scaffold(p) \/ commit(p) \/ track(p) \/ fastForward(p)
      \/ attach(p) \/ verify(p) \/ dataIgnore(p) \/ identity(p) \/ addCodeIgnore(p) \/ push(p)
  BY DEF Step
<1> QED BY <1>1, <1>2, StepAddTemp, StepOrphan, StepScaffold, StepCommit, StepTrack, StepFastForward,
           StepAttach, StepVerify, StepDataIgnore, StepIdentity, StepCodeIgnore, StepPush

-----------------------------------------------------------------------------
(* A command up to its plan.                                               *)

LEMMA NothingHappens ==
    ASSUME BootInv, UNCHANGED <<git, count>>
    PROVE  GitTypes' /\ Whole' /\ Keeps
<1>1. branch # None => IsPrefix(branch, branch)
  BY SamePrefix DEF BootInv, TypeOK, GitTypes
<1>2. GitTypes' /\ Whole'
  BY DEF git, BootInv, TypeOK, GitTypes, Whole, On
<1>3. Things' = Things
  BY DEF git, Things
<1> QED BY <1>1, <1>2, <1>3 DEF Keeps, git

LEMMA FitsStill ==
    ASSUME UNCHANGED <<git, made>>, NEW r, Fits(r)
    PROVE  Fits(r)'
<1>1. Begins(r) => Begins(r)'
  BY DEF Begins, Scratch, CheckedOut, git
<1>2. Reaches(r) => Reaches(r)'
  BY DEF Reaches, On, Attached, git
<1>3. /\ OwnsTemp(r) => OwnsTemp(r)'
      /\ OwnsBranch(r) => OwnsBranch(r)'
      /\ OwnsTree(r) => OwnsTree(r)'
  BY DEF OwnsTemp, OwnsBranch, OwnsTree, On, git
<1> QED BY <1>1, <1>2, <1>3 DEF Fits

LEMMA Starting ==
    ASSUME BootInv, NEW p \in Procs, NEW what \in {"init", "push", "repair"},
           NEW project \in {Wanted, Other}, start(p, what, project)
    PROVE  BootInv'
<1>1. lock = None /\ lock' = p /\ made' = {} /\ UNCHANGED <<git, count>>
  BY DEF start
<1>2. PICK do : do = IF may.remote THEN "fetch" ELSE "plan"
  OBVIOUS
<1>3. PICK r : r = [Idle EXCEPT !.do = do, !.what = what, !.project = project]
  OBVIOUS
<1>4. do \in {"fetch", "plan"}
  BY <1>2
<1>5. /\ r \in Commands /\ r.do = do /\ r.temp = None /\ ~r.madeBranch /\ ~r.madeTree
  BY <1>3, <1>4, IdleCommand DEF Commands, Projects
<1>6. run' = [run EXCEPT ![p] = r]
  BY <1>2, <1>3 DEF start
<1>7. \A q \in Procs : run[q].do = "idle" /\ run[q] = Idle
  BY <1>1, NamesAssumption DEF BootInv, Exclusive
<1>8. GitTypes' /\ Whole'
  BY <1>1, NothingHappens
<1>9. /\ run' \in [Procs -> Commands] /\ run'[p] = r
      /\ \A q \in Procs : q # p => run'[q] = run[q]
  BY <1>5, <1>6 DEF BootInv, TypeOK
<1>10. TypeOK' /\ Exclusive'
  BY <1>1, <1>4, <1>5, <1>7, <1>8, <1>9 DEF TypeOK, Exclusive
<1>11. OnTheirWay'
  BY <1>1, <1>4, <1>5, <1>7, <1>9 DEF OnTheirWay, Fits
<1> QED BY <1>8, <1>10, <1>11 DEF BootInv

LEMMA Fetching ==
    ASSUME BootInv, NEW p \in Procs, fetchDataBranch(p) PROVE BootInv' /\ Keeps
<1>1. run[p].do = "fetch" /\ run[p] \in Commands /\ Fits(run[p])
  BY Acting DEF fetchDataBranch
<1>2. PICK n : n = [run[p] EXCEPT !.do = "plan"]
  OBVIOUS
<1>3. /\ n \in Commands /\ n.do = "plan" /\ n.temp = run[p].temp
      /\ n.madeBranch = run[p].madeBranch /\ n.madeTree = run[p].madeTree
  BY <1>1, <1>2 DEF Commands
<1>4. run' = [run EXCEPT ![p] = n] /\ lock' = lock
  BY <1>2 DEF fetchDataBranch
<1>5. tracking' \in {tracking, remote} /\ UNCHANGED <<branch, remote, trees, occupied, codeIgnore, linked, made, count>>
  BY DEF fetchDataBranch
<1>6. GitTypes' /\ Whole'
  BY <1>5 DEF BootInv, TypeOK, GitTypes, Whole, On
<1>7. Keeps
  <2>1. branch # None => IsPrefix(branch, branch)
    BY SamePrefix DEF BootInv, TypeOK, GitTypes
  <2>2. Things' = Things
    BY <1>5 DEF Things
  <2> QED BY <2>1, <2>2, <1>5 DEF Keeps
<1>8. Fits(n)'
  BY <1>1, <1>3, <1>5 DEF Fits
<1> QED BY <1>1, <1>3, <1>4, <1>6, <1>7, <1>8, Onward

(* What is known of the repository in the state it is found in.            *)
LEMMA Found ==
    ASSUME BootInv, NEW state, state = classifyBootstrapState
    PROVE  /\ state = "S0" => /\ branch = None /\ ~occupied /\ ~CheckedOut
                              /\ trees["board"] = None /\ trees["inside"] = None
           /\ state \in {"S3", "S8"} =>
                 BoardPath = "absent" \/ occupied \/ (On("board", "data") /\ trees["board"].dir)
           /\ state = "S3" => BoardPath # "absent"
           /\ Relation = "behind" => branch # None /\ tracking # None /\ IsPrefix(branch, tracking)
<1>1. "board" \in Paths /\ "inside" \in Paths
  BY DEF Paths
<1>2. state = "S0" => BoardPath = "absent" /\ branch = None /\ ~CheckedOut
  BY DEF classifyBootstrapState, Exists
<1>3. BoardPath = "absent" => ~occupied /\ (trees["board"] = None \/ ~trees["board"].dir)
  BY DEF BoardPath, Attached
<1>4. ~CheckedOut => /\ trees["inside"] = None
                     /\ trees["board"] # None => trees["board"].dir
  BY <1>1 DEF CheckedOut, BootInv, Whole, On
<1>5. BoardPath \in {"occupied", "absent", "correct", "wrong"}
  BY DEF BoardPath
<1>6. BoardPath = "correct" => occupied \/ (On("board", "data") /\ trees["board"].dir)
  BY DEF BoardPath, Attached, On
<1>7. state \in {"S3", "S8"} => BoardPath \in {"absent", "correct"}
  BY <1>5 DEF classifyBootstrapState
<1>8. state = "S3" => BoardPath # "absent"
  BY DEF classifyBootstrapState
<1>9. Relation = "behind" => branch # None /\ tracking # None /\ IsPrefix(branch, tracking)
  BY DEF Relation, Exists, RemoteExists
<1> QED BY <1>2, <1>3, <1>4, <1>6, <1>7, <1>8, <1>9

LEMMA RollbackIsOne == ASSUME NEW state PROVE Rollback(state) \in Undos
BY DEF Rollback, Undos

LEMMA Planning ==
    ASSUME BootInv, NEW p \in Procs, plan(p) PROVE BootInv' /\ Keeps
<1>1. PICK r, state, what : r = run[p] /\ state = classifyBootstrapState /\ what = r.what
  OBVIOUS
<1>2. /\ r.do = "plan" /\ r \in Commands /\ Fits(r) /\ r.temp = None /\ ~r.madeBranch /\ ~r.madeTree
      /\ "board" \notin made
  BY <1>1, Acting DEF plan, Fits
<1>3. PICK todo : todo = Plan(state, what) \o (IF what = "push" THEN <<"push">> ELSE <<>>)
  OBVIOUS
<1>4. PICK n : n = [r EXCEPT !.do = "run", !.todo = todo, !.undo = Rollback(state)]
  OBVIOUS
<1>5. UNCHANGED <<git, count, made>>
  BY DEF plan
<1>6. GitTypes' /\ Whole' /\ Keeps
  BY <1>5, NothingHappens
<1>7. \/ End(p)
      \/ Plan(state, what) # <<>> /\ run' = [run EXCEPT ![p] = n] /\ lock' = lock
  BY <1>1, <1>3, <1>4 DEF plan
<1>8. CASE End(p)
  BY <1>1, <1>2, <1>6, <1>8, Over
<1>9. CASE Plan(state, what) # <<>> /\ run' = [run EXCEPT ![p] = n] /\ lock' = lock
  <2>1. Planned(state, todo)
    <3>1. Plan(state, what) # <<>>
      BY <1>9
    <3> QED BY <3>1, <1>3, PlanShape
  <2>2. /\ n \in Commands /\ n.do = "run" /\ n.temp = None /\ ~n.madeBranch /\ ~n.madeTree
        /\ n.todo = todo
    BY <1>2, <1>4, <2>1, RollbackIsOne DEF Commands, Planned
  <2>3. /\ state = "S0" => /\ branch = None /\ ~occupied /\ ~CheckedOut
                           /\ trees["board"] = None /\ trees["inside"] = None
        /\ state \in {"S3", "S8"} =>
              BoardPath = "absent" \/ occupied \/ (On("board", "data") /\ trees["board"].dir)
        /\ state = "S3" => BoardPath # "absent"
        /\ Relation = "behind" => branch # None /\ tracking # None /\ IsPrefix(branch, tracking)
    BY <1>1, Found
  <2>4. Begins(n)
    <3>1. CASE state = "S0"
      BY <3>1, <2>1, <2>2, <2>3 DEF Begins, Scratch, Early, Planned
    <3>2. CASE state # "S0"
      <4>1. Taking(todo) /\ "addTemp" \notin Left(todo) /\ "orphan" \notin Left(todo)
        BY <3>2, <2>1 DEF Taking, Takes, Planned
      <4> QED BY <4>1, <2>1, <2>2 DEF Begins, Scratch, Planned
    <3> QED BY <3>1, <3>2
  <2>5. Reaches(n)
    BY <1>2, <2>1, <2>2, <2>3 DEF Reaches, Planned
  <2>6. Fits(n)
    BY <2>2, <2>4, <2>5 DEF Fits, OwnsTemp, OwnsBranch, OwnsTree
  <2>7. Fits(n)'
    BY <2>6, <1>5, FitsStill
  <2> QED BY <1>1, <1>2, <1>6, <1>9, <2>2, <2>7, Onward
<1> QED BY <1>7, <1>8, <1>9

-----------------------------------------------------------------------------
(* The end of a command, and its rollback.                                 *)

LEMMA Failing ==
    ASSUME BootInv, NEW p \in Procs, fail(p) PROVE BootInv' /\ Keeps
<1>1. run[p].do = "run" /\ run[p] \in Commands /\ Fits(run[p])
  BY Acting DEF fail
<1>2. UNCHANGED <<git, count, made>>
  BY DEF fail
<1>3. GitTypes' /\ Whole' /\ Keeps
  BY <1>2, NothingHappens
<1>4. PICK n : n = [run[p] EXCEPT !.do = "undo"]
  OBVIOUS
<1>5. End(p) \/ (run' = [run EXCEPT ![p] = n] /\ lock' = lock)
  BY <1>4 DEF fail
<1>6. CASE End(p)
  BY <1>1, <1>3, <1>6, Over
<1>7. CASE run' = [run EXCEPT ![p] = n] /\ lock' = lock
  <2>1. /\ n \in Commands /\ n.do = "undo" /\ n.temp = run[p].temp
        /\ n.madeBranch = run[p].madeBranch /\ n.madeTree = run[p].madeTree
    BY <1>1, <1>4 DEF Commands
  <2>2. Fits(n)
    BY <1>1, <2>1 DEF Fits, OwnsTemp, OwnsBranch, OwnsTree
  <2>3. Fits(n)'
    BY <2>2, <1>2, FitsStill
  <2> QED BY <1>1, <1>3, <1>7, <2>1, <2>3, Onward
<1> QED BY <1>5, <1>6, <1>7

LEMMA Ending ==
    ASSUME BootInv, NEW p \in Procs, finish(p) \/ giveUp(p) \/ Crash(p) PROVE BootInv' /\ Keeps
<1>1. run[p].do # "idle"
  BY DEF finish, giveUp, Crash, BootInv, Exclusive
<1>2. End(p) /\ UNCHANGED <<git, count>>
  BY DEF finish, giveUp, Crash
<1>3. GitTypes' /\ Whole' /\ Keeps
  BY <1>2, NothingHappens
<1> QED BY <1>1, <1>2, <1>3, Over

(* What is left of a rollback.                                             *)
LEMMA UndoTail ==
    ASSUME NEW u \in Undos, u # <<>>
    PROVE  /\ Tail(u) \in Undos /\ Left(Tail(u)) \subseteq Left(u) /\ Head(u) \in Left(u)
           /\ Head(u) = "detachBoard" => "detachBoard" \notin Left(Tail(u))
           /\ Head(u) = "removeTemp" => Left(Tail(u)) = {}
<1>1. CASE u = <<"removeTemp">>
  <2>1. Tail(u) = <<>> /\ Head(u) = "removeTemp"
    BY <1>1
  <2> QED BY <1>1, <2>1 DEF Undos, Left
<1>2. CASE u = <<"detachBoard">>
  <2>1. Tail(u) = <<>> /\ Head(u) = "detachBoard"
    BY <1>2
  <2> QED BY <1>2, <2>1 DEF Undos, Left
<1>3. CASE u = <<"detachBoard", "removeTemp">>
  <2>1. Tail(u) = <<"removeTemp">> /\ Head(u) = "detachBoard"
    BY <1>3
  <2> QED BY <1>3, <2>1 DEF Undos, Left
<1>4. CASE u = <<"deleteBranch", "detachBoard">>
  <2>1. Tail(u) = <<"detachBoard">> /\ Head(u) = "deleteBranch"
    BY <1>4
  <2> QED BY <1>4, <2>1 DEF Undos, Left
<1>5. CASE u = <<"deleteBranch", "detachBoard", "removeTemp">>
  <2>1. Tail(u) = <<"detachBoard", "removeTemp">> /\ Head(u) = "deleteBranch"
    BY <1>5
  <2> QED BY <1>5, <2>1 DEF Undos, Left
<1> QED BY <1>1, <1>2, <1>3, <1>4, <1>5 DEF Undos

LEMMA UndoneCommand ==
    ASSUME NEW r \in Commands, r.undo # <<>>, NEW n, n = [r EXCEPT !.undo = Tail(r.undo)]
    PROVE  /\ n \in Commands /\ n.do = r.do /\ n.temp = r.temp
           /\ n.madeBranch = r.madeBranch /\ n.madeTree = r.madeTree
           /\ Left(n.undo) \subseteq Left(r.undo) /\ Head(r.undo) \in Left(r.undo)
           /\ Head(r.undo) = "detachBoard" => "detachBoard" \notin Left(n.undo)
           /\ Head(r.undo) = "removeTemp" => Left(n.undo) = {}
<1>1. r.undo \in Undos
  BY DEF Commands
<1>2. /\ Tail(r.undo) \in Undos /\ Left(Tail(r.undo)) \subseteq Left(r.undo)
      /\ Head(r.undo) \in Left(r.undo)
      /\ Head(r.undo) = "detachBoard" => "detachBoard" \notin Left(Tail(r.undo))
      /\ Head(r.undo) = "removeTemp" => Left(Tail(r.undo)) = {}
  BY <1>1, UndoTail
<1>3. /\ n \in Commands /\ n.do = r.do /\ n.temp = r.temp
      /\ n.madeBranch = r.madeBranch /\ n.madeTree = r.madeTree
      /\ n.undo = Tail(r.undo)
  BY <1>2 DEF Commands
<1> QED BY <1>2, <1>3

(* The branch goes only when no worktree is on it, and so when there is no *)
(* board: one that the command has made is on it.                          *)
LEMMA UndoBranch ==
    ASSUME BootInv, NEW p \in Procs, deleteBranch(p), UNCHANGED <<lock, made, count>>
    PROVE  BootInv' /\ Keeps
<1>1. PICK r, n : r = run[p] /\ n = [r EXCEPT !.undo = Tail(r.undo)]
  OBVIOUS
<1>2. /\ r \in Commands /\ r.do = "undo" /\ OwnsTemp(r) /\ OwnsBranch(r)
      /\ "detachBoard" \in Left(r.undo) => OwnsTree(r)
      /\ n \in Commands /\ n.do = "undo" /\ n.temp = r.temp
      /\ n.madeBranch = r.madeBranch /\ n.madeTree = r.madeTree
      /\ Left(n.undo) \subseteq Left(r.undo)
  <2>1. r.do = "undo" /\ r.undo # <<>> /\ Head(r.undo) = "deleteBranch"
    BY <1>1 DEF deleteBranch, Undoing
  <2>2. r \in Commands /\ Fits(r)
    BY <1>1, <2>1, Acting
  <2>3. /\ OwnsTemp(r) /\ OwnsBranch(r)
        /\ "detachBoard" \in Left(r.undo) => OwnsTree(r)
    BY <2>1, <2>2 DEF Fits
  <2>4. /\ n \in Commands /\ n.do = r.do /\ n.temp = r.temp
        /\ n.madeBranch = r.madeBranch /\ n.madeTree = r.madeTree
        /\ Left(n.undo) \subseteq Left(r.undo) /\ Head(r.undo) \in Left(r.undo)
        /\ Head(r.undo) = "detachBoard" => "detachBoard" \notin Left(n.undo)
        /\ Head(r.undo) = "removeTemp" => Left(n.undo) = {}
    BY <1>1, <2>1, <2>2, UndoneCommand
  <2> QED BY <1>1, <2>1, <2>2, <2>3, <2>4
<1>3. UNCHANGED <<tracking, remote, trees, occupied, codeIgnore, linked>>
  BY DEF deleteBranch
<1>4. branch' = branch \/ (branch' = None /\ r.madeBranch /\ ~CheckedOut)
  BY <1>1 DEF deleteBranch
<1>5. GitTypes'
  BY <1>3, <1>4 DEF BootInv, TypeOK, GitTypes
<1>6. branch' # branch => trees["board"] = None /\ trees["inside"] = None
  BY <1>2, <1>4 DEF CheckedOut, OwnsBranch, On, BootInv, Whole, Paths
<1>7. Whole'
  BY <1>3, <1>6 DEF BootInv, Whole, On
<1>8. Keeps
  <2>1. branch # None => IsPrefix(branch, branch)
    BY SamePrefix DEF BootInv, TypeOK, GitTypes
  <2>2. branch' # branch => branch = None \/ "branch" \in made
    BY <1>2, <1>4 DEF OwnsBranch
  <2>3. Things \ Things' \subseteq made
    BY <1>3, <1>4, <2>2 DEF Things
  <2> QED BY <1>4, <2>1, <2>3 DEF Keeps
<1>9. OwnsTemp(n)' /\ OwnsBranch(n)' /\ (OwnsTree(r) => OwnsTree(n)')
  BY <1>2, <1>3, <1>4 DEF OwnsTemp, OwnsBranch, OwnsTree, On
<1>10. Fits(n)'
  BY <1>2, <1>9 DEF Fits, Left
<1>11. run' = [run EXCEPT ![p] = n]
  BY <1>1 DEF deleteBranch, Undone
<1> QED BY <1>1, <1>2, <1>5, <1>7, <1>8, <1>10, <1>11, Onward

LEMMA UndoBoard ==
    ASSUME BootInv, NEW p \in Procs, detachBoard(p), UNCHANGED <<lock, made, count>>
    PROVE  BootInv' /\ Keeps
<1>1. PICK r, n : r = run[p] /\ n = [r EXCEPT !.undo = Tail(r.undo)]
  OBVIOUS
<1>2. /\ r \in Commands /\ r.do = "undo" /\ OwnsTemp(r) /\ OwnsBranch(r) /\ OwnsTree(r)
      /\ n \in Commands /\ n.do = "undo" /\ n.temp = r.temp
      /\ n.madeBranch = r.madeBranch /\ n.madeTree = r.madeTree
      /\ "detachBoard" \notin Left(n.undo)
  <2>1. r.do = "undo" /\ r.undo # <<>> /\ Head(r.undo) = "detachBoard"
    BY <1>1 DEF detachBoard, Undoing
  <2>2. r \in Commands /\ Fits(r)
    BY <1>1, <2>1, Acting
  <2>3. /\ OwnsTemp(r) /\ OwnsBranch(r)
        /\ "detachBoard" \in Left(r.undo) => OwnsTree(r)
    BY <2>1, <2>2 DEF Fits
  <2>4. /\ n \in Commands /\ n.do = r.do /\ n.temp = r.temp
        /\ n.madeBranch = r.madeBranch /\ n.madeTree = r.madeTree
        /\ Left(n.undo) \subseteq Left(r.undo) /\ Head(r.undo) \in Left(r.undo)
        /\ Head(r.undo) = "detachBoard" => "detachBoard" \notin Left(n.undo)
        /\ Head(r.undo) = "removeTemp" => Left(n.undo) = {}
    BY <1>1, <2>1, <2>2, UndoneCommand
  <2> QED BY <1>1, <2>1, <2>2, <2>3, <2>4
<1>3. UNCHANGED <<branch, tracking, remote, codeIgnore>>
  BY DEF detachBoard
<1>4. "board" \in Paths /\ "inside" \in Paths /\ trees \in [Paths -> Worktrees \cup {None}]
  BY DEF Paths, BootInv, TypeOK, GitTypes
<1>5. \/ trees' = trees /\ occupied' = occupied
      \/ /\ r.madeTree /\ occupied' = FALSE
         /\ trees' = [x \in Paths |-> IF x \in {"board", "inside"} \cup Away THEN None ELSE trees[x]]
  BY <1>1 DEF detachBoard, removeWorktree
<1>13. linked' = linked \/ (linked' = None /\ "linked" \in Away)
  BY DEF detachBoard, removeWorktree
<1>6. /\ trees' \in [Paths -> Worktrees \cup {None}]
      /\ \A x \in Paths : trees'[x] # None => trees'[x] = trees[x]
      /\ \A x \in Paths : trees'[x] = trees[x] \/ (x \in {"board", "inside"} /\ r.madeTree) \/ x \in Away
  BY <1>4, <1>5
<1>7. GitTypes'
  BY <1>3, <1>5, <1>6, <1>13 DEF BootInv, TypeOK, GitTypes
<1>8. Whole'
  BY <1>3, <1>4, <1>6 DEF BootInv, Whole, On, Paths
<1>9. Keeps
  <2>1. branch # None => IsPrefix(branch, branch)
    BY SamePrefix DEF BootInv, TypeOK, GitTypes
  <2>2. \A x \in Paths : trees[x] # None => trees'[x] # None \/ x \in made \cup Away
    BY <1>2, <1>4, <1>6 DEF OwnsTree
  <2>3. occupied => occupied' \/ trees["inside"] # None
    BY <1>2, <1>5 DEF OwnsTree
  <2>4. Things \ Things' \subseteq
            made \cup Away \cup (IF trees["inside"] = None THEN {} ELSE {"directory"})
    BY <1>3, <1>13, <2>2, <2>3 DEF Things
  <2> QED BY <1>3, <2>1, <2>4 DEF Keeps
<1>10. OwnsTemp(n)' /\ OwnsBranch(n)'
  BY <1>2, <1>3, <1>4, <1>6 DEF OwnsTemp, OwnsBranch, On
<1>11. Fits(n)'
  BY <1>2, <1>10 DEF Fits, Left
<1>12. run' = [run EXCEPT ![p] = n]
  BY <1>1 DEF detachBoard, Undone
<1> QED BY <1>1, <1>2, <1>7, <1>8, <1>9, <1>11, <1>12, Onward

LEMMA UndoTemp ==
    ASSUME BootInv, NEW p \in Procs, removeTemp(p), UNCHANGED <<lock, made, count>>
    PROVE  BootInv' /\ Keeps
<1>1. PICK r, n, t : r = run[p] /\ n = [r EXCEPT !.undo = Tail(r.undo)] /\ t = r.temp
  OBVIOUS
<1>2. /\ r \in Commands /\ r.do = "undo" /\ OwnsTemp(r) /\ OwnsBranch(r)
      /\ n \in Commands /\ n.do = "undo" /\ n.temp = t
      /\ n.madeBranch = r.madeBranch /\ n.madeTree = r.madeTree
      /\ Left(n.undo) = {}
  <2>1. r.do = "undo" /\ r.undo # <<>> /\ Head(r.undo) = "removeTemp"
    BY <1>1 DEF removeTemp, Undoing
  <2>2. r \in Commands /\ Fits(r)
    BY <1>1, <2>1, Acting
  <2>3. /\ OwnsTemp(r) /\ OwnsBranch(r)
        /\ "detachBoard" \in Left(r.undo) => OwnsTree(r)
    BY <2>1, <2>2 DEF Fits
  <2>4. /\ n \in Commands /\ n.do = r.do /\ n.temp = r.temp
        /\ n.madeBranch = r.madeBranch /\ n.madeTree = r.madeTree
        /\ Left(n.undo) \subseteq Left(r.undo) /\ Head(r.undo) \in Left(r.undo)
        /\ Head(r.undo) = "detachBoard" => "detachBoard" \notin Left(n.undo)
        /\ Head(r.undo) = "removeTemp" => Left(n.undo) = {}
    BY <1>1, <2>1, <2>2, UndoneCommand
  <2> QED BY <1>1, <2>1, <2>2, <2>3, <2>4
<1>3. UNCHANGED <<branch, tracking, remote, occupied, codeIgnore>>
  BY DEF removeTemp
<1>4. /\ "board" \in Paths /\ "inside" \in Paths /\ trees \in [Paths -> Worktrees \cup {None}]
      /\ t # None => t \in Temps /\ t \in Paths /\ t # "board" /\ t # "inside"
  BY <1>1, <1>2, NamesAssumption DEF Paths, BootInv, TypeOK, GitTypes, Commands
<1>5. \/ trees' = trees
      \/ t # None /\ trees' = [x \in Paths |-> IF x \in {t} \cup Away THEN None ELSE trees[x]]
  BY <1>1 DEF removeTemp, removeWorktree
<1>13. linked' = linked \/ (linked' = None /\ "linked" \in Away)
  BY DEF removeTemp, removeWorktree
<1>6. /\ trees' \in [Paths -> Worktrees \cup {None}]
      /\ \A x \in Paths : trees'[x] # None => trees'[x] = trees[x]
      /\ \A x \in Paths : trees'[x] = trees[x] \/ (x = t /\ t # None) \/ x \in Away
  BY <1>4, <1>5
<1>7. GitTypes'
  BY <1>3, <1>6, <1>13 DEF BootInv, TypeOK, GitTypes
<1>8. Whole'
  BY <1>3, <1>4, <1>6 DEF BootInv, Whole, On, Paths
<1>9. Keeps
  <2>1. branch # None => IsPrefix(branch, branch)
    BY SamePrefix DEF BootInv, TypeOK, GitTypes
  <2>2. \A x \in Paths : trees[x] # None => trees'[x] # None \/ x \in made \cup Away
    BY <1>1, <1>2, <1>6 DEF OwnsTemp
  <2>3. Things \ Things' \subseteq made \cup Away
    BY <1>3, <1>13, <2>2 DEF Things
  <2> QED BY <1>3, <2>1, <2>3 DEF Keeps
<1>10. OwnsTemp(n)' /\ OwnsBranch(n)'
  BY <1>1, <1>2, <1>3, <1>4, <1>6 DEF OwnsTemp, OwnsBranch, On
<1>11. Fits(n)'
  BY <1>2, <1>10 DEF Fits, Left
<1>12. run' = [run EXCEPT ![p] = n]
  BY <1>1 DEF removeTemp, Undone
<1> QED BY <1>1, <1>2, <1>7, <1>8, <1>9, <1>11, <1>12, Onward

LEMMA EveryCommand ==
    ASSUME BootInv, NEW p \in Procs, Command(p) \/ Crash(p) PROVE BootInv' /\ Keeps
<1>1. CASE Undo(p)
  BY <1>1, UndoBranch, UndoBoard, UndoTemp DEF Undo
<1> QED BY <1>1, Fetching, Planning, EveryStep, Failing, Ending DEF Command

-----------------------------------------------------------------------------
(* The person, who waits for the commands, and the rest of the world.      *)

LEMMA InQuiet ==
    ASSUME BootInv, lock = None, UNCHANGED <<run, lock>>, GitTypes', Whole'
    PROVE  BootInv'
<1>1. \A q \in Procs : run[q].do = "idle" /\ run[q] = Idle
  BY NamesAssumption DEF BootInv, Exclusive
<1>2. TypeOK' /\ Exclusive'
  BY <1>1 DEF BootInv, TypeOK, Exclusive
<1>3. OnTheirWay'
  BY <1>1 DEF OnTheirWay, Fits
<1> QED BY <1>2, <1>3 DEF BootInv

LEMMA Following ==
    ASSUME BootInv, removeAbandoned \/ moveAway \/ switchBack \/ addRule PROVE BootInv' /\ lock = None
<1>1. Quiet /\ UNCHANGED <<tracking, remote, linked, lock, run, count>> /\ lock = None
  BY DEF removeAbandoned, moveAway, switchBack, addRule, Person, Quiet
<1>2. /\ "board" \in Paths /\ "inside" \in Paths /\ Temps \subseteq Paths
      /\ "board" \notin Temps /\ "inside" \notin Temps
      /\ trees \in [Paths -> Worktrees \cup {None}]
  BY NamesAssumption DEF Paths, BootInv, TypeOK, GitTypes
<1>3. CASE removeAbandoned
  <2>1. PICK t \in Abandoned :
            /\ trees' = [trees EXCEPT ![t] = None]
            /\ \/ UNCHANGED branch
               \/ trees[t].on = "data" /\ trees["board"] = None /\ branch' = None
    BY <1>3 DEF removeAbandoned
  <2>2. t \in Temps /\ t \in Paths /\ trees[t] # None /\ t # "board" /\ t # "inside"
    BY <2>1, <1>2 DEF Abandoned
  <2>3. /\ trees' \in [Paths -> Worktrees \cup {None}] /\ UNCHANGED <<occupied, codeIgnore>>
        /\ \A x \in Paths : trees'[x] # None => trees'[x] = trees[x]
    BY <2>1, <1>2, <1>3 DEF removeAbandoned
  <2>4. branch' = branch \/ (branch' = None /\ trees["board"] = None /\ trees["inside"] = None)
    <3>1. trees[t].on = "data" => trees["inside"] = None
      BY <2>2, <1>2 DEF BootInv, Whole, On
    <3> QED BY <2>1, <3>1
  <2>5. GitTypes'
    BY <1>1, <2>3, <2>4 DEF BootInv, TypeOK, GitTypes
  <2>6. Whole'
    BY <1>2, <2>3, <2>4 DEF BootInv, Whole, On, Paths
  <2> QED BY <1>1, <2>5, <2>6, InQuiet
<1>4. CASE moveAway
  <2>1. occupied' = FALSE /\ UNCHANGED <<branch, codeIgnore>>
    BY <1>4 DEF moveAway
  <2>2. CASE trees["inside"] = None
    <3>1. trees' = trees
      BY <1>4, <2>2 DEF moveAway
    <3>2. GitTypes' /\ Whole'
      BY <1>1, <2>1, <3>1 DEF BootInv, TypeOK, GitTypes, Whole, On
    <3> QED BY <1>1, <3>2, InQuiet
  <2>3. CASE trees["inside"] # None
    <3>1. PICK w : w = Gone(trees["inside"])
      OBVIOUS
    <3>2. trees["inside"] \in Worktrees
      BY <1>2, <2>3
    <3>3. /\ w \in Worktrees /\ w.on = trees["inside"].on /\ ~w.dir
          /\ ~w.files
      BY <3>1, <3>2 DEF Worktrees, Gone, Rules
    <3>4. w # None /\ w.on = "data"
      BY <2>3, <3>3, NamesAssumption DEF BootInv, Whole, On
    <3>5. trees' = [trees EXCEPT !["inside"] = w]
      BY <1>4, <2>3, <3>1, Zenon DEF moveAway
    <3>6. /\ trees' \in [Paths -> Worktrees \cup {None}] /\ trees'["inside"] = w
          /\ \A x \in Paths : x # "inside" => trees'[x] = trees[x]
      BY <1>2, <3>3, <3>5
    <3>7. GitTypes'
      BY <1>1, <2>1, <3>6 DEF BootInv, TypeOK, GitTypes
    <3>8. \A x \in Paths : (trees'[x] = None <=> trees[x] = None) /\ (trees[x] # None => trees'[x].on = trees[x].on)
      BY <2>3, <3>3, <3>4, <3>6
    <3>9. Whole'
      BY <1>2, <2>1, <3>3, <3>4, <3>6, <3>8 DEF BootInv, Whole, On
    <3> QED BY <1>1, <3>7, <3>9, InQuiet
  <2> QED BY <2>2, <2>3
<1>5. CASE switchBack
  <2>1. UNCHANGED <<branch, occupied, codeIgnore>> /\ inspectBootstrap = "wrong"
    BY <1>5 DEF switchBack
  <2>2. Abandoned = {} /\ trees["board"] # None
    <3>1. Abandoned = {}
      BY <2>1 DEF inspectBootstrap
    <3>2. CASE trees["board"] = None
      <4>1. ~occupied
        BY <2>1, <3>2 DEF inspectBootstrap
      <4>2. BoardPath = "absent"
        BY <3>2, <4>1 DEF BoardPath, Attached
      <4> QED BY <2>1, <3>1, <3>2, <4>1, <4>2 DEF inspectBootstrap
    <3> QED BY <3>1, <3>2
  <2>3. PICK w : w = [trees["board"] EXCEPT !.on = "data"]
    OBVIOUS
  <2>4. trees["board"] \in Worktrees
    BY <1>2, <2>2
  <2>5. w \in Worktrees /\ w.on = "data" /\ w.dir = trees["board"].dir /\ w.files = trees["board"].files
    BY <2>3, <2>4 DEF Worktrees
  <2>6. w # None
    BY <2>5, NamesAssumption
  <2>7. trees' = [trees EXCEPT !["board"] = w]
    BY <1>5, <2>3, Zenon DEF switchBack
  <2>8. /\ trees' \in [Paths -> Worktrees \cup {None}] /\ trees'["board"] = w
        /\ \A x \in Paths : x # "board" => trees'[x] = trees[x]
    BY <1>2, <2>5, <2>7
  <2>9. GitTypes'
    BY <1>1, <2>1, <2>8 DEF BootInv, TypeOK, GitTypes
  <2>10. \A x \in Paths : x # "board" => trees[x] = None
    BY <1>2, <2>2 DEF Abandoned, BootInv, Whole, On, Paths
  <2>11. Whole'
    BY <1>2, <2>1, <2>2, <2>5, <2>6, <2>8, <2>10 DEF BootInv, Whole, On, Paths
  <2> QED BY <1>1, <2>9, <2>11, InQuiet
<1>6. CASE addRule
  <2>1. UNCHANGED <<branch, occupied>> /\ codeIgnore' \in Rules
    BY <1>6 DEF addRule, Rules, BootInv, TypeOK, GitTypes
  <2>2. CASE trees' = trees
    <3>1. GitTypes' /\ Whole'
      BY <1>1, <2>1, <2>2 DEF BootInv, TypeOK, GitTypes, Whole, On
    <3> QED BY <1>1, <3>1, InQuiet
  <2>3. CASE BoardPath = "correct" /\ trees' = [trees EXCEPT !["board"].ignore = "anchored"]
    <3>1. trees["board"] # None
      BY <2>3 DEF BoardPath, Attached
    <3>2. PICK w : w = [trees["board"] EXCEPT !.ignore = "anchored"]
      OBVIOUS
    <3>3. trees["board"] \in Worktrees
      BY <1>2, <3>1
    <3>4. /\ w \in Worktrees /\ w.on = trees["board"].on /\ w.dir = trees["board"].dir
          /\ w.files = trees["board"].files
      BY <3>2, <3>3 DEF Worktrees, Rules
    <3>5. w # None
      BY <3>4, NamesAssumption
    <3>6. trees' = [trees EXCEPT !["board"] = w]
      BY <2>3, <3>2, Zenon
    <3>7. /\ trees' \in [Paths -> Worktrees \cup {None}] /\ trees'["board"] = w
          /\ \A x \in Paths : x # "board" => trees'[x] = trees[x]
      BY <1>2, <3>4, <3>6
    <3>8. GitTypes'
      BY <1>1, <2>1, <3>7 DEF BootInv, TypeOK, GitTypes
    <3>9. \A x \in Paths : /\ trees'[x] = None <=> trees[x] = None
                           /\ trees[x] # None => /\ trees'[x].on = trees[x].on
                                                 /\ trees'[x].dir = trees[x].dir
                                                 /\ trees'[x].files = trees[x].files
      BY <3>1, <3>4, <3>5, <3>7
    <3>10. Whole'
      BY <1>2, <2>1, <3>9 DEF BootInv, Whole, On
    <3> QED BY <1>1, <3>8, <3>10, InQuiet
  <2> QED BY <1>6, <2>2, <2>3 DEF addRule
<1> QED BY <1>1, <1>3, <1>4, <1>5, <1>6

LEMMA Advised ==
    ASSUME BootInv, NEW p \in Procs, runAdvised(p) \/ Starts(p) PROVE BootInv' /\ lock = None
<1>1. PICK what \in {"init", "push", "repair"}, project \in {Wanted, Other} : start(p, what, project)
  BY DEF runAdvised, Starts
<1>2. lock = None
  BY <1>1 DEF start
<1> QED BY <1>1, <1>2, Starting

(* A commit that is made on a history keeps it one, and keeps it.          *)
LEMMA CommitKeeps ==
    ASSUME NEW h \in Histories, count' \in Nat
    PROVE  Commit(h) \in Histories /\ IsPrefix(h, Commit(h))
<1>1. PICK c : c = [n |-> count', board |-> FALSE, project |-> h[1].project, rule |-> h[1].rule]
  OBVIOUS
<1>2. h[1] \in Revisions
  BY DEF Histories
<1>3. c \in Revisions /\ ~c.board
  BY <1>1, <1>2 DEF Revisions
<1> QED BY <1>1, <1>3, MoreHistory DEF Commit

LEMMA Committing ==
    ASSUME BootInv, Commits PROVE BootInv' /\ Keeps
<1>1. /\ Attached /\ branch # None /\ count' = count + 1 /\ branch' = Commit(branch)
      /\ UNCHANGED <<tracking, remote, trees, occupied, codeIgnore, linked, lock, run, made>>
  BY DEF Commits, Elsewhere, Exists
<1>2. count' \in Nat /\ branch \in Histories
  BY <1>1 DEF BootInv, TypeOK, GitTypes
<1>3. branch' \in Histories /\ IsPrefix(branch, branch')
  BY <1>1, <1>2, CommitKeeps
<1>4. branch' # None
  BY <1>3, NamesAssumption
<1>5. TypeOK' /\ Exclusive'
  BY <1>1, <1>2, <1>3 DEF BootInv, TypeOK, GitTypes, Exclusive
<1>6. Whole'
  BY <1>1, <1>4 DEF BootInv, Whole, On
<1>7. Keeps
  <2>1. Things' = Things
    BY <1>1, <1>4 DEF Things
  <2> QED BY <1>3, <2>1 DEF Keeps
<1>8. ASSUME NEW r, Fits(r) PROVE Fits(r)'
  <2>1. Begins(r) => Begins(r)'
    BY <1>1 DEF Begins, Scratch, CheckedOut, Attached
  <2>2. Reaches(r) => Reaches(r)'
    BY <1>1, <1>4 DEF Reaches, On, Attached
  <2>3. /\ OwnsTemp(r) => OwnsTemp(r)'
        /\ OwnsBranch(r) => OwnsBranch(r)'
        /\ OwnsTree(r) => OwnsTree(r)'
    BY <1>1 DEF OwnsTemp, OwnsBranch, OwnsTree, On
  <2>4. made' = made
    BY <1>1
  <2> QED BY <1>8, <2>1, <2>2, <2>3, <2>4 DEF Fits
<1>9. OnTheirWay'
  BY <1>1, <1>8 DEF BootInv, OnTheirWay
<1> QED BY <1>5, <1>6, <1>7, <1>9 DEF BootInv

(* A colleague pushes to the remote, which no command's state speaks of.   *)
LEMMA Pushing ==
    ASSUME BootInv, Colleague PROVE BootInv' /\ Keeps
<1>1. /\ count' = count + 1
      /\ UNCHANGED <<branch, tracking, trees, occupied, codeIgnore, linked, lock, run, made>>
  BY DEF Colleague, Elsewhere
<1>2. count' \in Nat /\ remote \in Histories \cup {None}
  BY <1>1 DEF BootInv, TypeOK, GitTypes
<1>3. remote' \in Histories
  <2>1. CASE remote # None
    <3>1. remote' = Commit(remote)
      BY <2>1 DEF Colleague
    <3> QED BY <1>2, <2>1, <3>1, CommitKeeps
  <2>2. CASE remote = None
    <3>1. PICK c : c = [n |-> count', board |-> TRUE, project |-> Wanted, rule |-> "anchored"]
      OBVIOUS
    <3>2. c \in Revisions /\ c.board
      BY <1>2, <3>1 DEF Revisions, Projects, Rules
    <3>3. remote' = <<c>>
      BY <2>2, <3>1 DEF Colleague
    <3> QED BY <3>2, <3>3, FirstHistory
  <2> QED BY <2>1, <2>2
<1>4. TypeOK' /\ Exclusive'
  BY <1>1, <1>2, <1>3 DEF BootInv, TypeOK, GitTypes, Exclusive
<1>5. Whole'
  BY <1>1 DEF BootInv, Whole, On
<1>6. Keeps
  <2>1. branch # None => IsPrefix(branch, branch)
    BY SamePrefix DEF BootInv, TypeOK, GitTypes
  <2>2. Things' = Things
    BY <1>1 DEF Things
  <2> QED BY <1>1, <2>1, <2>2 DEF Keeps
<1>7. ASSUME NEW r, Fits(r) PROVE Fits(r)'
  <2>1. Begins(r) => Begins(r)'
    BY <1>1 DEF Begins, Scratch, CheckedOut
  <2>2. Reaches(r) => Reaches(r)'
    BY <1>1 DEF Reaches, On, Attached
  <2>3. /\ OwnsTemp(r) => OwnsTemp(r)'
        /\ OwnsBranch(r) => OwnsBranch(r)'
        /\ OwnsTree(r) => OwnsTree(r)'
    BY <1>1 DEF OwnsTemp, OwnsBranch, OwnsTree, On
  <2>4. made' = made
    BY <1>1
  <2> QED BY <1>7, <2>1, <2>2, <2>3, <2>4 DEF Fits
<1>8. OnTheirWay'
  BY <1>1, <1>7 DEF BootInv, OnTheirWay
<1> QED BY <1>4, <1>5, <1>6, <1>8 DEF BootInv

(* A directory can be put only where there is no board's directory: a      *)
(* command that has made one is not concerned.                             *)
LEMMA Occupying ==
    ASSUME BootInv, Occupies PROVE BootInv' /\ Keeps
<1>1. /\ occupied' = TRUE /\ BoardPath = "absent"
      /\ UNCHANGED <<branch, tracking, remote, trees, codeIgnore, linked, count, lock, run, made>>
  BY DEF Occupies, Elsewhere
<1>2. ~occupied /\ (trees["board"] = None \/ ~trees["board"].dir)
  BY <1>1 DEF BoardPath, Attached
<1>3. TypeOK' /\ Exclusive'
  BY <1>1 DEF BootInv, TypeOK, GitTypes, Exclusive
<1>4. Whole'
  BY <1>1 DEF BootInv, Whole, On
<1>5. Keeps
  <2>1. branch # None => IsPrefix(branch, branch)
    BY SamePrefix DEF BootInv, TypeOK, GitTypes
  <2>2. Things \ Things' = {}
    BY <1>1 DEF Things
  <2> QED BY <1>1, <2>1, <2>2 DEF Keeps
<1>6. ASSUME NEW r, Fits(r) PROVE Fits(r)'
  <2>1. Begins(r) => Begins(r)'
    BY <1>1 DEF Begins, Scratch, CheckedOut
  <2>2. Reaches(r) => Reaches(r)'
    BY <1>1 DEF Reaches, On, Attached
  <2>3. /\ OwnsTemp(r) => OwnsTemp(r)'
        /\ OwnsBranch(r) => OwnsBranch(r)'
    BY <1>1 DEF OwnsTemp, OwnsBranch, On
  <2>4. OwnsTree(r) => OwnsTree(r)'
    BY <1>1, <1>2 DEF OwnsTree
  <2>5. made' = made
    BY <1>1
  <2> QED BY <1>6, <2>1, <2>2, <2>3, <2>4, <2>5 DEF Fits
<1>7. OnTheirWay'
  BY <1>1, <1>6 DEF BootInv, OnTheirWay
<1> QED BY <1>3, <1>4, <1>5, <1>7 DEF BootInv

(* The board's directory is removed, or its worktree, or another branch is *)
(* checked out in it, while nothing runs.                                  *)
LEMMA Losing ==
    ASSUME BootInv, Vanishes \/ Detaches PROVE BootInv' /\ lock = None
<1>1. /\ lock = None /\ BoardPath = "correct" /\ Attached
      /\ UNCHANGED <<branch, tracking, remote, occupied, codeIgnore, linked, count, lock, run>>
  BY DEF Vanishes, Detaches, Elsewhere, Quiet
<1>2. /\ "board" \in Paths /\ "inside" \in Paths /\ Temps \subseteq Paths
      /\ "board" \notin Temps /\ "inside" \notin Temps
      /\ trees \in [Paths -> Worktrees \cup {None}]
  BY NamesAssumption DEF Paths, BootInv, TypeOK, GitTypes
<1>3. trees["board"] # None /\ trees["board"].on = "data" /\ trees["board"].dir
  BY <1>1 DEF BoardPath, Attached
<1>4. trees["board"] \in Worktrees
  BY <1>2, <1>3
<1>5. \A x \in Paths : x # "board" /\ trees[x] # None => x \in Temps /\ trees[x].on = "detached"
  BY <1>2, <1>3 DEF BootInv, Whole, On
<1>6. PICK gone, off : /\ gone = Gone(trees["board"])
                       /\ off = [trees["board"] EXCEPT !.on = "detached"]
  OBVIOUS
<1>7. /\ gone \in Worktrees /\ gone.on = "data" /\ ~gone.files
      /\ off \in Worktrees /\ off.on = "detached" /\ off.dir /\ off.files = trees["board"].files
  BY <1>3, <1>4, <1>6 DEF Worktrees, Gone, Rules
<1>8. gone # None /\ off # None
  BY <1>7, NamesAssumption
<1>9. PICK w : trees' = [trees EXCEPT !["board"] = w] /\ w \in {None, gone, off}
  BY <1>6, Zenon DEF Vanishes, Detaches
<1>10. /\ trees' \in [Paths -> Worktrees \cup {None}] /\ trees'["board"] = w
       /\ \A x \in Paths : x # "board" => trees'[x] = trees[x]
  BY <1>2, <1>7, <1>9
<1>11. GitTypes'
  BY <1>1, <1>10 DEF BootInv, TypeOK, GitTypes
<1>12. /\ w # None => w.dir \/ (w.on = "data" /\ ~w.files)
  BY <1>7, <1>9
<1>13. Whole'
  BY <1>1, <1>2, <1>3, <1>5, <1>10, <1>12 DEF BootInv, Whole, On
<1> QED BY <1>1, <1>11, <1>13, InQuiet

LEMMA LosingFile ==
    ASSUME BootInv, Loses PROVE BootInv' /\ lock = None
<1>1. /\ lock = None /\ Attached
      /\ UNCHANGED <<branch, tracking, remote, occupied, codeIgnore, linked, count, lock, run>>
  BY DEF Loses, Elsewhere, Quiet
<1>2. "board" \in Paths /\ "inside" \in Paths /\ trees \in [Paths -> Worktrees \cup {None}]
  BY DEF Paths, BootInv, TypeOK, GitTypes
<1>3. trees["board"] # None /\ trees["board"].dir /\ trees["board"] \in Worktrees
  BY <1>1, <1>2 DEF Attached
<1>4. PICK w : w = [trees["board"] EXCEPT !.files = FALSE]
  OBVIOUS
<1>5. w \in Worktrees /\ w.on = trees["board"].on /\ w.dir
  BY <1>3, <1>4 DEF Worktrees
<1>6. w # None
  BY <1>5, NamesAssumption
<1>7. trees' = [trees EXCEPT !["board"] = w]
  BY <1>4, Zenon DEF Loses
<1>8. /\ trees' \in [Paths -> Worktrees \cup {None}] /\ trees'["board"] = w
      /\ \A x \in Paths : x # "board" => trees'[x] = trees[x]
  BY <1>2, <1>5, <1>7
<1>9. GitTypes'
  BY <1>1, <1>8 DEF BootInv, TypeOK, GitTypes
<1>10. \A x \in Paths : /\ trees'[x] = None <=> trees[x] = None
                        /\ trees[x] # None => /\ trees'[x].on = trees[x].on
                                              /\ trees'[x].dir = trees[x].dir
                                              /\ trees'[x].files => trees[x].files
  BY <1>3, <1>4, <1>5, <1>6, <1>8 DEF Worktrees
<1>11. Whole'
  BY <1>1, <1>2, <1>10 DEF BootInv, Whole, On, Paths
<1> QED BY <1>1, <1>9, <1>11, InQuiet

-----------------------------------------------------------------------------
(* The specification.                                                      *)

LEMMA InitInv == ASSUME Init PROVE BootInv
<1>1. PICK s \in Scenarios : /\ branch = s.branch /\ tracking = s.tracking /\ remote = s.remote
                             /\ trees = [p \in Paths |-> None] /\ occupied = FALSE
                             /\ codeIgnore = s.ignored /\ linked = s.linked /\ lock = None
                             /\ run = [p \in Procs |-> Idle] /\ count = 10
  BY DEF Init
<1>2. GitTypes
  BY <1>1, ScenariosAssumption DEF GitTypes
<1>3. TypeOK /\ Exclusive /\ OnTheirWay
  BY <1>1, <1>2, IdleCommand DEF TypeOK, Exclusive, OnTheirWay, Fits
<1>4. Whole
  BY <1>1 DEF Whole, On, Paths
<1> QED BY <1>3, <1>4 DEF BootInv

LEMMA StepInv ==
    ASSUME BootInv, Next PROVE BootInv' /\ (lock # None => Keeps)
<1>1. CASE Follow
  BY <1>1, Following, Advised DEF Follow
<1>2. CASE World
  BY <1>2, Committing, Pushing, Occupying, Losing, LosingFile DEF World
<1>3. CASE \E p \in Procs : Command(p) \/ Crash(p) \/ Starts(p)
  BY <1>3, EveryCommand, Advised
<1> QED BY <1>1, <1>2, <1>3 DEF Next

LEMMA StutterInv ==
    ASSUME BootInv, UNCHANGED vars PROVE BootInv' /\ Keeps
<1>1. UNCHANGED <<git, count, made, run, lock>>
  BY DEF vars
<1>2. GitTypes' /\ Whole' /\ Keeps
  BY <1>1, NothingHappens
<1>3. OnTheirWay'
  BY <1>1, FitsStill DEF BootInv, OnTheirWay
<1> QED BY <1>1, <1>2, <1>3 DEF BootInv, TypeOK, Exclusive

(* Every reachable state fits the branch, the worktrees and the commands   *)
(* that are on their way together.                                         *)
THEOREM BootstrapInvariant == Spec => []BootInv
<1>1. Init => BootInv
  BY InitInv
<1>2. BootInv /\ [Next]_vars => BootInv'
  BY StepInv, StutterInv
<1> QED BY <1>1, <1>2, PTL DEF Spec

(* Every variable keeps its type: in particular each version of the branch *)
(* at hand, at the remote and as last fetched is a history of one board.   *)
THEOREM TypeCorrect == Spec => []TypeOK
<1>1. BootInv => TypeOK
  BY DEF BootInv
<1> QED BY <1>1, BootstrapInvariant, PTL

(* The data branch begins one board (orphan, scaffold, commit and attach   *)
(* of src/bootstrap/commands.ts), whichever commands run at the same time, *)
(* die and are repeated: a command commits a scaffold only onto a branch   *)
(* that does not exist, and the lock keeps a second one from it.           *)
THEOREM OneBoardIsBegun == Spec => []OneStructuralCommit
<1>1. ASSUME NEW h \in Histories PROVE Cardinality({i \in DOMAIN h : h[i].board}) = 1
  <2>1. h \in Seq(Revisions) /\ h # <<>> /\ \A i \in DOMAIN h : h[i].board = (i = 1)
    BY DEF Histories
  <2>2. 1 \in DOMAIN h
    BY <2>1
  <2>3. {i \in DOMAIN h : h[i].board} = {1}
    BY <2>1, <2>2
  <2> QED BY <2>3, FS_Singleton
<1>2. BootInv => OneStructuralCommit
  BY <1>1 DEF BootInv, TypeOK, GitTypes, OneStructuralCommit
<1> QED BY <1>2, BootstrapInvariant, PTL

(* No command, and nothing that happens while one runs, removes a worktree,*)
(* a branch or a directory that the command has not made, or drops a       *)
(* commit: the rollback (undo of src/bootstrap/plan.ts) takes away what is *)
(* its own, what `git worktree prune` drops with it (execute.ts:468: every *)
(* worktree whose directory is away), and a directory that took the new    *)
(* worktree in.                                                            *)
THEOREM CommandsKeepWhatTheyFind == Spec => KeepsWhatItFound
<1>1. BootInv /\ [Next]_vars =>
        [lock # None =>
           /\ Things \ Things' \subseteq
                made \cup Away \cup (IF trees["inside"] = None THEN {} ELSE {"directory"})
           /\ branch # None /\ branch' # None => IsPrefix(branch, branch')]_vars
  BY StepInv DEF Keeps
<1> QED BY <1>1, BootstrapInvariant, PTL DEF Spec, KeepsWhatItFound

LEMMA ReadyWhenFinished ==
    ASSUME BootInv, NEW p \in Procs, Finished(p)
    PROVE  \/ Abandoned # {} \/ occupied
           \/ /\ trees["board"].node
              /\ \/ inspectBootstrap = "ready"
                 \/ "loose" \in {codeIgnore, trees["board"].ignore}
                 \/ ~trees["board"].files /\ "board" \notin made
<1>1. run[p].do = "run" /\ run[p].todo \in {<<>>, <<"push">>}
  BY DEF Finished
<1>2. Begins(run[p]) /\ Reaches(run[p])
  BY <1>1, Acting DEF Fits
<1>3. Left(run[p].todo) \subseteq {"push"}
  BY <1>1 DEF Left
<1>4. SUFFICES ASSUME ~(Abandoned # {} \/ occupied)
               PROVE  /\ trees["board"].node
                      /\ \/ inspectBootstrap = "ready"
                         \/ "loose" \in {codeIgnore, trees["board"].ignore}
                         \/ ~trees["board"].files /\ "board" \notin made
  BY Zenon
<1>5. /\ Covers(codeIgnore) /\ trees["board"] # None /\ trees["board"].on = "data"
      /\ trees["board"].dir /\ ("board" \in made => trees["board"].files)
      /\ Covers(trees["board"].ignore) /\ trees["board"].node
  BY <1>2, <1>3, <1>4 DEF Reaches, On
<1>6. branch # None
  BY <1>5 DEF BootInv, Whole
<1>7. CASE "loose" \in {codeIgnore, trees["board"].ignore}
  BY <1>5, <1>7, Zenon
<1>8. CASE ~trees["board"].files /\ "board" \notin made
  BY <1>5, <1>8, Zenon
<1>9. CASE codeIgnore # "loose" /\ trees["board"].ignore # "loose" /\ trees["board"].files
  <2>1. Accepts(codeIgnore) /\ Accepts(trees["board"].ignore)
    BY <1>5, <1>9 DEF Covers, Accepts
  <2>2. inspectBootstrap = "ready"
    BY <1>4, <1>5, <1>6, <1>9, <2>1 DEF inspectBootstrap, Exists, BoardPath
  <2> QED BY <1>5, <2>2, Zenon
<1>10. codeIgnore = "loose" \/ trees["board"].ignore = "loose" => "loose" \in {codeIgnore, trees["board"].ignore}
  OBVIOUS
<1> QED BY <1>5, <1>7, <1>8, <1>9, <1>10, Zenon

(* doctor is right (src/bootstrap/doctor.ts): an init that is done leaves  *)
(* a board that is called ready, a board that is called ready is whole and *)
(* the only one, and where none is found there is none.  Excepted are, of  *)
(* the finished init, what is in the board's way, a rule that init takes   *)
(* for covering and doctor does not, and files that were missing before.   *)
THEOREM DoctorTellsTheTruth == Spec => []DoctorIsRight
<1>1. ASSUME BootInv PROVE DoctorIsRight
  <2>1. /\ "board" \in Paths /\ "inside" \in Paths /\ Temps \subseteq Paths
        /\ Paths = Temps \cup {"board", "inside"}
    BY DEF Paths
  <2>2. ASSUME inspectBootstrap = "ready"
        PROVE  Exists /\ Attached /\ Abandoned = {} /\ \A x \in Paths \ {"board"} : trees[x] = None
    <3>1. ~(occupied /\ trees["board"] = None) /\ Abandoned = {} /\ ~(~Exists /\ BoardPath = "absent")
      BY <2>2 DEF inspectBootstrap
    <3>2. ~(Exists /\ trees["board"] = None) /\ trees["board"].on = "data" /\ trees["board"].files
      BY <2>2, <3>1 DEF inspectBootstrap
    <3>3. trees["board"] # None
      BY <3>1, <3>2 DEF BoardPath, Attached
    <3>4. Exists /\ Attached
      BY <1>1, <2>1, <3>2, <3>3 DEF BootInv, Whole, Exists, Attached
    <3>5. ASSUME NEW x \in Paths \ {"board"} PROVE trees[x] = None
      BY <1>1, <2>1, <3>1, <3>2, <3>3 DEF BootInv, Whole, On, Abandoned
    <3> QED BY <3>1, <3>4, <3>5
  <2>3. ASSUME inspectBootstrap = "uninitialized"
        PROVE  ~Exists /\ \A x \in Paths : trees[x] = None
    <3>1. Abandoned = {} /\ ~Exists
      BY <2>3 DEF inspectBootstrap
    <3> QED BY <1>1, <2>1, <3>1 DEF BootInv, Whole, Abandoned, Exists
  <2> QED BY <1>1, <2>2, <2>3, ReadyWhenFinished DEF DoctorIsRight
<1> QED BY <1>1, BootstrapInvariant, PTL
=============================================================================
