------------------------------- MODULE Bootstrap -------------------------------
(***************************************************************************)
(* `localjira init`, `repair-worktree` and `doctor` (src/bootstrap/): the  *)
(* data branch and its worktree at .localjira are made, or found and       *)
(* completed, by a plan that follows from what git and the disk show; a    *)
(* step that fails is followed by a rollback, a process that dies by       *)
(* nothing but what doctor tells the person to do.                         *)
(*                                                                         *)
(* One action is one git command or one file written.  A branch is the     *)
(* sequence of its commits; `board` marks the commit that a new board      *)
(* begins with.                                                            *)
(***************************************************************************)
EXTENDS Integers, Sequences, FiniteSets, SequencesExt

CONSTANTS
    Procs,      \* the commands that may be running
    Temps,      \* bound: the names of temporary worktrees, .localjira.init-<pid>-<time>;
                \* more than can be left by crashes
    Wanted,     \* the project the person initialises
    Other,      \* another one
    None,
    Scenarios   \* the repositories a behaviour may start from, and what may happen there

VARIABLES
    branch,     \* refs/heads/localjira/data, None when there is no such ref
    tracking,   \* refs/remotes/origin/localjira/data
    remote,     \* the branch at the remote
    trees,      \* the registered worktrees: what each is on, and what it holds
    occupied,   \* is there something at .localjira that is no worktree?
    codeIgnore, \* what the code's .gitignore says of .localjira
    linked,     \* a worktree of the code that a person keeps: is its directory there or away?
    lock,       \* who holds the bootstrap lock
    run,        \* of each process: where its command is
    (* history and bounds *)
    made,       \* what the command that holds the lock has brought about
    count,      \* of commits
    may         \* what is left of the scenario's budget

git == <<branch, tracking, remote, trees, occupied, codeIgnore, linked>>
vars == <<git, lock, run, made, count, may>>

Paths == Temps \cup {"board", "inside"}

(* What a .gitignore says of a path: nothing, a rule for every depth, the  *)
(* rule for the root, or that rule and its negation after it.              *)
Rules == {"none", "loose", "anchored", "negated"}

(* A board's branch begins with the commit of its scaffold, and no other   *)
(* commit on it is one.                                                    *)
Projects == {Wanted, Other, None}
Revisions == [n : Nat, board : BOOLEAN, project : Projects, rule : Rules]
Histories == {h \in Seq(Revisions) : h # <<>> /\ \A i \in DOMAIN h : h[i].board = (i = 1)}
Worktrees == [on : {"data", "detached"}, dir : BOOLEAN, files : BOOLEAN, ignore : Rules,
              node : BOOLEAN]

ASSUME NamesAssumption ==
    /\ None \notin Procs /\ None \notin Paths
    /\ {"board", "inside", "linked", "branch", "directory"} \cap Temps = {}
    /\ None \notin Histories /\ None \notin Worktrees

(* A repository has no board, or one board that was begun once.            *)
ASSUME ScenariosAssumption ==
    \A s \in Scenarios : /\ {s.branch, s.tracking, s.remote} \subseteq Histories \cup {None}
                         /\ s.ignored \in Rules
                         /\ s.linked \in {"there", "away", None}

Spend(what) == may[what] > 0 /\ may' = [may EXCEPT ![what] = @ - 1]

Idle == [do |-> "idle", what |-> None, project |-> None, todo |-> <<>>, undo |-> <<>>,
         temp |-> None, madeBranch |-> FALSE, madeTree |-> FALSE]

Things == {p \in Paths : trees[p] # None} \cup (IF branch = None THEN {} ELSE {"branch"})
          \cup (IF occupied THEN {"directory"} ELSE {})
          \cup (IF linked = None THEN {} ELSE {"linked"})

-----------------------------------------------------------------------------
(* What the commands look at.                                              *)

Exists == branch # None
RemoteExists == may.remote /\ tracking # None

(* A directory at the path of a worktree that is registered is taken for it. *)
Attached == trees["board"] # None /\ trees["board"].dir
BoardPath ==
    IF ~occupied /\ ~Attached THEN "absent"
    ELSE IF trees["board"] = None THEN "occupied"
    ELSE IF trees["board"].on = "data" THEN "correct" ELSE "wrong"

(* git worktree list also names worktrees whose directory is gone.         *)
CheckedOut == \E p \in Paths : trees[p] # None /\ trees[p].on = "data"

Relation ==
    IF ~Exists \/ ~RemoteExists THEN "not_applicable"
    ELSE IF branch = tracking THEN "equal"
    ELSE IF IsPrefix(branch, tracking) THEN "behind"
    ELSE IF IsPrefix(tracking, branch) THEN "ahead" ELSE "diverged"

(* The two readings of the rules: what init takes for covered and leaves   *)
(* alone, and what doctor accepts.                                         *)
Covers(rule) == rule \in {"loose", "anchored"}
Ensured(rule) == IF Covers(rule) THEN rule ELSE "anchored"
Accepts(rule) == rule \in {"anchored", "negated"}

classifyBootstrapState ==
    IF BoardPath = "occupied" THEN IF ~Exists /\ RemoteExists THEN "S7" ELSE "S5"
    ELSE IF BoardPath = "wrong" THEN "S6"
    ELSE IF CheckedOut /\ BoardPath # "correct" THEN "S4"
    ELSE IF Exists /\ RemoteExists THEN IF Relation = "diverged" THEN "diverged" ELSE "S8"
    ELSE IF Exists THEN IF BoardPath = "absent" THEN "S2" ELSE "S3"
    ELSE IF BoardPath = "absent" THEN IF RemoteExists THEN "S1" ELSE "S0"
    ELSE "S5"

Finish_NoIdentity == <<"codeIgnore">>
Finish == <<"identity", "codeIgnore">>

(* A repair takes the same steps, but for the verification: it knows no    *)
(* project.                                                                *)
Checks(what) == IF what = "repair" THEN <<>> ELSE <<"verify">>
Plan(state, what) ==
    CASE state = "S0" -> <<"addTemp", "orphan", "scaffold", "dataIgnore", "commit", "attach">> \o Finish
      [] state = "S1" -> Checks(what) \o <<"track", "attach", "dataIgnore">> \o Finish
      [] state = "S2" -> Checks(what) \o <<"attach", "dataIgnore">> \o Finish
      [] state = "S3" -> Checks(what) \o <<"dataIgnore">> \o Finish
      [] state = "S8" -> Checks(what)
                         \o (IF Relation = "behind" THEN <<"fastForward">> ELSE <<>>)
                         \o (IF BoardPath = "absent" THEN <<"attach">> ELSE <<>>)
                         \o <<"dataIgnore">> \o Finish
      [] OTHER -> <<>>

(* The plan's rollback, in the order in which it is carried out.           *)
Rollback(state) ==
    CASE state = "S0" -> <<"deleteBranch", "detachBoard", "removeTemp">>
      [] state = "S1" -> <<"deleteBranch", "detachBoard">>
      [] state = "S2" \/ (state = "S8" /\ BoardPath = "absent") -> <<"detachBoard">>
      [] OTHER -> <<>>

-----------------------------------------------------------------------------
(* A command, up to its plan.                                              *)

start_Unlocked(p, what, project) ==
    /\ run[p] = Idle
    /\ what = "push" => may.remote
    /\ lock' = p
    /\ run' = [run EXCEPT ![p] = [Idle EXCEPT !.do = IF may.remote THEN "fetch" ELSE "plan",
                                              !.what = what, !.project = project]]
    /\ made' = {}
    /\ UNCHANGED <<git, count>>
start(p, what, project) ==
    /\ lock = None
    /\ run[p] = Idle
    /\ what = "push" => may.remote
    /\ lock' = p
    /\ run' = [run EXCEPT ![p] = [Idle EXCEPT !.do = IF may.remote THEN "fetch" ELSE "plan",
                                              !.what = what, !.project = project]]
    /\ made' = {}
    /\ UNCHANGED <<git, count>>

End(p) == run' = [run EXCEPT ![p] = Idle] /\ lock' = IF lock = p THEN None ELSE lock

(* A fetch that fails is taken for a remote without the branch.            *)
fetchDataBranch(p) ==
    /\ run[p].do = "fetch"
    /\ \/ tracking' = (IF remote = None THEN tracking ELSE remote) /\ UNCHANGED may
       \/ Spend("offline") /\ UNCHANGED tracking
    /\ run' = [run EXCEPT ![p].do = "plan"]
    /\ UNCHANGED <<branch, remote, trees, occupied, codeIgnore, linked, lock, made, count>>

plan(p) ==
    /\ run[p].do = "plan"
    /\ LET state == classifyBootstrapState
           what == run[p].what
           todo == Plan(state, what) \o (IF what = "push" THEN <<"push">> ELSE <<>>)
           nothing == \/ Plan(state, what) = <<>>
                      \/ /\ what = "repair"
                         /\ BoardPath = "correct" \/ (~Exists /\ ~RemoteExists)
       IN IF nothing THEN End(p)
          ELSE /\ run' = [run EXCEPT ![p].do = "run", ![p].todo = todo, ![p].undo = Rollback(state)]
               /\ UNCHANGED lock
    /\ UNCHANGED <<git, made, count, may>>

-----------------------------------------------------------------------------
(* Its steps.                                                              *)

At(p, step) == run[p].do = "run" /\ run[p].todo # <<>> /\ Head(run[p].todo) = step
Done(p) == [run[p] EXCEPT !.todo = Tail(@)]
Next1(p) == run' = [run EXCEPT ![p] = Done(p)]
Note == made' = made \cup (Things' \ Things)

Tree(on, files, ignore) ==
    [on |-> on, dir |-> TRUE, files |-> files, ignore |-> ignore, node |-> FALSE]
Checkout == Tree("data", TRUE, branch[1].rule)

addTemp(p) ==
    /\ At(p, "addTemp")
    /\ \E t \in Temps :
        /\ trees[t] = None
        /\ trees' = [trees EXCEPT ![t] = Tree("detached", FALSE, "none")]
        /\ run' = [run EXCEPT ![p] = [Done(p) EXCEPT !.temp = t]]
    /\ UNCHANGED <<branch, tracking, remote, occupied, codeIgnore, count>>

(* Two worktrees may be on a branch that has no commit yet.                *)
orphan(p) ==
    /\ At(p, "orphan") /\ branch = None
    /\ trees' = [trees EXCEPT ![run[p].temp].on = "data"]
    /\ run' = [run EXCEPT ![p] = [Done(p) EXCEPT !.madeBranch = TRUE]]
    /\ UNCHANGED <<branch, tracking, remote, occupied, codeIgnore, count>>

scaffold(p) ==
    /\ At(p, "scaffold")
    /\ trees' = [trees EXCEPT ![run[p].temp].files = TRUE, ![run[p].temp].ignore = "anchored"]
    /\ Next1(p)
    /\ UNCHANGED <<branch, tracking, remote, occupied, codeIgnore, count>>

commit(p) ==
    /\ At(p, "commit")
    /\ count' = count + 1
    /\ branch' = Append(IF branch = None THEN <<>> ELSE branch,
                        [n |-> count', board |-> TRUE, project |-> run[p].project,
                         rule |-> trees[run[p].temp].ignore])
    /\ Next1(p)
    /\ UNCHANGED <<tracking, remote, trees, occupied, codeIgnore>>

track(p) ==
    /\ At(p, "track") /\ branch = None /\ tracking # None
    /\ branch' = tracking
    /\ run' = [run EXCEPT ![p] = [Done(p) EXCEPT !.madeBranch = TRUE]]
    /\ UNCHANGED <<tracking, remote, trees, occupied, codeIgnore, count>>

(* merge --ff-only in the board, or branch --force when it is not attached. *)
CanFastForward ==
    IF Attached THEN IsPrefix(branch, tracking) \/ IsPrefix(tracking, branch) ELSE ~CheckedOut
fastForward(p) ==
    /\ At(p, "fastForward") /\ CanFastForward
    /\ branch' = IF Attached /\ IsPrefix(tracking, branch) THEN branch ELSE tracking
    /\ Next1(p)
    /\ UNCHANGED <<tracking, remote, trees, occupied, codeIgnore, count>>

(* git worktree move puts the worktree into a directory that is there; git *)
(* worktree add fails.                                                     *)
CanAttach(p) ==
    /\ trees["board"] = None
    /\ run[p].temp = None => branch # None /\ ~occupied /\ ~CheckedOut
attach_Claims(p) ==
    /\ At(p, "attach")
    /\ trees' = IF ~CanAttach(p) THEN trees
                ELSE IF run[p].temp = None THEN [trees EXCEPT !["board"] = Checkout]
                ELSE [trees EXCEPT ![IF occupied THEN "inside" ELSE "board"] = trees[run[p].temp],
                                   ![run[p].temp] = None]
    /\ run' = [run EXCEPT ![p] = [(IF CanAttach(p) THEN Done(p)
                                   ELSE [run[p] EXCEPT !.do = "undo"])
                                      EXCEPT !.temp = None, !.madeTree = TRUE]]
    /\ UNCHANGED <<branch, tracking, remote, occupied, codeIgnore, count>>
attach(p) ==
    /\ At(p, "attach") /\ CanAttach(p)
    /\ trees' = IF run[p].temp = None THEN [trees EXCEPT !["board"] = Checkout]
                ELSE [trees EXCEPT ![IF occupied THEN "inside" ELSE "board"] = trees[run[p].temp],
                                   ![run[p].temp] = None]
    /\ run' = [run EXCEPT ![p] = [Done(p) EXCEPT !.temp = None, !.madeTree = TRUE]]
    /\ UNCHANGED <<branch, tracking, remote, occupied, codeIgnore, count>>

Verified(p) == (IF Exists THEN branch ELSE tracking)[1].project = run[p].project
verify(p) ==
    /\ At(p, "verify") /\ Verified(p)
    /\ Next1(p)
    /\ UNCHANGED <<git, count>>

dataIgnore(p) ==
    /\ At(p, "dataIgnore")
    /\ LET at == IF run[p].temp = None THEN "board" ELSE run[p].temp
       IN trees' = IF trees[at] # None /\ (trees[at].dir \/ occupied)
                   THEN [trees EXCEPT ![at].ignore = Ensured(@)] ELSE trees
    /\ Next1(p)
    /\ UNCHANGED <<branch, tracking, remote, occupied, codeIgnore, count>>

identity(p) ==
    /\ At(p, "identity")
    /\ trees' = IF trees["board"] = None THEN trees ELSE [trees EXCEPT !["board"].node = TRUE]
    /\ Next1(p)
    /\ UNCHANGED <<branch, tracking, remote, occupied, codeIgnore, count>>

addCodeIgnore(p) ==
    /\ At(p, "codeIgnore")
    /\ codeIgnore' = Ensured(codeIgnore)
    /\ Next1(p)
    /\ UNCHANGED <<branch, tracking, remote, trees, occupied, count>>

CanPush == IF remote = None THEN TRUE ELSE IsPrefix(remote, branch)
push(p) ==
    /\ At(p, "push") /\ CanPush
    /\ remote' = branch /\ tracking' = branch
    /\ Next1(p)
    /\ UNCHANGED <<branch, trees, occupied, codeIgnore, count>>

Step(p) ==
    /\ \/ addTemp(p) \/ orphan(p) \/ scaffold(p) \/ commit(p) \/ track(p) \/ fastForward(p)
       \/ attach(p) \/ verify(p) \/ dataIgnore(p) \/ identity(p) \/ addCodeIgnore(p) \/ push(p)
    /\ UNCHANGED <<linked, lock, may>>
    /\ Note

finish(p) ==
    /\ run[p].do = "run" /\ run[p].todo = <<>>
    /\ End(p)
    /\ UNCHANGED <<git, made, count, may>>

-----------------------------------------------------------------------------
(* A step that fails.                                                      *)

Refused(p) ==
    \/ At(p, "orphan") /\ branch # None
    \/ At(p, "track") /\ (branch # None \/ tracking = None)
    \/ At(p, "fastForward") /\ ~CanFastForward
    \/ At(p, "attach") /\ ~CanAttach(p)
    \/ At(p, "verify") /\ ~Verified(p)
    \/ At(p, "push") /\ ~CanPush

(* A push that fails leaves the board that is there by then.               *)
fail(p) ==
    /\ run[p].do = "run" /\ run[p].todo # <<>>
    /\ \/ Refused(p) /\ UNCHANGED may
       \/ ~Refused(p) /\ Spend("errors")
    /\ IF Head(run[p].todo) = "push" THEN End(p)
       ELSE run' = [run EXCEPT ![p].do = "undo"] /\ UNCHANGED lock
    /\ UNCHANGED <<git, made, count>>

Undoing(p, step) == run[p].do = "undo" /\ run[p].undo # <<>> /\ Head(run[p].undo) = step
Undone(p) == run' = [run EXCEPT ![p].undo = Tail(@)]

(* git branch --delete --force, whose failure is not looked at.            *)
deleteBranch(p) ==
    /\ Undoing(p, "deleteBranch")
    /\ branch' = IF run[p].madeBranch /\ ~CheckedOut THEN None ELSE branch
    /\ Undone(p)
    /\ UNCHANGED <<tracking, remote, trees, occupied, codeIgnore, linked>>

(* A worktree is removed with its directory; the git worktree prune that   *)
(* follows drops all the others whose directory is away.                   *)
Away == {x \in Paths : trees[x] # None /\ ~trees[x].dir}
        \cup (IF linked = "away" THEN {"linked"} ELSE {})
removeWorktree(gone) ==
    /\ trees' = [x \in Paths |-> IF x \in gone \cup Away THEN None ELSE trees[x]]
    /\ linked' = IF "linked" \in Away THEN None ELSE linked

detachBoard(p) ==
    /\ Undoing(p, "detachBoard")
    /\ IF run[p].madeTree THEN removeWorktree({"board", "inside"}) /\ occupied' = FALSE
       ELSE UNCHANGED <<trees, linked, occupied>>
    /\ Undone(p)
    /\ UNCHANGED <<branch, tracking, remote, codeIgnore>>

removeTemp(p) ==
    /\ Undoing(p, "removeTemp")
    /\ IF run[p].temp = None THEN UNCHANGED <<trees, linked>> ELSE removeWorktree({run[p].temp})
    /\ Undone(p)
    /\ UNCHANGED <<branch, tracking, remote, occupied, codeIgnore>>

Undo(p) ==
    /\ deleteBranch(p) \/ detachBoard(p) \/ removeTemp(p)
    /\ UNCHANGED <<lock, made, count, may>>

giveUp(p) ==
    /\ run[p].do = "undo" /\ run[p].undo = <<>>
    /\ End(p)
    /\ UNCHANGED <<git, made, count, may>>

(* The process dies, and with it its lock.                                 *)
Crash(p) ==
    /\ Spend("crashes")
    /\ run[p] # Idle
    /\ End(p)
    /\ UNCHANGED <<git, made, count>>

-----------------------------------------------------------------------------
(* doctor, and the person who does what it says.                           *)

Abandoned == {t \in Temps : trees[t] # None}

inspectBootstrap_Blind ==
    IF occupied /\ trees["board"] = None THEN "occupied"
    ELSE IF ~Exists /\ BoardPath = "absent" THEN "uninitialized"
    ELSE IF Exists /\ trees["board"] = None THEN "unattached"
    ELSE IF trees["board"].on # "data" THEN "wrong"
    ELSE IF Accepts(codeIgnore) /\ Accepts(trees["board"].ignore) /\ trees["board"].files THEN "ready"
    ELSE "incomplete"
inspectBootstrap ==
    IF occupied /\ trees["board"] = None THEN "occupied"
    ELSE IF Abandoned # {} THEN "partial"
    ELSE IF ~Exists /\ BoardPath = "absent" THEN "uninitialized"
    ELSE IF Exists /\ trees["board"] = None THEN "unattached"
    ELSE IF trees["board"].on # "data" THEN "wrong"
    ELSE IF Accepts(codeIgnore) /\ Accepts(trees["board"].ignore) /\ trees["board"].files THEN "ready"
    ELSE "incomplete"

Quiet == lock = None /\ \A p \in Procs : run[p] = Idle

Person == Quiet /\ UNCHANGED <<tracking, remote, linked, lock, run, made, count, may>>
removeAbandoned ==
    /\ Person /\ inspectBootstrap = "partial"
    /\ \E t \in Abandoned :
        /\ trees' = [trees EXCEPT ![t] = None]
        /\ \/ UNCHANGED branch
           \/ /\ trees[t].on = "data" /\ trees["board"] = None
              /\ branch' = None
    /\ UNCHANGED <<occupied, codeIgnore>>
Gone(t) == [t EXCEPT !.dir = FALSE, !.files = FALSE, !.ignore = "none", !.node = FALSE]
moveAway ==
    /\ Person /\ inspectBootstrap = "occupied"
    /\ occupied' = FALSE
    /\ trees' = IF trees["inside"] = None THEN trees ELSE [trees EXCEPT !["inside"] = Gone(@)]
    /\ UNCHANGED <<branch, codeIgnore>>
switchBack ==
    /\ Person /\ inspectBootstrap = "wrong"
    /\ trees' = [trees EXCEPT !["board"].on = "data"]
    /\ UNCHANGED <<branch, occupied, codeIgnore>>
(* A rule that doctor misses is added by hand, init is run for the files.  *)
addRule ==
    /\ Person /\ inspectBootstrap = "incomplete"
    /\ \/ ~Accepts(codeIgnore) /\ codeIgnore' = "anchored" /\ UNCHANGED trees
       \/ /\ ~Accepts(trees["board"].ignore) /\ BoardPath = "correct"
          /\ trees' = [trees EXCEPT !["board"].ignore = "anchored"] /\ UNCHANGED codeIgnore
    /\ UNCHANGED <<branch, occupied>>
runAdvised(p) ==
    /\ Quiet
    /\ \/ inspectBootstrap = "uninitialized" /\ start(p, "init", Wanted)
       \/ inspectBootstrap = "incomplete" /\ ~trees["board"].files /\ start(p, "init", Wanted)
       \/ inspectBootstrap = "unattached" /\ start(p, "repair", Wanted)
    /\ UNCHANGED may
Follow == removeAbandoned \/ moveAway \/ switchBack \/ addRule \/ \E p \in Procs : runAdvised(p)

-----------------------------------------------------------------------------
(* What else happens to the repository.                                    *)

Elsewhere == UNCHANGED <<codeIgnore, linked, lock, run, made>>
Commit(h) == Append(h, [n |-> count', board |-> FALSE, project |-> h[1].project, rule |-> h[1].rule])

Commits ==
    /\ Spend("commits") /\ Attached /\ Exists /\ count' = count + 1
    /\ branch' = Commit(branch)
    /\ UNCHANGED <<tracking, remote, trees, occupied>> /\ Elsewhere
Colleague ==
    /\ Spend("pushes") /\ may.remote /\ count' = count + 1
    /\ remote' = IF remote # None THEN Commit(remote)
                 ELSE <<[n |-> count', board |-> TRUE, project |-> Wanted, rule |-> "anchored"]>>
    /\ UNCHANGED <<branch, tracking, trees, occupied>> /\ Elsewhere
Occupies ==
    /\ Spend("directories") /\ BoardPath = "absent"
    /\ occupied' = TRUE
    /\ UNCHANGED <<branch, tracking, remote, trees, count>> /\ Elsewhere
(* git clean, or rm -rf: the worktree stays registered.                    *)
Vanishes ==
    /\ Spend("cleans") /\ Quiet /\ Attached /\ BoardPath = "correct"
    /\ trees' = [trees EXCEPT !["board"] = Gone(@)]
    /\ UNCHANGED <<branch, tracking, remote, occupied, count>> /\ Elsewhere
Detaches ==
    /\ Spend("detaches") /\ Quiet /\ Attached /\ BoardPath = "correct"
    /\ \/ trees' = [trees EXCEPT !["board"] = None]
       \/ trees' = [trees EXCEPT !["board"].on = "detached"]
    /\ UNCHANGED <<branch, tracking, remote, occupied, count>> /\ Elsewhere
(* One of the files that a board must have is deleted.                     *)
Loses ==
    /\ Spend("losses") /\ Quiet /\ Attached
    /\ trees' = [trees EXCEPT !["board"].files = FALSE]
    /\ UNCHANGED <<branch, tracking, remote, occupied, count>> /\ Elsewhere
Starts(p) ==
    /\ Spend("starts")
    /\ \E what \in {"init", "push", "repair"}, project \in {Wanted, Other} : start(p, what, project)

-----------------------------------------------------------------------------
Init ==
    \E s \in Scenarios :
        /\ branch = s.branch /\ tracking = s.tracking /\ remote = s.remote
        /\ trees = [p \in Paths |-> None] /\ occupied = FALSE
        /\ codeIgnore = s.ignored /\ linked = s.linked
        /\ lock = None /\ run = [p \in Procs |-> Idle] /\ made = {}
        /\ count = 10 /\ may = s.may

Command(p) == fetchDataBranch(p) \/ plan(p) \/ Step(p) \/ finish(p) \/ fail(p) \/ Undo(p) \/ giveUp(p)
World == Commits \/ Colleague \/ Occupies \/ Vanishes \/ Detaches \/ Loses

Next ==
    \/ Follow \/ World
    \/ \E p \in Procs : Command(p) \/ Crash(p) \/ Starts(p)

Spec == Init /\ [][Next]_vars
(* A command goes on, and the person does what doctor says.                *)
FairSpec == Spec /\ WF_vars(Follow) /\ \A p \in Procs : WF_vars(Command(p))

-----------------------------------------------------------------------------
(* Properties.                                                             *)

(* No command, not even one that fails and rolls back, removes a worktree, *)
(* a branch or a directory it has not made, or drops a commit.  Two        *)
(* exceptions: the worktrees whose directory is away are no longer         *)
(* registered once a rollback has removed one, and a directory put at      *)
(* .localjira after the command looked there takes the worktree in, and    *)
(* goes with it.                                                           *)
KeepsWhatItFound ==
    [][lock # None =>
        /\ Things \ Things' \subseteq
             made \cup Away \cup (IF trees["inside"] = None THEN {} ELSE {"directory"})
        /\ branch # None /\ branch' # None => IsPrefix(branch, branch')]_vars

(* The branch begins one board: commands that run at the same time, die    *)
(* and are repeated never put a second scaffold on top of the first.       *)
OneStructuralCommit ==
    branch # None => Cardinality({i \in DOMAIN branch : branch[i].board}) = 1

(* doctor is right.  An init that has nothing left to do, or only a push   *)
(* that may yet fail, leaves a board that has its node identity and that   *)
(* doctor calls ready, whatever earlier commands left; unless a crashed    *)
(* one's worktree is still there, something took the board's place         *)
(* meanwhile, a rule is one that init takes for covering and doctor does   *)
(* not, or the board was there before and has lost a file.  And when no    *)
(* command is running, a half-made board is taken neither for a ready one  *)
(* nor for none at all.                                                    *)
Finished(p) == run[p].do = "run" /\ run[p].what # "repair" /\ run[p].todo \in {<<>>, <<"push">>}
DoctorIsRight ==
    /\ \A p \in Procs : Finished(p) =>
          \/ Abandoned # {} \/ occupied
          \/ /\ trees["board"].node
             /\ \/ inspectBootstrap = "ready"
                \/ "loose" \in {codeIgnore, trees["board"].ignore}
                \/ ~trees["board"].files /\ "board" \notin made
    /\ Quiet /\ inspectBootstrap = "ready" =>
          /\ Exists /\ Attached /\ Abandoned = {}
          /\ \A x \in Paths \ {"board"} : trees[x] = None
    /\ Quiet /\ inspectBootstrap = "uninitialized" =>
          ~Exists /\ \A x \in Paths : trees[x] = None

(* What no advice of doctor leads out of: a worktree on the branch that is *)
(* registered and away, a board that has lost a file, a branch that has    *)
(* diverged, a board of another project.                                   *)
Stuck ==
    \/ Away \ {"linked"} # {}
    \/ trees["board"] # None /\ ~trees["board"].files
    \/ Relation = "diverged"
    \/ \E h \in {branch, tracking} : h # None /\ h[1].project # Wanted

(* Whatever crashes and failures there have been, who does what doctor     *)
(* says gets a board.                                                      *)
SetupSucceeds == []<>(inspectBootstrap = "ready" \/ Stuck)
=============================================================================
