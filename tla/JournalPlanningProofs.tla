------------------------ MODULE JournalPlanningProofs ------------------------
(***************************************************************************)
(* Theorems about two components that have no variable in common.          *)
(*                                                                         *)
(* About WriteJournal, for every set of paths and contents and every       *)
(* bound: the invariant of the journal and what follows from it, the index *)
(* that is behind only where it may be, writes that land in the order of   *)
(* the outbox, and the refinement of AtomicWrites.                         *)
(*                                                                         *)
(* About Planning, for every board, number of sprints, issues and          *)
(* requests, and whatever the ranks are: the sprints stay sound.  Where    *)
(* the ranks come out is arithmetic, and stays with TLC.                   *)
(***************************************************************************)
EXTENDS WriteJournal, Planning, FiniteSetTheorems, SequenceTheorems,
        WellFoundedInduction, TLAPS

-----------------------------------------------------------------------------
(* Lemmas about the data: the local variables of #applyFrom, a row whose   *)
(* stage changes, a row that is added, and the counters.                   *)

LEMMA IdleStep == Idle \in Step /\ Idle.seq = 0
BY WriteJournalAssumption DEF Idle, Step, Working

LEMMA ApplyingStep ==
    ASSUME NEW s \in 0..MaxOps, NEW stage \in Working, NEW check \in BOOLEAN
    PROVE  Applying(s, stage, check) \in Step /\ Applying(s, stage, check).seq = s
BY DEF Applying, Step

LEMMA EffectStep ==
    ASSUME NEW c \in Step
    PROVE  /\ [c EXCEPT !.effect = TRUE] \in Step
           /\ [c EXCEPT !.effect = TRUE].seq = c.seq
           /\ [c EXCEPT !.effect = TRUE].at = c.at
           /\ [c EXCEPT !.effect = TRUE].check = c.check
           /\ [c EXCEPT !.effect = TRUE].effect
BY DEF Step

LEMMA StageChange ==
    ASSUME NEW r \in Seq(Row), NEW s \in DOMAIN r, NEW stage \in Stages
    PROVE  /\ [r EXCEPT ![s].stage = stage] \in Seq(Row)
           /\ Len([r EXCEPT ![s].stage = stage]) = Len(r)
           /\ DOMAIN [r EXCEPT ![s].stage = stage] = DOMAIN r
           /\ \A i \in DOMAIN r :
                 /\ [r EXCEPT ![s].stage = stage][i].kind = r[i].kind
                 /\ [r EXCEPT ![s].stage = stage][i].logs = r[i].logs
                 /\ [r EXCEPT ![s].stage = stage][i].stage = IF i = s THEN stage ELSE r[i].stage
<1>1. s \in 1..Len(r) /\ r[s] \in Row
  OBVIOUS
<1>2. /\ [r[s] EXCEPT !.stage = stage] \in Row
      /\ [r[s] EXCEPT !.stage = stage].kind = r[s].kind
      /\ [r[s] EXCEPT !.stage = stage].logs = r[s].logs
      /\ [r[s] EXCEPT !.stage = stage].stage = stage
  BY <1>1 DEF Row
<1>3. [r EXCEPT ![s].stage = stage] = [r EXCEPT ![s] = [r[s] EXCEPT !.stage = stage]]
  OBVIOUS
<1> QED BY <1>1, <1>2, <1>3, ExceptSeq

LEMMA AppendRow ==
    ASSUME NEW r \in Seq(Row), NEW x \in Row
    PROVE  /\ Append(r, x) \in Seq(Row)
           /\ Len(Append(r, x)) = Len(r) + 1
           /\ DOMAIN Append(r, x) = 1..(Len(r) + 1) /\ DOMAIN r = 1..Len(r)
           /\ Append(r, x)[Len(r) + 1] = x
           /\ \A s \in DOMAIN r : Append(r, x)[s] = r[s]
OBVIOUS

Counters == [crashes: Nat, edits: Nat, failures: Nat]

LEMMA CounterStep ==
    ASSUME NEW b \in Counters
    PROVE  /\ [b EXCEPT !.crashes = @ + 1] \in Counters
           /\ [b EXCEPT !.edits = @ + 1] \in Counters
           /\ [b EXCEPT !.failures = @ + 1] \in Counters
BY DEF Counters

LEMMA RowFields ==
    ASSUME TypeOK, NEW s \in DOMAIN rows
    PROVE  /\ rows[s] \in Row /\ rows[s].path \in Paths /\ rows[s].kind \in {"file", "event"}
           /\ rows[s].before \in Hashes /\ rows[s].result \in Hashes
           /\ rows[s].stage \in Stages /\ s \in 1..Len(rows) /\ s \in Seqs
<1>1. s \in 1..Len(rows) /\ rows[s] \in Row
  BY DEF TypeOK
<1>2. Len(rows) \in Nat /\ Len(rows) <= MaxOps /\ MaxOps \in Nat
  BY WriteJournalAssumption DEF TypeOK
<1> QED BY <1>1, <1>2 DEF Row, Seqs

LEMMA BusyRow ==
    ASSUME TypeOK, Busy
    PROVE  cur.seq \in DOMAIN rows /\ cur.seq \in Seqs /\ cur.at \in Working
<1>1. cur.seq \in 0..MaxOps /\ cur.seq <= Len(rows) /\ cur.seq # 0 /\ cur.at \in Working
  BY DEF TypeOK, Step, Busy
<1>2. DOMAIN rows = 1..Len(rows) /\ Len(rows) \in Nat
  BY DEF TypeOK
<1> QED BY <1>1, <1>2, WriteJournalAssumption DEF Seqs

-----------------------------------------------------------------------------
(* The inductive invariant.  TypeOK alone is not inductive: replay() takes *)
(* the stage of a row from the list pending() returned when it started, so *)
(* every row still on that list has to be unfinished.                      *)

Handover ==
    /\ todo \subseteq Unfinished /\ cur.seq \notin todo
    /\ Busy => cur.seq \in Unfinished
    /\ mode = "down" => ~Busy

(* Before the append of a fresh write there is no line; a replay that is   *)
(* past its append has one, when no append was torn.                       *)
BeforeAppend ==
    cur.at \in {"PENDING", "FILE_DONE"} \/ (cur.at = "INDEX_DONE" /\ ~cur.effect)
AfterAppend ==
    cur.at = "EVENT_DONE" \/ (cur.at = "INDEX_DONE" /\ cur.effect)

OneLine ==
    /\ LoggedAtMostOnce
    /\ \A s \in Seqs \ DOMAIN rows : lines[s] = 0
    /\ Busy /\ ~cur.check /\ BeforeAppend => lines[cur.seq] = 0

WholeLine ==
    ~TornAppends =>
        /\ torn = FALSE
        /\ DoneIsLogged
        /\ Busy /\ This.logs /\ AfterAppend => lines[cur.seq] = 1

(* What has passed the file step has landed.                               *)
PastFile == {"FILE_DONE", "INDEX_DONE", "EVENT_DONE", "DONE"}
FileFirst ==
    /\ LoggedHasLanded
    /\ \A s \in DOMAIN rows :
          rows[s].kind = "file" /\ rows[s].stage \in PastFile => s \in landed
    /\ Busy /\ This.kind = "file" /\ (cur.at # "PENDING" \/ cur.effect) => cur.seq \in landed

JournalInv == TypeOK /\ Handover /\ OneLine /\ WholeLine /\ FileFirst

-----------------------------------------------------------------------------
(* Every state of the journal has the types the module declares.           *)

LEMMA BeginType ==
    ASSUME TypeOK, NEW row \in Row, Begin(row)
    PROVE  TypeOK'
<1>1. /\ rows' \in Seq(Row) /\ Len(rows') = Len(rows) + 1 /\ DOMAIN rows \subseteq DOMAIN rows'
  BY AppendRow DEF TypeOK, Begin
<1>2. Len(rows) \in Nat /\ MaxOps \in Nat /\ Len(rows) < MaxOps
  BY WriteJournalAssumption DEF TypeOK, Begin
<1>3. Len(rows) + 1 \in 0..MaxOps /\ "PENDING" \in Working
  BY <1>2 DEF Working
<1>4. cur' \in Step /\ cur'.seq = Len(rows) + 1
  BY <1>3, ApplyingStep DEF Begin
<1>5. cur'.seq <= Len(rows') /\ Len(rows') <= MaxOps
  BY <1>1, <1>2, <1>4
<1>6. todo' \subseteq DOMAIN rows' /\ landed' \subseteq DOMAIN rows'
  BY <1>1 DEF TypeOK, Begin, history
<1> QED BY <1>1, <1>4, <1>5, <1>6 DEF TypeOK, Begin, log, history

LEMMA LandingType ==
    ASSUME TypeOK, Busy, temps' \subseteq Paths, Landing(This.path, cur.seq)
    PROVE  TypeOK'
<1>1. cur.seq \in DOMAIN rows /\ cur.seq \in 0..MaxOps
  BY BusyRow DEF TypeOK, Step
<1>2. This.path \in Paths /\ rows[cur.seq].result \in Hashes
  BY <1>1, RowFields DEF This
<1>3. disk' \in [Paths -> Hashes] /\ lastWriter' \in [Paths -> 0..MaxOps]
  BY <1>1, <1>2 DEF TypeOK, Landing
<1>4. cur' \in Step /\ cur'.seq = cur.seq
  BY EffectStep DEF TypeOK, Landing
<1> QED BY <1>1, <1>3, <1>4 DEF TypeOK, Landing, log

LEMMA ApplyType ==
    ASSUME TypeOK, Apply
    PROVE  TypeOK'
<1>1. Busy /\ cur.seq \in DOMAIN rows /\ cur.seq \in Seqs /\ cur.at \in Working
  BY BusyRow DEF Apply, WriteTemp, Rename, Remove, SyncPath, AppendLine, Advance,
                 AtFileStep, AtEventStep
<1>2. This.path \in Paths
  BY <1>1, RowFields DEF This
<1>3. CASE WriteTemp
  BY <1>2, <1>3 DEF WriteTemp, TypeOK, log, history
<1>4. CASE Rename
  BY <1>1, <1>4, LandingType DEF Rename, TypeOK
<1>5. CASE Remove
  BY <1>1, <1>5, LandingType DEF Remove, TypeOK
<1>6. CASE SyncPath
  <2>1. indexed' \in [Paths -> Hashes]
    BY <1>2, <1>6 DEF SyncPath, TypeOK
  <2>2. cur' \in Step /\ cur'.seq = cur.seq
    BY <1>6, EffectStep DEF SyncPath, TypeOK
  <2> QED BY <1>6, <2>1, <2>2 DEF SyncPath, TypeOK, log
<1>7. CASE AppendLine
  <2>1. lines' \in [Seqs -> Nat]
    BY <1>1, <1>7 DEF AppendLine, TypeOK
  <2>2. cur' \in Step /\ cur'.seq = cur.seq
    BY <1>7, EffectStep DEF AppendLine, TypeOK
  <2> QED BY <1>7, <2>1, <2>2 DEF AppendLine, TypeOK, history
<1>8. CASE Advance
  <2>1. After(cur.at) \in Stages /\ (cur.at # "EVENT_DONE" => After(cur.at) \in Working)
    BY <1>1 DEF After, Stages, Working, Settled
  <2>2. /\ rows' \in Seq(Row) /\ Len(rows') = Len(rows) /\ DOMAIN rows' = DOMAIN rows
    BY <1>1, <1>8, <2>1, StageChange DEF Advance, TypeOK
  <2>3. cur' \in Step /\ cur'.seq <= Len(rows)
    <3>1. cur.seq \in 0..MaxOps /\ cur.check \in BOOLEAN /\ cur.seq <= Len(rows)
          /\ 0 <= Len(rows)
      BY DEF TypeOK, Step
    <3>2. CASE cur.at = "EVENT_DONE"
      BY <1>8, <3>1, <3>2, IdleStep DEF Advance
    <3>3. CASE cur.at # "EVENT_DONE"
      BY <1>8, <2>1, <3>1, <3>3, ApplyingStep DEF Advance
    <3> QED BY <3>2, <3>3
  <2> QED BY <1>8, <2>2, <2>3 DEF Advance, TypeOK, log, history
<1> QED BY <1>3, <1>4, <1>5, <1>6, <1>7, <1>8 DEF Apply

LEMMA ReplayType ==
    ASSUME TypeOK, Handover, NEW s \in todo, Replay(s)
    PROVE  TypeOK'
<1>1. s \in DOMAIN rows /\ s \in 0..MaxOps /\ s <= Len(rows)
  BY RowFields, WriteJournalAssumption DEF TypeOK, Seqs
<1>2. rows[s].path \in Paths /\ LaterOf(rows[s].stage) \in Working
  BY <1>1, RowFields DEF LaterOf, Handover, Unfinished, Working
<1>3. ASSUME NEW stage \in Working, cur' = Applying(s, stage, TRUE)
      PROVE  cur' \in Step /\ cur'.seq <= Len(rows)
  BY <1>1, <1>3, ApplyingStep
<1>4. CASE ReplayEvent(s)
  BY <1>2, <1>3, <1>4 DEF ReplayEvent, TypeOK, log, history
<1>5. CASE ReplayFromStart(s)
  BY <1>3, <1>5 DEF ReplayFromStart, TypeOK, log, history, Working
<1>6. CASE ReplayOnward(s)
  BY <1>1, <1>2, <1>3, <1>6 DEF ReplayOnward, TypeOK, log
<1>7. CASE ReplayAbort(s)
  <2>0. "ABORTED" \in Stages /\ rows \in Seq(Row)
    BY DEF Stages, Settled, TypeOK
  <2>1. /\ rows' \in Seq(Row) /\ Len(rows') = Len(rows) /\ DOMAIN rows' = DOMAIN rows
    BY <1>1, <1>7, <2>0, StageChange DEF ReplayAbort
  <2>2. indexed' \in [Paths -> Hashes]
    BY <1>2, <1>7 DEF ReplayAbort, TypeOK
  <2> QED BY <1>7, <2>1, <2>2 DEF ReplayAbort, TypeOK, log
<1> QED BY <1>4, <1>5, <1>6, <1>7 DEF Replay

LEMMA WriteRow ==
    ASSUME TypeOK, Write
    PROVE  \E row \in Row : row.stage = "PENDING" /\ Begin(row)
<1>1. CASE \E p \in Paths, result \in Hashes, expected \in Hashes \cup {Unchecked},
              logs \in BOOLEAN : WriteFile(p, result, expected, logs)
  <2>1. PICK p \in Paths, result \in Hashes, expected \in Hashes \cup {Unchecked},
             logs \in BOOLEAN : WriteFile(p, result, expected, logs)
    BY <1>1
  <2> DEFINE row == [kind |-> "file", path |-> p, before |-> disk[p], result |-> result,
                     logs |-> logs, stage |-> "PENDING", expected |-> expected]
  <2>2. disk[p] \in Hashes
    BY DEF TypeOK
  <2>3. row \in Row /\ row.stage = "PENDING"
    BY <2>2 DEF Row, Stages, Working
  <2> QED BY <2>1, <2>3 DEF WriteFile
<1>2. CASE \E p \in Paths : WriteEvent(p)
  <2>1. PICK p \in Paths : WriteEvent(p)
    BY <1>2
  <2> DEFINE row == [kind |-> "event", path |-> p, before |-> Absent, result |-> Absent,
                     logs |-> TRUE, stage |-> "PENDING", expected |-> Unchecked]
  <2>2. row \in Row /\ row.stage = "PENDING"
    BY DEF Row, Stages, Working, Hashes
  <2> QED BY <2>1, <2>2 DEF WriteEvent
<1> QED BY <1>1, <1>2 DEF Write

LEMMA EnvironmentType ==
    ASSUME TypeOK, Environment
    PROVE  TypeOK'
<1>1. budget \in Counters
  BY DEF TypeOK, Counters
<1>0. Idle \in Step /\ Idle.seq <= Len(rows)
  BY IdleStep DEF TypeOK
<1>2. CASE Crash
  <2>1. budget' \in Counters
    BY <1>1, <1>2, CounterStep DEF Crash
  <2> QED BY <1>0, <1>2, <2>1 DEF Crash, TypeOK, Counters, log, history
<1>3. CASE CrashInAppend
  <2>1. budget' \in Counters
    BY <1>1, <1>3, CounterStep DEF CrashInAppend
  <2> QED BY <1>0, <1>3, <2>1 DEF CrashInAppend, TypeOK, Counters, history
<1>4. CASE Fail
  <2>1. budget' \in Counters
    BY <1>1, <1>4, CounterStep DEF Fail
  <2> QED BY <1>0, <1>4, <2>1 DEF Fail, TypeOK, Counters, log, history
<1>5. CASE Reconcile
  BY <1>5 DEF Reconcile, TypeOK, log
<1>6. ASSUME NEW p \in Paths, NEW hash \in Hashes, OutsideEdit(p, hash)
      PROVE  TypeOK'
  <2>1. disk' \in [Paths -> Hashes] /\ lastWriter' \in [Paths -> 0..MaxOps]
    BY <1>6, WriteJournalAssumption DEF OutsideEdit, TypeOK
  <2>2. budget' \in Counters
    BY <1>1, <1>6, CounterStep DEF OutsideEdit
  <2> QED BY <1>6, <2>1, <2>2 DEF OutsideEdit, TypeOK, Counters, log
<1> QED BY <1>2, <1>3, <1>4, <1>5, <1>6 DEF Environment

LEMMA TypeStep ==
    ASSUME TypeOK, Handover, [Next]_vars
    PROVE  TypeOK'
<1>1. CASE Write
  BY <1>1, WriteRow, BeginType
<1>2. CASE Apply
  BY <1>2, ApplyType
<1>3. CASE Start
  BY <1>3 DEF Start, TypeOK, Unfinished, log
<1>4. CASE ReplayComplete
  BY <1>4 DEF ReplayComplete, TypeOK, log, history
<1>5. CASE \E s \in todo : Replay(s)
  BY <1>5, ReplayType
<1>6. CASE Environment
  BY <1>6, EnvironmentType
<1>7. CASE UNCHANGED vars
  BY <1>7 DEF vars, TypeOK
<1> QED BY <1>1, <1>2, <1>3, <1>4, <1>5, <1>6, <1>7 DEF Next, Server

-----------------------------------------------------------------------------
(* How the steps change the rows.  A step either leaves the outbox and     *)
(* everything #applyFrom remembers alone, or is one of the others below.   *)

journal == <<lines, torn, rows, mode, todo, cur, landed>>

LEMMA QuietStep ==
    ASSUME UNCHANGED journal, Handover, OneLine, WholeLine, FileFirst
    PROVE  Handover' /\ OneLine' /\ WholeLine' /\ FileFirst'
BY DEF journal, Handover, Unfinished, OneLine, LoggedAtMostOnce, BeforeAppend, WholeLine,
       DoneIsLogged, AfterAppend, FileFirst, LoggedHasLanded, Busy, This

LEMMA BeginInv ==
    ASSUME JournalInv, NEW row \in Row, row.stage = "PENDING", Begin(row)
    PROVE  Handover' /\ OneLine' /\ WholeLine' /\ FileFirst'
<1> USE DEF JournalInv
<1>1. /\ DOMAIN rows' = 1..(Len(rows) + 1) /\ DOMAIN rows = 1..Len(rows)
      /\ rows'[Len(rows) + 1] = row /\ \A s \in DOMAIN rows : rows'[s] = rows[s]
  BY AppendRow DEF TypeOK, Begin
<1>2. Len(rows) \in Nat /\ MaxOps \in Nat /\ Len(rows) < MaxOps
  BY WriteJournalAssumption DEF TypeOK, Begin
<1>3. /\ Len(rows) + 1 \in Seqs \ DOMAIN rows /\ Len(rows) + 1 \in DOMAIN rows'
      /\ DOMAIN rows' = DOMAIN rows \cup {Len(rows) + 1}
  BY <1>1, <1>2 DEF Seqs
<1>4. /\ cur'.seq = Len(rows) + 1 /\ cur'.at = "PENDING" /\ ~cur'.effect /\ ~cur'.check
  BY DEF Begin, Applying
<1>5. UNCHANGED <<lines, torn, mode, todo, landed>> /\ mode = "up" /\ ~Busy
  BY DEF Begin, log, history
<1>6. Handover'
  BY <1>1, <1>3, <1>4, <1>5 DEF Handover, Unfinished, Busy, Working
<1>7. OneLine'
  BY <1>1, <1>3, <1>4, <1>5 DEF OneLine, LoggedAtMostOnce
<1>8. WholeLine'
  BY <1>1, <1>3, <1>4, <1>5 DEF WholeLine, DoneIsLogged, AfterAppend
<1>9. FileFirst'
  BY <1>1, <1>3, <1>4, <1>5 DEF FileFirst, OneLine, LoggedHasLanded, PastFile, This
<1> QED BY <1>6, <1>7, <1>8, <1>9

(* An effect that touches neither the outbox nor the log only sets the     *)
(* flag of #applyFrom; a landing adds its row to `landed` first.           *)
LEMMA EffectInv ==
    ASSUME JournalInv, Busy, cur.at \in {"PENDING", "FILE_DONE"},
           cur' = [cur EXCEPT !.effect = TRUE],
           UNCHANGED <<lines, torn, rows, mode, todo>>,
           landed \subseteq landed',
           cur.at = "PENDING" => cur.seq \in landed'
    PROVE  Handover' /\ OneLine' /\ WholeLine' /\ FileFirst'
<1> USE DEF JournalInv
<1>1. cur'.seq = cur.seq /\ cur'.at = cur.at /\ cur'.check = cur.check
  BY EffectStep DEF TypeOK
<1>2. Handover'
  BY <1>1 DEF Handover, Unfinished, Busy
<1>3. OneLine'
  BY <1>1 DEF OneLine, LoggedAtMostOnce, BeforeAppend, Busy
<1>4. WholeLine'
  BY <1>1 DEF WholeLine, DoneIsLogged, AfterAppend, Busy, This
<1>5. FileFirst'
  BY <1>1 DEF FileFirst, LoggedHasLanded, Busy, This
<1> QED BY <1>2, <1>3, <1>4, <1>5

LEMMA AppendInv ==
    ASSUME JournalInv, AppendLine
    PROVE  Handover' /\ OneLine' /\ WholeLine' /\ FileFirst'
<1> USE DEF JournalInv
<1>1. /\ cur'.seq = cur.seq /\ cur'.at = "INDEX_DONE" /\ cur'.effect
      /\ cur'.check = cur.check
  BY EffectStep DEF TypeOK, AppendLine, AtEventStep
<1>2. /\ Busy /\ cur.seq \in DOMAIN rows /\ cur.seq \in Seqs /\ This.logs
      /\ cur.at = "INDEX_DONE" /\ ~cur.effect
  BY BusyRow DEF AppendLine, AtEventStep
<1>3. lines[cur.seq] = 0
  <2>1. CASE cur.check
    BY <1>2, <2>1 DEF AppendLine, AlreadyLogged, OneLine, LoggedAtMostOnce, TypeOK
  <2>2. CASE ~cur.check
    BY <1>2, <2>2 DEF OneLine, BeforeAppend
  <2> QED BY <2>1, <2>2
<1>4. /\ \A s \in Seqs : lines'[s] = IF s = cur.seq /\ ~torn THEN 1 ELSE lines[s]
      /\ UNCHANGED <<rows, mode, todo, landed>> /\ ~torn'
  BY <1>2, <1>3 DEF AppendLine, TypeOK, history
<1>5. Handover'
  BY <1>1, <1>4 DEF Handover, Unfinished, Busy
<1>6. OneLine'
  BY <1>1, <1>2, <1>4 DEF OneLine, LoggedAtMostOnce, BeforeAppend
<1>7. \A s \in DOMAIN rows : s \in Seqs
  BY RowFields
<1>8. WholeLine'
  BY <1>1, <1>2, <1>4, <1>7 DEF WholeLine, DoneIsLogged, Busy
<1>9. cur.seq \in landed \/ This.kind # "file"
  BY <1>2 DEF FileFirst
<1>10. FileFirst'
  BY <1>1, <1>2, <1>4, <1>7, <1>9 DEF FileFirst, LoggedHasLanded, Busy, This
<1> QED BY <1>5, <1>6, <1>8, <1>10

LEMMA AdvanceInv ==
    ASSUME JournalInv, Advance
    PROVE  Handover' /\ OneLine' /\ WholeLine' /\ FileFirst'
<1> USE DEF JournalInv
<1>1. /\ Busy /\ cur.seq \in DOMAIN rows /\ cur.seq \in Seqs /\ cur.at \in Working
      /\ cur.effect \/ NothingToDo
  BY BusyRow DEF Advance
<1>2. /\ UNCHANGED <<lines, torn, mode, todo, landed>>
  BY DEF Advance, log, history
<1>3. After(cur.at) \in Stages
  BY <1>1 DEF After, Stages, Working, Settled
<1>4. /\ DOMAIN rows' = DOMAIN rows
      /\ \A s \in DOMAIN rows :
            /\ rows'[s].kind = rows[s].kind /\ rows'[s].logs = rows[s].logs
            /\ rows'[s].stage = IF s = cur.seq THEN After(cur.at) ELSE rows[s].stage
  BY <1>1, <1>3, StageChange DEF Advance, TypeOK
<1>5. CASE cur.at = "EVENT_DONE"
  <2>1. cur'.seq = 0 /\ ~Busy' /\ After(cur.at) = "DONE" /\ 0 \notin DOMAIN rows
    BY <1>5, IdleStep DEF Advance, After, Busy, TypeOK
  <2>2. Handover'
    BY <1>2, <1>4, <2>1 DEF Handover, Unfinished
  <2>3. OneLine'
    BY <1>2, <1>4, <2>1 DEF OneLine, LoggedAtMostOnce
  <2>4. WholeLine'
    BY <1>1, <1>2, <1>4, <1>5, <2>1 DEF WholeLine, DoneIsLogged, AfterAppend, This
  <2>5. FileFirst'
    BY <1>1, <1>2, <1>4, <1>5, <2>1 DEF FileFirst, LoggedHasLanded, PastFile, This
  <2> QED BY <2>2, <2>3, <2>4, <2>5
<1>6. CASE cur.at # "EVENT_DONE"
  <2>1. /\ cur'.seq = cur.seq /\ cur'.at = After(cur.at) /\ cur'.check = cur.check
        /\ ~cur'.effect
    BY <1>6 DEF Advance, Applying
  <2>2. Handover'
    BY <1>1, <1>2, <1>4, <1>6, <2>1 DEF Handover, Unfinished, Busy, After, Working
  <2>3. OneLine'
    BY <1>1, <1>2, <1>4, <1>6, <2>1
       DEF OneLine, LoggedAtMostOnce, BeforeAppend, After, Working, Busy
  <2>4. cur.at = "INDEX_DONE" /\ ~TornAppends /\ This.logs => lines[cur.seq] = 1
    <3>1. lines[cur.seq] <= 1 /\ lines[cur.seq] \in Nat
      BY <1>1 DEF OneLine, LoggedAtMostOnce, TypeOK
    <3> QED BY <1>1, <3>1 DEF WholeLine, AfterAppend, NothingToDo, AlreadyLogged
  <2>5. WholeLine'
    BY <1>1, <1>2, <1>4, <1>6, <2>1, <2>4
       DEF WholeLine, DoneIsLogged, AfterAppend, After, Working, This
  <2>6. This.kind = "file" => cur.seq \in landed
    BY <1>1 DEF FileFirst, NothingToDo
  <2>7. FileFirst'
    BY <1>1, <1>2, <1>4, <1>6, <2>1, <2>6 DEF FileFirst, LoggedHasLanded, This
  <2> QED BY <2>2, <2>3, <2>5, <2>7
<1> QED BY <1>5, <1>6

LEMMA ApplyInv ==
    ASSUME JournalInv, Apply
    PROVE  Handover' /\ OneLine' /\ WholeLine' /\ FileFirst'
<1> USE DEF JournalInv
<1>1. CASE WriteTemp
  BY <1>1, QuietStep DEF WriteTemp, journal, log, history
<1>2. CASE Rename \/ Remove
  BY <1>2, EffectInv DEF Rename, Remove, Landing, AtFileStep, log
<1>3. CASE SyncPath
  BY <1>3, EffectInv DEF SyncPath, log
<1> QED BY <1>1, <1>2, <1>3, AppendInv, AdvanceInv DEF Apply

(* replay() hands #applyFrom the next row of its list, or aborts the row.  *)
LEMMA ReplayInv ==
    ASSUME JournalInv, NEW s \in todo, Replay(s)
    PROVE  Handover' /\ OneLine' /\ WholeLine' /\ FileFirst'
<1> USE DEF JournalInv
<1>1. /\ s \in DOMAIN rows /\ s \in Seqs /\ rows[s].stage \in Working /\ s # 0
      /\ mode = "replaying" /\ ~Busy
  <2>1. s \in Unfinished /\ s \in DOMAIN rows /\ rows[s].stage \in Working
    BY DEF Handover, Unfinished
  <2>2. s \in Seqs /\ s # 0
    BY <2>1, RowFields DEF Seqs
  <2>3. NextInLine(s)
    BY DEF Replay, ReplayEvent, ReplayFromStart, ReplayOnward, ReplayAbort
  <2> QED BY <2>1, <2>2, <2>3 DEF NextInLine
<1>2. ASSUME NEW stage \in Working, cur' = Applying(s, stage, TRUE), todo' = todo \ {s},
             UNCHANGED <<lines, torn, rows, mode>>, landed \subseteq landed',
             stage \in {"PENDING", "FILE_DONE", rows[s].stage},
             rows[s].kind = "file" /\ stage # "PENDING" => s \in landed'
      PROVE  Handover' /\ OneLine' /\ WholeLine' /\ FileFirst'
  <2>1. cur'.seq = s /\ cur'.at = stage /\ cur'.check /\ ~cur'.effect
    BY <1>2 DEF Applying
  <2>2. Handover'
    BY <1>1, <1>2, <2>1 DEF Handover, Unfinished
  <2>3. OneLine'
    BY <1>2, <2>1 DEF OneLine, LoggedAtMostOnce
  <2>4. WholeLine'
    BY <1>1, <1>2, <2>1 DEF WholeLine, DoneIsLogged, AfterAppend, This
  <2>5. FileFirst'
    BY <1>2, <2>1 DEF FileFirst, LoggedHasLanded, This
  <2> QED BY <2>2, <2>3, <2>4, <2>5
<1>3. /\ LaterOf(rows[s].stage) \in Working
      /\ LaterOf(rows[s].stage) \in {"FILE_DONE", rows[s].stage}
      /\ "PENDING" \in Working
  BY <1>1 DEF LaterOf, Working
<1>4. CASE ReplayEvent(s)
  BY <1>2, <1>3, <1>4 DEF ReplayEvent, log, history
<1>5. CASE ReplayFromStart(s)
  BY <1>2, <1>3, <1>5 DEF ReplayFromStart, log, history
<1>6. CASE ReplayOnward(s)
  BY <1>2, <1>3, <1>6 DEF ReplayOnward, log
<1>7. CASE ReplayAbort(s)
  <2>1. "ABORTED" \in Stages
    BY DEF Stages, Settled
  <2>2. /\ DOMAIN rows' = DOMAIN rows
        /\ \A i \in DOMAIN rows :
              /\ rows'[i].kind = rows[i].kind /\ rows'[i].logs = rows[i].logs
              /\ rows'[i].stage = IF i = s THEN "ABORTED" ELSE rows[i].stage
    BY <1>1, <1>7, <2>1, StageChange DEF ReplayAbort, TypeOK
  <2>3. UNCHANGED <<lines, torn, mode, cur, landed>> /\ todo' = todo \ {s}
    BY <1>7 DEF ReplayAbort, log
  <2>4. Handover'
    BY <1>1, <2>2, <2>3 DEF Handover, Unfinished, Busy
  <2>5. OneLine'
    BY <1>1, <2>2, <2>3 DEF OneLine, LoggedAtMostOnce, Busy
  <2>6. WholeLine'
    BY <1>1, <2>2, <2>3 DEF WholeLine, DoneIsLogged, Busy
  <2>7. FileFirst'
    BY <1>1, <2>2, <2>3 DEF FileFirst, LoggedHasLanded, Busy, PastFile
  <2> QED BY <2>4, <2>5, <2>6, <2>7
<1> QED BY <1>4, <1>5, <1>6, <1>7 DEF Replay

(* The local variables of #applyFrom are gone, with or without the server. *)
LEMMA StopInv ==
    ASSUME JournalInv, cur' = Idle, todo' \subseteq todo,
           UNCHANGED <<lines, rows, landed>>, torn' = torn \/ TornAppends
    PROVE  Handover' /\ OneLine' /\ WholeLine' /\ FileFirst'
<1> USE DEF JournalInv
<1>1. cur'.seq = 0 /\ ~Busy' /\ 0 \notin DOMAIN rows
  BY IdleStep DEF Busy, TypeOK
<1>2. Handover'
  BY <1>1 DEF Handover, Unfinished
<1>3. OneLine' /\ WholeLine' /\ FileFirst'
  BY <1>1 DEF OneLine, LoggedAtMostOnce, WholeLine, DoneIsLogged, FileFirst, LoggedHasLanded
<1> QED BY <1>2, <1>3

LEMMA EnvironmentInv ==
    ASSUME JournalInv, Environment
    PROVE  Handover' /\ OneLine' /\ WholeLine' /\ FileFirst'
<1>1. CASE Crash
  BY <1>1, StopInv DEF Crash, log, history
<1>2. CASE CrashInAppend
  BY <1>2, StopInv DEF CrashInAppend, history
<1>3. CASE Fail
  BY <1>3, StopInv DEF Fail, log, history
<1>4. CASE Reconcile
  BY <1>4, QuietStep DEF JournalInv, Reconcile, journal, log
<1>5. CASE \E p \in Paths, hash \in Hashes : OutsideEdit(p, hash)
  BY <1>5, QuietStep DEF JournalInv, OutsideEdit, journal, log
<1> QED BY <1>1, <1>2, <1>3, <1>4, <1>5 DEF Environment

LEMMA StartInv ==
    ASSUME JournalInv, Start \/ ReplayComplete
    PROVE  Handover' /\ OneLine' /\ WholeLine' /\ FileFirst'
<1> USE DEF JournalInv
<1>1. UNCHANGED <<lines, torn, rows, cur, landed>> /\ mode' # "down" /\ ~Busy
  BY DEF Start, ReplayComplete, Handover, log, history
<1>2. todo' \in {todo, Unfinished} /\ 0 \notin DOMAIN rows /\ cur.seq = 0
  BY <1>1 DEF Start, ReplayComplete, TypeOK, Busy
<1>3. Handover'
  BY <1>1, <1>2 DEF Handover, Unfinished, Busy
<1>4. OneLine' /\ WholeLine' /\ FileFirst'
  BY <1>1 DEF OneLine, LoggedAtMostOnce, WholeLine, DoneIsLogged, FileFirst,
              LoggedHasLanded, Busy
<1> QED BY <1>3, <1>4

LEMMA InitInv == Init => JournalInv
<1> SUFFICES ASSUME Init PROVE JournalInv
  OBVIOUS
<1>1. /\ rows = <<>> /\ rows \in Seq(Row) /\ Len(rows) = 0 /\ DOMAIN rows = {}
      /\ MaxOps \in Nat
  BY WriteJournalAssumption DEF Init
<1>2. cur \in Step /\ cur.seq = 0 /\ ~Busy
  BY IdleStep DEF Init, Busy
<1>3. budget \in [crashes: Nat, edits: Nat, failures: Nat]
  BY DEF Init
<1>4. disk \in [Paths -> Hashes] /\ lastWriter \in [Paths -> 0..MaxOps]
      /\ lines \in [Seqs -> Nat]
  BY <1>1 DEF Init
<1>5. /\ indexed \in [Paths -> Hashes] /\ temps \subseteq Paths /\ unseen \subseteq Paths
      /\ torn \in BOOLEAN /\ mode \in {"down", "replaying", "up"}
      /\ todo \subseteq DOMAIN rows /\ landed \subseteq DOMAIN rows
  BY <1>4 DEF Init
<1>8. TypeOK
  BY <1>1, <1>2, <1>3, <1>4, <1>5 DEF TypeOK
<1>6. Handover
  BY <1>1, <1>2 DEF Init, Handover
<1>7. OneLine /\ WholeLine /\ FileFirst
  BY <1>1, <1>2 DEF Init, OneLine, LoggedAtMostOnce, WholeLine, DoneIsLogged, FileFirst,
                    LoggedHasLanded
<1> QED BY <1>6, <1>7, <1>8 DEF JournalInv

LEMMA NextInv == JournalInv /\ [Next]_vars => JournalInv'
<1> SUFFICES ASSUME JournalInv, [Next]_vars PROVE JournalInv'
  OBVIOUS
<1>1. TypeOK'
  BY TypeStep DEF JournalInv
<1>2. CASE Write
  BY <1>1, <1>2, WriteRow, BeginInv DEF JournalInv
<1>3. CASE Apply
  BY <1>1, <1>3, ApplyInv DEF JournalInv
<1>4. CASE Start \/ ReplayComplete
  BY <1>1, <1>4, StartInv DEF JournalInv
<1>5. CASE \E s \in todo : Replay(s)
  BY <1>1, <1>5, ReplayInv DEF JournalInv
<1>6. CASE Environment
  BY <1>1, <1>6, EnvironmentInv DEF JournalInv
<1>7. CASE UNCHANGED vars
  BY <1>1, <1>7, QuietStep DEF JournalInv, vars, journal
<1> QED BY <1>2, <1>3, <1>4, <1>5, <1>6, <1>7 DEF Next, Server

-----------------------------------------------------------------------------
(* The journal keeps its inductive invariant: in particular its types.     *)
THEOREM JournalInvariant == Spec => []JournalInv
BY InitInv, NextInv, PTL DEF Spec

THEOREM TypeCorrect == Spec => []TypeOK
BY JournalInvariant, PTL DEF JournalInv

(* However crashes, torn appends, exceptions, outside edits and replays    *)
(* interleave, no event is in the log twice (writer.ts:179-190).           *)
THEOREM NoDuplicateEvent == Spec => []LoggedAtMostOnce
BY JournalInvariant, PTL DEF JournalInv, OneLine

(* The log never reports a change of a file that has not happened: the     *)
(* file step comes first, in a replay too (writer.ts:151-193, 203-246).    *)
THEOREM EventsAreTrue == Spec => []LoggedHasLanded
BY JournalInvariant, PTL DEF JournalInv, FileFirst

(* So what the log says is true, whatever goes wrong.                      *)
THEOREM LogStaysTrue == Spec => []LogIsTrue
BY NoDuplicateEvent, EventsAreTrue, PTL DEF LogIsTrue

(* If appends are whole, a write marked EVENT_DONE or DONE has its event   *)
(* in the log exactly once.                                                *)
THEOREM NoLostEvent == ASSUME ~TornAppends PROVE Spec => []DoneIsLogged
<1>1. JournalInv => DoneIsLogged
  BY DEF JournalInv, WholeLine
<1> QED BY <1>1, JournalInvariant, PTL

-----------------------------------------------------------------------------
(* How the rows change: a stage is set, a row is added, or nothing.        *)

LEMMA StageFields ==
    ASSUME TypeOK, NEW s \in DOMAIN rows, NEW stage \in Stages,
           rows' = [rows EXCEPT ![s].stage = stage]
    PROVE  /\ DOMAIN rows' = DOMAIN rows /\ Len(rows') = Len(rows)
           /\ \A i \in DOMAIN rows :
                 /\ rows'[i].kind = rows[i].kind /\ rows'[i].path = rows[i].path
                 /\ rows'[i].before = rows[i].before /\ rows'[i].result = rows[i].result
                 /\ rows'[i].logs = rows[i].logs
                 /\ rows'[i].stage = IF i = s THEN stage ELSE rows[i].stage
<1>1. /\ rows \in Seq(Row) /\ s \in 1..Len(rows) /\ rows[s] \in Row
  BY RowFields DEF TypeOK
<1>2. /\ [rows[s] EXCEPT !.stage = stage].kind = rows[s].kind
      /\ [rows[s] EXCEPT !.stage = stage].path = rows[s].path
      /\ [rows[s] EXCEPT !.stage = stage].before = rows[s].before
      /\ [rows[s] EXCEPT !.stage = stage].result = rows[s].result
      /\ [rows[s] EXCEPT !.stage = stage].logs = rows[s].logs
      /\ [rows[s] EXCEPT !.stage = stage].stage = stage
      /\ [rows[s] EXCEPT !.stage = stage] \in Row
  BY <1>1 DEF Row
<1>3. rows' = [rows EXCEPT ![s] = [rows[s] EXCEPT !.stage = stage]]
  OBVIOUS
<1> QED BY <1>1, <1>2, <1>3, ExceptSeq

LEMMA AdvanceFields ==
    ASSUME TypeOK, Advance
    PROVE  /\ Busy /\ cur.seq \in DOMAIN rows /\ cur.seq \in Seqs /\ cur.at \in Working
           /\ DOMAIN rows' = DOMAIN rows /\ Len(rows') = Len(rows)
           /\ \A i \in DOMAIN rows :
                 /\ rows'[i].kind = rows[i].kind /\ rows'[i].path = rows[i].path
                 /\ rows'[i].before = rows[i].before /\ rows'[i].result = rows[i].result
                 /\ rows'[i].logs = rows[i].logs
                 /\ rows'[i].stage = IF i = cur.seq THEN After(cur.at) ELSE rows[i].stage
           /\ cur.at = "EVENT_DONE" => cur' = Idle /\ cur'.seq = 0 /\ ~Busy'
           /\ cur.at # "EVENT_DONE" =>
                 cur'.seq = cur.seq /\ cur'.at = After(cur.at) /\ ~cur'.effect
           /\ UNCHANGED <<disk, temps, indexed, lines, torn, mode, todo, lastWriter,
                          landed, unseen, budget>>
<1>1. /\ Busy /\ cur.seq \in DOMAIN rows /\ cur.seq \in Seqs /\ cur.at \in Working
  BY BusyRow DEF Advance
<1>2. After(cur.at) \in Stages
  BY <1>1 DEF After, Stages, Working, Settled
<1>3. rows' = [rows EXCEPT ![cur.seq].stage = After(cur.at)]
  BY DEF Advance
<1>4. cur.at = "EVENT_DONE" => cur' = Idle /\ cur'.seq = 0 /\ ~Busy'
  BY IdleStep DEF Advance, Busy
<1>5. cur.at # "EVENT_DONE" =>
         cur'.seq = cur.seq /\ cur'.at = After(cur.at) /\ ~cur'.effect
  BY DEF Advance, Applying
<1>6. UNCHANGED <<disk, temps, indexed, lines, torn, mode, todo, lastWriter,
                  landed, unseen, budget>>
  BY DEF Advance, log, history
<1> QED BY <1>1, <1>2, <1>3, <1>4, <1>5, <1>6, StageFields

LEMMA AbortFields ==
    ASSUME TypeOK, NEW s \in todo, ReplayAbort(s)
    PROVE  /\ s \in DOMAIN rows /\ s \in Seqs
           /\ DOMAIN rows' = DOMAIN rows /\ Len(rows') = Len(rows)
           /\ \A i \in DOMAIN rows :
                 /\ rows'[i].kind = rows[i].kind /\ rows'[i].path = rows[i].path
                 /\ rows'[i].before = rows[i].before /\ rows'[i].result = rows[i].result
                 /\ rows'[i].logs = rows[i].logs
                 /\ rows'[i].stage = IF i = s THEN "ABORTED" ELSE rows[i].stage
<1>1. s \in DOMAIN rows /\ s \in Seqs
  BY RowFields DEF TypeOK
<1>2. "ABORTED" \in Stages /\ rows' = [rows EXCEPT ![s].stage = "ABORTED"]
  BY DEF ReplayAbort, Stages, Settled
<1> QED BY <1>1, <1>2, StageFields

LEMMA BeginFields ==
    ASSUME TypeOK, NEW row \in Row, Begin(row)
    PROVE  /\ Len(rows) \in Nat /\ Len(rows) + 1 \in Seqs
           /\ Len(rows) + 1 \notin DOMAIN rows /\ Len(rows') = Len(rows) + 1
           /\ DOMAIN rows' = DOMAIN rows \cup {Len(rows) + 1}
           /\ rows'[Len(rows) + 1] = row /\ \A s \in DOMAIN rows : rows'[s] = rows[s]
           /\ cur'.seq = Len(rows) + 1 /\ cur'.at = "PENDING" /\ ~cur'.effect
           /\ mode = "up" /\ ~Busy
           /\ UNCHANGED <<disk, temps, indexed, lines, torn, mode, todo, lastWriter,
                          landed, unseen, budget>>
<1>1. /\ DOMAIN rows' = 1..(Len(rows) + 1) /\ DOMAIN rows = 1..Len(rows)
      /\ rows'[Len(rows) + 1] = row /\ \A s \in DOMAIN rows : rows'[s] = rows[s]
      /\ Len(rows') = Len(rows) + 1
  BY AppendRow DEF TypeOK, Begin
<1>2. Len(rows) \in Nat /\ MaxOps \in Nat /\ Len(rows) < MaxOps
  BY WriteJournalAssumption DEF TypeOK, Begin
<1>3. /\ cur'.seq = Len(rows) + 1 /\ cur'.at = "PENDING" /\ ~cur'.effect
  BY DEF Begin, Applying
<1>4. /\ mode = "up" /\ ~Busy
      /\ UNCHANGED <<disk, temps, indexed, lines, torn, mode, todo, lastWriter,
                     landed, unseen, budget>>
  BY DEF Begin, log, history
<1>5. /\ Len(rows) + 1 \in Seqs /\ Len(rows) + 1 \notin DOMAIN rows
      /\ DOMAIN rows' = DOMAIN rows \cup {Len(rows) + 1}
  BY <1>1, <1>2 DEF Seqs
<1> QED BY <1>1, <1>2, <1>3, <1>4, <1>5

-----------------------------------------------------------------------------
(* The index.  IndexLagIsExplained is about the times when the server      *)
(* takes requests; the invariant speaks of replays as well, where the row  *)
(* being applied may be marked further than it has been applied again.     *)

Unindexed(s) == rows[s].kind = "file" /\ rows[s].stage \in {"PENDING", "FILE_DONE"}

Applied(p) ==
    /\ Busy /\ This.kind = "file" /\ This.path = p
    /\ cur.at = "PENDING" \/ (cur.at = "FILE_DONE" /\ ~cur.effect)

Explained(p) ==
    \/ p \in unseen
    \/ \E s \in DOMAIN rows : rows[s].path = p /\ Unindexed(s)
    \/ Applied(p)

IndexInv ==
    /\ mode # "down" => \A p \in Paths : indexed[p] # disk[p] => Explained(p)
    (* an index step has read the file, or somebody has written it since *)
    /\ Busy /\ This.kind = "file" /\ cur.at = "FILE_DONE" /\ cur.effect =>
          indexed[This.path] = disk[This.path] \/ This.path \in unseen
    (* the mark of a fresh write is the stage it is at *)
    /\ Busy /\ (mode = "up" \/ cur.at \in {"INDEX_DONE", "EVENT_DONE"}) =>
          This.stage = cur.at

LEMMA IndexInit == Init => IndexInv
<1> SUFFICES ASSUME Init PROVE IndexInv
  OBVIOUS
<1>1. ~Busy
  BY IdleStep DEF Init, Busy
<1> QED BY <1>1 DEF Init, IndexInv

LEMMA IndexBegin ==
    ASSUME JournalInv, IndexInv, NEW row \in Row, row.stage = "PENDING", Begin(row)
    PROVE  IndexInv'
<1>1. TypeOK
  BY DEF JournalInv
<1>2. /\ DOMAIN rows' = DOMAIN rows \cup {Len(rows) + 1}
      /\ rows'[Len(rows) + 1] = row /\ \A s \in DOMAIN rows : rows'[s] = rows[s]
      /\ cur'.seq = Len(rows) + 1 /\ cur'.at = "PENDING" /\ ~cur'.effect
      /\ mode = "up" /\ ~Busy
      /\ UNCHANGED <<disk, indexed, mode, unseen>>
  BY <1>1, BeginFields
<1>3. \A p \in Paths : Explained(p) => Explained(p)'
  BY <1>2 DEF Explained, Unindexed, Applied
<1>4. This'.stage = "PENDING"
  BY <1>2 DEF This
<1> QED BY <1>2, <1>3, <1>4 DEF IndexInv

LEMMA IndexLanding ==
    ASSUME JournalInv, IndexInv, AtFileStep, Landing(This.path, cur.seq)
    PROVE  IndexInv'
<1>1. TypeOK /\ Busy /\ cur.at = "PENDING" /\ This.kind = "file"
  BY DEF JournalInv, AtFileStep
<1>2. cur.seq \in DOMAIN rows /\ This.path \in Paths
  BY <1>1, BusyRow, RowFields DEF This
<1>3. /\ cur'.seq = cur.seq /\ cur'.at = cur.at /\ cur'.effect
      /\ UNCHANGED <<indexed, rows, mode>>
      /\ unseen' = unseen \ {This.path}
      /\ \A p \in Paths : p # This.path => disk'[p] = disk[p]
  BY <1>1, <1>2, EffectStep DEF Landing, TypeOK
<1>4. This' = This /\ Busy'
  BY <1>1, <1>3 DEF This, Busy
<1>5. \A p \in Paths : p = This.path => Explained(p)'
  BY <1>1, <1>3, <1>4 DEF Explained, Applied
<1>6. \A p \in Paths : p # This.path /\ Explained(p) => Explained(p)'
  BY <1>1, <1>3, <1>4 DEF Explained, Applied, Unindexed
<1> QED BY <1>1, <1>3, <1>4, <1>5, <1>6 DEF IndexInv

LEMMA IndexSync ==
    ASSUME JournalInv, IndexInv, SyncPath
    PROVE  IndexInv'
<1>1. TypeOK /\ Busy /\ cur.at = "FILE_DONE" /\ This.kind = "file" /\ ~cur.effect
  BY DEF JournalInv, SyncPath
<1>2. cur.seq \in DOMAIN rows /\ This.path \in Paths
  BY <1>1, BusyRow, RowFields DEF This
<1>3. /\ cur'.seq = cur.seq /\ cur'.at = cur.at /\ cur'.effect
      /\ UNCHANGED <<disk, rows, mode>>
      /\ unseen' = unseen \ {This.path}
      /\ indexed'[This.path] = disk[This.path]
      /\ \A p \in Paths : p # This.path => indexed'[p] = indexed[p]
  BY <1>1, <1>2, EffectStep DEF SyncPath, TypeOK
<1>4. This' = This /\ Busy'
  BY <1>1, <1>3 DEF This, Busy
<1>5. \A p \in Paths : p # This.path /\ Explained(p) => Explained(p)'
  BY <1>1, <1>3, <1>4 DEF Explained, Applied, Unindexed
<1> QED BY <1>1, <1>3, <1>4, <1>5 DEF IndexInv

LEMMA IndexAppend ==
    ASSUME JournalInv, IndexInv, AppendLine
    PROVE  IndexInv'
<1>1. TypeOK /\ Busy /\ cur.at = "INDEX_DONE"
  BY DEF JournalInv, AppendLine, AtEventStep
<1>2. /\ cur'.seq = cur.seq /\ cur'.at = cur.at
      /\ UNCHANGED <<disk, indexed, rows, mode, unseen>>
  BY <1>1, EffectStep DEF AppendLine, TypeOK, history
<1>3. This' = This /\ Busy'
  BY <1>1, <1>2 DEF This, Busy
<1>4. \A p \in Paths : Explained(p) => Explained(p)'
  BY <1>1, <1>2, <1>3 DEF Explained, Applied, Unindexed
<1> QED BY <1>1, <1>2, <1>3, <1>4 DEF IndexInv

LEMMA IndexAdvance ==
    ASSUME JournalInv, IndexInv, Advance
    PROVE  IndexInv'
<1>1. TypeOK /\ (cur.effect \/ NothingToDo)
  BY DEF JournalInv, Advance
<1>2. /\ Busy /\ cur.seq \in DOMAIN rows /\ cur.at \in Working
      /\ DOMAIN rows' = DOMAIN rows
      /\ \A i \in DOMAIN rows :
            /\ rows'[i].kind = rows[i].kind /\ rows'[i].path = rows[i].path
            /\ rows'[i].stage = IF i = cur.seq THEN After(cur.at) ELSE rows[i].stage
      /\ cur.at = "EVENT_DONE" => ~Busy'
      /\ cur.at # "EVENT_DONE" =>
            cur'.seq = cur.seq /\ cur'.at = After(cur.at) /\ ~cur'.effect
      /\ UNCHANGED <<disk, indexed, mode, unseen>>
  BY <1>1, AdvanceFields
<1>3. \A p \in Paths : indexed[p] # disk[p] /\ Explained(p) => Explained(p)'
  <2> SUFFICES ASSUME NEW p \in Paths, indexed[p] # disk[p], Explained(p), p \notin unseen
               PROVE  \E s \in DOMAIN rows : rows'[s].path = p /\ Unindexed(s)'
    BY <1>2 DEF Explained
  <2>1. CASE \E s \in DOMAIN rows \ {cur.seq} : rows[s].path = p /\ Unindexed(s)
    BY <1>2, <2>1 DEF Unindexed
  <2>2. CASE rows[cur.seq].path = p /\ Unindexed(cur.seq)
    <3>1. cur.at \in {"PENDING", "FILE_DONE"} /\ rows[cur.seq].kind = "file"
      BY <1>2, <2>2 DEF IndexInv, Unindexed, This, Working
    <3>2. cur.at # "FILE_DONE"
      BY <1>1, <1>2, <2>2, <3>1 DEF IndexInv, NothingToDo, This
    <3> QED BY <1>2, <2>2, <3>1, <3>2 DEF Unindexed, After
  <2>3. CASE Applied(p)
    <3>1. cur.at = "PENDING" /\ This.kind = "file" /\ This.path = p
      BY <1>1, <2>3 DEF Applied, NothingToDo
    <3> QED BY <1>2, <3>1 DEF Unindexed, After, This
  <2> QED BY <2>1, <2>2, <2>3 DEF Explained
<1>4. Busy' => This'.stage = cur'.at /\ ~cur'.effect
  BY <1>2 DEF This
<1> QED BY <1>2, <1>3, <1>4 DEF IndexInv

LEMMA IndexReplay ==
    ASSUME JournalInv, IndexInv, NEW s \in todo, Replay(s)
    PROVE  IndexInv'
<1>1. TypeOK /\ s \in DOMAIN rows /\ rows[s].path \in Paths /\ rows[s].stage \in Working
  BY RowFields DEF JournalInv, TypeOK, Handover, Unfinished
<1>2. NextInLine(s) /\ mode = "replaying" /\ ~Busy
  BY DEF Replay, ReplayEvent, ReplayFromStart, ReplayOnward, ReplayAbort, NextInLine
<1>3. ASSUME NEW stage \in {"PENDING", LaterOf(rows[s].stage)},
             cur' = Applying(s, stage, TRUE), UNCHANGED <<disk, indexed, rows, mode, unseen>>
      PROVE  IndexInv'
  <2>1. cur'.seq = s /\ cur'.at = stage /\ ~cur'.effect
    BY <1>3 DEF Applying
  <2>2. \A p \in Paths : Explained(p) => Explained(p)'
    BY <1>2, <1>3 DEF Explained, Unindexed, Applied
  <2>3. stage \in {"INDEX_DONE", "EVENT_DONE"} => rows[s].stage = stage
    BY <1>1 DEF LaterOf, Working
  <2> QED BY <1>2, <1>3, <2>1, <2>2, <2>3 DEF IndexInv, This
<1>4. CASE ReplayEvent(s)
  BY <1>3, <1>4 DEF ReplayEvent, history
<1>5. CASE ReplayFromStart(s)
  BY <1>3, <1>5 DEF ReplayFromStart, history
<1>6. CASE ReplayOnward(s)
  BY <1>3, <1>6 DEF ReplayOnward
<1>7. CASE ReplayAbort(s)
  <2>1. /\ DOMAIN rows' = DOMAIN rows
        /\ \A i \in DOMAIN rows :
              /\ rows'[i].kind = rows[i].kind /\ rows'[i].path = rows[i].path
              /\ rows'[i].stage = IF i = s THEN "ABORTED" ELSE rows[i].stage
    BY <1>1, <1>7, AbortFields
  <2>2. /\ UNCHANGED <<disk, mode, cur>>
        /\ unseen' = unseen \ {rows[s].path}
        /\ indexed'[rows[s].path] = disk[rows[s].path]
        /\ \A p \in Paths : p # rows[s].path => indexed'[p] = indexed[p]
    BY <1>1, <1>7 DEF ReplayAbort, TypeOK
  <2>3. ~Busy'
    BY <1>2, <2>2 DEF Busy
  <2>4. \A p \in Paths : p # rows[s].path /\ Explained(p) => Explained(p)'
    BY <1>2, <2>1, <2>2 DEF Explained, Applied, Unindexed
  <2> QED BY <1>2, <2>2, <2>3, <2>4 DEF IndexInv
<1> QED BY <1>4, <1>5, <1>6, <1>7 DEF Replay

LEMMA IndexEnvironment ==
    ASSUME JournalInv, IndexInv, Environment
    PROVE  IndexInv'
<1>1. CASE Crash \/ CrashInAppend
  BY <1>1, IdleStep DEF Crash, CrashInAppend, IndexInv, Busy
<1>2. CASE Fail
  <2>1. Busy /\ mode = "up" /\ cur.seq \in DOMAIN rows /\ ~Busy'
    BY <1>2, BusyRow, IdleStep DEF Fail, JournalInv, Busy
  <2>2. UNCHANGED <<disk, indexed, rows, mode, unseen>>
    BY <1>2 DEF Fail, history
  <2>3. \A p \in Paths : Applied(p) => rows[cur.seq].path = p /\ Unindexed(cur.seq)
    BY <2>1 DEF IndexInv, Applied, Unindexed, This
  <2>4. \A p \in Paths : Explained(p) => Explained(p)'
    BY <2>1, <2>2, <2>3 DEF Explained, Unindexed
  <2> QED BY <2>1, <2>2, <2>4 DEF IndexInv
<1>3. CASE Reconcile
  BY <1>3 DEF Reconcile, IndexInv, Busy
<1>4. ASSUME NEW p \in Paths, NEW hash \in Hashes, OutsideEdit(p, hash)
      PROVE  IndexInv'
  <2>1. /\ UNCHANGED <<indexed, rows, mode, cur>> /\ unseen' = unseen \cup {p}
        /\ \A q \in Paths : q # p => disk'[q] = disk[q]
    BY <1>4 DEF OutsideEdit, JournalInv, TypeOK
  <2>2. \A q \in Paths : (q = p \/ Explained(q)) => Explained(q)'
    BY <2>1 DEF Explained, Applied, Unindexed, Busy, This
  <2>3. Busy => This.path \in Paths
    BY BusyRow, RowFields DEF JournalInv, This
  <2> QED BY <2>1, <2>2, <2>3 DEF IndexInv, Busy, This
<1> QED BY <1>1, <1>2, <1>3, <1>4 DEF Environment

LEMMA IndexNext == JournalInv /\ IndexInv /\ [Next]_vars => IndexInv'
<1> SUFFICES ASSUME JournalInv, IndexInv, [Next]_vars PROVE IndexInv'
  OBVIOUS
<1> DEFINE same == <<disk, indexed, rows, mode, cur, unseen>>
<1>1. CASE UNCHANGED same
  BY <1>1 DEF IndexInv, Explained, Applied, Unindexed, Busy, This
<1>2. CASE Write
  BY <1>2, WriteRow, IndexBegin DEF JournalInv
<1>3. CASE Apply
  <2>1. CASE WriteTemp
    BY <1>1, <2>1 DEF WriteTemp, history
  <2>2. CASE Rename \/ Remove
    BY <2>2, IndexLanding DEF Rename, Remove
  <2> QED BY <1>3, <2>1, <2>2, IndexSync, IndexAppend, IndexAdvance DEF Apply
<1>4. CASE Start
  BY <1>4 DEF Start, IndexInv, JournalInv, Handover, Busy
<1>5. CASE ReplayComplete
  BY <1>5 DEF ReplayComplete, IndexInv, history, Busy, Explained, Applied, Unindexed
<1>6. CASE \E s \in todo : Replay(s)
  BY <1>6, IndexReplay
<1>7. CASE Environment
  BY <1>7, IndexEnvironment
<1> QED BY <1>1, <1>2, <1>3, <1>4, <1>5, <1>6, <1>7 DEF Next, Server, vars

(* Whatever crashes, exceptions, edits and replays have happened, when the *)
(* server takes requests its index is behind the disk only for an edit the *)
(* watcher has not seen or a write that has not passed its index step, one *)
(* in progress or one an exception has stopped (writer.ts:151-178).        *)
THEOREM IndexIsExplained == Spec => []IndexLagIsExplained
<1>1. JournalInv /\ IndexInv => IndexLagIsExplained
  <2> SUFFICES ASSUME JournalInv, IndexInv, mode = "up",
                      NEW p \in Paths, indexed[p] # disk[p], p \notin unseen
               PROVE  \E s \in DOMAIN rows : /\ rows[s].path = p /\ rows[s].kind = "file"
                                             /\ rows[s].stage \in {"PENDING", "FILE_DONE"}
    BY DEF IndexLagIsExplained
  <2>1. CASE \E s \in DOMAIN rows : rows[s].path = p /\ Unindexed(s)
    BY <2>1 DEF Unindexed
  <2>2. CASE Applied(p)
    <3>1. cur.seq \in DOMAIN rows
      BY <2>2, BusyRow DEF JournalInv, Applied
    <3> QED BY <2>2, <3>1 DEF Applied, IndexInv, This
  <2> QED BY <2>1, <2>2 DEF IndexInv, Explained
<1> QED BY <1>1, JournalInvariant, IndexInit, IndexNext, PTL DEF Spec

-----------------------------------------------------------------------------
(* The order of the writes.  Without exceptions at most one row is ever    *)
(* unfinished, and it is the last one: the server takes no request before  *)
(* the replay has settled it.                                              *)

OrderInv ==
    /\ \A p \in Paths : lastWriter[p] <= Len(rows)
    /\ Unfinished \subseteq {Len(rows)}
    /\ mode = "up" => todo = {} /\ Unfinished \subseteq {cur.seq}
    /\ mode = "replaying" => Unfinished \subseteq todo \cup {cur.seq}

LEMMA OrderInit == Init => OrderInv
<1> SUFFICES ASSUME Init PROVE OrderInv
  OBVIOUS
<1>1. Len(rows) = 0 /\ Unfinished = {} /\ todo = {}
  BY DEF Init, Unfinished
<1>2. \A p \in Paths : lastWriter[p] = 0
  BY DEF Init
<1> QED BY <1>1, <1>2 DEF OrderInv

LEMMA OrderApply ==
    ASSUME JournalInv, OrderInv, Apply
    PROVE  OrderInv' /\ \A p \in Paths : lastWriter[p] <= lastWriter'[p]
<1>1. TypeOK /\ \A p \in Paths : lastWriter[p] \in Nat
  BY WriteJournalAssumption DEF JournalInv, TypeOK
<1>2. CASE WriteTemp \/ SyncPath \/ AppendLine
  <2>1. UNCHANGED <<rows, mode, todo, lastWriter>> /\ cur'.seq = cur.seq
    BY <1>1, <1>2, EffectStep
       DEF WriteTemp, SyncPath, AppendLine, history, TypeOK
  <2> QED BY <1>1, <2>1 DEF OrderInv, Unfinished
<1>3. CASE Rename \/ Remove
  <2>1. Busy /\ Landing(This.path, cur.seq)
    BY <1>3 DEF Rename, Remove, AtFileStep
  <2>2. cur.seq \in Unfinished /\ cur.seq \in Nat /\ cur.seq = Len(rows)
    BY <2>1, BusyRow DEF JournalInv, Handover, OrderInv, Seqs
  <2>3. UNCHANGED <<rows, mode, todo>> /\ cur'.seq = cur.seq
    BY <1>1, <2>1, EffectStep DEF Landing, TypeOK
  <2>4. \A p \in Paths : lastWriter'[p] \in {lastWriter[p], cur.seq}
    BY <1>1, <2>1 DEF Landing, TypeOK
  <2>5. \A p \in Paths : lastWriter[p] <= lastWriter'[p] /\ lastWriter'[p] <= Len(rows)
    BY <1>1, <2>2, <2>4 DEF OrderInv
  <2> QED BY <2>3, <2>5 DEF OrderInv, Unfinished
<1>4. CASE Advance
  <2>1. /\ DOMAIN rows' = DOMAIN rows /\ Len(rows') = Len(rows) /\ cur.at \in Working
        /\ \A i \in DOMAIN rows :
              rows'[i].stage = IF i = cur.seq THEN After(cur.at) ELSE rows[i].stage
        /\ cur.at # "EVENT_DONE" => cur'.seq = cur.seq
        /\ UNCHANGED <<mode, todo, lastWriter>>
    BY <1>1, <1>4, AdvanceFields
  <2>2. Unfinished' \subseteq Unfinished \cup {cur.seq}
    BY <2>1 DEF Unfinished
  <2>3. cur.at = "EVENT_DONE" => Unfinished' = Unfinished \ {cur.seq}
    BY <2>1 DEF Unfinished, After, Working
  <2>4. cur.seq \in Unfinished
    BY <1>4 DEF Advance, JournalInv, Handover
  <2> QED BY <1>1, <2>1, <2>2, <2>3, <2>4 DEF OrderInv
<1> QED BY <1>2, <1>3, <1>4, <1>1 DEF Apply

LEMMA OrderReplay ==
    ASSUME JournalInv, OrderInv, NEW s \in todo, Replay(s)
    PROVE  OrderInv' /\ UNCHANGED lastWriter
<1>1. TypeOK /\ mode = "replaying" /\ cur.seq = 0 /\ 0 \notin Unfinished
  <2>1. TypeOK /\ 0 \notin Unfinished
    BY DEF JournalInv, Unfinished, TypeOK
  <2>2. NextInLine(s)
    BY DEF Replay, ReplayEvent, ReplayFromStart, ReplayOnward, ReplayAbort
  <2> QED BY <2>1, <2>2 DEF NextInLine, Busy
<1>2. CASE UNCHANGED <<rows, mode, lastWriter>> /\ todo' = todo \ {s} /\ cur'.seq = s
  BY <1>1, <1>2 DEF OrderInv, Unfinished
<1>3. CASE ReplayEvent(s) \/ ReplayFromStart(s) \/ ReplayOnward(s)
  BY <1>2, <1>3 DEF ReplayEvent, ReplayFromStart, ReplayOnward, history, Applying
<1>4. CASE ReplayAbort(s)
  <2>1. /\ DOMAIN rows' = DOMAIN rows /\ Len(rows') = Len(rows)
        /\ \A i \in DOMAIN rows :
              rows'[i].stage = IF i = s THEN "ABORTED" ELSE rows[i].stage
    BY <1>1, <1>4, AbortFields
  <2>2. Unfinished' = Unfinished \ {s}
    BY <2>1 DEF Unfinished, Working
  <2>3. UNCHANGED <<mode, cur, lastWriter>> /\ todo' = todo \ {s}
    BY <1>4 DEF ReplayAbort
  <2> QED BY <1>1, <2>1, <2>2, <2>3 DEF OrderInv
<1> QED BY <1>3, <1>4 DEF Replay

LEMMA OrderNext ==
    ASSUME MaxFailures = 0, JournalInv, OrderInv, [Next]_vars
    PROVE  /\ OrderInv'
           /\ \A p \in Paths : lastWriter'[p] # 0 => lastWriter'[p] >= lastWriter[p]
<1>1. TypeOK /\ \A p \in Paths : lastWriter[p] \in Nat
  BY WriteJournalAssumption DEF JournalInv, TypeOK
<1>2. Len(rows) \in Nat
  BY <1>1 DEF TypeOK
<1>3. CASE Write
  <2>1. PICK row \in Row : row.stage = "PENDING" /\ Begin(row)
    BY <1>1, <1>3, WriteRow
  <2>2. /\ DOMAIN rows' = DOMAIN rows \cup {Len(rows) + 1} /\ Len(rows') = Len(rows) + 1
        /\ \A i \in DOMAIN rows : rows'[i] = rows[i]
        /\ cur'.seq = Len(rows) + 1 /\ mode = "up" /\ ~Busy
        /\ UNCHANGED <<mode, todo, lastWriter>>
    BY <1>1, <2>1, BeginFields
  <2>3. Unfinished = {}
    BY <1>1, <2>2 DEF OrderInv, Unfinished, Busy, TypeOK
  <2>4. Unfinished' \subseteq {Len(rows) + 1}
    BY <2>2, <2>3 DEF Unfinished
  <2> QED BY <1>1, <1>2, <2>2, <2>4 DEF OrderInv
<1>4. CASE Apply
  BY <1>1, <1>4, OrderApply DEF JournalInv, TypeOK
<1>5. CASE Start
  BY <1>1, <1>5 DEF Start, OrderInv, Unfinished
<1>6. CASE ReplayComplete
  BY <1>1, <1>6 DEF ReplayComplete, OrderInv, Unfinished, history
<1>7. CASE \E s \in todo : Replay(s)
  BY <1>1, <1>7, OrderReplay DEF OrderInv
<1>8. CASE Environment
  <2>1. ~Fail
    BY <1>1 DEF Fail, TypeOK
  <2>2. CASE Crash \/ CrashInAppend
    BY <1>1, <2>2, IdleStep DEF Crash, CrashInAppend, OrderInv, Unfinished, history
  <2>3. CASE Reconcile
    BY <1>1, <2>3 DEF Reconcile, OrderInv, Unfinished
  <2>4. ASSUME NEW p \in Paths, NEW hash \in Hashes, OutsideEdit(p, hash)
        PROVE  /\ OrderInv'
               /\ \A q \in Paths : lastWriter'[q] # 0 => lastWriter'[q] >= lastWriter[q]
    <3>1. UNCHANGED <<rows, mode, todo, cur>>
          /\ \A q \in Paths : lastWriter'[q] \in {0, lastWriter[q]}
      BY <2>4, <1>1 DEF OutsideEdit, TypeOK
    <3> QED BY <1>1, <1>2, <3>1 DEF OrderInv, Unfinished
  <2> QED BY <1>8, <2>1, <2>2, <2>3, <2>4 DEF Environment
<1>9. CASE UNCHANGED vars
  BY <1>1, <1>9 DEF vars, OrderInv, Unfinished
<1> QED BY <1>3, <1>4, <1>5, <1>6, <1>7, <1>8, <1>9 DEF Next, Server

(* Through any number of crashes and replays, an older write never         *)
(* replaces a newer one in a file, as long as no write is given up half    *)
(* way by an exception (outbox.pending() in seq order, writer.ts:203-246). *)
THEOREM WritesKeepTheirOrder == ASSUME MaxFailures = 0 PROVE Spec => WritesLandInOrder
<1>1. JournalInv /\ OrderInv /\ [Next]_vars => OrderInv'
  BY OrderNext
<1>2. JournalInv /\ OrderInv /\ [Next]_vars =>
         [\A p \in Paths : lastWriter'[p] # 0 => lastWriter'[p] >= lastWriter[p]]_vars
  BY OrderNext
<1> QED BY <1>1, <1>2, JournalInvariant, OrderInit, PTL DEF Spec, WritesLandInOrder

-----------------------------------------------------------------------------
(* The refinement.  A write lands by compare-and-swap: at its file step,   *)
(* the file holds what it held when the write was accepted, or the replay  *)
(* has just found it so.                                                   *)

Fresh == AtFileStep => disk[This.path] = This.before

LEMMA FreshInit == Init => Fresh
BY IdleStep DEF Init, Fresh, AtFileStep, Busy

LEMMA FreshNext ==
    ASSUME ~RacyEditor, JournalInv, Fresh, [Next]_vars
    PROVE  Fresh'
<1>1. TypeOK
  BY DEF JournalInv
<1>2. CASE UNCHANGED <<disk, rows, cur>>
  BY <1>2 DEF Fresh, AtFileStep, Busy, This
<1>3. CASE Write
  <2>1. CASE \E p \in Paths, result \in Hashes, expected \in Hashes \cup {Unchecked},
                logs \in BOOLEAN : WriteFile(p, result, expected, logs)
    <3>1. PICK p \in Paths, result \in Hashes, expected \in Hashes \cup {Unchecked},
               logs \in BOOLEAN : WriteFile(p, result, expected, logs)
      BY <2>1
    <3> DEFINE row == [kind |-> "file", path |-> p, before |-> disk[p], result |-> result,
                       logs |-> logs, stage |-> "PENDING", expected |-> expected]
    <3>2. disk[p] \in Hashes
      BY <1>1 DEF TypeOK
    <3>3. row \in Row /\ Begin(row)
      BY <3>1, <3>2 DEF Row, Stages, Working, WriteFile
    <3>4. rows'[Len(rows) + 1] = row /\ cur'.seq = Len(rows) + 1 /\ UNCHANGED disk
      BY <1>1, <3>3, BeginFields
    <3>5. This' = row
      BY <3>4 DEF This
    <3> QED BY <3>4, <3>5 DEF Fresh
  <2>2. CASE \E p \in Paths : WriteEvent(p)
    <3>1. PICK p \in Paths : WriteEvent(p)
      BY <2>2
    <3> DEFINE row == [kind |-> "event", path |-> p, before |-> Absent, result |-> Absent,
                       logs |-> TRUE, stage |-> "PENDING", expected |-> Unchecked]
    <3>2. row \in Row /\ Begin(row)
      BY <3>1 DEF Row, Stages, Working, Hashes, WriteEvent
    <3>3. rows'[Len(rows) + 1] = row /\ cur'.seq = Len(rows) + 1
      BY <1>1, <3>2, BeginFields
    <3>4. This' = row
      BY <3>3 DEF This
    <3>5. This'.kind = "event"
      BY <3>4
    <3> QED BY <3>5 DEF Fresh, AtFileStep
  <2> QED BY <1>3, <2>1, <2>2 DEF Write
<1>4. CASE Apply
  <2>1. CASE WriteTemp
    BY <1>2, <2>1 DEF WriteTemp
  <2>2. CASE Rename \/ Remove \/ SyncPath \/ AppendLine
    <3>1. cur'.effect
      BY <1>1, <2>2, EffectStep DEF Rename, Remove, Landing, SyncPath, AppendLine, TypeOK
    <3> QED BY <3>1 DEF Fresh, AtFileStep
  <2>3. CASE Advance
    <3>1. ~Busy' \/ cur'.at = After(cur.at)
      BY <1>1, <2>3, AdvanceFields
    <3>2. After(cur.at) # "PENDING"
      BY <1>1, <2>3, AdvanceFields DEF After, Working
    <3> QED BY <3>1, <3>2 DEF Fresh, AtFileStep
  <2> QED BY <1>4, <2>1, <2>2, <2>3 DEF Apply
<1>5. CASE Start \/ ReplayComplete
  BY <1>2, <1>5 DEF Start, ReplayComplete
<1>6. CASE \E s \in todo : Replay(s)
  <2>1. PICK s \in todo : Replay(s)
    BY <1>6
  <2>2. s \in DOMAIN rows /\ rows[s].stage \in Working
    BY <1>1 DEF JournalInv, Handover, Unfinished
  <2>3. LaterOf(rows[s].stage) # "PENDING"
    BY DEF LaterOf
  <2>4. CASE ReplayEvent(s) \/ ReplayOnward(s)
    <3>1. cur'.at = LaterOf(rows[s].stage)
      BY <2>4 DEF ReplayEvent, ReplayOnward, Applying
    <3> QED BY <2>3, <3>1 DEF Fresh, AtFileStep
  <2>5. CASE ReplayFromStart(s)
    <3>1. cur'.seq = s /\ UNCHANGED <<disk, rows>> /\ disk[rows[s].path] = rows[s].before
      BY <2>5 DEF ReplayFromStart, Applying
    <3> QED BY <3>1 DEF Fresh, This
  <2>6. CASE ReplayAbort(s)
    <3>1. ~Busy /\ UNCHANGED cur
      BY <2>6 DEF ReplayAbort, NextInLine
    <3> QED BY <3>1 DEF Fresh, AtFileStep, Busy
  <2> QED BY <2>1, <2>4, <2>5, <2>6 DEF Replay
<1>7. CASE Environment
  <2>1. CASE Crash \/ CrashInAppend \/ Fail
    <3>1. ~Busy'
      BY <2>1, IdleStep DEF Crash, CrashInAppend, Fail, Busy
    <3> QED BY <3>1 DEF Fresh, AtFileStep
  <2>2. CASE Reconcile
    BY <1>2, <2>2 DEF Reconcile
  <2>3. ASSUME NEW p \in Paths, NEW hash \in Hashes, OutsideEdit(p, hash)
        PROVE  Fresh'
    <3>1. /\ UNCHANGED <<rows, cur>> /\ ~(AtFileStep /\ This.path = p)
          /\ \A q \in Paths : q # p => disk'[q] = disk[q]
      BY <2>3, <1>1 DEF OutsideEdit, TypeOK
    <3>2. This' = This /\ (AtFileStep' <=> AtFileStep)
      BY <3>1 DEF This, AtFileStep, Busy
    <3>3. AtFileStep => This.path \in Paths
      BY <1>1, BusyRow, RowFields DEF AtFileStep, This
    <3> QED BY <3>1, <3>2, <3>3 DEF Fresh
  <2> QED BY <1>7, <2>1, <2>2, <2>3 DEF Environment
<1>8. CASE UNCHANGED vars
  BY <1>2, <1>8 DEF vars
<1> QED BY <1>3, <1>4, <1>5, <1>6, <1>7, <1>8 DEF Next, Server

(* What AtomicWrites sees of the journal.                                  *)
AbstractWrites == [s \in Seqs |-> IF s \in DOMAIN rows THEN AbstractWrite(s) ELSE Unchecked]
AbstractPhases == [s \in Seqs |-> AbstractPhase(s)]

LEMMA AbstractWriteFields ==
    ASSUME TypeOK, NEW s \in DOMAIN rows
    PROVE  /\ s \in Seqs /\ AbstractWrites[s] = AbstractWrite(s)
           /\ AbstractWrite(s) \in Atomic!WriteRecord
           /\ AbstractWrite(s).kind = rows[s].kind /\ AbstractWrite(s).path = rows[s].path
           /\ AbstractWrite(s).before = rows[s].before
           /\ AbstractWrite(s).result = rows[s].result
           /\ AbstractWrite(s).logs = rows[s].logs
BY RowFields DEF AbstractWrites, AbstractWrite, Atomic!WriteRecord, Row

(* The phase of a write that is not settled.                               *)
LEMMA OpenPhase ==
    ASSUME NEW s \in Unfinished
    PROVE  AbstractPhase(s) = IF lines[s] > 0 THEN "logged"
                              ELSE IF s \in landed \/ rows[s].kind = "event" THEN "landed"
                              ELSE "accepted"
BY DEF Unfinished, Working, AbstractPhase

(* A step that leaves the files, the log, the landed writes and the rows   *)
(* alone, but for the stage of rows that stay unsettled, is a stutter.     *)
LEMMA Stutter ==
    ASSUME JournalInv, UNCHANGED <<disk, lines, landed>>, DOMAIN rows' = DOMAIN rows,
           \A i \in DOMAIN rows :
              /\ rows'[i].kind = rows[i].kind /\ rows'[i].path = rows[i].path
              /\ rows'[i].before = rows[i].before /\ rows'[i].result = rows[i].result
              /\ rows'[i].logs = rows[i].logs
              /\ \/ rows'[i].stage = rows[i].stage
                 \/ rows'[i].stage \notin Settled /\ rows[i].stage \notin Settled
    PROVE  UNCHANGED Atomic!vars
<1>1. \A s \in Seqs : AbstractPhase(s)' = AbstractPhase(s)
  BY DEF AbstractPhase, Settled
<1>2. \A s \in DOMAIN rows : AbstractWrite(s)' = AbstractWrite(s)
  BY DEF AbstractWrite
<1> QED BY <1>1, <1>2 DEF Atomic!vars

LEMMA RefineBegin ==
    ASSUME JournalInv, NEW row \in Row, row.stage = "PENDING", Begin(row),
           row.kind = "event" \/ row.before = disk[row.path]
    PROVE  Atomic!Next
<1> DEFINE w == [kind |-> row.kind, path |-> row.path, before |-> row.before,
                 result |-> row.result, logs |-> row.logs]
<1>0. PICK n : n = Len(rows) + 1
  OBVIOUS
<1>1. TypeOK /\ OneLine
  BY DEF JournalInv
<1>2. /\ n \in Seqs /\ n \notin DOMAIN rows /\ DOMAIN rows' = DOMAIN rows \cup {n}
      /\ rows'[n] = row /\ \A s \in DOMAIN rows : rows'[s] = rows[s]
      /\ UNCHANGED <<disk, lines, landed>>
  BY <1>0, <1>1, BeginFields
<1>3. w \in Atomic!WriteRecord /\ (w.kind = "event" \/ w.before = disk[w.path])
  BY DEF Row, Atomic!WriteRecord
<1>4. AbstractPhase(n) = "free"
  BY <1>2 DEF AbstractPhase
<1>5. lines[n] = 0 /\ n \notin landed
  BY <1>1, <1>2 DEF OneLine, TypeOK
<1>6. AbstractPhase(n)' = IF row.kind = "event" THEN "landed" ELSE "accepted"
  BY <1>2, <1>5 DEF AbstractPhase
<1>7. \A s \in Seqs : s # n => AbstractPhase(s)' = AbstractPhase(s)
  BY <1>2 DEF AbstractPhase
<1>8. /\ AbstractWrite(n)' = w
      /\ \A s \in DOMAIN rows : AbstractWrite(s)' = AbstractWrite(s)
  BY <1>2 DEF AbstractWrite
<1>9. AbstractWrites' = [AbstractWrites EXCEPT ![n] = w]
  BY <1>2, <1>8 DEF AbstractWrites
<1>10. AbstractPhases' = [AbstractPhases EXCEPT ![n] =
                             IF w.kind = "event" THEN "landed" ELSE "accepted"]
  BY <1>2, <1>6, <1>7 DEF AbstractPhases
<1>11. Atomic!Accept(n, w)
  BY <1>2, <1>3, <1>4, <1>9, <1>10
     DEF Atomic!Accept, Atomic!To, AbstractWrites, AbstractPhases
<1> QED BY <1>2, <1>3, <1>11 DEF Atomic!Next

LEMMA RefineLanding ==
    ASSUME JournalInv, Fresh, AtFileStep, Landing(This.path, cur.seq)
    PROVE  Atomic!Next
<1>0. PICK s : s = cur.seq
  OBVIOUS
<1>1. TypeOK /\ Busy /\ This.kind = "file"
  BY DEF JournalInv, AtFileStep
<1>2. s \in DOMAIN rows /\ s \in Unfinished /\ s \in Seqs
  BY <1>1, <1>0, BusyRow DEF JournalInv, Handover
<1>3. disk[rows[s].path] = rows[s].before /\ rows[s].kind = "file"
  BY <1>0, <1>1 DEF Fresh, This
<1>4. /\ disk' = [disk EXCEPT ![rows[s].path] = rows[s].result]
      /\ landed' = landed \cup {s} /\ UNCHANGED <<rows, lines>>
  BY <1>0 DEF Landing, This, log
<1>5. AbstractPhase(s) \in {"accepted", "landed", "logged"}
  BY <1>2, OpenPhase
<1>6. AbstractPhase(s)' = IF AbstractPhase(s) = "accepted" THEN "landed" ELSE AbstractPhase(s)
  BY <1>2, <1>3, <1>4 DEF AbstractPhase
<1>7. \A t \in Seqs : t # s => AbstractPhase(t)' = AbstractPhase(t)
  BY <1>4 DEF AbstractPhase
<1>8. UNCHANGED AbstractWrites
  BY <1>4 DEF AbstractWrites, AbstractWrite
<1>9. AbstractPhases' = [AbstractPhases EXCEPT ![s] = IF @ = "accepted" THEN "landed" ELSE @]
  BY <1>2, <1>6, <1>7 DEF AbstractPhases
<1>10. /\ AbstractWrites[s].kind = "file" /\ AbstractWrites[s].path = rows[s].path
       /\ AbstractWrites[s].before = rows[s].before
       /\ AbstractWrites[s].result = rows[s].result
       /\ AbstractPhases[s] = AbstractPhase(s)
  BY <1>1, <1>2, <1>3, AbstractWriteFields DEF AbstractPhases
<1>11. Atomic!Land(s)
  BY <1>3, <1>4, <1>5, <1>8, <1>9, <1>10
     DEF Atomic!Land, AbstractWrites, AbstractPhases
<1> QED BY <1>2, <1>11 DEF Atomic!Next

(* The steps that change the phase of one write and nothing else.          *)
LEMMA PhaseStep ==
    ASSUME NEW s \in Seqs, NEW ph, AbstractPhase(s)' = ph, UNCHANGED disk,
           \A t \in Seqs : t # s => AbstractPhase(t)' = AbstractPhase(t),
           UNCHANGED AbstractWrites
    PROVE  Atomic!To(s, ph) /\ UNCHANGED <<disk, AbstractWrites>>
<1>1. AbstractPhases' = [AbstractPhases EXCEPT ![s] = ph]
  BY DEF AbstractPhases
<1> QED BY <1>1 DEF Atomic!To, AbstractPhases

LEMMA RefineAppend ==
    ASSUME ~TornAppends, JournalInv, AppendLine
    PROVE  Atomic!Next
<1>0. PICK s : s = cur.seq
  OBVIOUS
<1>1. /\ TypeOK /\ Busy /\ This.logs /\ cur.at = "INDEX_DONE" /\ ~cur.effect /\ ~torn
      /\ ~AlreadyLogged
  BY DEF JournalInv, AppendLine, AtEventStep, WholeLine
<1>2. s \in DOMAIN rows /\ s \in Unfinished /\ s \in Seqs
  BY <1>1, <1>0, BusyRow DEF JournalInv, Handover
<1>3. lines[s] = 0
  <2>1. CASE cur.check
    BY <1>0, <1>1, <1>2, <2>1 DEF AlreadyLogged, TypeOK
  <2>2. CASE ~cur.check
    BY <1>0, <1>1, <1>2, <2>2 DEF JournalInv, OneLine, BeforeAppend
  <2> QED BY <2>1, <2>2
<1>4. s \in landed \/ rows[s].kind = "event"
  BY <1>0, <1>1, <1>2, RowFields DEF JournalInv, FileFirst, This
<1>5. UNCHANGED <<disk, rows, landed>> /\ lines' = [lines EXCEPT ![s] = @ + 1]
  BY <1>0, <1>1 DEF AppendLine, history
<1>6. AbstractPhase(s) = "landed"
  BY <1>2, <1>3, <1>4, OpenPhase
<1>7. lines'[s] > 0 /\ \A t \in Seqs : t # s => lines'[t] = lines[t]
  BY <1>1, <1>2, <1>3, <1>5 DEF TypeOK
<1>8. AbstractPhase(s)' = "logged"
  BY <1>2, <1>5, <1>7 DEF AbstractPhase, Unfinished, Working
<1>9. \A t \in Seqs : t # s => AbstractPhase(t)' = AbstractPhase(t)
  BY <1>5, <1>7 DEF AbstractPhase
<1>10. UNCHANGED AbstractWrites
  BY <1>5 DEF AbstractWrites, AbstractWrite
<1>11. Atomic!To(s, "logged") /\ UNCHANGED <<disk, AbstractWrites>>
  BY <1>2, <1>5, <1>8, <1>9, <1>10, PhaseStep
<1>12. AbstractPhases[s] = "landed" /\ AbstractWrites[s].logs
  BY <1>0, <1>1, <1>2, <1>6, AbstractWriteFields DEF AbstractPhases, This
<1>13. Atomic!Log(s)
  BY <1>11, <1>12 DEF Atomic!Log, AbstractWrites, AbstractPhases
<1> QED BY <1>2, <1>13 DEF Atomic!Next

LEMMA RefineAdvance ==
    ASSUME ~TornAppends, JournalInv, Advance
    PROVE  Atomic!Next \/ UNCHANGED Atomic!vars
<1>0. PICK s : s = cur.seq
  OBVIOUS
<1>1. TypeOK /\ (cur.effect \/ NothingToDo)
  BY DEF JournalInv, Advance
<1>2. /\ Busy /\ s \in DOMAIN rows /\ s \in Seqs /\ cur.at \in Working
      /\ DOMAIN rows' = DOMAIN rows
      /\ \A i \in DOMAIN rows :
            /\ rows'[i].kind = rows[i].kind /\ rows'[i].path = rows[i].path
            /\ rows'[i].before = rows[i].before /\ rows'[i].result = rows[i].result
            /\ rows'[i].logs = rows[i].logs
            /\ rows'[i].stage = IF i = s THEN After(cur.at) ELSE rows[i].stage
      /\ UNCHANGED <<disk, lines, landed>>
  BY <1>0, <1>1, AdvanceFields
<1>3. s \in Unfinished
  BY <1>0, <1>2 DEF JournalInv, Handover
<1>4. CASE cur.at # "EVENT_DONE"
  <2>1. After(cur.at) \notin Settled /\ rows[s].stage \notin Settled
    BY <1>2, <1>3, <1>4 DEF After, Settled, Working, Unfinished
  <2> QED BY <1>2, <2>1, Stutter
<1>5. CASE cur.at = "EVENT_DONE"
  <2>1. lines[s] \in Nat /\ (rows[s].logs => lines[s] = 1)
        /\ (s \in landed \/ rows[s].kind = "event")
    BY <1>0, <1>1, <1>2, <1>5, RowFields
       DEF JournalInv, WholeLine, AfterAppend, FileFirst, TypeOK, This
  <2>2. AbstractPhase(s) = "logged" \/ (AbstractPhase(s) = "landed" /\ ~rows[s].logs)
    BY <1>3, <2>1, OpenPhase
  <2>3. AbstractPhase(s)' = "finished"
    BY <1>2, <1>5 DEF AbstractPhase, After
  <2>4. \A t \in Seqs : t # s => AbstractPhase(t)' = AbstractPhase(t)
    BY <1>2 DEF AbstractPhase
  <2>5. UNCHANGED AbstractWrites
    BY <1>2 DEF AbstractWrites, AbstractWrite
  <2>6. Atomic!To(s, "finished") /\ UNCHANGED <<disk, AbstractWrites>>
    BY <1>2, <2>3, <2>4, <2>5, PhaseStep
  <2>7. AbstractPhases[s] = AbstractPhase(s) /\ AbstractWrites[s].logs = rows[s].logs
    BY <1>1, <1>2, AbstractWriteFields DEF AbstractPhases
  <2>8. Atomic!Finish(s)
    BY <2>2, <2>6, <2>7 DEF Atomic!Finish, AbstractWrites, AbstractPhases
  <2> QED BY <1>2, <2>8 DEF Atomic!Next
<1> QED BY <1>4, <1>5

LEMMA RefineReplay ==
    ASSUME JournalInv, NEW s \in todo, Replay(s)
    PROVE  Atomic!Next \/ UNCHANGED Atomic!vars
<1>1. TypeOK /\ s \in DOMAIN rows /\ s \in Unfinished /\ s \in Seqs
  BY RowFields DEF JournalInv, Handover, Unfinished
<1>2. /\ AbstractPhases[s] = AbstractPhase(s) /\ AbstractWrites[s].kind = rows[s].kind
      /\ AbstractWrites[s].path = rows[s].path
      /\ AbstractWrites[s].before = rows[s].before
      /\ AbstractWrites[s].result = rows[s].result
  BY <1>1, AbstractWriteFields DEF AbstractPhases
<1>3. CASE ReplayEvent(s) \/ ReplayFromStart(s)
  <2>1. UNCHANGED <<disk, lines, landed, rows>>
    BY <1>3 DEF ReplayEvent, ReplayFromStart, log, history
  <2> QED BY <2>1, Stutter
<1>4. CASE ReplayOnward(s)
  <2>1. /\ UNCHANGED <<disk, lines, rows>> /\ landed' = landed \cup {s}
        /\ disk[rows[s].path] = rows[s].result
    BY <1>4 DEF ReplayOnward, log
  <2>2. \A t \in Seqs : t # s => AbstractPhase(t)' = AbstractPhase(t)
    BY <2>1 DEF AbstractPhase
  <2>3. UNCHANGED AbstractWrites
    BY <2>1 DEF AbstractWrites, AbstractWrite
  <2>4. CASE AbstractPhase(s) = "accepted"
    <3>1. AbstractPhase(s)' = "landed"
      BY <1>1, <2>1, <2>4 DEF AbstractPhase
    <3>2. Atomic!To(s, "landed") /\ UNCHANGED <<disk, AbstractWrites>>
      BY <1>1, <2>1, <2>2, <2>3, <3>1, PhaseStep
    <3>3. Atomic!FoundLanded(s)
      BY <1>2, <2>1, <2>4, <3>2 DEF Atomic!FoundLanded, AbstractWrites, AbstractPhases
    <3> QED BY <1>1, <3>3 DEF Atomic!Next
  <2>5. CASE AbstractPhase(s) # "accepted"
    <3>1. AbstractPhase(s)' = AbstractPhase(s)
      BY <1>1, <2>1, <2>5 DEF AbstractPhase
    <3>2. UNCHANGED AbstractPhases
      BY <2>2, <3>1 DEF AbstractPhases
    <3> QED BY <2>1, <2>3, <3>2 DEF Atomic!vars, AbstractWrites, AbstractPhases
  <2> QED BY <2>4, <2>5
<1>5. CASE ReplayAbort(s)
  <2>1. /\ DOMAIN rows' = DOMAIN rows
        /\ \A i \in DOMAIN rows :
              /\ rows'[i].kind = rows[i].kind /\ rows'[i].path = rows[i].path
              /\ rows'[i].before = rows[i].before /\ rows'[i].result = rows[i].result
              /\ rows'[i].logs = rows[i].logs
              /\ rows'[i].stage = IF i = s THEN "ABORTED" ELSE rows[i].stage
    BY <1>1, <1>5, AbortFields
  <2>2. /\ UNCHANGED <<disk, lines, landed>> /\ rows[s].kind = "file"
        /\ disk[rows[s].path] \notin {rows[s].before, rows[s].result}
    BY <1>5 DEF ReplayAbort, log
  <2>3. AbstractPhase(s)' = "abandoned"
    BY <1>1, <2>1 DEF AbstractPhase
  <2>4. \A t \in Seqs : t # s => AbstractPhase(t)' = AbstractPhase(t)
    BY <2>1, <2>2 DEF AbstractPhase
  <2>5. UNCHANGED AbstractWrites
    BY <2>1 DEF AbstractWrites, AbstractWrite
  <2>6. Atomic!To(s, "abandoned") /\ UNCHANGED <<disk, AbstractWrites>>
    BY <1>1, <2>2, <2>3, <2>4, <2>5, PhaseStep
  <2>7. AbstractPhase(s) \in {"accepted", "landed", "logged"}
    BY <1>1, OpenPhase
  <2>8. Atomic!Abandon(s)
    BY <1>2, <2>2, <2>6, <2>7 DEF Atomic!Abandon, AbstractWrites, AbstractPhases
  <2> QED BY <1>1, <2>8 DEF Atomic!Next
<1> QED BY <1>3, <1>4, <1>5 DEF Replay

LEMMA RefineNext ==
    ASSUME ~TornAppends, JournalInv, Fresh, [Next]_vars
    PROVE  [Atomic!Next]_Atomic!vars
<1>1. TypeOK
  BY DEF JournalInv
<1>2. CASE UNCHANGED <<disk, lines, landed, rows>>
  BY <1>2, Stutter
<1>3. CASE Write
  <2>1. CASE \E p \in Paths, result \in Hashes, expected \in Hashes \cup {Unchecked},
                logs \in BOOLEAN : WriteFile(p, result, expected, logs)
    <3>1. PICK p \in Paths, result \in Hashes, expected \in Hashes \cup {Unchecked},
               logs \in BOOLEAN : WriteFile(p, result, expected, logs)
      BY <2>1
    <3> DEFINE row == [kind |-> "file", path |-> p, before |-> disk[p], result |-> result,
                       logs |-> logs, stage |-> "PENDING", expected |-> expected]
    <3>2. disk[p] \in Hashes
      BY <1>1 DEF TypeOK
    <3>3. /\ row \in Row /\ row.stage = "PENDING" /\ row.before = disk[row.path]
          /\ Begin(row)
      BY <3>1, <3>2 DEF Row, Stages, Working, WriteFile
    <3> QED BY <3>3, RefineBegin
  <2>2. CASE \E p \in Paths : WriteEvent(p)
    <3>1. PICK p \in Paths : WriteEvent(p)
      BY <2>2
    <3> DEFINE row == [kind |-> "event", path |-> p, before |-> Absent, result |-> Absent,
                       logs |-> TRUE, stage |-> "PENDING", expected |-> Unchecked]
    <3>2. row \in Row /\ row.stage = "PENDING" /\ row.kind = "event" /\ Begin(row)
      BY <3>1 DEF Row, Stages, Working, Hashes, WriteEvent
    <3> QED BY <3>2, RefineBegin
  <2> QED BY <1>3, <2>1, <2>2 DEF Write
<1>4. CASE Apply
  <2>1. CASE WriteTemp \/ SyncPath
    BY <1>2, <2>1 DEF WriteTemp, SyncPath, log, history
  <2>2. CASE Rename \/ Remove
    BY <2>2, RefineLanding DEF Rename, Remove
  <2> QED BY <1>4, <2>1, <2>2, RefineAppend, RefineAdvance DEF Apply
<1>5. CASE Start \/ ReplayComplete
  BY <1>2, <1>5 DEF Start, ReplayComplete, log, history
<1>6. CASE \E s \in todo : Replay(s)
  BY <1>6, RefineReplay
<1>7. CASE Crash \/ CrashInAppend \/ Fail \/ Reconcile
  BY <1>2, <1>7 DEF Crash, CrashInAppend, Fail, Reconcile, log, history
<1>8. ASSUME NEW p \in Paths, NEW hash \in Hashes, OutsideEdit(p, hash)
      PROVE  Atomic!Next
  <2>1. disk' = [disk EXCEPT ![p] = hash] /\ UNCHANGED <<lines, landed, rows>>
    BY <1>8 DEF OutsideEdit, log
  <2>2. UNCHANGED <<AbstractWrites, AbstractPhases>>
    BY <2>1 DEF AbstractWrites, AbstractPhases, AbstractWrite, AbstractPhase
  <2>3. Atomic!OutsideChange(p, hash)
    BY <2>1, <2>2 DEF Atomic!OutsideChange, AbstractWrites, AbstractPhases
  <2> QED BY <2>3 DEF Atomic!Next
<1>9. CASE UNCHANGED vars
  BY <1>2, <1>9 DEF vars
<1> QED BY <1>3, <1>4, <1>5, <1>6, <1>7, <1>8, <1>9 DEF Next, Server, Environment

LEMMA RefineInit == Init => Atomic!Init
<1> SUFFICES ASSUME Init PROVE Atomic!Init
  OBVIOUS
<1>1. DOMAIN rows = {} /\ disk \in [Paths -> Hashes]
  BY DEF Init
<1>2. \A s \in Seqs : AbstractPhase(s) = "free"
  BY <1>1 DEF AbstractPhase
<1> QED BY <1>1, <1>2 DEF Atomic!Init

(* The journal keeps the promise of AtomicWrites: with whole appends, and  *)
(* no outside edit between a write's read of its file and its rename,      *)
(* stages, crashes and replays show nothing but compare-and-swap, one      *)
(* report and an end (writer.ts:101-246).                                  *)
THEOREM JournalIsAtomic ==
    ASSUME ~TornAppends, ~RacyEditor PROVE Spec => ImplementsAtomicWrites
<1>1. JournalInv /\ Fresh /\ [Next]_vars => Fresh'
  BY FreshNext
<1>2. JournalInv /\ Fresh /\ [Next]_vars => [Atomic!Next]_Atomic!vars
  BY RefineNext
<1> QED BY <1>1, <1>2, JournalInvariant, FreshInit, RefineInit, PTL
        DEF Spec, ImplementsAtomicWrites, Atomic!Spec

-----------------------------------------------------------------------------
(* Planning.                                                               *)

(* A file, as far as sprints read it.                                      *)
IsIssue(f) ==
    /\ DOMAIN f = {"sprint", "status", "backlog_rank", "board_rank"}
    /\ f.sprint \in Ids \cup {None}

(* What a request carries over its awaits.                                 *)
IsRequest(h) ==
    /\ "op" \in DOMAIN h
    /\ h.op \in {"free", "move", "createSprint", "start", "close", "deleteSprint", "assign"}
    /\ h.op = "move" => "field" \in DOMAIN h /\ h.field \in O!RANK_FIELDS
    /\ h.op \in {"createSprint", "start"} => h.sprint \in Ids
    /\ h.op = "start" => h.from = "PLANNED"
    /\ h.op \in {"close", "deleteSprint"} =>
           /\ DOMAIN h = {"op", "sprint", "to", "todo", "from"}
           /\ h.sprint \in Ids /\ h.to \in (Ids \cup {None}) \ {h.sprint}
           /\ h.todo \in SUBSET Uids
    /\ h.op = "assign" => h.uid \in Uids /\ h.to \in Ids \cup {None} /\ h.from # None

Shaped ==
    /\ DOMAIN issues = Uids /\ DOMAIN sprints = Ids /\ DOMAIN handlers = Clients
    /\ \A u \in Uids : issues[u] # None => IsIssue(issues[u])
    /\ \A c \in Clients : IsRequest(handlers[c])
    /\ contested \in BOOLEAN

(* Until two starts met there is one at a time, and it will find what it   *)
(* found when it was accepted: no active sprint.                           *)
Starting ==
    contested \/
    /\ \A s, t \in S!Active : s = t
    /\ \A c \in Clients : handlers[c].op = "start" => S!Active = {}
    /\ \A c, d \in Clients : handlers[c].op = "start" /\ handlers[d].op = "start" => c = d

(* Whatever a close or a deletion has still to find in its sprint is on    *)
(* its list, or came while it went on.                                     *)
Listed(h) ==
    /\ h.op = "close" => S!Unfinished(h.sprint) \subseteq h.todo \cup late
    /\ h.op = "deleteSprint" => S!Held(h.sprint) \subseteq h.todo \cup late

Emptying == \A c \in Clients : Listed(handlers[c])

PlanInv ==
    /\ Shaped
    /\ Starting
    /\ Emptying
    /\ S!NoWorkIsLeftBehind

-----------------------------------------------------------------------------
(* Lemmas about the data.                                                  *)

LEMMA NothingIsNoSprint ==
    None \notin Ids /\ None # "ACTIVE" /\ None # "PLANNED" /\ None # "CLOSED"
BY PlanningAssumption DEF S!SPRINT_STATUSES

LEMMA SmallestIsListed ==
    ASSUME NEW T \in SUBSET Uids, T # {}
    PROVE  S!Min(T) \in T
<1>1. PICK R : R = OpToRel(<, Nat)
  OBVIOUS
<1>2. IsWellFoundedOn(R, Nat)
  BY <1>1, NatLessThanWellFounded, Zenon
<1>3. ASSUME NEW y \in Nat, NEW x \in Nat, y < x
      PROVE  <<y, x>> \in R
  BY <1>1, <1>3 DEF OpToRel
<1>4. T \subseteq Nat
  BY PlanningAssumption
<1>5. PICK x \in T : \A y \in T : <<y, x>> \notin R
  <2> HIDE <1>1
  <2> QED BY <1>2, <1>4, WFMin
<1>6. ASSUME NEW y \in T
      PROVE  x <= y
  <2>1. x \in Nat /\ y \in Nat
    BY <1>4
  <2>2. ~(y < x)
    BY <1>3, <1>5, <2>1
  <2> QED BY <2>1, <2>2
<1> QED BY <1>6 DEF S!Min

(* Active sprints of which no two differ are at most one.                  *)
LEMMA OneOrNone ==
    ASSUME \A s, t \in S!Active : s = t
    PROVE  Cardinality(S!Active) <= 1
<1>1. CASE S!Active = {}
  BY <1>1, FS_EmptySet
<1>2. CASE S!Active # {}
  <2>1. PICK s \in S!Active : S!Active = {s}
    BY <1>2
  <2> QED BY <2>1, FS_Singleton
<1> QED BY <1>1, <1>2

LEMMA OneOrNoneBack ==
    ASSUME ~(Cardinality(S!Active) > 1), NEW s \in S!Active, NEW t \in S!Active
    PROVE  s = t
<1>1. IsFiniteSet(S!Active)
  BY PlanningAssumption, FS_Subset DEF S!Active
<1>2. SUFFICES ASSUME s # t PROVE FALSE
  OBVIOUS
<1>3. Cardinality({s, t}) = 2
  <2>1. Cardinality({s}) = 1 /\ IsFiniteSet({s})
    BY FS_Singleton
  <2>2. {s, t} = {s} \cup {t} /\ t \notin {s}
    BY <1>2
  <2> QED BY <2>1, <2>2, FS_AddElement
<1>4. Cardinality({s, t}) <= Cardinality(S!Active) /\ Cardinality(S!Active) \in Nat
  BY <1>1, FS_Subset, FS_CardinalityType
<1> QED BY <1>3, <1>4

-----------------------------------------------------------------------------
(* The invariant.                                                          *)

LEMMA PlanInit == PlanningInit => PlanInv
<1> SUFFICES ASSUME PlanningInit PROVE PlanInv
  OBVIOUS
<1>1. PICK board \in Boards : issues = board.issues /\ sprints = board.sprints
  BY DEF PlanningInit
<1>2. issues \in [Uids -> Issues \cup {None}] /\ sprints \in [Ids -> S!SPRINT_STATUSES \cup {None}]
  BY <1>1, PlanningAssumption
<1>3. ASSUME NEW u \in Uids, issues[u] # None
      PROVE  IsIssue(issues[u])
  BY <1>2, <1>3 DEF Issues, IsIssue
<1>4. DOMAIN handlers = Clients /\ \A c \in Clients : handlers[c] = [op |-> "free"]
  BY DEF PlanningInit
<1>5. Shaped
  BY <1>2, <1>3, <1>4 DEF Shaped, IsRequest, PlanningInit
<1>6. Starting
  BY <1>4, OneOrNoneBack DEF Starting, PlanningInit
<1>7. Emptying
  BY <1>4 DEF Emptying, Listed
<1>8. S!NoWorkIsLeftBehind
  BY DEF PlanningInit, S!NoWorkIsLeftBehind
<1> QED BY <1>5, <1>6, <1>7, <1>8 DEF PlanInv

(* A step that changes no sprint, and of the issues only their ranks, or   *)
(* takes some away, or puts some in no sprint; requests begin or end that  *)
(* start, close and delete nothing.                                        *)
Mild(h) == IsRequest(h) /\ h.op \in {"free", "move", "createSprint", "assign"}

LEMMA MildSteps ==
    ASSUME PlanInv, UNCHANGED <<sprints, contested, late>>, DOMAIN issues' = Uids,
           \A u \in Uids : issues'[u] # None =>
               /\ IsIssue(issues'[u])
               /\ \/ issues'[u].sprint = None
                  \/ /\ issues[u] # None /\ issues'[u].sprint = issues[u].sprint
                     /\ issues'[u].status = issues[u].status,
           DOMAIN handlers' = Clients,
           \A c \in Clients : handlers'[c] = handlers[c] \/ Mild(handlers'[c])
    PROVE  PlanInv'
<1>1. Shaped'
  BY DEF PlanInv, Shaped, Mild
<1>2. S!Active' = S!Active
  BY DEF S!Active
<1>3. ASSUME NEW c \in Clients, handlers'[c].op \in {"start", "close", "deleteSprint"}
      PROVE  handlers'[c] = handlers[c]
  BY <1>3 DEF Mild
<1>4. Starting'
  BY <1>2, <1>3 DEF PlanInv, Starting
<1>5. \A s \in Ids : S!Held(s)' \subseteq S!Held(s) /\ S!Unfinished(s)' \subseteq S!Unfinished(s)
  BY NothingIsNoSprint DEF S!Held, S!Unfinished
<1>6. Emptying'
  <2>1. ASSUME NEW c \in Clients
        PROVE  Listed(handlers[c])'
    <3>1. Listed(handlers[c]) /\ IsRequest(handlers[c])
      BY DEF PlanInv, Emptying, Shaped
    <3> QED BY <1>3, <1>5, <3>1 DEF Listed, IsRequest
  <2> QED BY <2>1 DEF Emptying
<1>7. S!NoWorkIsLeftBehind'
  BY DEF PlanInv, S!NoWorkIsLeftBehind, S!LeftBehind, S!Exists
<1> QED BY <1>1, <1>4, <1>6, <1>7 DEF PlanInv

LEMMA FreeIsMild == Mild([op |-> "free"])
BY DEF Mild, IsRequest

(* One request changes, and nothing else.                                  *)
LEMMA MildRequests ==
    ASSUME PlanInv, NEW c \in Clients, NEW h, Mild(h), handlers' = [handlers EXCEPT ![c] = h],
           UNCHANGED <<issues, sprints, contested, late>>
    PROVE  PlanInv'
<1>1. DOMAIN handlers' = Clients /\ \A d \in Clients : handlers'[d] = handlers[d] \/ Mild(handlers'[d])
  BY DEF PlanInv, Shaped
<1>2. DOMAIN issues' = Uids /\ \A u \in Uids : issues'[u] # None => IsIssue(issues'[u])
  BY DEF PlanInv, Shaped
<1> QED BY <1>1, <1>2, MildSteps

LEMMA StutterKeeps == ASSUME PlanInv, UNCHANGED planningVars PROVE PlanInv'
<1>1. DOMAIN issues' = Uids /\ \A u \in Uids : issues'[u] # None => IsIssue(issues'[u])
  BY DEF PlanInv, Shaped, planningVars
<1>2. DOMAIN handlers' = Clients /\ \A d \in Clients : handlers'[d] = handlers[d]
  BY DEF PlanInv, Shaped, planningVars
<1> QED BY <1>1, <1>2, MildSteps DEF planningVars

LEMMA RestartKeeps == ASSUME PlanInv, Restart PROVE PlanInv'
<1>1. DOMAIN issues' = Uids /\ \A u \in Uids : issues'[u] # None => IsIssue(issues'[u])
  BY DEF PlanInv, Shaped, Restart
<1>2. DOMAIN handlers' = Clients /\ \A d \in Clients : Mild(handlers'[d])
  BY FreeIsMild DEF Restart
<1> QED BY <1>1, <1>2, MildSteps DEF Restart

LEMMA DeleteKeeps == ASSUME PlanInv, NEW u \in Uids, DeleteIssue(u) PROVE PlanInv'
<1>1. ASSUME NEW v \in Uids, issues'[v] # None
      PROVE  issues'[v] = issues[v] /\ issues[v] # None /\ IsIssue(issues'[v])
  BY <1>1 DEF PlanInv, Shaped, DeleteIssue
<1>2. DOMAIN issues' = Uids /\ DOMAIN handlers' = Clients
  BY DEF PlanInv, Shaped, DeleteIssue
<1> QED BY <1>1, <1>2, MildSteps DEF DeleteIssue

-----------------------------------------------------------------------------
(* Ordering: a move writes ranks.                                          *)

LEMMA RankRequestKeeps ==
    ASSUME PlanInv, NEW c \in Clients, RankRequest(c)
    PROVE  PlanInv'
<1>1. PICK u \in Uids, field \in O!RANK_FIELDS, at \in 0..Cardinality(Uids) :
          O!moveIssue(c, u, field, at)
  BY DEF RankRequest
<1>2. PICK others, pushes, rank, from :
          handlers' = [handlers EXCEPT ![c] =
              [op |-> "move", uid |-> u, field |-> field, at |-> at, others |-> others,
               todo |-> pushes, rank |-> rank, from |-> from]]
  <2>1. PICK others, pushes, rank :
            handlers' = [handlers EXCEPT ![c] = O!Reading(issues,
              [op |-> "move", uid |-> u, field |-> field, at |-> at, others |-> others,
               todo |-> pushes, rank |-> rank, from |-> None])]
    BY <1>1 DEF O!moveIssue
  <2>2. PICK h : h = [op |-> "move", uid |-> u, field |-> field, at |-> at, others |-> others,
               todo |-> pushes, rank |-> rank, from |-> None]
    OBVIOUS
  <2>3. PICK from : O!Reading(issues, h) = [h EXCEPT !.from = from]
    BY DEF O!Reading
  <2>4. O!Reading(issues, h) =
              [op |-> "move", uid |-> u, field |-> field, at |-> at, others |-> others,
               todo |-> pushes, rank |-> rank, from |-> from]
    BY <2>2, <2>3
  <2> QED BY <2>1, <2>2, <2>4
<1>3. UNCHANGED <<issues, sprints, contested, late>>
  BY <1>1 DEF RankRequest, Rank, O!moveIssue
<1>4. Mild([op |-> "move", uid |-> u, field |-> field, at |-> at, others |-> others,
               todo |-> pushes, rank |-> rank, from |-> from])
  BY DEF Mild, IsRequest
<1> QED BY <1>2, <1>3, <1>4, MildRequests

LEMMA SetRankIsMild ==
    ASSUME PlanInv, NEW h, h.field \in O!RANK_FIELDS, NEW rank, O!SetRank(h, rank)
    PROVE  /\ DOMAIN issues' = Uids
           /\ \A u \in Uids : issues'[u] # None =>
               /\ issues[u] # None /\ IsIssue(issues'[u])
               /\ issues'[u].sprint = issues[u].sprint /\ issues'[u].status = issues[u].status
<1>1. PICK t, field : /\ field \in O!RANK_FIELDS /\ issues[t] # None
                     /\ issues' = [issues EXCEPT ![t][field] = rank]
  <2>1. PICK t : t = O!Target(h)
    OBVIOUS
  <2>2. PICK field : field = h.field
    OBVIOUS
  <2>3. issues[t] # None /\ issues' = [issues EXCEPT ![t][field] = rank]
    BY <2>1, <2>2 DEF O!SetRank
  <2>4. field \in O!RANK_FIELDS
    BY <2>2
  <2> QED BY <2>3, <2>4, Zenon
<1>2. DOMAIN issues' = Uids
  BY <1>1 DEF PlanInv, Shaped
<1>3. ASSUME NEW u \in Uids, u # t, issues'[u] # None
      PROVE  issues'[u] = issues[u] /\ IsIssue(issues[u])
  BY <1>1, <1>3 DEF PlanInv, Shaped
<1>4. ASSUME t \in Uids
      PROVE  /\ IsIssue(issues[t]) /\ IsIssue(issues'[t])
             /\ issues'[t].sprint = issues[t].sprint /\ issues'[t].status = issues[t].status
  <2>1. IsIssue(issues[t])
    BY <1>1, <1>4 DEF PlanInv, Shaped
  <2>2. issues'[t] = [issues[t] EXCEPT ![field] = rank]
    BY <1>1, <1>4 DEF PlanInv, Shaped
  <2>3. field # "sprint" /\ field # "status"
    BY <1>1 DEF O!RANK_FIELDS
  <2> QED BY <2>1, <2>2, <2>3 DEF IsIssue
<1> QED BY <1>1, <1>2, <1>3, <1>4

LEMMA RankStepKeeps ==
    ASSUME PlanInv, NEW c \in Clients, RankStep(c)
    PROVE  PlanInv'
<1>1. UNCHANGED <<sprints, contested, late>> /\ DOMAIN handlers = Clients
  BY DEF RankStep, Rank, PlanInv, Shaped
<1>2. ASSUME handlers[c].op = "move"
      PROVE  Mild(handlers[c]) /\ handlers[c].field \in O!RANK_FIELDS /\ {"op", "field"} \subseteq DOMAIN handlers[c]
  BY <1>2 DEF PlanInv, Shaped, IsRequest, Mild
<1>3. CASE O!GiveUp(c)
  <2>1. handlers' = [handlers EXCEPT ![c] = [op |-> "free"]] /\ UNCHANGED issues
    BY <1>3 DEF O!GiveUp, O!Finish, O!Free
  <2> QED BY <1>1, <2>1, FreeIsMild, MildRequests
<1>4. CASE O!Place(c)
  <2>1. handlers' = [handlers EXCEPT ![c] = [op |-> "free"]] /\ handlers[c].op = "move"
    BY <1>4 DEF O!Place, O!Finish, O!Free, O!Moving
  <2>2. PICK rank : O!SetRank(handlers[c], rank)
    BY <1>4 DEF O!Place
  <2>3. DOMAIN handlers' = Clients /\ \A d \in Clients : handlers'[d] = handlers[d] \/ Mild(handlers'[d])
    BY <1>1, <2>1, FreeIsMild
  <2> QED BY <1>1, <1>2, <2>1, <2>2, <2>3, SetRankIsMild, MildSteps
<1>5. CASE O!WriteSpread(c)
  <2>1. handlers[c].op = "move" /\ \E rank : O!SetRank(handlers[c], rank)
    BY <1>5 DEF O!WriteSpread, O!Moving
  <2>2. PICK h : handlers' = [handlers EXCEPT ![c] = h] /\ Mild(h)
    <3> DEFINE h == handlers[c]
               others == [h EXCEPT !.todo = Tail(@)]
               after == IF others.todo = <<>> THEN [others EXCEPT !.rank = O!Again(issues', h)]
                        ELSE others
    <3>1. PICK rest : rest = others
      OBVIOUS
    <3>2. PICK next : /\ next = rest \/ \E rank : next = [rest EXCEPT !.rank = rank]
                      /\ handlers' = [handlers EXCEPT ![c] =
                             IF next.todo = <<>> /\ next.rank = Exhausted THEN O!Free
                             ELSE O!Reading(issues', next)]
      <4>1. handlers' = [handlers EXCEPT ![c] =
                IF after.todo = <<>> /\ after.rank = Exhausted THEN O!Free
                ELSE O!Reading(issues', after)]
        BY <1>5, Zenon DEF O!WriteSpread, Exhausted, O!Exhausted
      <4>2. after = rest \/ \E rank : after = [rest EXCEPT !.rank = rank]
        BY <3>1
      <4> HIDE DEF after
      <4> QED BY <4>1, <4>2
    <3>3. PICK from : O!Reading(issues', next) = [next EXCEPT !.from = from]
      BY DEF O!Reading
    <3>4. Mild([next EXCEPT !.from = from])
      <4>1. {"op", "field"} \subseteq DOMAIN rest /\ rest.op = "move" /\ rest.field \in O!RANK_FIELDS
        BY <1>2, <2>1, <3>1
      <4>2. {"op", "field"} \subseteq DOMAIN next /\ next.op = "move" /\ next.field \in O!RANK_FIELDS
        BY <3>2, <4>1
      <4> QED BY <4>2 DEF Mild, IsRequest
    <3> QED BY <3>2, <3>3, <3>4, FreeIsMild DEF O!Free
  <2>3. DOMAIN handlers' = Clients /\ \A d \in Clients : handlers'[d] = handlers[d] \/ Mild(handlers'[d])
    BY <1>1, <2>2
  <2> QED BY <1>1, <1>2, <2>1, <2>3, SetRankIsMild, MildSteps
<1> QED BY <1>3, <1>4, <1>5 DEF RankStep

-----------------------------------------------------------------------------
(* Sprints: what is accepted.                                              *)

LEMMA CreateSprintKeeps ==
    ASSUME PlanInv, NEW c \in Clients, S!createSprint(c)
    PROVE  PlanInv'
<1>1. S!allocateId \in Ids /\ UNCHANGED <<issues, sprints, contested, late>>
  BY DEF S!createSprint, S!Accept
<1>2. PICK h : h = [op |-> "createSprint", sprint |-> S!allocateId]
  OBVIOUS
<1>3. handlers' = [handlers EXCEPT ![c] = h]
  BY <1>2 DEF S!createSprint, S!Accept, S!Goto
<1>4. Mild(h)
  BY <1>1, <1>2 DEF Mild, IsRequest
<1> QED BY <1>1, <1>3, <1>4, MildRequests

LEMMA AssignKeeps ==
    ASSUME PlanInv, NEW c \in Clients, NEW u \in Uids, NEW s \in Ids \cup {None},
           S!updateIssue(c, u, s)
    PROVE  PlanInv'
<1>1. issues[u] # None /\ UNCHANGED <<issues, sprints, contested, late>>
  BY DEF S!updateIssue, S!Accept
<1>2. PICK h : h = [op |-> "assign", uid |-> u, to |-> s, from |-> issues[u]]
  OBVIOUS
<1>3. handlers' = [handlers EXCEPT ![c] = h]
  BY <1>2 DEF S!updateIssue, S!Accept, S!Goto
<1>4. Mild(h)
  BY <1>1, <1>2 DEF Mild, IsRequest
<1> QED BY <1>1, <1>3, <1>4, MildRequests

(* A request that may end a sprint lists what it has to move, and is the   *)
(* only thing that changes.                                                *)
LEMMA ListingKeeps ==
    ASSUME PlanInv, NEW c \in Clients, NEW h, handlers' = [handlers EXCEPT ![c] = h],
           UNCHANGED <<issues, sprints, late>>, IsRequest(h), Listed(h),
           contested' \in BOOLEAN, Starting'
    PROVE  PlanInv'
<1>1. Shaped'
  BY DEF PlanInv, Shaped
<1>2. Emptying'
  <2>1. ASSUME NEW d \in Clients
        PROVE  Listed(handlers[d])'
    <3>1. handlers'[d] = h \/ handlers'[d] = handlers[d]
      BY DEF PlanInv, Shaped
    <3>2. Listed(h) /\ Listed(handlers[d])
      BY DEF PlanInv, Emptying
    <3>3. \A s : S!Held(s)' = S!Held(s) /\ S!Unfinished(s)' = S!Unfinished(s)
      BY DEF S!Held, S!Unfinished
    <3> QED BY <3>1, <3>2, <3>3 DEF Listed
  <2> QED BY <2>1 DEF Emptying
<1>3. S!NoWorkIsLeftBehind'
  BY DEF PlanInv, S!NoWorkIsLeftBehind, S!LeftBehind, S!Exists
<1> QED BY <1>1, <1>2, <1>3 DEF PlanInv

LEMMA StartSprintKeeps ==
    ASSUME PlanInv, NEW c \in Clients, NEW s \in Ids, S!startSprint(c, s)
    PROVE  PlanInv'
<1>1. PICK h : h = [op |-> "start", sprint |-> s, from |-> "PLANNED"]
  OBVIOUS
<1>2. /\ handlers' = [handlers EXCEPT ![c] = h] /\ S!Active = {}
      /\ UNCHANGED <<issues, sprints, late>>
  BY <1>1 DEF S!startSprint, S!Accept, S!Goto
<1>3. contested' = (contested \/ \E d \in Clients : handlers[d].op = "start")
  BY DEF S!startSprint
<1>4. IsRequest(h) /\ Listed(h)
  BY <1>1 DEF IsRequest, Listed
<1>5. S!Active' = S!Active
  BY <1>2 DEF S!Active
<1>6. contested' \in BOOLEAN
  BY <1>3, Zenon
<1>7. Starting'
  <2>1. SUFFICES ASSUME ~contested' PROVE Starting'
    BY <1>6 DEF Starting
  <2>2. \A d \in Clients : handlers[d].op # "start"
    BY <1>3, <2>1
  <2>3. \A d \in Clients : handlers'[d].op = "start" => d = c
    BY <1>2, <2>2 DEF PlanInv, Shaped
  <2> QED BY <1>2, <1>5, <2>3 DEF Starting
<1> QED BY <1>2, <1>4, <1>6, <1>7, ListingKeeps

(* Neither of the two that end a sprint starts one.                        *)
LEMMA EndingIsNoStart ==
    ASSUME PlanInv, NEW c \in Clients, NEW h, handlers' = [handlers EXCEPT ![c] = h],
           h.op # "start", UNCHANGED <<sprints, contested>>
    PROVE  contested' \in BOOLEAN /\ Starting'
<1>1. \A d \in Clients : handlers'[d].op = "start" => handlers[d].op = "start"
  BY DEF PlanInv, Shaped
<1>2. S!Active' = S!Active
  BY DEF S!Active
<1> QED BY <1>1, <1>2 DEF PlanInv, Shaped, Starting

LEMMA CloseSprintKeeps ==
    ASSUME PlanInv, NEW c \in Clients, NEW s \in Ids, NEW to \in Ids \cup {None},
           S!closeSprint(c, s, to)
    PROVE  PlanInv'
<1>1. to # s /\ UNCHANGED <<issues, sprints, late, contested>>
  BY NothingIsNoSprint DEF S!closeSprint, S!Accept
<1>2. PICK from, h :
          /\ h = [op |-> "close", sprint |-> s, to |-> to, todo |-> S!Unfinished(s), from |-> from]
          /\ handlers' = [handlers EXCEPT ![c] = h]
  <2>1. PICK r : r = [op |-> "close", sprint |-> s, to |-> to, todo |-> S!Unfinished(s), from |-> None]
    OBVIOUS
  <2>2. PICK from : S!Ready(r) = [r EXCEPT !.from = from]
    BY DEF S!Ready
  <2>3. handlers' = [handlers EXCEPT ![c] = S!Ready(r)]
    BY <2>1 DEF S!closeSprint, S!Accept, S!Goto
  <2> QED BY <2>1, <2>2, <2>3
<1>3. S!Unfinished(s) \in SUBSET Uids
  BY DEF S!Unfinished, S!Held
<1>4. IsRequest(h) /\ Listed(h) /\ h.op # "start"
  BY <1>1, <1>2, <1>3 DEF IsRequest, Listed
<1> QED BY <1>1, <1>2, <1>4, EndingIsNoStart, ListingKeeps

LEMMA DeleteSprintKeeps ==
    ASSUME PlanInv, NEW c \in Clients, NEW s \in Ids, S!deleteSprint(c, s)
    PROVE  PlanInv'
<1>1. None # s /\ UNCHANGED <<issues, sprints, late, contested>>
  BY NothingIsNoSprint DEF S!deleteSprint, S!Accept
<1>2. PICK from, h :
          /\ h = [op |-> "deleteSprint", sprint |-> s, to |-> None, todo |-> S!Held(s), from |-> from]
          /\ handlers' = [handlers EXCEPT ![c] = h]
  <2>1. PICK r : r = [op |-> "deleteSprint", sprint |-> s, to |-> None, todo |-> S!Held(s), from |-> None]
    OBVIOUS
  <2>2. PICK from : S!Ready(r) = [r EXCEPT !.from = from]
    BY DEF S!Ready
  <2>3. handlers' = [handlers EXCEPT ![c] = S!Ready(r)]
    BY <2>1 DEF S!deleteSprint, S!Accept, S!Goto
  <2> QED BY <2>1, <2>2, <2>3
<1>3. S!Held(s) \in SUBSET Uids
  BY DEF S!Held
<1>4. IsRequest(h) /\ Listed(h) /\ h.op # "start"
  BY <1>1, <1>2, <1>3 DEF IsRequest, Listed
<1> QED BY <1>1, <1>2, <1>4, EndingIsNoStart, ListingKeeps

-----------------------------------------------------------------------------
(* Sprints: what is written.                                               *)

LEMMA SprintGiveUpKeeps ==
    ASSUME PlanInv, NEW c \in Clients, S!GiveUp(c)
    PROVE  PlanInv'
<1>1. handlers' = [handlers EXCEPT ![c] = [op |-> "free"]] /\ UNCHANGED <<issues, sprints, contested, late>>
  BY DEF S!GiveUp, S!Finish, S!Goto, S!Free, S!history
<1> QED BY <1>1, FreeIsMild, MildRequests

(* A request that is over leaves the others with what they carry.          *)
LEMMA OthersGoOn ==
    ASSUME PlanInv, NEW c \in Clients, handlers' = [handlers EXCEPT ![c] = S!Free],
           UNCHANGED <<issues, late, contested>>, DOMAIN sprints' = Ids
    PROVE  /\ Shaped' /\ Emptying' /\ handlers'[c].op = "free"
           /\ \A d \in Clients \ {c} : handlers'[d] = handlers[d]
<1>1. DOMAIN handlers' = Clients /\ handlers'[c] = [op |-> "free"]
      /\ \A d \in Clients \ {c} : handlers'[d] = handlers[d]
  BY DEF PlanInv, Shaped, S!Free
<1>2. Shaped'
  BY <1>1, FreeIsMild DEF PlanInv, Shaped, Mild
<1>3. ASSUME NEW d \in Clients
      PROVE  Listed(handlers[d])'
  <2>1. CASE d = c
    BY <1>1, <2>1 DEF Listed
  <2>2. CASE d # c
    <3>1. handlers'[d] = handlers[d] /\ Listed(handlers[d])
      BY <1>1, <2>2 DEF PlanInv, Emptying
    <3>2. \A s : S!Held(s)' = S!Held(s) /\ S!Unfinished(s)' = S!Unfinished(s)
      BY DEF S!Held, S!Unfinished
    <3> QED BY <3>1, <3>2 DEF Listed
  <2> QED BY <2>1, <2>2
<1> QED BY <1>1, <1>2, <1>3 DEF Emptying

LEMMA CreateWriteKeeps ==
    ASSUME PlanInv, NEW c \in Clients, S!CreateWrite(c)
    PROVE  PlanInv'
<1>1. PICK s : s = handlers[c].sprint
  OBVIOUS
<1>2. /\ sprints' = IF sprints[s] # None THEN sprints ELSE [sprints EXCEPT ![s] = "PLANNED"]
      /\ handlers' = [handlers EXCEPT ![c] = S!Free] /\ UNCHANGED <<issues, contested, late>>
  BY <1>1 DEF S!CreateWrite, S!Exists, S!Finish, S!Goto, S!history
<1>3. /\ DOMAIN sprints' = Ids
      /\ \A i \in Ids : sprints'[i] = sprints[i] \/ (sprints[i] = None /\ sprints'[i] = "PLANNED")
  BY <1>2 DEF PlanInv, Shaped
<1>4. Shaped' /\ Emptying' /\ handlers'[c].op = "free" /\ \A d \in Clients \ {c} : handlers'[d] = handlers[d]
  BY <1>2, <1>3, OthersGoOn
<1>5. S!Active' = S!Active
  BY <1>3, NothingIsNoSprint DEF S!Active
<1>6. Starting'
  <2>1. \A d \in Clients : handlers'[d].op = "start" => handlers[d].op = "start"
    BY <1>4
  <2> QED BY <1>2, <1>5, <2>1 DEF PlanInv, Starting
<1>7. S!NoWorkIsLeftBehind'
  <2>1. ASSUME NEW u \in Uids \ late, S!LeftBehind(u)'
        PROVE  FALSE
    <3>1. issues[u] # None /\ issues[u].sprint # None /\ ~S!LeftBehind(u)
      BY <1>2, <2>1 DEF S!LeftBehind, PlanInv, S!NoWorkIsLeftBehind
    <3>2. issues[u].sprint \in Ids
      BY <3>1 DEF PlanInv, Shaped, IsIssue
    <3>3. sprints[issues[u].sprint] # None
      BY <3>1 DEF S!LeftBehind, S!Exists
    <3>4. sprints'[issues[u].sprint] = sprints[issues[u].sprint]
      BY <1>3, <3>2, <3>3
    <3> QED BY <1>2, <2>1, <3>1, <3>4 DEF S!LeftBehind, S!Exists
  <2> QED BY <1>2, <2>1 DEF S!NoWorkIsLeftBehind
<1> QED BY <1>4, <1>6, <1>7 DEF PlanInv

(* Nothing is found unfinished, or at all, in the sprint that ends.        *)
LEMMA WriteStatusKeeps ==
    ASSUME PlanInv, NEW c \in Clients, S!WriteStatus(c)
    PROVE  PlanInv'
<1>1. PICK h, s, status :
          /\ h = handlers[c] /\ s = h.sprint
          /\ status = CASE h.op = "start" -> "ACTIVE" [] h.op = "close" -> "CLOSED" [] OTHER -> None
          /\ sprints' = [sprints EXCEPT ![s] = status]
  BY DEF S!WriteStatus
<1>2. /\ h.op \in {"start", "close", "deleteSprint"} /\ (h.op # "start" => h.todo = {})
      /\ sprints[s] = h.from /\ h.from # None
      /\ handlers' = [handlers EXCEPT ![c] = S!Free] /\ UNCHANGED <<issues, contested, late>>
  BY <1>1 DEF S!WriteStatus, S!Finish, S!Goto, S!history
<1>3. s \in Ids /\ IsRequest(h) /\ Listed(h)
  BY <1>1, <1>2 DEF PlanInv, Shaped, IsRequest, Emptying
<1>4. DOMAIN sprints' = Ids /\ sprints'[s] = status /\ \A i \in Ids \ {s} : sprints'[i] = sprints[i]
  BY <1>1, <1>3 DEF PlanInv, Shaped
<1>5. Shaped' /\ Emptying' /\ handlers'[c].op = "free" /\ \A d \in Clients \ {c} : handlers'[d] = handlers[d]
  BY <1>2, <1>4, OthersGoOn
<1>6. status = "ACTIVE" <=> h.op = "start"
  BY <1>1, <1>2, NothingIsNoSprint
<1>7. Starting'
  <2>1. SUFFICES ASSUME ~contested PROVE Starting'
    BY <1>2 DEF Starting, PlanInv, Shaped
  <2>2. \A d \in Clients : handlers'[d].op = "start" => handlers[d].op = "start" /\ d # c
    BY <1>5
  <2>3. CASE h.op = "start"
    <3>1. S!Active = {} /\ \A d \in Clients : handlers'[d].op # "start"
      BY <1>1, <2>1, <2>2, <2>3 DEF PlanInv, Starting
    <3>2. S!Active' \subseteq {s}
      BY <1>4, <3>1 DEF S!Active
    <3> QED BY <3>1, <3>2 DEF Starting
  <2>4. CASE h.op # "start"
    <3>1. S!Active' \subseteq S!Active
      BY <1>4, <1>6, <2>4 DEF S!Active
    <3> QED BY <2>1, <2>2, <3>1 DEF PlanInv, Starting
  <2> QED BY <2>3, <2>4
<1>8. S!NoWorkIsLeftBehind'
  <2>1. ASSUME NEW u \in Uids \ late, S!LeftBehind(u)'
        PROVE  FALSE
    <3>1. issues[u] # None /\ issues[u].sprint # None /\ ~S!LeftBehind(u)
      BY <1>2, <2>1 DEF S!LeftBehind, PlanInv, S!NoWorkIsLeftBehind
    <3>2. issues[u].sprint \in Ids
      BY <3>1 DEF PlanInv, Shaped, IsIssue
    <3>3. issues[u].sprint = s
      BY <1>2, <1>4, <2>1, <3>1, <3>2 DEF S!LeftBehind, S!Exists
    <3>4. u \in S!Held(s)
      BY <3>1, <3>3 DEF S!Held
    <3>5. CASE h.op = "start"
      BY <1>2, <1>4, <1>6, <2>1, <3>3, <3>5, NothingIsNoSprint DEF S!LeftBehind, S!Exists
    <3>6. CASE h.op = "close"
      <4>1. u \notin S!Unfinished(s)
        BY <1>1, <1>2, <1>3, <3>6 DEF Listed
      <4>2. sprints'[s] = "CLOSED"
        BY <1>1, <1>4, <3>6
      <4>3. issues[u].status \in S!SETTLED
        BY <3>4, <4>1 DEF S!Unfinished
      <4> QED BY <1>2, <2>1, <3>3, <4>2, <4>3, NothingIsNoSprint DEF S!LeftBehind, S!Exists
    <3>7. CASE h.op = "deleteSprint"
      BY <1>1, <1>2, <1>3, <3>4, <3>7 DEF Listed
    <3> QED BY <1>2, <3>5, <3>6, <3>7
  <2> QED BY <1>2, <2>1 DEF S!NoWorkIsLeftBehind
<1> QED BY <1>5, <1>7, <1>8 DEF PlanInv

-----------------------------------------------------------------------------
(* An issue changes.  Whatever ends a sprint that it is then in finds it   *)
(* among those that came late.                                             *)

LEMMA Entered ==
    ASSUME PlanInv, NEW u \in Uids, NEW f, IsIssue(f), issues' = [issues EXCEPT ![u] = f],
           S!Enter(u, f.sprint), UNCHANGED sprints
    PROVE  /\ DOMAIN issues' = Uids /\ \A v \in Uids : issues'[v] # None => IsIssue(issues'[v])
           /\ S!NoWorkIsLeftBehind'
           /\ \A d \in Clients, s \in Ids :
                  handlers[d].op \in {"close", "deleteSprint"} /\ handlers[d].sprint = s =>
                      /\ S!Held(s)' \subseteq (S!Held(s) \ ({u} \cup late)) \cup late'
                      /\ S!Unfinished(s)' \subseteq (S!Unfinished(s) \ ({u} \cup late)) \cup late'
<1>1. DOMAIN issues' = Uids /\ issues'[u] = f /\ \A v \in Uids \ {u} : issues'[v] = issues[v]
  BY DEF PlanInv, Shaped
<1>2. \A v \in Uids : issues'[v] # None => IsIssue(issues'[v])
  BY <1>1 DEF PlanInv, Shaped
<1>3. PICK t : t = f.sprint
  OBVIOUS
<1>4. PICK trouble \in BOOLEAN :
          /\ trouble <=> t # None /\ (sprints[t] = None \/ sprints[t] = "CLOSED" \/ S!Ending(t))
          /\ late' = IF trouble THEN late \cup {u} ELSE late \ {u}
  <2>1. PICK trouble \in BOOLEAN :
            trouble <=> t # None /\ (sprints[t] = None \/ sprints[t] = "CLOSED" \/ S!Ending(t))
    <3>1. CASE t # None /\ (sprints[t] = None \/ sprints[t] = "CLOSED" \/ S!Ending(t))
      BY <3>1
    <3>2. CASE ~(t # None /\ (sprints[t] = None \/ sprints[t] = "CLOSED" \/ S!Ending(t)))
      BY <3>2
    <3> QED BY <3>1, <3>2
  <2> QED BY <1>3, <2>1 DEF S!Enter, S!Exists
<1>5. \A v \in Uids \ {u} : v \in late' <=> v \in late
  BY <1>4
<1>6. S!NoWorkIsLeftBehind'
  <2>1. ASSUME NEW v \in Uids, v \notin late', S!LeftBehind(v)'
        PROVE  FALSE
    <3>1. CASE v = u
      <4>1. t # None /\ (sprints[t] = None \/ sprints[t] = "CLOSED")
        BY <1>1, <1>3, <2>1, <3>1 DEF S!LeftBehind, S!Exists
      <4>2. trouble
        BY <1>4, <4>1
      <4> QED BY <1>4, <2>1, <3>1, <4>2
    <3>2. CASE v # u
      <4>1. S!LeftBehind(v)
        BY <1>1, <2>1, <3>2 DEF S!LeftBehind, S!Exists
      <4>2. v \notin late
        BY <1>5, <2>1, <3>2
      <4> QED BY <4>1, <4>2 DEF PlanInv, S!NoWorkIsLeftBehind
    <3> QED BY <3>1, <3>2
  <2> QED BY <2>1 DEF S!NoWorkIsLeftBehind
<1>7. ASSUME NEW d \in Clients, handlers[d].op \in {"close", "deleteSprint"},
             NEW s \in Ids, handlers[d].sprint = s
      PROVE  /\ S!Held(s)' \subseteq (S!Held(s) \ ({u} \cup late)) \cup late'
             /\ S!Unfinished(s)' \subseteq (S!Unfinished(s) \ ({u} \cup late)) \cup late'
  <2>1. s # None
    BY NothingIsNoSprint
  <2>2. s = t => u \in late'
    <3>1. S!Ending(s)
      BY <1>7 DEF S!Ending
    <3>2. s = t => trouble
      BY <1>4, <2>1, <3>1
    <3> QED BY <1>4, <3>2
  <2>3. ASSUME NEW v \in Uids, issues'[v].sprint = s, v \notin late'
        PROVE  v # u /\ v \notin late /\ issues'[v] = issues[v]
    <3>1. v # u
      BY <1>1, <1>3, <2>2, <2>3
    <3> QED BY <1>1, <1>5, <2>3, <3>1
  <2>4. S!Held(s)' \subseteq (S!Held(s) \ ({u} \cup late)) \cup late'
    BY <2>3 DEF S!Held
  <2>5. S!Unfinished(s)' \subseteq (S!Unfinished(s) \ ({u} \cup late)) \cup late'
    BY <2>3 DEF S!Unfinished, S!Held
  <2> QED BY <2>4, <2>5
<1> QED BY <1>1, <1>2, <1>6, <1>7

(* The requests beside it are as they were, or have less to find, or are   *)
(* over.                                                                   *)
Shrunk(g, h, u) ==
    \/ g = h
    \/ g = S!Free
    \/ /\ h.op \in {"close", "deleteSprint"} /\ IsRequest(g) /\ g.op = h.op /\ g.sprint = h.sprint
       /\ h.todo \ {u} \subseteq g.todo

LEMMA EnteredKeeps ==
    ASSUME PlanInv, NEW u \in Uids, NEW f, IsIssue(f), issues' = [issues EXCEPT ![u] = f],
           S!Enter(u, f.sprint), UNCHANGED <<sprints, contested>>, DOMAIN handlers' = Clients,
           \A d \in Clients : Shrunk(handlers'[d], handlers[d], u)
    PROVE  PlanInv'
<1>1. /\ DOMAIN issues' = Uids /\ \A v \in Uids : issues'[v] # None => IsIssue(issues'[v])
      /\ S!NoWorkIsLeftBehind'
      /\ \A d \in Clients, s \in Ids :
             handlers[d].op \in {"close", "deleteSprint"} /\ handlers[d].sprint = s =>
                 /\ S!Held(s)' \subseteq (S!Held(s) \ ({u} \cup late)) \cup late'
                 /\ S!Unfinished(s)' \subseteq (S!Unfinished(s) \ ({u} \cup late)) \cup late'
  BY Entered
<1>2. Shaped'
  <2>1. \A d \in Clients : IsRequest(handlers[d])'
    BY FreeIsMild DEF Shrunk, Mild, PlanInv, Shaped, S!Free
  <2> QED BY <1>1, <2>1 DEF PlanInv, Shaped
<1>3. Starting'
  <2>1. \A d \in Clients : handlers'[d].op = "start" => handlers[d].op = "start"
    BY DEF Shrunk, S!Free
  <2>2. S!Active' = S!Active
    BY DEF S!Active
  <2> QED BY <2>1, <2>2 DEF PlanInv, Starting
<1>4. Emptying'
  <2>1. ASSUME NEW d \in Clients
        PROVE  Listed(handlers[d])'
    <3>1. PICK g, h, s : g = handlers'[d] /\ h = handlers[d] /\ s = h.sprint
      OBVIOUS
    <3>2. Shrunk(g, h, u) /\ Listed(h) /\ IsRequest(h)
      BY <3>1 DEF PlanInv, Shaped, Emptying
    <3>3. CASE g.op \notin {"close", "deleteSprint"}
      BY <3>1, <3>3 DEF Listed
    <3>4. CASE g.op \in {"close", "deleteSprint"}
      <4>1. g.op = h.op /\ g.sprint = s /\ h.todo \ {u} \subseteq g.todo
        BY <3>1, <3>2, <3>4 DEF Shrunk, S!Free
      <4>2. /\ S!Held(s)' \subseteq (S!Held(s) \ ({u} \cup late)) \cup late'
            /\ S!Unfinished(s)' \subseteq (S!Unfinished(s) \ ({u} \cup late)) \cup late'
        <5>1. s \in Ids
          BY <3>1, <3>2, <3>4, <4>1 DEF IsRequest
        <5> QED BY <1>1, <3>1, <3>4, <4>1, <5>1
      <4>3. g.op = "close" => S!Unfinished(s)' \subseteq g.todo \cup late'
        BY <3>1, <3>2, <4>1, <4>2 DEF Listed
      <4>4. g.op = "deleteSprint" => S!Held(s)' \subseteq g.todo \cup late'
        BY <3>1, <3>2, <4>1, <4>2 DEF Listed
      <4> QED BY <3>1, <4>1, <4>3, <4>4 DEF Listed
    <3> QED BY <3>3, <3>4
  <2> QED BY <2>1 DEF Emptying
<1> QED BY <1>1, <1>2, <1>3, <1>4 DEF PlanInv

LEMMA AssignWriteKeeps ==
    ASSUME PlanInv, NEW c \in Clients, S!AssignWrite(c)
    PROVE  PlanInv'
<1>1. PICK u, to, f : /\ u = handlers[c].uid /\ to = handlers[c].to
                      /\ f = [issues[u] EXCEPT !.sprint = to]
  OBVIOUS
<1>2. u \in Uids /\ to \in Ids \cup {None} /\ IsIssue(issues[u])
  BY <1>1 DEF S!AssignWrite, PlanInv, Shaped, IsRequest
<1>3. issues' = [issues EXCEPT ![u] = f]
  BY <1>1, <1>2 DEF S!AssignWrite, PlanInv, Shaped
<1>4. IsIssue(f) /\ f.sprint = to
  BY <1>1, <1>2 DEF IsIssue
<1>5. S!Enter(u, f.sprint) /\ UNCHANGED <<sprints, contested>> /\ handlers' = [handlers EXCEPT ![c] = S!Free]
  BY <1>1, <1>4 DEF S!AssignWrite, S!Finish, S!Goto
<1>6. DOMAIN handlers' = Clients /\ \A d \in Clients : Shrunk(handlers'[d], handlers[d], u)
  BY <1>5 DEF PlanInv, Shaped, Shrunk
<1> QED BY <1>2, <1>3, <1>4, <1>5, <1>6, EnteredKeeps

LEMMA MoveKeeps ==
    ASSUME PlanInv, NEW u \in Uids, Move(u)
    PROVE  PlanInv'
<1>1. PICK status : S!transitionIssue(u, status)
  BY DEF Move
<1>2. PICK f : f = [issues[u] EXCEPT !.status = status]
  OBVIOUS
<1>3. IsIssue(issues[u]) /\ issues' = [issues EXCEPT ![u] = f]
  BY <1>1, <1>2 DEF S!transitionIssue, PlanInv, Shaped
<1>4. IsIssue(f) /\ f.sprint = issues[u].sprint
  BY <1>2, <1>3 DEF IsIssue
<1>5. S!Enter(u, f.sprint) /\ UNCHANGED <<sprints, contested, handlers>>
  BY <1>1, <1>4 DEF S!transitionIssue
<1>6. DOMAIN handlers' = Clients /\ \A d \in Clients : Shrunk(handlers'[d], handlers[d], u)
  BY <1>5 DEF PlanInv, Shaped, Shrunk
<1> QED BY <1>3, <1>4, <1>5, <1>6, EnteredKeeps

LEMMA CreateIssueKeeps ==
    ASSUME PlanInv, NEW u \in Uids, CreateIssue(u)
    PROVE  PlanInv'
<1>1. PICK rank : issues' = [issues EXCEPT ![u] =
          [sprint |-> None, status |-> "TODO", backlog_rank |-> rank, board_rank |-> NoRank]]
  BY DEF CreateIssue
<1>2. PICK f : /\ f = [sprint |-> None, status |-> "TODO", backlog_rank |-> rank, board_rank |-> NoRank]
               /\ issues' = [issues EXCEPT ![u] = f]
  BY <1>1
<1>3. IsIssue(f) /\ f.sprint = None
  BY <1>2 DEF IsIssue
<1>4. DOMAIN issues' = Uids /\ issues'[u] = f /\ \A v \in Uids \ {u} : issues'[v] = issues[v]
  BY <1>2 DEF PlanInv, Shaped
<1>5. \A v \in Uids : issues[v] # None => IsIssue(issues[v])
  BY DEF PlanInv, Shaped
<1>6. UNCHANGED <<sprints, contested, late, handlers>> /\ DOMAIN handlers = Clients
  BY DEF CreateIssue, PlanInv, Shaped
<1> QED BY <1>3, <1>4, <1>5, <1>6, MildSteps

(* An issue that the request passes over is not in its sprint.             *)
LEMMA MoveOutKeeps ==
    ASSUME PlanInv, NEW c \in Clients, S!MoveOut(c)
    PROVE  PlanInv'
<1>1. PICK h, u, s : h = handlers[c] /\ u = S!Min(h.todo) /\ s = h.sprint
  OBVIOUS
<1>2. h.op \in {"close", "deleteSprint"} /\ h.todo # {} /\ UNCHANGED <<sprints, contested>>
  BY <1>1 DEF S!MoveOut
<1>3. /\ IsRequest(h) /\ Listed(h) /\ s \in Ids /\ s # None /\ h.to \in Ids \cup {None} /\ h.to # s
      /\ h.todo \in SUBSET Uids /\ DOMAIN h = {"op", "sprint", "to", "todo", "from"}
  BY <1>1, <1>2, NothingIsNoSprint DEF PlanInv, Shaped, IsRequest, Emptying
<1>4. u \in h.todo /\ u \in Uids
  BY <1>1, <1>2, <1>3, SmallestIsListed
<1>5. PICK g : /\ handlers' = [handlers EXCEPT ![c] = g]
               /\ DOMAIN g = DOMAIN h /\ g.op = h.op /\ g.sprint = s /\ g.to = h.to
               /\ g.todo = h.todo \ {u}
  <2>1. PICK rest : rest = [h EXCEPT !.todo = @ \ {u}]
    OBVIOUS
  <2>2. PICK from : S!Ready(rest) = [rest EXCEPT !.from = from]
    BY DEF S!Ready
  <2>3. handlers' = [handlers EXCEPT ![c] = S!Ready(rest)]
    BY <1>1, <2>1 DEF S!MoveOut, S!Goto
  <2>4. PICK g : g = [rest EXCEPT !.from = from]
    OBVIOUS
  <2>5. /\ DOMAIN g = DOMAIN h /\ g.op = h.op /\ g.sprint = s /\ g.to = h.to
        /\ g.todo = h.todo \ {u}
    BY <1>1, <1>3, <2>1, <2>4
  <2> QED BY <2>2, <2>3, <2>4, <2>5
<1>6. IsRequest(g) /\ g.op # "start"
  BY <1>2, <1>3, <1>5 DEF IsRequest
<1>7. CASE issues[u] = None \/ issues[u].sprint = None
  <2>1. UNCHANGED <<issues, late>>
    BY <1>1, <1>7 DEF S!MoveOut
  <2>2. u \notin S!Held(s) /\ u \notin S!Unfinished(s)
    BY <1>3, <1>7 DEF S!Held, S!Unfinished
  <2>3. Listed(g)
    BY <1>1, <1>2, <1>3, <1>5, <2>2 DEF Listed
  <2> QED BY <1>2, <1>5, <1>6, <2>1, <2>3, EndingIsNoStart, ListingKeeps
<1>8. CASE ~(issues[u] = None \/ issues[u].sprint = None)
  <2>1. PICK f : f = [issues[u] EXCEPT !.sprint = h.to]
    OBVIOUS
  <2>2. issues' = [issues EXCEPT ![u] = f] /\ S!Enter(u, h.to) /\ IsIssue(issues[u])
    BY <1>1, <1>4, <1>8, <2>1 DEF S!MoveOut, PlanInv, Shaped
  <2>3. IsIssue(f) /\ f.sprint = h.to
    BY <1>3, <2>1, <2>2 DEF IsIssue
  <2>4. DOMAIN handlers' = Clients /\ \A d \in Clients : Shrunk(handlers'[d], handlers[d], u)
    BY <1>1, <1>2, <1>5, <1>6 DEF PlanInv, Shaped, Shrunk
  <2>5. S!Enter(u, f.sprint)
    BY <2>2, <2>3
  <2> QED BY <1>2, <1>4, <2>2, <2>3, <2>4, <2>5, EnteredKeeps
<1> QED BY <1>7, <1>8

-----------------------------------------------------------------------------
LEMMA PlanNext == PlanInv /\ [PlanningNext]_planningVars => PlanInv'
<1> SUFFICES ASSUME PlanInv, [PlanningNext]_planningVars PROVE PlanInv'
  OBVIOUS
<1>1. ASSUME NEW c \in Clients, RankRequest(c) \/ RankStep(c)
      PROVE  PlanInv'
  BY <1>1, RankRequestKeeps, RankStepKeeps
<1>2. ASSUME NEW c \in Clients, SprintRequest(c)
      PROVE  PlanInv'
  <2>1. CASE S!createSprint(c)
    BY <2>1, CreateSprintKeeps
  <2>2. CASE \E s \in Ids : S!startSprint(c, s) \/ S!deleteSprint(c, s)
    BY <2>2, StartSprintKeeps, DeleteSprintKeeps
  <2>3. CASE \E s \in Ids, to \in Ids \cup {None} : S!closeSprint(c, s, to)
    BY <2>3, CloseSprintKeeps
  <2>4. CASE \E u \in Uids, s \in Ids \cup {None} : S!updateIssue(c, u, s)
    BY <2>4, AssignKeeps
  <2> QED BY <1>2, <2>1, <2>2, <2>3, <2>4 DEF SprintRequest
<1>3. ASSUME NEW c \in Clients, SprintStep(c)
      PROVE  PlanInv'
  BY <1>3, CreateWriteKeeps, MoveOutKeeps, WriteStatusKeeps, AssignWriteKeeps, SprintGiveUpKeeps
     DEF SprintStep
<1>4. ASSUME NEW u \in Uids, Move(u) \/ CreateIssue(u) \/ DeleteIssue(u)
      PROVE  PlanInv'
  BY <1>4, MoveKeeps, CreateIssueKeeps, DeleteKeeps
<1>5. CASE Restart
  BY <1>5, RestartKeeps
<1>6. CASE UNCHANGED planningVars
  BY <1>6, StutterKeeps
<1> QED BY <1>1, <1>2, <1>3, <1>4, <1>5, <1>6 DEF PlanningNext

-----------------------------------------------------------------------------
(* What the properties of the runs rest on.                                *)
THEOREM PlanInvariant == PlanningSpec => []PlanInv
BY PlanInit, PlanNext, PTL DEF PlanningSpec

(* A project has one active sprint unless a merge or two overlapping       *)
(* starts made a second one, and a close or deletion that moves its issues *)
(* one write at a time leaves none behind, whatever is moved, reopened,    *)
(* reordered, closed again or deleted beside it, and however far it gets.  *)
THEOREM SprintsStaySound == PlanningSpec => []SprintsAreSound
<1>1. PlanInv => SprintsAreSound
  <2> SUFFICES ASSUME PlanInv PROVE SprintsAreSound
    OBVIOUS
  <2>1. S!OneActiveSprint
    <3>1. S!Cardinality(S!Active) = Cardinality(S!Active)
      BY DEF S!Cardinality, Cardinality
    <3> QED BY <3>1, OneOrNone DEF PlanInv, Starting, Shaped, S!OneActiveSprint
  <2> QED BY <2>1 DEF PlanInv, SprintsAreSound
<1> QED BY <1>1, PlanInvariant, PTL
=============================================================================
