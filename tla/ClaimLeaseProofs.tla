-------------------------- MODULE ClaimLeaseProofs --------------------------
(***************************************************************************)
(* Theorems about ClaimLease for every set of agents, issues, runs and     *)
(* requests, every lease and every bound.                                  *)
(***************************************************************************)
EXTENDS ClaimLease, TLAPS

-----------------------------------------------------------------------------
(* The inductive invariant.  The properties speak of runs that claims,     *)
(* requests and events name; it says first that these runs are real.       *)

Known(r) == r \in Runs /\ runs[r].state # "none"

(* Whatever names a run names one that was started, and agrees with its    *)
(* file on the issue and the agent.                                        *)
Named ==
    /\ \A c \in Clients : handlers[c].at # "free" => Known(handlers[c].run)
    /\ \A i \in Issues :
          /\ claims[i].run = NoRun => claims[i] = NoClaim
          /\ claims[i].run # NoRun =>
                /\ Known(claims[i].run) /\ runs[claims[i].run].issue = i
                /\ claims[i].owner = runs[claims[i].run].agent
    /\ \A e \in events : Known(e.run) /\ e.issue = runs[e.run].issue
    /\ \A r \in exposed : Known(r)
    /\ \A n \in DOMAIN rows : Known(rows[n].run)

(* What start-up found expired stays so until it is swept away.            *)
Sweeping ==
    /\ mode # "recording" => expired = {}
    /\ mode = "down" => \A c \in Clients : handlers[c].at = "free"
    /\ \A i \in expired : claims[i].run # NoRun /\ claims[i].left = 0

(* The first half of TimelineIsTrue, for claims that have expired too.     *)
ClaimsAreTold ==
    /\ \A i \in Issues : claims[i].run # NoRun => Recorded(claims[i].run)
    /\ \A m \in moves : \E r \in Runs :
          /\ Known(r) /\ runs[r].agent = m.agent /\ runs[r].issue = m.issue
          /\ Recorded(r)

(* What follows the end of a run, in a request or in the journal, comes    *)
(* after the timeline has it.                                              *)
EndsAreTold ==
    /\ \A n \in DOMAIN rows : rows[n].at = "tell" => Ended(rows[n].run)
    /\ \A c \in Clients : handlers[c].at \in {"ended", "tell"} => Ended(handlers[c].run)
    /\ \A e \in events : e.verb = "claim.released" => Ended(e.run)

(* A run about to be cancelled has no claim, or one that was taken since;  *)
(* a journal row that would end a run has that run in exposed.             *)
Ghosts ==
    /\ GhostsAreExplained
    /\ \A c \in Clients, i \in Issues :
          handlers[c].at = "cancel" /\ claims[i].run = handlers[c].run =>
              handlers[c].run \in exposed
    /\ \A n \in DOMAIN rows : rows[n].at \in {"end", "cancel"} => rows[n].run \in exposed

(* A run that says RUNNING after its end was told, and what may still make *)
(* it say so.                                                              *)
Revivals ==
    /\ \A r \in Runs : runs[r].state = "RUNNING" /\ Ended(r) => r \in revived
    /\ \A c \in Clients, r \in Runs :
          handlers[c].at = "beat" /\ handlers[c].run = r /\ HasEnded(r) => r \in revived
    /\ \A n \in DOMAIN rows : rows[n].at = "beat" /\ rows[n].expect # "RUNNING" =>
          rows[n].run \in revived

ClaimInv == TypeOK /\ Named /\ Sweeping /\ ClaimsAreTold /\ EndsAreTold /\ Ghosts /\ Revivals

-----------------------------------------------------------------------------
(* Lemmas about the data.                                                  *)

LEMMA HandlerSteps ==
    ASSUME TypeOK, NEW c \in Clients
    PROVE  /\ handlers[c] \in Handlers
           /\ \A at \in Stages : Goto(c, at) =>
                 /\ handlers' \in [Clients -> Handlers]
                 /\ handlers'[c].at = at /\ handlers'[c].run = handlers[c].run
                 /\ \A d \in Clients : d # c => handlers'[d] = handlers[d]
           /\ Finish(c) =>
                 /\ handlers' \in [Clients -> Handlers]
                 /\ handlers'[c].at = "free"
                 /\ \A d \in Clients : d # c => handlers'[d] = handlers[d]
           /\ \A at \in Stages, r \in Runs :
                 handlers' = [handlers EXCEPT ![c] = [at |-> at, run |-> r]] =>
                    /\ handlers' \in [Clients -> Handlers]
                    /\ handlers'[c].at = at /\ handlers'[c].run = r
                    /\ \A d \in Clients : d # c => handlers'[d] = handlers[d]
<1>1. handlers \in [Clients -> Handlers] /\ handlers[c] \in Handlers
  BY DEF TypeOK
<1>2. ASSUME NEW at \in Stages, Goto(c, at)
      PROVE  /\ handlers' \in [Clients -> Handlers]
             /\ handlers'[c].at = at /\ handlers'[c].run = handlers[c].run
             /\ \A d \in Clients : d # c => handlers'[d] = handlers[d]
  BY <1>1, <1>2 DEF Goto, Handlers
<1>3. ASSUME Finish(c)
      PROVE  /\ handlers' \in [Clients -> Handlers]
             /\ handlers'[c].at = "free"
             /\ \A d \in Clients : d # c => handlers'[d] = handlers[d]
  BY <1>1, <1>3 DEF Finish, Handlers, Free, Stages
<1>4. ASSUME NEW at \in Stages, NEW r \in Runs,
             handlers' = [handlers EXCEPT ![c] = [at |-> at, run |-> r]]
      PROVE  /\ handlers' \in [Clients -> Handlers]
             /\ handlers'[c].at = at /\ handlers'[c].run = r
             /\ \A d \in Clients : d # c => handlers'[d] = handlers[d]
  BY <1>1, <1>4 DEF Handlers
<1> QED BY <1>1, <1>2, <1>3, <1>4

LEMMA RunStep ==
    ASSUME TypeOK, NEW r \in Runs, NEW state \in RunStates,
           runs' = [runs EXCEPT ![r].state = state]
    PROVE  /\ runs' \in [Runs -> RunRecords]
           /\ runs'[r].state = state
           /\ \A q \in Runs : /\ runs'[q].issue = runs[q].issue
                              /\ runs'[q].agent = runs[q].agent
                              /\ q # r => runs'[q] = runs[q]
BY DEF TypeOK, RunRecords

LEMMA EventType ==
    ASSUME TypeOK, NEW r \in Runs, NEW verb \in Verbs
    PROVE  /\ Event(verb, r) \in Events
           /\ Event(verb, r).verb = verb /\ Event(verb, r).run = r
           /\ Event(verb, r).issue = runs[r].issue
BY DEF TypeOK, RunRecords, Event, Events

LEMMA BudgetStep ==
    ASSUME TypeOK,
           \/ Spend("moves", MaxMoves) \/ Spend("throws", MaxThrows)
           \/ Spend("crashes", MaxCrashes)
    PROVE  budget' \in [moves: 0..MaxMoves, throws: 0..MaxThrows, crashes: 0..MaxCrashes]
BY ClaimLeaseAssumption DEF TypeOK, Spend

LEMMA ClaimTypes ==
    ASSUME TypeOK, NEW i \in Issues
    PROVE  /\ claims[i] \in [run: Runs \cup {NoRun}, owner: Agents \cup {NoAgent}, left: 0..Lease]
           /\ NoClaim \in Claims /\ NoClaim.run = NoRun /\ NoClaim.left = 0
           /\ Lease \in Nat /\ Lease > 0
<1>1. Lease \in Nat /\ Lease > 0
  BY ClaimLeaseAssumption
<1> QED BY <1>1 DEF TypeOK, Claims, NoClaim

LEMMA LeaseStep ==
    ASSUME NEW c \in Claims, NEW n \in 0..Lease, NEW d, d = [c EXCEPT !.left = n]
    PROVE  d \in Claims /\ d.run = c.run /\ d.owner = c.owner /\ d.left = n
BY DEF Claims

(* How a step may change the table: every claim stays with its run and its *)
(* owner, with another lease, or goes; only a live claim stays live.       *)
Fewer ==
    \A i \in Issues :
        \/ claims'[i] = NoClaim
        \/ /\ claims'[i].run = claims[i].run /\ claims'[i].owner = claims[i].owner
           /\ claims[i].left = 0 => claims'[i].left = 0
           /\ claims'[i].run = NoRun => claims'[i] = NoClaim

LEMMA TableSteps ==
    ASSUME TypeOK, Named
    PROVE  /\ Unexpired \in [Issues -> Claims]
           /\ claims' = Unexpired => Fewer /\ claims' \in [Issues -> Claims]
           /\ UNCHANGED claims => Fewer /\ claims' \in [Issues -> Claims]
           /\ \A r \in Runs :
                 /\ claims' = Renewed(r, Unexpired) => Fewer /\ claims' \in [Issues -> Claims]
                 /\ claims' = Renewed(r, claims) => Fewer /\ claims' \in [Issues -> Claims]
<1>1. Unexpired \in [Issues -> Claims]
  BY ClaimTypes DEF Unexpired, TypeOK
<1>2. \A i \in Issues : NoClaim.run = NoRun /\ (Unexpired[i] = NoClaim \/ Unexpired[i] = claims[i])
  BY DEF Unexpired, NoClaim
<1>3. ASSUME claims' = Unexpired PROVE Fewer
  BY <1>2, <1>3 DEF Fewer, Named
<1>4. ASSUME UNCHANGED claims PROVE Fewer
  BY <1>4 DEF Fewer, Named
<1>5. ASSUME NEW r \in Runs, claims' = Renewed(r, claims)
      PROVE  Fewer /\ claims' \in [Issues -> Claims]
  <2>1. ASSUME NEW i \in Issues
        PROVE  \/ claims'[i] = claims[i]
               \/ claims[i].left > 0 /\ claims'[i] = [claims[i] EXCEPT !.left = Lease]
    BY <1>5 DEF Renewed
  <2>2. ASSUME NEW i \in Issues
        PROVE  /\ claims'[i] \in Claims
               /\ claims'[i].run = claims[i].run /\ claims'[i].owner = claims[i].owner
               /\ claims[i].left = 0 => claims'[i].left = 0
               /\ claims'[i].run = NoRun => claims'[i] = NoClaim
    <3>1. /\ claims[i] \in Claims /\ claims[i].left \in 0..Lease /\ Lease \in 0..Lease
          /\ NoClaim \in Claims /\ NoClaim.left = 0
          /\ claims[i].run = NoRun => claims[i] = NoClaim
      BY ClaimTypes DEF Named, Claims
    <3>2. CASE claims[i].left > 0 /\ claims'[i] = [claims[i] EXCEPT !.left = Lease]
      <4>1. /\ claims'[i] \in Claims /\ claims'[i].run = claims[i].run
            /\ claims'[i].owner = claims[i].owner
        BY <3>1, <3>2, LeaseStep
      <4> QED BY <3>1, <3>2, <4>1
    <3> QED BY <2>1, <3>1, <3>2
  <2> QED BY <1>5, <2>2 DEF Fewer, Renewed
<1>6. ASSUME NEW r \in Runs, claims' = Renewed(r, Unexpired)
      PROVE  Fewer /\ claims' \in [Issues -> Claims]
  <2>1. ASSUME NEW i \in Issues
        PROVE  \/ claims'[i] = NoClaim \/ claims'[i] = claims[i]
               \/ claims[i].left > 0 /\ claims'[i] = [claims[i] EXCEPT !.left = Lease]
    <3>1. CASE Unexpired[i] = NoClaim
      BY <1>6, <3>1 DEF Renewed, NoClaim
    <3>2. CASE Unexpired[i] = claims[i]
      BY <1>6, <3>2 DEF Renewed
    <3> QED BY <1>2, <3>1, <3>2
  <2>2. ASSUME NEW i \in Issues
        PROVE  /\ claims'[i] \in Claims
               /\ \/ claims'[i] = NoClaim
                  \/ /\ claims'[i].run = claims[i].run /\ claims'[i].owner = claims[i].owner
                     /\ claims[i].left = 0 => claims'[i].left = 0
                     /\ claims'[i].run = NoRun => claims'[i] = NoClaim
    <3>1. /\ claims[i] \in Claims /\ claims[i].left \in 0..Lease /\ Lease \in 0..Lease
          /\ NoClaim \in Claims /\ NoClaim.left = 0
          /\ claims[i].run = NoRun => claims[i] = NoClaim
      BY ClaimTypes DEF Named, Claims
    <3>2. CASE claims[i].left > 0 /\ claims'[i] = [claims[i] EXCEPT !.left = Lease]
      <4>1. /\ claims'[i] \in Claims /\ claims'[i].run = claims[i].run
            /\ claims'[i].owner = claims[i].owner
        BY <3>1, <3>2, LeaseStep
      <4> QED BY <3>1, <3>2, <4>1
    <3> QED BY <2>1, <3>1, <3>2
  <2> QED BY <1>6, <2>2 DEF Fewer, Renewed
<1> QED BY <1>1, <1>3, <1>4, <1>5, <1>6 DEF TypeOK

-----------------------------------------------------------------------------
(* What nearly every step of the system has in common.                     *)

(* The file of a run that was started keeps its issue and its agent.       *)
Steady ==
    \A q \in Runs : Known(q) =>
        Known(q)' /\ runs'[q].issue = runs[q].issue /\ runs'[q].agent = runs[q].agent

HistoryGrows ==
    /\ events \subseteq events' /\ moves' = moves
    /\ exposed \subseteq exposed' /\ revived \subseteq revived'
    /\ \A r \in exposed' : Known(r)
    /\ \A e \in events' \ events :
          /\ Known(e.run) /\ e.issue = runs[e.run].issue
          /\ e.verb = "claim.released" => Ended(e.run)

(* A request that goes on leaves no loose end behind it.                   *)
HandlersGoOn ==
    \A c \in Clients : handlers'[c] # handlers[c] =>
        /\ handlers'[c].at = "free" \/ Known(handlers'[c].run)
        /\ handlers[c].at = "record" =>
              \/ Event("claim.acquired", handlers[c].run) \in events'
              \/ handlers[c].run \in exposed'
        /\ handlers'[c].at \in {"ended", "tell"} =>
              Event("run.ended", handlers'[c].run) \in events'
        /\ handlers[c].at = "ended" =>
              \/ handlers[c].run \in exposed'
              \/ \A i \in Issues : claims'[i].run # handlers[c].run
        /\ handlers'[c].at = "cancel" =>
              \A i \in Issues : claims'[i].run # handlers'[c].run
        /\ handlers'[c].at = "beat" =>
              \A q \in Runs : handlers'[c].run = q /\ HasEnded(q)' => q \in revived'

(* A run ends with its claim, or with a reason; it says RUNNING again only *)
(* for a heartbeat that was under way.                                     *)
RunsGoOn ==
    \A q \in Runs :
        /\ HasEnded(q)' /\ ~HasEnded(q) =>
              /\ runs'[q].state # "RUNNING"
              /\ \/ q \in exposed'
                 \/ \A i \in Issues : claims'[i].run # q
                 \/ \E c \in Clients : handlers'[c].at = "ended" /\ handlers'[c].run = q
              /\ \A c \in Clients : handlers'[c].at = "beat" /\ handlers'[c].run = q =>
                    q \in revived'
        /\ runs'[q].state = "RUNNING" /\ runs[q].state # "RUNNING" =>
              ~Ended(q)' \/ q \in revived'

(* What a write that threw leaves in the journal.                          *)
RowsGoOn ==
    \A n \in DOMAIN rows' :
        \/ \E m \in DOMAIN rows : rows'[n] = rows[m]
        \/ /\ Known(rows'[n].run)
           /\ rows'[n].at = "tell" => Ended(rows'[n].run)
           /\ rows'[n].at \in {"end", "cancel"} => rows'[n].run \in exposed'
           /\ rows'[n].at = "beat" /\ rows'[n].expect # "RUNNING" => rows'[n].run \in revived'

Ordinary == Steady /\ Fewer /\ HistoryGrows /\ HandlersGoOn /\ RunsGoOn /\ RowsGoOn

LEMMA EventsKeepTheirRun ==
    ASSUME Steady, NEW q, Known(q), NEW verb
    PROVE  Event(verb, q)' = Event(verb, q)
BY DEF Steady, Known, Event

LEMMA EndedStays ==
    ASSUME Steady, events \subseteq events', NEW q, Known(q), Ended(q)
    PROVE  Ended(q)'
BY EventsKeepTheirRun DEF Ended

LEMMA RecordedStays ==
    ASSUME Steady, HistoryGrows, HandlersGoOn, NEW q, Known(q), Recorded(q)
    PROVE  Recorded(q)'
<1>1. CASE Event("claim.acquired", q) \in events \/ q \in exposed
  BY <1>1, EventsKeepTheirRun DEF Recorded, HistoryGrows
<1>2. ASSUME NEW c \in Clients, handlers[c].at = "record", handlers[c].run = q
      PROVE  Recorded(q)'
  BY <1>2, EventsKeepTheirRun DEF Recorded, HandlersGoOn
<1> QED BY <1>1, <1>2 DEF Recorded

LEMMA OrdinaryStep ==
    ASSUME Named, ClaimsAreTold, EndsAreTold, Ghosts, Revivals, TypeOK, TypeOK', Ordinary
    PROVE  Named' /\ ClaimsAreTold' /\ EndsAreTold' /\ Ghosts' /\ Revivals'
<1> USE DEF Ordinary
<1>0. /\ NoClaim.run = NoRun /\ NoClaim.left = 0
      /\ \A q : Known(q) => q # NoRun /\ Known(q)'
  BY ClaimLeaseAssumption DEF NoClaim, Known, Steady
<1>1. Named'
  <2>1. ASSUME NEW c \in Clients, NEW r, r = handlers'[c].run, handlers'[c].at # "free"
        PROVE  Known(r)'
    <3>1. Known(r)
      BY <2>1 DEF Named, HandlersGoOn
    <3> QED BY <1>0, <3>1
  <2>2. ASSUME NEW i \in Issues, NEW r, r = claims'[i].run, r # NoRun
        PROVE  Known(r)' /\ runs'[r].issue = i /\ claims'[i].owner = runs'[r].agent
    <3>1. claims[i].run = r /\ claims'[i].owner = claims[i].owner
      BY <1>0, <2>2 DEF Fewer
    <3>2. Known(r) /\ runs[r].issue = i /\ claims[i].owner = runs[r].agent
      BY <2>2, <3>1 DEF Named
    <3> QED BY <3>1, <3>2 DEF Steady, Known
  <2>3. \A i \in Issues : claims'[i].run = NoRun => claims'[i] = NoClaim
    BY DEF Fewer
  <2>4. \A e \in events' : Known(e.run)' /\ e.issue = runs'[e.run].issue
    BY <1>0 DEF Named, HistoryGrows, Steady, Known
  <2>5. \A r \in exposed' : Known(r)'
    BY <1>0 DEF HistoryGrows
  <2>6. ASSUME NEW n \in DOMAIN rows', NEW r, r = rows'[n].run
        PROVE  Known(r)'
    <3>1. Known(r)
      BY <2>6 DEF RowsGoOn, Named
    <3> QED BY <1>0, <3>1
  <2> QED BY <2>1, <2>2, <2>3, <2>4, <2>5, <2>6 DEF Named, Known
<1>2. ClaimsAreTold'
  <2>1. ASSUME NEW i \in Issues, NEW r, r = claims'[i].run, r # NoRun
        PROVE  Recorded(r)'
    <3>1. claims[i].run = r
      BY <1>0, <2>1 DEF Fewer
    <3>2. Known(r) /\ Recorded(r)
      BY <2>1, <3>1 DEF Named, ClaimsAreTold
    <3> QED BY <3>2, RecordedStays
  <2>2. ASSUME NEW m \in moves'
        PROVE  \E r \in Runs : /\ Known(r)' /\ runs'[r].agent = m.agent
                               /\ runs'[r].issue = m.issue /\ Recorded(r)'
    <3>1. PICK r \in Runs : /\ Known(r) /\ runs[r].agent = m.agent /\ runs[r].issue = m.issue
                            /\ Recorded(r)
      BY DEF ClaimsAreTold, HistoryGrows
    <3> QED BY <3>1, RecordedStays DEF Steady
  <2>3. \A i \in Issues : claims'[i].run # NoRun => Recorded(claims[i].run)'
    BY <2>1 DEF Recorded, Event
  <2> QED BY <2>2, <2>3 DEF ClaimsAreTold
<1>3. EndsAreTold'
  <2>1. ASSUME NEW n \in DOMAIN rows', NEW r, r = rows'[n].run, rows'[n].at = "tell"
        PROVE  Ended(r)'
    <3>1. Known(r) /\ Ended(r)
      BY <2>1 DEF RowsGoOn, Named, EndsAreTold
    <3> QED BY <3>1, EndedStays DEF HistoryGrows
  <2>2. ASSUME NEW c \in Clients, NEW r, r = handlers'[c].run,
               handlers'[c].at \in {"ended", "tell"}
        PROVE  Ended(r)'
    <3>1. CASE handlers'[c] = handlers[c]
      <4>1. Known(r) /\ Ended(r)
        BY <2>2, <3>1 DEF Named, EndsAreTold
      <4> QED BY <3>1, <4>1, EndedStays DEF HistoryGrows
    <3>2. CASE handlers'[c] # handlers[c]
      <4>1. Event("run.ended", r) \in events' /\ Known(r)
        BY <2>2, <3>2 DEF HandlersGoOn
      <4> QED BY <4>1, EventsKeepTheirRun DEF Ended
    <3> QED BY <3>1, <3>2
  <2>3. \A e \in events' : e.verb = "claim.released" => Ended(e.run)'
    BY EndedStays DEF Named, EndsAreTold, HistoryGrows
  <2>4. \A c \in Clients : handlers'[c].at \in {"ended", "tell"} => Ended(handlers[c].run)'
    BY <2>2 DEF Ended, Event
  <2>5. \A n \in DOMAIN rows' : rows'[n].at = "tell" => Ended(rows[n].run)'
    BY <2>1 DEF Ended, Event
  <2> QED BY <2>3, <2>4, <2>5 DEF EndsAreTold
<1>4. Ghosts'
  <2>1. ASSUME NEW i \in Issues, NEW r, r = claims'[i].run, Live(i)', HasEnded(r)'
        PROVE  \/ r \in exposed' \cup revived'
               \/ \E c \in Clients : handlers'[c].at = "ended" /\ handlers'[c].run = r
    <3>1. claims[i].run = r /\ Live(i) /\ Known(r) /\ r \in Runs
      BY <1>0, <2>1, ClaimTypes DEF Live, Fewer, Named, Known
    <3>2. CASE ~HasEnded(r)
      BY <2>1, <3>1, <3>2 DEF RunsGoOn
    <3>3. CASE HasEnded(r) /\ r \in exposed \cup revived
      BY <3>3 DEF HistoryGrows
    <3>4. ASSUME NEW c \in Clients, handlers[c].at = "ended", handlers[c].run = r
          PROVE  \/ r \in exposed'
                 \/ \E d \in Clients : handlers'[d].at = "ended" /\ handlers'[d].run = r
      BY <2>1, <3>4 DEF HandlersGoOn
    <3> QED BY <3>1, <3>2, <3>3, <3>4 DEF Ghosts, GhostsAreExplained
  <2>2. ASSUME NEW c \in Clients, NEW i \in Issues, handlers'[c].at = "cancel",
               claims'[i].run = handlers'[c].run
        PROVE  handlers'[c].run \in exposed'
    <3>1. handlers'[c] = handlers[c] /\ Known(handlers[c].run)
      BY <2>2 DEF HandlersGoOn, Named
    <3>2. claims[i].run = handlers[c].run
      BY <1>0, <2>2, <3>1 DEF Fewer
    <3> QED BY <2>2, <3>1, <3>2 DEF Ghosts, HistoryGrows
  <2>3. \A n \in DOMAIN rows' : rows'[n].at \in {"end", "cancel"} => rows'[n].run \in exposed'
    BY DEF RowsGoOn, Ghosts, HistoryGrows
  <2>4. GhostsAreExplained'
    BY <2>1 DEF GhostsAreExplained, HasEnded, Ended, Event
  <2> QED BY <2>2, <2>3, <2>4 DEF Ghosts
<1>5. Revivals'
  <2>1. ASSUME NEW r \in Runs, runs'[r].state = "RUNNING", Ended(r)'
        PROVE  r \in revived'
    <3>1. CASE HasEnded(r)
      BY <2>1, <3>1 DEF Revivals, RunsGoOn, HasEnded, HistoryGrows
    <3>2. CASE ~HasEnded(r)
      BY <2>1, <3>2 DEF RunsGoOn, HasEnded
    <3> QED BY <3>1, <3>2
  <2>2. ASSUME NEW c \in Clients, NEW r \in Runs,
               handlers'[c].at = "beat", handlers'[c].run = r, HasEnded(r)'
        PROVE  r \in revived'
    <3>1. CASE handlers'[c] # handlers[c]
      BY <2>2, <3>1 DEF HandlersGoOn
    <3>2. CASE handlers'[c] = handlers[c] /\ HasEnded(r)
      BY <2>2, <3>2 DEF Revivals, HistoryGrows
    <3>3. CASE ~HasEnded(r)
      BY <2>2, <3>3 DEF RunsGoOn
    <3> QED BY <3>1, <3>2, <3>3
  <2>3. \A n \in DOMAIN rows' : rows'[n].at = "beat" /\ rows'[n].expect # "RUNNING" =>
           rows'[n].run \in revived'
    BY DEF RowsGoOn, Revivals, HistoryGrows
  <2> QED BY <2>1, <2>2, <2>3 DEF Revivals
<1> QED BY <1>1, <1>2, <1>3, <1>4, <1>5

-----------------------------------------------------------------------------
(* The steps of requests.  Each is typed, and ordinary in the sense above. *)

LEMMA KeptRuns ==
    ASSUME UNCHANGED runs, \A q \in Runs : Ended(q)' => Ended(q)
    PROVE  Steady /\ RunsGoOn
BY DEF Steady, RunsGoOn, Known, HasEnded

LEMMA KeptEnds ==
    ASSUME UNCHANGED <<runs, events>>
    PROVE  \A q : (Ended(q)' <=> Ended(q)) /\ (HasEnded(q)' <=> HasEnded(q))
BY DEF Ended, HasEnded, Event

LEMMA KeptRows == UNCHANGED rows => RowsGoOn
BY DEF RowsGoOn

LEMMA KeptHistory ==
    ASSUME Named, UNCHANGED <<events, moves, exposed, revived>>
    PROVE  HistoryGrows
BY DEF HistoryGrows, Named

LEMMA LoggedHistory ==
    ASSUME TypeOK, Named, NEW r \in Runs, Known(r), NEW verb \in Verbs, Log(verb, r),
           verb = "claim.released" => Ended(r), UNCHANGED <<moves, exposed>>,
           revived \subseteq revived'
    PROVE  HistoryGrows /\ events' \subseteq Events /\ Event(verb, r) \in events'
BY EventType DEF HistoryGrows, Named, Log, TypeOK

LEMMA ClaimsLogged ==
    ASSUME TypeOK, UNCHANGED runs, NEW r \in Runs,
           NEW verb \in {"claim.acquired", "claim.released", "claim.reclaimed"}, Log(verb, r)
    PROVE  \A q \in Runs : Ended(q)' => Ended(q)
BY EventType DEF Ended, Log, Event

(* A step that writes nothing leaves all that is written as it was.        *)
LEMMA KeptFiles ==
    ASSUME Named, UNCHANGED <<runs, rows, events, moves, exposed, revived>>
    PROVE  Steady /\ RunsGoOn /\ RowsGoOn /\ HistoryGrows
BY KeptRuns, KeptEnds, KeptRows, KeptHistory

LEMMA KeptHandlers == UNCHANGED handlers => HandlersGoOn
BY DEF HandlersGoOn

LEMMA RunningStep ==
    ASSUME TypeOK, NEW r \in Runs, Known(r), NEW state \in RunStates \ {"none"},
           runs' = [runs EXCEPT ![r].state = state]
    PROVE  /\ Steady /\ runs' \in [Runs -> RunRecords] /\ runs'[r].state = state
           /\ \A q \in Runs : q # r => runs'[q].state = runs[q].state
<1>1. state \in RunStates
  OBVIOUS
<1> QED BY <1>1, RunStep DEF Steady, Known

LEMMA BusyRuns ==
    ASSUME TypeOK, Named, NEW c \in Clients, handlers[c].at # "free"
    PROVE  Known(handlers[c].run) /\ handlers[c].run \in Runs
BY DEF Named, Known

LEMMA HeartbeatInv ==
    ASSUME ClaimInv, NEW c \in Clients, NEW r \in Runs, Heartbeat(c, r) \/ EndRun(c, r)
    PROVE  TypeOK' /\ Ordinary
<1>1. TypeOK /\ Named /\ Known(r)
  BY DEF ClaimInv, Heartbeat, EndRun, Known
<1>2. PICK at \in {"beat", "end"} : handlers' = [handlers EXCEPT ![c] = [at |-> at, run |-> r]]
  BY DEF Heartbeat, EndRun
<1>3. /\ handlers' \in [Clients -> Handlers]
      /\ handlers'[c].at = at /\ handlers'[c].run = r /\ handlers[c].at = "free"
      /\ \A d \in Clients : d # c => handlers'[d] = handlers[d]
  BY <1>1, <1>2, HandlerSteps DEF Heartbeat, EndRun, Awake, Stages
<1>4. UNCHANGED <<issues, asked, runs, claims, mode, expired, rows, events, moves, exposed,
                   revived, budget>>
  BY DEF Heartbeat, EndRun, files, ghosts
<1>5. TypeOK'
  BY <1>1, <1>3, <1>4 DEF TypeOK
<1>6. HandlersGoOn
  <2>1. HasEnded(r)' => r \in revived'
    BY <1>4, KeptEnds DEF Heartbeat, EndRun, HasEnded, ClaimInv, Revivals
  <2> QED BY <1>1, <1>3, <2>1 DEF HandlersGoOn
<1> QED BY <1>1, <1>4, <1>5, <1>6, KeptFiles, TableSteps DEF Ordinary

LEMMA HeartbeatWriteInv ==
    ASSUME ClaimInv, NEW c \in Clients, HeartbeatWrite(c)
    PROVE  TypeOK' /\ Ordinary
<1>0. PICK r : r = handlers[c].run
  OBVIOUS
<1>1. TypeOK /\ Named /\ Known(r) /\ r \in Runs /\ handlers[c].at = "beat"
  BY <1>0, BusyRuns DEF ClaimInv, HeartbeatWrite, Awake
<1>2. runs' = [runs EXCEPT ![r].state = "RUNNING"] /\ Goto(c, "renew")
  BY <1>0 DEF HeartbeatWrite
<1>3. /\ handlers' \in [Clients -> Handlers]
      /\ handlers'[c].at = "renew" /\ handlers'[c].run = r
      /\ \A d \in Clients : d # c => handlers'[d] = handlers[d]
  BY <1>0, <1>1, <1>2, HandlerSteps DEF Stages
<1>4. /\ Steady /\ runs' \in [Runs -> RunRecords] /\ runs'[r].state = "RUNNING"
      /\ \A q \in Runs : q # r => runs'[q].state = runs[q].state
  BY <1>1, <1>2, RunningStep DEF RunStates
<1>5. UNCHANGED <<issues, asked, claims, mode, expired, rows, events, moves, exposed,
                   revived, budget>>
  BY DEF HeartbeatWrite, ghosts
<1>6. TypeOK'
  BY <1>1, <1>3, <1>4, <1>5 DEF TypeOK
<1>7. HandlersGoOn
  BY <1>1, <1>3 DEF HandlersGoOn
<1>8. RunsGoOn
  <2>1. ASSUME NEW q \in Runs, HasEnded(q)' PROVE HasEnded(q)
    <3>1. Event("run.ended", q)' = Event("run.ended", q)
      BY <1>4, RunStep, <1>1, <1>2 DEF Event, RunStates
    <3> QED BY <1>4, <1>5, <2>1, <3>1 DEF HasEnded, Ended
  <2>2. runs[r].state # "RUNNING" => r \in revived
    <3>1. runs[r].state \in RunStates /\ runs[r].state # "none"
      BY <1>1 DEF TypeOK, RunRecords, Known
    <3> QED BY <1>0, <1>1, <3>1 DEF RunStates, HasEnded, ClaimInv, Revivals
  <2> QED BY <1>4, <1>5, <2>1, <2>2 DEF RunsGoOn
<1> QED BY <1>1, <1>4, <1>5, <1>6, <1>7, <1>8, KeptRows, KeptHistory, TableSteps DEF Ordinary

LEMMA RenewInv ==
    ASSUME ClaimInv, NEW c \in Clients, Renew(c)
    PROVE  TypeOK' /\ Ordinary
<1>0. PICK r : r = handlers[c].run
  OBVIOUS
<1>1. TypeOK /\ Named /\ Known(r) /\ r \in Runs /\ handlers[c].at = "renew"
  BY <1>0, BusyRuns DEF ClaimInv, Renew, Awake
<1>2. claims' = Renewed(r, claims) /\ Finish(c)
  BY <1>0 DEF Renew
<1>3. /\ handlers' \in [Clients -> Handlers] /\ handlers'[c].at = "free"
      /\ \A d \in Clients : d # c => handlers'[d] = handlers[d]
  BY <1>1, <1>2, HandlerSteps
<1>4. Fewer /\ claims' \in [Issues -> Claims]
  BY <1>1, <1>2, TableSteps
<1>5. UNCHANGED <<issues, asked, runs, mode, expired, rows, events, moves, exposed,
                   revived, budget>>
  BY DEF Renew, files, ghosts
<1>6. TypeOK'
  BY <1>1, <1>3, <1>4, <1>5 DEF TypeOK
<1>7. HandlersGoOn
  BY <1>1, <1>3 DEF HandlersGoOn
<1> QED BY <1>1, <1>4, <1>5, <1>6, <1>7, KeptFiles DEF Ordinary

LEMMA EndRunWriteInv ==
    ASSUME ClaimInv, NEW c \in Clients, EndRunWrite(c) \/ CancelWrite(c)
    PROVE  TypeOK' /\ Ordinary
<1>0. PICK r : r = handlers[c].run
  OBVIOUS
<1>1. TypeOK /\ Named /\ Known(r) /\ r \in Runs /\ handlers[c].at \in {"end", "cancel"}
  BY <1>0, BusyRuns DEF ClaimInv, EndRunWrite, CancelWrite, Awake
<1>2. /\ Log("run.ended", r) /\ revived' = Revived(r)
      /\ UNCHANGED <<issues, asked, claims, mode, expired, rows, moves, exposed, budget>>
  BY <1>0 DEF EndRunWrite, CancelWrite
<1>3. PICK state \in {"DONE", "CANCELLED"}, at \in {"ended", "tell"} :
         /\ runs' = [runs EXCEPT ![r].state = state] /\ Goto(c, at)
         /\ at = "tell" => handlers[c].at = "cancel"
  BY <1>0 DEF EndRunWrite, CancelWrite, Awake
<1>4. /\ handlers' \in [Clients -> Handlers]
      /\ handlers'[c].at = at /\ handlers'[c].run = r
      /\ \A d \in Clients : d # c => handlers'[d] = handlers[d]
  BY <1>0, <1>1, <1>3, HandlerSteps DEF Stages
<1>5. /\ Steady /\ runs' \in [Runs -> RunRecords]
      /\ \A q \in Runs : q # r => runs'[q].state = runs[q].state
  BY <1>1, <1>3, RunningStep DEF RunStates
<1>6. revived \subseteq revived' /\ revived' \subseteq Runs
      /\ \A d \in Clients : handlers[d].at = "beat" /\ handlers[d].run = r => r \in revived'
  BY <1>1, <1>2 DEF Revived, TypeOK
<1>61. HistoryGrows /\ events' \subseteq Events /\ Event("run.ended", r) \in events'
  BY <1>1, <1>2, <1>6, LoggedHistory DEF Verbs
<1>7. TypeOK'
  BY <1>1, <1>2, <1>4, <1>5, <1>6, <1>61 DEF TypeOK
<1>8. HandlersGoOn
  BY <1>1, <1>4, <1>61 DEF HandlersGoOn
<1>9. at = "ended" \/ r \in exposed' \/ \A i \in Issues : claims'[i].run # r
  BY <1>0, <1>2, <1>3 DEF ClaimInv, Ghosts
<1>10. RunsGoOn
  <2>1. ASSUME NEW q \in Runs, q # r, HasEnded(q)' PROVE HasEnded(q)
    <3>1. Event("run.ended", q)' = Event("run.ended", q) /\ Event("run.ended", q).run = q
          /\ Event("run.ended", r).run = r
      BY <1>1, <1>3, RunStep DEF Event, RunStates
    <3> QED BY <1>2, <1>5, <2>1, <3>1 DEF HasEnded, Ended, Log
  <2>2. \A d \in Clients : handlers'[d].at = "beat" /\ handlers'[d].run = r => r \in revived'
    BY <1>3, <1>4, <1>6
  <2>3. runs'[r].state # "RUNNING"
    BY <1>1, <1>3, RunningStep DEF RunStates
  <2> QED BY <1>3, <1>4, <1>5, <1>9, <2>1, <2>2, <2>3 DEF RunsGoOn
<1> QED BY <1>1, <1>2, <1>5, <1>61, <1>7, <1>8, <1>10, KeptRows, TableSteps DEF Ordinary

LEMMA releaseRunInv ==
    ASSUME ClaimInv, NEW c \in Clients, releaseRun(c)
    PROVE  TypeOK' /\ Ordinary
<1>0. PICK r : r = handlers[c].run
  OBVIOUS
<1>1. TypeOK /\ Named /\ Known(r) /\ r \in Runs /\ handlers[c].at = "ended" /\ r # NoRun
  BY <1>0, BusyRuns, ClaimLeaseAssumption DEF ClaimInv, releaseRun, Awake
<1>2. claims' = [i \in Issues |-> IF claims[i].run = r THEN NoClaim ELSE claims[i]]
      /\ Finish(c)
  BY <1>0 DEF releaseRun
<1>3. /\ handlers' \in [Clients -> Handlers] /\ handlers'[c].at = "free"
      /\ \A d \in Clients : d # c => handlers'[d] = handlers[d]
  BY <1>1, <1>2, HandlerSteps
<1>4. claims' \in [Issues -> Claims] /\ \A i \in Issues : claims'[i].run # r
  BY <1>1, <1>2, ClaimTypes DEF Claims
<1>5. Fewer
  BY <1>1, <1>2 DEF Fewer, Named
<1>6. UNCHANGED <<issues, asked, runs, mode, expired, rows, events, moves, exposed,
                   revived, budget>>
  BY DEF releaseRun, files, ghosts
<1>7. TypeOK'
  BY <1>1, <1>3, <1>4, <1>6 DEF TypeOK
<1>8. HandlersGoOn
  BY <1>0, <1>1, <1>3, <1>4 DEF HandlersGoOn
<1> QED BY <1>1, <1>5, <1>6, <1>7, <1>8, KeptFiles DEF Ordinary

LEMMA RecordInv ==
    ASSUME ClaimInv, NEW c \in Clients, RecordAcquired(c) \/ RecordReleased(c)
    PROVE  TypeOK' /\ Ordinary
<1>0. PICK r : r = handlers[c].run
  OBVIOUS
<1>1. TypeOK /\ Named /\ Known(r) /\ r \in Runs /\ handlers[c].at \in {"record", "tell"}
  BY <1>0, BusyRuns DEF ClaimInv, RecordAcquired, RecordReleased, Awake
<1>2. /\ Finish(c)
      /\ UNCHANGED <<issues, asked, runs, claims, mode, expired, rows, moves, exposed, revived,
                     budget>>
  BY DEF RecordAcquired, RecordReleased, files
<1>3. PICK verb \in {"claim.acquired", "claim.released"} :
         /\ Log(verb, r)
         /\ verb = "claim.released" => handlers[c].at = "tell"
         /\ verb = "claim.acquired" => handlers[c].at = "record"
  BY <1>0 DEF RecordAcquired, RecordReleased, Awake
<1>4. verb = "claim.released" => Ended(r)
  BY <1>0, <1>3 DEF ClaimInv, EndsAreTold
<1>5. HistoryGrows /\ events' \subseteq Events /\ Event(verb, r) \in events'
  BY <1>1, <1>2, <1>3, <1>4, LoggedHistory DEF Verbs
<1>6. /\ handlers' \in [Clients -> Handlers] /\ handlers'[c].at = "free"
      /\ \A d \in Clients : d # c => handlers'[d] = handlers[d]
  BY <1>1, <1>2, HandlerSteps
<1>7. TypeOK'
  BY <1>1, <1>2, <1>5, <1>6 DEF TypeOK
<1>8. HandlersGoOn
  BY <1>0, <1>1, <1>3, <1>5, <1>6 DEF HandlersGoOn
<1>9. \A q \in Runs : Ended(q)' => Ended(q)
  BY <1>1, <1>2, <1>3, ClaimsLogged
<1> QED BY <1>1, <1>2, <1>5, <1>7, <1>8, <1>9, KeptRuns, KeptRows, TableSteps DEF Ordinary

LEMMA ReleaseInv ==
    ASSUME ClaimInv, NEW c \in Clients, NEW i \in Issues, Release(c, i)
    PROVE  TypeOK' /\ Ordinary
<1>0. PICK r : r = claims[i].run
  OBVIOUS
<1>1. TypeOK /\ Named /\ Known(r) /\ r \in Runs /\ handlers[c].at = "free"
      /\ runs[r].issue = i
  BY <1>0 DEF ClaimInv, Release, Awake, Live, Named, Known
<1>2. /\ claims' = [claims EXCEPT ![i] = NoClaim]
      /\ UNCHANGED <<issues, asked, runs, mode, expired, rows, events, moves, exposed,
                   revived, budget>>
      /\ \/ UNCHANGED handlers
         \/ handlers' = [handlers EXCEPT ![c] = [at |-> "cancel", run |-> r]]
  BY <1>0 DEF Release, files, ghosts
<1>3. Fewer /\ claims' \in [Issues -> Claims]
  BY <1>1, <1>2, ClaimTypes DEF Fewer, Named, TypeOK
<1>4. \A j \in Issues : claims'[j].run # r
  <2>1. \A j \in Issues : j # i => claims[j].run # r
    BY <1>1, ClaimLeaseAssumption DEF Named
  <2>2. NoClaim.run # r
    BY <1>1, ClaimLeaseAssumption DEF NoClaim
  <2> QED BY <1>1, <1>2, <2>1, <2>2 DEF TypeOK
<1>5. handlers' \in [Clients -> Handlers] /\ HandlersGoOn
  <2>1. CASE UNCHANGED handlers
    BY <1>1, <2>1, KeptHandlers DEF TypeOK
  <2>2. CASE handlers' = [handlers EXCEPT ![c] = [at |-> "cancel", run |-> r]]
    <3>1. /\ handlers' \in [Clients -> Handlers]
          /\ handlers'[c].at = "cancel" /\ handlers'[c].run = r
          /\ \A d \in Clients : d # c => handlers'[d] = handlers[d]
      BY <1>1, <2>2, HandlerSteps DEF Stages
    <3> QED BY <1>1, <1>4, <3>1 DEF HandlersGoOn
  <2> QED BY <1>2, <2>1, <2>2
<1>6. TypeOK'
  BY <1>1, <1>2, <1>3, <1>5 DEF TypeOK
<1> QED BY <1>1, <1>2, <1>3, <1>5, <1>6, KeptFiles DEF Ordinary

LEMMA ClaimAgainInv ==
    ASSUME ClaimInv, NEW r \in Runs, ClaimAgain(r)
    PROVE  TypeOK' /\ Ordinary
<1>1. TypeOK /\ Named
  BY DEF ClaimInv
<1>2. claims' = Unexpired \/ claims' = Renewed(r, Unexpired)
  BY DEF ClaimAgain
<1>3. Fewer /\ claims' \in [Issues -> Claims]
  BY <1>1, <1>2, TableSteps
<1>4. UNCHANGED <<issues, asked, runs, handlers, mode, expired, rows, events, moves, exposed,
                   revived, budget>>
  BY DEF ClaimAgain, files, ghosts
<1>5. TypeOK'
  BY <1>1, <1>3, <1>4 DEF TypeOK
<1> QED BY <1>1, <1>3, <1>4, <1>5, KeptFiles, KeptHandlers DEF Ordinary

LEMMA StartRunInv ==
    ASSUME ClaimInv, NEW r, NEW a, NEW i, <<r, a, i>> \in Sessions, StartRun(r, a, i)
    PROVE  TypeOK' /\ Ordinary
<1>1. TypeOK /\ Named /\ r \in Runs /\ a \in Agents /\ i \in Issues /\ ~Known(r)
  BY ClaimLeaseAssumption DEF ClaimInv, StartRun, Known
<1>2. /\ runs' = [runs EXCEPT ![r] = [state |-> "RUNNING", agent |-> a, issue |-> i]]
      /\ UNCHANGED <<issues, asked, claims, handlers, mode, expired, rows, events, moves, exposed,
                     revived, budget>>
  BY DEF StartRun, ghosts
<1>3. /\ runs' \in [Runs -> RunRecords] /\ runs'[r].state = "RUNNING"
      /\ \A q \in Runs : q # r => runs'[q] = runs[q]
  BY <1>1, <1>2 DEF TypeOK, RunRecords, RunStates
<1>4. Steady
  BY <1>1, <1>3 DEF Steady, Known
<1>6. RunsGoOn
  <2>1. ~Ended(r)'
    BY <1>1, <1>2 DEF Ended, Event, Named
  <2>2. \A q \in Runs : q # r => (HasEnded(q)' => HasEnded(q))
    BY <1>2, <1>3 DEF HasEnded, Ended, Event
  <2> QED BY <1>3, <2>1, <2>2 DEF RunsGoOn, HasEnded
<1>5. TypeOK'
  BY <1>1, <1>2, <1>3 DEF TypeOK
<1> QED BY <1>1, <1>2, <1>4, <1>5, <1>6, KeptHandlers, KeptRows, KeptHistory, TableSteps DEF Ordinary

LEMMA PatchType ==
    ASSUME TypeOK, NEW i \in Issues, NEW to \in Statuses,
           issues' = [issues EXCEPT ![i] = patchStatus(@, to)]
    PROVE  issues' \in [Issues -> IssueStates]
BY DEF TypeOK, IssueStates, patchStatus

LEMMA PersonInv ==
    ASSUME ClaimInv, NEW i \in Issues,
           (\E to \in Statuses : MoveByPerson(i, to)) \/ Ask(i) \/ Resolve(i)
    PROVE  TypeOK' /\ Ordinary
<1>1. TypeOK /\ Named
  BY DEF ClaimInv
<1>2. UNCHANGED <<runs, claims, handlers, mode, expired, rows, events, moves, exposed,
               revived>>
  BY DEF MoveByPerson, Ask, Resolve, ghosts
<1>3. budget' \in [moves: 0..MaxMoves, throws: 0..MaxThrows, crashes: 0..MaxCrashes]
  BY <1>1, BudgetStep DEF MoveByPerson, Ask, Resolve, ghosts, TypeOK
<1>4. issues' \in [Issues -> IssueStates] /\ asked' \subseteq Issues
  BY <1>1, PatchType DEF MoveByPerson, Ask, Resolve, TypeOK
<1>5. TypeOK'
  BY <1>1, <1>2, <1>3, <1>4 DEF TypeOK
<1> QED BY <1>1, <1>2, <1>5, KeptFiles, KeptHandlers, TableSteps DEF Ordinary

-----------------------------------------------------------------------------
(* Time, failures and the restart.                                         *)

LEMMA TickInv ==
    ASSUME ClaimInv, Tick
    PROVE  TypeOK' /\ Ordinary /\ Sweeping'
<1>1. TypeOK /\ Named /\ Sweeping
  BY DEF ClaimInv
<1>2. UNCHANGED <<issues, asked, runs, handlers, mode, expired, rows, events, moves, exposed,
                   revived, budget>>
  BY DEF Tick, files, ghosts
<1>3. ASSUME NEW i \in Issues
      PROVE  /\ claims'[i] \in Claims
             /\ claims'[i].run = claims[i].run /\ claims'[i].owner = claims[i].owner
             /\ claims[i].left = 0 => claims'[i] = claims[i]
             /\ claims'[i].run = NoRun => claims'[i] = NoClaim
  <2>1. /\ claims[i] \in Claims /\ claims[i].left \in 0..Lease /\ Lease \in Nat
        /\ NoClaim.left = 0 /\ (claims[i].run = NoRun => claims[i] = NoClaim)
    BY <1>1, ClaimTypes DEF Claims, Named
  <2>2. CASE claims[i].left > 0
    <3>1. claims'[i] = [claims[i] EXCEPT !.left = claims[i].left - 1]
          /\ claims[i].left - 1 \in 0..Lease
      BY <2>1, <2>2 DEF Tick
    <3>2. /\ claims'[i] \in Claims /\ claims'[i].run = claims[i].run
          /\ claims'[i].owner = claims[i].owner
      BY <2>1, <3>1, LeaseStep
    <3> QED BY <2>1, <2>2, <3>2
  <2>3. CASE claims[i].left = 0
    BY <2>1, <2>3 DEF Tick
  <2> QED BY <2>1, <2>2, <2>3
<1>4. Fewer
  BY <1>3 DEF Fewer
<1>5. claims' \in [Issues -> Claims]
  BY <1>3 DEF Tick
<1>6. TypeOK'
  BY <1>1, <1>2, <1>5 DEF TypeOK
<1>7. Sweeping'
  BY <1>1, <1>2, <1>3 DEF Sweeping, TypeOK
<1> QED BY <1>1, <1>2, <1>4, <1>6, <1>7, KeptFiles, KeptHandlers DEF Ordinary

LEMMA FailInv ==
    ASSUME ClaimInv, NEW c \in Clients, NEW how, Fail(c, how)
    PROVE  TypeOK' /\ Ordinary
<1>0. PICK r, at : r = handlers[c].run /\ at = handlers[c].at
  OBVIOUS
<1>1. TypeOK /\ Named /\ at # "free" /\ at \in Stages /\ Known(r) /\ r \in Runs
  BY <1>0, BusyRuns, HandlerSteps DEF ClaimInv, Fail, Handlers
<1>2. /\ Finish(c) /\ UNCHANGED <<issues, asked, claims, mode, expired, moves>>
      /\ how \in Outcomes(at)
      /\ runs' = IF how \in {"put", "all"} THEN Written(at, r) ELSE runs
      /\ events' = IF how = "all" THEN Told(at, r) ELSE events
      /\ rows' = IF how \in {"left", "put"}
                 THEN Append(rows, [at |-> at, run |-> r, expect |-> runs'[r].state]) ELSE rows
      /\ exposed' = IF \/ at \in {"record", "ended"}
                       \/ at \in {"end", "cancel"} /\ how # "refused"
                    THEN exposed \cup {r} ELSE exposed
      /\ revived' = IF at \in {"end", "cancel"} /\ how \in {"put", "all"}
                    THEN Revived(r) ELSE revived
  BY <1>0 DEF Fail
<1>3. /\ handlers' \in [Clients -> Handlers] /\ handlers'[c].at = "free"
      /\ \A d \in Clients : d # c => handlers'[d] = handlers[d]
  BY <1>1, <1>2, HandlerSteps
<1>4. budget' \in [moves: 0..MaxMoves, throws: 0..MaxThrows, crashes: 0..MaxCrashes]
  BY <1>1, BudgetStep DEF Fail
<1>5. /\ how \in {"left", "all", "put"} => at \in Writing
      /\ how = "put" => at \in {"end", "cancel"}
  BY <1>2 DEF Outcomes, Writing
<1>6. /\ revived \subseteq revived' /\ revived' \subseteq Runs
      /\ at \in {"end", "cancel"} /\ how \in {"put", "all"} =>
            \A d \in Clients : (handlers[d].at = "beat" /\ handlers[d].run = r) => r \in revived'
  BY <1>1, <1>2 DEF Revived, TypeOK
<1>7. exposed \subseteq exposed' /\ exposed' \subseteq Runs
      /\ \A q \in exposed' : Known(q)
  BY <1>1, <1>2 DEF TypeOK, Named
<1>8. /\ at = "tell" => Ended(r)
      /\ at = "beat" /\ runs[r].state # "RUNNING" => r \in revived
  <2>1. runs[r].state \in RunStates /\ runs[r].state # "none"
    BY <1>1 DEF TypeOK, RunRecords, Known
  <2> QED BY <1>0, <1>1, <2>1 DEF ClaimInv, EndsAreTold, Revivals, HasEnded, RunStates
<1>9. /\ at \in {"beat", "end", "cancel"} =>
            Put[at] = IF at = "beat" THEN "RUNNING" ELSE IF at = "end" THEN "DONE" ELSE "CANCELLED"
      /\ DOMAIN Put = {"beat", "end", "cancel"}
  BY DEF Put
<1>10. /\ Steady /\ runs' \in [Runs -> RunRecords]
       /\ \A q \in Runs : q # r => runs'[q].state = runs[q].state
       /\ \A q \in Runs : runs'[q].issue = runs[q].issue
       /\ \/ runs'[r].state = runs[r].state
          \/ /\ at \in {"end", "cancel"} /\ how \in {"put", "all"}
             /\ runs'[r].state \in {"DONE", "CANCELLED"}
          \/ at = "beat" /\ runs'[r].state = "RUNNING"
       /\ at = "beat" /\ runs'[r].state # "RUNNING" => runs[r].state # "RUNNING"
       /\ how = "all" /\ at \in {"end", "cancel"} => runs'[r].state # "RUNNING"
  <2>1. CASE runs' = runs /\ (how = "all" => at \notin {"end", "cancel"})
    BY <1>1, <2>1 DEF TypeOK, Steady, Known
  <2>2. CASE how \in {"put", "all"} /\ at \in {"beat", "end", "cancel"}
    <3>1. PICK s \in RunStates \ {"none"} :
             /\ runs' = [runs EXCEPT ![r].state = s]
             /\ s = IF at = "beat" THEN "RUNNING" ELSE IF at = "end" THEN "DONE" ELSE "CANCELLED"
      BY <1>2, <1>9, <2>2 DEF Written, RunStates
    <3>2. /\ Steady /\ runs' \in [Runs -> RunRecords] /\ runs'[r].state = s
          /\ \A q \in Runs : q # r => runs'[q].state = runs[q].state
          /\ \A q \in Runs : runs'[q].issue = runs[q].issue
      <4>1. s \in RunStates
        BY <3>1
      <4>2. s \in RunStates \ {"none"} /\ runs' = [runs EXCEPT ![r].state = s]
        BY <3>1
      <4>3. /\ Steady /\ runs' \in [Runs -> RunRecords] /\ runs'[r].state = s
            /\ \A q \in Runs : q # r => runs'[q].state = runs[q].state
        BY <1>1, <4>2, RunningStep
      <4>4. \A q \in Runs : runs'[q].issue = runs[q].issue
        BY <1>1, <4>1, <4>2, RunStep
      <4> QED BY <4>3, <4>4
    <3> QED BY <2>2, <3>1, <3>2
  <2>3. CASE how \in {"put", "all"} /\ at \notin {"beat", "end", "cancel"}
    <3>1. runs' = runs
      BY <1>2, <1>9, <2>3 DEF Written
    <3> QED BY <2>1, <2>3, <3>1
  <2> QED BY <1>2, <2>1, <2>2, <2>3
<1>11. /\ events \subseteq events'
       /\ \A e \in events' \ events : \E verb \in Verbs :
             /\ e = Event(verb, r) /\ how = "all"
             /\ verb = "run.ended" => at \in {"end", "cancel"}
             /\ verb = "claim.released" => at = "tell"
  <2>1. CASE how # "all"
    BY <1>2, <2>1
  <2>2. CASE how = "all"
    <3>1. ASSUME NEW e \in Told(at, r), e \notin events
          PROVE  /\ at \in DOMAIN Tells /\ e = Event(Tells[at], r)
      BY <3>1 DEF Told
    <3>2. \A s \in DOMAIN Tells :
             /\ Tells[s] \in Verbs
             /\ Tells[s] = "run.ended" => s \in {"end", "cancel"}
             /\ Tells[s] = "claim.released" => s = "tell"
      BY DEF Tells, Verbs
    <3>3. events \subseteq Told(at, r)
      BY DEF Told
    <3> QED BY <1>2, <2>2, <3>1, <3>2, <3>3
  <2> QED BY <2>1, <2>2
<1>12. HistoryGrows /\ events' \subseteq Events
  <2>1. ASSUME NEW e \in events' \ events
        PROVE  /\ Known(e.run) /\ e.issue = runs[e.run].issue /\ e \in Events
               /\ e.verb = "claim.released" => Ended(e.run)
    <3>1. PICK verb \in Verbs : e = Event(verb, r) /\ (verb = "claim.released" => at = "tell")
      BY <1>11, <2>1
    <3> QED BY <1>1, <1>8, <3>1, EventType
  <2> QED BY <1>1, <1>2, <1>6, <1>7, <1>11, <2>1 DEF HistoryGrows, TypeOK
<1>13. HandlersGoOn
  BY <1>0, <1>1, <1>2, <1>3 DEF HandlersGoOn
<1>14. \A q \in Runs : q # r => (HasEnded(q)' => HasEnded(q))
  <2>1. ASSUME NEW q \in Runs, q # r, HasEnded(q)' PROVE HasEnded(q)
    <3>1. Event("run.ended", q)' = Event("run.ended", q) /\ Event("run.ended", q).run = q
          /\ \A verb \in Verbs : Event(verb, r).run = r
      BY <1>10, <2>1 DEF Event
    <3> QED BY <1>10, <1>11, <2>1, <3>1 DEF HasEnded, Ended
  <2> QED BY <2>1
<1>15. HasEnded(r)' /\ ~HasEnded(r) =>
          at \in {"end", "cancel"} /\ how \in {"put", "all"} /\ runs'[r].state # "RUNNING"
  <2>1. Event("run.ended", r)' = Event("run.ended", r)
        /\ \A verb \in Verbs : Event(verb, r) = Event("run.ended", r) => verb = "run.ended"
    BY <1>1, <1>10 DEF Event
  <2>2. CASE Ended(r)' /\ ~Ended(r)
    BY <1>10, <1>11, <2>1, <2>2 DEF Ended
  <2> QED BY <1>10, <2>2 DEF HasEnded
<1>16. runs'[r].state = "RUNNING" /\ runs[r].state # "RUNNING" => r \in revived'
  BY <1>6, <1>8, <1>10
<1>17. RunsGoOn
  <2>1. HasEnded(r)' /\ ~HasEnded(r) => r \in exposed'
    BY <1>2, <1>15
  <2>2. \A d \in Clients : handlers'[d].at = "beat" => handlers'[d] = handlers[d]
    BY <1>3
  <2> QED BY <1>6, <1>10, <1>14, <1>15, <1>16, <2>1, <2>2 DEF RunsGoOn
<1>18. RowsGoOn /\ rows' \in Seq([at: Writing, run: Runs, expect: RunStates])
  <2>1. CASE rows' = rows
    BY <1>1, <2>1, KeptRows DEF TypeOK
  <2>2. CASE how \in {"left", "put"}
    <3>1. PICK row : row = [at |-> at, run |-> r, expect |-> runs'[r].state]
      OBVIOUS
    <3>2. row \in [at: Writing, run: Runs, expect: RunStates]
      BY <1>1, <1>5, <1>10, <2>2, <3>1 DEF RunRecords
    <3>3. PICK R : R = [at: Writing, run: Runs, expect: RunStates]
      OBVIOUS
    <3>4. rows \in Seq(R) /\ row \in R /\ rows' = Append(rows, row)
      BY <1>1, <1>2, <2>2, <3>1, <3>2, <3>3 DEF TypeOK
    <3>5. /\ rows' \in Seq(R)
          /\ \A n \in DOMAIN rows' : rows'[n] = row \/ \E m \in DOMAIN rows : rows'[n] = rows[m]
      BY <3>4
    <3>6. row.at = at /\ row.run = r /\ row.expect = runs'[r].state
      BY <3>1
    <3>7. at \in {"end", "cancel"} => r \in exposed'
      BY <1>2, <2>2
    <3>8. at = "beat" /\ row.expect # "RUNNING" => r \in revived'
      BY <1>6, <1>8, <1>10, <3>6
    <3> QED BY <1>1, <1>8, <3>3, <3>5, <3>6, <3>7, <3>8 DEF RowsGoOn
  <2> QED BY <1>2, <2>1, <2>2
<1>19. TypeOK'
  BY <1>1, <1>2, <1>3, <1>4, <1>6, <1>7, <1>10, <1>12, <1>18 DEF TypeOK
<1> QED BY <1>1, <1>2, <1>10, <1>12, <1>13, <1>17, <1>18, <1>19, TableSteps DEF Ordinary

LEMMA CrashInv ==
    ASSUME ClaimInv, Crash
    PROVE  TypeOK' /\ Ordinary /\ Sweeping'
<1>1. TypeOK /\ Named
  BY DEF ClaimInv
<1>2. /\ mode' = "down" /\ expired' = {}
      /\ exposed' = exposed \cup {handlers[c].run :
                       c \in {d \in Clients : handlers[d].at \in {"record", "ended"}}}
      /\ handlers' = [c \in Clients |-> Free]
      /\ UNCHANGED <<issues, asked, runs, claims, rows, events, moves, revived>>
  BY DEF Crash, files
<1>3. budget' \in [moves: 0..MaxMoves, throws: 0..MaxThrows, crashes: 0..MaxCrashes]
  BY <1>1, BudgetStep DEF Crash
<1>4. HistoryGrows /\ exposed' \subseteq Runs
  BY <1>1, <1>2, BusyRuns DEF HistoryGrows, Named, TypeOK
<1>5. HandlersGoOn /\ handlers' \in [Clients -> Handlers]
  BY <1>2 DEF HandlersGoOn, Free, Handlers, Stages
<1>6. TypeOK'
  BY <1>1, <1>2, <1>3, <1>4, <1>5 DEF TypeOK
<1>7. Sweeping'
  BY <1>2 DEF Sweeping, Free
<1> QED BY <1>1, <1>2, <1>4, <1>5, <1>6, <1>7, KeptRuns, KeptEnds, KeptRows, TableSteps DEF Ordinary

LEMMA ReplayRowInv ==
    ASSUME ClaimInv, ReplayRow
    PROVE  TypeOK' /\ Ordinary /\ Sweeping'
<1>0. PICK row, r, at : row = Head(rows) /\ r = row.run /\ at = row.at
  OBVIOUS
<1>1. /\ TypeOK /\ Named /\ Sweeping
      /\ \A c \in Clients : handlers[c].at = "free"
  BY DEF ClaimInv, ReplayRow, Sweeping
<1>2. /\ rows # <<>> /\ rows' = Tail(rows)
      /\ \/ runs' = Written(at, r) /\ events' = Told(at, r)
         \/ UNCHANGED <<runs, events>>
      /\ at \in DOMAIN Put /\ ~UNCHANGED <<runs, events>> => runs[r].state = row.expect
      /\ UNCHANGED <<issues, asked, claims, handlers, mode, expired, moves, exposed, revived,
                     budget>>
  BY <1>0 DEF ReplayRow
<1>3. PICK R : R = [at: Writing, run: Runs, expect: RunStates]
  OBVIOUS
<1>4. rows \in Seq(R)
  BY <1>1, <1>3 DEF TypeOK
<1>5. /\ 1 \in DOMAIN rows /\ row = rows[1] /\ row \in R /\ rows' \in Seq(R)
      /\ \A n \in DOMAIN rows' : \E m \in DOMAIN rows : rows'[n] = rows[m]
  <2>1. Len(rows) \in Nat /\ Len(rows) > 0 /\ DOMAIN rows = 1..Len(rows)
    BY <1>2, <1>4
  <2>2. 1 \in DOMAIN rows /\ row = rows[1] /\ row \in R
    BY <1>0, <1>4, <2>1
  <2>3. /\ rows' \in Seq(R) /\ DOMAIN rows' = 1..(Len(rows) - 1)
        /\ \A n \in 1..(Len(rows) - 1) : rows'[n] = rows[n + 1] /\ n + 1 \in 1..Len(rows)
    BY <1>2, <1>4, <2>1
  <2> QED BY <2>1, <2>2, <2>3
<1>6. r \in Runs /\ Known(r) /\ at \in Writing
  BY <1>0, <1>1, <1>3, <1>5 DEF Named, Known
<1>7. /\ at = "tell" => Ended(r)
      /\ at \in {"end", "cancel"} => r \in exposed
      /\ at = "beat" /\ row.expect # "RUNNING" => r \in revived
  BY <1>0, <1>5 DEF ClaimInv, EndsAreTold, Ghosts, Revivals
<1>8. RowsGoOn
  BY <1>5 DEF RowsGoOn
<1>9. Sweeping' /\ HandlersGoOn
  BY <1>1, <1>2 DEF Sweeping, HandlersGoOn
<1>10. CASE UNCHANGED <<runs, events>>
  <2>1. TypeOK'
    BY <1>1, <1>2, <1>3, <1>5, <1>10 DEF TypeOK
  <2> QED BY <1>1, <1>2, <1>8, <1>9, <1>10, <2>1, KeptRuns, KeptEnds, KeptHistory, TableSteps
          DEF Ordinary
<1>11. CASE runs' = Written(at, r) /\ events' = Told(at, r) /\ ~UNCHANGED <<runs, events>>
  <2>1. /\ DOMAIN Put = {"beat", "end", "cancel"}
        /\ Put.beat = "RUNNING" /\ Put.end = "DONE" /\ Put.cancel = "CANCELLED"
        /\ \A s \in {"beat", "end", "cancel"} : Put[s] \in RunStates \ {"none"}
    BY DEF Put, RunStates
  <2>2. /\ Steady /\ runs' \in [Runs -> RunRecords]
        /\ \A q \in Runs : q # r => runs'[q].state = runs[q].state
        /\ \A q \in Runs : runs'[q].issue = runs[q].issue
        /\ at \in {"beat", "end", "cancel"} => runs'[r].state = Put[at]
        /\ at \notin {"beat", "end", "cancel"} => runs'[r].state = runs[r].state
    <3>1. CASE at \in {"beat", "end", "cancel"}
      <4>1. PICK s \in RunStates \ {"none"} : s = Put[at]
        BY <2>1, <3>1
      <4>2. runs' = [runs EXCEPT ![r].state = s]
        BY <1>11, <2>1, <3>1, <4>1 DEF Written
      <4> QED BY <1>1, <1>6, <3>1, <4>1, <4>2, RunningStep, RunStep
    <3>2. CASE at \notin {"beat", "end", "cancel"}
      <4>1. runs' = runs
        BY <1>11, <2>1, <3>2 DEF Written
      <4> QED BY <1>1, <3>2, <4>1 DEF TypeOK, Steady, Known
    <3> QED BY <3>1, <3>2
  <2>3. /\ events \subseteq events'
        /\ \A e \in events' \ events : \E verb \in Verbs :
              /\ e = Event(verb, r)
              /\ verb = "run.ended" => at \in {"end", "cancel"}
              /\ verb = "claim.released" => at = "tell"
    <3>1. ASSUME NEW e \in Told(at, r), e \notin events
          PROVE  at \in DOMAIN Tells /\ e = Event(Tells[at], r)
      BY <3>1 DEF Told
    <3>2. \A s \in DOMAIN Tells :
             /\ Tells[s] \in Verbs
             /\ Tells[s] = "run.ended" => s \in {"end", "cancel"}
             /\ Tells[s] = "claim.released" => s = "tell"
      BY DEF Tells, Verbs
    <3>3. events \subseteq Told(at, r)
      BY DEF Told
    <3> QED BY <1>11, <3>1, <3>2, <3>3
  <2>4. HistoryGrows /\ events' \subseteq Events
    <3>1. ASSUME NEW e \in events' \ events
          PROVE  /\ Known(e.run) /\ e.issue = runs[e.run].issue /\ e \in Events
                 /\ e.verb = "claim.released" => Ended(e.run)
      <4>1. PICK verb \in Verbs : e = Event(verb, r) /\ (verb = "claim.released" => at = "tell")
        BY <2>3, <3>1
      <4> QED BY <1>1, <1>6, <1>7, <4>1, EventType
    <3> QED BY <1>1, <1>2, <2>3, <3>1 DEF HistoryGrows, TypeOK, Named
  <2>5. \A q \in Runs : q # r => (HasEnded(q)' => HasEnded(q))
    <3>1. ASSUME NEW q \in Runs, q # r, HasEnded(q)' PROVE HasEnded(q)
      <4>1. Event("run.ended", q)' = Event("run.ended", q) /\ Event("run.ended", q).run = q
            /\ \A verb \in Verbs : Event(verb, r).run = r
        BY <2>2, <3>1 DEF Event
      <4> QED BY <2>2, <2>3, <3>1, <4>1 DEF HasEnded, Ended
    <3> QED BY <3>1
  <2>6. HasEnded(r)' /\ ~HasEnded(r) => at \in {"end", "cancel"}
    <3>1. Event("run.ended", r)' = Event("run.ended", r)
          /\ \A verb \in Verbs : Event(verb, r) = Event("run.ended", r) => verb = "run.ended"
      BY <1>6, <2>2 DEF Event
    <3>2. CASE Ended(r)' /\ ~Ended(r)
      BY <2>3, <3>1, <3>2 DEF Ended
    <3> QED BY <2>1, <2>2, <3>2 DEF HasEnded
  <2>7. runs'[r].state = "RUNNING" /\ runs[r].state # "RUNNING" => r \in revived
    <3>1. ASSUME runs'[r].state = "RUNNING", runs[r].state # "RUNNING" PROVE at = "beat"
      BY <2>1, <2>2, <3>1
    <3> QED BY <1>2, <1>7, <1>11, <2>1, <3>1
  <2>8. RunsGoOn
    BY <1>1, <1>2, <1>7, <2>1, <2>2, <2>5, <2>6, <2>7 DEF RunsGoOn
  <2>9. TypeOK'
    BY <1>1, <1>2, <1>3, <1>5, <2>2, <2>4 DEF TypeOK
  <2> QED BY <1>1, <1>2, <1>8, <1>9, <2>2, <2>4, <2>8, <2>9, TableSteps DEF Ordinary
<1> QED BY <1>2, <1>10, <1>11

LEMMA RecoverInv ==
    ASSUME ClaimInv, Recover
    PROVE  TypeOK' /\ Ordinary /\ Sweeping'
<1>1. TypeOK /\ Named /\ Sweeping
  BY DEF ClaimInv
<1>2. CASE Start
  <2>1. /\ mode' = "recording" /\ expired' = Expired
        /\ UNCHANGED <<issues, asked, runs, claims, handlers, rows, events, moves, exposed, revived,
                       budget>>
    BY <1>2 DEF Start, files, ghosts
  <2>2. TypeOK' /\ Sweeping'
    BY <1>1, <2>1 DEF TypeOK, Sweeping, Expired
  <2> QED BY <1>1, <2>1, <2>2, KeptFiles, KeptHandlers, TableSteps DEF Ordinary
<1>3. ASSUME NEW i \in Issues, RecordReclaimed(i)
      PROVE  TypeOK' /\ Ordinary /\ Sweeping'
  <2>0. PICK r : r = claims[i].run
    OBVIOUS
  <2>1. /\ Known(r) /\ r \in Runs /\ Log("claim.reclaimed", r)
        /\ UNCHANGED <<issues, asked, runs, claims, handlers, mode, expired, rows, moves, exposed,
                       revived, budget>>
    BY <1>1, <1>3, <2>0 DEF RecordReclaimed, Untold, Sweeping, Named, Known, files
  <2>2. HistoryGrows /\ events' \subseteq Events
    BY <1>1, <2>1, LoggedHistory DEF Verbs
  <2>3. TypeOK' /\ Sweeping'
    BY <1>1, <2>1, <2>2 DEF TypeOK, Sweeping
  <2>4. \A q \in Runs : Ended(q)' => Ended(q)
    BY <1>1, <2>1, ClaimsLogged
  <2> QED BY <1>1, <2>1, <2>2, <2>3, <2>4, KeptRuns, KeptRows, KeptHandlers, TableSteps DEF Ordinary
<1>4. CASE reclaimExpired
  <2>1. /\ mode' = "up" /\ expired' = {}
        /\ claims' = [i \in Issues |-> IF i \in expired THEN NoClaim ELSE claims[i]]
        /\ UNCHANGED <<issues, asked, runs, handlers, rows, events, moves, exposed, revived, budget>>
    BY <1>4 DEF reclaimExpired, files, ghosts
  <2>2. claims' \in [Issues -> Claims] /\ Fewer
    BY <1>1, <2>1, ClaimTypes DEF Fewer, Named, Claims
  <2>3. TypeOK' /\ Sweeping'
    BY <1>1, <2>1, <2>2 DEF TypeOK, Sweeping
  <2> QED BY <1>1, <2>1, <2>2, <2>3, KeptFiles, KeptHandlers DEF Ordinary
<1>5. CASE ReplayRow
  BY <1>5, ReplayRowInv
<1> QED BY <1>2, <1>3, <1>4, <1>5 DEF Recover

-----------------------------------------------------------------------------
(* The two steps that are not ordinary: a claim is taken, and an agent     *)
(* moves an issue under one.                                               *)

LEMMA AcquireInv ==
    ASSUME ClaimInv, NEW c \in Clients, NEW r \in Runs, Acquire(c, r)
    PROVE  TypeOK' /\ Named' /\ ClaimsAreTold' /\ EndsAreTold' /\ Ghosts' /\ Revivals'
<1>0. PICK i, new : i = runs[r].issue /\ new = [run |-> r, owner |-> runs[r].agent, left |-> Lease]
  OBVIOUS
<1>1. TypeOK /\ Named /\ Known(r) /\ r # NoRun /\ i \in Issues /\ runs[r].state = "RUNNING"
      /\ runs[r].agent \in Agents \cup {NoAgent} /\ handlers[c].at = "free"
  BY <1>0, ClaimLeaseAssumption
     DEF ClaimInv, Acquire, Claimable, Known, TypeOK, RunRecords, Awake
<1>2. /\ claims' = [Unexpired EXCEPT ![i] = new]
      /\ handlers' = [handlers EXCEPT ![c] = [at |-> "record", run |-> r]]
      /\ exposed' = IF CancelUnderWay(r) THEN exposed \cup {r} ELSE exposed
      /\ UNCHANGED <<issues, asked, runs, mode, expired, rows, events, moves, revived, budget>>
  BY <1>0 DEF Acquire, files
<1>3. new \in Claims /\ new.run = r /\ new.owner = runs[r].agent
  BY <1>0, <1>1, ClaimLeaseAssumption DEF Claims
<1>4. /\ handlers' \in [Clients -> Handlers]
      /\ handlers'[c].at = "record" /\ handlers'[c].run = r
      /\ \A d \in Clients : d # c => handlers'[d] = handlers[d]
  BY <1>1, <1>2, HandlerSteps DEF Stages
<1>5. /\ claims' \in [Issues -> Claims] /\ claims'[i] = new
      /\ \A j \in Issues : j # i => claims'[j] \in {NoClaim, claims[j]}
  BY <1>1, <1>2, <1>3, TableSteps DEF Unexpired
<1>6. NoClaim.run = NoRun /\ NoClaim.left = 0
  BY DEF NoClaim
<1>7. TypeOK'
  BY <1>1, <1>2, <1>4, <1>5 DEF TypeOK
<1>8. Named'
  <2>1. \A d \in Clients : handlers'[d].at # "free" => Known(handlers'[d].run)
    BY <1>1, <1>4 DEF Named
  <2>2. ASSUME NEW j \in Issues
        PROVE  /\ claims'[j].run = NoRun => claims'[j] = NoClaim
               /\ claims'[j].run # NoRun =>
                     /\ Known(claims'[j].run) /\ runs[claims'[j].run].issue = j
                     /\ claims'[j].owner = runs[claims'[j].run].agent
    BY <1>0, <1>1, <1>3, <1>5, <1>6 DEF Named
  <2>3. \A q \in exposed' : Known(q)
    BY <1>1, <1>2 DEF Named
  <2> QED BY <1>1, <1>2, <2>1, <2>2, <2>3 DEF Named, Known
<1>9. \A q : Recorded(q) => Recorded(q)'
  <2> SUFFICES ASSUME NEW q, Recorded(q) PROVE Recorded(q)'
    OBVIOUS
  <2>1. Event("claim.acquired", q)' = Event("claim.acquired", q)
    BY <1>2 DEF Event
  <2> QED BY <1>1, <1>2, <1>4, <2>1 DEF Recorded
<1>10. Recorded(r)'
  BY <1>4 DEF Recorded
<1>11. ClaimsAreTold'
  <2>1. ASSUME NEW j \in Issues, NEW q, q = claims'[j].run, q # NoRun
        PROVE  Recorded(q)'
    BY <1>3, <1>5, <1>6, <1>9, <1>10, <2>1 DEF ClaimInv, ClaimsAreTold
  <2>2. ASSUME NEW m \in moves'
        PROVE  \E q \in Runs : /\ Known(q)' /\ runs'[q].agent = m.agent
                               /\ runs'[q].issue = m.issue /\ Recorded(q)'
    BY <1>2, <1>9 DEF ClaimInv, ClaimsAreTold, Known
  <2>3. \A j \in Issues : claims'[j].run # NoRun => Recorded(claims[j].run)'
    BY <2>1 DEF Recorded, Event
  <2> QED BY <2>2, <2>3 DEF ClaimsAreTold
<1>12. EndsAreTold'
  BY <1>2, <1>4 DEF ClaimInv, EndsAreTold, Ended, Event
<1>13. Ghosts'
  <2>1. \A j \in Issues : j # i /\ claims'[j].run # NoRun => claims'[j] = claims[j]
    BY <1>5, <1>6
  <2>2. ASSUME NEW j \in Issues, NEW q, q = claims'[j].run, Live(j)', HasEnded(q)
        PROVE  \/ q \in exposed' \cup revived'
               \/ \E d \in Clients : handlers'[d].at = "ended" /\ handlers'[d].run = q
    <3>1. CASE j = i
      BY <1>1, <1>2, <1>3, <1>5, <2>2, <3>1 DEF HasEnded, ClaimInv, Revivals, Known
    <3>2. CASE j # i
      <4>1. claims'[j] = claims[j] /\ Live(j)
        BY <1>6, <2>1, <2>2, <3>2 DEF Live
      <4>2. \/ q \in exposed \cup revived
            \/ \E d \in Clients : handlers[d].at = "ended" /\ handlers[d].run = q
        BY <2>2, <4>1 DEF ClaimInv, Ghosts, GhostsAreExplained
      <4> QED BY <1>1, <1>2, <1>4, <4>2
    <3> QED BY <3>1, <3>2
  <2>3. ASSUME NEW d \in Clients, NEW j \in Issues, handlers'[d].at = "cancel",
               claims'[j].run = handlers'[d].run
        PROVE  handlers'[d].run \in exposed'
    <3>1. handlers'[d] = handlers[d] /\ Known(handlers[d].run) /\ handlers[d].run # NoRun
      BY <1>1, <1>4, <2>3, ClaimLeaseAssumption DEF Named, Known
    <3>2. CASE j = i
      BY <1>2, <1>3, <1>5, <2>3, <3>1, <3>2 DEF CancelUnderWay
    <3>3. CASE j # i
      BY <1>2, <2>1, <2>3, <3>1, <3>3 DEF ClaimInv, Ghosts
    <3> QED BY <3>2, <3>3
  <2>4. GhostsAreExplained'
    BY <1>2, <2>2, KeptEnds DEF GhostsAreExplained
  <2>5. \A n \in DOMAIN rows' : rows'[n].at \in {"end", "cancel"} => rows'[n].run \in exposed'
    BY <1>2 DEF ClaimInv, Ghosts
  <2> QED BY <2>3, <2>4, <2>5 DEF Ghosts
<1>14. Revivals'
  <2>1. \A d \in Clients : handlers'[d].at = "beat" => handlers'[d] = handlers[d]
    BY <1>4
  <2> QED BY <1>2, <2>1, KeptEnds DEF ClaimInv, Revivals
<1> QED BY <1>7, <1>8, <1>11, <1>12, <1>13, <1>14

LEMMA MoveInv ==
    ASSUME ClaimInv, NEW a \in Agents, NEW i \in Issues, NEW to \in Statuses, Move(a, i, to)
    PROVE  TypeOK' /\ Named' /\ ClaimsAreTold' /\ EndsAreTold' /\ Ghosts' /\ Revivals'
<1>1. TypeOK /\ Named
  BY DEF ClaimInv
<1>2. /\ issues' = [issues EXCEPT ![i] = patchStatus(@, to)]
      /\ moves' = moves \cup {[issue |-> i, agent |-> a] : s \in CLAIM_GATED \cap {to}}
      /\ UNCHANGED <<asked, runs, claims, handlers, mode, expired, rows, events, exposed, revived>>
  BY DEF Move
<1>3. budget' \in [moves: 0..MaxMoves, throws: 0..MaxThrows, crashes: 0..MaxCrashes]
  BY <1>1, BudgetStep DEF Move
<1>4. TypeOK'
  <2>1. moves' \subseteq [issue: Issues, agent: Agents]
    BY <1>1, <1>2 DEF TypeOK
  <2>2. issues' \in [Issues -> IssueStates]
    BY <1>1, <1>2, PatchType
  <2> QED BY <1>1, <1>2, <1>3, <2>1, <2>2 DEF TypeOK
<1>5. Named' /\ EndsAreTold' /\ Ghosts' /\ Revivals'
  BY <1>2 DEF ClaimInv, Revivals, HasEnded, Named, Known, EndsAreTold, Ended, Event, Ghosts, GhostsAreExplained, Live
<1>6. \A q : Recorded(q) => Recorded(q)'
  BY <1>2 DEF Recorded, Event
<1>7. \A j \in Issues : claims'[j].run # NoRun => Recorded(claims[j].run)'
  BY <1>2 DEF ClaimInv, ClaimsAreTold, Recorded, Event
<1>8. ASSUME NEW m \in moves'
      PROVE  \E r \in Runs : /\ Known(r)' /\ runs'[r].agent = m.agent
                             /\ runs'[r].issue = m.issue /\ Recorded(r)'
  <2>1. CASE m \in moves
    BY <1>2, <1>6, <2>1 DEF ClaimInv, ClaimsAreTold, Known
  <2>2. CASE m \notin moves
    <3>1. m.issue = i /\ m.agent = a /\ to \in CLAIM_GATED
      BY <1>2, <2>2
    <3>2. PICK r : r = claims[i].run
      OBVIOUS
    <3>3. r # NoRun /\ claims[i].owner = a
      BY <3>1, <3>2 DEF Move, holdsClaimOn, Live
    <3>4. Known(r) /\ runs[r].issue = i /\ runs[r].agent = a /\ Recorded(r)
      BY <1>1, <3>2, <3>3 DEF Named, ClaimInv, ClaimsAreTold
    <3> QED BY <1>2, <1>6, <3>1, <3>4 DEF Known
  <2> QED BY <2>1, <2>2
<1>9. ClaimsAreTold'
  BY <1>7, <1>8 DEF ClaimsAreTold
<1> QED BY <1>4, <1>5, <1>9

LEMMA ClaimInit == Init => ClaimInv
<1> SUFFICES ASSUME Init PROVE ClaimInv
  OBVIOUS
<1>1. (CHOOSE i \in Issues : TRUE) \in Issues
  BY ClaimLeaseAssumption
<1>2. \A i \in Issues : claims[i] = NoClaim /\ NoClaim.run = NoRun /\ NoClaim \in Claims
  BY ClaimLeaseAssumption DEF Init, NoClaim, Claims
<1>3. issues \in [Issues -> IssueStates] /\ runs \in [Runs -> RunRecords]
  BY <1>1 DEF Init, IssueStates, Statuses, RunRecords, RunStates
<1>4. claims \in [Issues -> Claims] /\ handlers \in [Clients -> Handlers]
  BY <1>2 DEF Init, Free, Handlers, Stages
<1>5. budget \in [moves: 0..MaxMoves, throws: 0..MaxThrows, crashes: 0..MaxCrashes]
  BY ClaimLeaseAssumption DEF Init
<1>6. TypeOK
  BY <1>3, <1>4, <1>5 DEF Init, TypeOK
<1>7. Named /\ Sweeping /\ ClaimsAreTold /\ EndsAreTold /\ Ghosts /\ Revivals
  BY <1>2 DEF Init, Named, Sweeping, ClaimsAreTold, EndsAreTold, Ghosts, GhostsAreExplained, Revivals,
              Live, Free
<1> QED BY <1>6, <1>7 DEF ClaimInv

(* Requests run while the server is up, when nothing is being swept.       *)
LEMMA SweepingUp ==
    ASSUME Sweeping, mode = "up", UNCHANGED <<mode, expired>>
    PROVE  Sweeping'
BY DEF Sweeping

LEMMA ClaimNext == ClaimInv /\ [Next]_vars => ClaimInv'
<1> SUFFICES ASSUME ClaimInv, [Next]_vars PROVE ClaimInv'
  OBVIOUS
<1>1. ASSUME TypeOK', Ordinary, Sweeping' PROVE ClaimInv'
  BY <1>1, OrdinaryStep DEF ClaimInv
<1>2. ASSUME TypeOK', Ordinary, mode = "up", UNCHANGED <<mode, expired>> PROVE ClaimInv'
  BY <1>1, <1>2, SweepingUp DEF ClaimInv
<1>3. CASE UNCHANGED vars
  <2>1. TypeOK' /\ Sweeping'
    BY <1>3 DEF vars, ClaimInv, TypeOK, Sweeping
  <2>2. Ordinary
    BY <1>3, KeptFiles, KeptHandlers, TableSteps DEF vars, ClaimInv, Ordinary
  <2> QED BY <1>1, <2>1, <2>2
<1>4. CASE \E s \in Sessions : StartRun(s[1], s[2], s[3])
  <2>1. PICK s \in Sessions : StartRun(s[1], s[2], s[3])
    BY <1>4
  <2>2. s = <<s[1], s[2], s[3]>>
    BY <2>1, ClaimLeaseAssumption
  <2>3. TypeOK' /\ Ordinary
    BY <2>1, <2>2, StartRunInv
  <2> QED BY <1>2, <2>1, <2>3 DEF StartRun
<1>5. ASSUME NEW c \in Clients, NEW r \in Runs, Heartbeat(c, r) \/ EndRun(c, r)
      PROVE  ClaimInv'
  BY <1>2, <1>5, HeartbeatInv DEF Heartbeat, EndRun, Awake
<1>6. ASSUME NEW c \in Clients, NEW r \in Runs, Acquire(c, r)
      PROVE  ClaimInv'
  <2>1. Sweeping'
    BY <1>6, SweepingUp DEF ClaimInv, Acquire, Awake
  <2> QED BY <1>6, <2>1, AcquireInv DEF ClaimInv
<1>7. ASSUME NEW r \in Runs, ClaimAgain(r) PROVE ClaimInv'
  BY <1>2, <1>7, ClaimAgainInv DEF ClaimAgain
<1>8. ASSUME NEW c \in Clients, NEW i \in Issues, Release(c, i) PROVE ClaimInv'
  BY <1>2, <1>8, ReleaseInv DEF Release, Awake
<1>9. ASSUME NEW a \in Agents, NEW i \in Issues, NEW to \in Statuses, Move(a, i, to)
      PROVE  ClaimInv'
  <2>1. Sweeping'
    BY <1>9, SweepingUp DEF ClaimInv, Move
  <2> QED BY <1>9, <2>1, MoveInv DEF ClaimInv
<1>10. ASSUME NEW c \in Clients, Continue(c) \/ \E how : Fail(c, how) PROVE ClaimInv'
  <2>1. mode = "up" /\ UNCHANGED <<mode, expired>>
    BY <1>10 DEF Continue, Fail, HeartbeatWrite, Renew, EndRunWrite, releaseRun,
                 RecordAcquired, CancelWrite, RecordReleased, Awake
  <2>2. TypeOK' /\ Ordinary
    BY <1>10, HeartbeatWriteInv, RenewInv, EndRunWriteInv, releaseRunInv, RecordInv, FailInv
       DEF Continue
  <2> QED BY <1>2, <2>1, <2>2
<1>11. ASSUME NEW i \in Issues,
              (\E to \in Statuses : MoveByPerson(i, to)) \/ Ask(i) \/ Resolve(i)
       PROVE  ClaimInv'
  BY <1>2, <1>11, PersonInv DEF MoveByPerson, Ask, Resolve
<1>12. CASE Tick \/ Crash \/ Recover
  BY <1>1, <1>12, TickInv, CrashInv, RecoverInv
<1> QED BY <1>3, <1>4, <1>5, <1>6, <1>7, <1>8, <1>9, <1>10, <1>11, <1>12 DEF Next

-----------------------------------------------------------------------------
(* Runs, claims, requests and the log keep their invariant.                *)
THEOREM ClaimInvariant == Spec => []ClaimInv
BY ClaimInit, ClaimNext, PTL DEF Spec

THEOREM TypeCorrect == Spec => []TypeOK
BY ClaimInvariant, PTL DEF ClaimInv

(* Whatever failures, crashes and overtaking requests do, a claim in force *)
(* is on the timeline, what an agent moved it had claimed under a run of   *)
(* its own, and a claim released had its run ended (ADR-004, AC19, AC20).  *)
THEOREM TimelineStaysTrue == Spec => []TimelineIsTrue
<1>1. ClaimInv => TimelineIsTrue
  BY DEF ClaimInv, ClaimsAreTold, EndsAreTold, TimelineIsTrue, Live
<1> QED BY <1>1, ClaimInvariant, PTL

(* A claim in force after the end of its run has one of few causes: the    *)
(* request that ended it is about to drop it, or was cut off by a crash or *)
(* an exception between the two stores; the claim was taken while its run  *)
(* was being cancelled; or a late heartbeat put RUNNING back               *)
(* (http.ts:1399-1410, run.ts:330).                                        *)
THEOREM GhostsStayExplained == Spec => []GhostsAreExplained
<1>1. ClaimInv => GhostsAreExplained
  BY DEF ClaimInv, Ghosts
<1> QED BY <1>1, ClaimInvariant, PTL

-----------------------------------------------------------------------------
(* ClaimsDoNotVanish, by what a step does to the claim of an issue.        *)

Vanishing(i) ==
    /\ Live(i) /\ claims'[i].run # claims[i].run =>
          /\ claims'[i] = NoClaim
          /\ \/ HasEnded(claims[i].run)
             \/ \E c \in Clients : /\ handlers'[c].at = "cancel"
                                   /\ handlers'[c].run = claims[i].run
    /\ mode = "recording" /\ claims'[i] # claims[i] /\ claims'[i] = NoClaim =>
          Event("claim.reclaimed", claims[i].run) \in events

LEMMA NothingVanishes ==
    ASSUME ClaimInv, NEW i \in Issues,
           claims'[i].run = claims[i].run \/ ~Live(i),
           claims'[i] = claims[i] \/ mode # "recording" \/ claims'[i] # NoClaim
    PROVE  Vanishing(i)
BY DEF Vanishing

LEMMA VanishingNext ==
    ASSUME ClaimInv, [Next]_vars, NEW i \in Issues
    PROVE  Vanishing(i)
<1>1. TypeOK /\ Named /\ Sweeping /\ EndsAreTold
  BY DEF ClaimInv
<1>2. claims[i] \in Claims /\ NoClaim.left = 0 /\ NoClaim.run = NoRun
      /\ claims[i].left \in Nat /\ (claims[i].run = NoRun => claims[i] = NoClaim)
  BY <1>1, ClaimTypes DEF Named, Claims
<1>3. CASE claims'[i] = claims[i]
  BY <1>3, NothingVanishes
<1>5. Unexpired[i] = IF claims[i].left = 0 THEN NoClaim ELSE claims[i]
  BY DEF Unexpired
<1>6. ASSUME NEW c \in Clients, Renew(c)
      PROVE  Vanishing(i)
  <2>1. mode = "up" /\ claims' = Renewed(handlers[c].run, claims)
    BY <1>6 DEF Renew, Awake
  <2>2. \/ claims'[i] = claims[i]
        \/ claims'[i] = [claims[i] EXCEPT !.left = Lease]
    BY <2>1 DEF Renewed
  <2>3. claims'[i].run = claims[i].run
    BY <1>2, <2>2, ClaimLeaseAssumption DEF Claims
  <2> QED BY <2>1, <2>3, NothingVanishes
<1>7. ASSUME NEW c \in Clients, releaseRun(c)
      PROVE  Vanishing(i)
  <2>1. mode = "up" /\ handlers[c].at = "ended"
        /\ claims' = [j \in Issues |->
                        IF claims[j].run = handlers[c].run THEN NoClaim ELSE claims[j]]
    BY <1>7 DEF releaseRun, Awake
  <2>2. CASE claims[i].run = handlers[c].run
    <3>1. HasEnded(handlers[c].run)
      BY <1>1, <2>1 DEF EndsAreTold, HasEnded
    <3> QED BY <2>1, <2>2, <3>1 DEF Vanishing
  <2>3. CASE claims[i].run # handlers[c].run
    BY <1>3, <2>1, <2>3
  <2> QED BY <2>2, <2>3
<1>8. ASSUME NEW c \in Clients, NEW r \in Runs, Acquire(c, r)
      PROVE  Vanishing(i)
  <2>1. /\ mode = "up" /\ Unexpired[runs[r].issue] = NoClaim /\ runs[r].issue \in Issues
        /\ claims' = [Unexpired EXCEPT ![runs[r].issue] =
                         [run |-> r, owner |-> runs[r].agent, left |-> Lease]]
    BY <1>1, <1>8 DEF Acquire, Awake, TypeOK, RunRecords
  <2>2. CASE i = runs[r].issue
    BY <1>2, <1>5, <2>1, <2>2, NothingVanishes DEF Live
  <2>3. CASE i # runs[r].issue
    BY <1>2, <1>5, <2>1, <2>3, NothingVanishes DEF Live, Unexpired
  <2> QED BY <2>2, <2>3
<1>9. ASSUME NEW r \in Runs, ClaimAgain(r)
      PROVE  Vanishing(i)
  <2>1. mode = "up" /\ (claims' = Unexpired \/ claims' = Renewed(r, Unexpired))
    BY <1>9 DEF ClaimAgain
  <2>2. \/ claims'[i] = Unexpired[i]
        \/ Unexpired[i].left > 0 /\ claims'[i] = [Unexpired[i] EXCEPT !.left = Lease]
    BY <2>1 DEF Renewed
  <2>3. Live(i) => claims'[i].run = claims[i].run
    BY <1>2, <1>5, <2>2, ClaimLeaseAssumption DEF Live, Claims
  <2> QED BY <2>1, <2>3, NothingVanishes
<1>10. ASSUME NEW c \in Clients, NEW j \in Issues, Release(c, j)
       PROVE  Vanishing(i)
  <2>0. PICK r : r = claims[j].run
    OBVIOUS
  <2>1. /\ mode = "up" /\ Live(j) /\ claims' = [claims EXCEPT ![j] = NoClaim]
        /\ handlers' = IF runs[r].state = "RUNNING"
                       THEN [handlers EXCEPT ![c] = [at |-> "cancel", run |-> r]]
                       ELSE handlers
    BY <1>10, <2>0 DEF Release, Awake
  <2>2. CASE i # j
    BY <1>1, <1>3, <2>1, <2>2 DEF TypeOK
  <2>3. CASE i = j
    <3>1. claims'[i] = NoClaim /\ Known(r) /\ r \in Runs /\ runs[r].state \in RunStates
      BY <1>1, <2>0, <2>1, <2>3 DEF TypeOK, RunRecords, Named, Live, Known
    <3>2. CASE runs[r].state = "RUNNING"
      <4>1. handlers'[c].at = "cancel" /\ handlers'[c].run = r
        BY <1>1, <2>1, <3>1, <3>2, HandlerSteps DEF Stages
      <4> QED BY <2>0, <2>1, <2>3, <3>1, <4>1 DEF Vanishing
    <3>3. CASE runs[r].state # "RUNNING"
      <4>1. HasEnded(r)
        BY <3>1, <3>3 DEF HasEnded, Known, RunStates
      <4> QED BY <2>0, <2>1, <2>3, <3>1, <4>1 DEF Vanishing
    <3> QED BY <3>2, <3>3
  <2> QED BY <2>2, <2>3
<1>11. CASE Tick
  <2>1. claims'[i] = IF claims[i].left > 0 THEN [claims[i] EXCEPT !.left = @ - 1] ELSE claims[i]
    BY <1>11 DEF Tick
  <2>2. claims'[i] = claims[i] \/ (claims'[i].run = claims[i].run /\ claims[i].run # NoRun)
    BY <1>2, <2>1 DEF Claims
  <2> QED BY <1>2, <1>3, <2>2, NothingVanishes
<1>12. CASE reclaimExpired
  <2>1. /\ Untold = {}
        /\ claims' = [j \in Issues |-> IF j \in expired THEN NoClaim ELSE claims[j]]
    BY <1>12 DEF reclaimExpired
  <2>2. CASE i \in expired
    <3>1. Event("claim.reclaimed", claims[i].run) \in events /\ ~Live(i)
      BY <1>1, <2>1, <2>2 DEF Untold, Sweeping, Live
    <3> QED BY <3>1 DEF Vanishing
  <2>3. CASE i \notin expired
    BY <1>3, <2>1, <2>3
  <2> QED BY <2>2, <2>3
<1>13. CASE UNCHANGED claims
  BY <1>3, <1>13
<1> QED
  BY <1>6, <1>7, <1>8, <1>9, <1>10, <1>11, <1>12, <1>13
     DEF Next, vars, StartRun, Heartbeat, EndRun, Move, Continue, HeartbeatWrite, EndRunWrite,
         RecordAcquired, CancelWrite, RecordReleased, Fail, MoveByPerson, Ask, Resolve, Crash,
         Recover, Start, RecordReclaimed, ReplayRow

(* A live claim goes away only after the end of its run, or because a      *)
(* person released it and is about to cancel the run; nobody takes it from *)
(* its owner, and start-up drops no claim it has not told of (ADR-004 2,   *)
(* http.ts:156-164).                                                       *)
THEOREM ClaimsAreKept == Spec => ClaimsDoNotVanish
<1>1. ClaimInv /\ [Next]_vars => [\A i \in Issues : Vanishing(i)]_vars
  BY VanishingNext
<1> QED BY <1>1, ClaimInvariant, PTL DEF Spec, ClaimsDoNotVanish, Vanishing
=============================================================================
