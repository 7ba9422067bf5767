------------------------------- MODULE Sprints -------------------------------
(***************************************************************************)
(* domain/sprint.ts: sprints are created, started, closed with their open  *)
(* work carried somewhere, and deleted with their issues released; and     *)
(* update.ts, where an issue is put into one.  Closing and deleting write  *)
(* the issues one file at a time, then the sprint.                         *)
(*                                                                         *)
(* As in Ordering, a request checks the rows and patches a file, and its   *)
(* write is a later step that fails if the file has changed in between.    *)
(*                                                                         *)
(* X_Y is X with the plausible mistake Y; no action uses it.               *)
(***************************************************************************)
EXTENDS Integers, FiniteSets, FiniteSetsExt

CONSTANTS
    Uids,      \* bound: issues, in the order of their keys
    Ids,       \* bound: sprint numbers
    Clients,   \* bound: requests in flight at one time
    None       \* no sprint, no file

VARIABLES
    issues,      \* the issue files
    sprints,     \* the sprint files, by what they say of their status
    handlers,    \* the requests in flight
    (* history *)
    contested,   \* were there ever two active sprints, or two starts in flight?
    late         \* issues that entered a sprint as it was closed or deleted, or reopened in
                 \* one; or were left behind before

history == <<contested, late>>

SPRINT_STATUSES == {"PLANNED", "ACTIVE", "CLOSED"}
Free == [op |-> "free"]

Exists(s) == sprints[s] # None
Active == {s \in Ids : sprints[s] = "ACTIVE"}
Held(s) == {u \in Uids : issues[u] # None /\ issues[u].sprint = s}
SETTLED == {"DONE", "CANCELLED"}
Unfinished(s) == {u \in Held(s) : issues[u].status \notin SETTLED}

Busy(c) == handlers[c].op # "free"
Goto(c, h) == handlers' = [handlers EXCEPT ![c] = h]
Finish(c) == Goto(c, Free)
Accept(c, h) == ~Busy(c) /\ Goto(c, h) /\ UNCHANGED <<issues, sprints, late>>

(* The sprint's file, as it is once its issues have been dealt with.       *)
Ready(h) == [h EXCEPT !.from = IF h.todo = {} THEN sprints[h.sprint] ELSE None]

(* Is a request about to write that sprint closed or away?                 *)
Ending(s) == \E c \in Clients : handlers[c].op \in {"close", "deleteSprint"} /\ handlers[c].sprint = s
Enter(u, s) ==
    late' = IF s # None /\ (~Exists(s) \/ sprints[s] = "CLOSED" \/ Ending(s))
            THEN late \cup {u} ELSE late \ {u}

-----------------------------------------------------------------------------
(* The numbers of deleted sprints are not remembered.                      *)
allocateId == 1 + Max({0} \cup {s \in Ids : Exists(s)})

createSprint(c) ==
    /\ allocateId \in Ids
    /\ Accept(c, [op |-> "createSprint", sprint |-> allocateId])
    /\ UNCHANGED contested

CreateWrite(c) ==
    LET h == handlers[c] IN
    /\ h.op = "createSprint"
    /\ sprints' = IF Exists(h.sprint) THEN sprints ELSE [sprints EXCEPT ![h.sprint] = "PLANNED"]
    /\ Finish(c)
    /\ UNCHANGED <<issues, history>>

(* One sprint of a project is active; while a merge has left two, none is  *)
(* started or closed.                                                      *)
startSprint(c, s) ==
    /\ sprints[s] = "PLANNED" /\ Active = {}
    /\ Accept(c, [op |-> "start", sprint |-> s, from |-> sprints[s]])
    /\ contested' = (contested \/ \E d \in Clients : handlers[d].op = "start")

(* The open work goes to another sprint that takes it, or to the backlog.  *)
closeSprint(c, s, to) ==
    /\ Active = {s}
    /\ to # None => to # s /\ Exists(to) /\ sprints[to] # "CLOSED"
    /\ Accept(c, Ready([op |-> "close", sprint |-> s, to |-> to, todo |-> Unfinished(s),
                        from |-> None]))
    /\ UNCHANGED contested

deleteSprint(c, s) ==
    /\ sprints[s] = "PLANNED"
    /\ Accept(c, Ready([op |-> "deleteSprint", sprint |-> s, to |-> None, todo |-> Held(s),
                        from |-> None]))
    /\ UNCHANGED contested

MoveOut_Stops(c) ==
    LET h == handlers[c]
        u == Min(h.todo)
    IN /\ h.op \in {"close", "deleteSprint"} /\ h.todo # {}
       /\ IF issues[u] = None \/ issues[u].sprint = None
          THEN UNCHANGED <<issues, late>> /\ Goto(c, Ready([h EXCEPT !.todo = {}]))
          ELSE /\ issues' = [issues EXCEPT ![u].sprint = h.to]
               /\ Enter(u, h.to)
               /\ Goto(c, Ready([h EXCEPT !.todo = @ \ {u}]))
       /\ UNCHANGED <<sprints, contested>>

(* The listed issues, in the order of their keys.  One that has gone, or   *)
(* is in no sprint by now, is passed over; one that is in another is moved *)
(* all the same.                                                           *)
MoveOut(c) ==
    LET h == handlers[c]
        u == Min(h.todo)
        rest == [h EXCEPT !.todo = @ \ {u}]
    IN /\ h.op \in {"close", "deleteSprint"} /\ h.todo # {}
       /\ IF issues[u] = None \/ issues[u].sprint = None THEN UNCHANGED <<issues, late>>
          ELSE /\ issues' = [issues EXCEPT ![u].sprint = h.to]
               /\ Enter(u, h.to)
       /\ Goto(c, Ready(rest))
       /\ UNCHANGED <<sprints, contested>>

(* The sprint's own write: started, closed or gone.                        *)
WriteStatus(c) ==
    LET h == handlers[c]
        status == CASE h.op = "start" -> "ACTIVE"
                    [] h.op = "close" -> "CLOSED"
                    [] OTHER -> None
    IN /\ h.op \in {"start", "close", "deleteSprint"}
       /\ h.op # "start" => h.todo = {}
       /\ h.from # None /\ sprints[h.sprint] = h.from
       /\ sprints' = [sprints EXCEPT ![h.sprint] = status]
       /\ Finish(c)
       /\ UNCHANGED <<issues, history>>

(* An issue is put into a sprint that takes work, or back in the backlog.  *)
updateIssue(c, u, s) ==
    /\ issues[u] # None /\ issues[u].sprint # s
    /\ s # None => Exists(s) /\ sprints[s] # "CLOSED"
    /\ Accept(c, [op |-> "assign", uid |-> u, to |-> s, from |-> issues[u]])
    /\ UNCHANGED contested

AssignWrite(c) ==
    LET h == handlers[c] IN
    /\ h.op = "assign" /\ issues[h.uid] = h.from
    /\ issues' = [issues EXCEPT ![h.uid].sprint = h.to]
    /\ Enter(h.uid, h.to)
    /\ Finish(c)
    /\ UNCHANGED <<sprints, contested>>

(* A status moves; IssueTree has the steps of it.                          *)
transitionIssue(u, status) ==
    /\ issues[u] # None /\ issues[u].status # status
    /\ issues' = [issues EXCEPT ![u].status = status]
    /\ Enter(u, issues[u].sprint)
    /\ UNCHANGED <<sprints, handlers, contested>>

(* A file has gone, or somebody else has just written it, or a write fails. *)
GiveUp(c) ==
    /\ handlers[c].op \in {"createSprint", "start", "close", "deleteSprint", "assign"}
    /\ Finish(c)
    /\ UNCHANGED <<issues, sprints, history>>

-----------------------------------------------------------------------------
(* Properties.                                                             *)

(* A project has one active sprint, unless a merge brought a second one or *)
(* two were being started at once (r05b-sprint-start-close-carryover.md).  *)
OneActiveSprint == contested \/ Cardinality(Active) <= 1

(* An issue that a sprint holds although it is gone, or is closed and the  *)
(* work is not done.                                                       *)
LeftBehind(u) ==
    LET s == issues[u].sprint
    IN /\ issues[u] # None /\ s # None
       /\ ~Exists(s) \/ (sprints[s] = "CLOSED" /\ issues[u].status \notin SETTLED)

(* No work is left behind in a sprint that is closed or gone, however far  *)
(* a close or a deletion got, unless it was put there meanwhile, or a      *)
(* merge had left it there (sprint.ts:304-305, 604-606).                   *)
NoWorkIsLeftBehind == \A u \in Uids \ late : ~LeftBehind(u)
=============================================================================
