-------------------------------- MODULE Window --------------------------------
(***************************************************************************)
(* One browser window on the board (web/app.js): what it loads, what it    *)
(* shows, and how the event stream, a sign-in that ends and answers that   *)
(* come late or never change that.                                         *)
(*                                                                         *)
(* An async function is a task: the calls it has still to make, the first  *)
(* of which is in flight.  The window handles one answer at a time; tasks  *)
(* overlap, and the answers of two of them come in any order.  The board   *)
(* is the number of its last change, and a file the number of the change   *)
(* that wrote it, which stands for its ETag.                               *)
(***************************************************************************)
EXTENDS Stream

CONSTANTS
    Issues,     \* the issues of the board
    Panels,     \* bound: what an event reloads beside the issues: integrity, git
    Scenarios   \* the states a behaviour may start from, with what may happen in it and
                \* how many tasks there may be at a time: an event waits for room

VARIABLES
    files,     \* the server: the change that wrote each issue; None when it is gone
    session,   \* is this browser signed in?
    page,      \* "login" or "board"; "none" until the window knows which
    tab,       \* "board" or "backlog"
    shows,     \* of each view, the board it was loaded from
    detail,    \* the issue whose detail is open
    timeline,  \* whose activity is listed, and as of which change
    assign,    \* the pickers of the detail: key, etag, the version painted, a save under way
    tasks,
    (* history and bounds *)
    stale,     \* views whose last load failed or was overtaken by an older one
    unheard,   \* a source was refused, and the answer that says why did not come
    seen,      \* the versions of issues the window has put before the person
    may        \* what is left of the scenario's budget

shown == <<page, tab, shows, detail, timeline, assign>>
windowHistory == <<stale, unheard, seen>>
windowVars == <<streamVars, files, session, shown, tasks, windowHistory, may>>

Views == {"issues", "board", "integrity", "git", "activity"}

Spend(what) == may[what] > 0 /\ may' = [may EXCEPT ![what] = @ - 1]
Room(n) == Len(tasks) + n <= may.tasks

Call(todo, on, by) == [todo |-> todo, on |-> on, by |-> by, ans |-> None]
Refresh == <<"issues", "board">>
Everything == Refresh \o <<"integrity", "git", "connect">>

(* A behaviour starts with a window that has loaded what it shows, or has   *)
(* just been opened; the versions of the issues are older than any change  *)
(* it will see.                                                            *)
ASSUME ScenariosAssumption ==
    /\ None \notin Int
    /\ \A s \in Scenarios :
           /\ s.files \in [Issues -> Int \cup {None}]
           /\ \A d \in Issues : s.files[d] # None => s.files[d] <= 0
           /\ \A c, d \in Issues : c # d /\ s.files[c] # None => s.files[c] # s.files[d]
           /\ s.detail \in Issues \cup {None}
           /\ s.tasks \in {<<>>, <<Call(<<"me">> \o Everything, None, None)>>}
           /\ s.source = None \/
                s.source \in [which: Int, state: {"connecting", "open"},
                             id: {None, [epoch |-> 1, seq |-> 0]}]
ASSUME PanelsAssumption == Panels \subseteq {"integrity", "git"}

-----------------------------------------------------------------------------
(* The server's side of a call.                                            *)

Waiting(i, steps) == tasks[i].ans = None /\ Head(tasks[i].todo) \in steps
Answer(i, status, tag) ==
    tasks' = [tasks EXCEPT ![i].ans = [status |-> status, at |-> now, tag |-> tag]]

Listings == {"issues", "board", "integrity", "git", "activity", "me", "check",
             "assignable", "children"}
Documents == {"assign", "openEdit", "reloadEdit", "openDelete"}   \* GET /issues/<key>

read(i) ==
    /\ Waiting(i, Listings \cup Documents)
    /\ IF ~session THEN Answer(i, 401, None)
       ELSE IF Head(tasks[i].todo) \in Listings THEN Answer(i, 200, None)
       ELSE IF files[tasks[i].on] = None THEN Answer(i, 404, None)
       ELSE Answer(i, 200, files[tasks[i].on])
    /\ UNCHANGED <<streamVars, files, session, shown, windowHistory, may>>

signIn(i) ==
    /\ Waiting(i, {"login"})
    /\ session' = TRUE
    /\ Answer(i, 200, None)
    /\ UNCHANGED <<streamVars, files, shown, windowHistory, may>>

(* The session is destroyed, and its streams are disconnected.             *)
signOut(i) ==
    /\ Waiting(i, {"logout"})
    /\ session' = FALSE
    /\ Answer(i, 200, None)
    /\ IF Attached THEN disconnect ELSE UNCHANGED streamVars
    /\ UNCHANGED <<files, shown, windowHistory, may>>

(* Somebody else changes an issue, or deletes it.                          *)
Elsewhere(d, version) ==
    /\ files[d] # None
    /\ files' = [files EXCEPT ![d] = version]
    /\ publish
    /\ UNCHANGED <<session, shown, tasks, windowHistory>>
Change(d) == Spend("changes") /\ Elsewhere(d, now + 1)
Removal(d) == Spend("removals") /\ Elsewhere(d, None)

-----------------------------------------------------------------------------
(* Faults.                                                                 *)

Lost == [status |-> 0, at |-> 0, tag |-> None]

(* A request or its answer is lost.                                        *)
Lose(i) ==
    /\ Spend("losses")
    /\ tasks[i].ans # Lost
    /\ tasks' = [tasks EXCEPT ![i].ans = Lost]
    /\ UNCHANGED <<streamVars, files, session, shown, windowHistory>>

(* handleStreamError asks who it is, to tell a dead network from a         *)
(* session that has ended.                                                 *)
handleStreamError == tasks' = Append(tasks, Call(<<"check">>, source.which, None))

Drop ==
    /\ Spend("drops") /\ Room(1)
    /\ disconnect
    /\ handleStreamError
    /\ UNCHANGED <<files, session, shown, windowHistory>>

(* The session ends elsewhere: another tab signs out, or the machine has   *)
(* slept past the expiry.  Its streams have been ended by then.            *)
SessionEnds ==
    /\ Spend("ends") /\ Room(1)
    /\ session /\ session' = FALSE
    /\ IF Attached THEN disconnect /\ handleStreamError ELSE UNCHANGED <<streamVars, tasks>>
    /\ UNCHANGED <<files, shown, windowHistory>>

Restart ==
    /\ Spend("restarts") /\ Room(1)
    /\ restart
    /\ LET broken == [i \in DOMAIN tasks |-> [tasks[i] EXCEPT !.ans = Lost]]
       IN tasks' = IF Attached THEN Append(broken, Call(<<"check">>, source.which, None)) ELSE broken
    /\ UNCHANGED <<files, session, shown, windowHistory>>

-----------------------------------------------------------------------------
(* The window.                                                             *)

(* What is left of a function: loaders of the detail return at once when   *)
(* it is closed, and the board is loaded only when it is looked at.        *)
From(todo) ==
    LET runs(step) == CASE step \in {"assign", "assignable", "activity"} -> detail # None
                        [] step = "board" -> tab = "board"
                        [] OTHER -> TRUE
        first == {j \in DOMAIN todo : runs(todo[j])}
    IN IF first = {} THEN <<>> ELSE SubSeq(todo, Min(first), Len(todo))

Which == IF source = None THEN 1 ELSE source.which + 1

(* loadAssign names the issue before it asks for it.  `unlessConnecting`   *)
(* is what happens to the stream when this is not connectEvents.           *)
Proceed(i, todo, unlessConnecting) ==
    LET rest == From(todo)
    IN /\ tasks' = IF rest \in {<<>>, <<"connect">>} THEN RemoveAt(tasks, i)
                   ELSE [tasks EXCEPT ![i] = Call(rest, detail, None)]
       /\ assign' = IF rest # <<>> /\ Head(rest) = "assign"
                    THEN [assign EXCEPT !.key = detail] ELSE assign
       /\ IF rest = <<"connect">> THEN newSource(Which) ELSE unlessConnecting

Landed(i, step) == tasks[i].ans # None /\ Head(tasks[i].todo) = step
Status(i) == tasks[i].ans.status
Rest(i) == Tail(tasks[i].todo)

(* A view is painted with the answer that comes last, however old it is.   *)
Paint(v, at) ==
    /\ shows' = [shows EXCEPT ![v] = at]
    /\ stale' = IF at = now THEN stale \ {v} ELSE IF at < shows[v] THEN stale \cup {v} ELSE stale
Failed(vs) == shows' = shows /\ stale' = stale \cup vs

meLands(i) ==
    /\ Landed(i, "me")
    /\ IF Status(i) = 200
       THEN page' = "board" /\ Proceed(i, Rest(i), UNCHANGED streamVars)
       ELSE page' = "login" /\ tasks' = RemoveAt(tasks, i) /\ UNCHANGED <<streamVars, assign>>
    /\ UNCHANGED <<files, session, tab, shows, detail, timeline, windowHistory, may>>

loginLands(i) ==
    /\ Landed(i, "login")
    /\ IF Status(i) = 200
       THEN page' = "board" /\ Proceed(i, Rest(i), UNCHANGED streamVars)
       ELSE page' = page /\ tasks' = RemoveAt(tasks, i) /\ UNCHANGED <<streamVars, assign>>
    /\ UNCHANGED <<files, session, tab, shows, detail, timeline, windowHistory, may>>

logoutLands(i) ==
    /\ Landed(i, "logout")
    /\ page' = "login"
    /\ tasks' = RemoveAt(tasks, i)
    /\ UNCHANGED <<streamVars, files, session, tab, shows, detail, timeline, assign,
                   windowHistory, may>>

(* refreshIssues handles its own failure: what was to follow it follows,   *)
(* after a 401 behind the login form and even the connection to events.    *)
issuesLand(i) ==
    /\ Landed(i, "issues")
    /\ CASE Status(i) = 200 -> /\ Paint("issues", tasks[i].ans.at)
                               /\ Proceed(i, Rest(i), UNCHANGED streamVars)
                               /\ UNCHANGED page
         [] Status(i) = 401 -> /\ page' = "login" /\ Failed({"issues", "board"})
                               /\ Proceed(i, Tail(Rest(i)), closeSource)
         [] OTHER           -> /\ Failed({"issues", "board"}) /\ UNCHANGED page
                               /\ Proceed(i, Tail(Rest(i)), UNCHANGED streamVars)
    /\ UNCHANGED <<files, session, tab, detail, timeline, unheard, seen, may>>

boardLands(i) ==
    /\ Landed(i, "board")
    /\ IF Status(i) = 200 THEN Paint("board", tasks[i].ans.at) ELSE Failed({"board"})
    /\ page' = IF Status(i) = 401 THEN "login" ELSE page
    /\ Proceed(i, Rest(i), UNCHANGED streamVars)
    /\ UNCHANGED <<files, session, tab, detail, timeline, unheard, seen, may>>

(* A 401 brings the login form back from integrity, and not from git.      *)
panelLands(i, v) ==
    /\ v \in {"integrity", "git"} /\ Landed(i, v)
    /\ IF Status(i) = 200 THEN Paint(v, tasks[i].ans.at) ELSE Failed({v})
    /\ page' = IF Status(i) = 401 /\ v = "integrity" THEN "login" ELSE page
    /\ Proceed(i, Rest(i), UNCHANGED streamVars)
    /\ UNCHANGED <<files, session, tab, detail, timeline, unheard, seen, may>>

(* loadActivity, the one loader that asks whether its issue is still open. *)
StillOpen_Anything(i) == detail # None
StillOpen(i) == detail = tasks[i].on
activityLands(i) ==
    /\ Landed(i, "activity")
    /\ IF Status(i) = 200 /\ StillOpen(i)
       THEN /\ timeline' = [of |-> tasks[i].on] /\ Paint("activity", tasks[i].ans.at)
       ELSE /\ UNCHANGED <<timeline, shows>>
            /\ stale' = IF Status(i) # 200 THEN stale \cup {"activity"} ELSE stale
    /\ page' = IF Status(i) = 401 THEN "login" ELSE page
    /\ Proceed(i, Rest(i), UNCHANGED streamVars)
    /\ UNCHANGED <<files, session, tab, detail, unheard, seen, may>>

(* loadAssign: the etag with the first answer, the pickers with the second. *)
assignLands(i) ==
    /\ Landed(i, "assign")
    /\ IF Status(i) = 200
       THEN /\ tasks' = [tasks EXCEPT ![i] = Call(Rest(i), @.on, None)]
            /\ assign' = [assign EXCEPT !.tag = tasks[i].ans.tag]
       ELSE LET rest == From(Tail(Rest(i)))
            IN /\ tasks' = IF rest = <<>> THEN RemoveAt(tasks, i)
                           ELSE [tasks EXCEPT ![i] = Call(rest, detail, None)]
               /\ assign' = [assign EXCEPT !.painted = FALSE]
    /\ UNCHANGED <<streamVars, files, session, page, tab, shows, detail, timeline,
                   windowHistory, may>>
assignableLands(i) ==
    /\ Landed(i, "assignable")
    /\ LET rest == From(Rest(i))
       IN tasks' = IF rest = <<>> THEN RemoveAt(tasks, i)
                   ELSE [tasks EXCEPT ![i] = Call(rest, detail, None)]
    /\ assign' = [assign EXCEPT !.painted = (Status(i) = 200)]
    /\ seen' = IF Status(i) = 200 THEN seen \cup {assign.tag} ELSE seen
    /\ UNCHANGED <<streamVars, files, session, page, tab, shows, detail, timeline,
                   stale, unheard, may>>

checkLands_Stays(i) ==
    /\ Landed(i, "check")
    /\ tasks' = RemoveAt(tasks, i)
    /\ unheard' = (unheard \/ Status(i) = 0)
    /\ UNCHANGED <<streamVars, files, session, shown, stale, seen, may>>
checkLands(i) ==
    /\ Landed(i, "check")
    /\ tasks' = RemoveAt(tasks, i)
    /\ unheard' = (unheard \/ Status(i) = 0)
    /\ IF Status(i) = 401 /\ source # None /\ source.which = tasks[i].on
       THEN closeSource /\ page' = "login"
       ELSE UNCHANGED <<streamVars, page>>
    /\ UNCHANGED <<files, session, tab, shows, detail, timeline, assign, stale, seen, may>>

(* The browser connects, and again after every cut; a refusal is final.    *)
Connect ==
    /\ source # None /\ source.state = "connecting"
    /\ may.stream
    /\ IF session THEN attach /\ UNCHANGED tasks
       ELSE /\ Room(1)
            /\ refuse /\ handleStreamError
    /\ UNCHANGED <<files, session, shown, windowHistory, may>>

(* Whatever the event is, everything is loaded again.                      *)
onEvent ==
    /\ wire # <<>>
    /\ LET panels == SetToSeq(Panels)
           loads == <<Call(Refresh, None, None)>>
                    \o [j \in DOMAIN panels |-> Call(<<panels[j]>>, None, None)]
                    \o IF detail = None THEN <<>> ELSE <<Call(<<"activity">>, detail, None)>>
       IN Room(Len(loads)) /\ tasks' = tasks \o loads
    /\ receive
    /\ UNCHANGED <<files, session, shown, windowHistory, may>>

-----------------------------------------------------------------------------
(* The person.                                                             *)

login ==
    /\ Spend("logins") /\ Room(1)
    /\ page = "login"
    /\ ~\E i \in DOMAIN tasks : "login" \in Range(tasks[i].todo)
    /\ tasks' = Append(tasks, Call(<<"login">> \o Everything, None, None))
    /\ UNCHANGED <<streamVars, files, session, shown, windowHistory>>

logout ==
    /\ Spend("logouts") /\ Room(1)
    /\ page = "board"
    /\ closeSource
    /\ tasks' = Append(tasks, Call(<<"logout">>, None, None))
    /\ UNCHANGED <<files, session, shown, windowHistory>>

switchView ==
    /\ Spend("switches") /\ Room(1)
    /\ page = "board"
    /\ tab' = IF tab = "board" THEN "backlog" ELSE "board"
    /\ tasks' = Append(tasks, Call(Refresh, None, None))
    /\ stale' = stale \cup {"board"}
    /\ UNCHANGED <<streamVars, files, session, page, shows, detail, timeline, assign,
                   unheard, seen>>

openDetail(d) ==
    /\ Spend("details") /\ Room(1)
    /\ page = "board"
    /\ detail' = d /\ timeline' = None
    /\ assign' = [assign EXCEPT !.key = d]
    /\ tasks' = Append(tasks, Call(<<"assign", "assignable", "activity">>, d, None))
    /\ stale' = stale \cup {"activity"}
    /\ UNCHANGED <<streamVars, files, session, page, tab, shows, unheard, seen>>

closeDetail ==
    /\ Spend("closings")
    /\ detail # None
    /\ detail' = None
    /\ UNCHANGED <<streamVars, files, session, page, tab, shows, timeline, assign, tasks,
                   windowHistory>>
=============================================================================
