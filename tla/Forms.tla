--------------------------------- MODULE Forms ---------------------------------
(***************************************************************************)
(* The forms of the window (web/app.js): a new issue, an edit and its      *)
(* conflict screen, the pickers of the detail, a deletion and a comment;   *)
(* with the server's checks of If-Match and of the idempotency keys they   *)
(* send.  Of a form only the issue it is about, the version it was read    *)
(* from and what it waits for are kept.                                    *)
(***************************************************************************)
EXTENDS Window

CONSTANTS
    Texts,    \* what a person types into a new issue or a comment
    Parents   \* issues with children: their deletion needs a strategy

VARIABLES
    edit,     \* key, tag, busy, conflict: is the conflict screen up?
    remove,   \* key, tag, open, busy, stale, strategy: "none", "asked" or "chosen"
    create,   \* nonce of the opening, open, busy
    replied,  \* the server: the idempotency keys it has answered
    posted,   \* the server: the comments there are, <<issue, text>>
    commentBusy,
    (* history *)
    created,  \* how many issues each form opening and text has made
    said,     \* the comments the window has reported as posted
    replaced, \* the versions saves and deletions have replaced
    hasty     \* those replaced by a picker before it was painted, or by a deletion
              \* that moved the children first, after it had checked another

forms == <<edit, remove, create, commentBusy>>
formHistory == <<created, said, replaced, hasty>>
served == <<replied, posted>>
vars == <<windowVars, forms, served, formHistory>>

NoEdit == [key |-> None, tag |-> None, busy |-> FALSE, conflict |-> FALSE]
NoDialog == [key |-> None, tag |-> None, open |-> FALSE, busy |-> FALSE, stale |-> FALSE,
             strategy |-> "none"]

-----------------------------------------------------------------------------
(* The server's side.                                                      *)

By(i) == tasks[i].by
Document(i) == files[tasks[i].on]

Write(i, version) ==
    /\ files' = [files EXCEPT ![tasks[i].on] = version]
    /\ publish
    /\ Answer(i, 200, version)
    /\ replaced' = replaced \cup {Document(i)}

Refuse(i, status, tag) ==
    /\ Answer(i, status, tag)
    /\ UNCHANGED <<streamVars, files, replaced, hasty>>

Served == UNCHANGED <<session, shown, windowHistory, may, forms, served, created, said>>

(* PATCH /issues/<key>: nobody's change is overwritten.                    *)
updateIssue(i) ==
    /\ Waiting(i, {"patch"})
    /\ IF ~session THEN Refuse(i, 401, None)
       ELSE IF Document(i) = None THEN Refuse(i, 404, None)
       ELSE IF By(i).tag # Document(i) THEN Refuse(i, 412, Document(i))
       ELSE /\ Write(i, now + 1)
            /\ hasty' = IF By(i).form = "assign" /\ By(i).early
                        THEN hasty \cup {Document(i)} ELSE hasty
    /\ Served

(* DELETE /issues/<key>.  Children without a strategy are refused before   *)
(* the etag is looked at.  With one, the children are moved first, each by *)
(* an awaited write; then the parent is read again and goes, whatever it   *)
(* has become.                                                             *)
Goes(i, step) == Waiting(i, {"delete"}) /\ By(i).left = step
Leaves(i, step) == tasks' = [tasks EXCEPT ![i].by.left = step]

deleteIssue(i) ==
    /\ Goes(i, "all")
    /\ IF ~session THEN Refuse(i, 401, None)
       ELSE IF Document(i) = None THEN Refuse(i, 404, None)
       ELSE IF tasks[i].on \in Parents /\ By(i).strategy # "chosen" THEN Refuse(i, 409, None)
       ELSE IF By(i).tag # Document(i) THEN Refuse(i, 412, Document(i))
       ELSE IF tasks[i].on \in Parents
       THEN Leaves(i, "children") /\ UNCHANGED <<streamVars, files, replaced, hasty>>
       ELSE Write(i, None) /\ UNCHANGED hasty
    /\ Served

(* A child's move is announced to nobody, and the deletion only when it is *)
(* done.                                                                   *)
moveChild(i) ==
    /\ Goes(i, "children")
    /\ \/ Leaves(i, "parent") /\ unannounced /\ UNCHANGED <<files, replaced, hasty>>
       \/ Refuse(i, 500, None)
    /\ Served

removeParent(i) ==
    /\ Goes(i, "parent")
    /\ IF Document(i) = None THEN Refuse(i, 500, None)
       ELSE /\ Write(i, None)
            /\ hasty' = IF By(i).tag # Document(i) THEN hasty \cup {Document(i)} ELSE hasty
    /\ Served

(* withIdempotency: a key is that of a request whose body is the same; what *)
(* the request was sent to is not looked at.                               *)
createIssue(i) ==
    /\ Waiting(i, {"create"})
    /\ IF ~session
       THEN Answer(i, 401, None) /\ UNCHANGED <<streamVars, replied, created>>
       ELSE IF By(i).key \in replied
       THEN Answer(i, 201, None) /\ UNCHANGED <<streamVars, replied, created>>
       ELSE /\ Answer(i, 201, None)
            /\ publish
            /\ replied' = replied \cup {By(i).key}
            /\ created' = [created EXCEPT ![By(i).of] = @ + 1]
    /\ UNCHANGED <<files, session, shown, windowHistory, may, forms, posted, said, replaced, hasty>>

addComment(i) ==
    /\ Waiting(i, {"comment"})
    /\ IF ~session THEN Answer(i, 401, None) /\ UNCHANGED served
       ELSE IF By(i).key \in replied THEN Answer(i, 201, None) /\ UNCHANGED served
       ELSE IF Document(i) = None THEN Answer(i, 404, None) /\ UNCHANGED served
       ELSE /\ Answer(i, 201, None)
            /\ replied' = replied \cup {By(i).key}
            /\ posted' = posted \cup {<<tasks[i].on, By(i).text>>}
    /\ UNCHANGED <<streamVars, files, session, shown, windowHistory, may, forms, formHistory>>

-----------------------------------------------------------------------------
(* The edit form.                                                          *)

Free == page = "board" /\ edit.key = None /\ ~remove.open /\ ~create.open
Begin(todo, on, by) == Room(1) /\ tasks' = Append(tasks, Call(todo, on, by))
End(i) == tasks' = RemoveAt(tasks, i)
(* The loaders that follow a save.                                         *)
Reload(i, todo) == Proceed(i, todo, UNCHANGED streamVars)

others == <<remove, create, commentBusy>>
Still == UNCHANGED <<files, session, page, tab, shows, timeline, stale, unheard, served, formHistory>>

openEdit ==
    /\ Spend("edits") /\ Free /\ detail # None
    /\ Begin(<<"openEdit">>, detail, None)
    /\ UNCHANGED <<streamVars, detail, assign, seen, forms>> /\ Still

openEditLands(i) ==
    /\ Landed(i, "openEdit")
    /\ IF Status(i) = 200
       THEN /\ edit' = [key |-> tasks[i].on, tag |-> tasks[i].ans.tag, busy |-> edit.busy,
                        conflict |-> FALSE]
            /\ seen' = seen \cup {tasks[i].ans.tag}
       ELSE UNCHANGED <<edit, seen>>
    /\ End(i)
    /\ UNCHANGED <<streamVars, detail, assign, may, others>> /\ Still

closeEdit ==
    /\ edit.key # None
    /\ edit' = [NoEdit EXCEPT !.busy = edit.busy]
    /\ UNCHANGED <<streamVars, detail, assign, tasks, seen, may, others>> /\ Still

submitEdit ==
    /\ Spend("submits")
    /\ ~edit.busy /\ edit.key # None
    /\ Begin(<<"patch">>, edit.key, [form |-> "edit", tag |-> edit.tag])
    /\ edit' = [edit EXCEPT !.busy = TRUE]
    /\ UNCHANGED <<streamVars, detail, assign, seen, others>> /\ Still

(* showConflict takes the newest ETag, whichever form is open by now.      *)
showConflict(i) ==
    /\ edit' = [edit EXCEPT !.tag = tasks[i].ans.tag, !.busy = FALSE, !.conflict = TRUE]
    /\ seen' = IF edit.key = tasks[i].on THEN seen \cup {tasks[i].ans.tag} ELSE seen

submitEditLands(i) ==
    /\ Landed(i, "patch") /\ By(i).form = "edit"
    /\ CASE Status(i) = 200 -> /\ edit' = NoEdit
                               /\ Reload(i, Refresh \o <<"activity">>)
                               /\ UNCHANGED seen
         [] Status(i) = 412 -> showConflict(i) /\ End(i) /\ UNCHANGED <<streamVars, assign>>
         [] OTHER           -> /\ edit' = [edit EXCEPT !.busy = FALSE]
                               /\ End(i) /\ UNCHANGED <<streamVars, assign, seen>>
    /\ UNCHANGED <<detail, may, others>> /\ Still

reloadEdit ==
    /\ Spend("edits")
    /\ edit.key # None /\ edit.conflict
    /\ Begin(<<"reloadEdit">>, edit.key, None)
    /\ UNCHANGED <<streamVars, detail, assign, seen, forms>> /\ Still

reloadEditLands(i) ==
    /\ Landed(i, "reloadEdit")
    /\ IF Status(i) = 200
       THEN edit' = [edit EXCEPT !.tag = tasks[i].ans.tag] /\ seen' = seen \cup {tasks[i].ans.tag}
       ELSE UNCHANGED <<edit, seen>>
    /\ End(i)
    /\ UNCHANGED <<streamVars, detail, assign, may, others>> /\ Still

-----------------------------------------------------------------------------
(* The pickers of the detail.  They stay on the screen, with the choices   *)
(* of the issue before, while those of the next are loaded.                *)

Painting == \E i \in DOMAIN tasks : Head(tasks[i].todo) \in {"assign", "assignable"}

saveAssign_Blind ==
    /\ Spend("picks")
    /\ page = "board" /\ detail # None /\ assign.painted /\ ~assign.busy /\ assign.key # None
    /\ Begin(<<"patch">>, assign.key, [form |-> "assign", tag |-> files[assign.key], early |-> Painting])
    /\ assign' = [assign EXCEPT !.busy = TRUE]
    /\ UNCHANGED <<streamVars, detail, seen, forms>> /\ Still
saveAssign ==
    /\ Spend("picks")
    /\ page = "board" /\ detail # None /\ assign.painted /\ ~assign.busy /\ assign.key # None
    /\ Begin(<<"patch">>, assign.key, [form |-> "assign", tag |-> assign.tag, early |-> Painting])
    /\ assign' = [assign EXCEPT !.busy = TRUE]
    /\ UNCHANGED <<streamVars, detail, seen, forms>> /\ Still

saveAssignLands(i) ==
    /\ Landed(i, "patch") /\ By(i).form = "assign"
    /\ assign' = [assign EXCEPT !.busy = FALSE]
    /\ LET rest == From(Refresh \o <<"assign", "assignable", "activity">>)
       IN tasks' = IF Status(i) = 200 THEN [tasks EXCEPT ![i] = Call(rest, detail, None)]
                   ELSE RemoveAt(tasks, i)
    /\ UNCHANGED <<streamVars, detail, seen, may, forms>> /\ Still

-----------------------------------------------------------------------------
(* The deletion dialog.                                                    *)

others2 == <<edit, create, commentBusy>>

openDelete ==
    /\ Spend("dialogs") /\ Free /\ detail # None
    /\ Begin(<<"openDelete", "children">>, detail, None)
    /\ UNCHANGED <<streamVars, detail, assign, seen, forms>> /\ Still

openDeleteLands(i) ==
    /\ Landed(i, "openDelete")
    /\ IF Status(i) = 200
       THEN /\ remove' = [remove EXCEPT !.key = tasks[i].on, !.tag = tasks[i].ans.tag,
                                        !.stale = FALSE, !.strategy = "none"]
            /\ tasks' = [tasks EXCEPT ![i] = Call(Rest(i), @.on, None)]
            /\ seen' = IF remove.open THEN seen \cup {tasks[i].ans.tag} ELSE seen
       ELSE End(i) /\ UNCHANGED <<remove, seen>>
    /\ UNCHANGED <<streamVars, detail, assign, may, others2>> /\ Still

(* It is shown once the children and the claim are known too.              *)
childrenLand(i) ==
    /\ Landed(i, "children")
    /\ remove' = [remove EXCEPT !.open = TRUE]
    /\ seen' = IF remove.key = None THEN seen ELSE seen \cup {remove.tag}
    /\ End(i)
    /\ UNCHANGED <<streamVars, detail, assign, may, others2>> /\ Still

closeDelete ==
    /\ remove.open
    /\ remove' = [NoDialog EXCEPT !.busy = remove.busy]
    /\ UNCHANGED <<streamVars, detail, assign, tasks, seen, may, others2>> /\ Still

chooseStrategy ==
    /\ remove.open /\ remove.strategy = "asked"
    /\ remove' = [remove EXCEPT !.strategy = "chosen"]
    /\ UNCHANGED <<streamVars, detail, assign, tasks, seen, may, others2>> /\ Still

submitDelete ==
    /\ Spend("submits")
    /\ remove.open /\ ~remove.busy /\ remove.key # None /\ ~remove.stale /\ remove.strategy # "asked"
    /\ Begin(<<"delete">>, remove.key, [tag |-> remove.tag, strategy |-> remove.strategy,
                                         left |-> "all"])
    /\ remove' = [remove EXCEPT !.busy = TRUE]
    /\ UNCHANGED <<streamVars, detail, assign, seen, others2>> /\ Still

submitDeleteLands(i) ==
    /\ Landed(i, "delete")
    /\ IF Status(i) = 200
       THEN /\ remove' = NoDialog /\ detail' = None
            /\ Reload(i, Refresh \o <<"git">>)
       ELSE /\ remove' = [remove EXCEPT !.busy = FALSE, !.stale = (Status(i) = 412),
                                        !.strategy = IF Status(i) = 409 THEN "asked" ELSE @]
            /\ End(i) /\ UNCHANGED <<streamVars, detail, assign>>
    /\ UNCHANGED <<seen, may, others2>> /\ Still

-----------------------------------------------------------------------------
(* A new issue, and a comment.                                             *)

others3 == <<edit, remove, commentBusy>>

openCreate ==
    /\ Spend("openings") /\ Free
    /\ create' = [create EXCEPT !.nonce = @ + 1, !.open = TRUE]
    /\ UNCHANGED <<streamVars, detail, assign, tasks, seen, others3>> /\ Still

closeCreate ==
    /\ create.open
    /\ create' = [create EXCEPT !.open = FALSE]
    /\ UNCHANGED <<streamVars, detail, assign, tasks, seen, may, others3>> /\ Still

(* The key is made of the opening and of what is sent.                     *)
createKey_EachTime(text) == <<create.nonce, text, may.submits>>
createKey(text) == <<create.nonce, text>>
submitCreate(text) ==
    /\ Spend("submits")
    /\ create.open /\ ~create.busy
    /\ Begin(<<"create">>, None, [key |-> createKey(text), of |-> <<create.nonce, text>>])
    /\ create' = [create EXCEPT !.busy = TRUE]
    /\ UNCHANGED <<streamVars, detail, assign, seen, others3>> /\ Still

submitCreateLands(i) ==
    /\ Landed(i, "create")
    /\ create' = [create EXCEPT !.busy = FALSE, !.open = IF Status(i) = 201 THEN FALSE ELSE @]
    /\ IF Status(i) = 201 THEN Reload(i, Refresh)
       ELSE End(i) /\ UNCHANGED <<streamVars, assign>>
    /\ UNCHANGED <<detail, seen, may, others3>> /\ Still

(* The key of a comment is its text alone.                                 *)
submitComment(text) ==
    /\ Spend("comments")
    /\ page = "board" /\ detail # None /\ ~commentBusy
    /\ Begin(<<"comment">>, detail, [key |-> <<0, text>>, text |-> text])
    /\ commentBusy' = TRUE
    /\ UNCHANGED <<streamVars, detail, assign, seen, edit, remove, create>> /\ Still

submitCommentLands(i) ==
    /\ Landed(i, "comment")
    /\ commentBusy' = FALSE
    /\ said' = IF Status(i) = 201 THEN said \cup {<<tasks[i].on, By(i).text>>} ELSE said
    /\ IF Status(i) = 201 THEN Reload(i, Refresh)
       ELSE End(i) /\ UNCHANGED <<streamVars, assign>>
    /\ UNCHANGED <<files, session, page, tab, shows, detail, timeline, windowHistory, may,
                   edit, remove, create, served, created, replaced, hasty>>

-----------------------------------------------------------------------------
Init ==
    \E s \in Scenarios :
        /\ epoch = 1 /\ seq = 0 /\ buffer = <<>> /\ wire = <<>> /\ now = 0 /\ gap = 0
        /\ files = s.files
        /\ session = TRUE /\ page = s.page /\ tab = s.tab /\ timeline = None
        /\ source = s.source /\ detail = s.detail /\ tasks = s.tasks /\ may = s.may
        /\ shows = [v \in Views |-> IF s.page = "board" THEN 0 ELSE -1]
        /\ assign = [key |-> None, tag |-> None, painted |-> FALSE, busy |-> FALSE]
        /\ stale = {"activity"} /\ unheard = FALSE /\ seen = {}
        /\ edit = NoEdit /\ remove = NoDialog /\ commentBusy = FALSE
        /\ create = [nonce |-> 0, open |-> FALSE, busy |-> FALSE]
        /\ replied = {} /\ posted = {}
        /\ created = [o \in (1..s.may.openings) \X Texts |-> 0]
        /\ said = {} /\ replaced = {} /\ hasty = {}

WindowOnly == UNCHANGED <<forms, served, formHistory>>

(* Bound: what the server has begun to delete is answered before its       *)
(* answer is lost.                                                         *)
Begun(i) == Waiting(i, {"delete"}) /\ By(i).left # "all"

Server(i) ==
    \/ (read(i) \/ signIn(i) \/ signOut(i)) /\ WindowOnly
    \/ updateIssue(i) \/ deleteIssue(i) \/ moveChild(i) \/ removeParent(i) \/ createIssue(i) \/ addComment(i)

Land(i) ==
    \/ /\ \/ meLands(i) \/ loginLands(i) \/ logoutLands(i) \/ issuesLand(i) \/ boardLands(i)
          \/ panelLands(i, "integrity") \/ panelLands(i, "git") \/ activityLands(i)
          \/ assignLands(i) \/ assignableLands(i) \/ checkLands(i)
       /\ WindowOnly
    \/ openEditLands(i) \/ submitEditLands(i) \/ reloadEditLands(i) \/ saveAssignLands(i)
    \/ openDeleteLands(i) \/ childrenLand(i) \/ submitDeleteLands(i)
    \/ submitCreateLands(i) \/ submitCommentLands(i)

Person ==
    \/ /\ login \/ logout \/ switchView \/ closeDetail \/ \E d \in Issues : openDetail(d)
       /\ WindowOnly
    \/ openEdit \/ closeEdit \/ submitEdit \/ reloadEdit \/ saveAssign
    \/ openDelete \/ closeDelete \/ chooseStrategy \/ submitDelete
    \/ openCreate \/ closeCreate
    \/ \E text \in Texts : submitCreate(text) \/ submitComment(text)

Fault ==
    /\ Drop \/ SessionEnds \/ Restart \/ (\E i \in DOMAIN tasks : ~Begun(i) /\ Lose(i)) \/ (\E d \in Issues : Change(d) \/ Removal(d))
    /\ WindowOnly

System == (\E i \in DOMAIN tasks : Server(i) \/ Land(i)) \/ ((Connect \/ onEvent) /\ WindowOnly)

Next == System \/ Person \/ Fault

Spec == Init /\ [][Next]_vars
(* Requests are answered, answers handled, and a browser reconnects.       *)
FairSpec == Spec /\ WF_vars(System)

-----------------------------------------------------------------------------
(* Properties.                                                             *)

(* When nothing is under way and the stream is open, a view shows the      *)
(* board as it is, across cuts, restarts and a buffer that has moved on.   *)
(* The exceptions: its last load failed, an older answer came in last, the *)
(* change fell into the gap before the source had received any id, or it   *)
(* is the move of a child, which is announced to nobody.                   *)
StaleViewsAreExplained ==
    page = "board" /\ tasks = <<>> /\ Attached /\ wire = <<>> =>
        \A v \in ({"issues", "board", "activity"} \cup Panels) \ stale :
            \/ shows[v] = now \/ shows[v] < gap
            \/ v = "activity" /\ detail = None
            \/ v = "board" /\ tab # "board"

(* No save and no deletion replaces a version of its issue that this       *)
(* window has not put before the person, whatever forms were opened,       *)
(* closed and answered meanwhile.  The exceptions: a picker can be used    *)
(* before it is painted, and a deletion that moves children does not look  *)
(* at the etag of their parent again.                                      *)
NothingUnseenIsOverwritten == replaced \subseteq seen \cup hasty

(* However often a form is submitted and its answers are lost, one opening *)
(* of it makes at most one issue of one text.                              *)
OneIssuePerForm == \A o \in DOMAIN created : created[o] <= 1

(* The activity under an open detail is that of its issue.                 *)
TimelineIsItsIssues == timeline # None /\ detail # None => timeline.of = detail

(* A window whose stream was cut is connected again or asks to sign in,    *)
(* unless the answer that says why it was refused was lost.                *)
WindowsRecover ==
    source # None /\ source.state # "open" /\ may.stream
        ~> source = None \/ source.state = "open" \/ unheard

(* A comment the window reports as posted is there.                        *)
CommentsReachTheirIssue == said \subseteq posted
=============================================================================
