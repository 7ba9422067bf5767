-------------------------------- MODULE MCForms --------------------------------
(* One window: while it opens and its stream is cut, and with its forms.   *)
EXTENDS Forms, TLC

CONSTANTS x, y

TwoIssues == {x, y}
OneParent == {y}
Both == x :> -1 @@ y :> -2
One == x :> -1 @@ y :> None
OnePanel == {"integrity"}

Nothing == [stream |-> FALSE, changes |-> 0, removals |-> 0, losses |-> 0, drops |-> 0, ends |-> 0,
            restarts |-> 0, logins |-> 0, logouts |-> 0, switches |-> 0, details |-> 0, closings |-> 0, edits |-> 0,
            submits |-> 0, picks |-> 0, dialogs |-> 0, comments |-> 0, tasks |-> 2, openings |-> 0]
Reached == [epoch |-> 1, seq |-> 0]
Start(budget) ==
    [page |-> "board", source |-> [which |-> 1, state |-> "connecting", id |-> Reached],
     tab |-> "backlog", detail |-> None, tasks |-> <<>>, files |-> Both, may |-> budget]
Live(budget) == [Start([budget EXCEPT !.stream = TRUE, !.tasks = 3])
                     EXCEPT !.tab = "board", !.files = One, !.source = [@ EXCEPT !.state = "open"]]

(* The window opens, with a session that may end.                          *)
Opens == [Live([Nothing EXCEPT !.changes = 1, !.ends = 1, !.logins = 1])
             EXCEPT !.page = "none", !.source = None,
                    !.tasks = <<Call(<<"me">> \o Everything, None, None)>>]
(* The stream is cut while the board changes.                              *)
Streams == Live([Nothing EXCEPT !.changes = 2, !.drops = 1, !.restarts = 1])
Fails == Live([Nothing EXCEPT !.changes = 1, !.drops = 1, !.losses = 1])
(* The session ends, here or elsewhere.                                    *)
Quits == Live([Nothing EXCEPT !.drops = 1, !.ends = 1, !.losses = 1, !.logins = 1])
Parts == Live([Nothing EXCEPT !.changes = 1, !.logouts = 1, !.logins = 1])
Looks == Live([Nothing EXCEPT !.changes = 1, !.switches = 1, !.details = 2, !.closings = 1, !.tasks = 3])
(* The forms, while the stream is out of reach.                            *)
Edits == [Start([Nothing EXCEPT !.changes = 1, !.details = 1, !.edits = 3, !.submits = 2])
             EXCEPT !.detail = x]
Picks == Start([Nothing EXCEPT !.changes = 1, !.details = 2, !.picks = 2])
Makes == [Start([Nothing EXCEPT !.losses = 1, !.restarts = 1, !.openings = 2, !.submits = 3, !.comments = 1])
             EXCEPT !.detail = x]
Removes == [Start([Nothing EXCEPT !.changes = 1, !.removals = 1, !.dialogs = 2, !.submits = 2])
             EXCEPT !.detail = y]
(* The issue is deleted with its children, while the stream is up.         *)
Clears == [Live([Nothing EXCEPT !.changes = 1, !.dialogs = 1, !.submits = 2])
               EXCEPT !.detail = y, !.files = Both]

All == {Opens, Streams, Fails, Quits, Parts, Looks, Edits, Picks, Makes, Removes, Clears}
JustComments == {[Start([Nothing EXCEPT !.details = 1, !.comments = 2]) EXCEPT !.detail = x]}
=============================================================================
