---------------------------- MODULE Transitions ----------------------------
(***************************************************************************)
(* The status transition table of domain/transition.ts and what a          *)
(* transition does to an issue (patchStatus, domain/update.ts).            *)
(***************************************************************************)

Statuses == {"BACKLOG", "TODO", "IN_PROGRESS", "IN_REVIEW", "DONE", "BLOCKED", "CANCELLED"}
NoStatus == "none"

(* The part of an issue a transition reads and writes.                     *)
IssueStates == [status: Statuses, blocked_from: Statuses \cup {NoStatus}]

ALLOWED ==
    [BACKLOG     |-> {"TODO", "BLOCKED", "CANCELLED"},
     TODO        |-> {"BACKLOG", "IN_PROGRESS", "BLOCKED", "CANCELLED"},
     IN_PROGRESS |-> {"TODO", "IN_REVIEW", "BLOCKED", "CANCELLED"},
     IN_REVIEW   |-> {"IN_PROGRESS", "DONE", "BLOCKED", "CANCELLED"},
     DONE        |-> {"IN_PROGRESS"},
     BLOCKED     |-> {"CANCELLED"},
     CANCELLED   |-> {"BACKLOG"}]

allowedTargets(issue) ==
    ALLOWED[issue.status] \cup
    (IF issue.status = "BLOCKED" THEN {issue.blocked_from} \cap Statuses ELSE {})

requiresAdmin(from, to) == from = "CANCELLED" /\ to = "BACKLOG"

(* A transition to the status the issue has already changes nothing.       *)
MayMove(issue, to, role) ==
    /\ to # issue.status /\ to \in allowedTargets(issue)
    /\ requiresAdmin(issue.status, to) => role = "admin"

(* Entering BLOCKED remembers where the work was; any other move forgets.  *)
patchStatus(issue, to) ==
    [status |-> to, blocked_from |-> IF to = "BLOCKED" THEN issue.status ELSE NoStatus]
=============================================================================
