------------------------------- MODULE Comments -------------------------------
(***************************************************************************)
(* A comment is a file that never changes and a log of ops beside it       *)
(* (domain/comment.ts); what is shown of it is its log, replayed by        *)
(* storage/records.ts.  Both lie in a directory named for the key its      *)
(* issue had when it was written.                                          *)
(***************************************************************************)
EXTENDS Integers, Sequences, FiniteSets, SequencesExt, FiniteSetsExt

CONSTANT None   \* no such comment

(* A row of the comments table: resolved, deleted, and whether its text is *)
(* the original or that of an edit.                                        *)
Ops == {"resolve", "unresolve", "edit", "delete"}
Fresh == [resolved |-> FALSE, deleted |-> FALSE, edit |-> 0]

(* A log git could not merge holds the lines of both sides.                *)
NoLog == [lines |-> <<>>, theirs |-> <<>>]
Marked(log) == log.theirs # <<>>
Appended_Alone(log, line) == [log EXCEPT !.lines = <<line>>]
Appended(log, line) == [log EXCEPT !.lines = Append(@, line)]

(* Lines in the order of their op_id, wherever a merge has put them.       *)
InOrder(log) == SortSeq(log, LAMBDA a, b : a.id < b.id)

Apply(row, line) ==
    CASE line.op = "resolve"   -> [row EXCEPT !.resolved = TRUE]
      [] line.op = "unresolve" -> [row EXCEPT !.resolved = FALSE]
      [] line.op = "delete"    -> [row EXCEPT !.deleted = TRUE]
      [] line.op = "edit"      -> [row EXCEPT !.edit = line.id]

replay(row, log) == FoldLeft(Apply, row, InOrder(log))

(* A log that is read again starts from nothing but the text; one that     *)
(* does not parse leaves the row as it was.                                *)
commentOpRecords(row, log) ==
    IF row = None \/ Marked(log) THEN row
    ELSE replay([row EXCEPT !.resolved = FALSE, !.deleted = FALSE], log.lines)

(* A body that is read again starts from nothing at all.                   *)
commentRecords(body) == IF body = None THEN None ELSE Fresh

(* Bodies are loaded first, and only files whose content has changed.      *)
Reload_Bodies(row, known, files) ==
    IF known.body # files.body THEN commentOpRecords(commentRecords(files.body), files.log)
    ELSE row
Reload(row, known, files) ==
    LET loaded == IF known.body # files.body THEN commentRecords(files.body) ELSE row
    IN IF known.log # files.log THEN commentOpRecords(loaded, files.log) ELSE loaded
=============================================================================
