------------------------------ MODULE MCBootstrap ------------------------------
(* Repositories to initialise: without a remote, with an empty one, with a *)
(* colleague's board, and with a board that is behind or ahead.            *)
EXTENDS Bootstrap, TLC

CONSTANTS p1, p2, t1, t2, t3

TwoProcs == {p1, p2}
ThreeTemps == {t1, t2, t3}

Root(project, rule) == [n |-> 1, board |-> TRUE, project |-> project, rule |-> rule]
Work(k) == [n |-> k, board |-> FALSE, project |-> Wanted, rule |-> "none"]
Board(rule) == <<Root(Wanted, rule)>>

Nothing == [remote |-> FALSE, crashes |-> 0, errors |-> 0, offline |-> 0, starts |-> 0, commits |-> 0,
            pushes |-> 0, directories |-> 0, cleans |-> 0, detaches |-> 0, losses |-> 0]
Local(rule, budget) ==
    [branch |-> None, tracking |-> None, remote |-> None, ignored |-> rule, linked |-> None, may |-> budget]
Shared(theirs, rule, budget) ==
    [Local(rule, [budget EXCEPT !.remote = TRUE]) EXCEPT !.remote = theirs]

Fresh == [Local("none", [Nothing EXCEPT !.crashes = 2, !.errors = 2, !.starts = 2])
              EXCEPT !.linked = "away"]
Usurped == [Local("negated", [Nothing EXCEPT !.crashes = 1, !.errors = 1, !.directories = 1, !.detaches = 1,
                                             !.commits = 1])
                EXCEPT !.linked = "there"]
Cleaned == Local("loose", [Nothing EXCEPT !.crashes = 1, !.cleans = 1, !.detaches = 1, !.directories = 1,
                                          !.losses = 1])
Publishes == Shared(None, "anchored", [Nothing EXCEPT !.errors = 1, !.offline = 1, !.starts = 2, !.pushes = 1])
Joins == [Shared(Board("loose"), "none", [Nothing EXCEPT !.crashes = 2, !.errors = 1, !.starts = 1, !.pushes = 1,
                                                         !.commits = 1, !.detaches = 1])
              EXCEPT !.linked = "away"]
Foreign == Shared(<<Root(Other, "anchored")>>, "anchored",
                  [Nothing EXCEPT !.offline = 1, !.starts = 1, !.directories = 1])
Behind == [Shared(Board("negated") \o <<Work(2)>>, "loose",
                  [Nothing EXCEPT !.crashes = 1, !.errors = 1, !.starts = 1, !.directories = 1])
               EXCEPT !.branch = Board("negated"), !.tracking = Board("negated")]
Ahead == [Shared(Board("none"), "anchored", [Nothing EXCEPT !.crashes = 1, !.starts = 2, !.detaches = 1])
              EXCEPT !.branch = Board("none") \o <<Work(2)>>, !.tracking = Board("none"),
                     !.linked = "away"]

All == {Fresh, Usurped, Cleaned, Publishes, Joins, Foreign, Behind, Ahead}
=============================================================================
