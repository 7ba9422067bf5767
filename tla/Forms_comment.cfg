\* The same words said under two issues.
SPECIFICATION Spec
CONSTANTS
    x = x  y = y
    Issues <- TwoIssues
    Parents <- OneParent
    Texts = {"t"}
    None = None
    Buffer = 1
    Panels <- OnePanel
    Scenarios <- JustComments
\* A behaviour ends when the bounds are used up.
CHECK_DEADLOCK FALSE
INVARIANT CommentsReachTheirIssue
