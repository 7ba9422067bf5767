\* A window that opens, loses its stream and its session, and its forms.
SPECIFICATION FairSpec
CONSTANTS
    x = x  y = y
    Issues <- TwoIssues
    Parents <- OneParent
    Texts = {"t"}
    None = None
    Buffer = 1
    Panels <- OnePanel
    Scenarios <- All
\* A window nobody touches stops.
CHECK_DEADLOCK FALSE
INVARIANTS
    
    NothingUnseenIsOverwritten
    OneIssuePerForm
    TimelineIsItsIssues
PROPERTY WindowsRecover
