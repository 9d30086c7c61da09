SPECIFICATION Spec
CONSTANTS
    Node = {n1, n2, n3}
    Tip <- MCTip
    Window = 1
    Stale = 1
    AutoMine = TRUE
    Initial = 5
    Interval = 2
    Start = 3
    MaxTime = 4
    MaxRefresh = 1
SYMMETRY Symmetry
INVARIANTS
    GoodNodesAgree
    CanonicalIsHeld
    SummaryOfCanonical
CHECK_DEADLOCK FALSE
