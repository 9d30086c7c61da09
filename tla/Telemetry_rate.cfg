SPECIFICATION Spec
CONSTANTS
    Node = {1}
    Tip <- MCTip
    Window = 2
    Stale = 1
    AutoMine = FALSE
    Initial = 5
    Interval = 2
    Start = 1
    MaxTime = 6
    MaxRefresh = 3
INVARIANT RateMeansBlocks
CHECK_DEADLOCK FALSE
