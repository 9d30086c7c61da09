\* Two nodes anywhere in the tree, two faults, batches of two blocks.
CONSTANTS
    Block <- MCBlock
    NoBlock = "none"
    Height <- MCHeight
    Prev <- MCPrev
    Node = {n1, n2}
    Primary = n1
    BatchSize = 2
    Branches <- MCBranches
    MaxFaults = 2
SPECIFICATION FairSpec
INVARIANTS
    TypeOK
    IndexIsOneBranch
    CursorIsTop
    BatchInsertable
    SynchronizedIsTrue
PROPERTIES
    AbsSpec
    CatchesUp
