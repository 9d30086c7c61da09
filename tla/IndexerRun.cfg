SPECIFICATION FairSpec
CONSTANTS
    n1 = n1
    n2 = n2
    n3 = n3
    Inventory <- MCInventory
    HasCredentials = {n1, n2}
    Preferred = n2
    TxIndex = {n2, n3}
    Base = 1
    Ceiling = 3
    MaxAttempt = 4
    Grain = 3
    MaxTime = 3
    MaxFaults = 2
INVARIANTS
    TypeOK
    BackoffDoubles
    PolicyAssetFirst
PROPERTIES
    InitialSyncWrittenOnce
    OneNodeSuffices
