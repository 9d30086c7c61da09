SPECIFICATION FairSpec
CONSTANTS
    n1 = n1
    n2 = n2
    n3 = n3
    Inventory <- MCInventory
    HasCredentials = {n1, n2}
    Preferred = n2
    TxIndex = {n2, n3}
    Base = 1
    Ceiling = 60
    MaxAttempt = 1
    Grain = 3
    MaxTime = 1
    MaxFaults = 0
PROPERTY FailsOver
