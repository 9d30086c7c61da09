SPECIFICATION FairSpec
CONSTANTS
    auto = auto
    once = once
    Proc = {auto, once}
    Manual = {once}
    MaxAttempts = 5
    RpcSeconds = 5
    Interval = 60
    Grace = 10
    MaxFailures = 2
    MaxKills = 1
INVARIANTS
    TypeOK
    StoppedIsTrue
    CleanExitRecorded
    HealthyHasProduced
    BoundedBlocks
PROPERTY ProducesAgain
