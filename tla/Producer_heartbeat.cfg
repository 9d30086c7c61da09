SPECIFICATION FairSpec
CONSTANTS
    auto = auto
    once = once
    Proc = {auto}
    Manual = {}
    MaxAttempts = 5
    RpcSeconds = 5
    Interval = 60
    Grace = 10
    MaxFailures = 1
    MaxKills = 0
PROPERTY DeadIsNoticed
