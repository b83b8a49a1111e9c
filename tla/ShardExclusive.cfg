SPECIFICATION FairSpec
CONSTANTS
    r1 = r1
    r2 = r2
    NoOne = NoOne
    Replica = {r1, r2}
    Owner = r1
    LeaseDuration = 2
    Deadline = 1
    RenewAge = 1
    CallTimeout = 1
    DrainWait = 1
    CancelWait = 0
    StopWait = 1
    Skew = 0
    Stops = TRUE
    MaxLate = 1
    Calms = TRUE
INVARIANTS
    TypeOK
    OneLiveReplica
PROPERTIES
    ShardIsExclusive
    OwnerTakesOver
