SPECIFICATION Spec
CONSTANTS
    r1 = r1
    r2 = r2
    NoOne = NoOne
    Replica = {r1, r2}
    Owner = r1
    LeaseDuration = 6
    Deadline = 5
    RenewAge = 2
    CallTimeout = 4
    DrainWait = 1
    CancelWait = 0
    StopWait = 2
    Skew = 0
    Stops = TRUE
    MaxLate = 1
    Calms = FALSE
SYMMETRY Alike
INVARIANT
    OneLiveReplica
