SPECIFICATION FairSpec
CONSTANTS
    i1 = i1
    i2 = i2
    r1 = r1
    r2 = r2
    s1 = s1
    s2 = s2
    NoInstance = NoInstance
    Instance = {i1, i2}
    Run = {r1, r2}
    Step = {s1, s2}
    RunOf <- OneStepEach
    StartsAt <- Apart
    Faults = {"lost"}
    MaxToken = 2
    MaxLate = 0
INVARIANTS
    MutualExclusion
PROPERTIES
    InterruptedHoldKept
    LockIsExclusive
    WaiterServed
