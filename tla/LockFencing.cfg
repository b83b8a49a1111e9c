SPECIFICATION Spec
CONSTANTS
    i1 = i1
    i2 = i2
    r1 = r1
    r2 = r2
    s1 = s1
    s2 = s2
    NoInstance = NoInstance
    Instance = {i1, i2}
    Run = {r1, r2}
    Step = {s1, s2}
    RunOf <- OneStepEach
    StartsAt <- Apart
    Faults = {"lost", "forget", "partition", "force", "member"}
    MaxToken = 2
    MaxLate = 1
SYMMETRY Symmetry
INVARIANTS
    HolderIsNewest
    EndedRunHoldsNothing
PROPERTIES
    LockIsFenced
