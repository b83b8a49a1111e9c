SPECIFICATION Spec
CONSTANTS
    i1 = i1
    i2 = i2
    r1 = r1
    r2 = r2
    k1 = k1
    k2 = k2
    rev = rev
    NoRevision = NoRevision
    NoRun = NoRun
    NoInstance = NoInstance
    Instance = {i1}
    Run = {r1, r2}
    Key = {k1, k2}
    KeyOf <- TwoKeys
    VarroaRun = {r1}
    RevisionOf <- OneRevision
    Age <- InOrder
    ScmKey = {k1}
    Recreated = TRUE
    Reach <- Everywhere
    TriggersRace = FALSE
    Resends = TRUE
    GateExpires = TRUE
    MaxGeneration = 1
    MaxNumber = 2
    MaxLate = 1
INVARIANTS
    NumbersBelowWatermark
    ConsumedNumberIsBuilt
    ConsumedRunRecorded
    RecordedRunStarted
PROPERTIES
    RefusedNumberNotRegranted
    ReportedResultIsFinal
