SPECIFICATION Spec
CONSTANTS
    i1 = i1
    i2 = i2
    r1 = r1
    r2 = r2
    k1 = k1
    k2 = k2
    rev = rev
    NoRevision = NoRevision
    NoRun = NoRun
    NoInstance = NoInstance
    Instance = {i1, i2}
    Run = {r1, r2}
    Key = {k1}
    KeyOf <- OneKey
    VarroaRun = {}
    RevisionOf <- NoRevisions
    Age <- InOrder
    ScmKey = {k1}
    Recreated = FALSE
    Reach <- OneMoves
    TriggersRace = FALSE
    Resends = TRUE
    GateExpires = FALSE
    MaxGeneration = 2
    MaxNumber = 2
    MaxLate = 0
INVARIANTS
    TypeOK
    OneBuildPerIntent
    StartMarkProof
PROPERTIES
    StartsOnce
    MarkIsFinal
