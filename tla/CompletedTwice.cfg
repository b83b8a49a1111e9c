SPECIFICATION Spec
CONSTANTS
    r1 = r1
    r2 = r2
    h1 = h1
    h2 = h2
    NoRun = NoRun
    NoHandler = NoHandler
    NoEvent = NoEvent
    NoKey = NoKey
    Run = {r1}
    Pipeline = {}
    Handler = {h1, h2}
    SinkMax = 2
    SpoolMax = 1
    MaxBeat = 2
    RetainMax = 1
    QueueMax = 1
    GroupMax = 1
    ClearRaces = FALSE
    Faults = {"jenkins"}
    MaxFaults = 2
INVARIANTS OneCompletion
CHECK_DEADLOCK FALSE
