SPECIFICATION FairSpec
CONSTANTS
    r1 = r1
    r2 = r2
    h1 = h1
    h2 = h2
    NoRun = NoRun
    NoHandler = NoHandler
    NoEvent = NoEvent
    NoKey = NoKey
    Run = {r1}
    Pipeline = {r1}
    Handler = {h1, h2}
    SinkMax = 1
    SpoolMax = 1
    MaxBeat = 2
    RetainMax = 2
    QueueMax = 1
    GroupMax = 2
    ClearRaces = TRUE
    Faults = {"jenkins"}
    MaxFaults = 1
PROPERTIES SpooledIsPosted
CHECK_DEADLOCK FALSE
