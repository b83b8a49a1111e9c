SPECIFICATION FairSpec
CONSTANTS
    r1 = r1
    r2 = r2
    h1 = h1
    h2 = h2
    NoRun = NoRun
    NoHandler = NoHandler
    NoEvent = NoEvent
    NoKey = NoKey
    Run = {r1}
    Pipeline = {r1}
    Handler = {h1, h2}
    SinkMax = 1
    SpoolMax = 1
    MaxBeat = 2
    RetainMax = 1
    QueueMax = 1
    GroupMax = 1
    ClearRaces = FALSE
    Faults = {"jenkins", "mite", "stream", "timeout", "reject", "week", "oversize"}
    MaxFaults = 2
INVARIANTS TypeOK NeverForgotten OneCompletionPerBoot RetentionAccounted
PROPERTIES CompletionArrives
CHECK_DEADLOCK FALSE
