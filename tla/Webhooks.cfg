CONSTANTS
    r1 = r1
    d1 = d1
    d2 = d2
    Run <- OneRun
    Message = {"m1"}
    Dispatcher <- TwoDispatchers
    Reason = {"cell-lost"}
    BatchSize = 1
    Mixed = FALSE
    MaxAttempts = 2
    MaxIncarnation = 2
    MaxFaults = 1
SPECIFICATION FairSpec
INVARIANTS TypeOK OwnReceiver GivenUpAfterAllTries
PROPERTIES SupersededNotSent DeliveredNotDropped EveryDeliverySettles
CHECK_DEADLOCK FALSE
