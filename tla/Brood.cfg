SPECIFICATION FairSpec
CONSTANTS
    Target = {1, 2}
    Operation <- Mixed
    MaxToggles = 1
    MaxStale = 1
    MaxFaults = 1
INVARIANTS TypeOK SentOnce RolloutPaced NothingLeftBehind
PROPERTIES OutcomeIsFinal Finishes DeletionCompletes
CHECK_DEADLOCK FALSE
