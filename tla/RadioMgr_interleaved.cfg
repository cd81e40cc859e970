SPECIFICATION FairSpec
CONSTANTS
    MaxPolls = 1
    MaxFaults = 2
    MaxEnv = 1
    MaxReqs = 2
    ConcurrentRequests = TRUE
INVARIANTS TypeOK OneStepPending
PROPERTIES SwitchSteps 
CHECK_DEADLOCK FALSE
