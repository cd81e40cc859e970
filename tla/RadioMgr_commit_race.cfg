SPECIFICATION Spec
CONSTANTS
    MaxPolls = 1
    MaxFaults = 0
    MaxEnv = 0
    MaxReqs = 2
    ConcurrentRequests = TRUE
INVARIANT RightRadioOn
CHECK_DEADLOCK FALSE
