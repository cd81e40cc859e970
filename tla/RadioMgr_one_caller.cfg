SPECIFICATION Spec
CONSTANTS
    MaxPolls = 1
    MaxFaults = 2
    MaxEnv = 0
    MaxReqs = 3
    ConcurrentRequests = FALSE
INVARIANT RightRadioOn
PROPERTY ModemOffNeedsWifi
CHECK_DEADLOCK FALSE
