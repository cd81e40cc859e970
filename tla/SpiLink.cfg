\* Two callers for two handles, one of them in modem_power_off; two failures.
SPECIFICATION FairSpec
CONSTANTS
    Callers = {a, s}
    Stopper = s
    None = None
    Garbage = Garbage
    NumHandles = 2
    MaxQueue = 3
    MaxFaults = 2
INVARIANTS TypeOK  NoStaleBuffer
PROPERTY CommandsLeave
CHECK_DEADLOCK FALSE
