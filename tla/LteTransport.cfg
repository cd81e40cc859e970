\* Six commands and four events; none begins while a callback of the helper runs.
SPECIFICATION FairSpec
CONSTANTS
    MaxCommands = 6
    MaxEvents = 4
    MaxOverlap = 0
INVARIANTS
    
    OpenIsSubscribed

    
CHECK_DEADLOCK FALSE
