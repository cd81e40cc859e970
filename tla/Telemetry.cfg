\* Two messages from the cloud and two events, anywhere in the work of the queue.
SPECIFICATION FairSpec
CONSTANTS
    Docs <- MCDocs
    FirstDoc <- MCFirstDoc
    MaxQueue = 2
    MaxRequests = 2
    MaxEvents = 2
INVARIANTS
    TypeOK
    SWorkGoesOn
    
    GpsIsWanted
    LastRequestCounts
PROPERTIES
    FmdEnds
CHECK_DEADLOCK FALSE
