SPECIFICATION FairSpec
CONSTANTS
    Msgs = {onb, t1, big}
    Onboarding = {onb}
    TooBig = {big}
    None = None
    QueueDepth = 3
    HeapSlots = 3
    Errors = {"NOMQTT", "BADMSG", "LATE", "OTHER"}
    MaxFaults = 1
    MaxWork = 1
INVARIANT AckedIsGone
PROPERTIES  Drains
