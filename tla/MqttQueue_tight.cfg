SPECIFICATION Spec
CONSTANTS
    Msgs = {onb, t1, t2}
    Onboarding = {onb}
    TooBig = {}
    None = None
    QueueDepth = 2
    HeapSlots = 3
    Errors = {"ENODEV", "NOMQTT", "BADMSG", "LATE", "OTHER"}
    MaxFaults = 2
    MaxWork = 2
SYMMETRY Symmetry
INVARIANTS TypeOK OwnedOnce
