\* Two threads that send commands, two buffers, a queue of two messages.
SPECIFICATION Spec
CONSTANTS
    Callers = {c1, c2}
    Buffers = {b1, b2}
    None = None
    MaxQueue = 2
    MaxFails = 1
    MaxCalls = 2
    MaxOut = 2
    MaxEvents = 1
SYMMETRY Symmetry
INVARIANTS
    TypeOK
    OneOwner
    OwnAnswer
    LockIsBalanced
CHECK_DEADLOCK FALSE
