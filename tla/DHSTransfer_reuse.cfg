SPECIFICATION Spec
CONSTANTS
    MaxTasks = 2
    MaxLen = 1
    Trailer = 1
    MaxMessages = 1
    Faults <- EveryFault
INVARIANT ErrorReported
INVARIANT NoStranger
CHECK_DEADLOCK FALSE
