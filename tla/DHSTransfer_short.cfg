SPECIFICATION Spec
CONSTANTS
    MaxTasks = 1
    MaxLen = 2
    Trailer = 2
    MaxMessages = 0
    Faults <- OnlyShort
INVARIANT ShortArchiveIsRefused
