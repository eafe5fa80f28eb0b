SPECIFICATION Spec
CONSTANTS
    ApplyChecks = TRUE
    Compression = FALSE
    Files <- MCFiles
INVARIANTS
    TimeKept
    LevelKept
    Distinguishable
    RulesSettle
    SameForRequests
CHECK_DEADLOCK FALSE
