SPECIFICATION Spec
CONSTANTS
    ApplyChecks = TRUE
    Compression = FALSE
    Requests <- MCRequests
    Prepared <- MCPrepared
INVARIANTS
    LayoutIsDetermined
    NothingDropped
    ValidAsRequested
    FinaliseIsEncode
    Distinguishable
    SelectorFindsTheLayout
