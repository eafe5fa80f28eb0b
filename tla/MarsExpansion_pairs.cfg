SPECIFICATION Spec
CONSTANTS
    N = 10
    Lists <- SomeLists
    off <- Off
    all <- All
    Multiple = {5, 6, 7, 8}
    Readings <- SomeReadings
    Resolvers <- SomeResolvers
    Verbs <- BothVerbs
    Defaults <- DefaultRules
    Sets <- SetRules
    Unsets <- UnsetRules
    Requests <- SomeRequests
    MaxRequests = 2
INVARIANT LastWins
INVARIANT GivenWins
INVARIANT UnsetRespected
INVARIANT ExpandedOnce
CHECK_DEADLOCK FALSE
