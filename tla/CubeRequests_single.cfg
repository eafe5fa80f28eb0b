SPECIFICATION Spec
CONSTANTS
    bad = bad
    good = good
    None = None
    Size = 6
    Shape <- Levels2
    Payloads = {}
    Loaded = {}
    Replaces <- NoneReplace
    levelist = 1
    param = 2
    ModelLevels = TRUE
    LevelOne = 0
    SingleLevel <- First
INVARIANT ExistingCovered
CHECK_DEADLOCK FALSE
