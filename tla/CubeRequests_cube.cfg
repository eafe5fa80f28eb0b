SPECIFICATION Spec
CONSTANTS
    bad = bad
    good = good
    None = None
    Size = 12
    Shape <- Brick
    Payloads = {bad, good}
    Loaded = {0, 5}
    Replaces <- GoodReplaces
    levelist = 1
    param = 2
    ModelLevels = FALSE
    LevelOne = 0
    SingleLevel <- Empty
INVARIANT CountIsVacant
INVARIANT PayloadNotVacant
INVARIANT BestPayloadKept
INVARIANT OrdinalsAreDense
INVARIANT ExactlyCovered
CHECK_DEADLOCK FALSE
