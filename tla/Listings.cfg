\* Three rows in two places of the order, two changes while a visitor walks.
CONSTANTS
    Periods <- SomePeriods
    NumRows = 3
    NumKeys = 2
    Sizes = {1, 2}
    LastDay = 3
    MaxChanges = 2
SPECIFICATION SomeSpec
CHECK_DEADLOCK FALSE
INVARIANTS
    MissedBounded
    RepeatsBounded
    StatusesAgree
