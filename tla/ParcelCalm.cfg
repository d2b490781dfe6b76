SPECIFICATION FairSpec
CONSTANTS
    Conn = {c1, c2, c3}
    Leavers = {c1, c2, c3}
    MaxTexts = 0
    Calm = TRUE
INVARIANT EndsOnlyEmpty
PROPERTIES JoinCompletes ExchangeYieldsKey
CHECK_DEADLOCK FALSE
