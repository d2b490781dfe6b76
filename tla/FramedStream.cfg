SPECIFICATION FairSpec
CONSTANTS
    Thread = {t1, t2}
    Total = {4, 5, 6}
    SigSize = 2
    HeaderSize = 3
    MaxCables = 3
    Overlap = FALSE
    ShortHeader = FALSE
    Closes = TRUE
INVARIANT NeverFails
PROPERTIES ImplementsChannel Delivered
CHECK_DEADLOCK FALSE
