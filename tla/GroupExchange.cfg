SPECIFICATION FairSpec
CONSTANTS
    N = 4
    MaxTexts = 1
INVARIANTS KeyAgreement DaemonBlind ClientInStep KeysInPosition
PROPERTY ExchangeCompletes
CHECK_DEADLOCK FALSE
