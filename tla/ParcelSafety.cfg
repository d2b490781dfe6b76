SPECIFICATION Spec
CONSTANTS
    Conn = {c1, c2, c3}
    Leavers = {c1, c2, c3}
    MaxTexts = 2
    Calm = FALSE
SYMMETRY AnyOrder
INVARIANTS TypeOK ReadyHolds MembersAgree InStep EncryptsAsMember OnlyStaleLost
PROPERTY ImplementsSession
CHECK_DEADLOCK FALSE
