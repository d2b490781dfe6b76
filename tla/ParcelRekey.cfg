SPECIFICATION Spec
CONSTANTS
    Conn = {c1, c2, c3}
    Leavers = {c1, c2, c3}
    MaxTexts = 0
    Calm = FALSE
SYMMETRY AnyOrder
INVARIANT RekeyedOnChange
CHECK_DEADLOCK FALSE
