SPECIFICATION Spec
CONSTANTS
    Keys = {k1, k2, k3}
    BLOCK_LEN = 4
    MaxPayload = 15
    Radix = 4
    LEN_BYTES = 2
    NAME_LENGTH = 3
    FILE_FIELDS = 2
    KEY_LEN = 4
    MaxData = 6
INVARIANTS TypeOK AcceptsExactlyAuthentic LengthsAgree
CHECK_DEADLOCK FALSE
