SPECIFICATION Spec
CONSTANTS
    Sender = {ann, bob}
    TIMESTAMP_THRESHOLD = 2
    MaxTime = 4
    MaxSections = 4
INVARIANTS UnderOwnName GapsAreMarked
CHECK_DEADLOCK FALSE
