SPECIFICATION Spec
CONSTANTS
    FD_SETSIZE = 7
    FdLimit = 9
    ListenFd = 1
INVARIANTS Compact Registered NeverFull
CHECK_DEADLOCK FALSE
