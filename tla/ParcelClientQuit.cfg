SPECIFICATION FairSpec
CONSTANTS
    Name = {n1, n2}
    Lines = {"text", "slash", "q"}
    Failures = {}
    MaxCables = 3
PROPERTY QuitCloses
CHECK_DEADLOCK FALSE
