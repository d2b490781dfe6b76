SPECIFICATION FairSpec
CONSTANTS
    Name = {n1, n2}
    Lines = {"text", "slash", "unknown", "list", "username", "file", "q"}
    Failures = {"eof", "reset"}
    MaxCables = 3
INVARIANTS TypeOK KnownByName
PROPERTIES FarewellIsLast ReachesPrompt
CHECK_DEADLOCK FALSE
