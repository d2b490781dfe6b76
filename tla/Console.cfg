SPECIFICATION ConsoleSpec
CONSTANTS
    Alphabet = {"a", "blank", "accent", "wide"}
    Prompt = 2
    console_width = 2
    Initial = 4
    Limit = 4
    SizeValues = 65536
    MaxChars = 5
    MaxLen = 4
    MaxCp = 6
    SIZE_MAX = 255
INVARIANTS CursorOnBoundary DistancesInRange TerminatedInBuffer Correct InBounds
PROPERTY Terminates
CHECK_DEADLOCK FALSE
