SPECIFICATION FairSpec
CONSTANTS
    SIZE = 5
    LINE = 3
    Poller = {p1}
    MaxChars = 3
    MaxCommands = 1
    MaxAborts = 1
    MaxClears = 1
    MaxLosses = 1
INVARIANTS
    OutputSince
    NothingDropped
    AbortFresh
PROPERTIES
    Delivered
    Resynchronised
