SPECIFICATION Spec
CONSTANTS
    Conn = {c1, c2}
    NULL = NULL
    Cmd = {"other"}
    MaxAccepts = 2
    MaxDepth = 3
    MaxCommands = 1
    MaxData = 1
    MaxPacket = 1
    MaxChunks = 1
    SizeLimit = 1
    RamUnits = 1
    ReadPolls = TRUE
    RecvMallocFails = FALSE
SYMMETRY ConnSymmetry
CONSTRAINT NotTaken
INVARIANTS
    ReentryOnly
