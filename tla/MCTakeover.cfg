SPECIFICATION Spec
CONSTANTS
    Conn = {c1, c2}
    NULL = NULL
    Cmd = {"other"}
    MaxAccepts = 2
    MaxDepth = 2
    MaxCommands = 2
    MaxData = 1
    MaxPacket = 2
    MaxChunks = 2
    SizeLimit = 1
    RamUnits = 1
    ReadPolls = FALSE
    RecvMallocFails = FALSE
INVARIANT UploadCounter
