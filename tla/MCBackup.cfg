SPECIFICATION Spec
CONSTANTS
    Conn = {c1, c2}
    NULL = NULL
    Cmd = {"restart", "reset", "other"}
    MaxAccepts = 2
    MaxDepth = 3
    MaxCommands = 2
    MaxData = 1
    MaxPacket = 2
    MaxChunks = 3
    SizeLimit = 1
    RamUnits = 1
    ReadPolls = FALSE
    RecvMallocFails = TRUE
SYMMETRY ConnSymmetry
INVARIANTS
    SingleOwner
    RamOwned
    BackupInOrder
    UploadCounterUnlessTaken
