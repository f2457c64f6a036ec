SPECIFICATION Spec
CONSTANTS
    Conn = {c1, c2}
    NULL = NULL
    Cmd = {"stop"}
    MaxAccepts = 3
    MaxDepth = 2
    MaxCommands = 1
    MaxData = 1
    MaxPacket = 1
    MaxChunks = 1
    SizeLimit = 1
    RamUnits = 1
    ReadPolls = FALSE
    RecvMallocFails = FALSE
SYMMETRY ConnSymmetry
INVARIANTS
    PendingAccounted
    OneUpgrade
    FlashingReported
