SPECIFICATION Spec
CONSTANTS
    Conn = {c1, c2}
    NULL = NULL
    Cmd = {"other", "stop"}
    MaxAccepts = 2
    MaxDepth = 2
    MaxCommands = 1
    MaxData = 4
    MaxPacket = 3
    MaxChunks = 2
    SizeLimit = 3
    RamUnits = 2
    ReadPolls = FALSE
    RecvMallocFails = TRUE
SYMMETRY ConnSymmetry
INVARIANTS
    ArmedImage
PROPERTIES
    ImplementsSession
