SPECIFICATION FairSpec
CONSTANTS
    Conn = {c1, c2}
    NULL = NULL
    Cmd = {"other", "stop"}
    MaxAccepts = 2
    MaxDepth = 2
    MaxCommands = 1
    MaxData = 1
    MaxPacket = 1
    MaxChunks = 2
    SizeLimit = 1
    RamUnits = 1
    ReadPolls = FALSE
    RecvMallocFails = FALSE
PROPERTIES
    
    
    UpgradeEnds
