CONSTANTS
    Part <- MCPart
    Device <- Devices
    MaxUploads = 3
    Board <- Boards
    base_size = 2
    Eths = 2
    Macs <- NewMacs
    MaxEdits = 2
SPECIFICATION FlashSpec
CHECK_DEADLOCK FALSE
INVARIANTS
    FirmwareSurvives
    UbootSurvives
    
    EditDone
    
PROPERTIES
    SwitchLast
