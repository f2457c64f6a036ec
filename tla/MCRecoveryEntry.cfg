CONSTANTS
    Cases <- Boards
    Ports = {0, 1}
    Speeds = {1, 2}
    MaxChanges = 3
SPECIFICATION FairSpec
CHECK_DEADLOCK FALSE
PROPERTIES
    
    RecoveryReached
