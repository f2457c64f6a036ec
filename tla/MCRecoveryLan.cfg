SPECIFICATION LanSpec
CONSTANTS
    Mac = {m1, m2, m3}
    Pool = {a1, a2, a3}
    Foreign = {x}
    NULL = NULL
    MAX_LEASES = 2
    LEASE_TIME = 1
    MaxTime = 3
    MaxStarts = 3
    TickInHandler = FALSE
    Overlap = FALSE
    Top = 128
    Size24 = 32
    Sizes <- PowersOfTwo
    SPAN = 12
    FALLBACK = 3
SYMMETRY Interchangeable
INVARIANTS
    LeaseTable
    
    
    PoolUsable
CHECK_DEADLOCK FALSE
