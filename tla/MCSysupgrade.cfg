CONSTANTS
    Peb = 9
    bad_peb_limit = 2
    leb_size = 2
    Image <- AnyImage
    Layout <- AnyLayout
    MaxUpgrades = 3
    MaxBad = 2
    Faults = {"remove", "create", "write"}
    Upload <- Uploads
    Wrap <- U64
    max_entries = 3
    len = 6
    ULLMax = 511
    Digits <- SomeDigits
SPECIFICATION StepSpec
CHECK_DEADLOCK FALSE
INVARIANTS
    ReplacementFits
    SystemSurvives
    RetryAccepted
    PartsInside
    ArchiveRead
    SizeRight
