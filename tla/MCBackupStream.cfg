SPECIFICATION BoardsSpec
CONSTANTS
    Board = "emmc"
    Part = "other"
    WhichNand = FALSE
    ReqSizes = {1, 2, 4, 5, 7, 8, 11, 14, 15, 17, 21}
    ram_avail = 4
    part_total = 14
    chip_size = 18
    Bases = {0, 4}
    blksz = 2
    erasesize = 4
    page_size = 2
    oob_size = 1
    total_pages = 6
    Bad = {}
    ShortReads = FALSE
INVARIANTS
    
    Whole
    NandStream
PROPERTIES
    Ends
