-------------------------- MODULE MCBackupStream --------------------------
(***************************************************************************)
(* BackupStream for TLC, on two boards.  The eMMC board has the constants  *)
(* of the cfg; the NAND board, variables of its own (n...) and the whole   *)
(* chip as partition.  They share no variable, so one of them rests in an  *)
(* initial state while the other one is explored.                          *)
(***************************************************************************)
EXTENDS BackupStream

VARIABLES
    nraw, ntotal_size, nchunked, nchunk_offset, ntotal_sent, ntotal_remaining,
    nsending_header, nchunk_busy, ndata, ncached, ntable, nopen, nlength, nfile,
    nasked, norigin, nloaded

nandVars == <<nraw, ntotal_size, nchunked, nchunk_offset, ntotal_sent,
              ntotal_remaining, nsending_header, nchunk_busy, ndata, ncached, ntable,
              nopen, nlength, nfile, nasked, norigin, nloaded>>

NandSizes == {1, 3, 6, 7, 8, 10, 12, 17, 18, 20}

(* Pages of 2 + 1 bytes, erase blocks of two pages, the last one bad. *)
Nand == INSTANCE BackupStream WITH
    Board <- "nand", Part <- "nand_full", WhichNand <- FALSE, ReqSizes <- NandSizes,
    ram_avail <- 7, part_total <- 12, chip_size <- 12, Bases <- {0}, blksz <- 1,
    erasesize <- 4, page_size <- 2, oob_size <- 1, total_pages <- 6, Bad <- {2},
    ShortReads <- TRUE, raw <- nraw, total_size <- ntotal_size, chunked <- nchunked,
    chunk_offset <- nchunk_offset, total_sent <- ntotal_sent,
    total_remaining <- ntotal_remaining, sending_header <- nsending_header,
    chunk_busy <- nchunk_busy, data <- ndata, cached <- ncached, table <- ntable,
    open <- nopen, length <- nlength, file <- nfile, asked <- nasked,
    origin <- norigin, loaded <- nloaded

BoardsInit == StreamInit /\ Nand!StreamInit

BoardsNext ==
    \/ Nand!StreamInit /\ StreamNext /\ UNCHANGED nandVars
    \/ StreamInit /\ table = 0 /\ Nand!StreamNext /\ UNCHANGED streamVars

BoardsSpec ==
    /\ BoardsInit
    /\ [][BoardsNext]_<<streamVars, nandVars>>
    /\ WF_<<streamVars, nandVars>>(Transfer /\ UNCHANGED nandVars)

(* Contiguous and Whole on the NAND board, with reads that stop short, and *)
(* no byte of its bad block among the ones read without their spare bytes. *)
NandStream == Nand!Contiguous /\ Nand!Whole /\ Nand!NoBadBlock
=============================================================================
