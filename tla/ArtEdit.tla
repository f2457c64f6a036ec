------------------------------ MODULE ArtEdit ------------------------------
(***************************************************************************)
(* Changing a MAC address in the ART partition, which holds the device's   *)
(* addresses and its radio calibration and cannot be made again.  The      *)
(* partition is read, changed in memory and written back, with one way of  *)
(* writing per flash; any flash operation may fail and power may go.       *)
(*                                                                         *)
(* A unit of the partition is one word.  A word is the set of its one      *)
(* bits, so that the exclusive or of words is the bits that occur in an    *)
(* odd number of them.  A calibration block is its header, its checksum,   *)
(* one or two addresses, and data.                                         *)
(***************************************************************************)
EXTENDS Integers, Sequences, FiniteSets

CONSTANTS
    Board,     \* the boards: records of the fields below
    base_size, \* ART_BASE_SIZE
    Eths,      \* CONFIG_IPQ_NO_MACS, at most base_size
    Macs,      \* new addresses
    MaxEdits

Bits == 1..3
FF == Bits
Zero == {}

(* A calibration block has room for its header, its checksum and two       *)
(* addresses, and the partition for the blocks and the first page.         *)
ASSUME ArtAssumption ==
    /\ base_size \in Nat /\ Eths \in 0..base_size
    /\ \A b \in Board :
          /\ b.ath10k \in BOOLEAN /\ b.flash \in {"nor", "nand", "emmc"}
          /\ b.erase_size \in Nat \ {0} /\ b.blksz \in Nat \ {0}
          /\ b.cal_size \in Nat /\ b.cal_size >= 4
          /\ b.cal_offsets \in Seq(Nat)
          /\ \A f \in b.arts :
                /\ 0..(base_size - 1) \subseteq DOMAIN f
                /\ \A k \in DOMAIN b.cal_offsets :
                      LET off == b.cal_offsets[k]
                      IN  off..(off + 2 * b.cal_size - 1) \subseteq DOMAIN f

VARIABLES
    board,
    art,       \* the partition
    job,       \* the edit: [kind, index, mac]
    pc, buf,   \* where it is, and the part of ART it has in memory
    block_off, \* the block being written
    result,    \* what the last edit was answered
    before, failed, edits  \* history: ART when the edit began, a fault, a count

artVars == <<board, art, job, pc, buf, block_off, result, before, failed, edits>>

Chip == board.flash              \* "nor", "nand" or "emmc"
ath10k == board.ath10k            \* IPQ40XX, IPQ806X: one address per block, size in the header
cal_offsets == board.cal_offsets  \* where the calibration blocks are, multiples of blksz
cal_size == board.cal_size        \* the smaller of the two sizes; ATH10K_CAL_CHECKSUM_SIZE
erase_size == board.erase_size    \* flash->sector_size, nand_info->erasesize
blksz == board.blksz              \* of the eMMC
Arts == board.arts                \* what the partition may hold
-----------------------------------------------------------------------------
NoJob == [kind |-> "none", index |-> 0, mac |-> Zero]
PerBlock == IF ath10k THEN 1 ELSE 2
WifiMax == PerBlock * Len(cal_offsets)

is_valid_ethaddr(w) == w \notin {Zero, FF}

CalOff(i) == cal_offsets[i \div PerBlock + 1]
MacOff(i) == CalOff(i) + 2 + (i % PerBlock)
CsOff(i) == CalOff(i) + 1

(* A header that is there, and the size it gives. *)
HeaderOk(w) == IF ath10k THEN w \notin {FF, Zero} ELSE w \in {{1}, {1, 2}}
art_cal_size(w) == IF ~ath10k /\ 2 \in w THEN 2 * cal_size ELSE cal_size

(* xor16_checksum *)
Xor(f) == { b \in Bits : Cardinality({ a \in DOMAIN f : b \in f[a] }) % 2 = 1 }

Piece(off, size) == [a \in off..(off + size - 1) |-> art[a]]

(* What art_read gives.  The eMMC driver returns 0 for a block it could    *)
(* not read, which is no error here: the block then has what the buffer    *)
(* held.                                                                   *)
Blocks(off, size) == { a \div blksz : a \in off..(off + size - 1) }
art_read(off, size) ==
    IF Chip = "emmc"
    THEN { [a \in off..(off + size - 1) |-> IF a \div blksz \in bad THEN junk ELSE art[a]] :
             bad \in SUBSET Blocks(off, size), junk \in {Zero, FF} }
    ELSE {Piece(off, size)}

(* The new address, and a checksum that makes the exclusive or all ones. *)
EditWifiStale(f, i, mac) == [f EXCEPT ![MacOff(i)] = mac]
EditWifi(f, i, mac) ==
    LET g == [f EXCEPT ![MacOff(i)] = mac]
        cs == IF ath10k THEN Xor([g EXCEPT ![CsOff(i)] = FF])
              ELSE FF \ Xor([g EXCEPT ![CsOff(i)] = Zero])
    IN  [g EXCEPT ![CsOff(i)] = cs]
EditBase(f, i, mac) == [f EXCEPT ![i] = mac]

Off == IF job.kind = "base" THEN 0 ELSE CalOff(job.index)
-----------------------------------------------------------------------------
Answer(r) ==
    /\ pc' = "idle" /\ result' = r /\ buf' = <<>>
    /\ UNCHANGED <<job, before, edits>>

httpd_handle_mac_set(kind, i, mac) ==
    /\ pc = "idle" /\ edits < MaxEdits
    /\ edits' = edits + 1 /\ before' = art /\ failed' = FALSE
    /\ IF is_valid_ethaddr(mac) /\ i < (IF kind = "base" THEN Eths ELSE WifiMax)
       THEN /\ job' = [kind |-> kind, index |-> i, mac |-> mac]
            /\ pc' = IF kind = "base" THEN "read" ELSE "header"
            /\ result' = "none"
       ELSE /\ result' = "error"
            /\ UNCHANGED <<job, pc>>
    /\ UNCHANGED <<art, buf, block_off>>

(* macaddr_modify_wifi: the header says whether there is a block. *)
ReadHeader ==
    /\ pc = "header"
    /\ \E h \in art_read(Off, 1) :
          /\ IF HeaderOk(h[Off])
             THEN /\ pc' = "read" /\ buf' = h
                  /\ UNCHANGED <<job, result, before, edits>>
             ELSE Answer("error")
          /\ failed' = (h # Piece(Off, 1))
    /\ UNCHANGED <<art, block_off>>

(* The block or the first page of ART is read and changed. *)
ReadAndEdit ==
    /\ pc = "read"
    /\ LET size == IF job.kind = "base" THEN base_size ELSE art_cal_size(buf[Off])
       IN  \E f \in art_read(Off, size) :
             /\ buf' = IF job.kind = "base" THEN EditBase(f, job.index, job.mac)
                       ELSE EditWifi(f, job.index, job.mac)
             /\ failed' = (failed \/ f # Piece(Off, size))
    /\ block_off' = IF Chip = "nand" THEN Off - (Off % erase_size) ELSE Off
    /\ pc' = CASE Chip = "nor" -> "erase"
               [] Chip = "nand" -> "block"
               [] Chip = "emmc" -> "write"
    /\ UNCHANGED <<art, job, result, before, edits>>

ReadError ==
    /\ pc \in {"header", "read", "block"} /\ Chip # "emmc"
    /\ failed' = TRUE
    /\ Answer("error")
    /\ UNCHANGED <<art, block_off>>
-----------------------------------------------------------------------------
(* art_write on SPI-NOR: whole sectors are erased, the data is written.    *)
Erased(S) == [a \in DOMAIN art |-> IF a \in S THEN FF ELSE art[a]]
Written(S) == [a \in DOMAIN art |-> IF a \in S THEN buf[a] ELSE art[a]]
RoundUp(n) == ((n + erase_size - 1) \div erase_size) * erase_size
Sectors == Off..(Off + RoundUp(Cardinality(DOMAIN buf)) - 1)

(* spi_flash_cmd_erase_ops takes whole sectors only. *)
NorUnaligned ==
    /\ pc = "erase" /\ Chip = "nor" /\ Off % erase_size # 0
    /\ Answer("error")
    /\ UNCHANGED <<art, block_off, failed>>

NorErase ==
    /\ pc = "erase" /\ Chip = "nor" /\ Off % erase_size = 0
    /\ art' = Erased(Sectors)
    /\ pc' = "write"
    /\ UNCHANGED <<job, buf, block_off, result, before, failed, edits>>

NorWrite ==
    /\ pc = "write" /\ Chip = "nor"
    /\ art' = Written(DOMAIN buf)
    /\ Answer("ok")
    /\ UNCHANGED <<block_off, failed>>

(* art_write on eMMC: block by block, the rest of the last one 0xFF; the   *)
(* driver returns 0 for a block it did not write, which is no error here.  *)
EmmcBlock == block_off..(block_off + blksz - 1)
EmmcWrite ==
    /\ pc = "write" /\ Chip = "emmc"
    /\ \/ /\ art' = [a \in DOMAIN art |->
                       IF a \notin EmmcBlock THEN art[a]
                       ELSE IF a \in DOMAIN buf THEN buf[a] ELSE FF]
          /\ UNCHANGED failed
       \/ failed' = TRUE /\ UNCHANGED art
    /\ block_off' = block_off + blksz
    /\ IF block_off + blksz \in DOMAIN buf
       THEN UNCHANGED <<job, pc, buf, result, before, edits>>
       ELSE Answer("ok")

(* art_write on NAND: each erase block is read, changed, erased, written.  *)
(* The data must end in the block: what is left is not cut to the block.   *)
NandBlock == block_off..(block_off + erase_size - 1)
NandSpans == \E a \in DOMAIN buf : a >= block_off + erase_size

NandTooLong ==
    /\ pc = "block" /\ NandSpans
    /\ Answer("error")
    /\ UNCHANGED <<art, block_off, failed>>

NandEraseForgets ==
    /\ pc = "block" /\ ~NandSpans
    /\ buf' = [a \in NandBlock |-> IF a \in DOMAIN buf THEN buf[a] ELSE FF]
    /\ art' = Erased(NandBlock)
    /\ pc' = "program"
    /\ UNCHANGED <<job, block_off, result, before, failed, edits>>

NandErase ==
    /\ pc = "block" /\ ~NandSpans
    /\ buf' = [a \in NandBlock |-> IF a \in DOMAIN buf THEN buf[a] ELSE art[a]]
    /\ art' = Erased(NandBlock)
    /\ pc' = "program"
    /\ UNCHANGED <<job, block_off, result, before, failed, edits>>

NandWrite ==
    /\ pc = "program"
    /\ art' = Written(NandBlock)
    /\ block_off' = block_off + erase_size
    /\ Answer("ok")
    /\ UNCHANGED failed

(* An erase or a write fails: it did nothing, or it erased. *)
FlashFails ==
    /\ Chip # "emmc"
    /\ \/ pc = "erase" /\ Off % erase_size = 0 /\ art' \in {art, Erased(Sectors)}
       \/ pc = "block" /\ ~NandSpans /\ art' \in {art, Erased(NandBlock)}
       \/ pc \in {"write", "program"} /\ art' = art
    /\ failed' = TRUE
    /\ Answer("error")
    /\ UNCHANGED block_off

EditPowerLoss ==
    /\ pc # "idle"
    /\ pc' = "idle" /\ buf' = <<>>
    /\ UNCHANGED <<art, job, block_off, result, before, failed, edits>>
-----------------------------------------------------------------------------
ArtInit ==
    /\ board \in Board
    /\ art \in Arts /\ job = NoJob /\ pc = "idle" /\ buf = <<>> /\ block_off = 0
    /\ result = "none"
    /\ before = art /\ failed = FALSE /\ edits = 0

ArtNext ==
    /\ \/ \E kind \in {"base", "wifi"}, i \in 0..WifiMax, mac \in Macs :
             httpd_handle_mac_set(kind, i, mac)
       \/ ReadHeader \/ ReadAndEdit \/ ReadError
       \/ NorUnaligned \/ NorErase \/ NorWrite \/ EmmcWrite
       \/ NandTooLong \/ NandErase \/ NandWrite
       \/ FlashFails \/ EditPowerLoss
    /\ UNCHANGED board

ArtSpec == ArtInit /\ [][ArtNext]_artVars
-----------------------------------------------------------------------------
(* An edit that is answered "ok" put the address where it belongs, and the *)
(* calibration block of a radio has a right checksum: the driver of the    *)
(* radio refuses it otherwise.  The eMMC branch does not see a failed      *)
(* transfer, so this is without one.                                       *)
EditDone ==
    result = "ok" /\ ~failed =>
        IF job.kind = "base" THEN art[job.index] = job.mac
        ELSE /\ art[MacOff(job.index)] = job.mac
             /\ Xor(Piece(CalOff(job.index), art_cal_size(art[CalOff(job.index)]))) = FF

(* It changed nothing else, of this radio or of the others: calibration    *)
(* data is measured for the device.  An edit that is refused, for its      *)
(* header, its alignment or because it does not fit an erase block, left   *)
(* the partition as it was.                                                *)
OnlyMac ==
    result # "none" /\ ~failed =>
        \A a \in DOMAIN art :
            \/ art[a] = before[a]
            \/ result = "ok" /\ job.kind = "base" /\ a = job.index
            \/ result = "ok" /\ job.kind = "wifi" /\ a \in {MacOff(job.index), CsOff(job.index)}
=============================================================================
