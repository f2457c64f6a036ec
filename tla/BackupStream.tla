--------------------------- MODULE BackupStream ---------------------------
(***************************************************************************)
(* The bytes of a backup: httpd_handle_backup reads as much of the         *)
(* partition as fits into the RAM, backup_chunk_next reads the rest piece  *)
(* by piece, and one reader per kind of flash rounds each request to the   *)
(* pages, sectors or erase blocks it can read.  The model follows which    *)
(* bytes of the flash reach the client's file, with reads that fail or     *)
(* stop short, a client that goes away, and a partition table rewritten    *)
(* from the terminal in the middle.                                        *)
(***************************************************************************)
EXTENDS Integers, Sequences

CONSTANTS
    Board,       \* the flash of the board; "nor_nand": SPI-NOR, then NAND
    Part,        \* the partition: "nand_full", "rootfs" or another one
    WhichNand,   \* SMEM says that the partition is on NAND
    ReqSizes,    \* the size= of requests
    ram_avail,   \* CONFIG_SYS_SDRAM_END - WEBFAILSAFE_UPLOAD_RAM_ADDRESS
    part_total,  \* bytes of the partition
    chip_size,   \* bytes of the flash it is on
    Bases,       \* where it may begin
    blksz, erasesize, page_size, oob_size,
    total_pages, \* of the NAND chip
    Bad,         \* its bad erase blocks
    ShortReads   \* a raw read may stop at a page that cannot be read

raw_page_size == page_size + oob_size

ASSUME BackupAssumption ==
    /\ Board \in {"nand", "emmc", "nor", "nor_nand"}
    /\ Part \in {"nand_full", "rootfs", "other"}
    /\ WhichNand \in BOOLEAN /\ ShortReads \in BOOLEAN
    /\ ReqSizes \subseteq Nat \ {0}
    /\ ram_avail \in Nat \ {0} /\ part_total \in Nat \ {0}
    /\ total_pages \in Nat /\ Bases \subseteq Nat
    /\ blksz \in Nat \ {0} /\ erasesize \in Nat \ {0}
    /\ page_size \in Nat \ {0} /\ oob_size \in Nat
    /\ chip_size \in Nat /\ part_total <= chip_size
    /\ Part = "nand_full" =>
          Bases = {0} /\ part_total = chip_size /\ chip_size = total_pages * page_size

(* Partitions, their sizes and the RAM are made of whole sectors. *)
ASSUME SectorAssumption ==
    /\ ram_avail % blksz = 0 /\ part_total % blksz = 0
    /\ \A b \in Bases : b % blksz = 0

(* A page with its spare bytes fits into the RAM. *)
ASSUME PageAssumption == raw_page_size <= ram_avail

VARIABLES
    raw, total_size, chunked, chunk_offset, total_sent, total_remaining,
    sending_header, chunk_busy,   \* the fields of backup
    data,     \* the unsent bytes in the RAM
    cached,   \* emmc_cached_base_offset
    table,    \* where the partition begins
    open,     \* the connection of the backup
    length,   \* the Content-Length that was sent, 0: no answer 200
    file,     \* history: the bytes that the client has
    asked,    \* history: the request
    origin,   \* history: the beginning of the partition when it was asked for
    loaded    \* history: bytes that the last read wrote into the RAM

backup == <<raw, total_size, chunked, chunk_offset, total_sent, total_remaining,
            sending_header, chunk_busy>>
client == <<length, file, asked, origin>>
streamVars == <<backup, data, cached, table, open, client, loaded>>
-----------------------------------------------------------------------------
Unset == -1

Least(a, b) == IF a <= b THEN a ELSE b

(* Consecutive bytes of the flash, page by page with the spare bytes       *)
(* ("raw") or without ("data").                                            *)
Run(kind, at, n) == [kind |-> kind, at |-> at, n |-> n]

(* What a reader gives out that fails, or that has nothing to give: its    *)
(* callers make no difference between the two.                             *)
Nothing == Run("data", 0, 0)

Bytes(run, n) == [i \in 1..n |-> <<run.kind, run.at + i - 1>>]

(* Bytes of the partition from offset on, at most size of them. *)
Chunk(offset, size) ==
    IF offset < part_total THEN Least(size, part_total - offset) ELSE 0

(* Whole pages: at least one, at most to the end of the chip. *)
nand_raw_chunk_read(offset, size) ==
    LET start_page == offset \div raw_page_size
        wanted == IF size < raw_page_size THEN 1 ELSE size \div raw_page_size
        pages_avail == Least(wanted, total_pages - start_page)
        Read(pages) == Run("raw", start_page * raw_page_size, pages * raw_page_size)
    IN  IF start_page >= total_pages THEN {Nothing}
        ELSE {Nothing} \cup
             { Read(p) : p \in (IF ShortReads THEN 1 ELSE pages_avail)..pages_avail }

(* Mutant: the table is read for every piece. *)
EmmcBaseUncached == table

(* The partition that the cache names; else the table is read. *)
EmmcBase == IF cached # Unset THEN cached ELSE table

(* Whole sectors. *)
emmc_chunk_read(offset, size) ==
    LET num_sectors == (Chunk(offset, size) + blksz - 1) \div blksz
        start_sector == (EmmcBase + offset) \div blksz
    IN  {Nothing, Run("data", start_sector * blksz, num_sectors * blksz)}

sf_chunk_read(offset, size) ==
    {Nothing, Run("data", table + offset, Chunk(offset, size))}

(* Mutant: only the first block is looked at. *)
NandFirstBlock(offset, size) ==
    IF (table + offset) \div erasesize \in Bad THEN {Nothing}
    ELSE {Nothing, Run("data", table + offset, Chunk(offset, size))}

(* A bad block among those to read is an error. *)
nand_chunk_read(offset, size) ==
    LET first == table + offset
        n == Chunk(offset, size)
        blocks == (first \div erasesize)..((first + n - 1) \div erasesize)
    IN  IF n > 0 /\ blocks \cap Bad # {} THEN {Nothing}
        ELSE {Nothing, Run("data", first, n)}

OnNand == Part = "nand_full" \/ Board = "nand" \/ WhichNand
OnEmmc == ~OnNand /\ Board = "emmc"

flashread_partition_chunk(offset, size, r) ==
    IF OnNand THEN IF ~r THEN nand_chunk_read(offset, size)
                   ELSE IF Part = "nand_full" THEN nand_raw_chunk_read(offset, size)
                   ELSE {Nothing}
    ELSE IF OnEmmc THEN emmc_chunk_read(offset, size)
    ELSE IF Board = "nor_nand" /\ Part = "rootfs" THEN nand_raw_chunk_read(offset, size)
    ELSE sf_chunk_read(offset, size)

(* The first byte that a request is served from, and the form. *)
Begin(r) == IF r /\ OnNand THEN 0 ELSE IF OnEmmc THEN EmmcBase ELSE table
Form(r) == IF r /\ OnNand THEN "raw" ELSE "data"

(* The cache after a read. *)
Cache == cached' = IF OnEmmc THEN EmmcBase ELSE cached
-----------------------------------------------------------------------------
(* The partition or, when the table in use does not have it, the whole     *)
(* flash; 0 when the flash of the board is not known.                      *)
backup_flash_capacity(r) ==
    {0} \cup IF Part = "nand_full"
             THEN {IF r THEN total_pages * raw_page_size ELSE part_total}
             ELSE {part_total, chip_size}

(* httpd_handle_backup: the size is capped by the capacity, the first      *)
(* piece is read, and the answer is an error or the length of the file.    *)
Capped(size, capacity) ==
    IF capacity # 0 /\ size > capacity THEN capacity ELSE size

BackupFails(total, r) ==
    /\ Nothing \in flashread_partition_chunk(0, Least(total, ram_avail), r)
    /\ length' = 0 /\ loaded' = 0
    /\ total_size' = total
    /\ UNCHANGED <<chunked, chunk_offset, total_sent, total_remaining, sending_header,
                   chunk_busy, data, table, open>>

(* Mutant: the length of the first piece is announced. *)
BackupStartsShort(total, r) ==
    \E got \in flashread_partition_chunk(0, Least(total, ram_avail), r) :
        LET size == Least(got.n, total)
            all == total > ram_avail
        IN  /\ got.n > 0
            /\ chunked' = all
            /\ total_size' = IF all THEN total ELSE size
            /\ chunk_offset' = IF all THEN size ELSE 0
            /\ total_sent' = IF all THEN size ELSE 0
            /\ total_remaining' = IF all THEN total - size ELSE 0
            /\ data' = [got EXCEPT !.n = size]
            /\ length' = size
            /\ sending_header' = TRUE /\ open' = TRUE
            /\ loaded' = got.n
            /\ UNCHANGED <<chunk_busy, table>>

(* The rest is asked for only when the whole does not fit into the RAM. *)
BackupStarts(total, r) ==
    \E got \in flashread_partition_chunk(0, Least(total, ram_avail), r) :
        LET size == Least(got.n, total)
            all == total > ram_avail
        IN  /\ got.n > 0
            /\ chunked' = all
            /\ total_size' = IF all THEN total ELSE size
            /\ chunk_offset' = IF all THEN size ELSE 0
            /\ total_sent' = IF all THEN size ELSE 0
            /\ total_remaining' = IF all THEN total - size ELSE 0
            /\ data' = [got EXCEPT !.n = size]
            /\ length' = total_size'
            /\ sending_header' = TRUE /\ open' = TRUE
            /\ loaded' = got.n
            /\ UNCHANGED <<chunk_busy, table>>

httpd_handle_backup(size, r) ==
    /\ ~open
    /\ raw' = r
    /\ asked' = [size |-> size, raw |-> r]
    /\ file' = <<>>
    /\ Cache
    /\ origin' = Begin(r)
    /\ \E capacity \in backup_flash_capacity(r) :
          \/ BackupFails(Capped(size, capacity), r)
          \/ BackupStarts(Capped(size, capacity), r)

(* The connection is closed and, since it owns the transfer, the transfer  *)
(* state is cleared.                                                       *)
httpd_state_reset ==
    /\ raw' = FALSE /\ total_size' = 0 /\ chunked' = FALSE
    /\ chunk_offset' = 0 /\ total_sent' = 0 /\ total_remaining' = 0
    /\ sending_header' = FALSE /\ chunk_busy' = FALSE
    /\ data' = Nothing /\ cached' = Unset /\ open' = FALSE
    /\ UNCHANGED <<table, client, loaded>>

(* The header was acknowledged: the first piece follows. *)
SentHeader ==
    /\ open /\ sending_header
    /\ sending_header' = FALSE
    /\ UNCHANGED <<raw, total_size, chunked, chunk_offset, total_sent, total_remaining,
                   chunk_busy, data, cached, table, open, client, loaded>>

(* lwIP brings n bytes to the client. *)
httpd_send_data(n) ==
    /\ open /\ ~sending_header
    /\ file' = file \o Bytes(data, n)
    /\ data' = Run(data.kind, data.at + n, data.n - n)
    /\ UNCHANGED <<backup, cached, table, open, length, asked, origin, loaded>>

(* The piece was acknowledged. *)
Sent == open /\ ~sending_header /\ data.n = 0 /\ ~chunk_busy
More == chunked /\ total_remaining > 0

SentPiece ==
    /\ Sent /\ More
    /\ chunk_busy' = TRUE
    /\ UNCHANGED <<raw, total_size, chunked, chunk_offset, total_sent, total_remaining,
                   sending_header, data, cached, table, open, client, loaded>>

SentAll == Sent /\ ~More /\ httpd_state_reset

(* Mutant: a read without a byte is a piece. *)
NextPieceEmpty ==
    \E got \in flashread_partition_chunk(chunk_offset, Least(total_remaining, ram_avail), raw) :
        /\ chunk_offset' = chunk_offset + got.n
        /\ total_sent' = Least(total_sent + got.n, total_size)
        /\ data' = [got EXCEPT !.n = total_sent' - total_sent]
        /\ total_remaining' = total_size - total_sent'
        /\ chunk_busy' = FALSE
        /\ loaded' = got.n
        /\ Cache
        /\ UNCHANGED <<raw, total_size, chunked, sending_header, table, open, client>>

(* The next piece.  Readers round up, so the last one may be cut. *)
NextPiece ==
    \E got \in flashread_partition_chunk(chunk_offset, Least(total_remaining, ram_avail), raw) :
        /\ got.n > 0
        /\ chunk_offset' = chunk_offset + got.n
        /\ total_sent' = Least(total_sent + got.n, total_size)
        /\ data' = [got EXCEPT !.n = total_sent' - total_sent]
        /\ total_remaining' = total_size - total_sent'
        /\ chunk_busy' = FALSE
        /\ loaded' = got.n
        /\ Cache
        /\ UNCHANGED <<raw, total_size, chunked, sending_header, table, open, client>>

NoPiece ==
    /\ Nothing \in flashread_partition_chunk(chunk_offset, Least(total_remaining, ram_avail), raw)
    /\ httpd_state_reset

backup_chunk_next == open /\ chunk_busy /\ (NextPiece \/ NoPiece)

(* The client closes, its connection is lost, or the idle timer fires. *)
ConnectionLost == open /\ httpd_state_reset

(* A terminal command writes a partition table to the eMMC. *)
TableWritten(b) ==
    /\ OnEmmc /\ table' = b
    /\ UNCHANGED <<backup, data, cached, open, client, loaded>>
-----------------------------------------------------------------------------
StreamInit ==
    /\ raw = FALSE /\ total_size = 0 /\ chunked = FALSE
    /\ chunk_offset = 0 /\ total_sent = 0 /\ total_remaining = 0
    /\ sending_header = FALSE /\ chunk_busy = FALSE
    /\ data = Nothing /\ cached = Unset /\ table \in Bases /\ open = FALSE
    /\ length = 0 /\ file = <<>> /\ asked = [size |-> 0, raw |-> FALSE]
    /\ origin = 0 /\ loaded = 0

Transfer ==
    \/ SentHeader \/ SentPiece \/ SentAll \/ backup_chunk_next
    \/ \E n \in 1..data.n : httpd_send_data(n)

StreamNext ==
    \/ \E size \in ReqSizes, r \in BOOLEAN : httpd_handle_backup(size, r)
    \/ Transfer
    \/ ConnectionLost
    \/ \E b \in Bases : TableWritten(b)

StreamSpec == StreamInit /\ [][StreamNext]_streamVars

(* lwIP delivers and the poll loop goes on. *)
FairStreamSpec == StreamSpec /\ WF_streamVars(Transfer)
-----------------------------------------------------------------------------
StreamTypeOK ==
    /\ raw \in BOOLEAN /\ chunked \in BOOLEAN /\ sending_header \in BOOLEAN
    /\ chunk_busy \in BOOLEAN /\ open \in BOOLEAN
    /\ total_size \in Nat /\ chunk_offset \in Nat /\ total_sent \in Nat
    /\ total_remaining \in Nat /\ length \in Nat /\ loaded \in Nat
    /\ data \in [kind : {"raw", "data"}, at : Nat, n : Nat]
    /\ cached \in Bases \cup {Unset} /\ table \in Bases /\ origin \in Nat
    /\ file \in Seq({"raw", "data"} \X Nat)
    /\ asked \in [size : Nat, raw : BOOLEAN]

(* What the client has is the partition from its first byte on, none left  *)
(* out, repeated or taken from elsewhere, over all pieces, whatever the    *)
(* readers round; on eMMC also when the table is rewritten between two     *)
(* pieces.  With raw=1 it is the chip with its spare bytes.                *)
Contiguous ==
    \A i \in DOMAIN file :
        file[i] = <<Form(asked.raw), origin + i - 1>>

(* The pieces together are never longer than the Content-Length. *)
NotOverrun == Len(file) + data.n <= length \/ ~open

(* A client that got the Content-Length has all that it asked for and the  *)
(* flash holds, up to one raw page: a transfer that ends early never looks *)
(* complete.  The exception is a raw read that stops at a page it cannot   *)
(* read: httpd_handle_backup then announces what it has.                   *)
Available == IF asked.raw /\ OnNand THEN total_pages * raw_page_size ELSE part_total

Whole ==
    length > 0 /\ Len(file) = length /\ ~(asked.raw /\ ShortReads) =>
        \/ Len(file) = Least(asked.size, Available)
        \/ asked.raw /\ Len(file) + raw_page_size > Least(asked.size, Available)

(* A read writes no further than the end of the RAM. *)
FitsRam == loaded <= ram_avail

(* No byte of a bad block is given out without its spare bytes. *)
NoBadBlock ==
    OnNand => \A i \in DOMAIN file :
        file[i][1] = "data" => file[i][2] \div erasesize \notin Bad

(* Why the file is contiguous: what is in the RAM goes on where the file   *)
(* ends, the next read begins where the RAM ends, and that is at a sector  *)
(* or page boundary as long as there is something left to read.            *)
WholeUnits(r, n) ==
    (OnEmmc => n % blksz = 0) /\ (r /\ OnNand => n % raw_page_size = 0)

StreamInv ==
    /\ chunk_busy => open
    /\ open =>
      /\ raw = asked.raw /\ length = total_size
      /\ origin = Begin(raw) /\ (OnEmmc => cached # Unset)
      /\ Len(file) + data.n = IF chunked THEN total_sent ELSE total_size
      /\ data.n > 0 => data.kind = Form(raw) /\ data.at = origin + Len(file)
      /\ chunked => total_sent + total_remaining = total_size
      /\ More => chunk_offset = total_sent /\ WholeUnits(raw, chunk_offset)
      /\ chunk_busy => More /\ data.n = 0 /\ ~sending_header

(* Every backup ends, completely or by closing the connection. *)
Ends == open ~> ~open

=============================================================================
