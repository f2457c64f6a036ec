------------------------- MODULE SysupgradeParser -------------------------
(***************************************************************************)
(* parse_sysupgrade: where the kernel and the root file system are in an   *)
(* uploaded image.  The image is a tar archive, with or without 10 bytes   *)
(* before it, or a kernel followed by a squashfs.  Everything in it may be *)
(* wrong; what the parser gives out is written to flash as it is.          *)
(***************************************************************************)
EXTENDS Integers

CONSTANTS
    Upload,        \* the uploads: records [size, hdr, hsqs]
    max_entries,
    Wrap          \* one more than the largest u64

(* hdr: the places that hold "ustar" at 257, with what the rest of the     *)
(* header says: which of the two parts the name stands for, whether it is  *)
(* empty, and the value of tar_parse_size.  hsqs: the places that hold the *)
(* squashfs magic, with bytes_used.                                        *)
Header == [name : SUBSET {"kernel", "rootfs"}, empty : BOOLEAN, fsize : 0..(Wrap - 1)]

(* An image is far smaller than 2^64 bytes. *)
ASSUME ParserAssumption ==
    /\ max_entries \in Nat /\ Wrap \in Nat
    /\ \A m \in Upload :
          /\ m.size \in Nat /\ m.size + 512 < Wrap
          /\ DOMAIN m.hdr \subseteq Nat /\ DOMAIN m.hsqs \subseteq Nat
          /\ \A p \in DOMAIN m.hdr : m.hdr[p] \in Header
          /\ \A p \in DOMAIN m.hsqs : m.hsqs[p] \in 0..(Wrap - 1)

VARIABLES
    img, stage,
    header_off, pos, entry, invalid,
    kernel, rootfs   \* parts: where they are and how long; size 0: not found

parseVars == <<img, stage, header_off, pos, entry, invalid, kernel, rootfs>>
-----------------------------------------------------------------------------
NoPart == [at |-> 0, size |-> 0]
Failed == Wrap - 1   \* of tar_parse_size

At(a, n) == [at |-> a, size |-> n]

PaddedNot(fsize) == fsize

(* (fsize + 511) & ~511ULL *)
Padded(fsize) ==
    LET sum == (fsize + 511) % Wrap IN sum - (sum % 512)

(* Too short to hold a header: nothing is parsed. *)
Begin ==
    /\ stage = "begin"
    /\ header_off' = IF 0 \in DOMAIN img.hdr THEN 0 ELSE 10
    /\ pos' = header_off'
    /\ stage' = IF img.size < 512 \/ img.size < header_off' + 512 THEN "end"
             ELSE IF header_off' \in DOMAIN img.hdr THEN "tar" ELSE "scan"
    /\ UNCHANGED <<img, entry, invalid, kernel, rootfs>>

(* The loop goes on while there is room for a header, and a header. *)
AnotherEntry ==
    /\ entry < max_entries
    /\ pos < img.size /\ img.size - pos >= 512
    /\ pos \in DOMAIN img.hdr /\ ~img.hdr[pos].empty

TarEnd ==
    /\ stage = "tar" /\ ~AnotherEntry
    /\ stage' = "end"
    /\ UNCHANGED <<img, header_off, pos, entry, invalid, kernel, rootfs>>

TooLongPadded(fsize, room) == fsize = Failed \/ Padded(fsize) > room

(* The file must be inside the image, and its padding as well. *)
TooLong(fsize, room) ==
    fsize = Failed \/ fsize > room \/ Padded(fsize) > room

TarInvalid ==
    /\ stage = "tar" /\ AnotherEntry
    /\ TooLong(img.hdr[pos].fsize, img.size - (pos + 512))
    /\ invalid' = TRUE /\ stage' = "end"
    /\ UNCHANGED <<img, header_off, pos, entry, kernel, rootfs>>

(* The first kernel is taken; a rootfs is one that was not taken as kernel. *)
IsKernel(h) == h.fsize > 0 /\ kernel.size = 0 /\ "kernel" \in h.name
IsRootfs(h) == h.fsize > 0 /\ ~IsKernel(h) /\ rootfs.size = 0 /\ "rootfs" \in h.name

TarEntry ==
    /\ stage = "tar" /\ AnotherEntry
    /\ LET h == img.hdr[pos]
           data == pos + 512
       IN  /\ ~TooLong(h.fsize, img.size - data)
           /\ kernel' = IF IsKernel(h) THEN At(data, h.fsize) ELSE kernel
           /\ rootfs' = IF IsRootfs(h) THEN At(data, h.fsize) ELSE rootfs
           /\ pos' = data + Padded(h.fsize)
           /\ entry' = entry + 1
    /\ UNCHANGED <<img, stage, header_off, invalid>>

(* The first magic in steps of four. *)
Hits == { i \in DOMAIN img.hsqs :
            i >= header_off /\ (i - header_off) % 4 = 0 /\ i + 4 <= img.size }

ScanNothing ==
    /\ stage = "scan" /\ Hits = {}
    /\ stage' = "end"
    /\ UNCHANGED <<img, header_off, pos, entry, invalid, kernel, rootfs>>

(* The superblock says how long the file system is. *)
ScanHit(i) ==
    /\ stage = "scan" /\ i \in Hits /\ \A j \in Hits : i <= j
    /\ \/ /\ i + 48 > img.size
          /\ invalid' = TRUE
          /\ UNCHANGED <<kernel, rootfs>>
       \/ /\ i + 48 <= img.size
          /\ kernel' = At(header_off, i - header_off)
          /\ \/ /\ img.hsqs[i] = 0 \/ img.hsqs[i] > img.size - i
                /\ invalid' = TRUE /\ rootfs' = At(i, 0)
             \/ /\ img.hsqs[i] # 0 /\ img.hsqs[i] <= img.size - i
                /\ rootfs' = At(i, img.hsqs[i]) /\ UNCHANGED invalid
    /\ stage' = "end"
    /\ UNCHANGED <<img, header_off, pos, entry>>

(* Both parts are given out, or none. *)
Finish ==
    /\ stage = "end" /\ stage' = "done"
    /\ LET ok == ~invalid /\ kernel.size # 0 /\ rootfs.size # 0
       IN  /\ kernel' = IF ok THEN kernel ELSE NoPart
           /\ rootfs' = IF ok THEN rootfs ELSE NoPart
    /\ UNCHANGED <<img, header_off, pos, entry, invalid>>
-----------------------------------------------------------------------------
ParseInit ==
    /\ img \in Upload /\ stage = "begin"
    /\ header_off = 0 /\ pos = 0 /\ entry = 0 /\ invalid = FALSE
    /\ kernel = NoPart /\ rootfs = NoPart

ParseNext ==
    \/ Begin \/ TarEnd \/ TarInvalid \/ TarEntry
    \/ ScanNothing \/ (\E i \in DOMAIN img.hsqs : ScanHit(i)) \/ Finish

ParseSpec == ParseInit /\ [][ParseNext]_parseVars
-----------------------------------------------------------------------------
ParseTypeOK ==
    /\ stage \in {"begin", "tar", "scan", "end", "done"}
    /\ header_off \in {0, 10} /\ pos \in Nat /\ entry \in 0..max_entries
    /\ invalid \in BOOLEAN
    /\ kernel \in [at : Nat, size : Nat] /\ rootfs \in [at : Nat, size : Nat]

(* What is given out lies in the upload: the addresses and sizes go into   *)
(* the commands that write the flash, which would take any memory.         *)
Inside(part) == part.at + part.size <= img.size
PartsInside == stage = "done" => Inside(kernel) /\ Inside(rootfs)

(* The two parts do not overlap. *)
PartsDisjoint ==
    stage = "done" => \/ kernel.at + kernel.size <= rootfs.at
                   \/ rootfs.at + rootfs.size <= kernel.at

(* Both parts have a length, or neither: the upgrade of a kernel without   *)
(* its root file system would leave a device that does not boot.           *)
BothOrNone == stage = "done" => (kernel.size = 0 <=> rootfs.size = 0)

(* The archive as tar means it, without the loop: where the n-th header    *)
(* is, and which headers are read.                                         *)
Ceil(n) == 512 * ((n + 511) \div 512)
Place[n \in 0..max_entries] ==
    IF n = 0 THEN header_off
    ELSE LET q == Place[n - 1]
         IN  IF q \in DOMAIN img.hdr THEN q + 512 + Ceil(img.hdr[q].fsize) ELSE q
HeaderAt(n) ==
    Place[n] \in DOMAIN img.hdr /\ ~img.hdr[Place[n]].empty /\ Place[n] + 512 <= img.size
FileFits(n) == Place[n] + 512 + Ceil(img.hdr[Place[n]].fsize) <= img.size
Files == { n \in 0..(max_entries - 1) : \A j \in 0..n : HeaderAt(j) /\ FileFits(j) }
Broken == \E n \in 0..(max_entries - 1) : 0..(n - 1) \subseteq Files /\ HeaderAt(n) /\ ~FileFits(n)
Named(part) == { n \in Files : part \in img.hdr[Place[n]].name /\ img.hdr[Place[n]].fsize > 0 }
IsFirst(n, S) == n \in S /\ \A j \in S : n <= j
FileOf(n) == At(Place[n] + 512, img.hdr[Place[n]].fsize)

(* Of an archive the parser gives out the first kernel and the first root  *)
(* file system that is not that kernel; it gives out nothing when a file   *)
(* runs past the end, or when one of the two is not among the first        *)
(* max_entries.                                                            *)
ArchiveRead ==
    stage = "done" /\ header_off \in DOMAIN img.hdr /\ img.size >= header_off + 512 =>
        LET Taken == { t \in Files \X Files :
                         /\ IsFirst(t[1], Named("kernel"))
                         /\ IsFirst(t[2], Named("rootfs") \ {t[1]}) }
        IN  IF Broken \/ Taken = {}
            THEN kernel = NoPart /\ rootfs = NoPart
            ELSE \E t \in Taken : kernel = FileOf(t[1]) /\ rootfs = FileOf(t[2])
=============================================================================
