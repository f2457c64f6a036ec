--------------------------- MODULE MCSysupgrade ---------------------------
(* The three steps of a sysupgrade that nothing but the image connects:    *)
(* the size field of a tar header, the parts of the archive, the volumes   *)
(* on NAND.  A run looks at one of them at a time, the other two rest.     *)
EXTENDS UbiVolumes, SysupgradeParser, SequencesExt

CONSTANTS len, ULLMax, Digits
VARIABLES
    s, digit, val, seen, fsize,
    part    \* the step that is looked at

tarVars == <<s, digit, val, seen, fsize>>
Tar == INSTANCE TarSize WITH i <- digit, ret <- fsize

SomeDigits == {0, 1, 7}
-----------------------------------------------------------------------------
Vols(k, r, k1, r1, d) ==
    [v \in Vol |-> CASE v = "kernel" -> k [] v = "rootfs" -> r [] v = "kernel_1" -> k1
                     [] v = "rootfs_1" -> r1 [] v = "rootfs_data" -> d]

(* Without a backup, with one, full with and without rootfs_data, empty.    *)
AnyLayout == { Vols(1, 2, 0, 0, 4), Vols(1, 2, 1, 2, 1), Vols(2, 3, 2, 2, 0),
               Vols(1, 2, 2, 3, 1), Vols(0, 0, 0, 0, 0) }

(* Sizes in bytes, two to a block: exact, rounded up and too large.  The   *)
(* parser gives out both parts or none.                                    *)
AnyImage == [kernel : {3}, rootfs : {3, 7}, backup : BOOLEAN]
-----------------------------------------------------------------------------
(* Archives of up to four files, and kernels with a squashfs.              *)
U64 == 8192

File(names, sizes) == [name : names, empty : {FALSE}, fsize : sizes]

(* Any names in any order; and any size, those that wrap included.  The  *)
(* third form of a header is the block of zeros at the end.              *)
Archives ==
    SeqOf(File(SUBSET {"kernel", "rootfs"}, {600}), 4)
    \cup SeqOf(File({{}, {"kernel"}, {"rootfs"}}, {0, 1, 513, U64 - 100, U64 - 1})
               \cup [name : {{}}, empty : {TRUE}, fsize : {0}], 2)

(* Where the headers of an archive are; a file that does not fit is the  *)
(* last one.                                                             *)
Round(n) == 512 * ((n + 511) \div 512)
Starts(a, off) ==
    FoldLeft(LAMBDA ps, f : Append(ps, ps[Len(ps)] + 512 + (IF f.fsize < 4096 THEN Round(f.fsize) ELSE 0)),
             <<off>>, a)

(* The whole archive, with the end of the last file's padding missing, or *)
(* with the last file missing.                                           *)
Archive(a, off, cut) ==
    LET at == Starts(a, off)
        end == at[Len(at)]
    IN  [size |-> IF cut > end THEN 0 ELSE end - cut,
         hdr |-> [p \in { at[i] : i \in 1..Len(a) } |->
                    a[CHOOSE i \in 1..Len(a) : at[i] = p]],
         hsqs |-> <<>>]

(* Squashfs magics at the start, off the grid, twice, or near the end.   *)
Plain(size, at, used) ==
    [size |-> size, hdr |-> <<>>, hsqs |-> [p \in at |-> used]]

Uploads ==
    { Archive(a, off, cut) : a \in Archives \ {<<>>}, off \in {0, 10}, cut \in {0, 1, 512} }
    \cup { Plain(size, at, used) :
             size \in {0, 511, 512, 521, 522, 600},
             at \in SUBSET {8, 10, 13, 14, 470, 474, 558, 598},
             used \in {0, 1, 48, 52, 130, U64 - 1} }
-----------------------------------------------------------------------------
AnyField == s = [j \in 1..len |-> Tar!Blank] /\ Tar!Init
AnyUpload == img = (CHOOSE m \in Upload : TRUE) /\ ParseInit
AnyDevice == vtbl = (CHOOSE l \in Layout : TRUE) /\ Init

StepInit ==
    \/ part = "size" /\ AnyUpload /\ AnyDevice /\ Tar!Init
    \/ part = "parts" /\ AnyField /\ AnyDevice /\ ParseInit
    \/ part = "volumes" /\ AnyField /\ AnyUpload /\ Init

StepNext ==
    \/ part = "size" /\ Tar!Next /\ UNCHANGED <<vars, parseVars, part>>
    \/ part = "parts" /\ ParseNext /\ UNCHANGED <<vars, tarVars, part>>
    \/ part = "volumes" /\ Next /\ UNCHANGED <<parseVars, tarVars, part>>

StepSpec == StepInit /\ [][StepNext]_<<vars, parseVars, tarVars, part>>

(* The size field is read for what it says: Tar!SizeRight, of             *)
(* tar_parse_size.                                                         *)
SizeRight == Tar!SizeRight
=============================================================================
