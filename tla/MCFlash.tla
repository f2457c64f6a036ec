------------------------------ MODULE MCFlash ------------------------------
(* What is written to flash: uploads, by FlashUpgrade, and MAC addresses,  *)
(* by ArtEdit.  A run looks at one of the two at a time.                   *)
EXTENDS FlashUpgrade, ArtEdit

VARIABLE edit    \* is ArtEdit looked at
-----------------------------------------------------------------------------
(* Devices with small partitions. *)
MCPart == {"HLOS", "rootfs", "HLOS_1", "rootfs_1", "rootfs1", "rootfs2", "rootfs_data",
           "WIFIFW", "firmware", "BOOTCONFIG", "BOOTCONFIG1", "APPSBL", "APPSBL_1",
           "ART", "CDT", "CDT_1", "MIBIB", "GPT", "GPTBACKUP"}

Sizes(missing, small) ==
    [p \in MCPart |-> CASE p \in missing -> 0
                        [] p \in small -> 1
                        [] OTHER -> 2]

(* An eMMC device, with a backup rootfs that is smaller than the primary.  *)
EmmcCap == Sizes({"rootfs1", "rootfs2", "firmware", "MIBIB"},
                 {"HLOS", "HLOS_1", "rootfs_1"})
(* NAND devices with all four names, and with the usual two. *)
NandCap == Sizes({"HLOS", "HLOS_1", "WIFIFW", "firmware", "BOOTCONFIG", "BOOTCONFIG1",
                  "GPT", "GPTBACKUP"}, {})
NandTwoCap == [NandCap EXCEPT !["rootfs1"] = 0, !["rootfs2"] = 0]
NandNoBackupCap == [NandTwoCap EXCEPT !["APPSBL_1"] = 0, !["rootfs_1"] = 0]
NorCap == Sizes({"rootfs1", "rootfs2", "rootfs_1", "HLOS_1",
                 "GPT", "GPTBACKUP", "WIFIFW"}, {})

Img(type, fw, kernel, size) ==
    {[type |-> type, fw |-> fw, kernel |-> kernel, size |-> size, backup |-> b] : b \in BOOLEAN}

(* Firmware of one kernel block and one or two of root file system, one    *)
(* that no partition holds, and every other kind of upload.                *)
EmmcImage ==
    Img("FIRMWARE", "FIT", 1, 2) \cup Img("FIRMWARE", "FIT", 1, 3) \cup Img("FIRMWARE", "FIT", 2, 3) \cup
    Img("FIRMWARE", "SYSUPGRADE", 1, 2) \cup Img("FIRMWARE", "SYSUPGRADE", 1, 4) \cup
    Img("FIRMWARE", "QSDK", 1, 2) \cup Img("FIRMWARE", "UBI", 0, 1)
EmmcOtherImage ==
    Img("UBOOT", "ELF", 0, 1) \cup Img("UBOOT", "FIT", 0, 1) \cup Img("ART", "OTHER", 0, 1) \cup
    Img("ART", "ELF", 0, 1) \cup Img("CDT", "CDT", 0, 1) \cup Img("PTABLE", "GPT", 0, 1) \cup
    Img("IMG", "GPT", 0, 1) \cup Img("PTABLE", "MIBIB", 0, 1) \cup Img("MIBIB", "MIBIB", 0, 1)
NandImage == EmmcOtherImage \cup Img("FIRMWARE", "UBI", 0, 1) \cup Img("FIRMWARE", "FIT", 1, 2)
UbootImage == Img("UBOOT", "ELF", 0, 1)
NorImage == EmmcOtherImage \cup Img("FIRMWARE", "SYSUPGRADE", 1, 2)

Dev(kind, cap, images, silent) ==
    [flash |-> kind, cap |-> cap, images |-> images, silent |-> silent]

(* On the last two, flash commands claim successes they did not have.      *)
Devices == { Dev("MMC", EmmcCap, EmmcImage, FALSE), Dev("MMC", EmmcCap, EmmcOtherImage, FALSE),
             Dev("NAND", NandCap, NandImage, FALSE), Dev("NOR", NorCap, NorImage, FALSE),
             Dev("NAND", NandTwoCap, UbootImage, TRUE), Dev("NAND", NandNoBackupCap, UbootImage, TRUE) }
-----------------------------------------------------------------------------
(* Partitions of 24 words: headers that are missing, of the smaller and of *)
(* the larger size, and radios with and without a valid address.           *)
Filled(offs, h1, h2, w) ==
    [a \in 0..23 |->
        CASE a = offs[1] -> h1
          [] a = offs[2] -> h2
          [] a = offs[1] + 2 -> w
          [] OTHER -> {1 + (a % 3)}]

Brd(kind, old, offs, cal, erase, blk, headers) ==
    [flash |-> kind, ath10k |-> old, cal_offsets |-> offs, cal_size |-> cal,
     erase_size |-> erase, blksz |-> blk,
     arts |-> { Filled(offs, h1, h2, w) :
                  h1 \in {{1}, FF}, h2 \in headers, w \in {{2}, FF} }]

(* On NOR the second block is off the sectors of two words.  On eMMC every *)
(* block of a transfer may fail, so the blocks are of the smaller size.    *)
Boards == { Brd("nor", FALSE, <<2, 9>>, 6, 2, 1, {{1}, {1, 2}}),
            Brd("nand", FALSE, <<2, 8>>, 5, 8, 1, {{1}, {1, 2}}),
            Brd("nand", TRUE, <<2, 8>>, 5, 8, 1, {{1}, {1, 2}}),
            Brd("emmc", FALSE, <<2, 8>>, 6, 8, 2, {{1}}) }

NewMacs == {{3}, {}}
-----------------------------------------------------------------------------
AnyDevice == dev = (CHOOSE d \in Device : TRUE) /\ Init
AnyBoard ==
    /\ board = (CHOOSE b \in Board : TRUE) /\ art = (CHOOSE a \in board.arts : TRUE)
    /\ ArtInit

FlashInit ==
    \/ edit = FALSE /\ AnyBoard /\ Init
    \/ edit = TRUE /\ AnyDevice /\ ArtInit

FlashNext ==
    \/ ~edit /\ Next /\ UNCHANGED <<artVars, edit>>
    \/ edit /\ ArtNext /\ UNCHANGED <<vars, edit>>

FlashSpec == FlashInit /\ [][FlashNext]_<<vars, artVars, edit>>
=============================================================================
