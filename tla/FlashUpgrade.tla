--------------------------- MODULE FlashUpgrade ---------------------------
(***************************************************************************)
(* What an accepted upload does to the flash: the command lines that the   *)
(* do_*_upgrade functions of net/httpd.c build, the way the HUSH parser    *)
(* runs a line and turns the results of its commands into one, the flash   *)
(* and flashread commands, and the read-back of U-Boot.  Commands may      *)
(* fail, may claim a success they did not have, and power may be lost at   *)
(* any point; the next upload then meets the flash as it was left.         *)
(*                                                                         *)
(* RAM and partitions hold blocks of 2 MiB, the distance between the image *)
(* and the area it is read back into.  Of a block the model knows which    *)
(* upload it comes from and its place in that image.                       *)
(***************************************************************************)
EXTENDS Integers, Sequences, FiniteSets

CONSTANTS
    Part,        \* the partitions the code names
    Device,      \* the devices: records [flash, cap, images, silent]
    MaxUploads   \* uploads, the retries after a power loss included

(* flash: what get_current_flash_type says.  cap: the sizes of the         *)
(* partitions in blocks, 0 for one that the device lacks.  images: the     *)
(* uploads to try, records [type, fw, kernel, size, backup].  silent: may  *)
(* a flash command fail and return 0.                                      *)
ASSUME FlashAssumption ==
    /\ MaxUploads \in Nat
    /\ \A d \in Device :
          /\ d.flash \in {"MMC", "NAND", "NOR"} /\ d.silent \in BOOLEAN
          /\ d.cap \in [Part -> Nat]
          /\ \A m \in d.images : /\ m.size \in Nat \ {0}
                                 /\ m.kernel \in 0..m.size
                                 /\ m.backup \in BOOLEAN
          /\ \E n \in {m.size : m \in d.images} : \A m \in d.images : m.size <= n
ASSUME PartAssumption ==
    {"HLOS", "rootfs", "HLOS_1", "rootfs_1", "rootfs1", "rootfs2", "rootfs_data", "WIFIFW",
     "firmware", "BOOTCONFIG", "BOOTCONFIG1", "APPSBL", "APPSBL_1", "ART", "CDT", "CDT_1",
     "MIBIB", "GPT", "GPTBACKUP"} \subseteq Part

VARIABLES
    dev,      \* the device
    part,     \* what each partition holds: a sequence of blocks
    ram,      \* the blocks from UPLOAD_ADDR on
    up,       \* the upload being flashed, an element of dev.images
    lines,    \* the command lines still to run, the current one first
    erased,   \* the current flash command has erased and not yet written
    status,   \* "idle", "running", "ok", "failed" or "off"
    uploads,  \* history: uploads so far; numbers the images
    start,    \* history: part when the current upload began
    fault     \* history: a command of the current upload failed

vars == <<dev, part, ram, up, lines, erased, status, uploads, start, fault>>
-----------------------------------------------------------------------------
Flash == dev.flash
Cap == dev.cap
Image == dev.images

(* Blocks: of image n the i-th, <<n, i>>, n > 0. *)
Old == <<0, 0>>           \* what the device was shipped with
Torn == <<-1, 0>>         \* erased or partly written
Elsewhere == <<-2, 0>>    \* eMMC blocks that are not BOOTCONFIG
Selected == <<-3, 0>>     \* a boot configuration that selects the primary

ImageOf(n, m) == [i \in 1..m.size |-> <<n, i>>]

(* The part of an image of upload n from block a to block b. *)
Slice(n, a, b) == [i \in 1..(b - a) |-> <<n, a + i>>]

flash(p, a, b) == [op |-> "flash", part |-> p, from |-> a, to |-> b]
Cmd(op, p) == [op |-> op, part |-> p, from |-> 0, to |-> 0]

(* A command line and what its caller does when it fails. *)
Must(cmds) == [cmds |-> cmds, onfail |-> "return"]
May(cmds) == [cmds |-> cmds, onfail |-> "ignore"]
-----------------------------------------------------------------------------
(* update_bootconfig: the result of the mw line is not looked at. *)
update_bootconfig ==
    << Must(<<Cmd("mmc_read", "BOOTCONFIG")>>),
       May(<<Cmd("mw", "BOOTCONFIG")>>),
       Must(<<flash("BOOTCONFIG", 0, 1), flash("BOOTCONFIG1", 0, 1)>>) >>

(* get_firmware_size: the first of the names that has a size. *)
get_firmware_size ==
    LET Named(s) == SelectSeq(s, LAMBDA p : Cap[p] > 0)
        found == Named(<<"rootfs", "rootfs1", "rootfs2", "rootfs_1">>)
    IN  IF found = <<>> THEN 0 ELSE Cap[Head(found)]

(* The size checks of the eMMC branch for FIT and SYSUPGRADE images. *)
Accepted(m) ==
    /\ Cap["HLOS"] > 0 /\ get_firmware_size > 0
    /\ m.kernel > 0 /\ m.kernel < m.size
    /\ m.kernel <= Cap["HLOS"]
    /\ m.size - m.kernel <= get_firmware_size

BackupFits(m) == /\ m.kernel <= Cap["HLOS_1"]
                 /\ m.size - m.kernel <= Cap["rootfs_1"]

(* Mutant: the result of the primary copy is not looked at. *)
EmmcCopiesUnchecked(m) ==
    LET Both(h, r) == May(<<flash(h, 0, m.kernel), flash(r, m.kernel, m.size)>>)
    IN  <<Both("HLOS", "rootfs")>> \o IF m.backup THEN <<Both("HLOS_1", "rootfs_1")>> ELSE <<>>

(* The primary copy, then the backup copy if it is asked for and fits:    *)
(* FIT in one line per copy, SYSUPGRADE in one line per partition.        *)
EmmcCopies(m) ==
    LET Kernel(h) == flash(h, 0, m.kernel)
        Root(r) == flash(r, m.kernel, m.size)
        Row(cmds, onfail) == [cmds |-> cmds, onfail |-> onfail]
        Copy(h, r, onfail) ==
            IF m.fw = "FIT" THEN <<Row(<<Kernel(h), Root(r)>>, onfail)>>
            ELSE <<Row(<<Kernel(h)>>, onfail), Row(<<Root(r)>>, onfail)>>
    IN  Copy("HLOS", "rootfs", "return") \o
        IF m.backup /\ BackupFits(m) THEN Copy("HLOS_1", "rootfs_1", "ignore") ELSE <<>>

(* The QSDK image, whose components imxtract finds. *)
QsdkLine(m) ==
    LET k == m.kernel IN
    Must(<< Cmd("imxtract", "HLOS"), flash("HLOS", 0, k),
            Cmd("imxtract", "rootfs"), flash("rootfs", k, m.size),
            Cmd("imxtract", "WIFIFW"), flash("WIFIFW", k, m.size) >>)

UbiLine(m) ==
    LET Copy(p) == flash(p, 0, m.size)
    IN  Must(<<Copy("rootfs"), Copy("rootfs1"), Copy("rootfs2")>> \o
             IF m.backup THEN <<Copy("rootfs_1")>> ELSE <<>>)

(* Mutant: the boot configuration is switched before the copies. *)
FirmwareSwitchFirst(m) ==
    IF Flash = "MMC" /\ m.fw \in {"FIT", "SYSUPGRADE"} /\ Accepted(m)
    THEN update_bootconfig \o EmmcCopies(m) ELSE <<>>

(* The lines of each upgrade; the empty sequence is a refusal, which      *)
(* returns -1 before any command.                                         *)
do_firmware_upgrade(m) ==
    LET tail == <<May(<<Cmd("flasherase", "rootfs_data")>>)>> \o update_bootconfig
    IN  CASE Flash = "MMC" /\ m.fw \in {"FIT", "SYSUPGRADE"} /\ Accepted(m) ->
               EmmcCopies(m) \o tail
          [] Flash = "MMC" /\ m.fw = "QSDK" -> <<QsdkLine(m)>> \o tail
          [] Flash = "NAND" /\ m.fw = "UBI" -> <<UbiLine(m)>>
          [] Flash = "NOR" /\ m.fw \in {"FIT", "SYSUPGRADE"} ->
               <<Must(<<Cmd("sf_probe", "firmware"), flash("firmware", 0, m.size)>>)>>
          [] OTHER -> <<>>

(* mw behind the image, mmc dev 0. *)
Prepare == IF Flash = "MMC" THEN <<Cmd("prepare", "APPSBL")>> ELSE <<>>

(* Mutants: no read-back, and a failed primary write that goes on. *)
UbootUnverified(m) ==
    <<Must(<<flash("APPSBL", 0, m.size)>>)>> \o
    IF m.backup THEN <<Must(<<flash("APPSBL_1", 0, m.size)>>)>> ELSE <<>>
do_uboot_upgrade(m) ==
    LET Write(p) == <<Must(<<flash(p, 0, m.size)>>), Must(<<Cmd("verify", p)>>)>>
    IN  IF m.fw # "ELF" THEN <<>>
        ELSE (IF Prepare = <<>> THEN <<>> ELSE <<Must(Prepare)>>)
             \o Write("APPSBL")
             \o IF m.backup THEN Write("APPSBL_1") ELSE <<>>

do_art_upgrade(m) ==
    IF m.fw \in {"CDT", "ELF", "GPT", "MIBIB"} THEN <<>>
    ELSE <<Must(Prepare \o <<flash("ART", 0, m.size)>>)>>

(* Mutant: the backup is forgotten. *)
CdtPrimaryOnly(m) ==
    IF m.fw # "CDT" THEN <<>> ELSE <<Must(Prepare \o <<flash("CDT", 0, m.size)>>)>>

do_cdt_upgrade(m) ==
    IF m.fw # "CDT" THEN <<>>
    ELSE <<Must(Prepare \o <<flash("CDT", 0, m.size)>> \o
                IF m.backup THEN <<flash("CDT_1", 0, m.size)>> ELSE <<>>)>>

do_gpt_upgrade(m) ==
    IF m.fw # "GPT" \/ Flash # "MMC" THEN <<>>
    ELSE <<Must(<<flash("GPT", 0, m.size)>> \o
                IF m.backup THEN <<flash("GPTBACKUP", 0, m.size)>> ELSE <<>>)>>

(* A failed write of MIBIB reloads the table and writes once more. *)
do_mibib_upgrade(m) ==
    IF m.fw # "MIBIB" \/ Flash = "MMC" THEN <<>>
    ELSE <<[cmds |-> <<flash("MIBIB", 0, m.size)>>, onfail |-> "reload"]>>

do_ptable_upgrade(m) ==
    CASE m.fw = "GPT" -> do_gpt_upgrade(m)
      [] m.fw = "MIBIB" -> do_mibib_upgrade(m)
      [] OTHER -> <<>>

do_http_upgrade(m) ==
    CASE m.type = "FIRMWARE" -> do_firmware_upgrade(m)
      [] m.type = "UBOOT" -> do_uboot_upgrade(m)
      [] m.type = "ART" -> do_art_upgrade(m)
      [] m.type = "CDT" -> do_cdt_upgrade(m)
      [] m.type = "MIBIB" -> do_mibib_upgrade(m)
      [] m.type = "PTABLE" -> do_ptable_upgrade(m)
      [] m.type = "IMG" -> do_gpt_upgrade(m)
      [] OTHER -> <<>>
-----------------------------------------------------------------------------
(* The parser: run_list_real goes on along && while commands return 0; a   *)
(* command that returns less than -1 ends the line as "exit" does, and     *)
(* parse_stream_outer makes that a 0.                                      *)
LineOver(code, line) == code # 0 \/ Len(line.cmds) = 1
run_command(code) == IF code = 0 \/ code < -1 THEN 0 ELSE 1

(* The command that was run returns code: the rest of the line, the next   *)
(* line, or the end of the upgrade.                                        *)
Return(code) ==
    LET line == Head(lines)
        rest == Tail(lines)
        failed == run_command(code) # 0
    IN  /\ erased' = FALSE
        /\ \/ /\ ~LineOver(code, line)
              /\ lines' = <<[line EXCEPT !.cmds = Tail(@)]>> \o rest
              /\ status' = status
           \/ /\ LineOver(code, line)
              /\ ~failed \/ line.onfail = "ignore"
              /\ lines' = rest
              /\ status' = IF rest = <<>> THEN "ok" ELSE status
           \/ /\ LineOver(code, line) /\ failed /\ line.onfail = "reload"
              /\ lines' = <<Must(<<Cmd("mibib_reload", "MIBIB")>>), Must(line.cmds)>>
              /\ status' = status
           \/ /\ LineOver(code, line) /\ failed /\ line.onfail = "return"
              /\ lines' = <<>>
              /\ status' = "failed"
-----------------------------------------------------------------------------
cmd == Head(Head(lines).cmds)
Running(op) == status = "running" /\ cmd.op = op

(* do_flash without an erase: the partition is not found, -ENOENT from the *)
(* SMEM table and CMD_RET_FAILURE from the GPT, or it is too small.        *)
flash_refused ==
    /\ Running("flash") /\ ~erased
    /\ cmd.to - cmd.from > Cap[cmd.part]
    /\ Return(IF Cap[cmd.part] = 0 /\ Flash # "MMC" THEN -2 ELSE 1)
    /\ UNCHANGED <<part, ram, up, uploads, start, fault>>

(* write_to_flash erases, then writes. *)
flash_erase ==
    /\ Running("flash") /\ ~erased
    /\ cmd.to - cmd.from <= Cap[cmd.part]
    /\ part' = [part EXCEPT ![cmd.part] = <<Torn>>]
    /\ erased' = TRUE
    /\ UNCHANGED <<ram, up, lines, status, uploads, start, fault>>

flash_write ==
    /\ Running("flash") /\ erased
    /\ part' = [part EXCEPT ![cmd.part] =
                   [i \in 1..(cmd.to - cmd.from) |-> ram[cmd.from + i]]]
    /\ Return(0)
    /\ UNCHANGED <<ram, up, uploads, start, fault>>

(* The erase or the write fails. *)
flash_fails ==
    /\ Running("flash") /\ erased
    /\ Return(1)
    /\ fault' = TRUE
    /\ UNCHANGED <<part, ram, up, uploads, start>>

(* "a silent NAND failure can leave the old image in place while still     *)
(* returning success"; or leave it half written.                           *)
flash_silent ==
    /\ dev.silent /\ Running("flash")
    /\ cmd.to - cmd.from <= Cap[cmd.part]
    /\ Return(0)
    /\ fault' = TRUE
    /\ UNCHANGED <<part, ram, up, uploads, start>>

(* verify_flashed_image: flashread into the blocks from 1 on, then memcmp  *)
(* with the image.  flashread reports a missing partition as a usage       *)
(* error, and reads no more than the partition has.                        *)
verify_flashed_image ==
    LET p == cmd.part
        Read(i) == IF i <= Len(part[p]) THEN part[p][i] ELSE Torn
        area == [i \in DOMAIN ram |->
                   IF i \in 2..(up.size + 1) THEN Read(i - 1) ELSE ram[i]]
        same == \A i \in 1..up.size : area[i] = area[i + 1]
    IN  /\ Running("verify")
        /\ Cap[p] > 0 /\ up.size <= 4
        /\ ram' = area
        /\ Return(IF same THEN 0 ELSE 1)
        /\ UNCHANGED <<part, up, uploads, start, fault>>

verify_unread ==
    /\ Running("verify")
    /\ \/ /\ Cap[cmd.part] = 0 \/ up.size > 4
          /\ fault' = fault
       \/ fault' = TRUE
    /\ Return(1)
    /\ UNCHANGED <<part, ram, up, uploads, start>>

(* update_bootconfig reads at get_bootconfig_offset_blocks(), which looks  *)
(* the name up in the SMEM table alone; on eMMC that table is empty and    *)
(* the offset is 0.                                                        *)
mmc_read ==
    /\ Running("mmc_read")
    /\ ram' = [ram EXCEPT ![1] = Elsewhere]
    /\ Return(0)
    /\ UNCHANGED <<part, up, uploads, start, fault>>

(* mw.b on three bytes: a boot configuration then selects the primary. *)
mw ==
    /\ Running("mw")
    /\ ram' = [ram EXCEPT ![1] = IF @ = Old THEN Selected ELSE @]
    /\ Return(0)
    /\ UNCHANGED <<part, up, uploads, start, fault>>

flasherase ==
    /\ Running("flasherase")
    /\ part' = [part EXCEPT ![cmd.part] = IF Cap[cmd.part] > 0 THEN <<>> ELSE @]
    /\ Return(IF Cap[cmd.part] > 0 THEN 0 ELSE 1)
    /\ UNCHANGED <<ram, up, uploads, start, fault>>

(* The commands that leave flash and image alone: imxtract, sf probe,      *)
(* mmc dev, mibib_reload.                                                  *)
Quiet == {"imxtract", "sf_probe", "prepare", "mibib_reload"}
quiet_command ==
    /\ status = "running" /\ cmd.op \in Quiet
    /\ Return(0)
    /\ UNCHANGED <<part, ram, up, uploads, start, fault>>

command_fails ==
    /\ status = "running"
    /\ cmd.op \in Quiet \cup {"mmc_read", "mw", "flasherase"}
    /\ Return(1)
    /\ fault' = TRUE
    /\ UNCHANGED <<part, ram, up, uploads, start>>
-----------------------------------------------------------------------------
(* An upload was received and do_http_upgrade is called.  The device must  *)
(* have come up for that: one of the copies of U-Boot is whole.            *)
Alive == \E p \in {"APPSBL", "APPSBL_1"} : Cap[p] > 0 /\ Torn \notin {part[p][i] : i \in DOMAIN part[p]}

Upload(m) ==
    /\ status # "running" /\ uploads < MaxUploads
    /\ Alive
    /\ uploads' = uploads + 1
    /\ up' = m
    /\ ram' = [i \in DOMAIN ram |-> IF i <= m.size THEN <<uploads + 1, i>> ELSE Torn]
    /\ lines' = do_http_upgrade(m)
    /\ status' = IF do_http_upgrade(m) = <<>> THEN "failed" ELSE "running"
    /\ start' = part
    /\ erased' = FALSE /\ fault' = FALSE
    /\ UNCHANGED part

PowerLoss ==
    /\ status = "running"
    /\ status' = "off"
    /\ lines' = <<>> /\ erased' = FALSE
    /\ UNCHANGED <<part, ram, up, uploads, start, fault>>
-----------------------------------------------------------------------------
MaxSize == CHOOSE n \in {m.size : m \in Image} : \A m \in Image : m.size <= n

Init ==
    /\ dev \in Device
    /\ part = [p \in Part |-> IF Cap[p] > 0 THEN <<Old>> ELSE <<>>]
    /\ ram = [i \in 1..(MaxSize + 1) |-> Torn]
    /\ up = CHOOSE m \in Image : TRUE
    /\ lines = <<>> /\ erased = FALSE /\ status = "idle"
    /\ uploads = 0 /\ start = part /\ fault = FALSE

Command ==
    \/ flash_refused \/ flash_erase \/ flash_write \/ flash_fails \/ flash_silent
    \/ verify_flashed_image \/ verify_unread \/ mmc_read \/ mw \/ flasherase
    \/ quiet_command \/ command_fails

Next == ((\E m \in Image : Upload(m)) \/ Command \/ PowerLoss) /\ UNCHANGED dev

Spec == Init /\ [][Next]_vars
-----------------------------------------------------------------------------
(* A copy of the firmware or of U-Boot is whole in f: its partitions exist *)
(* and were written completely, from one image.                            *)
Whole(copy, f) ==
    /\ \A p \in copy : f[p] # <<>>
    /\ \E n \in 0..uploads : \A p \in copy : \A i \in DOMAIN f[p] : f[p][i][1] = n

Primary == IF Flash = "MMC" THEN {"HLOS", "rootfs"} ELSE {"rootfs"}
Backup == IF Flash = "MMC" THEN {"HLOS_1", "rootfs_1"} ELSE {"rootfs_1"}

(* do_firmware_upgrade never leaves the device without a system: as long   *)
(* as the backup was whole when the upgrade began, one copy is whole at    *)
(* every point of it, power lost or commands failed.  The backup is        *)
(* written only after the primary is complete.                             *)
FirmwareSurvives ==
    Whole(Backup, start) => Whole(Primary, part) \/ Whole(Backup, part)

(* do_uboot_upgrade never leaves the device without a boot loader, even if *)
(* flash commands lie about their success: the read-back stands between    *)
(* the two copies.                                                         *)
UbootSurvives ==
    Whole({"APPSBL_1"}, start) => Whole({"APPSBL"}, part) \/ Whole({"APPSBL_1"}, part)

(* The boot configuration is touched only when the primary copy is the     *)
(* image just uploaded, complete: update_bootconfig comes last.            *)
SwitchLast ==
    [][\A p \in {"BOOTCONFIG", "BOOTCONFIG1"} : part'[p] # part[p] =>
          /\ part["HLOS"] = Slice(uploads, 0, up.kernel)
          /\ part["rootfs"] = Slice(uploads, up.kernel, up.size)]_vars

(* The partitions that an upgrade reported as successful has written: the  *)
(* backup copies too where the code gives up when one fails.               *)
Target(m) ==
    CASE m.type = "UBOOT" -> {"APPSBL"} \cup IF m.backup THEN {"APPSBL_1"} ELSE {}
      [] m.type = "ART" -> {"ART"}
      [] m.type = "CDT" -> {"CDT"} \cup IF m.backup THEN {"CDT_1"} ELSE {}
      [] m.type = "MIBIB" -> {"MIBIB"}
      [] m.type \in {"PTABLE", "IMG"} /\ m.fw = "GPT" ->
           {"GPT"} \cup IF m.backup THEN {"GPTBACKUP"} ELSE {}
      [] m.type = "PTABLE" /\ m.fw = "MIBIB" -> {"MIBIB"}
      [] m.type = "FIRMWARE" /\ Flash = "NOR" -> {"firmware"}
      [] m.type = "FIRMWARE" /\ Flash = "NAND" ->
           {"rootfs"} \cup IF m.backup THEN {"rootfs_1"} ELSE {}
      [] OTHER -> Primary

(* The answer to the client is right.  run_command returns 0 on success    *)
(* and something else on an error, so an upgrade that ends well has        *)
(* written every partition it is about, from this upload, U-Boot even if   *)
(* flash commands lie.  A firmware image that the size checks refuse, or   *)
(* that fails with no command having failed, has not changed the flash.    *)
ReportRight ==
    /\ status = "ok" => \A p \in Target(up) :
          /\ part[p] # <<>>
          /\ \A i \in DOMAIN part[p] : part[p][i][1] = uploads
    /\ status = "failed" /\ ~fault /\ up.type = "FIRMWARE" /\ up.fw \in {"FIT", "SYSUPGRADE"}
          => part = start
=============================================================================
