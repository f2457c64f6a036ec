---------------------------- MODULE FlashProofs -----------------------------
(***************************************************************************)
(* Theorems about FlashUpgrade: no upgrade leaves the device without a boot*)
(* loader or without a system, and the boot configuration is switched      *)
(* last.  The invariants follow the command lines that are still to run:   *)
(* what an upgrade has done by then, and which copy it has not touched.    *)
(***************************************************************************)
EXTENDS FlashUpgrade, FiniteSetTheorems, SequenceTheorems, TLAPS

(* What a block of flash or RAM may be.                                    *)
Block == Int \X Int

(* The commands about the partitions P; MaxSize bounds what they move.     *)
Commands(P) ==
    [op : Quiet, part : Part, from : Nat, to : 0..MaxSize] \cup
    [op : {"flash", "verify", "mmc_read", "mw", "flasherase"}, part : P, from : Nat, to : 0..MaxSize]

(* The command lines about the partitions P.                               *)
Rows(P) == [cmds : Seq(Commands(P)) \ {<<>>}, onfail : {"return", "ignore", "reload"}]

(* The types. While an upgrade runs there is a line to run, and a line has *)
(* a command to run.                                                       *)
FlashType ==
    /\ dev \in Device /\ up \in Image /\ uploads \in Nat
    /\ part \in [Part -> Seq(Block)]
    /\ ram \in [1..(MaxSize + 1) -> Block]
    /\ status \in {"idle", "running", "ok", "failed", "off"}
    /\ status = "running" => lines \in Seq(Rows(Part)) \ {<<>>}

(* The partitions S are as the upgrade found them.                         *)
Same(S) == \A p \in S : part[p] = start[p]

(* The two copies of U-Boot.                                               *)
Loaders == {"APPSBL", "APPSBL_1"}

(* What do_uboot_upgrade does for one copy: flash it, read it back.        *)
Write(m, p) == <<Must(<<flash(p, 0, m.size)>>), Must(<<Cmd("verify", p)>>)>>

(* The second copy, if it is asked for.                                    *)
Then(m) == IF m.backup THEN Write(m, "APPSBL_1") ELSE <<>>

(* The lines do_uboot_upgrade still has to run until the first copy is     *)
(* verified ...                                                            *)
Before(m) == {<<Must(Prepare)>> \o (Write(m, "APPSBL") \o Then(m)), Write(m, "APPSBL") \o Then(m),
              <<Must(<<Cmd("verify", "APPSBL")>>)>> \o Then(m)}
(* ... and after that.                                                     *)
After(m) == {Write(m, "APPSBL_1"), <<Must(<<Cmd("verify", "APPSBL_1")>>)>>}

(* A partition whose blocks all come from one image.                       *)
OneImage(s) == \A i \in DOMAIN s : s[i][1] = s[1][1]

(* Where do_uboot_upgrade can be. Until the read-back of the first copy    *)
(* the second is untouched and the image in RAM is whole; after it the     *)
(* first copy is whole.                                                    *)
UbootSteps ==
    \/ /\ lines \in Before(up) /\ Same({"APPSBL_1"})
       /\ \A i \in 1..up.size : ram[i][1] = uploads
    \/ lines \in After(up) /\ Whole({"APPSBL"}, part)

(* The inductive invariant of the U-Boot upgrade. Every other upgrade      *)
(* leaves both copies alone.                                               *)
LoaderInv ==
    /\ OneImage(part["APPSBL"])
    /\ UbootSurvives
    /\ status = "running" =>
          IF up.type = "UBOOT" THEN UbootSteps
          ELSE lines \in Seq(Rows(Part \ Loaders)) /\ Same(Loaders)

(* What a firmware upgrade must not lose: both copies of the system, and   *)
(* the choice between them.                                                *)
Systems == {"HLOS", "rootfs", "HLOS_1", "rootfs_1", "BOOTCONFIG", "BOOTCONFIG1"}

(* The backup copy.                                                        *)
Backups == {"HLOS_1", "rootfs_1"}

(* The image in RAM is the upload, block by block.                         *)
Loaded == \A i \in 1..up.size : ram[i] = <<uploads, i>>

(* Both the kernel and the root file system have a block.                  *)
Between(m) == 0 < m.kernel /\ m.kernel < m.size

(* What is written after the primary copy. The backup copy is, only if the *)
(* size checks have shown both parts to be non-empty.                      *)
LateParts(m) == {"BOOTCONFIG", "BOOTCONFIG1", "rootfs_data"} \cup IF Between(m) THEN Backups ELSE {}

(* The lines about those partitions.                                       *)
Late(m) == Seq(Rows(LateParts(m)))

(* The commands of an eMMC upgrade: the kernel, ...                        *)
Hlos(m) == flash("HLOS", 0, m.kernel)
(* ... the root file system, ...                                           *)
Rootfs(m) == flash("rootfs", m.kernel, m.size)
(* ... the radio firmware of a QSDK image, ...                             *)
Wififw(m) == flash("WIFIFW", m.kernel, m.size)
(* ... and imxtract, which finds a component of one.                       *)
Find(p) == Cmd("imxtract", p)

(* The next line is that of the commands c, and its failure ends the       *)
(* upgrade.                                                                *)
Line(s, c) == s # <<>> /\ Head(s) = Must(c)

(* What is left of the line for a QSDK image.                              *)
Six(m) == <<Find("HLOS"), Hlos(m), Find("rootfs"), Rootfs(m), Find("WIFIFW"), Wififw(m)>>
Five(m) == <<Hlos(m), Find("rootfs"), Rootfs(m), Find("WIFIFW"), Wififw(m)>>
Four(m) == <<Find("rootfs"), Rootfs(m), Find("WIFIFW"), Wififw(m)>>
Three(m) == <<Rootfs(m), Find("WIFIFW"), Wififw(m)>>
Two(m) == <<Find("WIFIFW"), Wififw(m)>>

(* The upgrade is about to write the kernel: the four shapes the line can  *)
(* have.                                                                   *)
AtHlos(m, s) ==
    \/ \E c \in {Six(m), Five(m), <<Hlos(m), Rootfs(m)>>} : Line(s, c) /\ Tail(s) \in Late(m)
    \/ Line(s, <<Hlos(m)>>) /\ Line(Tail(s), <<Rootfs(m)>>) /\ Tail(Tail(s)) \in Late(m)

(* It is about to write the root file system.                              *)
AtRootfs(m, s) == \E c \in {Four(m), Three(m), <<Rootfs(m)>>} : Line(s, c) /\ Tail(s) \in Late(m)

(* It is about to write the radio firmware.                                *)
AtWififw(m, s) == \E c \in {Two(m), <<Wififw(m)>>} : Line(s, c) /\ Tail(s) \in Late(m)

(* The primary copy has the kernel of this upload ...                      *)
KernelDone == part["HLOS"] = Slice(uploads, 0, up.kernel)
(* ... and its root file system.                                           *)
RootDone == part["rootfs"] = Slice(uploads, up.kernel, up.size)

(* Where an upgrade on eMMC can be, and what it has done by then.          *)
Emmc ==
    \/ AtHlos(up, lines) /\ Loaded /\ Same(Backups)
    \/ AtRootfs(up, lines) /\ Loaded /\ Same(Backups) /\ KernelDone
    \/ AtWififw(up, lines) /\ Same(Backups) /\ KernelDone /\ RootDone
    \/ lines \in Late(up) /\ KernelDone /\ RootDone /\ (~Between(up) => Same(Backups))

(* The partitions that the line for a UBI image writes after rootfs.       *)
UbiParts == {"rootfs1", "rootfs2", "rootfs_1"}

(* An upgrade on NAND is about to write rootfs.                            *)
AtUbi(m, s) ==
    /\ Len(s) = 1 /\ Head(s).onfail = "return"
    /\ Head(Head(s).cmds) = flash("rootfs", 0, m.size)
    /\ Tail(Head(s).cmds) \in Seq(Commands(UbiParts))

(* Where an upgrade on NAND can be.                                        *)
Ubi ==
    \/ AtUbi(up, lines) /\ Loaded /\ Same(Backups)
    \/ lines \in Seq(Rows(UbiParts)) /\ part["rootfs"] = Slice(uploads, 0, up.size)

(* The inductive invariant of the firmware upgrade. Every other upgrade    *)
(* leaves the systems alone.                                               *)
SystemInv ==
    /\ FirmwareSurvives
    /\ status = "running" =>
         \/ lines \in Seq(Rows(Part \ Systems)) /\ Same(Systems)
         \/ up.type = "FIRMWARE" /\ Flash = "MMC" /\ Emmc
         \/ up.type = "FIRMWARE" /\ Flash = "NAND" /\ Ubi

(* What <<a>> \o s begins and goes on with.                                *)
LEMMA Cons ==
    ASSUME NEW S, NEW a \in S, NEW s \in Seq(S)
    PROVE  /\ <<a>> \o s \in Seq(S) \ {<<>>}
           /\ Head(<<a>> \o s) = a
           /\ Tail(<<a>> \o s) = s
<1>1. <<a>> \in Seq(S) /\ Len(<<a>>) = 1
  OBVIOUS
<1>2. /\ <<a>> \o s \in Seq(S)
      /\ Len(<<a>> \o s) = 1 + Len(s)
      /\ \A i \in 1..(1 + Len(s)) : (<<a>> \o s)[i] = IF i <= 1 THEN <<a>>[i] ELSE s[i - 1]
  BY <1>1, ConcatProperties, ZenonT(60)
<1>3. Len(s) \in Nat
  OBVIOUS
<1>4. <<a>> \o s # <<>>
  BY <1>2, <1>3
<1>5. Head(<<a>> \o s) = a
  BY <1>1, <1>2, <1>3
<1>6. /\ Tail(<<a>> \o s) \in Seq(S)
      /\ Len(Tail(<<a>> \o s)) = Len(s)
      /\ \A i \in 1..Len(s) : Tail(<<a>> \o s)[i] = s[i]
  BY <1>2, <1>3, <1>4, HeadTailProperties
<1>7. Tail(<<a>> \o s) = s
  BY <1>6, SeqEqual, Zenon
<1> QED
  BY <1>2, <1>4, <1>5, <1>7, Zenon

(* A sequence that is not empty has a first element and a shorter rest.    *)
LEMMA HeadOf ==
    ASSUME NEW S, NEW s \in Seq(S), s # <<>>
    PROVE  Head(s) \in S /\ Tail(s) \in Seq(S) /\ Len(s) \in Nat \ {0} /\ Len(Tail(s)) = Len(s) - 1
BY HeadTailProperties

(* MaxSize exists: FlashAssumption says that the sizes of a device's       *)
(* images have a largest.                                                  *)
LEMMA Widest ==
    ASSUME NEW d \in Device
    PROVE  /\ d.images # {}
           /\ LET n == CHOOSE n \in {m.size : m \in d.images} : \A m \in d.images : m.size <= n
              IN  n \in Nat \ {0} /\ \A m \in d.images : m.size <= n
<1> DEFINE Q(n) == \A m \in d.images : m.size <= n
           T == {m.size : m \in d.images}
<1>1. \E n \in T : Q(n)
  BY FlashAssumption, Zenon
<1>2. (CHOOSE n \in T : Q(n)) \in T /\ Q(CHOOSE n \in T : Q(n))
  BY <1>1, Zenon
<1>3. \A n \in T : n \in Nat \ {0}
  BY FlashAssumption, Zenon
<1> QED
  BY <1>2, <1>3, Zenon

(* The sizes of the images of the device, and MaxSize.                     *)
LEMMA SizeBound ==
    ASSUME dev \in Device
    PROVE  MaxSize \in Nat \ {0} /\ Image # {} /\ \A m \in Image : m.size \in 1..MaxSize /\ m.kernel \in 0..m.size /\ m.backup \in BOOLEAN
<1>1. /\ Image # {} /\ MaxSize \in Nat \ {0} /\ \A m \in Image : m.size <= MaxSize
  BY Widest, ZenonT(60) DEF MaxSize, Image
<1>2. \A m \in Image : m.size \in Nat \ {0} /\ m.kernel \in 0..m.size /\ m.backup \in BOOLEAN
  BY FlashAssumption, Zenon DEF Image
<1> QED
  BY <1>1, <1>2

(* Lines about P are lines about more partitions.                          *)
LEMMA RowsWiden ==
    ASSUME NEW P, NEW R, P \subseteq R
    PROVE  /\ Commands(P) \subseteq Commands(R)
           /\ Rows(P) \subseteq Rows(R)
           /\ Seq(Commands(P)) \subseteq Seq(Commands(R))
           /\ Seq(Rows(P)) \subseteq Seq(Rows(R))
<1>1. Commands(P) \subseteq Commands(R)
  BY Zenon DEF Commands
<1>2. Seq(Commands(P)) \subseteq Seq(Commands(R))
  BY <1>1, SeqMonotonic, Zenon
<1>3. Rows(P) \subseteq Rows(R)
  BY <1>2, Zenon DEF Rows
<1> QED
  BY <1>1, <1>2, <1>3, SeqMonotonic, Zenon

(* The line and the command being run.                                     *)
LEMMA Current ==
    ASSUME NEW P, lines \in Seq(Rows(P)) \ {<<>>}
    PROVE  /\ Head(lines) \in Rows(P) /\ Tail(lines) \in Seq(Rows(P))
           /\ Head(lines).cmds \in Seq(Commands(P)) \ {<<>>}
           /\ Head(lines).onfail \in {"return", "ignore", "reload"}
           /\ cmd \in Commands(P) /\ Tail(Head(lines).cmds) \in Seq(Commands(P))
           /\ Head(lines) = [cmds |-> Head(lines).cmds, onfail |-> Head(lines).onfail]
<1>1. Head(lines) \in Rows(P) /\ Tail(lines) \in Seq(Rows(P))
  BY HeadOf, Zenon
<1>2. /\ Head(lines).cmds \in Seq(Commands(P)) \ {<<>>}
      /\ Head(lines).onfail \in {"return", "ignore", "reload"}
      /\ Head(lines) = [cmds |-> Head(lines).cmds, onfail |-> Head(lines).onfail]
  BY <1>1, Zenon DEF Rows
<1>3. cmd \in Commands(P) /\ Tail(Head(lines).cmds) \in Seq(Commands(P))
  BY <1>2, HeadOf, Zenon DEF cmd
<1> QED
  BY <1>1, <1>2, <1>3, Zenon

(* What Return does: the rest of the line, the next line, the reload of    *)
(* do_mibib_upgrade, or the end.                                           *)
LEMMA ReturnCases ==
    ASSUME NEW P \in SUBSET Part, NEW c \in {0, 1, -2}, status = "running",
           lines \in Seq(Rows(P)) \ {<<>>}, MaxSize \in Nat, Return(c)
    PROVE  \/ /\ c = 0 /\ Tail(Head(lines).cmds) # <<>> /\ status' = "running"
              /\ lines' \in Seq(Rows(P)) \ {<<>>}
              /\ Head(lines') = [cmds |-> Tail(Head(lines).cmds), onfail |-> Head(lines).onfail]
              /\ Tail(lines') = Tail(lines)
           \/ /\ (c = 0 /\ Tail(Head(lines).cmds) = <<>>) \/ c = -2 \/ Head(lines).onfail = "ignore"
              /\ lines' = Tail(lines) /\ lines' \in Seq(Rows(P))
              /\ status' = IF lines' = <<>> THEN "ok" ELSE "running"
           \/ /\ c = 1 /\ Head(lines).onfail = "reload"
              /\ lines' \in Seq(Rows(P)) \ {<<>>} /\ status' = "running"
           \/ c = 1 /\ Head(lines).onfail = "return" /\ status' = "failed"
<1> DEFINE line == Head(lines)
           rest == Tail(lines)
           more == [cmds |-> Tail(line.cmds), onfail |-> line.onfail]
<1>1. /\ line \in Rows(P) /\ rest \in Seq(Rows(P))
      /\ line.cmds \in Seq(Commands(P)) \ {<<>>}
      /\ Tail(line.cmds) \in Seq(Commands(P))
      /\ line = [cmds |-> line.cmds, onfail |-> line.onfail]
      /\ line.onfail \in {"return", "ignore", "reload"}
  BY Current, Zenon
<1>2. Len(line.cmds) = 1 <=> Tail(line.cmds) = <<>>
  <2>1. Len(line.cmds) \in Nat \ {0} /\ Len(Tail(line.cmds)) = Len(line.cmds) - 1
    BY <1>1, HeadOf, Zenon
  <2>2. Len(Tail(line.cmds)) = 0 <=> Tail(line.cmds) = <<>>
    BY <1>1, EmptySeq, Zenon
  <2> QED
    BY <2>1, <2>2
<1>3. CASE ~LineOver(c, line) /\ lines' = <<[line EXCEPT !.cmds = Tail(@)]>> \o rest /\ status' = status
  <2>1. [line EXCEPT !.cmds = Tail(@)] = more
    BY <1>1, SMTT(60)
  <2>2. c = 0 /\ Tail(line.cmds) # <<>>
    BY <1>2, <1>3, Zenon DEF LineOver
  <2>3. more \in Rows(P)
    BY <1>1, <2>2, Zenon DEF Rows
  <2>4. lines' = <<more>> \o rest
    BY <1>3, <2>1, Zenon
  <2> HIDE DEF line, rest, more
  <2>5. lines' \in Seq(Rows(P)) \ {<<>>} /\ Head(lines') = more /\ Tail(lines') = rest
    BY <1>1, <2>3, <2>4, Cons, ZenonT(60)
  <2> QED
    BY <1>3, <2>2, <2>5, Zenon DEF line, rest, more
<1>4. CASE /\ LineOver(c, line) /\ (run_command(c) = 0 \/ line.onfail = "ignore")
           /\ lines' = rest /\ status' = IF rest = <<>> THEN "ok" ELSE status
  <2>1. (c = 0 /\ Tail(line.cmds) = <<>>) \/ c = -2 \/ line.onfail = "ignore"
    BY <1>2, <1>4 DEF LineOver, run_command
  <2> QED
    BY <1>1, <1>4, <2>1, Zenon
<1>5. CASE /\ run_command(c) # 0 /\ line.onfail = "reload" /\ status' = status
           /\ lines' = <<Must(<<Cmd("mibib_reload", "MIBIB")>>), Must(line.cmds)>>
  <2> DEFINE x == Cmd("mibib_reload", "MIBIB")
  <2>1. x \in Commands(P)
    BY PartAssumption DEF Commands, Cmd, Quiet
  <2>2. <<x>> \in Seq(Commands(P)) \ {<<>>}
    BY <2>1
  <2>3. Must(<<x>>) \in Rows(P) /\ Must(line.cmds) \in Rows(P)
    BY <1>1, <2>2, Zenon DEF Rows, Must
  <2>4. lines' \in Seq(Rows(P)) \ {<<>>}
    BY <1>5, <2>3
  <2>5. c = 1
    BY <1>5 DEF run_command
  <2> QED
    BY <1>5, <2>4, <2>5, Zenon
<1>6. CASE run_command(c) # 0 /\ line.onfail = "return" /\ status' = "failed"
  BY <1>6, SMTT(60) DEF run_command
<1> QED
  BY <1>1, <1>3, <1>4, <1>5, <1>6, Zenon DEF Return

(* The commands that write to RAM.                                         *)
Reads == {"verify", "mmc_read", "mw"}

(* The comparison of verify_flashed_image, of the first block: that is all *)
(* the next argument needs, as a copy comes from one image.                *)
Matches == ram[1] = IF 1 <= Len(part[cmd.part]) THEN part[cmd.part][1] ELSE Torn

(* What one command can change. A flash command changes its partition      *)
(* alone, to what RAM holds if it reports success on a device whose        *)
(* commands do not lie; only verify, mmc read and mw change RAM; a         *)
(* read-back that succeeds has compared.                                   *)
LEMMA Effect ==
    ASSUME FlashType, status = "running", Command, dev' = dev
    PROVE  /\ up' = up /\ uploads' = uploads /\ start' = start
           /\ \A p \in Part : p # cmd.part \/ cmd.op \in Quiet \cup Reads => part'[p] = part[p]
           /\ cmd.op \notin Reads => ram' = ram
           /\ \/ cmd.op = "flash" /\ lines' = lines /\ status' = status /\ part'[cmd.part] = <<Torn>>
              \/ \E c \in {0, 1, -2} :
                    /\ Return(c)
                    /\ c = -2 => Flash # "MMC" /\ cmd.op = "flash"
                    /\ cmd.op = "flash" /\ c = 0 =>
                          \/ dev.silent /\ part' = part
                          \/ part'[cmd.part] = [i \in 1..(cmd.to - cmd.from) |-> ram[cmd.from + i]]
                    /\ cmd.op = "flash" /\ c # 0 => part' = part
                    /\ cmd.op = "verify" /\ c = 0 => Matches
           /\ \/ part'[cmd.part] \in {<<Torn>>, <<>>, part[cmd.part]}
              \/ /\ cmd.op = "flash"
                 /\ part'[cmd.part] = [i \in 1..(cmd.to - cmd.from) |-> ram[cmd.from + i]]
           /\ part' \in [Part -> Seq(Block)] /\ ram' \in [1..(MaxSize + 1) -> Block]
<1>1. MaxSize \in Nat \ {0} /\ cmd \in Commands(Part) /\ cmd.part \in Part /\ up.size \in 1..MaxSize
  <2>1. cmd \in Commands(Part)
    BY Current, Zenon DEF FlashType
  <2> QED
    BY <2>1, SizeBound, Zenon DEF FlashType, Commands
<1>2. <<Torn>> \in Seq(Block) /\ <<>> \in Seq(Block) /\ Torn \in Block
  BY DEF Torn, Block
<1>3. cmd.to - cmd.from <= MaxSize /\ cmd.from \in Nat /\ cmd.to \in 0..MaxSize
  <2>1. cmd.from \in Nat /\ cmd.to \in 0..MaxSize
    BY <1>1, Zenon DEF Commands
  <2> QED
    BY <2>1, <1>1
<1>4. part \in [Part -> Seq(Block)] /\ ram \in [1..(MaxSize + 1) -> Block]
  BY Zenon DEF FlashType
<1>5. CASE flash_refused
  <2> DEFINE c == IF Cap[cmd.part] = 0 /\ Flash # "MMC" THEN -2 ELSE 1
  <2>1. Return(c) /\ c \in {0, 1, -2} /\ c # 0 /\ (c = -2 => Flash # "MMC")
    BY <1>5 DEF flash_refused
  <2>2. /\ part' = part /\ ram' = ram /\ up' = up /\ uploads' = uploads /\ start' = start
        /\ cmd.op = "flash"
    BY <1>5, Zenon DEF flash_refused, Running
  <2> HIDE DEF c
  <2> QED
    BY <2>1, <2>2, <1>4, <1>1, Zenon
<1>6. CASE flash_erase
  BY <1>6, <1>4, <1>2, <1>1, Zenon DEF flash_erase, Running, Reads, Quiet
<1>7. CASE flash_write
  <2> DEFINE w == [i \in 1..(cmd.to - cmd.from) |-> ram[cmd.from + i]]
  <2>1. \A i \in 1..(cmd.to - cmd.from) : ram[cmd.from + i] \in Block
    BY <1>3, <1>4, <1>1
  <2>2. w \in Seq(Block)
    <3>1. CASE cmd.to - cmd.from \in Nat
      BY <3>1, <2>1, IsASeq
    <3>2. CASE cmd.to - cmd.from \notin Nat
      <4>1. 1..(cmd.to - cmd.from) = 1..0
        BY <1>3, <3>2
      <4>2. w = [i \in 1..0 |-> ram[cmd.from + i]]
        BY <4>1, Zenon
      <4>3. [i \in 1..0 |-> ram[cmd.from + i]] \in Seq(Block)
        BY IsASeq
      <4> QED
        BY <4>2, <4>3, Zenon
    <3> QED
      BY <3>1, <3>2, Zenon
  <2>3. part' = [part EXCEPT ![cmd.part] = w] /\ cmd.op = "flash"
    BY <1>7, Zenon DEF flash_write, Running
  <2> HIDE DEF w
  <2>4. part' \in [Part -> Seq(Block)] /\ part'[cmd.part] = w /\ \A p \in Part : p # cmd.part => part'[p] = part[p]
    BY <2>2, <2>3, <1>1, <1>4, Zenon
  <2>5. ram' = ram /\ up' = up /\ uploads' = uploads /\ start' = start /\ Return(0)
    BY <1>7, Zenon DEF flash_write
  <2> QED
    BY <2>3, <2>4, <2>5, <1>4, <1>1 DEF w, Reads, Quiet
<1>8. CASE flash_fails
  BY <1>8, <1>4, <1>1 DEF flash_fails, Running, Reads, Quiet
<1>9. CASE flash_silent
  BY <1>9, <1>4, <1>1 DEF flash_silent, Running, Reads, Quiet
<1>10. CASE verify_flashed_image
  <2> DEFINE p == cmd.part
             Read(i) == IF i <= Len(part[p]) THEN part[p][i] ELSE Torn
             area == [i \in DOMAIN ram |-> IF i \in 2..(up.size + 1) THEN Read(i - 1) ELSE ram[i]]
  <2>1. ram' = area /\ part' = part /\ up' = up /\ uploads' = uploads /\ start' = start /\ cmd.op = "verify"
    BY <1>10, Zenon DEF verify_flashed_image, Running
  <2> DEFINE same == \A i \in 1..up.size : area[i] = area[i + 1]
  <2>2. Return(IF same THEN 0 ELSE 1)
    BY <1>10, Zenon DEF verify_flashed_image
  <2>3. area \in [1..(MaxSize + 1) -> Block]
    BY <1>4, <1>1, <1>2
  <2>4. area[1] = ram[1] /\ area[2] = Read(1)
    BY <1>4, <1>1
  <2>5. same => Matches
    <3>1. 1 \in 1..up.size /\ 1 + 1 = 2
      BY <1>1
    <3>2. same => area[1] = area[2]
      BY <3>1, Zenon
    <3> QED
      BY <3>2, <2>4, ZenonT(60) DEF Matches
  <2> HIDE DEF area, same
  <2>6. CASE same
    BY <2>1, <2>2, <2>3, <2>5, <2>6, <1>1, <1>4 DEF Reads
  <2>7. CASE ~same
    BY <2>1, <2>2, <2>3, <2>7, <1>1, <1>4 DEF Reads
  <2> QED
    BY <2>6, <2>7, Zenon
<1>11. CASE verify_unread
  BY <1>11, <1>4, <1>1 DEF verify_unread, Running, Reads, Quiet
<1>12. CASE mmc_read
  <2>0. ram' = [ram EXCEPT ![1] = Elsewhere]
    BY <1>12, Zenon DEF mmc_read
  <2>1. /\ Return(0) /\ part' = part /\ up' = up /\ uploads' = uploads /\ start' = start
        /\ cmd.op = "mmc_read"
    BY <1>12, Zenon DEF mmc_read, Running
  <2>2. Elsewhere \in Block
    BY DEF Elsewhere, Block
  <2>3. ram' \in [1..(MaxSize + 1) -> Block]
    BY <2>0, <2>2, <1>4, <1>1, Zenon
  <2>4. cmd.op \in Reads /\ cmd.op # "flash" /\ cmd.op # "verify"
    BY <2>1, Zenon DEF Reads
  <2>5. /\ \A p \in Part : p # cmd.part \/ cmd.op \in Quiet \cup Reads => part'[p] = part[p]
        /\ cmd.op \notin Reads => ram' = ram
        /\ part'[cmd.part] \in {<<Torn>>, <<>>, part[cmd.part]}
        /\ part' \in [Part -> Seq(Block)]
    BY <2>1, <2>4, <1>4, Zenon
  <2>6. \E c \in {0, 1, -2} :
                    /\ Return(c)
                    /\ c = -2 => Flash # "MMC" /\ cmd.op = "flash"
                    /\ cmd.op = "flash" /\ c = 0 =>
                          \/ dev.silent /\ part' = part
                          \/ part'[cmd.part] = [i \in 1..(cmd.to - cmd.from) |-> ram[cmd.from + i]]
                    /\ cmd.op = "flash" /\ c # 0 => part' = part
                    /\ cmd.op = "verify" /\ c = 0 => Matches
    BY <2>1, <2>4
  <2> QED
    BY <2>1, <2>3, <2>5, <2>6, Zenon
<1>13. CASE mw
  <2>1. /\ ram' = [ram EXCEPT ![1] = IF ram[1] = Old THEN Selected ELSE ram[1]]
        /\ Return(0) /\ part' = part /\ up' = up /\ uploads' = uploads /\ start' = start
        /\ cmd.op = "mw"
    BY <1>13, Zenon DEF mw, Running
  <2>2. Selected \in Block /\ ram[1] \in Block
    BY <1>4, <1>1, SMTT(60) DEF Selected, Block
  <2>3. ram' \in [1..(MaxSize + 1) -> Block]
    BY <2>1, <2>2, <1>4, <1>1, Zenon
  <2> QED
    BY <2>1, <2>3, <1>4, <1>1 DEF Reads
<1>14. CASE flasherase
  BY <1>14, <1>4, <1>2, <1>1 DEF flasherase, Running, Reads, Quiet
<1>15. CASE quiet_command
  <2>1. /\ Return(0) /\ part' = part /\ ram' = ram /\ up' = up /\ uploads' = uploads /\ start' = start
        /\ cmd.op \notin {"flash", "verify"}
    BY <1>15, Zenon DEF quiet_command, Quiet
  <2> QED
    BY <2>1, <1>4, <1>1
<1>16. CASE command_fails
  <2>1. /\ Return(1) /\ part' = part /\ ram' = ram /\ up' = up /\ uploads' = uploads /\ start' = start
        /\ cmd.op \notin {"flash", "verify"}
    BY <1>16, Zenon DEF command_fails, Quiet
  <2> QED
    BY <2>1, <1>4, <1>1
<1> QED
  BY <1>5, <1>6, <1>7, <1>8, <1>9, <1>10, <1>11, <1>12, <1>13, <1>14, <1>15, <1>16, Zenon DEF Command

(* Sequences of lines joined are a sequence of lines.                      *)
LEMMA Joined ==
    ASSUME NEW S, NEW s \in Seq(S), NEW t \in Seq(S)
    PROVE  s \o t \in Seq(S) /\ (s # <<>> \/ t # <<>> => s \o t # <<>>)
<1>1. s \o t \in Seq(S) /\ Len(s \o t) = Len(s) + Len(t)
  BY ConcatProperties, Zenon
<1>2. /\ Len(s) \in Nat /\ Len(t) \in Nat
      /\ Len(s) = 0 <=> s = <<>>
      /\ Len(t) = 0 <=> t = <<>>
      /\ Len(s \o t) = 0 <=> s \o t = <<>>
  BY <1>1, EmptySeq
<1> QED
  BY <1>1, <1>2

(* A flash command about p is one about any partitions p is in.            *)
LEMMA Writes ==
    ASSUME NEW P, NEW p \in P, NEW a \in Nat, NEW b \in 0..MaxSize
    PROVE  flash(p, a, b) \in Commands(P)
BY Zenon DEF flash, Commands

(* A line about P from commands about P ...                                *)
LEMMA Lines ==
    ASSUME NEW P, NEW c \in Seq(Commands(P)), c # <<>>
    PROVE  /\ Must(c) \in Rows(P) /\ <<Must(c)>> \in Seq(Rows(P))
           /\ May(c) \in Rows(P) /\ <<May(c)>> \in Seq(Rows(P))
BY DEF Must, May, Rows
(* ... and from one command.                                               *)
LEMMA Single ==
    ASSUME NEW P, NEW x \in Commands(P)
    PROVE  /\ <<x>> \in Seq(Commands(P)) \ {<<>>}
           /\ Must(<<x>>) \in Rows(P) /\ May(<<x>>) \in Rows(P)
<1>1. <<x>> \in Seq(Commands(P)) \ {<<>>}
  OBVIOUS
<1> QED
  BY <1>1, Lines, Zenon

(* The mmc dev command is about no partition.                              *)
LEMMA Prepared ==
    ASSUME NEW P, dev \in Device
    PROVE  /\ Prepare \in Seq(Commands(P))
           /\ Prepare # <<>> => Prepare = <<Cmd("prepare", "APPSBL")>> /\ Must(Prepare) \in Rows(P)
           /\ Cmd("prepare", "APPSBL") \in Commands(P)
<1>1. Cmd("prepare", "APPSBL") \in Commands(P)
  BY PartAssumption, SizeBound DEF Commands, Cmd, Quiet
<1>2. Prepare = <<Cmd("prepare", "APPSBL")>> \/ Prepare = <<>>
  BY Zenon DEF Prepare
<1>3. Must(<<Cmd("prepare", "APPSBL")>>) \in Rows(P) /\ <<Cmd("prepare", "APPSBL")>> \in Seq(Commands(P))
  BY <1>1, Single, Zenon
<1>4. <<>> \in Seq(Commands(P))
  OBVIOUS
<1> QED
  BY <1>1, <1>2, <1>3, <1>4, Zenon

(* The partitions of the uploads that are neither firmware nor U-Boot.     *)
Tables == {"ART", "CDT", "CDT_1", "GPT", "GPTBACKUP", "MIBIB"}

(* Those uploads write those partitions: do_art_upgrade, do_cdt_upgrade,   *)
(* do_gpt_upgrade, do_mibib_upgrade, do_ptable_upgrade.                    *)
LEMMA OtherUpgrade ==
    ASSUME dev \in Device, NEW m \in Image, m.type \notin {"FIRMWARE", "UBOOT"}
    PROVE  do_http_upgrade(m) \in Seq(Rows(Tables))
<1>1. MaxSize \in Nat \ {0} /\ m.size \in 0..MaxSize
  BY SizeBound
<1>2. \A p \in Tables : flash(p, 0, m.size) \in Commands(Tables)
  BY <1>1, Writes, Zenon
<1> DEFINE W(p) == <<flash(p, 0, m.size)>>
           Opt(p) == IF m.backup THEN <<flash(p, 0, m.size)>> ELSE <<>>
<1>3. \A p \in Tables : W(p) \in Seq(Commands(Tables)) \ {<<>>} /\ Opt(p) \in Seq(Commands(Tables))
  BY <1>2
<1>4. <<>> \in Seq(Rows(Tables))
  OBVIOUS
<1>5. Prepare \in Seq(Commands(Tables))
  BY Prepared, Zenon
<1> HIDE DEF W, Opt
<1>6. do_art_upgrade(m) \in Seq(Rows(Tables))
  <2>1. "ART" \in Tables
    BY Zenon DEF Tables
  <2>2. Prepare \o W("ART") \in Seq(Commands(Tables)) /\ Prepare \o W("ART") # <<>>
    BY <1>3, <1>5, <2>1, Joined, Zenon
  <2>3. <<Must(Prepare \o W("ART"))>> \in Seq(Rows(Tables))
    BY <2>2, Lines, Zenon
  <2> QED
    BY <1>4, <2>3, Zenon DEF do_art_upgrade, W
<1>7. do_cdt_upgrade(m) \in Seq(Rows(Tables))
  <2>1. "CDT" \in Tables /\ "CDT_1" \in Tables
    BY Zenon DEF Tables
  <2>2. Prepare \o W("CDT") \in Seq(Commands(Tables)) /\ Prepare \o W("CDT") # <<>>
    BY <1>3, <1>5, <2>1, Joined, Zenon
  <2>3. (Prepare \o W("CDT")) \o Opt("CDT_1") \in Seq(Commands(Tables)) /\ (Prepare \o W("CDT")) \o Opt("CDT_1") # <<>>
    BY <1>3, <2>1, <2>2, Joined, Zenon
  <2>4. <<Must((Prepare \o W("CDT")) \o Opt("CDT_1"))>> \in Seq(Rows(Tables))
    BY <2>3, Lines, Zenon
  <2> QED
    BY <1>4, <2>4, Zenon DEF do_cdt_upgrade, W, Opt
<1>8. do_gpt_upgrade(m) \in Seq(Rows(Tables))
  <2>1. "GPT" \in Tables /\ "GPTBACKUP" \in Tables
    BY Zenon DEF Tables
  <2>3. W("GPT") \o Opt("GPTBACKUP") \in Seq(Commands(Tables)) /\ W("GPT") \o Opt("GPTBACKUP") # <<>>
    BY <1>3, <2>1, Joined, Zenon
  <2>4. <<Must(W("GPT") \o Opt("GPTBACKUP"))>> \in Seq(Rows(Tables))
    BY <2>3, Lines, Zenon
  <2> QED
    BY <1>4, <2>4, Zenon DEF do_gpt_upgrade, W, Opt
<1>9. do_mibib_upgrade(m) \in Seq(Rows(Tables))
  <2>1. W("MIBIB") \in Seq(Commands(Tables)) \ {<<>>}
    BY <1>3, Zenon DEF Tables
  <2>2. [cmds |-> W("MIBIB"), onfail |-> "reload"] \in Rows(Tables)
    BY <2>1, Zenon DEF Rows
  <2>3. <<[cmds |-> W("MIBIB"), onfail |-> "reload"]>> \in Seq(Rows(Tables))
    BY <2>2
  <2> QED
    BY <1>4, <2>3, Zenon DEF do_mibib_upgrade, W
<1>10. do_ptable_upgrade(m) \in Seq(Rows(Tables))
  BY <1>4, <1>8, <1>9, Zenon DEF do_ptable_upgrade
<1> QED
  BY <1>4, <1>6, <1>7, <1>8, <1>9, <1>10, Zenon DEF do_http_upgrade

(* do_uboot_upgrade builds the lines of Before, about the two copies of    *)
(* U-Boot.                                                                 *)
LEMMA UbootUpgrade ==
    ASSUME dev \in Device, NEW m \in Image, m.type = "UBOOT", do_http_upgrade(m) # <<>>
    PROVE  /\ do_http_upgrade(m) \in {<<Must(Prepare)>> \o (Write(m, "APPSBL") \o Then(m)), Write(m, "APPSBL") \o Then(m)}
           /\ Prepare = <<>> => do_http_upgrade(m) = Write(m, "APPSBL") \o Then(m)
           /\ do_http_upgrade(m) \in Seq(Rows(Loaders))
           /\ Write(m, "APPSBL") \o Then(m) \in Seq(Rows(Loaders)) \ {<<>>}
           /\ Write(m, "APPSBL") \in Seq(Rows(Loaders)) /\ Then(m) \in Seq(Rows(Loaders))
           /\ Write(m, "APPSBL_1") \in Seq(Rows(Loaders))
<1>1. MaxSize \in Nat \ {0} /\ m.size \in 0..MaxSize
  BY SizeBound
<1>2. \A p \in Loaders : flash(p, 0, m.size) \in Commands(Loaders) /\ Cmd("verify", p) \in Commands(Loaders)
  BY <1>1, Writes DEF Cmd, Commands
<1>3. \A p \in Loaders : /\ Must(<<flash(p, 0, m.size)>>) \in Rows(Loaders)
                         /\ Must(<<Cmd("verify", p)>>) \in Rows(Loaders)
  BY <1>2, Single, Zenon
<1>4. \A p \in Loaders : Write(m, p) \in Seq(Rows(Loaders)) /\ Write(m, p) # <<>>
  BY <1>3 DEF Write
<1>5. /\ Write(m, "APPSBL") \in Seq(Rows(Loaders)) /\ Write(m, "APPSBL") # <<>>
      /\ Write(m, "APPSBL_1") \in Seq(Rows(Loaders)) /\ Then(m) \in Seq(Rows(Loaders))
  BY <1>4 DEF Loaders, Then
<1>6. Write(m, "APPSBL") \o Then(m) \in Seq(Rows(Loaders)) /\ Write(m, "APPSBL") \o Then(m) # <<>>
  BY <1>5, Joined, Zenon
<1>7. CASE Prepare = <<>>
  <2>1. do_http_upgrade(m) = (<<>> \o Write(m, "APPSBL")) \o Then(m)
    BY <1>7, Zenon DEF do_http_upgrade, do_uboot_upgrade, Write, Then
  <2>2. <<>> \o Write(m, "APPSBL") = Write(m, "APPSBL")
    BY <1>5, ConcatEmptySeq, Zenon
  <2> QED
    BY <2>1, <2>2, <1>5, <1>6, Zenon
<1>8. CASE Prepare # <<>>
  <2>1. do_http_upgrade(m) = (<<Must(Prepare)>> \o Write(m, "APPSBL")) \o Then(m)
    BY <1>8, Zenon DEF do_http_upgrade, do_uboot_upgrade, Write, Then
  <2>2. Must(Prepare) \in Rows(Loaders)
    BY <1>8, Prepared, Zenon
  <2>3. <<Must(Prepare)>> \in Seq(Rows(Loaders))
    BY <2>2
  <2>4. (<<Must(Prepare)>> \o Write(m, "APPSBL")) \o Then(m) = <<Must(Prepare)>> \o (Write(m, "APPSBL") \o Then(m))
    BY <1>5, <2>3, ConcatAssociative
  <2>5. <<Must(Prepare)>> \o (Write(m, "APPSBL") \o Then(m)) \in Seq(Rows(Loaders))
    BY <1>6, <2>3, Joined, Zenon
  <2> QED
    BY <2>1, <2>4, <2>5, <1>5, <1>6, <1>8, Zenon
<1> QED
  BY <1>7, <1>8, Zenon

(* The sets of partitions above: which contain which, which are apart.     *)
LEMMA Names == /\ Loaders \subseteq Part /\ Systems \subseteq Part /\ Backups \subseteq Systems
               /\ Tables \subseteq Part \ Loaders /\ Tables \subseteq Part \ Systems
               /\ Loaders \subseteq Part \ Systems
               /\ Systems \subseteq Part \ Loaders /\ UbiParts \subseteq Part \ Loaders
               /\ {"WIFIFW", "firmware"} \subseteq Part \ Systems
               /\ {"WIFIFW", "firmware"} \subseteq Part \ Loaders
               /\ \A m : LateParts(m) \subseteq Part \ Loaders
BY PartAssumption, Zenon DEF Loaders, Systems, Backups, Tables, UbiParts, LateParts

(* A sequence of one element ...                                           *)
LEMMA Alone ==
    ASSUME NEW x
    PROVE  Head(<<x>>) = x /\ Tail(<<x>>) = <<>> /\ <<x>> # <<>>
<1>1. x \in {x} /\ <<>> \in Seq({x}) /\ <<x>> \in Seq({x})
  OBVIOUS
<1>2. <<x>> \o <<>> = <<x>>
  BY <1>1, ConcatEmptySeq, Zenon
<1>3. Head(<<x>> \o <<>>) = x /\ Tail(<<x>> \o <<>>) = <<>>
  BY <1>1, Cons, Zenon
<1>4. <<x>> # <<>>
  BY Zenon
<1> QED
  BY <1>2, <1>3, <1>4, Zenon
(* ... and of two.                                                         *)
LEMMA Pair ==
    ASSUME NEW S, NEW x \in S, NEW y \in S
    PROVE  /\ <<x, y>> = <<x>> \o <<y>>
           /\ <<x, y>> \in Seq(S) /\ <<x, y>> # <<>>
           /\ Head(<<x, y>>) = x /\ Tail(<<x, y>>) = <<y>>
<1>1. <<x>> \in Seq(S) /\ <<y>> \in Seq(S)
  OBVIOUS
<1>2. <<x, y>> \in Seq(S) /\ Len(<<x, y>>) = 2 /\ <<x, y>>[1] = x /\ <<x, y>>[2] = y
  OBVIOUS
<1>3. /\ <<x>> \o <<y>> \in Seq(S) /\ Len(<<x>> \o <<y>>) = 2
      /\ (<<x>> \o <<y>>)[1] = x /\ (<<x>> \o <<y>>)[2] = y
  BY <1>1, ConcatProperties
<1>4. <<x, y>> = <<x>> \o <<y>>
  <2> DEFINE a == <<x, y>>
             b == <<x>> \o <<y>>
  <2>1. a \in Seq(S) /\ b \in Seq(S) /\ Len(a) = 2 /\ Len(b) = 2 /\ a[1] = b[1] /\ a[2] = b[2]
    BY <1>2, <1>3, Zenon
  <2> HIDE DEF a, b
  <2>2. \A i \in 1..Len(a) : a[i] = b[i]
    BY <2>1
  <2>3. a = b
    BY <2>1, <2>2, SeqEqual, Zenon
  <2> QED
    BY <2>3, Zenon DEF a, b
<1>5. Head(<<x>> \o <<y>>) = x /\ Tail(<<x>> \o <<y>>) = <<y>> /\ <<x>> \o <<y>> # <<>>
  BY <1>1, Cons, ZenonT(60)
<1> QED
  BY <1>2, <1>4, <1>5, Zenon

(* Two lines in front of others are one in front of one in front of        *)
(* others.                                                                 *)
LEMMA TwoThings ==
    ASSUME NEW S, NEW x \in S, NEW y \in S, NEW s \in Seq(S)
    PROVE  <<x, y>> \o s = <<x>> \o (<<y>> \o s)
<1>1. <<x>> \in Seq(S) /\ <<y>> \in Seq(S)
  OBVIOUS
<1>2. <<x, y>> = <<x>> \o <<y>>
  BY Pair, Zenon
<1>3. (<<x>> \o <<y>>) \o s = <<x>> \o (<<y>> \o s)
  BY <1>1, ConcatAssociative
<1> QED
  BY <1>2, <1>3, Zenon

(* The erase of rootfs_data and update_bootconfig come after the primary   *)
(* copy.                                                                   *)
LEMMA TailLate ==
    ASSUME dev \in Device, NEW m
    PROVE  <<May(<<Cmd("flasherase", "rootfs_data")>>)>> \o update_bootconfig \in Late(m)
<1> DEFINE P == LateParts(m)
<1>1. MaxSize \in Nat \ {0} /\ 1 \in 0..MaxSize /\ 0 \in 0..MaxSize
  BY SizeBound
<1>2. "BOOTCONFIG" \in P /\ "BOOTCONFIG1" \in P /\ "rootfs_data" \in P
  BY Zenon DEF LateParts
<1> HIDE DEF P
<1>3. flash("BOOTCONFIG", 0, 1) \in Commands(P) /\ flash("BOOTCONFIG1", 0, 1) \in Commands(P)
  BY <1>1, <1>2, Writes, Zenon
<1>4. /\ Cmd("mmc_read", "BOOTCONFIG") \in Commands(P) /\ Cmd("mw", "BOOTCONFIG") \in Commands(P)
      /\ Cmd("flasherase", "rootfs_data") \in Commands(P)
  BY <1>1, <1>2, Zenon DEF Cmd, Commands
<1>5. <<flash("BOOTCONFIG", 0, 1), flash("BOOTCONFIG1", 0, 1)>> \in Seq(Commands(P)) \ {<<>>}
  BY <1>3
<1>6. /\ Must(<<flash("BOOTCONFIG", 0, 1), flash("BOOTCONFIG1", 0, 1)>>) \in Rows(P)
      /\ Must(<<Cmd("mmc_read", "BOOTCONFIG")>>) \in Rows(P)
      /\ May(<<Cmd("mw", "BOOTCONFIG")>>) \in Rows(P)
      /\ May(<<Cmd("flasherase", "rootfs_data")>>) \in Rows(P)
  BY <1>4, <1>5, Single, Lines, Zenon
<1>7. update_bootconfig \in Seq(Rows(P)) /\ <<May(<<Cmd("flasherase", "rootfs_data")>>)>> \in Seq(Rows(P))
  BY <1>6 DEF update_bootconfig
<1> QED
  BY <1>7, Joined, Zenon DEF Late, P

(* do_firmware_upgrade leaves U-Boot alone, and begins with the primary    *)
(* copy if it writes one of the systems at all.                            *)
LEMMA FirmwareUpgrade ==
    ASSUME dev \in Device, NEW m \in Image, m.type = "FIRMWARE", do_http_upgrade(m) # <<>>
    PROVE  /\ do_http_upgrade(m) \in Seq(Rows(Part \ Loaders))
           /\ \/ do_http_upgrade(m) \in Seq(Rows(Part \ Systems))
              \/ Flash = "MMC" /\ AtHlos(m, do_http_upgrade(m))
              \/ Flash = "NAND" /\ AtUbi(m, do_http_upgrade(m))
<1> DEFINE P == Part \ Loaders
           t == <<May(<<Cmd("flasherase", "rootfs_data")>>)>> \o update_bootconfig
           d == do_http_upgrade(m)
<1>1. /\ MaxSize \in Nat \ {0} /\ m.size \in 0..MaxSize /\ m.kernel \in 0..MaxSize /\ m.kernel \in Nat
      /\ m.backup \in BOOLEAN
  BY SizeBound
<1>2. /\ \A p \in P : flash(p, 0, m.kernel) \in Commands(P)
      /\ \A p \in P : flash(p, m.kernel, m.size) \in Commands(P)
      /\ \A p \in P : flash(p, 0, m.size) \in Commands(P)
  BY <1>1, Writes, Zenon
<1>3. t \in Late(m) /\ t \in Seq(Rows(P))
  <2>1. t \in Late(m)
    BY TailLate, Zenon
  <2>2. Late(m) \subseteq Seq(Rows(P))
    BY Names, RowsWiden, Zenon DEF Late
  <2> QED
    BY <2>1, <2>2, Zenon
<1>4. /\ Hlos(m) \in Commands(P) /\ Rootfs(m) \in Commands(P) /\ Wififw(m) \in Commands(P)
      /\ \A p \in P : Find(p) \in Commands(P)
  <2>1. "HLOS" \in P /\ "rootfs" \in P /\ "WIFIFW" \in P
    BY Names, Zenon DEF Systems
  <2>2. \A p \in P : Find(p) \in Commands(P)
    BY <1>1 DEF Find, Cmd, Commands, Quiet
  <2> QED
    BY <2>1, <2>2, <1>2, Zenon DEF Hlos, Rootfs, Wififw
<1>5. CASE Flash = "MMC" /\ m.fw \in {"FIT", "SYSUPGRADE"} /\ Accepted(m)
  <2> DEFINE H1 == flash("HLOS_1", 0, m.kernel)
             R1 == flash("rootfs_1", m.kernel, m.size)
             b == IF m.backup /\ BackupFits(m)
                  THEN IF m.fw = "FIT" THEN <<May(<<H1, R1>>)>> ELSE <<May(<<H1>>), May(<<R1>>)>>
                  ELSE <<>>
             B == LateParts(m)
  <2>1. d = EmmcCopies(m) \o t
    BY <1>5, Zenon DEF do_http_upgrade, do_firmware_upgrade
  <2>2. b \in Late(m)
    <3>1. "HLOS_1" \in B /\ "rootfs_1" \in B
      BY <1>5, Zenon DEF Accepted, LateParts, Between, Backups
    <3> HIDE DEF B
    <3>2. H1 \in Commands(B) /\ R1 \in Commands(B)
      BY <1>1, <3>1, Writes, Zenon
    <3> HIDE DEF H1, R1
    <3>3. <<H1, R1>> \in Seq(Commands(B)) \ {<<>>}
      BY <3>2
    <3>4. May(<<H1, R1>>) \in Rows(B) /\ May(<<H1>>) \in Rows(B) /\ May(<<R1>>) \in Rows(B)
      BY <3>2, <3>3, Lines, Single, Zenon
    <3>5. <<May(<<H1, R1>>)>> \in Seq(Rows(B)) /\ <<May(<<H1>>), May(<<R1>>)>> \in Seq(Rows(B)) /\ <<>> \in Seq(Rows(B))
      BY <3>4
    <3> QED
      BY <3>5, Zenon DEF Late, B
  <2>3. EmmcCopies(m) = (IF m.fw = "FIT" THEN <<Must(<<Hlos(m), Rootfs(m)>>)>>
                         ELSE <<Must(<<Hlos(m)>>), Must(<<Rootfs(m)>>)>>) \o b
    BY Zenon DEF EmmcCopies, Hlos, Rootfs, Must, May
  <2> HIDE DEF b, t, P, d
  <2>4. b \o t \in Late(m)
    BY <1>3, <2>2, Joined, Zenon DEF Late
  <2>5. Late(m) \subseteq Seq(Rows(P))
    BY Names, RowsWiden, Zenon DEF Late, P
  <2>6. b \in Seq(Rows(P)) /\ b \o t \in Seq(Rows(P))
    BY <2>2, <2>4, <2>5, Zenon
  <2>7. /\ Must(<<Hlos(m), Rootfs(m)>>) \in Rows(P)
        /\ Must(<<Hlos(m)>>) \in Rows(P) /\ Must(<<Rootfs(m)>>) \in Rows(P)
    <3>1. <<Hlos(m), Rootfs(m)>> \in Seq(Commands(P)) \ {<<>>}
      BY <1>4
    <3> QED
      BY <1>4, <3>1, Lines, Single, Zenon
  <2>8. CASE m.fw = "FIT"
    <3> DEFINE x == Must(<<Hlos(m), Rootfs(m)>>)
    <3>1. d = (<<x>> \o b) \o t
      BY <2>1, <2>3, <2>8, Zenon
    <3>2. x \in Rows(P) /\ <<x>> \in Seq(Rows(P))
      BY <2>7
    <3> HIDE DEF x
    <3>3. d = <<x>> \o (b \o t)
      BY <3>1, <3>2, <2>6, <1>3, ConcatAssociative
    <3>4. d \in Seq(Rows(P)) /\ d # <<>> /\ Head(d) = x /\ Tail(d) = b \o t
      BY <3>2, <3>3, <2>6, Cons
    <3>5. Line(d, <<Hlos(m), Rootfs(m)>>) /\ Tail(d) \in Late(m)
      BY <3>4, <2>4, Zenon DEF Line, x
    <3>6. AtHlos(m, d)
      BY <3>5, Zenon DEF AtHlos
    <3> QED
      BY <1>5, <3>4, <3>6, Zenon DEF P, d
  <2>9. CASE m.fw # "FIT"
    <3> DEFINE x == Must(<<Hlos(m)>>)
               y == Must(<<Rootfs(m)>>)
    <3>1. d = (<<x, y>> \o b) \o t
      BY <2>1, <2>3, <2>9, Zenon
    <3>2. x \in Rows(P) /\ y \in Rows(P) /\ <<x>> \in Seq(Rows(P)) /\ <<y>> \in Seq(Rows(P)) /\ <<x, y>> \in Seq(Rows(P))
      BY <2>7
    <3> HIDE DEF x, y
    <3>3. d = <<x, y>> \o (b \o t)
      BY <3>1, <3>2, <2>6, <1>3, ConcatAssociative
    <3>4. d = <<x>> \o (<<y>> \o (b \o t))
      <4>1. <<x, y>> \o (b \o t) = <<x>> \o (<<y>> \o (b \o t))
        BY <3>2, <2>6, TwoThings, SMTT(60)
      <4> QED
        BY <3>3, <4>1, Zenon
    <3>5. <<y>> \o (b \o t) \in Seq(Rows(P)) /\ <<y>> \o (b \o t) # <<>> /\ Head(<<y>> \o (b \o t)) = y /\ Tail(<<y>> \o (b \o t)) = b \o t
      BY <3>2, <2>6, Cons
    <3>6. d \in Seq(Rows(P)) /\ d # <<>> /\ Head(d) = x /\ Tail(d) = <<y>> \o (b \o t)
      BY <3>2, <3>4, <3>5, Cons
    <3>7. Line(d, <<Hlos(m)>>) /\ Line(Tail(d), <<Rootfs(m)>>) /\ Tail(Tail(d)) \in Late(m)
      BY <3>5, <3>6, <2>4, Zenon DEF Line, x, y
    <3>8. AtHlos(m, d)
      BY <3>7, Zenon DEF AtHlos
    <3> QED
      BY <1>5, <3>6, <3>8, Zenon DEF P, d
  <2> QED
    BY <2>8, <2>9, Zenon
<1>6. CASE Flash = "MMC" /\ m.fw = "QSDK"
  <2>1. d = <<QsdkLine(m)>> \o t
    BY <1>6, Zenon DEF do_http_upgrade, do_firmware_upgrade
  <2>2. QsdkLine(m) = Must(Six(m))
    BY Zenon DEF QsdkLine, Six, Find, Hlos, Rootfs, Wififw
  <2>3. Find("HLOS") \in Commands(P) /\ Find("rootfs") \in Commands(P) /\ Find("WIFIFW") \in Commands(P)
    BY <1>4, Names, Zenon DEF Systems
  <2> HIDE DEF t, P, d
  <2>4. Six(m) \in Seq(Commands(P)) /\ Six(m) # <<>>
    BY <1>4, <2>3 DEF Six
  <2>5. Must(Six(m)) \in Rows(P)
    BY <2>4, Lines, Zenon
  <2>6. d \in Seq(Rows(P)) /\ d # <<>> /\ Head(d) = Must(Six(m)) /\ Tail(d) = t
    BY <1>3, <2>1, <2>2, <2>5, Cons
  <2>7. Line(d, Six(m)) /\ Tail(d) \in Late(m)
    BY <1>3, <2>6, Zenon DEF Line
  <2>8. AtHlos(m, d)
    BY <2>7, Zenon DEF AtHlos
  <2> QED
    BY <1>6, <2>6, <2>8, Zenon DEF P, d
<1>7. CASE Flash = "NAND" /\ m.fw = "UBI"
  <2> DEFINE r == flash("rootfs", 0, m.size)
             u1 == flash("rootfs1", 0, m.size)
             u2 == flash("rootfs2", 0, m.size)
             u3 == flash("rootfs_1", 0, m.size)
             o == IF m.backup THEN <<u3>> ELSE <<>>
             c == <<r, u1, u2>> \o o
  <2>1. d = <<Must(c)>>
    BY <1>7, Zenon DEF do_http_upgrade, do_firmware_upgrade, UbiLine
  <2>2. u1 \in Commands(UbiParts) /\ u2 \in Commands(UbiParts) /\ u3 \in Commands(UbiParts)
    BY <1>1, Writes, Zenon DEF UbiParts
  <2>3. r \in Commands(P) /\ Commands(UbiParts) \subseteq Commands(P) /\ Seq(Commands(UbiParts)) \subseteq Seq(Commands(P))
    BY <1>2, Names, RowsWiden, Zenon DEF Systems
  <2> HIDE DEF r, u1, u2, u3, P, d
  <2>4. o \in Seq(Commands(UbiParts)) /\ <<u1, u2>> \in Seq(Commands(UbiParts))
    BY <2>2
  <2>5. <<u1, u2>> \o o \in Seq(Commands(UbiParts))
    BY <2>4, Joined, Zenon
  <2>6. <<r, u1, u2>> = <<r>> \o <<u1, u2>> /\ <<r>> \in Seq(Commands(P))
    BY <2>3
  <2>7. <<u1, u2>> \in Seq(Commands(P)) /\ o \in Seq(Commands(P)) /\ <<u1, u2>> \o o \in Seq(Commands(P))
    BY <2>3, <2>4, <2>5, Zenon
  <2> HIDE DEF o
  <2>8. c = <<r>> \o (<<u1, u2>> \o o)
    BY <2>6, <2>7, ConcatAssociative, SMTT(60)
  <2> HIDE DEF c
  <2>9. c \in Seq(Commands(P)) /\ c # <<>> /\ Head(c) = r /\ Tail(c) = <<u1, u2>> \o o
    BY <2>3, <2>7, <2>8, Cons
  <2>10. Must(c) \in Rows(P)
    BY <2>9, Lines, Zenon
  <2>11. d \in Seq(Rows(P)) /\ Len(d) = 1 /\ Head(d) = Must(c)
    BY <2>1, <2>10
  <2>12. Head(d).onfail = "return" /\ Head(d).cmds = c
    BY <2>11 DEF Must
  <2>13. AtUbi(m, d)
    BY <2>5, <2>9, <2>11, <2>12, Zenon DEF AtUbi, r
  <2> QED
    BY <1>7, <2>11, <2>13, Zenon DEF P, d
<1>8. CASE Flash = "NOR" /\ m.fw \in {"FIT", "SYSUPGRADE"}
  <2> DEFINE q == Cmd("sf_probe", "firmware")
             f == flash("firmware", 0, m.size)
             Z == {"firmware"}
  <2>1. d = <<Must(<<q, f>>)>>
    BY <1>8, Zenon DEF do_http_upgrade, do_firmware_upgrade
  <2>2. q \in Commands(Z) /\ f \in Commands(Z)
    <3>1. q \in Commands(Z)
      BY <1>1, PartAssumption DEF Cmd, Commands, Quiet
    <3>2. f \in Commands(Z)
      BY <1>1, Writes, Zenon
    <3> QED
      BY <3>1, <3>2, Zenon
  <2>3. Z \subseteq P /\ Z \subseteq Part \ Systems
    BY Names, Zenon
  <2>4. <<q, f>> \in Seq(Commands(Z)) \ {<<>>}
    BY <2>2
  <2>5. d \in Seq(Rows(Z))
    BY <2>1, <2>4, Lines, Zenon
  <2>6. Seq(Rows(Z)) \subseteq Seq(Rows(P)) /\ Seq(Rows(Z)) \subseteq Seq(Rows(Part \ Systems))
    BY <2>3, RowsWiden, Zenon
  <2> QED
    BY <2>5, <2>6, Zenon
<1>9. CASE do_http_upgrade(m) = <<>>
  BY <1>9, Zenon
<1> QED
  BY <1>5, <1>6, <1>7, <1>8, <1>9, Zenon DEF do_http_upgrade, do_firmware_upgrade

(* What depends on the device alone stays as it is.                        *)
LEMMA Steady ==
    ASSUME dev' = dev
    PROVE  /\ MaxSize' = MaxSize /\ Image' = Image /\ Flash' = Flash /\ Prepare' = Prepare
           /\ Rows(Part)' = Rows(Part)
           /\ Rows(Part \ Loaders)' = Rows(Part \ Loaders)
           /\ Rows(Part \ Systems)' = Rows(Part \ Systems)
           /\ Rows(UbiParts)' = Rows(UbiParts)
           /\ Commands(UbiParts)' = Commands(UbiParts)
           /\ up' = up => Late(up)' = Late(up)
<1>1. MaxSize' = MaxSize /\ Image' = Image /\ Flash' = Flash
  BY Zenon DEF MaxSize, Image, Flash
<1>2. Prepare' = Prepare
  BY <1>1, Zenon DEF Prepare, Cmd
<1>3. Rows(Part)' = Rows(Part)
  BY <1>1, Zenon DEF Rows, Commands, Quiet
<1>4. Rows(Part \ Loaders)' = Rows(Part \ Loaders)
  BY <1>1, Zenon DEF Rows, Commands, Quiet, Loaders
<1>5. Rows(Part \ Systems)' = Rows(Part \ Systems)
  BY <1>1, Zenon DEF Rows, Commands, Quiet, Systems
<1>6. Rows(UbiParts)' = Rows(UbiParts) /\ Commands(UbiParts)' = Commands(UbiParts)
  BY <1>1, Zenon DEF Rows, Commands, Quiet, UbiParts
<1>7. up' = up => Late(up)' = Late(up)
  BY <1>1, Zenon DEF Late, LateParts, Backups, Between, Rows, Commands, Quiet
<1> QED
  BY <1>1, <1>2, <1>3, <1>4, <1>5, <1>6, <1>7, Zenon

(* Every upgrade is a sequence of lines.                                   *)
LEMMA UpgradeLines ==
    ASSUME dev \in Device, NEW m \in Image
    PROVE  do_http_upgrade(m) \in Seq(Rows(Part))
<1>1. /\ Seq(Rows(Tables)) \subseteq Seq(Rows(Part))
      /\ Seq(Rows(Loaders)) \subseteq Seq(Rows(Part))
      /\ Seq(Rows(Part \ Loaders)) \subseteq Seq(Rows(Part))
  BY Names, RowsWiden, Zenon
<1>2. <<>> \in Seq(Rows(Part))
  OBVIOUS
<1>3. CASE do_http_upgrade(m) = <<>>
  BY <1>2, <1>3, Zenon
<1>4. CASE do_http_upgrade(m) # <<>> /\ m.type = "FIRMWARE"
  BY <1>1, <1>4, FirmwareUpgrade, Zenon
<1>5. CASE do_http_upgrade(m) # <<>> /\ m.type = "UBOOT"
  BY <1>1, <1>5, UbootUpgrade, Zenon
<1>6. CASE m.type \notin {"FIRMWARE", "UBOOT"}
  BY <1>1, <1>6, OtherUpgrade, Zenon
<1> QED
  BY <1>3, <1>4, <1>5, <1>6, Zenon

(* While lines about P run, only P changes and the lines stay about P.     *)
LEMMA StayWithin ==
    ASSUME FlashType, status = "running", Command, dev' = dev,
           NEW P \in SUBSET Part, lines \in Seq(Rows(P))
    PROVE  /\ status' \in {"running", "ok", "failed"}
           /\ status' = "running" => lines' \in Seq(Rows(P)) \ {<<>>}
           /\ \A p \in Part : p \notin P => part'[p] = part[p]
<1>1. lines \in Seq(Rows(P)) \ {<<>>}
  BY Zenon DEF FlashType
<1>2. MaxSize \in Nat
  BY SizeBound, Zenon DEF FlashType
<1>3. cmd \in Commands(P)
  BY <1>1, Current, Zenon
<1>4. cmd.op \in Quiet \/ cmd.part \in P
  BY <1>3, Zenon DEF Commands
<1>5. \A p \in Part : p \notin P => part'[p] = part[p]
  BY <1>4, Effect, Zenon
<1>6. CASE lines' = lines /\ status' = status
  BY <1>1, <1>5, <1>6, Zenon
<1>7. ASSUME NEW c \in {0, 1, -2}, Return(c)
      PROVE  /\ status' \in {"running", "ok", "failed"}
             /\ status' = "running" => lines' \in Seq(Rows(P)) \ {<<>>}
  BY <1>1, <1>2, <1>7, ReturnCases, Zenon
<1>8. (lines' = lines /\ status' = status) \/ \E c \in {0, 1, -2} : Return(c)
  BY Effect, Zenon
<1> QED
  BY <1>5, <1>6, <1>7, <1>8, Zenon

(* A command is run only while an upgrade is.                              *)
LEMMA Runs == Command => status = "running"
BY Zenon DEF Command, flash_refused, flash_erase, flash_write, flash_fails, flash_silent,
       verify_flashed_image, verify_unread, mmc_read, mw, flasherase, quiet_command, command_fails, Running

(* The types are kept.                                                     *)
LEMMA TypeStep ==
    ASSUME FlashType, Next
    PROVE  FlashType'
<1>1. dev' = dev /\ MaxSize' = MaxSize /\ Image' = Image /\ Rows(Part)' = Rows(Part)
  BY Steady, Zenon DEF Next
<1>2. dev \in Device /\ up \in Image /\ uploads \in Nat /\ part \in [Part -> Seq(Block)] /\ ram \in [1..(MaxSize + 1) -> Block]
  BY Zenon DEF FlashType
<1>3. ASSUME NEW m \in Image, Upload(m) PROVE FlashType'
  <2>1. /\ uploads' = uploads + 1 /\ up' = m /\ part' = part
        /\ ram' = [i \in DOMAIN ram |-> IF i <= m.size THEN <<uploads + 1, i>> ELSE Torn]
        /\ lines' = do_http_upgrade(m)
        /\ status' = IF do_http_upgrade(m) = <<>> THEN "failed" ELSE "running"
    BY <1>3, Zenon DEF Upload
  <2>2. lines' \in Seq(Rows(Part))
    BY <1>2, <2>1, UpgradeLines, Zenon
  <2>3. ram' \in [1..(MaxSize + 1) -> Block]
    <3>1. DOMAIN ram = 1..(MaxSize + 1) /\ MaxSize \in Nat
      BY <1>2, SizeBound, Zenon
    <3>2. \A i \in 1..(MaxSize + 1) : <<uploads + 1, i>> \in Block
      BY <1>2, <3>1 DEF Block
    <3>3. Torn \in Block
      BY DEF Torn, Block
    <3> QED
      BY <2>1, <3>1, <3>2, <3>3, Zenon
  <2>4. uploads' \in Nat /\ up' \in Image
    BY <1>2, <2>1
  <2> QED
    BY <1>1, <1>2, <2>1, <2>2, <2>3, <2>4, Zenon DEF FlashType
<1>4. CASE Command
  <2>1. status = "running"
    BY <1>4, Runs, Zenon
  <2>2. /\ up' = up /\ uploads' = uploads
        /\ part' \in [Part -> Seq(Block)] /\ ram' \in [1..(MaxSize + 1) -> Block]
    BY <1>1, <1>4, <2>1, Effect, Zenon
  <2>3. lines \in Seq(Rows(Part))
    BY <2>1, Zenon DEF FlashType
  <2>4. /\ status' \in {"running", "ok", "failed"}
        /\ status' = "running" => lines' \in Seq(Rows(Part)) \ {<<>>}
    BY <1>1, <1>4, <2>1, <2>3, StayWithin, Zenon
  <2> QED
    BY <1>1, <1>2, <2>2, <2>4, Zenon DEF FlashType
<1>5. CASE PowerLoss
  BY <1>1, <1>2, <1>5, Zenon DEF PowerLoss, FlashType
<1> QED
  BY <1>3, <1>4, <1>5, Zenon DEF Next

(* The lines of do_uboot_upgrade, one by one.                              *)
LEMMA UbootLines ==
    ASSUME dev \in Device, NEW m \in Image
    PROVE  LET V == <<Must(<<Cmd("verify", "APPSBL")>>)>> \o Then(m)
               W == Write(m, "APPSBL") \o Then(m)
               X == Write(m, "APPSBL_1")
           IN  /\ V \in Seq(Rows(Part)) /\ W \in Seq(Rows(Part)) /\ X \in Seq(Rows(Part))
               /\ Then(m) \in Seq(Rows(Part))
               /\ V # <<>> /\ Head(V) = Must(<<Cmd("verify", "APPSBL")>>) /\ Tail(V) = Then(m)
               /\ W # <<>> /\ Head(W) = Must(<<flash("APPSBL", 0, m.size)>>) /\ Tail(W) = V
               /\ X # <<>> /\ Head(X) = Must(<<flash("APPSBL_1", 0, m.size)>>)
               /\ Tail(X) = <<Must(<<Cmd("verify", "APPSBL_1")>>)>>
<1> DEFINE V == <<Must(<<Cmd("verify", "APPSBL")>>)>> \o Then(m)
           W == Write(m, "APPSBL") \o Then(m)
           X == Write(m, "APPSBL_1")
           x == Must(<<flash("APPSBL", 0, m.size)>>)
           v == Must(<<Cmd("verify", "APPSBL")>>)
           x1 == Must(<<flash("APPSBL_1", 0, m.size)>>)
           v1 == Must(<<Cmd("verify", "APPSBL_1")>>)
<1>1. MaxSize \in Nat \ {0} /\ m.size \in 0..MaxSize
  BY SizeBound
<1>2. "APPSBL" \in Part /\ "APPSBL_1" \in Part
  BY PartAssumption, Zenon
<1>3. x \in Rows(Part) /\ v \in Rows(Part) /\ x1 \in Rows(Part) /\ v1 \in Rows(Part)
  <2>1. \A p \in Part : flash(p, 0, m.size) \in Commands(Part) /\ Cmd("verify", p) \in Commands(Part)
    BY <1>1, Writes DEF Cmd, Commands
  <2> QED
    BY <1>2, <2>1, Single, Zenon
<1>4. W = <<x, v>> \o Then(m) /\ V = <<v>> \o Then(m) /\ X = <<x1, v1>>
  BY Zenon DEF Write
<1>a. Then(m) = X \/ Then(m) = <<>>
  BY Zenon DEF Then
<1>b. <<>> \in Seq(Rows(Part))
  OBVIOUS
<1> HIDE DEF x, v, x1, v1, W, V, X
<1>c. /\ <<x1, v1>> \in Seq(Rows(Part)) /\ <<x1, v1>> # <<>>
      /\ Head(<<x1, v1>>) = x1 /\ Tail(<<x1, v1>>) = <<v1>>
  BY <1>3, Pair, Zenon
<1>5. X \in Seq(Rows(Part)) /\ X # <<>> /\ Head(X) = x1 /\ Tail(X) = <<v1>>
  BY <1>4, <1>c, Zenon
<1>6. Then(m) \in Seq(Rows(Part))
  BY <1>a, <1>b, <1>5, Zenon
<1>7. V \in Seq(Rows(Part)) /\ V # <<>> /\ Head(V) = v /\ Tail(V) = Then(m)
  BY <1>3, <1>4, <1>6, Cons, ZenonT(60)
<1>8. W = <<x>> \o V
  <2>1. <<x, v>> \o Then(m) = <<x>> \o (<<v>> \o Then(m))
    BY <1>3, <1>6, TwoThings
  <2> QED
    BY <1>4, <2>1, Zenon
<1>9. W \in Seq(Rows(Part)) /\ W # <<>> /\ Head(W) = x /\ Tail(W) = V
  BY <1>3, <1>7, <1>8, Cons
<1> QED
  BY <1>5, <1>6, <1>7, <1>9, Zenon DEF x, v, x1, v1, W, V, X

(* What a line of one command leads to.                                    *)
LEMMA OneReturn ==
    ASSUME FlashType, status = "running", NEW x, Line(lines, <<x>>), NEW c \in {0, 1, -2}, Return(c)
    PROVE  /\ cmd = x
           /\ \/ c # 1 /\ lines' = Tail(lines) /\ status' = IF lines' = <<>> THEN "ok" ELSE "running"
              \/ c = 1 /\ status' = "failed"
<1>1. lines \in Seq(Rows(Part)) \ {<<>>} /\ MaxSize \in Nat
  BY SizeBound, Zenon DEF FlashType
<1>2. Head(lines).cmds = <<x>> /\ Head(lines).onfail = "return"
  BY DEF Line, Must
<1>3. cmd = x /\ Tail(Head(lines).cmds) = <<>>
  BY <1>2, Alone, Zenon DEF cmd
<1>4. Part \in SUBSET Part
  BY Zenon
<1>5. \/ c = 0 /\ Tail(Head(lines).cmds) # <<>>
      \/ /\ c = 0 \/ c = -2 \/ Head(lines).onfail = "ignore"
         /\ lines' = Tail(lines) /\ status' = IF lines' = <<>> THEN "ok" ELSE "running"
      \/ Head(lines).onfail = "reload"
      \/ c = 1 /\ status' = "failed"
  BY <1>1, <1>4, ReturnCases, Zenon
<1> QED
  BY <1>2, <1>3, <1>5

(* The lines of the U-Boot upgrade are the same after a step.              *)
LEMMA SteadyUboot ==
    ASSUME dev' = dev, NEW m, up' = m
    PROVE  Before(up)' = Before(m) /\ After(up)' = After(m)
<1>1. Prepare' = Prepare
  BY Steady, Zenon
<1> QED
  BY <1>1, Zenon DEF Before, After, Then, Write, Must, flash, Cmd

(* A first copy that is not touched stays whole.                           *)
LEMMA StillWhole ==
    ASSUME Whole({"APPSBL"}, part), part'["APPSBL"] = part["APPSBL"], uploads' = uploads
    PROVE  Whole({"APPSBL"}, part)'
BY Zenon DEF Whole

(* While the second copy of U-Boot is the old one, the device has a boot   *)
(* loader.                                                                 *)
LEMMA BackupKept ==
    ASSUME part'["APPSBL_1"] = start'["APPSBL_1"]
    PROVE  UbootSurvives'
BY DEF UbootSurvives, Whole

(* A step that touches neither copy leaves the device its boot loader.     *)
LEMMA LoadersKept ==
    ASSUME part'["APPSBL"] = part["APPSBL"], part'["APPSBL_1"] = part["APPSBL_1"],
           uploads' = uploads, start' = start, UbootSurvives
    PROVE  UbootSurvives'
BY DEF UbootSurvives, Whole

(* The initial states have the types and LoaderInv.                        *)
LEMMA LoaderInit == Init => FlashType /\ LoaderInv
<1> SUFFICES ASSUME Init PROVE FlashType /\ LoaderInv
  BY Zenon
<1>1. /\ dev \in Device /\ part = [p \in Part |-> IF Cap[p] > 0 THEN <<Old>> ELSE <<>>]
      /\ ram = [i \in 1..(MaxSize + 1) |-> Torn] /\ up = (CHOOSE m \in Image : TRUE)
      /\ lines = <<>> /\ status = "idle" /\ uploads = 0 /\ start = part
  BY Zenon DEF Init
<1>2. MaxSize \in Nat \ {0} /\ Image # {}
  BY <1>1, SizeBound, Zenon
<1>3. Torn \in Block /\ <<Old>> \in Seq(Block) /\ <<>> \in Seq(Block)
  BY DEF Torn, Old, Block
<1>4. FlashType
  BY <1>1, <1>2, <1>3, Zenon DEF FlashType
<1>5. part["APPSBL"] \in {<<Old>>, <<>>}
  BY <1>1, PartAssumption, Zenon
<1>6. OneImage(part["APPSBL"])
  BY <1>5 DEF OneImage
<1>7. UbootSurvives
  BY <1>1 DEF UbootSurvives, Whole
<1> QED
  BY <1>1, <1>4, <1>6, <1>7, Zenon DEF LoaderInv

(* A new upload begins with LoaderInv.                                     *)
LEMMA LoaderUpload ==
    ASSUME FlashType, LoaderInv, dev' = dev, NEW m \in Image, Upload(m)
    PROVE  LoaderInv'
<1>1. /\ uploads' = uploads + 1 /\ up' = m /\ part' = part /\ start' = part
      /\ ram' = [i \in DOMAIN ram |-> IF i <= m.size THEN <<uploads + 1, i>> ELSE Torn]
      /\ lines' = do_http_upgrade(m)
      /\ status' = IF do_http_upgrade(m) = <<>> THEN "failed" ELSE "running"
  BY Zenon DEF Upload
<1>2. OneImage(part["APPSBL"])'
  BY <1>1, Zenon DEF LoaderInv, OneImage
<1>3. UbootSurvives'
  BY <1>1, BackupKept, Zenon
<1>4. dev \in Device
  BY Zenon DEF FlashType
<1>5. ASSUME status' = "running", m.type = "UBOOT" PROVE UbootSteps'
  <2>1. lines' \in Before(m)
    BY <1>1, <1>4, <1>5, UbootUpgrade, Zenon DEF Before
  <2>2. Before(up)' = Before(m)
    BY <1>1, SteadyUboot, Zenon
  <2>3. \A i \in 1..m.size : ram'[i][1] = uploads'
    <3>1. m.size \in 1..MaxSize /\ MaxSize \in Nat /\ DOMAIN ram = 1..(MaxSize + 1)
      BY <1>4, SizeBound, Zenon DEF FlashType
    <3>2. SUFFICES ASSUME NEW i \in 1..m.size PROVE ram'[i][1] = uploads'
      BY Zenon
    <3>3. i \in DOMAIN ram /\ i <= m.size
      BY <3>1
    <3>4. ram'[i] = <<uploads + 1, i>>
      BY <1>1, <3>3, Zenon
    <3> QED
      BY <1>1, <3>4
  <2>4. Same({"APPSBL_1"})'
    BY <1>1, Zenon DEF Same
  <2> QED
    BY <1>1, <2>1, <2>2, <2>3, <2>4, Zenon DEF UbootSteps
<1>6. ASSUME status' = "running", m.type # "UBOOT"
      PROVE  lines' \in Seq(Rows(Part \ Loaders)') /\ Same(Loaders)'
  <2>1. do_http_upgrade(m) # <<>>
    BY <1>1, <1>6, Zenon
  <2>2. lines' \in Seq(Rows(Part \ Loaders))
    <3>1. CASE m.type = "FIRMWARE"
      BY <1>1, <1>4, <2>1, <3>1, FirmwareUpgrade, Zenon
    <3>2. CASE m.type # "FIRMWARE"
      <4>1. do_http_upgrade(m) \in Seq(Rows(Tables))
        BY <1>4, <1>6, <3>2, OtherUpgrade, Zenon
      <4>2. Seq(Rows(Tables)) \subseteq Seq(Rows(Part \ Loaders))
        BY Names, RowsWiden, Zenon
      <4> QED
        BY <1>1, <4>1, <4>2, Zenon
    <3> QED
      BY <3>1, <3>2, Zenon
  <2>3. Same(Loaders)'
    BY <1>1, Zenon DEF Same
  <2> QED
    BY <2>2, <2>3, Steady, Zenon
<1> QED
  BY <1>1, <1>2, <1>3, <1>5, <1>6, Zenon DEF LoaderInv

(* An upgrade of something else keeps LoaderInv.                           *)
LEMMA LoaderElsewhere ==
    ASSUME FlashType, LoaderInv, status = "running", Command, dev' = dev, up.type # "UBOOT"
    PROVE  LoaderInv'
<1>1. lines \in Seq(Rows(Part \ Loaders)) /\ Same(Loaders) /\ OneImage(part["APPSBL"]) /\ UbootSurvives
  BY Zenon DEF LoaderInv
<1>2. up' = up /\ uploads' = uploads /\ start' = start
  BY Effect, Zenon
<1>3. /\ status' = "running" => lines' \in Seq(Rows(Part \ Loaders))
      /\ \A p \in Part : p \notin Part \ Loaders => part'[p] = part[p]
  BY <1>1, StayWithin, Zenon
<1>4. \A p \in Loaders : part'[p] = part[p]
  BY <1>3, Names, Zenon
<1>5. part'["APPSBL"] = part["APPSBL"] /\ part'["APPSBL_1"] = part["APPSBL_1"]
  BY <1>4, Zenon DEF Loaders
<1>6. OneImage(part["APPSBL"])'
  BY <1>1, <1>5, Zenon DEF OneImage
<1>7. UbootSurvives'
  BY <1>1, <1>2, <1>5, LoadersKept, Zenon
<1>8. Same(Loaders)'
  BY <1>1, <1>2, <1>4, Zenon DEF Same
<1>9. status' = "running" => (lines \in Seq(Rows(Part \ Loaders)))'
  BY <1>3, Steady, Zenon
<1> QED
  BY <1>2, <1>6, <1>7, <1>8, <1>9, Zenon DEF LoaderInv

(* do_uboot_upgrade after the read-back of the first copy: the first copy  *)
(* is whole and no longer written.                                         *)
LEMMA LoaderSecond ==
    ASSUME FlashType, LoaderInv, status = "running", Command, dev' = dev, up.type = "UBOOT",
           lines \in After(up), Whole({"APPSBL"}, part)
    PROVE  LoaderInv'
<1> DEFINE Cs == {flash("APPSBL_1", 0, up.size), Cmd("verify", "APPSBL_1")}
<1>1. dev \in Device /\ up \in Image
  BY Zenon DEF FlashType
<1>2. \E x \in Cs : Line(lines, <<x>>) /\ Tail(lines) \in After(up) \cup {<<>>}
  <2>1. CASE lines = Write(up, "APPSBL_1")
    <3>1. /\ lines # <<>> /\ Head(lines) = Must(<<flash("APPSBL_1", 0, up.size)>>)
          /\ Tail(lines) = <<Must(<<Cmd("verify", "APPSBL_1")>>)>>
      BY <1>1, <2>1, UbootLines, Zenon
    <3> QED
      BY <3>1, Zenon DEF Line, After
  <2>2. CASE lines = <<Must(<<Cmd("verify", "APPSBL_1")>>)>>
    <3>1. lines # <<>> /\ Head(lines) = Must(<<Cmd("verify", "APPSBL_1")>>) /\ Tail(lines) = <<>>
      BY <2>2, Alone, Zenon
    <3> QED
      BY <3>1, Zenon DEF Line
  <2> QED
    BY <2>1, <2>2, Zenon DEF After
<1>3. PICK x \in Cs : Line(lines, <<x>>) /\ Tail(lines) \in After(up) \cup {<<>>}
  BY <1>2, Zenon
<1>4. cmd = x /\ cmd.part = "APPSBL_1"
  <2>1. Head(lines).cmds = <<x>>
    BY <1>3 DEF Line, Must
  <2>2. cmd = x
    BY <2>1, Alone, Zenon DEF cmd
  <2> QED
    BY <1>3, <2>2 DEF flash, Cmd
<1> HIDE DEF Cs
<1>5. up' = up /\ uploads' = uploads /\ start' = start
  BY Effect, Zenon
<1>6. part'["APPSBL"] = part["APPSBL"]
  BY <1>4, PartAssumption, Effect, Zenon
<1>7. Whole({"APPSBL"}, part)'
  BY <1>5, <1>6, StillWhole, Zenon
<1>8. OneImage(part["APPSBL"])'
  BY <1>6 DEF LoaderInv, OneImage
<1>9. UbootSurvives'
  BY <1>7, Zenon DEF UbootSurvives
<1>10. status' = "running" => lines' \in After(up)
  <2>1. CASE lines' = lines
    BY <2>1, Zenon
  <2>2. ASSUME NEW c \in {0, 1, -2}, Return(c) PROVE status' = "running" => lines' \in After(up)
    <3>1. \/ lines' = Tail(lines) /\ status' = IF lines' = <<>> THEN "ok" ELSE "running"
          \/ status' = "failed"
      BY <1>3, <2>2, OneReturn, Zenon
    <3> QED
      BY <3>1, <1>3, Zenon
  <2>3. lines' = lines \/ \E c \in {0, 1, -2} : Return(c)
    BY Effect, Zenon
  <2> QED
    BY <2>1, <2>2, <2>3, Zenon
<1>11. After(up)' = After(up)
  BY <1>5, SteadyUboot, Zenon
<1> QED
  BY <1>5, <1>7, <1>8, <1>9, <1>10, <1>11, Zenon DEF LoaderInv, UbootSteps

(* do_uboot_upgrade before it: only the first copy is written, and the     *)
(* read-back lets it go on only if that is the uploaded image.             *)
LEMMA LoaderFirst ==
    ASSUME FlashType, LoaderInv, status = "running", Command, dev' = dev, up.type = "UBOOT",
           lines \in Before(up), Same({"APPSBL_1"}), \A i \in 1..up.size : ram[i][1] = uploads
    PROVE  LoaderInv'
<1> DEFINE V == <<Must(<<Cmd("verify", "APPSBL")>>)>> \o Then(up)
           W == Write(up, "APPSBL") \o Then(up)
<1>1. dev \in Device /\ up \in Image
  BY Zenon DEF FlashType
<1>2. /\ up' = up /\ uploads' = uploads /\ start' = start
      /\ Before(up)' = Before(up) /\ After(up)' = After(up)
  BY Effect, SteadyUboot, Zenon
<1>3. /\ V \in Seq(Rows(Part)) /\ W \in Seq(Rows(Part)) /\ W # <<>> /\ V # <<>>
      /\ Head(V) = Must(<<Cmd("verify", "APPSBL")>>) /\ Tail(V) = Then(up)
      /\ Head(W) = Must(<<flash("APPSBL", 0, up.size)>>) /\ Tail(W) = V
  BY <1>1, UbootLines, Zenon
<1>4. lines \in {<<Must(Prepare)>> \o W, W, V} /\ W \in Before(up) /\ V \in Before(up)
  BY Zenon DEF Before
<1>5. Then(up) \in {Write(up, "APPSBL_1"), <<>>} /\ Write(up, "APPSBL_1") \in After(up)
  BY Zenon DEF Then, After
<1>6. lines \in Seq(Rows(Part)) \ {<<>>} /\ part["APPSBL"] \in Seq(Block) /\ up.size \in Nat \ {0}
      /\ MaxSize \in Nat \ {0}
  <2>1. lines \in Seq(Rows(Part)) \ {<<>>} /\ part["APPSBL"] \in Seq(Block)
    BY PartAssumption, Zenon DEF FlashType
  <2>2. up.size \in Nat \ {0} /\ MaxSize \in Nat \ {0}
    BY <1>1, SizeBound
  <2> QED
    BY <2>1, <2>2, Zenon
<1> HIDE DEF V, W
<1>7. ASSUME cmd.part = "APPSBL" PROVE Same({"APPSBL_1"})' /\ UbootSurvives'
  <2>1. part'["APPSBL_1"] = part["APPSBL_1"]
    BY <1>7, PartAssumption, Effect, Zenon
  <2>2. part'["APPSBL_1"] = start'["APPSBL_1"]
    BY <1>2, <2>1, Zenon DEF Same
  <2> QED
    BY <2>2, BackupKept, Zenon DEF Same
<1>8. CASE lines = <<Must(Prepare)>> \o W
  <2>1. Must(Prepare) \in Rows(Part)
    <3>1. Prepare # <<>>
      <4>1. Prepare = <<Cmd("prepare", "APPSBL")>> \/ Prepare = <<>>
        BY Zenon DEF Prepare
      <4>2. ASSUME Prepare = <<>> PROVE FALSE
        <5> DEFINE r == Must(Prepare)
                   S == Rows(Part) \cup {r}
        <5>1. r \in S /\ W \in Seq(S)
          BY <1>3, SeqMonotonic, Zenon
        <5> HIDE DEF r, S
        <5>2. Head(<<r>> \o W) = r
          BY <5>1, Cons, Zenon
        <5>3. Head(lines) = r
          BY <1>8, <5>2, Zenon DEF r
        <5>4. Head(lines).cmds # <<>>
          BY <1>6, Current, Zenon
        <5> QED
          BY <5>3, <5>4, <4>2 DEF r, Must
      <4> QED
        BY <4>1, <4>2, Zenon
    <3> QED
      BY <1>1, <3>1, Prepared, Zenon
  <2>2. lines # <<>> /\ Head(lines) = Must(Prepare) /\ Tail(lines) = W
    BY <1>3, <1>8, <2>1, Cons
  <2>3. Prepare = <<Cmd("prepare", "APPSBL")>>
    <3>1. Head(lines).cmds # <<>>
      BY <1>6, Current, Zenon
    <3> QED
      BY <3>1, <2>2, <1>1, Prepared DEF Must
  <2>4. Line(lines, <<Cmd("prepare", "APPSBL")>>)
    BY <2>2, <2>3, Zenon DEF Line
  <2>5. cmd = Cmd("prepare", "APPSBL")
    BY <2>2, <2>3, Alone DEF cmd, Must
  <2>6. cmd.op = "prepare" /\ cmd.part = "APPSBL" /\ cmd.op \in Quiet /\ cmd.op # "flash" /\ cmd.op \notin Reads
    BY <2>5, Zenon DEF Cmd, Quiet, Reads
  <2>7. ram' = ram /\ part'["APPSBL"] = part["APPSBL"] /\ \E c \in {0, 1, -2} : Return(c)
    BY <2>6, PartAssumption, Effect, Zenon
  <2>8. OneImage(part["APPSBL"])'
    BY <2>7 DEF LoaderInv, OneImage
  <2>9. status' = "running" => lines' = W
    BY <2>2, <2>4, <2>7, OneReturn, Zenon
  <2>10. status' = "running" => UbootSteps'
    BY <1>2, <1>4, <1>7, <2>6, <2>7, <2>9, Zenon DEF UbootSteps
  <2> QED
    BY <1>2, <1>7, <2>6, <2>8, <2>10, Zenon DEF LoaderInv
<1>9. CASE lines = W
  <2> DEFINE x == flash("APPSBL", 0, up.size)
  <2>1. Line(lines, <<x>>) /\ Tail(lines) = V
    BY <1>3, <1>9, Zenon DEF Line
  <2>2. cmd = x
    BY <1>3, <1>9, Alone DEF cmd, Must
  <2>3. cmd.op = "flash" /\ cmd.part = "APPSBL" /\ cmd.from = 0 /\ cmd.to = up.size /\ cmd.op \notin Reads
    BY <2>2, Zenon DEF flash, Reads
  <2> HIDE DEF x
  <2>4. /\ ram' = ram
        /\ (lines' = lines /\ status' = status) \/ \E c \in {0, 1, -2} : Return(c)
        /\ \/ part'["APPSBL"] \in {<<Torn>>, <<>>, part["APPSBL"]}
           \/ part'["APPSBL"] = [i \in 1..(up.size - 0) |-> ram[0 + i]]
    BY <2>3, Effect, Zenon
  <2>5. OneImage(part["APPSBL"])'
    <3>1. CASE part'["APPSBL"] \in {<<Torn>>, <<>>, part["APPSBL"]}
      BY <3>1 DEF LoaderInv, OneImage
    <3>2. CASE part'["APPSBL"] = [i \in 1..(up.size - 0) |-> ram[0 + i]]
      <4>1. \A i \in 1..up.size : part'["APPSBL"][i] = ram[i]
        BY <1>6, <3>2
      <4>2. DOMAIN part'["APPSBL"] = 1..up.size /\ 1 \in 1..up.size
        BY <1>6, <3>2
      <4> QED
        BY <4>1, <4>2 DEF OneImage
    <3> QED
      BY <2>4, <3>1, <3>2, Zenon
  <2>6. status' = "running" => lines' \in {W, V}
    <3>1. ASSUME NEW c \in {0, 1, -2}, Return(c) PROVE status' = "running" => lines' = V
      BY <2>1, <3>1, OneReturn, Zenon
    <3> QED
      BY <1>9, <2>4, <3>1, Zenon
  <2>7. status' = "running" => UbootSteps'
    BY <1>2, <1>4, <1>7, <2>3, <2>4, <2>6, Zenon DEF UbootSteps
  <2> QED
    BY <1>2, <1>7, <2>3, <2>5, <2>7, Zenon DEF LoaderInv
<1>10. CASE lines = V
  <2> DEFINE x == Cmd("verify", "APPSBL")
  <2>1. Line(lines, <<x>>) /\ Tail(lines) = Then(up)
    BY <1>3, <1>10, Zenon DEF Line
  <2>2. cmd = x
    BY <1>3, <1>10, Alone DEF cmd, Must
  <2>3. cmd.op = "verify" /\ cmd.part = "APPSBL" /\ cmd.op # "flash" /\ cmd.op \in Reads
    BY <2>2, Zenon DEF Cmd, Reads
  <2> HIDE DEF x
  <2>4. part'["APPSBL"] = part["APPSBL"]
    BY <2>3, PartAssumption, Effect, Zenon
  <2>5. PICK c \in {0, 1, -2} : Return(c) /\ c # -2 /\ (c = 0 => Matches)
    BY <2>3, Effect, Zenon
  <2>6. OneImage(part["APPSBL"])'
    BY <2>4 DEF LoaderInv, OneImage
  <2>7. \/ c # 1 /\ lines' = Tail(lines) /\ status' = IF lines' = <<>> THEN "ok" ELSE "running"
        \/ status' = "failed"
    BY <2>1, <2>5, OneReturn, Zenon
  <2>8. ASSUME status' = "running" PROVE Whole({"APPSBL"}, part)'
    <3>1. Matches
      BY <2>5, <2>7, <2>8, Zenon
    <3>2. ram[1][1] = uploads /\ uploads \in Nat
      BY <1>6 DEF FlashType
    <3>3. Torn[1] = -1
      BY Zenon DEF Torn
    <3>4. 1 <= Len(part["APPSBL"]) /\ part["APPSBL"][1][1] = uploads
      BY <2>3, <3>1, <3>2, <3>3 DEF Matches
    <3>5. \A i \in DOMAIN part["APPSBL"] : part["APPSBL"][i][1] = uploads
      BY <3>4, Zenon DEF LoaderInv, OneImage
    <3>6. part["APPSBL"] # <<>>
      BY <3>4
    <3>7. Whole({"APPSBL"}, part)
      BY <3>2, <3>5, <3>6 DEF Whole
    <3> QED
      BY <1>2, <2>4, <3>7, StillWhole, Zenon
  <2>9. status' = "running" => lines' \in After(up)
    BY <1>5, <2>1, <2>7, Zenon
  <2>10. status' = "running" => UbootSteps'
    BY <1>2, <2>8, <2>9, Zenon DEF UbootSteps
  <2> QED
    BY <1>2, <1>7, <2>3, <2>6, <2>10, Zenon DEF LoaderInv
<1> QED
  BY <1>4, <1>8, <1>9, <1>10, Zenon

(* Every step keeps the types and LoaderInv.                               *)
LEMMA LoaderStep ==
    ASSUME FlashType, LoaderInv, [Next]_vars
    PROVE  FlashType' /\ LoaderInv'
<1>1. CASE UNCHANGED vars
  <2>1. /\ dev' = dev /\ part' = part /\ ram' = ram /\ up' = up /\ lines' = lines
        /\ status' = status /\ uploads' = uploads /\ start' = start
    BY <1>1, Zenon DEF vars
  <2>2. FlashType'
    BY <2>1, Steady, Zenon DEF FlashType
  <2>3. UbootSurvives' /\ OneImage(part["APPSBL"])' /\ Same(Loaders)' = Same(Loaders)
    BY <2>1, LoadersKept, Zenon DEF LoaderInv, OneImage, Same
  <2>4. UbootSteps' = UbootSteps
    BY <2>1, SteadyUboot DEF UbootSteps, Same, Whole
  <2> QED
    BY <2>1, <2>2, <2>3, <2>4, Steady, Zenon DEF LoaderInv
<1>2. CASE Next
  <2>1. FlashType' /\ dev' = dev
    BY <1>2, TypeStep, Zenon DEF Next
  <2>2. ASSUME NEW m \in Image, Upload(m) PROVE LoaderInv'
    BY <2>1, <2>2, LoaderUpload, Zenon
  <2>3. CASE Command
    <3>1. status = "running"
      BY <2>3, Runs, Zenon
    <3>2. CASE up.type = "UBOOT"
      BY <2>1, <2>3, <3>1, <3>2, LoaderFirst, LoaderSecond, Zenon DEF LoaderInv, UbootSteps
    <3>3. CASE up.type # "UBOOT"
      BY <2>1, <2>3, <3>1, <3>3, LoaderElsewhere, Zenon
    <3> QED
      BY <2>1, <3>2, <3>3, Zenon
  <2>4. CASE PowerLoss
    <3>1. status' = "off" /\ part' = part /\ uploads' = uploads /\ start' = start
      BY <2>4, Zenon DEF PowerLoss
    <3>2. UbootSurvives' /\ OneImage(part["APPSBL"])'
      BY <3>1, LoadersKept, Zenon DEF LoaderInv, OneImage
    <3> QED
      BY <2>1, <3>1, <3>2, Zenon DEF LoaderInv
  <2> QED
    BY <1>2, <2>1, <2>2, <2>3, <2>4, Zenon DEF Next
<1> QED
  BY <1>1, <1>2, Zenon

(* do_uboot_upgrade never leaves the device without a boot loader,         *)
(* whatever fails, lies about its success or loses power, for all devices, *)
(* images and sequences of uploads: the read-back stands between the two   *)
(* copies.                                                                 *)
THEOREM LoaderSafe == Spec => []UbootSurvives
<1>1. LoaderInv => UbootSurvives
  BY Zenon DEF LoaderInv
<1> QED
  BY <1>1, LoaderInit, LoaderStep, PTL DEF Spec

(* How to recognise the rest of a sequence.                                *)
LEMMA TailIs ==
    ASSUME NEW S, NEW t \in Seq(S), NEW s \in Seq(S), Len(t) = Len(s) + 1, \A i \in 1..Len(s) : t[i + 1] = s[i]
    PROVE  Tail(t) = s /\ Head(t) = t[1]
<1>1. Len(s) \in Nat /\ t # <<>>
  BY EmptySeq
<1>2. /\ Tail(t) \in Seq(S) /\ Len(Tail(t)) = Len(s)
      /\ \A i \in 1..Len(s) : Tail(t)[i] = t[i + 1]
  BY <1>1, HeadTailProperties
<1>3. \A i \in 1..Len(s) : Tail(t)[i] = s[i]
  BY <1>2, Zenon
<1> QED
  BY <1>2, <1>3, SeqEqual

(* The rests of the line for a QSDK image.                                 *)
LEMMA Tails ==
    ASSUME NEW a, NEW b, NEW c, NEW d, NEW e, NEW f
    PROVE  /\ Tail(<<a, b, c, d, e, f>>) = <<b, c, d, e, f>> /\ Head(<<a, b, c, d, e, f>>) = a
           /\ Tail(<<b, c, d, e, f>>) = <<c, d, e, f>> /\ Head(<<b, c, d, e, f>>) = b
           /\ Tail(<<c, d, e, f>>) = <<d, e, f>> /\ Head(<<c, d, e, f>>) = c
           /\ Tail(<<d, e, f>>) = <<e, f>> /\ Head(<<d, e, f>>) = d
           /\ Tail(<<e, f>>) = <<f>> /\ Head(<<e, f>>) = e
<1> DEFINE S == {a, b, c, d, e, f}
           t6 == <<a, b, c, d, e, f>>
           t5 == <<b, c, d, e, f>>
           t4 == <<c, d, e, f>>
           t3 == <<d, e, f>>
           t2 == <<e, f>>
           t1 == <<f>>
<1>0. a \in S /\ b \in S /\ c \in S /\ d \in S /\ e \in S /\ f \in S
  BY Zenon
<1> HIDE DEF S
<1>6. t6 \in Seq(S) /\ Len(t6) = 6 /\ t6[1] = a /\ \A i \in 1..5 : t6[i + 1] = t5[i]
  BY <1>0
<1>5. t5 \in Seq(S) /\ Len(t5) = 5 /\ t5[1] = b /\ \A i \in 1..4 : t5[i + 1] = t4[i]
  BY <1>0
<1>4. t4 \in Seq(S) /\ Len(t4) = 4 /\ t4[1] = c /\ \A i \in 1..3 : t4[i + 1] = t3[i]
  BY <1>0
<1>3. t3 \in Seq(S) /\ Len(t3) = 3 /\ t3[1] = d /\ \A i \in 1..2 : t3[i + 1] = t2[i]
  BY <1>0
<1>2. t2 \in Seq(S) /\ Len(t2) = 2 /\ t2[1] = e /\ \A i \in 1..1 : t2[i + 1] = t1[i]
  BY <1>0
<1>1. t1 \in Seq(S) /\ Len(t1) = 1
  BY <1>0
<1> HIDE DEF t1, t2, t3, t4, t5, t6
<1>7. Tail(t6) = t5 /\ Head(t6) = a
  <2>1. Len(t6) = Len(t5) + 1 /\ \A i \in 1..Len(t5) : t6[i + 1] = t5[i]
    BY <1>6, <1>5
  <2>2. Tail(t6) = t5 /\ Head(t6) = t6[1]
    BY <1>6, <1>5, <2>1, TailIs, Zenon
  <2> QED
    BY <1>6, <2>2, Zenon
<1>8. Tail(t5) = t4 /\ Head(t5) = b
  <2>1. Len(t5) = Len(t4) + 1 /\ \A i \in 1..Len(t4) : t5[i + 1] = t4[i]
    BY <1>5, <1>4
  <2>2. Tail(t5) = t4 /\ Head(t5) = t5[1]
    BY <1>5, <1>4, <2>1, TailIs, Zenon
  <2> QED
    BY <1>5, <2>2, Zenon
<1>9. Tail(t4) = t3 /\ Head(t4) = c
  <2>1. Len(t4) = Len(t3) + 1 /\ \A i \in 1..Len(t3) : t4[i + 1] = t3[i]
    BY <1>4, <1>3
  <2>2. Tail(t4) = t3 /\ Head(t4) = t4[1]
    BY <1>4, <1>3, <2>1, TailIs, Zenon
  <2> QED
    BY <1>4, <2>2, Zenon
<1>10. Tail(t3) = t2 /\ Head(t3) = d
  <2>1. Len(t3) = Len(t2) + 1 /\ \A i \in 1..Len(t2) : t3[i + 1] = t2[i]
    BY <1>3, <1>2
  <2>2. Tail(t3) = t2 /\ Head(t3) = t3[1]
    BY <1>3, <1>2, <2>1, TailIs, Zenon
  <2> QED
    BY <1>3, <2>2, Zenon
<1>11. Tail(t2) = t1 /\ Head(t2) = e
  <2>1. Len(t2) = Len(t1) + 1 /\ \A i \in 1..Len(t1) : t2[i + 1] = t1[i]
    BY <1>2, <1>1
  <2>2. Tail(t2) = t1 /\ Head(t2) = t2[1]
    BY <1>2, <1>1, <2>1, TailIs, Zenon
  <2> QED
    BY <1>2, <2>2, Zenon
<1> QED
  BY <1>7, <1>8, <1>9, <1>10, <1>11, Zenon DEF t1, t2, t3, t4, t5, t6

(* A step that touches no system leaves the device one.                    *)
LEMMA KeepSystems ==
    ASSUME \A p \in Systems : part'[p] = part[p], uploads' = uploads, start' = start, dev' = dev, FirmwareSurvives
    PROVE  FirmwareSurvives'
<1>1. Flash' = Flash
  BY Steady, Zenon
<1>2. Primary \subseteq Systems /\ Backup \subseteq Systems /\ Primary' = Primary /\ Backup' = Backup
  BY <1>1, Zenon DEF Primary, Backup, Systems
<1>3. Whole(Backup, start)' => Whole(Backup, start)
  BY <1>2 DEF Whole
<1>4. Whole(Primary, part) => Whole(Primary, part)'
  BY <1>2 DEF Whole
<1>5. Whole(Backup, part) => Whole(Backup, part)'
  BY <1>2 DEF Whole
<1> QED
  BY <1>3, <1>4, <1>5, Zenon DEF FirmwareSurvives

(* While the backup copy is the old one, the device has a system.          *)
LEMMA KeepBackups ==
    ASSUME \A p \in Backups : part'[p] = start'[p], dev' = dev
    PROVE  FirmwareSurvives'
<1>1. Flash' = Flash
  BY Steady, Zenon
<1>2. Backup \subseteq Backups /\ Backup' = Backup
  BY <1>1, Zenon DEF Backup, Backups
<1>3. Whole(Backup, start)' => Whole(Backup, part)'
  BY <1>2 DEF Whole
<1> QED
  BY <1>3, Zenon DEF FirmwareSurvives

(* A part of an image that is not empty is whole.                          *)
LEMMA SliceWhole ==
    ASSUME NEW n \in Nat, NEW a \in Nat, NEW b \in Nat, a < b
    PROVE  /\ Slice(n, a, b) # <<>>
           /\ \A i \in DOMAIN Slice(n, a, b) : Slice(n, a, b)[i][1] = n
<1>1. 1 \in 1..(b - a) /\ DOMAIN Slice(n, a, b) = 1..(b - a)
  BY DEF Slice
<1>2. Slice(n, a, b) # <<>>
  BY <1>1
<1>3. \A i \in 1..(b - a) : Slice(n, a, b)[i] = <<n, a + i>>
  BY Zenon DEF Slice
<1> QED
  BY <1>1, <1>2, <1>3

(* When the primary copy is complete, the device has a system.             *)
LEMMA KeepPrimary ==
    ASSUME uploads' \in Nat, dev' = dev, up' \in Image, dev \in Device,
           \/ Flash = "MMC" /\ Between(up)' /\ KernelDone' /\ RootDone'
           \/ Flash # "MMC" /\ part'["rootfs"] = Slice(uploads', 0, up'.size)
    PROVE  FirmwareSurvives'
<1>1. Flash' = Flash
  BY Steady, Zenon
<1>2. up'.size \in Nat /\ up'.kernel \in Nat /\ 0 < up'.size
  BY SizeBound
<1>3. CASE Flash = "MMC" /\ Between(up)' /\ KernelDone' /\ RootDone'
  <2>1. /\ part'["HLOS"] = Slice(uploads', 0, up'.kernel) /\ 0 < up'.kernel
        /\ part'["rootfs"] = Slice(uploads', up'.kernel, up'.size) /\ up'.kernel < up'.size
    BY <1>3, Zenon DEF KernelDone, RootDone, Between, Slice
  <2>2. /\ part'["HLOS"] # <<>> /\ \A i \in DOMAIN part'["HLOS"] : part'["HLOS"][i][1] = uploads'
        /\ part'["rootfs"] # <<>> /\ \A i \in DOMAIN part'["rootfs"] : part'["rootfs"][i][1] = uploads'
    BY <1>2, <2>1, SliceWhole, SMTT(60)
  <2>3. Primary' = {"HLOS", "rootfs"}
    BY <1>1, <1>3, Zenon DEF Primary
  <2>4. Whole(Primary, part)'
    BY <2>2, <2>3 DEF Whole
  <2> QED
    BY <2>4, Zenon DEF FirmwareSurvives
<1>4. CASE Flash # "MMC" /\ part'["rootfs"] = Slice(uploads', 0, up'.size)
  <2> DEFINE w == Slice(uploads', 0, up'.size)
  <2>1. w # <<>> /\ \A i \in DOMAIN w : w[i][1] = uploads'
    BY <1>2, SliceWhole, Zenon
  <2>2. part'["rootfs"] # <<>> /\ \A i \in DOMAIN part'["rootfs"] : part'["rootfs"][i][1] = uploads'
    BY <1>4, <2>1, Zenon
  <2>3. Primary' = {"rootfs"}
    BY <1>1, <1>4, Zenon DEF Primary
  <2>4. Whole(Primary, part)'
    BY <2>2, <2>3 DEF Whole
  <2> QED
    BY <2>4, Zenon DEF FirmwareSurvives
<1> QED
  BY <1>3, <1>4, Zenon

(* What a line whose failure ends the upgrade leads to.                    *)
LEMMA MustReturn ==
    ASSUME FlashType, status = "running", NEW x, Line(lines, x), NEW c \in {0, 1, -2}, Return(c)
    PROVE  \/ c = 0 /\ Tail(x) # <<>> /\ Line(lines', Tail(x)) /\ Tail(lines') = Tail(lines) /\ status' = "running"
           \/ /\ (c = 0 /\ Tail(x) = <<>>) \/ c = -2
              /\ lines' = Tail(lines) /\ status' = IF lines' = <<>> THEN "ok" ELSE "running"
           \/ c = 1 /\ status' = "failed"
<1>1. lines \in Seq(Rows(Part)) \ {<<>>} /\ MaxSize \in Nat
  BY SizeBound, Zenon DEF FlashType
<1>2. Head(lines).cmds = x /\ Head(lines).onfail = "return"
  BY DEF Line, Must
<1>4. Part \in SUBSET Part
  BY Zenon
<1>5. \/ /\ c = 0 /\ Tail(Head(lines).cmds) # <<>> /\ status' = "running"
         /\ lines' # <<>> /\ Head(lines') = [cmds |-> Tail(Head(lines).cmds), onfail |-> Head(lines).onfail]
         /\ Tail(lines') = Tail(lines)
      \/ /\ (c = 0 /\ Tail(Head(lines).cmds) = <<>>) \/ c = -2 \/ Head(lines).onfail = "ignore"
         /\ lines' = Tail(lines) /\ status' = IF lines' = <<>> THEN "ok" ELSE "running"
      \/ Head(lines).onfail = "reload"
      \/ c = 1 /\ status' = "failed"
  BY <1>1, <1>4, ReturnCases, Zenon
<1> QED
  BY <1>2, <1>5, Zenon DEF Line, Must

(* The lines of the firmware upgrade are the same after a step.            *)
LEMMA SteadySystem ==
    ASSUME dev' = dev, NEW m, up' = m
    PROVE  /\ AtHlos(up, lines)' = AtHlos(m, lines') /\ AtRootfs(up, lines)' = AtRootfs(m, lines')
           /\ AtWififw(up, lines)' = AtWififw(m, lines') /\ Late(up)' = Late(m)
           /\ AtUbi(up, lines)' = AtUbi(m, lines')
<1>1. MaxSize' = MaxSize
  BY Steady, Zenon
<1>2. Late(up)' = Late(m)
  BY <1>1, Zenon DEF Late, LateParts, Backups, Between, Rows, Commands, Quiet
<1>3. AtUbi(up, lines)' = AtUbi(m, lines')
  BY <1>1, Zenon DEF AtUbi, UbiParts, flash, Commands, Quiet
<1>4. AtHlos(up, lines)' = AtHlos(m, lines')
  BY <1>2 DEF AtHlos, Line, Six, Five, Hlos, Rootfs, Wififw, Find, flash, Cmd, Must
<1>5. AtRootfs(up, lines)' = AtRootfs(m, lines')
  BY <1>2, Zenon DEF AtRootfs, Line, Four, Three, Hlos, Rootfs, Wififw, Find, flash, Cmd, Must
<1>6. AtWififw(up, lines)' = AtWififw(m, lines')
  BY <1>2, Zenon DEF AtWififw, Line, Two, Hlos, Rootfs, Wififw, Find, flash, Cmd, Must
<1> QED
  BY <1>2, <1>3, <1>4, <1>5, <1>6, Zenon

(* A command of such a line on eMMC: it goes on only if it did its work.   *)
LEMMA MustCommand ==
    ASSUME FlashType, status = "running", Command, dev' = dev, Flash = "MMC", ~dev.silent,
           NEW x, Line(lines, x)
    PROVE  /\ cmd = Head(x)
           /\ \/ lines' = lines /\ cmd.op = "flash"
              \/ status' = "failed"
              \/ /\ cmd.op = "flash" => part'[cmd.part] = [i \in 1..(cmd.to - cmd.from) |-> ram[cmd.from + i]]
                 /\ \/ Tail(x) # <<>> /\ Line(lines', Tail(x)) /\ Tail(lines') = Tail(lines)
                    \/ Tail(x) = <<>> /\ lines' = Tail(lines)
<1>1. cmd = Head(x)
  BY DEF cmd, Line, Must
<1>2. \/ lines' = lines /\ cmd.op = "flash"
      \/ \E c \in {0, 1} :
            /\ Return(c)
            /\ cmd.op = "flash" /\ c = 0 => part'[cmd.part] = [i \in 1..(cmd.to - cmd.from) |-> ram[cmd.from + i]]
  BY Effect, Zenon
<1>3. ASSUME NEW c \in {0, 1}, Return(c),
             cmd.op = "flash" /\ c = 0 => part'[cmd.part] = [i \in 1..(cmd.to - cmd.from) |-> ram[cmd.from + i]]
      PROVE  \/ status' = "failed"
             \/ /\ cmd.op = "flash" => part'[cmd.part] = [i \in 1..(cmd.to - cmd.from) |-> ram[cmd.from + i]]
                /\ \/ Tail(x) # <<>> /\ Line(lines', Tail(x)) /\ Tail(lines') = Tail(lines)
                   \/ Tail(x) = <<>> /\ lines' = Tail(lines)
  <2>1. c \in {0, 1, -2} /\ c # -2
    OBVIOUS
  <2>2. \/ c = 0 /\ Tail(x) # <<>> /\ Line(lines', Tail(x)) /\ Tail(lines') = Tail(lines)
        \/ ((c = 0 /\ Tail(x) = <<>>) \/ c = -2) /\ lines' = Tail(lines)
        \/ c = 1 /\ status' = "failed"
    BY <1>3, <2>1, MustReturn, Zenon
  <2> QED
    BY <1>3, <2>1, <2>2, Zenon
<1> QED
  BY <1>1, <1>2, <1>3, Zenon

(* A flash command that did its work has put its part of the image there.  *)
LEMMA Copied ==
    ASSUME FlashType, cmd.from \in Nat, cmd.to \in Nat, cmd.to <= up.size, Loaded,
           part'[cmd.part] = [i \in 1..(cmd.to - cmd.from) |-> ram[cmd.from + i]]
    PROVE  part'[cmd.part] = Slice(uploads, cmd.from, cmd.to)
<1> DEFINE a == cmd.from
           b == cmd.to
<1>2. up.size \in Nat
  BY SizeBound DEF FlashType
<1>3. \A i \in 1..(b - a) : ram[a + i] = <<uploads, a + i>>
  BY <1>2 DEF Loaded
<1>5. [i \in 1..(b - a) |-> ram[a + i]] = [i \in 1..(b - a) |-> <<uploads, a + i>>]
  BY <1>3, Zenon
<1> QED
  BY <1>5, Zenon DEF Slice

(* do_firmware_upgrade on eMMC while it writes the kernel: the backup is   *)
(* untouched.                                                              *)
LEMMA HlosStep ==
    ASSUME FlashType, status = "running", Command, dev' = dev, Flash = "MMC", ~dev.silent,
           AtHlos(up, lines), Loaded, Same(Backups)
    PROVE  /\ FirmwareSurvives' /\ (status' = "running" => Emmc')
           /\ \A p \in {"BOOTCONFIG", "BOOTCONFIG1"} : part'[p] = part[p]
<1>1. /\ up' = up /\ uploads' = uploads /\ start' = start /\ dev \in Device /\ up \in Image
      /\ up.kernel \in Nat /\ up.kernel <= up.size
  BY Effect, SizeBound DEF FlashType
<1> DEFINE m == up
<1>2. PICK x : /\ Line(lines, x)
               /\ \/ x = Six(m) /\ Tail(lines) \in Late(m)
                  \/ x = Five(m) /\ Tail(lines) \in Late(m)
                  \/ x = <<Hlos(m), Rootfs(m)>> /\ Tail(lines) \in Late(m)
                  \/ x = <<Hlos(m)>> /\ Line(Tail(lines), <<Rootfs(m)>>) /\ Tail(Tail(lines)) \in Late(m)
  BY Zenon DEF AtHlos
<1>3. /\ Head(Six(m)) = Find("HLOS") /\ Tail(Six(m)) = Five(m)
      /\ Head(Five(m)) = Hlos(m) /\ Tail(Five(m)) = Four(m)
      /\ Head(<<Hlos(m), Rootfs(m)>>) = Hlos(m) /\ Tail(<<Hlos(m), Rootfs(m)>>) = <<Rootfs(m)>>
      /\ Head(<<Hlos(m)>>) = Hlos(m) /\ Tail(<<Hlos(m)>>) = <<>>
      /\ Five(m) # <<>> /\ Four(m) # <<>> /\ <<Rootfs(m)>> # <<>>
  BY Tails, Alone DEF Six, Five, Four
<1>4. /\ cmd = Head(x)
      /\ \/ lines' = lines /\ cmd.op = "flash"
         \/ status' = "failed"
         \/ /\ cmd.op = "flash" => part'[cmd.part] = [i \in 1..(cmd.to - cmd.from) |-> ram[cmd.from + i]]
            /\ \/ Tail(x) # <<>> /\ Line(lines', Tail(x)) /\ Tail(lines') = Tail(lines)
               \/ Tail(x) = <<>> /\ lines' = Tail(lines)
  BY <1>2, MustCommand, Zenon
<1>5. \/ cmd = Find("HLOS") /\ x = Six(m)
      \/ cmd = Hlos(m) /\ x \in {Five(m), <<Hlos(m), Rootfs(m)>>, <<Hlos(m)>>}
  BY <1>2, <1>3, <1>4, Zenon
<1>6. cmd.part = "HLOS" /\ cmd.op \notin Reads
  BY <1>5 DEF Find, Hlos, flash, Cmd, Reads
<1>7. ram' = ram /\ \A p \in Part : p # "HLOS" => part'[p] = part[p]
  BY <1>6, Effect, Zenon
<1>8. \A p \in {"BOOTCONFIG", "BOOTCONFIG1"} : part'[p] = part[p]
  BY <1>7, PartAssumption, Zenon
<1>9. \A p \in Backups : part'[p] = start'[p]
  BY <1>1, <1>7, PartAssumption, Zenon DEF Same, Backups
<1>10. FirmwareSurvives' /\ Same(Backups)' /\ Loaded'
  BY <1>1, <1>7, <1>9, KeepBackups, Zenon DEF Same, Loaded
<1>11. ASSUME status' = "running" PROVE Emmc'
  <2>0. /\ AtHlos(up, lines)' = AtHlos(m, lines') /\ AtRootfs(up, lines)' = AtRootfs(m, lines')
    BY <1>1, SteadySystem, Zenon
  <2>1. CASE lines' = lines
    BY <1>10, <2>0, <2>1, Zenon DEF Emmc
  <2>2. CASE lines' # lines
    <3>1. /\ cmd.op = "flash" => part'[cmd.part] = [i \in 1..(cmd.to - cmd.from) |-> ram[cmd.from + i]]
          /\ \/ Tail(x) # <<>> /\ Line(lines', Tail(x)) /\ Tail(lines') = Tail(lines)
             \/ Tail(x) = <<>> /\ lines' = Tail(lines)
      BY <1>4, <1>11, <2>2, Zenon
    <3>2. CASE x = Six(m)
      <4>1. Line(lines', Five(m)) /\ Tail(lines') \in Late(m)
        BY <1>2, <1>3, <3>1, <3>2, Zenon
      <4>2. AtHlos(m, lines')
        BY <4>1, Zenon DEF AtHlos
      <4> QED
        BY <1>10, <2>0, <4>2, Zenon DEF Emmc
    <3>3. CASE x # Six(m)
      <4>1. cmd = Hlos(m)
        BY <1>5, <3>3, Zenon
      <4>2. cmd.op = "flash" /\ cmd = flash("HLOS", 0, up.kernel)
        BY <4>1, Zenon DEF Hlos, flash
      <4>3. part'["HLOS"] = Slice(uploads, 0, up.kernel)
        <5>1. part'[cmd.part] = [i \in 1..(cmd.to - cmd.from) |-> ram[cmd.from + i]]
          BY <3>1, <4>2, Zenon
        <5>2. cmd.part = "HLOS" /\ cmd.from = 0 /\ cmd.to = up.kernel
          BY <4>2, Zenon DEF flash
        <5>3. cmd.from \in Nat /\ cmd.to \in Nat /\ cmd.to <= up.size
          BY <1>1, <5>2
        <5>4. part'[cmd.part] = Slice(uploads, cmd.from, cmd.to)
          BY <5>1, <5>3, Copied, Zenon
        <5> QED
          BY <5>2, <5>4, Zenon
      <4>4. KernelDone'
        BY <1>1, <4>3, Zenon DEF KernelDone, Slice
      <4>5. \E y \in {Four(m), Three(m), <<Rootfs(m)>>} : Line(lines', y) /\ Tail(lines') \in Late(m)
        <5>1. CASE x = Five(m)
          <6>1. Line(lines', Four(m)) /\ Tail(lines') \in Late(m)
            BY <1>2, <1>3, <3>1, <3>3, <5>1, Zenon
          <6> QED
            BY <6>1, Zenon
        <5>2. CASE x = <<Hlos(m), Rootfs(m)>>
          <6>1. Line(lines', <<Rootfs(m)>>) /\ Tail(lines') \in Late(m)
            BY <1>2, <1>3, <3>1, <3>3, <5>2, Zenon
          <6> QED
            BY <6>1, Zenon
        <5>3. CASE x = <<Hlos(m)>>
          <6>1. Line(lines', <<Rootfs(m)>>) /\ Tail(lines') \in Late(m)
            BY <1>2, <1>3, <3>1, <3>3, <5>3, Zenon
          <6> QED
            BY <6>1, Zenon
        <5> QED
          BY <1>5, <3>3, <5>1, <5>2, <5>3, Zenon
      <4>6. AtRootfs(m, lines')
        BY <4>5, Zenon DEF AtRootfs
      <4> QED
        BY <1>10, <2>0, <4>4, <4>6, Zenon DEF Emmc
    <3> QED
      BY <3>2, <3>3, Zenon
  <2> QED
    BY <2>1, <2>2, Zenon
<1> QED
  BY <1>8, <1>10, <1>11, Zenon

(* The same while it writes the root file system; the kernel is done.      *)
LEMMA RootfsStep ==
    ASSUME FlashType, status = "running", Command, dev' = dev, Flash = "MMC", ~dev.silent,
           AtRootfs(up, lines), Loaded, Same(Backups), KernelDone
    PROVE  /\ FirmwareSurvives' /\ (status' = "running" => Emmc')
           /\ \A p \in {"BOOTCONFIG", "BOOTCONFIG1"} : part'[p] = part[p]
<1>1. /\ up' = up /\ uploads' = uploads /\ start' = start /\ dev \in Device /\ up \in Image
      /\ up.kernel \in Nat /\ up.size \in Nat
  BY Effect, SizeBound DEF FlashType
<1> DEFINE m == up
<1>2. PICK x \in {Four(m), Three(m), <<Rootfs(m)>>} : Line(lines, x) /\ Tail(lines) \in Late(m)
  BY Zenon DEF AtRootfs
<1>3. /\ Head(Four(m)) = Find("rootfs") /\ Tail(Four(m)) = Three(m)
      /\ Head(Three(m)) = Rootfs(m) /\ Tail(Three(m)) = Two(m)
      /\ Head(<<Rootfs(m)>>) = Rootfs(m) /\ Tail(<<Rootfs(m)>>) = <<>>
      /\ Three(m) # <<>> /\ Two(m) # <<>>
  BY Tails, Alone, SMTT(60) DEF Four, Three, Two
<1>4. /\ cmd = Head(x)
      /\ \/ lines' = lines /\ cmd.op = "flash"
         \/ status' = "failed"
         \/ /\ cmd.op = "flash" => part'[cmd.part] = [i \in 1..(cmd.to - cmd.from) |-> ram[cmd.from + i]]
            /\ \/ Tail(x) # <<>> /\ Line(lines', Tail(x)) /\ Tail(lines') = Tail(lines)
               \/ Tail(x) = <<>> /\ lines' = Tail(lines)
  BY <1>2, MustCommand, Zenon
<1>5. \/ cmd = Find("rootfs") /\ x = Four(m)
      \/ cmd = Rootfs(m) /\ x \in {Three(m), <<Rootfs(m)>>}
  BY <1>2, <1>3, <1>4, Zenon
<1>6. cmd.part = "rootfs" /\ cmd.op \notin Reads
  BY <1>5 DEF Find, Rootfs, flash, Cmd, Reads
<1>7. ram' = ram /\ \A p \in Part : p # "rootfs" => part'[p] = part[p]
  BY <1>6, Effect, Zenon
<1>8. \A p \in {"BOOTCONFIG", "BOOTCONFIG1"} : part'[p] = part[p]
  BY <1>7, PartAssumption, Zenon
<1>9. \A p \in Backups : part'[p] = start'[p]
  BY <1>1, <1>7, PartAssumption, Zenon DEF Same, Backups
<1>10. FirmwareSurvives' /\ Same(Backups)' /\ Loaded'
  BY <1>1, <1>7, <1>9, KeepBackups, Zenon DEF Same, Loaded
<1>a. KernelDone'
  BY <1>1, <1>7, PartAssumption, Zenon DEF KernelDone, Slice
<1>11. ASSUME status' = "running" PROVE Emmc'
  <2>0. /\ AtWififw(up, lines)' = AtWififw(m, lines') /\ AtRootfs(up, lines)' = AtRootfs(m, lines')
        /\ Late(up)' = Late(m)
    BY <1>1, SteadySystem, Zenon
  <2>1. CASE lines' = lines
    BY <1>10, <1>a, <2>0, <2>1, Zenon DEF Emmc
  <2>2. CASE lines' # lines
    <3>1. /\ cmd.op = "flash" => part'[cmd.part] = [i \in 1..(cmd.to - cmd.from) |-> ram[cmd.from + i]]
          /\ \/ Tail(x) # <<>> /\ Line(lines', Tail(x)) /\ Tail(lines') = Tail(lines)
             \/ Tail(x) = <<>> /\ lines' = Tail(lines)
      BY <1>4, <1>11, <2>2, Zenon
    <3>2. CASE x = Four(m)
      <4>1. Line(lines', Three(m)) /\ Tail(lines') \in Late(m)
        BY <1>2, <1>3, <3>1, <3>2, Zenon
      <4>2. AtRootfs(m, lines')
        BY <4>1, Zenon DEF AtRootfs
      <4> QED
        BY <1>10, <1>a, <2>0, <4>2, Zenon DEF Emmc
    <3>3. CASE x # Four(m)
      <4>1. cmd = Rootfs(m)
        BY <1>5, <3>3, Zenon
      <4>2. cmd.op = "flash" /\ cmd.part = "rootfs" /\ cmd.from = up.kernel /\ cmd.to = up.size
        BY <4>1, Zenon DEF Rootfs, flash
      <4>3. part'["rootfs"] = Slice(uploads, up.kernel, up.size)
        <5>1. part'[cmd.part] = [i \in 1..(cmd.to - cmd.from) |-> ram[cmd.from + i]]
          BY <3>1, <4>2, Zenon
        <5>3. cmd.from \in Nat /\ cmd.to \in Nat /\ cmd.to <= up.size
          BY <1>1, <4>2
        <5>4. part'[cmd.part] = Slice(uploads, cmd.from, cmd.to)
          BY <5>1, <5>3, Copied, Zenon
        <5> QED
          BY <4>2, <5>4, Zenon
      <4>4. RootDone'
        BY <1>1, <4>3, Zenon DEF RootDone, Slice
      <4>5. CASE x = Three(m)
        <5>1. Line(lines', Two(m)) /\ Tail(lines') \in Late(m)
          BY <1>2, <1>3, <3>1, <4>5, Zenon
        <5>2. AtWififw(m, lines')
          BY <5>1, Zenon DEF AtWififw
        <5> QED
          BY <1>10, <1>a, <2>0, <4>4, <5>2, Zenon DEF Emmc
      <4>6. CASE x = <<Rootfs(m)>>
        <5>1. lines' \in Late(m)
          BY <1>2, <1>3, <3>1, <4>6, Zenon
        <5> QED
          BY <1>10, <1>a, <2>0, <4>4, <5>1, Zenon DEF Emmc
      <4> QED
        BY <1>2, <3>3, <4>5, <4>6, Zenon
    <3> QED
      BY <3>2, <3>3, Zenon
  <2> QED
    BY <2>1, <2>2, Zenon
<1> QED
  BY <1>8, <1>10, <1>11, Zenon

(* The same while it writes the radio firmware; the primary copy is done.  *)
LEMMA WififwStep ==
    ASSUME FlashType, status = "running", Command, dev' = dev, Flash = "MMC", ~dev.silent,
           AtWififw(up, lines), Same(Backups), KernelDone, RootDone
    PROVE  FirmwareSurvives' /\ (status' = "running" => Emmc')
<1>1. up' = up /\ uploads' = uploads /\ start' = start
  BY Effect, Zenon
<1> DEFINE m == up
<1>2. PICK x \in {Two(m), <<Wififw(m)>>} : Line(lines, x) /\ Tail(lines) \in Late(m)
  BY Zenon DEF AtWififw
<1>3. /\ Head(Two(m)) = Find("WIFIFW") /\ Tail(Two(m)) = <<Wififw(m)>>
      /\ Head(<<Wififw(m)>>) = Wififw(m) /\ Tail(<<Wififw(m)>>) = <<>>
      /\ <<Wififw(m)>> # <<>>
  BY Tails, Alone, Zenon DEF Two
<1>4. /\ cmd = Head(x)
      /\ \/ lines' = lines
         \/ status' = "failed"
         \/ Tail(x) # <<>> /\ Line(lines', Tail(x)) /\ Tail(lines') = Tail(lines)
         \/ Tail(x) = <<>> /\ lines' = Tail(lines)
  BY <1>2, MustCommand, ZenonT(60)
<1>5. cmd = Find("WIFIFW") \/ cmd = Wififw(m)
  BY <1>2, <1>3, <1>4, Zenon
<1>6. cmd.part = "WIFIFW"
  BY <1>5 DEF Find, Wififw, flash, Cmd
<1>7. \A p \in Part : p # "WIFIFW" => part'[p] = part[p]
  BY <1>6, Effect, Zenon
<1>9. \A p \in Backups : part'[p] = start'[p]
  BY <1>1, <1>7, PartAssumption, Zenon DEF Same, Backups
<1>10. FirmwareSurvives' /\ Same(Backups)'
  BY <1>1, <1>9, KeepBackups, Zenon DEF Same
<1>a. KernelDone' /\ RootDone'
  BY <1>1, <1>7, PartAssumption, Zenon DEF KernelDone, RootDone, Slice
<1>11. ASSUME status' = "running" PROVE Emmc'
  <2>0. AtWififw(up, lines)' = AtWififw(m, lines') /\ Late(up)' = Late(m)
    BY <1>1, SteadySystem, Zenon
  <2>1. AtWififw(m, lines') \/ lines' \in Late(m)
    <3>1. CASE lines' = lines
      BY <3>1, Zenon
    <3>2. CASE Tail(x) # <<>> /\ Line(lines', Tail(x)) /\ Tail(lines') = Tail(lines)
      <4>1. x = Two(m)
        BY <1>2, <1>3, <3>2, Zenon
      <4>2. Line(lines', <<Wififw(m)>>) /\ Tail(lines') \in Late(m)
        BY <1>2, <1>3, <3>2, <4>1, Zenon
      <4> QED
        BY <4>2, Zenon DEF AtWififw
    <3>3. CASE lines' = Tail(lines)
      BY <1>2, <3>3, Zenon
    <3> QED
      BY <1>4, <1>11, <3>1, <3>2, <3>3, Zenon
  <2> QED
    BY <1>10, <1>a, <2>0, <2>1, Zenon DEF Emmc
<1> QED
  BY <1>10, <1>11, Zenon

(* The same after that: the primary copy is complete, and the backup copy  *)
(* may be written.                                                         *)
LEMMA LateStep ==
    ASSUME FlashType, status = "running", Command, dev' = dev, Flash = "MMC",
           lines \in Late(up), KernelDone, RootDone, ~Between(up) => Same(Backups)
    PROVE  FirmwareSurvives' /\ (status' = "running" => Emmc')
<1>1. up' = up /\ uploads' = uploads /\ start' = start /\ dev \in Device /\ up \in Image /\ uploads \in Nat
  BY Effect, Zenon DEF FlashType
<1> DEFINE P == LateParts(up)
<1>2. P \in SUBSET Part
  BY PartAssumption, Zenon DEF LateParts, Backups
<1>3. lines \in Seq(Rows(P))
  BY Zenon DEF Late
<1>4. "HLOS" \notin P /\ "rootfs" \notin P /\ (~Between(up) => \A p \in Backups : p \notin P)
  BY Zenon DEF LateParts, Backups
<1> HIDE DEF P
<1>5. /\ status' = "running" => lines' \in Seq(Rows(P))
      /\ \A p \in Part : p \notin P => part'[p] = part[p]
  BY <1>2, <1>3, StayWithin, Zenon
<1>6. KernelDone' /\ RootDone'
  BY <1>1, <1>4, <1>5, PartAssumption, Zenon DEF KernelDone, RootDone, Slice
<1>7. ~Between(up) => \A p \in Backups : part'[p] = start'[p]
  BY <1>1, <1>4, <1>5, Names, Zenon DEF Same
<1>8. Between(up)' = Between(up) /\ Late(up)' = Late(up)
  BY <1>1, SteadySystem, Zenon DEF Between
<1>9. FirmwareSurvives'
  <2>1. CASE Between(up)
    <3>1. Image' = Image
      BY Steady, Zenon
    <3> QED
      BY <1>1, <1>6, <1>8, <2>1, <3>1, KeepPrimary, Zenon
  <2>2. CASE ~Between(up)
    BY <1>7, <2>2, KeepBackups, Zenon
  <2> QED
    BY <2>1, <2>2, Zenon
<1>10. ~Between(up)' => Same(Backups)'
  BY <1>7, <1>8, Zenon DEF Same
<1>11. status' = "running" => lines' \in Late(up)
  BY <1>5, Zenon DEF Late, P
<1> QED
  BY <1>6, <1>8, <1>9, <1>10, <1>11, Zenon DEF Emmc

(* A sequence whose rest is empty has one element.                         *)
LEMMA LastOne ==
    ASSUME NEW S, NEW s \in Seq(S), s # <<>>, Tail(s) = <<>>
    PROVE  s = <<Head(s)>>
<1> DEFINE t == Tail(s)
<1>1. Len(s) \in Nat \ {0} /\ Len(t) = Len(s) - 1 /\ t = <<>>
  BY HeadOf, Zenon
<1> HIDE DEF t
<1>2. Len(t) = 0
  BY <1>1, Zenon
<1>3. Len(s) = 1
  BY <1>1, <1>2
<1> QED
  BY <1>3

(* do_firmware_upgrade on NAND while it writes rootfs: the backup is       *)
(* untouched.                                                              *)
LEMMA UbiFirst ==
    ASSUME FlashType, status = "running", Command, dev' = dev, Flash = "NAND", ~dev.silent,
           AtUbi(up, lines), Loaded, Same(Backups)
    PROVE  /\ FirmwareSurvives' /\ (status' = "running" => Ubi')
           /\ \A p \in {"BOOTCONFIG", "BOOTCONFIG1"} : part'[p] = part[p]
<1>1. /\ up' = up /\ uploads' = uploads /\ start' = start /\ dev \in Device /\ up \in Image
      /\ up.size \in Nat
  BY Effect, SizeBound DEF FlashType
<1>2. /\ cmd = flash("rootfs", 0, up.size) /\ Len(lines) = 1 /\ Head(lines).onfail = "return"
      /\ Tail(Head(lines).cmds) \in Seq(Commands(UbiParts))
  BY Zenon DEF AtUbi, cmd
<1>3. cmd.op = "flash" /\ cmd.part = "rootfs" /\ cmd.from = 0 /\ cmd.to = up.size /\ cmd.op \notin Reads
  BY <1>2, Zenon DEF flash, Reads
<1>4. ram' = ram /\ \A p \in Part : p # "rootfs" => part'[p] = part[p]
  BY <1>3, Effect, Zenon
<1>5. \A p \in {"BOOTCONFIG", "BOOTCONFIG1"} : part'[p] = part[p]
  BY <1>4, PartAssumption, Zenon
<1>6. \A p \in Backups : part'[p] = start'[p]
  BY <1>1, <1>4, PartAssumption, Zenon DEF Same, Backups
<1>7. FirmwareSurvives' /\ Same(Backups)' /\ Loaded'
  BY <1>1, <1>4, <1>6, KeepBackups, Zenon DEF Same, Loaded
<1>8. lines \in Seq(Rows(Part)) \ {<<>>} /\ MaxSize \in Nat /\ Part \in SUBSET Part
  BY <1>1, SizeBound, Zenon DEF FlashType
<1>9. Tail(lines) = <<>>
  <2>1. Tail(lines) \in Seq(Rows(Part)) /\ Len(Tail(lines)) = 0
    BY <1>2, <1>8, HeadOf
  <2> QED
    BY <2>1, EmptySeq, Zenon
<1>10. CASE lines' = lines
  <2>1. AtUbi(up, lines)' = AtUbi(up, lines')
    BY <1>1, SteadySystem, Zenon
  <2>2. Ubi'
    BY <1>7, <1>10, <2>1, Zenon DEF Ubi
  <2> QED
    BY <1>5, <1>7, <2>2, Zenon
<1>11. CASE lines' # lines
  <2>1. PICK c \in {0, 1, -2} :
           /\ Return(c)
           /\ c = 0 => part'[cmd.part] = [i \in 1..(cmd.to - cmd.from) |-> ram[cmd.from + i]]
    BY <1>3, <1>11, Effect, Zenon
  <2>2. \/ /\ c = 0 /\ Tail(Head(lines).cmds) # <<>>
           /\ lines' \in Seq(Rows(Part)) \ {<<>>}
           /\ Head(lines') = [cmds |-> Tail(Head(lines).cmds), onfail |-> Head(lines).onfail]
           /\ Tail(lines') = Tail(lines)
        \/ lines' = Tail(lines) /\ status' = IF lines' = <<>> THEN "ok" ELSE "running"
        \/ Head(lines).onfail = "reload"
        \/ status' = "failed"
    BY <1>8, <2>1, ReturnCases, ZenonT(60)
  <2>3. ASSUME status' = "running" PROVE Ubi'
    <3>1. /\ c = 0 /\ Tail(Head(lines).cmds) # <<>>
          /\ lines' \in Seq(Rows(Part)) \ {<<>>}
          /\ Head(lines') = [cmds |-> Tail(Head(lines).cmds), onfail |-> "return"]
          /\ Tail(lines') = <<>>
      BY <1>2, <1>9, <2>2, <2>3, Zenon
    <3>2. part'["rootfs"] = Slice(uploads, 0, up.size)
      <4>1. cmd.from \in Nat /\ cmd.to \in Nat /\ cmd.to <= up.size
        BY <1>1, <1>3
      <4>2. part'[cmd.part] = Slice(uploads, cmd.from, cmd.to)
        BY <2>1, <3>1, <4>1, Copied, Zenon
      <4> QED
        BY <1>3, <4>2, Zenon
    <3> DEFINE t == Tail(Head(lines).cmds)
               r == Must(t)
    <3>3. r \in Rows(UbiParts)
      BY <1>2, <3>1, Lines, Zenon
    <3>4. lines' = <<r>>
      <4> HIDE DEF t
      <4>1. Head(lines') = r /\ Tail(lines') = <<>> /\ lines' \in Seq(Rows(Part)) \ {<<>>}
        BY <3>1, Zenon DEF Must, t
      <4> HIDE DEF r
      <4> QED
        BY <4>1, LastOne, Zenon
    <3>5. lines' \in Seq(Rows(UbiParts))
      <4> HIDE DEF r
      <4> QED
        BY <3>3, <3>4
    <3>6. part'["rootfs"] = Slice(uploads', 0, up'.size)
      BY <1>1, <3>2, Zenon
    <3>7. Rows(UbiParts)' = Rows(UbiParts)
      BY Steady, Zenon
    <3> QED
      BY <3>5, <3>6, <3>7, Zenon DEF Ubi, Slice
  <2> QED
    BY <1>5, <1>7, <2>3, Zenon
<1> QED
  BY <1>10, <1>11, Zenon

(* The same after that: rootfs is complete.                                *)
LEMMA UbiSecond ==
    ASSUME FlashType, status = "running", Command, dev' = dev, Flash = "NAND",
           lines \in Seq(Rows(UbiParts)), part["rootfs"] = Slice(uploads, 0, up.size)
    PROVE  /\ FirmwareSurvives' /\ (status' = "running" => Ubi')
           /\ \A p \in {"BOOTCONFIG", "BOOTCONFIG1"} : part'[p] = part[p]
<1>1. up' = up /\ uploads' = uploads /\ start' = start /\ dev \in Device /\ up \in Image /\ uploads \in Nat
  BY Effect, Zenon DEF FlashType
<1>2. UbiParts \in SUBSET Part
  BY PartAssumption, Zenon DEF UbiParts
<1>3. /\ status' = "running" => lines' \in Seq(Rows(UbiParts))
      /\ \A p \in Part : p \notin UbiParts => part'[p] = part[p]
  BY <1>2, StayWithin, Zenon
<1>4. /\ part'["rootfs"] = part["rootfs"]
      /\ \A p \in {"BOOTCONFIG", "BOOTCONFIG1"} : part'[p] = part[p]
  BY <1>3, PartAssumption, Zenon DEF UbiParts
<1>5. part'["rootfs"] = Slice(uploads', 0, up'.size)
  BY <1>1, <1>4, Zenon
<1>6. FirmwareSurvives'
  <2>1. Image' = Image
    BY Steady, Zenon
  <2> QED
    BY <1>1, <1>5, <2>1, KeepPrimary, Zenon
<1>7. Rows(UbiParts)' = Rows(UbiParts)
  BY Steady, Zenon
<1> QED
  BY <1>3, <1>4, <1>5, <1>6, <1>7, Zenon DEF Ubi, Slice

(* An upgrade of something else leaves the systems alone.                  *)
LEMMA SystemElsewhere ==
    ASSUME FlashType, status = "running", Command, dev' = dev, FirmwareSurvives,
           lines \in Seq(Rows(Part \ Systems)), Same(Systems)
    PROVE  /\ FirmwareSurvives'
           /\ status' = "running" => (lines \in Seq(Rows(Part \ Systems)) /\ Same(Systems))'
           /\ \A p \in {"BOOTCONFIG", "BOOTCONFIG1"} : part'[p] = part[p]
<1>1. up' = up /\ uploads' = uploads /\ start' = start
  BY Effect, Zenon
<1>2. /\ status' = "running" => lines' \in Seq(Rows(Part \ Systems))
      /\ \A p \in Part : p \notin Part \ Systems => part'[p] = part[p]
  BY StayWithin, Zenon
<1>3. \A p \in Systems : part'[p] = part[p]
  BY <1>2, Names, Zenon
<1>4. FirmwareSurvives'
  BY <1>1, <1>3, KeepSystems, Zenon
<1>5. Same(Systems)'
  BY <1>1, <1>3, Zenon DEF Same
<1>6. \A p \in {"BOOTCONFIG", "BOOTCONFIG1"} : part'[p] = part[p]
  BY <1>3, Zenon DEF Systems
<1>7. Rows(Part \ Systems)' = Rows(Part \ Systems)
  BY Steady, Zenon
<1> QED
  BY <1>2, <1>4, <1>5, <1>6, <1>7, Zenon

(* A new upload begins with SystemInv.                                     *)
LEMMA SystemUpload ==
    ASSUME FlashType, SystemInv, dev' = dev, NEW m \in Image, Upload(m)
    PROVE  SystemInv'
<1>1. /\ uploads' = uploads + 1 /\ up' = m /\ part' = part /\ start' = part
      /\ ram' = [i \in DOMAIN ram |-> IF i <= m.size THEN <<uploads + 1, i>> ELSE Torn]
      /\ lines' = do_http_upgrade(m)
      /\ status' = IF do_http_upgrade(m) = <<>> THEN "failed" ELSE "running"
  BY Zenon DEF Upload
<1>2. FirmwareSurvives'
  BY <1>1, KeepBackups, Zenon
<1>3. dev \in Device
  BY Zenon DEF FlashType
<1>4. Same(Systems)' /\ Same(Backups)'
  BY <1>1, Zenon DEF Same
<1>5. Loaded'
  <2>1. m.size \in 1..MaxSize /\ MaxSize \in Nat /\ DOMAIN ram = 1..(MaxSize + 1)
    BY <1>3, SizeBound, Zenon DEF FlashType
  <2>2. ASSUME NEW i \in 1..m.size PROVE ram'[i] = <<uploads', i>>
    <3>1. i \in DOMAIN ram /\ i <= m.size
      BY <2>1
    <3> QED
      BY <1>1, <3>1, Zenon
  <2> QED
    BY <1>1, <2>2, Zenon DEF Loaded
<1>6. ASSUME do_http_upgrade(m) # <<>>
      PROVE  \/ lines' \in Seq(Rows(Part \ Systems))
             \/ m.type = "FIRMWARE" /\ Flash = "MMC" /\ AtHlos(m, lines')
             \/ m.type = "FIRMWARE" /\ Flash = "NAND" /\ AtUbi(m, lines')
  <2>1. CASE m.type = "FIRMWARE"
    BY <1>1, <1>3, <1>6, <2>1, FirmwareUpgrade, Zenon
  <2>2. Seq(Rows(Tables)) \subseteq Seq(Rows(Part \ Systems)) /\ Seq(Rows(Loaders)) \subseteq Seq(Rows(Part \ Systems))
    BY Names, RowsWiden, Zenon
  <2>3. CASE m.type = "UBOOT"
    <3>1. do_http_upgrade(m) \in Seq(Rows(Loaders))
      BY <1>3, <1>6, <2>3, UbootUpgrade, Zenon
    <3> QED
      BY <1>1, <2>2, <3>1, Zenon
  <2>4. CASE m.type \notin {"FIRMWARE", "UBOOT"}
    <3>1. do_http_upgrade(m) \in Seq(Rows(Tables))
      BY <1>3, <2>4, OtherUpgrade, Zenon
    <3> QED
      BY <1>1, <2>2, <3>1, ZenonT(60)
  <2> QED
    BY <2>1, <2>3, <2>4, Zenon
<1>7. /\ AtHlos(up, lines)' = AtHlos(m, lines') /\ AtUbi(up, lines)' = AtUbi(m, lines')
      /\ Flash' = Flash /\ Rows(Part \ Systems)' = Rows(Part \ Systems)
  BY <1>1, Steady, SteadySystem, Zenon
<1> QED
  BY <1>1, <1>2, <1>4, <1>5, <1>6, <1>7, Zenon DEF SystemInv, Emmc, Ubi

(* No firmware is uploaded to a device whose flash commands may fail and   *)
(* report success: do_firmware_upgrade, unlike do_uboot_upgrade, reads     *)
(* nothing back.                                                           *)
Honest == \A d \in Device : d.silent => \A m \in d.images : m.type # "FIRMWARE"

(* A command keeps SystemInv, and touches the boot configuration only when *)
(* the primary copy is complete.                                           *)
LEMMA SystemCommand ==
    ASSUME Honest, FlashType, SystemInv, status = "running", Command, dev' = dev
    PROVE  /\ SystemInv'
           /\ \/ \A p \in {"BOOTCONFIG", "BOOTCONFIG1"} : part'[p] = part[p]
              \/ KernelDone /\ RootDone
<1>1. up' = up /\ Flash' = Flash
  BY Effect, Steady, Zenon
<1>2. up.type = "FIRMWARE" => ~dev.silent
  BY Zenon DEF Honest, FlashType, Image
<1>3. CASE lines \in Seq(Rows(Part \ Systems)) /\ Same(Systems)
  <2>1. FirmwareSurvives
    BY Zenon DEF SystemInv
  <2>2. /\ FirmwareSurvives'
        /\ status' = "running" => (lines \in Seq(Rows(Part \ Systems)) /\ Same(Systems))'
        /\ \A p \in {"BOOTCONFIG", "BOOTCONFIG1"} : part'[p] = part[p]
    BY <1>3, <2>1, SystemElsewhere, Zenon
  <2> QED
    BY <2>2, Zenon DEF SystemInv
<1>4. CASE up.type = "FIRMWARE" /\ Flash = "MMC" /\ Emmc
  <2>1. /\ FirmwareSurvives' /\ (status' = "running" => Emmc')
        /\ \/ \A p \in {"BOOTCONFIG", "BOOTCONFIG1"} : part'[p] = part[p]
           \/ KernelDone /\ RootDone
    <3>1. CASE AtHlos(up, lines) /\ Loaded /\ Same(Backups)
      BY <1>2, <1>4, <3>1, HlosStep, Zenon
    <3>2. CASE AtRootfs(up, lines) /\ Loaded /\ Same(Backups) /\ KernelDone
      BY <1>2, <1>4, <3>2, RootfsStep, Zenon
    <3>3. CASE AtWififw(up, lines) /\ Same(Backups) /\ KernelDone /\ RootDone
      BY <1>2, <1>4, <3>3, WififwStep, Zenon
    <3>4. CASE lines \in Late(up) /\ KernelDone /\ RootDone /\ (~Between(up) => Same(Backups))
      BY <1>4, <3>4, LateStep, Zenon
    <3> QED
      BY <1>4, <3>1, <3>2, <3>3, <3>4, Zenon DEF Emmc
  <2> QED
    BY <1>1, <1>4, <2>1, Zenon DEF SystemInv
<1>5. CASE up.type = "FIRMWARE" /\ Flash = "NAND" /\ Ubi
  <2>1. /\ FirmwareSurvives' /\ (status' = "running" => Ubi')
        /\ \A p \in {"BOOTCONFIG", "BOOTCONFIG1"} : part'[p] = part[p]
    <3>1. CASE AtUbi(up, lines) /\ Loaded /\ Same(Backups)
      BY <1>2, <1>5, <3>1, UbiFirst, Zenon
    <3>2. CASE lines \in Seq(Rows(UbiParts)) /\ part["rootfs"] = Slice(uploads, 0, up.size)
      BY <1>5, <3>2, UbiSecond, Zenon
    <3> QED
      BY <1>5, <3>1, <3>2, Zenon DEF Ubi
  <2> QED
    BY <1>1, <1>5, <2>1, Zenon DEF SystemInv
<1> QED
  BY <1>3, <1>4, <1>5, Zenon DEF SystemInv

(* Every step keeps SystemInv.                                             *)
LEMMA SystemStep ==
    ASSUME Honest, FlashType, SystemInv, [Next]_vars
    PROVE  SystemInv'
<1>1. CASE UNCHANGED vars
  <2>1. /\ dev' = dev /\ part' = part /\ ram' = ram /\ up' = up /\ lines' = lines
        /\ status' = status /\ uploads' = uploads /\ start' = start
    BY <1>1, Zenon DEF vars
  <2>2. FirmwareSurvives'
    BY <2>1, KeepSystems, Zenon DEF SystemInv
  <2>3. /\ Same(Systems)' = Same(Systems) /\ Same(Backups)' = Same(Backups) /\ Loaded' = Loaded
        /\ KernelDone' = KernelDone /\ RootDone' = RootDone /\ Between(up)' = Between(up)
    BY <2>1, Zenon DEF Same, Loaded, KernelDone, RootDone, Slice, Between
  <2>4. /\ Flash' = Flash /\ Late(up)' = Late(up)
        /\ Rows(Part \ Systems)' = Rows(Part \ Systems) /\ Rows(UbiParts)' = Rows(UbiParts)
        /\ AtHlos(up, lines)' = AtHlos(up, lines) /\ AtRootfs(up, lines)' = AtRootfs(up, lines)
        /\ AtWififw(up, lines)' = AtWififw(up, lines) /\ AtUbi(up, lines)' = AtUbi(up, lines)
    BY <2>1, Steady, SteadySystem, Zenon
  <2>5. Emmc' = Emmc
    BY <2>1, <2>3, <2>4, Zenon DEF Emmc
  <2>6. Ubi' = Ubi
    BY <2>1, <2>3, <2>4, Zenon DEF Ubi, Slice
  <2> QED
    BY <2>1, <2>2, <2>3, <2>4, <2>5, <2>6, Zenon DEF SystemInv
<1>2. CASE Next
  <2>1. dev' = dev
    BY <1>2, Zenon DEF Next
  <2>2. ASSUME NEW m \in Image, Upload(m) PROVE SystemInv'
    BY <2>1, <2>2, SystemUpload, Zenon
  <2>3. CASE Command
    BY <2>1, <2>3, Runs, SystemCommand, Zenon
  <2>4. CASE PowerLoss
    <3>1. status' = "off" /\ part' = part /\ uploads' = uploads /\ start' = start
      BY <2>4, Zenon DEF PowerLoss
    <3>2. FirmwareSurvives'
      BY <2>1, <3>1, KeepSystems, Zenon DEF SystemInv
    <3> QED
      BY <3>1, <3>2, Zenon DEF SystemInv
  <2> QED
    BY <1>2, <2>2, <2>3, <2>4, Zenon DEF Next
<1> QED
  BY <1>1, <1>2, Zenon

(* The initial states have SystemInv.                                      *)
LEMMA SystemInit == Init => SystemInv
BY Zenon DEF Init, SystemInv, FirmwareSurvives

(* do_firmware_upgrade never leaves the device without a system, whatever  *)
(* fails or loses power, for all honest devices, images and sequences of   *)
(* uploads: the backup is written only after the primary copy is complete. *)
THEOREM FirmwareSafe ==
    ASSUME Honest
    PROVE  Spec => []FirmwareSurvives
<1>1. SystemInv => FirmwareSurvives
  BY Zenon DEF SystemInv
<1> QED
  BY <1>1, LoaderInit, LoaderStep, SystemInit, SystemStep, PTL DEF Spec

(* What SwitchLast says of a step.                                         *)
Switched == \A p \in {"BOOTCONFIG", "BOOTCONFIG1"} : part'[p] # part[p] =>
          /\ part["HLOS"] = Slice(uploads, 0, up.kernel)
          /\ part["rootfs"] = Slice(uploads, up.kernel, up.size)

(* Every step does as SwitchLast says.                                     *)
LEMMA SwitchStep ==
    ASSUME Honest, FlashType, SystemInv, [Next]_vars
    PROVE  [Switched]_vars
<1>1. CASE UNCHANGED vars
  BY <1>1, Zenon
<1>2. ASSUME NEW m \in Image, Upload(m) PROVE Switched
  BY <1>2, Zenon DEF Upload, Switched
<1>3. CASE Command /\ dev' = dev
  BY <1>3, Runs, SystemCommand, Zenon DEF Switched, KernelDone, RootDone
<1>4. CASE PowerLoss
  BY <1>4, Zenon DEF PowerLoss, Switched
<1> QED
  BY <1>1, <1>2, <1>3, <1>4, Zenon DEF Next

(* update_bootconfig comes last: the boot configuration is touched only    *)
(* when the primary copy is the image just uploaded, complete, for all     *)
(* honest devices.                                                         *)
THEOREM SwitchedLast ==
    ASSUME Honest
    PROVE  Spec => SwitchLast
<1>1. SwitchLast <=> [][Switched]_vars
  BY Zenon DEF SwitchLast, Switched
<1> QED
  BY <1>1, LoaderInit, LoaderStep, SystemInit, SystemStep, SwitchStep, PTL DEF Spec
=============================================================================
