---------------------------- MODULE UbiVolumes ----------------------------
(***************************************************************************)
(* A sysupgrade image on NAND: sysupgrade_write_ubi_volumes replaces the   *)
(* UBI volumes of the system one after the other, with the space check     *)
(* ubi_volume_can_replace before each removal.  The model follows the      *)
(* physical erase blocks (PEBs) through the volumes, the free pool and the *)
(* reserve for bad blocks, while commands fail, blocks go bad, power is    *)
(* lost and the upgrade is tried again.                                    *)
(***************************************************************************)
EXTENDS Integers

CONSTANTS
    Peb,          \* good PEBs of a new device, less what UBI keeps for itself
    bad_peb_limit,
    leb_size,     \* bytes of a volume in one PEB
    Image,        \* the uploads to try: records [kernel, rootfs, backup]
    Layout,       \* the volumes of the device at first: functions on Vol
    MaxUpgrades,  \* upgrades, the retries after a power loss included
    MaxBad,       \* blocks that go bad
    Faults        \* the commands that may fail: of "remove", "create", "write"

Vol == {"kernel", "rootfs", "kernel_1", "rootfs_1", "rootfs_data"}

ASSUME UbiAssumption ==
    /\ Peb \in Nat /\ bad_peb_limit \in Nat /\ leb_size \in Nat \ {0}
    /\ MaxUpgrades \in Nat /\ MaxBad \in Nat
    /\ Faults \subseteq {"remove", "create", "write"}
    /\ Image \subseteq [kernel : Nat, rootfs : Nat, backup : BOOLEAN]
    /\ Layout \subseteq [Vol -> Nat]

VARIABLES
    vtbl,      \* PEBs of each volume in the volume table on flash, 0: none
    volumes,   \* the same in the attached device
    data,      \* the upload each volume was written from; Torn: incomplete
    avail_pebs,
    beb_rsvd_pebs,
    bad,       \* blocks gone bad, bad_peb_count
    up,        \* the image, with its number
    pc, cur,   \* the next step of the upgrade and the volume it is about
    ret,       \* the result so far: 0 or -1
    upgrades,  \* history: upgrades started
    unmade,    \* history: this upgrade could not attach or create rootfs_data
    backed,    \* history: the backup was complete when this upgrade began, and
               \* no creation has failed in it
    passed     \* history: the last image whose rootfs passed the space check
               \* with its kernel in place, if no creation failed since

vars == <<vtbl, volumes, data, avail_pebs, beb_rsvd_pebs, bad, up, pc, cur, ret,
          upgrades, unmade, backed, passed>>
history == <<upgrades, unmade, backed>>
space == <<volumes, avail_pebs, beb_rsvd_pebs, bad>>
-----------------------------------------------------------------------------
Torn == -1
NoImage == [kernel |-> 0, rootfs |-> 0, backup |-> FALSE]

Least(a, b) == IF a <= b THEN a ELSE b

(* Division rounded up, as in ubi_create_volume. *)
Pebs(bytes) == (bytes + leb_size - 1) \div leb_size

Size(v) == IF v \in {"kernel", "kernel_1"} THEN up.kernel ELSE up.rootfs

Required(v) == v \in {"kernel", "rootfs"}

Used(vols) == vols["kernel"] + vols["rootfs"] + vols["kernel_1"] + vols["rootfs_1"]
              + vols["rootfs_data"]

(* ubi_calculate_reserved. *)
beb_rsvd_level(b) == IF bad_peb_limit >= b THEN bad_peb_limit - b ELSE 0

(* The PEBs by which the reserve falls short, if it does. *)
Shortfall == LET need == beb_rsvd_level(bad) - beb_rsvd_pebs
             IN  IF need > 0 THEN need ELSE 0

(* Mutant: the reserve that the removal refills is forgotten. *)
CanReplaceUnreserved(v) == Pebs(Size(v)) <= avail_pebs + volumes[v]

(* Mutant: there must be a volume to replace. *)
CanReplaceExisting(v) ==
    volumes[v] > 0 /\ Pebs(Size(v)) <= avail_pebs + volumes[v] - Shortfall

(* ubi_volume_can_replace: does the new volume fit once the old is gone.   *)
ubi_volume_can_replace(v) ==
    LET after == avail_pebs + volumes[v]
        left == IF volumes[v] = 0 THEN avail_pebs
                ELSE IF Shortfall > after THEN 0 ELSE after - Shortfall
    IN  Pebs(Size(v)) <= left

(* The volumes an image has something for. *)
Parts == {v \in {"kernel", "kernel_1"} : up.kernel > 0} \cup
         {v \in {"rootfs", "rootfs_1"} : up.rootfs > 0}

Turn(v) == CASE v = "rootfs_data" -> 0 [] v = "kernel" -> 1 [] v = "rootfs" -> 2
             [] v = "kernel_1" -> 3 [] v = "rootfs_1" -> 4

(* The volumes written after v. *)
Later(v) == {w \in Parts : /\ Turn(w) > Turn(v)
                           /\ Required(w) \/ up.backup}

(* A copy of the system with both volumes complete, from one image.        *)
Whole(k, r) == data[k] # Torn /\ data[k] = data[r]

(* Go on to the next volume, or to the volume for the configuration.       *)
NextVolume ==
    IF Later(cur) = {} THEN pc' = "restore" /\ UNCHANGED cur
    ELSE /\ pc' = "check"
         /\ cur' = CHOOSE w \in Later(cur) : \A x \in Later(cur) : Turn(w) <= Turn(x)

(* ubi_write_volume returned -1: goto restore_config for the primary       *)
(* volumes, the next one for the backup.                                   *)
GiveUp ==
    IF Required(cur) THEN pc' = "restore" /\ ret' = -1 /\ UNCHANGED cur
    ELSE NextVolume /\ UNCHANGED ret
-----------------------------------------------------------------------------
(* sysupgrade_write_ubi_volumes begins: the device is attached, which      *)
(* counts the PEBs and fills the reserve as far as it goes.                *)
Attach ==
    /\ pc \in {"off", "done"} /\ upgrades < MaxUpgrades
    /\ \E m \in Image :
         /\ m.kernel > 0 \/ m.rootfs > 0
         /\ up' = m
    /\ LET free == Peb - bad - Used(vtbl)
           rsvd == Least(beb_rsvd_level(bad), free)
       IN  beb_rsvd_pebs' = rsvd /\ avail_pebs' = free - rsvd
    /\ volumes' = vtbl
    /\ pc' = "remove" /\ cur' = "rootfs_data" /\ ret' = 0
    /\ upgrades' = upgrades + 1 /\ unmade' = FALSE
    /\ backed' = Whole("kernel_1", "rootfs_1")
    /\ UNCHANGED <<vtbl, data, bad, passed>>

(* The device cannot be attached: the upgrade fails, nothing is changed.   *)
AttachFailed ==
    /\ pc \in {"off", "done"} /\ upgrades < MaxUpgrades
    /\ \E m \in Image : up' = m
    /\ pc' = "done" /\ ret' = -1 /\ unmade' = TRUE /\ upgrades' = upgrades + 1
    /\ UNCHANGED <<vtbl, space, data, cur, backed, passed>>

CheckPasses ==
    /\ pc = "check" /\ ubi_volume_can_replace(cur)
    /\ pc' = "remove"
    /\ passed' = IF cur = "rootfs" /\ data["kernel"] = upgrades THEN up ELSE passed
    /\ UNCHANGED <<vtbl, space, data, up, cur, ret, history>>

CheckRefuses ==
    /\ pc = "check" /\ ~ubi_volume_can_replace(cur)
    /\ GiveUp
    /\ UNCHANGED <<vtbl, space, data, up, history, passed>>

(* After "ubi remove": the volume is created, the configuration is not.    *)
Removed ==
    IF cur = "rootfs_data" THEN NextVolume
    ELSE pc' = "create" /\ UNCHANGED cur

(* ubi_remove_vol: the PEBs go back, first of all to the reserve.          *)
ubi_remove_vol ==
    /\ pc = "remove" /\ volumes[cur] > 0
    /\ vtbl' = [vtbl EXCEPT ![cur] = 0] /\ volumes' = [volumes EXCEPT ![cur] = 0]
    /\ data' = [data EXCEPT ![cur] = Torn]
    /\ LET i == Least(Shortfall, avail_pebs + volumes[cur])
       IN  /\ avail_pebs' = avail_pebs + volumes[cur] - i
           /\ beb_rsvd_pebs' = beb_rsvd_pebs + i
    /\ Removed
    /\ UNCHANGED <<bad, up, ret, history, passed>>

(* No such volume; nobody looks at the result. *)
RemoveAbsent ==
    /\ pc = "remove" /\ volumes[cur] = 0
    /\ Removed
    /\ UNCHANGED <<vtbl, space, data, up, ret, history, passed>>

(* The removal fails before or after the volume table was written; the     *)
(* attached device keeps the volume.  Nobody looks at the result.          *)
RemoveFails ==
    /\ pc = "remove" /\ volumes[cur] > 0 /\ "remove" \in Faults
    /\ \/ UNCHANGED <<vtbl, data>>
       \/ /\ vtbl' = [vtbl EXCEPT ![cur] = 0]
          /\ data' = [data EXCEPT ![cur] = Torn]
    /\ Removed
    /\ UNCHANGED <<space, up, ret, history, passed>>

(* ubi_create_volume for a volume of n PEBs. *)
Create(v, n) ==
    /\ volumes[v] = 0 /\ n <= avail_pebs
    /\ vtbl' = [vtbl EXCEPT ![v] = n] /\ volumes' = [volumes EXCEPT ![v] = n]
    /\ data' = [data EXCEPT ![v] = Torn]
    /\ avail_pebs' = avail_pebs - n
    /\ UNCHANGED <<beb_rsvd_pebs, bad>>

ubi_create_vol ==
    /\ pc = "create"
    /\ Create(cur, Pebs(Size(cur)))
    /\ pc' = "write"
    /\ UNCHANGED <<up, cur, ret, history, passed>>

(* The name exists, there is no space, or the flash or a read-only device  *)
(* refuses: ubi_create_volume rolls back and returns a negative number,    *)
(* which HUSH takes for an exit of the line and run_command for success:   *)
(* "ubi write" does not run and ubi_write_volume returns 0.                *)
CreateFails ==
    /\ pc = "create"
    /\ \/ volumes[cur] > 0 \/ Pebs(Size(cur)) > avail_pebs \/ "create" \in Faults
    /\ NextVolume
    /\ backed' = FALSE /\ passed' = NoImage
    /\ UNCHANGED <<vtbl, space, data, up, ret, upgrades, unmade>>

ubi_volume_write ==
    /\ pc = "write"
    /\ data' = [data EXCEPT ![cur] = upgrades]
    /\ NextVolume
    /\ UNCHANGED <<vtbl, space, up, ret, history, passed>>

(* Mutant: the result of the write is not looked at. *)
WriteFailureIgnored ==
    /\ pc = "write" /\ "write" \in Faults
    /\ NextVolume
    /\ UNCHANGED <<vtbl, space, data, up, ret, history, passed>>

(* "ubi write" returns a positive number: the line fails. *)
WriteFails ==
    /\ pc = "write" /\ "write" \in Faults
    /\ GiveUp
    /\ UNCHANGED <<vtbl, space, data, up, history, passed>>

(* restore_config: "ubi create rootfs_data" with all that is left.         *)
restore_config ==
    /\ pc = "restore"
    /\ \/ avail_pebs > 0 /\ Create("rootfs_data", avail_pebs) /\ UNCHANGED unmade
       \/ avail_pebs = 0 /\ UNCHANGED <<vtbl, space, data, unmade>>
       \/ /\ avail_pebs > 0 /\ (volumes["rootfs_data"] > 0 \/ "create" \in Faults)
          /\ unmade' = TRUE
          /\ UNCHANGED <<vtbl, space, data>>
    /\ pc' = "done"
    /\ UNCHANGED <<up, cur, ret, upgrades, backed, passed>>
-----------------------------------------------------------------------------
(* erase_worker, run while blocks are given back by a removal or a write:  *)
(* a block that cannot be erased is replaced from the reserve, or from the *)
(* free pool when the reserve is empty.                                    *)
erase_worker ==
    /\ pc \in {"remove", "write"} /\ volumes[cur] > 0
    /\ bad < MaxBad /\ beb_rsvd_pebs + avail_pebs > 0
    /\ bad' = bad + 1
    /\ IF beb_rsvd_pebs > 0
       THEN beb_rsvd_pebs' = beb_rsvd_pebs - 1 /\ UNCHANGED avail_pebs
       ELSE avail_pebs' = avail_pebs - 1 /\ UNCHANGED beb_rsvd_pebs
    /\ UNCHANGED <<vtbl, volumes, data, up, pc, cur, ret, history, passed>>

(* Power is lost: what is on flash stays. *)
PowerLoss ==
    /\ pc \notin {"off", "done"}
    /\ pc' = "off"
    /\ UNCHANGED <<vtbl, space, data, up, cur, ret, history, passed>>

Init ==
    /\ vtbl \in Layout /\ Used(vtbl) <= Peb
    /\ volumes = vtbl
    /\ data = [v \in Vol |-> IF vtbl[v] > 0 THEN 0 ELSE Torn]
    /\ avail_pebs = 0 /\ beb_rsvd_pebs = 0 /\ bad = 0
    /\ up = NoImage /\ pc = "off" /\ cur = "rootfs_data" /\ ret = 0
    /\ upgrades = 0 /\ unmade = FALSE /\ backed = FALSE /\ passed = NoImage

Next == \/ Attach \/ AttachFailed \/ CheckPasses \/ CheckRefuses
        \/ ubi_remove_vol \/ RemoveAbsent \/ RemoveFails
        \/ ubi_create_vol \/ CreateFails \/ ubi_volume_write \/ WriteFails
        \/ restore_config \/ erase_worker \/ PowerLoss

Spec == Init /\ [][Next]_vars
-----------------------------------------------------------------------------
TypeOK ==
    /\ vtbl \in [Vol -> Nat] /\ volumes \in [Vol -> Nat]
    /\ data \in [Vol -> Nat \cup {Torn}]
    /\ avail_pebs \in Nat /\ beb_rsvd_pebs \in Nat /\ bad \in Nat
    /\ up \in [kernel : Nat, rootfs : Nat, backup : BOOLEAN]
    /\ pc \in {"off", "check", "remove", "create", "write", "restore", "done"}
    /\ cur \in Vol /\ ret \in {0, -1}
    /\ upgrades \in Nat /\ unmade \in BOOLEAN /\ backed \in BOOLEAN
    /\ passed \in [kernel : Nat, rootfs : Nat, backup : BOOLEAN]

Busy == pc \notin {"off", "done"}

(* Every good block is in a volume, in the reserve or free, through        *)
(* removals, refills of the reserve, creations and blocks going bad.       *)
PebsConserved ==
    Busy => Used(volumes) + avail_pebs + beb_rsvd_pebs = Peb - bad

(* "an ENOSPC create cannot leave the device without a kernel/rootfs       *)
(* volume" (cmd_ubi.c): a volume that the check let be removed can be      *)
(* created, whatever the removal gave to the reserve and whatever went bad *)
(* in between.                                                             *)
ReplacementFits ==
    pc = "create" /\ volumes[cur] = 0 => Pebs(Size(cur)) <= avail_pebs

(* If the backup was complete when the upgrade began, the primary or the   *)
(* backup is complete and of one image at every moment, and after a power  *)
(* loss: sysupgrade_write_ubi_volumes touches the backup only when the     *)
(* primary is finished.  A creation that fails is the exception: its       *)
(* failure is hidden, and the upgrade goes on to the backup.               *)
SystemSurvives ==
    backed => Whole("kernel", "rootfs") \/ Whole("kernel_1", "rootfs_1")

(* run_command's result is what ubi_write_volume trusts: an upgrade that   *)
(* returns 0 has written the parts of the image.                           *)
SuccessWritten ==
    pc = "done" /\ ret = 0 /\ upgrades > 0 =>
        \A v \in Parts : Required(v) => data[v] = upgrades

(* "Recreate the volume on every exit path so a failure does not leave it  *)
(* missing" (sysupgrade_parser.c): it is there at the end unless no block  *)
(* is left or its own command failed.                                      *)
ConfigRestored ==
    pc = "done" /\ volumes["rootfs_data"] = 0 => avail_pebs = 0 \/ unmade

(* An image that once had its kernel in place and room for its root file   *)
(* system is not refused when it is tried again after a power loss or a    *)
(* failed write, unless a hidden failure has left the primary incomplete   *)
(* since, or the configuration's volume could not be removed now.          *)
RetryAccepted ==
    pc = "check" /\ Required(cur) /\ up = passed /\ volumes["rootfs_data"] = 0 =>
        ubi_volume_can_replace(cur)
=============================================================================
