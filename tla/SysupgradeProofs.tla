-------------------------- MODULE SysupgradeProofs ---------------------------
(***************************************************************************)
(* The volumes, for every size of device, bad-block limit, set of images   *)
(* and layouts: the erase blocks are conserved, and as long as no more     *)
(* blocks go bad than UBI reserved for, the space check of                 *)
(* ubi_volume_can_replace is right when the volume is created and accepts  *)
(* an image again that it accepted before.  One of the two copies of the   *)
(* system is complete at every moment.  The parser, for every image,       *)
(* however wrong its headers are: what it gives out lies in the upload, in *)
(* two parts that do not overlap.                                          *)
(***************************************************************************)
EXTENDS UbiVolumes, SysupgradeParser, TLAPS

(* The volume table never promises more than the attached device holds,    *)
(* so the next attach finds enough blocks.                                 *)
TableFits ==
    /\ \A v \in Vol : vtbl[v] <= volumes[v]
    /\ Used(vtbl) + bad <= Peb

SpaceInv == TypeOK /\ PebsConserved /\ TableFits

(* What the check found is still so when the old volume is removed.        *)
CheckHolds ==
    pc = "remove" /\ cur # "rootfs_data" => ubi_volume_can_replace(cur)

FitInv == /\ SpaceInv /\ bad <= MaxBad
          /\ CheckHolds /\ ReplacementFits

(* A number of bytes needs a natural number of blocks. *)
LEMMA PebsNat == ASSUME NEW n \in Nat PROVE Pebs(n) \in Nat
  <1>1. n + leb_size - 1 \in Nat /\ leb_size \in Nat /\ leb_size > 0
    BY UbiAssumption
  <1>2. ASSUME NEW a \in Nat, NEW b \in Nat, b > 0 PROVE a \div b \in Nat
    <2>1. a \div b \in Int
      BY <1>2
    <2>2. a \div b >= 0
      BY <1>2, SMTT(30)
    <2> QED
      BY <2>1, <2>2
  <1> QED
    BY <1>1, <1>2, Zenon DEF Pebs

(* Among volumes still to be written one comes first, and NextVolume takes *)
(* such a one: it stays within the volumes.                                *)
LEMMA NextVolumeType ==
    ASSUME cur \in Vol, NextVolume
    PROVE  cur' \in Vol /\ pc' \in {"check", "restore"}
  <1>1. Later(cur) \subseteq Vol
    BY Zenon DEF Later, Parts, Vol
  <1>2. ASSUME Later(cur) # {}
        PROVE  \E w \in Later(cur) : \A x \in Later(cur) : Turn(w) <= Turn(x)
    <2>1. Later(cur) \subseteq {"kernel", "rootfs", "kernel_1", "rootfs_1"}
      BY Zenon DEF Later, Parts
    <2>2. Turn("kernel") = 1 /\ Turn("rootfs") = 2 /\ Turn("kernel_1") = 3
          /\ Turn("rootfs_1") = 4
      BY Zenon DEF Turn
    <2> QED
      BY <1>2, <2>1, <2>2
  <1>3. CASE Later(cur) = {}
    BY <1>3, Zenon DEF NextVolume
  <1>4. CASE Later(cur) # {}
    <2>1. cur' \in Later(cur)
      BY <1>2, <1>4, Zenon DEF NextVolume
    <2> QED
      BY <1>1, <1>4, <2>1, Zenon DEF NextVolume
  <1> QED
    BY <1>3, <1>4, Zenon

(* The sizes of an image and of its volumes. *)
LEMMA SizeNat == ASSUME TypeOK, NEW v PROVE Pebs(Size(v)) \in Nat
  <1>1. Size(v) \in Nat
    BY Zenon DEF TypeOK, Size
  <1> QED
    BY <1>1, PebsNat, Zenon

(* What a removal leaves to the free pool and to the reserve: numbers a    *)
(* (free), n (the volume) and s (the shortfall).                           *)
LEMMA RefillSound ==
    ASSUME NEW a \in Nat, NEW n \in Nat, NEW s \in Nat
    PROVE  /\ Least(s, a + n) \in Nat
           /\ Least(s, a + n) <= a + n
           /\ a + n - Least(s, a + n) = IF s > a + n THEN 0 ELSE a + n - s
  BY DEF Least

(* What the reserve lacks is never negative. *)
LEMMA ShortfallNat == ASSUME TypeOK PROVE Shortfall \in Nat
  BY UbiAssumption DEF TypeOK, Shortfall, beb_rsvd_level

(* Changing one volume changes the sum by the difference. *)
LEMMA UsedExcept ==
    ASSUME NEW f \in [Vol -> Nat], NEW v \in Vol, NEW n \in Nat
    PROVE  /\ Used([f EXCEPT ![v] = n]) = Used(f) - f[v] + n
           /\ Used(f) \in Nat
  BY DEF Used, Vol

(* Removing one volume takes its blocks from the sum. *)
LEMMA UsedRemoved ==
    ASSUME NEW f \in [Vol -> Nat], NEW v \in Vol
    PROVE  /\ Used([f EXCEPT ![v] = 0]) = Used(f) - f[v]
           /\ Used(f) \in Nat
  BY DEF Used, Vol

(* A smaller table uses less. *)
LEMMA UsedMonotone ==
    ASSUME NEW f \in [Vol -> Nat], NEW g \in [Vol -> Nat], \A v \in Vol : f[v] <= g[v]
    PROVE  Used(f) <= Used(g) /\ Used(f) \in Nat /\ Used(g) \in Nat
  BY DEF Used, Vol

(* The variables of the space accounting, and the others, have their types. *)
SpaceTypes == /\ vtbl \in [Vol -> Nat] /\ volumes \in [Vol -> Nat]
              /\ avail_pebs \in Nat /\ beb_rsvd_pebs \in Nat /\ bad \in Nat

RestTypes == /\ data \in [Vol -> Nat \cup {Torn}]
             /\ up \in [kernel : Nat, rootfs : Nat, backup : BOOLEAN]
             /\ pc \in {"off", "check", "remove", "create", "write", "restore", "done"}
             /\ cur \in Vol /\ ret \in {0, -1}
             /\ upgrades \in Nat /\ unmade \in BOOLEAN /\ backed \in BOOLEAN
             /\ passed \in [kernel : Nat, rootfs : Nat, backup : BOOLEAN]

(* Where the control may go from a removal and from a volume given up. *)
LEMMA RemovedType ==
    ASSUME cur \in Vol, Removed
    PROVE  cur' \in Vol /\ pc' \in {"check", "restore", "create"}
  <1>1. CASE cur = "rootfs_data"
    BY <1>1, NextVolumeType, Zenon DEF Removed
  <1>2. CASE cur # "rootfs_data"
    BY <1>2, Zenon DEF Removed
  <1> QED
    BY <1>1, <1>2, Zenon

(* A part that is given up leaves the control state well typed. *)
LEMMA GiveUpType ==
    ASSUME cur \in Vol, ret \in {0, -1}, GiveUp
    PROVE  cur' \in Vol /\ pc' \in {"check", "restore"} /\ ret' \in {0, -1}
  <1>1. CASE Required(cur)
    BY <1>1, Zenon DEF GiveUp
  <1>2. CASE ~Required(cur)
    BY <1>2, NextVolumeType, Zenon DEF GiveUp
  <1> QED
    BY <1>1, <1>2, Zenon

(* The control and the contents keep their types. *)
LEMMA RestStep == ASSUME RestTypes, Next PROVE RestTypes'
  <1> USE DEF RestTypes, history, space
  <1>1. CASE Attach
    <2>1. up' \in [kernel : Nat, rootfs : Nat, backup : BOOLEAN]
      BY <1>1, UbiAssumption, Zenon DEF Attach
    <2>2. backed' \in BOOLEAN
      <3>1. backed' = Whole("kernel_1", "rootfs_1")
        BY <1>1, Zenon DEF Attach
      <3> QED
        BY <3>1, Zenon DEF Whole
    <2>3. /\ pc' = "remove" /\ cur' = "rootfs_data" /\ ret' = 0
          /\ upgrades' = upgrades + 1 /\ unmade' = FALSE
          /\ data' = data /\ passed' = passed
      BY <1>1, Zenon DEF Attach
    <2>4. upgrades' \in Nat /\ cur' \in Vol
      BY <2>3 DEF Vol
    <2> QED
      BY <2>1, <2>2, <2>3, <2>4, Zenon
  <1>2. CASE AttachFailed
    <2>1. up' \in [kernel : Nat, rootfs : Nat, backup : BOOLEAN]
      BY <1>2, UbiAssumption, Zenon DEF AttachFailed
    <2> QED
      BY <1>2, <2>1 DEF AttachFailed
  <1>3. CASE CheckPasses
    BY <1>3, Zenon DEF CheckPasses
  <1>4. CASE CheckRefuses
    BY <1>4, GiveUpType, Zenon DEF CheckRefuses
  <1>5. CASE ubi_remove_vol
    BY <1>5, RemovedType, Zenon DEF ubi_remove_vol
  <1>6. CASE RemoveAbsent
    BY <1>6, RemovedType, Zenon DEF RemoveAbsent
  <1>7. CASE RemoveFails
    <2>1. data' \in [Vol -> Nat \cup {Torn}]
      BY <1>7, Zenon DEF RemoveFails
    <2> QED
      BY <1>7, <2>1, RemovedType, Zenon DEF RemoveFails
  <1>8. CASE ubi_create_vol
    BY <1>8, Zenon DEF ubi_create_vol, Create
  <1>9. CASE CreateFails
    BY <1>9, NextVolumeType, Zenon DEF CreateFails, NoImage
  <1>10. CASE ubi_volume_write
    BY <1>10, NextVolumeType, Zenon DEF ubi_volume_write
  <1>11. CASE WriteFails
    BY <1>11, GiveUpType, Zenon DEF WriteFails
  <1>12. CASE restore_config
    <2>1. data' \in [Vol -> Nat \cup {Torn}]
      BY <1>12, Zenon DEF restore_config, Create
    <2>2. unmade' \in BOOLEAN
      BY <1>12, Zenon DEF restore_config
    <2> QED
      BY <1>12, <2>1, <2>2, Zenon DEF restore_config
  <1>13. CASE erase_worker
    BY <1>13, Zenon DEF erase_worker
  <1>14. CASE PowerLoss
    BY <1>14, Zenon DEF PowerLoss
  <1> QED
    BY <1>1, <1>2, <1>3, <1>4, <1>5, <1>6, <1>7, <1>8, <1>9, <1>10, <1>11, <1>12,
       <1>13, <1>14, Zenon DEF Next

(* A step that leaves the space and the table alone, between two points of *)
(* an upgrade or to its end, keeps the accounting.                         *)
LEMMA SpaceKept ==
    ASSUME SpaceTypes, PebsConserved, TableFits,
           vtbl' = vtbl, UNCHANGED space, Busy \/ ~Busy'
    PROVE  SpaceTypes' /\ PebsConserved' /\ TableFits'
  <1>1. /\ volumes' = volumes /\ avail_pebs' = avail_pebs
        /\ beb_rsvd_pebs' = beb_rsvd_pebs /\ bad' = bad /\ vtbl' = vtbl
    BY Zenon DEF space
  <1> QED
    BY <1>1, Zenon DEF SpaceTypes, PebsConserved, TableFits, Used

(* A volume set to n blocks, taken from the free pool, in a device that    *)
(* has no such volume.                                                     *)
LEMMA CreateKeeps ==
    ASSUME SpaceTypes, PebsConserved, TableFits, Busy,
           NEW v \in Vol, NEW n \in Nat, Create(v, n)
    PROVE  SpaceTypes' /\ PebsConserved' /\ TableFits'
  <1>1. /\ volumes[v] = 0 /\ n <= avail_pebs
        /\ vtbl' = [vtbl EXCEPT ![v] = n] /\ volumes' = [volumes EXCEPT ![v] = n]
        /\ avail_pebs' = avail_pebs - n
        /\ beb_rsvd_pebs' = beb_rsvd_pebs /\ bad' = bad
    BY Zenon DEF Create
  <1>2. /\ Used(volumes') = Used(volumes) + n /\ Used(volumes) \in Nat
        /\ Used(vtbl') \in Nat
    <2>1. Used(volumes') = Used(volumes) - volumes[v] + n /\ Used(volumes) \in Nat
      BY <1>1, UsedExcept, Zenon DEF SpaceTypes
    <2>2. vtbl' \in [Vol -> Nat]
      BY <1>1, Zenon DEF SpaceTypes
    <2>3. Used(vtbl') \in Nat
      BY <2>2, UsedExcept, Zenon DEF Vol
    <2> QED
      BY <1>1, <2>1, <2>3 DEF SpaceTypes
  <1>3. SpaceTypes'
    BY <1>1 DEF SpaceTypes
  <1>4. PebsConserved'
    BY <1>1, <1>2, UbiAssumption DEF PebsConserved, SpaceTypes
  <1>5. \A w \in Vol : vtbl'[w] <= volumes'[w]
    BY <1>1 DEF SpaceTypes, TableFits
  <1>6. Used(vtbl') <= Used(volumes')
    BY <1>3, <1>5, UsedMonotone, Zenon DEF SpaceTypes
  <1>7. Used(volumes') + bad <= Peb
    BY <1>1, <1>2, UbiAssumption DEF PebsConserved, SpaceTypes
  <1> QED
    BY <1>1, <1>2, <1>3, <1>4, <1>5, <1>6, <1>7, UbiAssumption DEF TableFits, SpaceTypes

(* Every action keeps the accounting. *)
LEMMA SpaceStep ==
    ASSUME SpaceInv, Next
    PROVE  SpaceTypes' /\ PebsConserved' /\ TableFits'
  <1>0. SpaceTypes /\ PebsConserved /\ TableFits /\ TypeOK /\ RestTypes
    BY Zenon DEF SpaceInv, TypeOK, SpaceTypes, RestTypes
  <1>c. cur \in Vol
    BY <1>0, Zenon DEF RestTypes
  <1>1. CASE Attach
    <2> DEFINE free == Peb - bad - Used(vtbl)
               rsvd == Least(beb_rsvd_level(bad), free)
    <2>1. /\ beb_rsvd_pebs' = rsvd /\ avail_pebs' = free - rsvd
          /\ volumes' = vtbl /\ vtbl' = vtbl /\ bad' = bad
      BY <1>1, Zenon DEF Attach
    <2>2. Used(vtbl) \in Nat /\ bad \in Nat /\ Used(vtbl) + bad <= Peb
      BY <1>0, UsedExcept, Zenon DEF TableFits, SpaceTypes, Vol
    <2>3. free \in Nat /\ beb_rsvd_level(bad) \in Nat
      BY <2>2, UbiAssumption DEF beb_rsvd_level
    <2>4. rsvd \in Nat /\ rsvd <= free
      BY <2>3 DEF Least
    <2>5. SpaceTypes'
      <3> HIDE DEF free, rsvd
      <3> QED
        BY <1>0, <2>1, <2>3, <2>4 DEF SpaceTypes
    <2>6. Used(volumes') + avail_pebs' + beb_rsvd_pebs' = Peb - bad'
      <3>1. Used(vtbl) + (free - rsvd) + rsvd = Peb - bad
        <4>1. free = Peb - bad - Used(vtbl)
          BY Zenon
        <4> HIDE DEF free, rsvd
        <4> QED
          BY <2>2, <2>3, <2>4, <4>1, UbiAssumption
      <3> QED
        BY <2>1, <3>1, Zenon
    <2>7. TableFits'
      <3>1. \A v \in Vol : vtbl[v] <= vtbl[v]
        BY <1>0 DEF SpaceTypes
      <3> QED
        BY <2>1, <2>2, <3>1, Zenon DEF TableFits
    <2> QED
      BY <2>5, <2>6, <2>7, Zenon DEF PebsConserved
  <1>2. CASE AttachFailed
    BY <1>0, <1>2, SpaceKept, Zenon DEF AttachFailed, Busy
  <1>3. CASE CheckPasses
    BY <1>0, <1>3, SpaceKept, Zenon DEF CheckPasses, Busy
  <1>4. CASE CheckRefuses
    BY <1>0, <1>4, SpaceKept, Zenon DEF CheckRefuses, Busy
  <1>5. CASE ubi_remove_vol
    <2> DEFINE i == Least(Shortfall, avail_pebs + volumes[cur])
    <2>1. /\ vtbl' = [vtbl EXCEPT ![cur] = 0] /\ volumes' = [volumes EXCEPT ![cur] = 0]
          /\ avail_pebs' = avail_pebs + volumes[cur] - i
          /\ beb_rsvd_pebs' = beb_rsvd_pebs + i /\ bad' = bad
      BY <1>5, Zenon DEF ubi_remove_vol
    <2>2. i \in Nat /\ i <= avail_pebs + volumes[cur]
      <3>1. Shortfall \in Nat /\ avail_pebs \in Nat /\ volumes[cur] \in Nat
        BY <1>0, <1>c, ShortfallNat, Zenon DEF SpaceTypes
      <3> QED
        BY <3>1, RefillSound, Zenon
    <2>3. /\ Used(volumes') = Used(volumes) - volumes[cur]
          /\ Used(vtbl') = Used(vtbl) - vtbl[cur]
          /\ Used(vtbl) \in Nat /\ Used(volumes) \in Nat
      BY <1>0, <1>c, <2>1, UsedRemoved, Zenon DEF SpaceTypes
    <2>4. Busy
      BY <1>5, Zenon DEF ubi_remove_vol, Busy
    <2> HIDE DEF i
    <2>5. SpaceTypes'
      BY <1>0, <1>c, <2>1, <2>2 DEF SpaceTypes
    <2>6. PebsConserved'
      BY <1>0, <1>c, <2>1, <2>2, <2>3, <2>4, UbiAssumption DEF PebsConserved, SpaceTypes
    <2>7. TableFits'
      BY <1>0, <1>c, <2>1, <2>3, UbiAssumption DEF TableFits, SpaceTypes
    <2> QED
      BY <2>5, <2>6, <2>7, Zenon
  <1>6. CASE RemoveAbsent
    BY <1>0, <1>6, SpaceKept, Zenon DEF RemoveAbsent, Busy
  <1>7. CASE RemoveFails
    <2>1. CASE vtbl' = vtbl
      BY <1>0, <1>7, <2>1, SpaceKept, Zenon DEF RemoveFails, Busy
    <2>2. CASE vtbl' = [vtbl EXCEPT ![cur] = 0]
      <3>1. /\ volumes' = volumes /\ avail_pebs' = avail_pebs
            /\ beb_rsvd_pebs' = beb_rsvd_pebs /\ bad' = bad /\ Busy
        BY <1>7, Zenon DEF RemoveFails, space, Busy
      <3>2. Used(vtbl') = Used(vtbl) - vtbl[cur] /\ Used(vtbl) \in Nat
        BY <1>0, <1>c, <2>2, UsedRemoved, Zenon DEF SpaceTypes
      <3>3. SpaceTypes' /\ PebsConserved'
        BY <1>0, <2>2, <3>1, Zenon DEF SpaceTypes, PebsConserved, Used
      <3>4. TableFits'
        BY <1>0, <1>c, <2>2, <3>1, <3>2, UbiAssumption DEF TableFits, SpaceTypes
      <3> QED
        BY <3>3, <3>4, Zenon
    <2> QED
      BY <1>7, <2>1, <2>2, Zenon DEF RemoveFails
  <1>8. CASE ubi_create_vol
    <2>1. Pebs(Size(cur)) \in Nat
      BY <1>0, SizeNat, Zenon
    <2>2. Create(cur, Pebs(Size(cur))) /\ Busy
      BY <1>8, Zenon DEF ubi_create_vol, Busy
    <2> QED
      BY <1>0, <1>c, <2>1, <2>2, CreateKeeps, Zenon
  <1>9. CASE CreateFails
    BY <1>0, <1>9, SpaceKept, Zenon DEF CreateFails, Busy
  <1>10. CASE ubi_volume_write
    BY <1>0, <1>10, SpaceKept, Zenon DEF ubi_volume_write, Busy
  <1>11. CASE WriteFails
    BY <1>0, <1>11, SpaceKept, Zenon DEF WriteFails, Busy
  <1>12. CASE restore_config
    <2>1. Busy /\ "rootfs_data" \in Vol /\ avail_pebs \in Nat
      BY <1>0, <1>12, Zenon DEF restore_config, Busy, Vol, SpaceTypes
    <2>2. CASE Create("rootfs_data", avail_pebs)
      BY <1>0, <2>1, <2>2, CreateKeeps, Zenon
    <2>3. CASE UNCHANGED <<vtbl, space>>
      BY <1>0, <2>1, <2>3, SpaceKept, Zenon
    <2> QED
      BY <1>12, <2>2, <2>3, Zenon DEF restore_config
  <1>13. CASE erase_worker
    <2>1. /\ vtbl' = vtbl /\ volumes' = volumes /\ bad' = bad + 1 /\ Busy
          /\ beb_rsvd_pebs + avail_pebs > 0
      BY <1>13, Zenon DEF erase_worker, Busy
    <2>2. \/ /\ beb_rsvd_pebs > 0 /\ beb_rsvd_pebs' = beb_rsvd_pebs - 1
             /\ avail_pebs' = avail_pebs
          \/ /\ ~(beb_rsvd_pebs > 0) /\ beb_rsvd_pebs' = beb_rsvd_pebs
             /\ avail_pebs' = avail_pebs - 1
      BY <1>13, Zenon DEF erase_worker
    <2>3. SpaceTypes'
      BY <1>0, <2>1, <2>2 DEF SpaceTypes
    <2>4. Used(volumes) \in Nat /\ Used(vtbl) \in Nat /\ Used(vtbl) <= Used(volumes)
      BY <1>0, UsedMonotone, Zenon DEF SpaceTypes, TableFits
    <2>5. Used(volumes') = Used(volumes) /\ Used(vtbl') = Used(vtbl)
      BY <2>1, Zenon
    <2>6. PebsConserved'
      BY <1>0, <2>1, <2>2, <2>4, <2>5, UbiAssumption DEF PebsConserved, SpaceTypes
    <2>7. TableFits'
      BY <1>0, <2>1, <2>2, <2>4, <2>5, UbiAssumption DEF PebsConserved, SpaceTypes, TableFits
    <2> QED
      BY <2>3, <2>6, <2>7, Zenon
  <1>14. CASE PowerLoss
    BY <1>0, <1>14, SpaceKept, Zenon DEF PowerLoss, Busy
  <1> QED
    BY <1>1, <1>2, <1>3, <1>4, <1>5, <1>6, <1>7, <1>8, <1>9, <1>10, <1>11, <1>12,
       <1>13, <1>14, Zenon DEF Next

(* A freshly attached device has its blocks accounted for. *)
LEMMA SpaceInit == Init => SpaceInv
  <1> SUFFICES ASSUME Init PROVE SpaceInv
    BY Zenon
  <1>1. vtbl \in [Vol -> Nat] /\ Used(vtbl) <= Peb /\ volumes = vtbl /\ bad = 0
    BY UbiAssumption, Zenon DEF Init
  <1>2. data \in [Vol -> Nat \cup {Torn}]
    BY Zenon DEF Init
  <1>3. TypeOK
    <2>1. /\ avail_pebs = 0 /\ beb_rsvd_pebs = 0 /\ up = NoImage /\ pc = "off"
          /\ cur = "rootfs_data" /\ ret = 0 /\ upgrades = 0 /\ unmade = FALSE
          /\ backed = FALSE /\ passed = NoImage
      BY Zenon DEF Init
    <2>2. NoImage \in [kernel : Nat, rootfs : Nat, backup : BOOLEAN]
      BY Zenon DEF NoImage
    <2> QED
      BY <1>1, <1>2, <2>1, <2>2, Zenon DEF TypeOK, Vol
  <1>4. Used(vtbl) \in Nat
    BY <1>1, UsedRemoved, Zenon DEF Vol
  <1>5. TableFits
    BY <1>1, <1>4, UbiAssumption DEF TableFits
  <1> QED
    BY <1>3, <1>5, Zenon DEF SpaceInv, PebsConserved, Busy, Init

(* A step that changes nothing keeps every state predicate used here. *)
LEMMA SpaceStutter == SpaceInv /\ UNCHANGED vars => SpaceInv'
  BY Zenon DEF SpaceInv, TypeOK, PebsConserved, TableFits, Busy, Used, vars

(* Every step of the upgrade, and every power loss, conserves the blocks. *)
LEMMA SpaceInvStep == SpaceInv /\ [Next]_vars => SpaceInv'
  <1>1. ASSUME SpaceInv, Next PROVE SpaceInv'
    <2>1. RestTypes'
      BY <1>1, RestStep, Zenon DEF SpaceInv, TypeOK, RestTypes
    <2>2. SpaceTypes' /\ PebsConserved' /\ TableFits'
      BY <1>1, SpaceStep, Zenon
    <2>3. TypeOK'
      BY <2>1, <2>2, Zenon DEF TypeOK, RestTypes, SpaceTypes
    <2> QED
      BY <2>2, <2>3, Zenon DEF SpaceInv
  <1> QED
    BY <1>1, SpaceStutter, Zenon

(* No erase block is lost or counted twice by removals, creations, refills *)
(* of the reserve and blocks going bad, on any device and for any images,  *)
(* with commands failing and power being lost anywhere.                    *)
THEOREM BlocksConserved == Spec => [](TypeOK /\ PebsConserved)
  <1>1. SpaceInv => TypeOK /\ PebsConserved
    BY Zenon DEF SpaceInv
  <1> QED
    BY <1>1, SpaceInit, SpaceInvStep, PTL DEF Spec

(* Neither predicate speaks of the other points of an upgrade. *)
LEMMA FitElsewhere ==
    ASSUME pc' \notin {"remove", "create"} PROVE CheckHolds' /\ ReplacementFits'
  BY Zenon DEF CheckHolds, ReplacementFits

(* A block that goes bad takes as much from the level of the reserve as    *)
(* from the reserve or the free pool: what a removal leaves free, with a   *)
(* blocks free, n in the volume, r in the reserve, b bad and limit l, is   *)
(* the same.                                                               *)
LEMMA WearNeutral ==
    ASSUME NEW a \in Nat, NEW n \in Nat, NEW r \in Nat, NEW b \in Nat, NEW l \in Nat,
           NEW a2 \in Nat, NEW r2 \in Nat, NEW p \in Nat,
           b < l, r + a > 0,
           r > 0 => r2 = r - 1 /\ a2 = a,
           ~(r > 0) => r2 = r /\ a2 = a - 1,
           NEW s, l - b > r => s = l - b - r, ~(l - b > r) => s = 0,
           NEW s2, l - (b + 1) > r2 => s2 = l - (b + 1) - r2,
           ~(l - (b + 1) > r2) => s2 = 0,
           p <= IF s > a + n THEN 0 ELSE a + n - s
    PROVE  p <= IF s2 > a2 + n THEN 0 ELSE a2 + n - s2
  <1>1. CASE r > 0
    <2>1. r2 = r - 1 /\ a2 = a
      BY <1>1, Zenon
    <2>2. l - (b + 1) - r2 = l - b - r /\ (l - (b + 1) > r2 <=> l - b > r)
      BY <2>1
    <2>3. s2 = s
      BY <2>2, Zenon
    <2> QED
      BY <2>1, <2>3, Zenon
  <1>2. CASE ~(r > 0)
    <2>1. r = 0 /\ r2 = 0 /\ a2 = a - 1 /\ s = l - b /\ s2 = l - b - 1
      BY <1>2
    <2> QED
      BY <2>1
  <1> QED
    BY <1>1, <1>2, Zenon

(* Every step keeps the space that a check found until the create uses it. *)
LEMMA FitStep ==
    ASSUME MaxBad <= bad_peb_limit, FitInv, Next
    PROVE  bad' <= MaxBad /\ CheckHolds' /\ ReplacementFits'
  <1>0. SpaceTypes /\ RestTypes /\ TypeOK /\ cur \in Vol /\ bad <= MaxBad
    BY Zenon DEF FitInv, SpaceInv, TypeOK, SpaceTypes, RestTypes
  <1>n. Pebs(Size(cur)) \in Nat
    BY <1>0, SizeNat, Zenon
  <1>1. CASE Attach
    <2>1. pc' = "remove" /\ cur' = "rootfs_data" /\ bad' = bad
      BY <1>1, Zenon DEF Attach
    <2> QED
      BY <1>0, <2>1, Zenon DEF CheckHolds, ReplacementFits
  <1>2. CASE AttachFailed
    BY <1>0, <1>2, FitElsewhere, Zenon DEF AttachFailed, space
  <1>3. CASE CheckPasses
    <2>1. /\ pc' = "remove" /\ cur' = cur /\ up' = up /\ volumes' = volumes
          /\ avail_pebs' = avail_pebs /\ beb_rsvd_pebs' = beb_rsvd_pebs /\ bad' = bad
          /\ ubi_volume_can_replace(cur)
      BY <1>3, Zenon DEF CheckPasses, space
    <2>2. ubi_volume_can_replace(cur)'
      BY <2>1, Zenon DEF ubi_volume_can_replace, Size, Shortfall
    <2> QED
      BY <1>0, <2>1, <2>2, Zenon DEF CheckHolds, ReplacementFits
  <1>4. CASE CheckRefuses
    <2>1. pc' \in {"check", "restore"} /\ bad' = bad
      BY <1>0, <1>4, GiveUpType, Zenon DEF CheckRefuses, space, RestTypes
    <2> QED
      BY <1>0, <2>1, FitElsewhere, Zenon
  <1>5. CASE ubi_remove_vol
    <2>1. /\ pc = "remove" /\ volumes[cur] > 0 /\ Removed /\ bad' = bad /\ up' = up
          /\ avail_pebs' = avail_pebs + volumes[cur]
                           - Least(Shortfall, avail_pebs + volumes[cur])
      BY <1>5, Zenon DEF ubi_remove_vol
    <2>2. CASE cur = "rootfs_data"
      <3>1. pc' \in {"check", "restore"}
        BY <1>0, <2>1, <2>2, NextVolumeType, Zenon DEF Removed
      <3> QED
        BY <1>0, <2>1, <3>1, FitElsewhere, Zenon
    <2>3. CASE cur # "rootfs_data"
      <3>1. pc' = "create" /\ cur' = cur
        BY <2>1, <2>3, Zenon DEF Removed
      <3>2. Shortfall \in Nat /\ avail_pebs \in Nat /\ volumes[cur] \in Nat
        BY <1>0, ShortfallNat, Zenon DEF SpaceTypes
      <3>3. avail_pebs' = IF Shortfall > avail_pebs + volumes[cur] THEN 0
                          ELSE avail_pebs + volumes[cur] - Shortfall
        BY <2>1, <3>2, RefillSound, ZenonT(60)
      <3>4. ubi_volume_can_replace(cur)
        BY <2>1, <2>3, Zenon DEF FitInv, CheckHolds
      <3>5. Pebs(Size(cur)) <= avail_pebs'
        BY <2>1, <3>2, <3>3, <3>4 DEF ubi_volume_can_replace
      <3>6. (Pebs(Size(cur)))' = Pebs(Size(cur))
        BY <2>1, <3>1, Zenon DEF Size, Pebs
      <3> QED
        BY <1>0, <2>1, <3>1, <3>5, <3>6, Zenon DEF CheckHolds, ReplacementFits
    <2> QED
      BY <2>2, <2>3, Zenon
  <1>6. CASE RemoveAbsent
    <2>1. /\ pc = "remove" /\ volumes[cur] = 0 /\ Removed /\ bad' = bad /\ up' = up
          /\ avail_pebs' = avail_pebs
      BY <1>6, Zenon DEF RemoveAbsent, space
    <2>2. CASE cur = "rootfs_data"
      <3>1. pc' \in {"check", "restore"}
        BY <1>0, <2>1, <2>2, NextVolumeType, Zenon DEF Removed
      <3> QED
        BY <1>0, <2>1, <3>1, FitElsewhere, Zenon
    <2>3. CASE cur # "rootfs_data"
      <3>1. pc' = "create" /\ cur' = cur
        BY <2>1, <2>3, Zenon DEF Removed
      <3>2. Pebs(Size(cur)) <= avail_pebs
        BY <2>1, <2>3, Zenon DEF FitInv, CheckHolds, ubi_volume_can_replace
      <3>3. (Pebs(Size(cur)))' = Pebs(Size(cur))
        BY <2>1, <3>1, Zenon DEF Size, Pebs
      <3> QED
        BY <1>0, <2>1, <3>1, <3>2, <3>3, Zenon DEF CheckHolds, ReplacementFits
    <2> QED
      BY <2>2, <2>3, Zenon
  <1>7. CASE RemoveFails
    <2>1. /\ pc = "remove" /\ volumes[cur] > 0 /\ Removed /\ bad' = bad
          /\ volumes' = volumes
      BY <1>7, Zenon DEF RemoveFails, space
    <2>2. CASE cur = "rootfs_data"
      <3>1. pc' \in {"check", "restore"}
        BY <1>0, <2>1, <2>2, NextVolumeType, Zenon DEF Removed
      <3> QED
        BY <1>0, <2>1, <3>1, FitElsewhere, Zenon
    <2>3. CASE cur # "rootfs_data"
      <3>1. pc' = "create" /\ cur' = cur /\ volumes'[cur'] # 0
        BY <1>0, <2>1, <2>3 DEF Removed, SpaceTypes
      <3> QED
        BY <1>0, <2>1, <3>1, Zenon DEF CheckHolds, ReplacementFits
    <2> QED
      BY <2>2, <2>3, Zenon
  <1>8. CASE ubi_create_vol
    BY <1>0, <1>8, FitElsewhere, Zenon DEF ubi_create_vol, Create
  <1>9. CASE CreateFails
    BY <1>0, <1>9, NextVolumeType, FitElsewhere, Zenon DEF CreateFails, space
  <1>10. CASE ubi_volume_write
    BY <1>0, <1>10, NextVolumeType, FitElsewhere, Zenon DEF ubi_volume_write, space
  <1>11. CASE WriteFails
    <2>1. pc' \in {"check", "restore"} /\ bad' = bad
      BY <1>0, <1>11, GiveUpType, Zenon DEF WriteFails, space, RestTypes
    <2> QED
      BY <1>0, <2>1, FitElsewhere, Zenon
  <1>12. CASE restore_config
    BY <1>0, <1>12, FitElsewhere, Zenon DEF restore_config, Create, space
  <1>13. CASE erase_worker
    <2>1. /\ pc' = pc /\ cur' = cur /\ up' = up /\ volumes' = volumes
          /\ pc \in {"remove", "write"} /\ volumes[cur] > 0
          /\ bad < MaxBad /\ bad' = bad + 1 /\ beb_rsvd_pebs + avail_pebs > 0
      BY <1>13, Zenon DEF erase_worker
    <2>2. /\ beb_rsvd_pebs > 0 => /\ beb_rsvd_pebs' = beb_rsvd_pebs - 1
                                  /\ avail_pebs' = avail_pebs
          /\ ~(beb_rsvd_pebs > 0) => /\ beb_rsvd_pebs' = beb_rsvd_pebs
                                     /\ avail_pebs' = avail_pebs - 1
      BY <1>13, Zenon DEF erase_worker
    <2>3. bad' <= MaxBad
      BY <1>0, <2>1, UbiAssumption DEF SpaceTypes
    <2>4. CASE pc = "remove" /\ cur # "rootfs_data"
      <3>1. /\ avail_pebs \in Nat /\ beb_rsvd_pebs \in Nat /\ bad \in Nat
            /\ volumes[cur] \in Nat /\ avail_pebs' \in Nat /\ beb_rsvd_pebs' \in Nat
        BY <1>0, <2>1, <2>2 DEF SpaceTypes
      <3>2. bad < bad_peb_limit /\ bad_peb_limit \in Nat
        BY <2>1, <3>1, UbiAssumption
      <3>3. /\ bad_peb_limit - bad > beb_rsvd_pebs =>
                 Shortfall = bad_peb_limit - bad - beb_rsvd_pebs
            /\ ~(bad_peb_limit - bad > beb_rsvd_pebs) => Shortfall = 0
        BY <3>1, <3>2 DEF Shortfall, beb_rsvd_level
      <3>4. /\ bad_peb_limit - (bad + 1) > beb_rsvd_pebs' =>
                 Shortfall' = bad_peb_limit - (bad + 1) - beb_rsvd_pebs'
            /\ ~(bad_peb_limit - (bad + 1) > beb_rsvd_pebs') => Shortfall' = 0
        <4>1. bad' \in Nat /\ bad_peb_limit >= bad' /\ bad' = bad + 1
          BY <2>1, <3>1, <3>2
        <4>2. beb_rsvd_level(bad') = bad_peb_limit - (bad + 1)
          BY <4>1, Zenon DEF beb_rsvd_level
        <4>3. Shortfall' = IF beb_rsvd_level(bad') - beb_rsvd_pebs' > 0
                           THEN beb_rsvd_level(bad') - beb_rsvd_pebs' ELSE 0
          BY Zenon DEF Shortfall
        <4>4. Shortfall' = IF bad_peb_limit - (bad + 1) - beb_rsvd_pebs' > 0
                           THEN bad_peb_limit - (bad + 1) - beb_rsvd_pebs' ELSE 0
          BY <4>2, <4>3, Zenon
        <4>6. bad_peb_limit \in Nat /\ bad \in Nat /\ beb_rsvd_pebs' \in Nat
          BY <3>1, <3>2, Zenon
        <4>7. PICK s : s = Shortfall'
          BY Zenon
        <4>8. PICK r \in Nat : r = beb_rsvd_pebs'
          BY <4>6, Zenon
        <4>9. s = IF bad_peb_limit - (bad + 1) - r > 0
                  THEN bad_peb_limit - (bad + 1) - r ELSE 0
          BY <4>4, <4>7, <4>8, Zenon
        <4>10. /\ bad_peb_limit - (bad + 1) > r => s = bad_peb_limit - (bad + 1) - r
               /\ ~(bad_peb_limit - (bad + 1) > r) => s = 0
          BY <4>6, <4>9
        <4> QED
          BY <4>7, <4>8, <4>10, Zenon
      <3>5. Shortfall \in Nat /\ Shortfall' \in Nat
        BY <3>1, <3>2, <3>3, <3>4
      <3>6. Pebs(Size(cur)) <= IF Shortfall > avail_pebs + volumes[cur] THEN 0
                               ELSE avail_pebs + volumes[cur] - Shortfall
        BY <2>1, <2>4, <3>1, <3>5 DEF FitInv, CheckHolds, ubi_volume_can_replace
      <3>7. Pebs(Size(cur)) <= IF Shortfall' > avail_pebs' + volumes[cur] THEN 0
                               ELSE avail_pebs' + volumes[cur] - Shortfall'
        BY <1>n, <2>1, <2>2, <3>1, <3>2, <3>3, <3>4, <3>6, WearNeutral
      <3>8. (Pebs(Size(cur)))' = Pebs(Size(cur))
        BY <2>1, Zenon DEF Size, Pebs
      <3>9. ubi_volume_can_replace(cur)'
        BY <2>1, <3>1, <3>5, <3>7, <3>8 DEF ubi_volume_can_replace
      <3> QED
        BY <2>1, <2>3, <2>4, <3>9, Zenon DEF CheckHolds, ReplacementFits
    <2>5. CASE ~(pc = "remove" /\ cur # "rootfs_data")
      BY <2>1, <2>3, <2>5, Zenon DEF CheckHolds, ReplacementFits
    <2> QED
      BY <2>4, <2>5, Zenon
  <1>14. CASE PowerLoss
    BY <1>0, <1>14, FitElsewhere, Zenon DEF PowerLoss, space
  <1> QED
    BY <1>1, <1>2, <1>3, <1>4, <1>5, <1>6, <1>7, <1>8, <1>9, <1>10, <1>11, <1>12,
       <1>13, <1>14, Zenon DEF Next

(* On a device where no more blocks go bad than UBI keeps a reserve for, a *)
(* volume that ubi_volume_can_replace let be removed can be created again: *)
(* what the check computed before the removal is what the removal leaves,  *)
(* even when blocks go bad during it.                                      *)
THEOREM ReplacementSafe ==
    ASSUME MaxBad <= bad_peb_limit PROVE Spec => []ReplacementFits
  <1>1. Init => FitInv
    <2>1. Init => SpaceInv
      BY SpaceInit, Zenon
    <2>2. Init => bad <= MaxBad /\ CheckHolds /\ ReplacementFits
      BY UbiAssumption DEF Init, CheckHolds, ReplacementFits
    <2> QED
      BY <2>1, <2>2, Zenon DEF FitInv
  <1>2. FitInv /\ [Next]_vars => FitInv'
    <2>1. ASSUME FitInv, Next PROVE FitInv'
      BY <2>1, FitStep, SpaceInvStep, Zenon DEF FitInv
    <2>2. ASSUME FitInv, UNCHANGED vars PROVE FitInv'
      <3>1. SpaceInv'
        BY <2>2, SpaceStutter, Zenon DEF FitInv
      <3> QED
        BY <2>2, <3>1, Zenon DEF FitInv, CheckHolds, ReplacementFits, ubi_volume_can_replace,
                          Size, Shortfall, vars
    <2> QED
      BY <2>1, <2>2, Zenon
  <1>3. FitInv => ReplacementFits
    BY Zenon DEF FitInv
  <1> QED
    BY <1>1, <1>2, <1>3, PTL DEF Spec

-----------------------------------------------------------------------------
(* An image has both parts or none, which is what parse_sysupgrade gives   *)
(* out (PartsRight).                                                       *)
BothParts == \A m \in Image : m.kernel > 0 <=> m.rootfs > 0

(* The upgrade is at one of the volumes S. *)
On(S) == pc \in {"check", "remove", "create", "write"} /\ cur \in S

Primary == {"kernel", "rootfs"}
Backup == {"kernel_1", "rootfs_1"}

(* The upgrade of an image with both parts. *)
Parted == Busy => up.kernel > 0 /\ up.rootfs > 0

(* Until the primary is complete the backup is as it was; when the backup  *)
(* is touched, both volumes of the primary are those of this upgrade.      *)
SurviveInv ==
    backed =>
        /\ SystemSurvives
        /\ On({"rootfs_data"} \cup Primary) => Whole("kernel_1", "rootfs_1")
        /\ On({"rootfs"} \cup Backup) => data["kernel"] = upgrades
        /\ On(Backup) => data["rootfs"] = upgrades

(* The order of the volumes of an image with both parts. *)
LEMMA Following ==
    ASSUME cur \in Vol, up.kernel > 0, up.rootfs > 0, NextVolume
    PROVE  \/ cur = "rootfs_data" /\ pc' = "check" /\ cur' = "kernel"
           \/ cur = "kernel" /\ pc' = "check" /\ cur' = "rootfs"
           \/ cur = "rootfs" /\ pc' = "check" /\ cur' = "kernel_1"
           \/ cur = "kernel_1" /\ pc' = "check" /\ cur' = "rootfs_1"
           \/ cur \in {"rootfs"} \cup Backup /\ pc' = "restore" /\ cur' = cur
  <1>t. Turn("rootfs_data") = 0 /\ Turn("kernel") = 1 /\ Turn("rootfs") = 2
        /\ Turn("kernel_1") = 3 /\ Turn("rootfs_1") = 4
    BY Zenon DEF Turn
  <1>p. Parts = {"kernel", "kernel_1", "rootfs", "rootfs_1"}
    BY Zenon DEF Parts
  <1>r. Required("kernel") /\ Required("rootfs") /\ ~Required("kernel_1") /\ ~Required("rootfs_1")
    BY Zenon DEF Required
  <1>c. ASSUME NEW w \in Later(cur), \A x \in Later(cur) : Turn(w) <= Turn(x)
        PROVE  pc' = "check" /\ cur' = w
    <2>1. Later(cur) \subseteq Parts
      BY Zenon DEF Later
    <2>2. \A x \in Later(cur) : (\A y \in Later(cur) : Turn(x) <= Turn(y)) => x = w
      BY <1>c, <1>t, <1>p, <2>1
    <2>3. (CHOOSE x \in Later(cur) : \A y \in Later(cur) : Turn(x) <= Turn(y)) = w
      BY <1>c, <2>2, Zenon
    <2> QED
      BY <1>c, <2>3, Zenon DEF NextVolume
  <1>1. CASE cur = "rootfs_data"
    <2>1. "kernel" \in Later(cur) /\ \A x \in Later(cur) : Turn("kernel") <= Turn(x)
      BY <1>1, <1>t, <1>p, <1>r DEF Later
    <2> QED
      BY <1>1, <1>c, <2>1, Zenon
  <1>2. CASE cur = "kernel"
    <2>1. "rootfs" \in Later(cur) /\ \A x \in Later(cur) : Turn("rootfs") <= Turn(x)
      BY <1>2, <1>t, <1>p, <1>r DEF Later
    <2> QED
      BY <1>2, <1>c, <2>1, Zenon
  <1>3. CASE Later(cur) = {} /\ cur \in {"rootfs"} \cup Backup
    BY <1>3, Zenon DEF NextVolume
  <1>4. CASE Later(cur) # {} /\ cur = "rootfs"
    <2>1. up.backup /\ Later(cur) = Backup
      BY <1>4, <1>t, <1>p, <1>r DEF Later, Backup
    <2>2. "kernel_1" \in Later(cur) /\ \A x \in Later(cur) : Turn("kernel_1") <= Turn(x)
      BY <1>t, <2>1 DEF Backup
    <2> QED
      BY <1>4, <1>c, <2>2, Zenon
  <1>5. CASE Later(cur) # {} /\ cur = "kernel_1"
    <2>1. Later(cur) = {"rootfs_1"}
      BY <1>5, <1>t, <1>p, <1>r DEF Later
    <2>2. "rootfs_1" \in Later(cur) /\ \A x \in Later(cur) : Turn("rootfs_1") <= Turn(x)
      BY <1>t, <2>1
    <2> QED
      BY <1>5, <1>c, <2>2, Zenon
  <1>6. CASE Later(cur) # {} /\ cur = "rootfs_1"
    BY <1>6, <1>t, <1>p, <1>r DEF Later
  <1> QED
    BY <1>1, <1>2, <1>3, <1>4, <1>5, <1>6, Zenon DEF Vol, Backup

(* An upgrade stays one of an image with both parts. *)
LEMMA PartedStep == ASSUME BothParts, TypeOK, Parted, Next PROVE Parted'
  <1>1. CASE Attach
    <2>1. PICK m \in Image : (m.kernel > 0 \/ m.rootfs > 0) /\ up' = m
      BY <1>1, Zenon DEF Attach
    <2> QED
      BY <2>1, Zenon DEF Parted, BothParts
  <1>2. CASE pc' = "done" \/ pc' = "off"
    BY <1>2, Zenon DEF Parted, Busy
  <1>3. CASE up' = up /\ Busy
    BY <1>3, Zenon DEF Parted
  <1>4. AttachFailed \/ restore_config \/ PowerLoss => pc' = "done" \/ pc' = "off"
    BY Zenon DEF AttachFailed, restore_config, PowerLoss
  <1>5. CheckPasses \/ CheckRefuses \/ ubi_remove_vol \/ RemoveAbsent \/ RemoveFails => up' = up /\ Busy
    BY Zenon DEF CheckPasses, CheckRefuses, ubi_remove_vol, RemoveAbsent, RemoveFails, Busy
  <1>6. ubi_create_vol \/ CreateFails \/ ubi_volume_write \/ WriteFails \/ erase_worker => up' = up /\ Busy
    BY Zenon DEF ubi_create_vol, CreateFails, ubi_volume_write, WriteFails, erase_worker, Busy
  <1> QED
    BY <1>1, <1>2, <1>3, <1>4, <1>5, <1>6, Zenon DEF Next

(* A step at a volume that touches nothing but that volume, and stays      *)
(* there, or leaves the configuration's volume for the kernel.             *)
LEMMA SurviveTouch ==
    ASSUME TypeOK, SurviveInv, On(Vol), backed' = backed, upgrades' = upgrades,
           \A v \in Vol \ {cur} : data'[v] = data[v],
           cur' = cur \/ (cur = "rootfs_data" /\ cur' = "kernel")
    PROVE  SurviveInv'
  <1> SUFFICES ASSUME backed PROVE SurviveInv'
    BY Zenon DEF SurviveInv
  <1>1. upgrades # Torn
    BY DEF TypeOK, Torn
  <1>2. CASE cur \in {"rootfs_data"} \cup Primary
    <2>1. Whole("kernel_1", "rootfs_1")
      BY <1>2, Zenon DEF SurviveInv, On
    <2>2. data'["kernel_1"] = data["kernel_1"] /\ data'["rootfs_1"] = data["rootfs_1"]
      BY <1>2, Zenon DEF Vol, Primary
    <2>3. Whole("kernel_1", "rootfs_1")'
      BY <2>1, <2>2, Zenon DEF Whole
    <2>4. On({"rootfs"} \cup Backup)' => data'["kernel"] = upgrades
      BY <1>2, Zenon DEF On, SurviveInv, Vol, Primary, Backup
    <2>5. ~On(Backup)'
      BY <1>2, Zenon DEF On, Primary, Backup
    <2> QED
      BY <2>3, <2>4, <2>5, Zenon DEF SurviveInv, SystemSurvives
  <1>3. CASE cur \in Backup
    <2>1. data["kernel"] = upgrades /\ data["rootfs"] = upgrades
      BY <1>3, Zenon DEF SurviveInv, On
    <2>2. data'["kernel"] = upgrades /\ data'["rootfs"] = upgrades
      BY <1>3, <2>1, Zenon DEF Vol, Backup
    <2>3. Whole("kernel", "rootfs")'
      BY <1>1, <2>2, Zenon DEF Whole, Torn
    <2>4. ~On({"rootfs_data"} \cup Primary)'
      BY <1>3, Zenon DEF On, Primary, Backup
    <2> QED
      BY <2>2, <2>3, <2>4, Zenon DEF SurviveInv, SystemSurvives
  <1> QED
    BY <1>2, <1>3, Zenon DEF On, Vol, Primary, Backup

(* A step that touches no volume and leaves all volumes, or the kernel of  *)
(* the backup for its root file system.                                    *)
LEMMA SurviveLeave ==
    ASSUME TypeOK, SurviveInv, backed' = backed, upgrades' = upgrades \/ pc' \in {"off", "done"},
           \A v \in Vol \ {"rootfs_data"} : data'[v] = data[v],
           \/ pc' \in {"restore", "off", "done"}
           \/ On({"kernel_1"}) /\ cur' = "rootfs_1"
    PROVE  SurviveInv'
  <1> SUFFICES ASSUME backed PROVE SurviveInv'
    BY Zenon DEF SurviveInv
  <1>1. /\ data'["kernel"] = data["kernel"] /\ data'["rootfs"] = data["rootfs"]
        /\ data'["kernel_1"] = data["kernel_1"] /\ data'["rootfs_1"] = data["rootfs_1"]
    BY Zenon DEF Vol
  <1>2. SystemSurvives'
    BY <1>1, Zenon DEF SurviveInv, SystemSurvives, Whole
  <1>3. CASE pc' \in {"restore", "off", "done"}
    BY <1>2, <1>3, Zenon DEF SurviveInv, On
  <1>4. CASE On({"kernel_1"}) /\ cur' = "rootfs_1" /\ upgrades' = upgrades
    BY <1>1, <1>2, <1>4, Zenon DEF SurviveInv, On, Backup, Primary
  <1> QED
    BY <1>3, <1>4, Zenon

(* sysupgrade_write_ubi_volumes at every step. *)
LEMMA SurviveStep ==
    ASSUME BothParts, TypeOK, Parted, SurviveInv, Next PROVE SurviveInv'
  <1>c. cur \in Vol /\ data \in [Vol -> Nat \cup {Torn}] /\ upgrades \in Nat
    BY Zenon DEF TypeOK
  <1>1. CASE Attach
    <2>1. pc' = "remove" /\ cur' = "rootfs_data" /\ data' = data
          /\ backed' = Whole("kernel_1", "rootfs_1")
      BY <1>1, Zenon DEF Attach
    <2>2. backed' => Whole("kernel_1", "rootfs_1")'
      BY <2>1, Zenon DEF Whole
    <2> QED
      BY <2>1, <2>2, Zenon DEF SurviveInv, SystemSurvives, On, Primary, Backup
  <1>2. CASE AttachFailed
    BY <1>2, SurviveLeave, Zenon DEF AttachFailed
  <1>3. CASE CheckPasses
    BY <1>3, <1>c, SurviveTouch, Zenon DEF CheckPasses, On, history
  <1>g. ASSUME pc \in {"check", "write"}, GiveUp, data' = data, UNCHANGED history PROVE SurviveInv'
    <2>1. CASE Required(cur)
      BY <1>g, <2>1, SurviveLeave, Zenon DEF GiveUp, history
    <2>2. CASE ~Required(cur)
      <3>1. NextVolume /\ up.kernel > 0 /\ up.rootfs > 0
        BY <1>g, <2>2, Zenon DEF GiveUp, Parted, Busy
      <3>2. \/ cur = "rootfs_data" /\ cur' = "kernel"
            \/ cur = "kernel_1" /\ cur' = "rootfs_1"
            \/ pc' = "restore"
        BY <1>c, <2>2, <3>1, Following, Zenon DEF Required
      <3> QED
        BY <1>g, <1>c, <3>2, SurviveTouch, SurviveLeave, Zenon DEF On, history
    <2> QED
      BY <2>1, <2>2, Zenon
  <1>4. CASE CheckRefuses
    BY <1>4, <1>g, Zenon DEF CheckRefuses
  <1>r. ASSUME pc = "remove", Removed PROVE cur' = cur \/ (cur = "rootfs_data" /\ cur' = "kernel")
    <2>1. up.kernel > 0 /\ up.rootfs > 0
      BY <1>r, Zenon DEF Parted, Busy
    <2>2. CASE cur = "rootfs_data"
      <3>1. NextVolume
        BY <1>r, <2>2, Zenon DEF Removed
      <3> QED
        BY <1>c, <2>1, <2>2, <3>1, Following, Zenon DEF Backup
    <2>3. CASE cur # "rootfs_data"
      BY <1>r, <2>3, Zenon DEF Removed
    <2> QED
      BY <2>2, <2>3, Zenon
  <1>5. CASE ubi_remove_vol
    <2>1. /\ On(Vol) /\ backed' = backed /\ upgrades' = upgrades
          /\ \A v \in Vol \ {cur} : data'[v] = data[v]
      BY <1>5, <1>c, Zenon DEF ubi_remove_vol, On, history
    <2>2. cur' = cur \/ (cur = "rootfs_data" /\ cur' = "kernel")
      BY <1>5, <1>r, Zenon DEF ubi_remove_vol
    <2> QED
      BY <2>1, <2>2, SurviveTouch, Zenon
  <1>6. CASE RemoveAbsent
    <2>1. /\ On(Vol) /\ backed' = backed /\ upgrades' = upgrades
          /\ \A v \in Vol \ {cur} : data'[v] = data[v]
      BY <1>6, <1>c, Zenon DEF RemoveAbsent, On, history
    <2>2. cur' = cur \/ (cur = "rootfs_data" /\ cur' = "kernel")
      BY <1>6, <1>r, Zenon DEF RemoveAbsent
    <2> QED
      BY <2>1, <2>2, SurviveTouch, Zenon
  <1>7. CASE RemoveFails
    <2>1. On(Vol) /\ backed' = backed /\ upgrades' = upgrades
      BY <1>7, <1>c, Zenon DEF RemoveFails, On, history
    <2>2. \A v \in Vol \ {cur} : data'[v] = data[v]
      BY <1>7, <1>c, Zenon DEF RemoveFails
    <2>3. cur' = cur \/ (cur = "rootfs_data" /\ cur' = "kernel")
      BY <1>7, <1>r, Zenon DEF RemoveFails
    <2> QED
      BY <2>1, <2>2, <2>3, SurviveTouch, Zenon
  <1>8. CASE ubi_create_vol
    <2>1. /\ On(Vol) /\ backed' = backed /\ upgrades' = upgrades /\ cur' = cur
          /\ \A v \in Vol \ {cur} : data'[v] = data[v]
      BY <1>8, <1>c, Zenon DEF ubi_create_vol, Create, On, history
    <2> QED
      BY <2>1, SurviveTouch, Zenon
  <1>9. CASE CreateFails
    BY <1>9, Zenon DEF CreateFails, SurviveInv
  <1>10. CASE ubi_volume_write
    <2>1. /\ pc = "write" /\ NextVolume /\ backed' = backed /\ upgrades' = upgrades
          /\ data' = [data EXCEPT ![cur] = upgrades]
      BY <1>10, Zenon DEF ubi_volume_write, history
    <2>2. up.kernel > 0 /\ up.rootfs > 0 /\ On(Vol)
      BY <1>c, <2>1, Zenon DEF Parted, Busy, On
    <2>3. upgrades # Torn
      BY <1>c DEF Torn
    <2>4. CASE cur = "rootfs_data" /\ cur' = "kernel"
      BY <1>c, <2>1, <2>2, <2>4, SurviveTouch, Zenon
    <2>5. CASE cur = "kernel" /\ cur' = "rootfs"
      <3>1. data'["kernel"] = upgrades' /\ ~On(Backup)'
        BY <1>c, <2>1, <2>5, Zenon DEF Vol, On, Backup
      <3>2. backed => Whole("kernel_1", "rootfs_1")'
        BY <1>c, <2>1, <2>2, <2>5, Zenon DEF SurviveInv, On, Vol, Primary, Whole
      <3> QED
        BY <2>1, <3>1, <3>2, Zenon DEF SurviveInv, SystemSurvives
    <2>6. CASE cur = "rootfs"
      <3>1. backed => data'["kernel"] = upgrades' /\ data'["rootfs"] = upgrades'
        BY <1>c, <2>1, <2>2, <2>6, Zenon DEF SurviveInv, On, Vol
      <3>2. backed => Whole("kernel", "rootfs")'
        BY <2>1, <2>3, <3>1, Zenon DEF Whole, Torn
      <3>3. ~On({"rootfs_data"} \cup Primary)'
        BY <1>c, <2>1, <2>2, <2>6, Following, Zenon DEF On, Primary, Backup
      <3> QED
        BY <2>1, <3>1, <3>2, <3>3, Zenon DEF SurviveInv, SystemSurvives
    <2>7. CASE cur \in Backup
      <3>1. backed => data'["kernel"] = upgrades' /\ data'["rootfs"] = upgrades'
        BY <1>c, <2>1, <2>2, <2>7, Zenon DEF SurviveInv, On, Vol, Backup
      <3>2. backed => Whole("kernel", "rootfs")'
        BY <2>1, <2>3, <3>1, Zenon DEF Whole, Torn
      <3>3. ~On({"rootfs_data"} \cup Primary)'
        BY <1>c, <2>1, <2>2, <2>7, Following, Zenon DEF On, Primary, Backup
      <3> QED
        BY <2>1, <3>1, <3>2, <3>3, Zenon DEF SurviveInv, SystemSurvives
    <2> QED
      BY <1>c, <2>1, <2>2, <2>4, <2>5, <2>6, <2>7, Following, Zenon DEF Vol, Backup
  <1>11. CASE WriteFails
    BY <1>11, <1>g, Zenon DEF WriteFails
  <1>12. CASE restore_config
    <2>1. pc' = "done" /\ backed' = backed
      BY <1>12, Zenon DEF restore_config
    <2>2. \A v \in Vol \ {"rootfs_data"} : data'[v] = data[v]
      BY <1>12, <1>c, Zenon DEF restore_config, Create
    <2> QED
      BY <2>1, <2>2, SurviveLeave, Zenon
  <1>13. CASE erase_worker
    BY <1>13, <1>c, SurviveTouch, Zenon DEF erase_worker, On, history
  <1>14. CASE PowerLoss
    BY <1>14, SurviveLeave, Zenon DEF PowerLoss, history
  <1> QED
    BY <1>1, <1>2, <1>3, <1>4, <1>5, <1>6, <1>7, <1>8, <1>9, <1>10, <1>11, <1>12,
       <1>13, <1>14, Zenon DEF Next

(* If the backup was complete when an upgrade began, one of the two copies *)
(* of the system is complete at every moment of it and after a power loss, *)
(* for every device and all images with both parts, whatever fails but a   *)
(* creation: sysupgrade_write_ubi_volumes.                                 *)
THEOREM SystemSafe == ASSUME BothParts PROVE Spec => []SystemSurvives
  <1> DEFINE Inv == SpaceInv /\ Parted /\ SurviveInv
  <1>1. Init => Inv
    <2>1. Init => Parted /\ SurviveInv
      BY Zenon DEF Init, Parted, Busy, SurviveInv
    <2> QED
      BY <2>1, SpaceInit, Zenon
  <1>2. Inv /\ [Next]_vars => Inv'
    <2>1. ASSUME Inv, Next PROVE Inv'
      BY <2>1, SpaceInvStep, PartedStep, SurviveStep, Zenon DEF SpaceInv
    <2>2. ASSUME Inv, UNCHANGED vars PROVE Inv'
      BY <2>2, SpaceStutter, Zenon DEF vars, Parted, Busy, SurviveInv, SystemSurvives, Whole, On
    <2> QED
      BY <2>1, <2>2, Zenon
  <1>3. Inv => SystemSurvives
    BY Zenon DEF SurviveInv, SystemSurvives
  <1> QED
    BY <1>1, <1>2, <1>3, PTL DEF Spec

-----------------------------------------------------------------------------
(* The reserve is never more than it should be; it is filled before        *)
(* anything is free.                                                       *)
Reserved ==
    /\ beb_rsvd_pebs <= beb_rsvd_level(bad)
    /\ avail_pebs > 0 => beb_rsvd_pebs = beb_rsvd_level(bad)

(* The kernel of this upgrade has its volume, and the reserve is full.     *)
KernelMade ==
    volumes["kernel"] = Pebs(up.kernel) /\ beb_rsvd_pebs = beb_rsvd_level(bad)

(* Its root file system has its volume. *)
RootMade == volumes["rootfs"] = Pebs(up.rootfs)

(* Beside the backup and the full reserve there is room for the kernel of  *)
(* the image that passed, with its root file system and with what is in    *)
(* the place of that now.                                                  *)
Room ==
    \A n \in {volumes["rootfs"], Pebs(passed.rootfs)} :
        Pebs(passed.kernel) + n + volumes["kernel_1"] + volumes["rootfs_1"] + bad_peb_limit <= Peb

(* Why a retry is accepted.  The upgrades are numbered, so that the kernel *)
(* in place is known to be that of this upgrade; after it has passed, the  *)
(* backup takes only what is left.                                         *)
RetryInv ==
    /\ bad <= MaxBad
    /\ \A v \in Vol : data[v] <= upgrades
    /\ Busy => Reserved
    /\ On({"rootfs_data", "kernel"}) => data["kernel"] # upgrades
    /\ On({"kernel"}) /\ pc = "write" => KernelMade
    /\ On({"rootfs"}) /\ data["kernel"] = upgrades => KernelMade
    /\ passed # NoImage =>
          /\ Room
          /\ On({"rootfs"} \cup Backup) => data["kernel"] = upgrades /\ KernelMade
          /\ On({"rootfs"}) /\ pc # "check" => passed = up
          /\ On({"rootfs"}) /\ pc = "write" => RootMade
          /\ On(Backup) => passed = up /\ RootMade

(* A part that is not empty needs a block. *)
LEMMA PebsPositive == ASSUME NEW n \in Nat, n > 0 PROVE Pebs(n) >= 1
  <1>1. leb_size \in Nat /\ leb_size > 0
    BY UbiAssumption
  <1>2. ASSUME NEW a \in Nat, NEW b \in Nat, b > 0, a >= b PROVE a \div b >= 1
    BY <1>2, SMTT(30)
  <1>3. n + leb_size - 1 \in Nat /\ n + leb_size - 1 >= leb_size
    BY <1>1
  <1> QED
    BY <1>1, <1>2, <1>3, Zenon DEF Pebs

(* While no more blocks are bad than the limit, the reserve and the bad    *)
(* ones together should be the limit.                                      *)
LEMMA LevelIs ==
    ASSUME NEW b \in Nat, b <= bad_peb_limit
    PROVE  beb_rsvd_level(b) = bad_peb_limit - b /\ beb_rsvd_level(b) \in Nat
  BY UbiAssumption DEF beb_rsvd_level

(* What the reserve lacks, when it is not too large. *)
LEMMA Lacking ==
    ASSUME TypeOK, beb_rsvd_pebs <= beb_rsvd_level(bad), bad <= bad_peb_limit
    PROVE  Shortfall = beb_rsvd_level(bad) - beb_rsvd_pebs
  BY LevelIs DEF TypeOK, Shortfall

(* ubi_volume_can_replace accepts the image again. *)
LEMMA RetryRight ==
    ASSUME MaxBad <= bad_peb_limit, SpaceInv, Parted, RetryInv PROVE RetryAccepted
  <1> SUFFICES ASSUME pc = "check", Required(cur), up = passed, volumes["rootfs_data"] = 0
               PROVE  ubi_volume_can_replace(cur)
    BY Zenon DEF RetryAccepted
  <1> DEFINE vk == volumes["kernel"]
             vr == volumes["rootfs"]
             rest == volumes["kernel_1"] + volumes["rootfs_1"]
             k == Pebs(up.kernel)
             r == Pebs(up.rootfs)
             level == beb_rsvd_level(bad)
  <1>1. TypeOK /\ Busy /\ passed # NoImage
    BY DEF SpaceInv, Busy, Parted, NoImage
  <1>2. Reserved /\ Room /\ bad <= bad_peb_limit
    BY <1>1, UbiAssumption DEF RetryInv, SpaceInv, TypeOK
  <1>3. /\ vk \in Nat /\ vr \in Nat /\ rest \in Nat /\ k \in Nat /\ r \in Nat /\ level \in Nat
        /\ avail_pebs \in Nat /\ beb_rsvd_pebs \in Nat /\ bad \in Nat /\ Peb \in Nat
        /\ level = bad_peb_limit - bad /\ bad_peb_limit \in Nat
    BY <1>1, <1>2, PebsNat, LevelIs, UbiAssumption DEF TypeOK, Vol
  <1>4. vk + vr + rest + avail_pebs + beb_rsvd_pebs = Peb - bad
    BY <1>1, <1>3 DEF SpaceInv, PebsConserved, Used, TypeOK, Vol
  <1>5. k + vr + rest + bad_peb_limit <= Peb /\ k + r + rest + bad_peb_limit <= Peb
    <2>1. \A n \in {vr, r} : k + n + volumes["kernel_1"] + volumes["rootfs_1"] + bad_peb_limit <= Peb
      BY <1>2, Zenon DEF Room
    <2>2. volumes["kernel_1"] \in Nat /\ volumes["rootfs_1"] \in Nat
      BY <1>1, Zenon DEF TypeOK, Vol
    <2> HIDE DEF vr, k, r
    <2> QED
      BY <1>3, <2>1, <2>2
  <1>6. Shortfall = level - beb_rsvd_pebs /\ beb_rsvd_pebs <= level
    BY <1>1, <1>2, Lacking, Zenon DEF Reserved
  <1>7. CASE cur = "kernel"
    <2>1. Pebs(Size(cur)) = k
      BY <1>7, Zenon DEF Size
    <2>2. k <= avail_pebs + vk - (level - beb_rsvd_pebs)
      <3> HIDE DEF vk, vr, rest, k, r, level
      <3> QED
        BY <1>3, <1>4, <1>5, <1>6
    <2> QED
      BY <1>3, <1>6, <1>7, <2>1, <2>2 DEF ubi_volume_can_replace
  <1>8. CASE cur = "rootfs"
    <2>1. Pebs(Size(cur)) = r
      BY <1>8, Zenon DEF Size
    <2>2. KernelMade
      BY <1>1, <1>8, Zenon DEF RetryInv, On
    <2>3. r <= avail_pebs + vr - (level - beb_rsvd_pebs)
      <3>1. vk = k
        BY <2>2, Zenon DEF KernelMade
      <3> HIDE DEF vk, vr, rest, k, r, level
      <3> QED
        BY <1>3, <1>4, <1>5, <1>6, <3>1
    <2> QED
      BY <1>3, <1>6, <1>8, <2>1, <2>3 DEF ubi_volume_can_replace
  <1> QED
    BY <1>7, <1>8, Zenon DEF Required

(* The reserve through every step. *)
LEMMA ReservedStep ==
    ASSUME MaxBad <= bad_peb_limit, SpaceInv, bad <= MaxBad, Busy => Reserved, Next
    PROVE  /\ bad' <= MaxBad /\ (Busy' => Reserved')
           /\ Busy /\ beb_rsvd_pebs = beb_rsvd_level(bad) => beb_rsvd_pebs' = beb_rsvd_level(bad')
  <1>0. TypeOK /\ bad <= bad_peb_limit /\ cur \in Vol
    BY UbiAssumption DEF SpaceInv, TypeOK
  <1>1. CASE Attach
    <2> DEFINE free == Peb - bad - Used(vtbl)
               rsvd == Least(beb_rsvd_level(bad), free)
    <2>1. beb_rsvd_pebs' = rsvd /\ avail_pebs' = free - rsvd /\ bad' = bad /\ ~Busy
      BY <1>1, Zenon DEF Attach, Busy
    <2>2. free \in Nat /\ beb_rsvd_level(bad) \in Nat
      <3>1. Used(vtbl) \in Nat /\ Used(vtbl) + bad <= Peb
        BY <1>0, UsedRemoved, Zenon DEF SpaceInv, TableFits, TypeOK, Vol
      <3> QED
        BY <1>0, <3>1, LevelIs, UbiAssumption DEF TypeOK
    <2>3. rsvd <= beb_rsvd_level(bad) /\ (free - rsvd > 0 => rsvd = beb_rsvd_level(bad))
      <3> HIDE DEF free
      <3> QED
        BY <2>2 DEF Least
    <2> QED
      BY <1>0, <2>1, <2>3, Zenon DEF Reserved
  <1>2. CASE UNCHANGED space /\ (Busy' => Busy)
    BY <1>0, <1>2, Zenon DEF space, Reserved
  <1>3. CASE ubi_remove_vol
    <2> DEFINE level == beb_rsvd_level(bad)
               i == Least(Shortfall, avail_pebs + volumes[cur])
    <2>1. /\ avail_pebs' = avail_pebs + volumes[cur] - i
          /\ beb_rsvd_pebs' = beb_rsvd_pebs + i /\ bad' = bad /\ Busy
      BY <1>3, Zenon DEF ubi_remove_vol, Busy
    <2>2. Shortfall = level - beb_rsvd_pebs /\ beb_rsvd_pebs <= level
      BY <1>0, <2>1, Lacking, Zenon DEF Reserved
    <2>3. avail_pebs \in Nat /\ volumes[cur] \in Nat /\ beb_rsvd_pebs \in Nat /\ level \in Nat
      BY <1>0, LevelIs, Zenon DEF TypeOK
    <2>4. /\ beb_rsvd_pebs + i <= level
          /\ avail_pebs + volumes[cur] - i > 0 => beb_rsvd_pebs + i = level
          /\ beb_rsvd_pebs = level => i = 0
      <3> HIDE DEF level
      <3> QED
        BY <2>2, <2>3 DEF Least
    <2> HIDE DEF i
    <2> QED
      BY <1>0, <2>1, <2>3, <2>4 DEF Reserved
  <1>4. ASSUME NEW v \in Vol, NEW n \in Nat, Create(v, n), Busy
        PROVE  Reserved' /\ bad' = bad /\ beb_rsvd_pebs' = beb_rsvd_pebs
    BY <1>0, <1>4 DEF Create, Reserved, TypeOK
  <1>5. CASE ubi_create_vol
    <2>1. Create(cur, Pebs(Size(cur))) /\ Busy /\ Pebs(Size(cur)) \in Nat
      BY <1>0, <1>5, SizeNat, Zenon DEF ubi_create_vol, Busy
    <2> QED
      BY <1>0, <1>4, <2>1, Zenon
  <1>6. CASE restore_config
    <2>1. CASE Create("rootfs_data", avail_pebs)
      <3>1. "rootfs_data" \in Vol /\ avail_pebs \in Nat /\ Busy
        BY <1>0, <1>6, Zenon DEF restore_config, Busy, Vol, TypeOK
      <3> QED
        BY <1>0, <1>4, <2>1, <3>1, Zenon
    <2>2. CASE UNCHANGED space
      BY <1>2, <1>6, <2>2, Zenon DEF restore_config, Busy
    <2> QED
      BY <1>6, <2>1, <2>2, Zenon DEF restore_config
  <1>7. CASE erase_worker
    <2>1. /\ bad' = bad + 1 /\ bad < MaxBad /\ Busy
          /\ IF beb_rsvd_pebs > 0
             THEN beb_rsvd_pebs' = beb_rsvd_pebs - 1 /\ avail_pebs' = avail_pebs
             ELSE avail_pebs' = avail_pebs - 1 /\ beb_rsvd_pebs' = beb_rsvd_pebs
          /\ beb_rsvd_pebs + avail_pebs > 0
      BY <1>7, Zenon DEF erase_worker, Busy
    <2>2. /\ bad \in Nat /\ bad + 1 <= bad_peb_limit /\ bad_peb_limit \in Nat /\ MaxBad \in Nat
          /\ avail_pebs \in Nat /\ beb_rsvd_pebs \in Nat
      BY <1>0, <2>1, UbiAssumption DEF TypeOK
    <2>3. beb_rsvd_level(bad) = bad_peb_limit - bad /\ beb_rsvd_level(bad + 1) = bad_peb_limit - (bad + 1)
      BY <2>2, LevelIs
    <2> QED
      BY <2>1, <2>2, <2>3 DEF Reserved
  <1>8. AttachFailed \/ PowerLoss => UNCHANGED space /\ ~Busy'
    BY Zenon DEF AttachFailed, PowerLoss, Busy
  <1>9. CheckPasses \/ CheckRefuses \/ RemoveAbsent \/ RemoveFails => UNCHANGED space /\ Busy
    BY Zenon DEF CheckPasses, CheckRefuses, RemoveAbsent, RemoveFails, Busy
  <1>10. CreateFails \/ ubi_volume_write \/ WriteFails => UNCHANGED space /\ Busy
    BY Zenon DEF CreateFails, ubi_volume_write, WriteFails, Busy
  <1> QED
    BY <1>1, <1>2, <1>3, <1>5, <1>6, <1>7, <1>8, <1>9, <1>10, Zenon DEF Next

(* The backup volumes and the root file system's give back blocks, or the  *)
(* latter is made for the image that passed.                               *)
LEMMA RoomKept ==
    ASSUME TypeOK, Room, passed' = passed, volumes' \in [Vol -> Nat],
           volumes'["kernel_1"] <= volumes["kernel_1"], volumes'["rootfs_1"] <= volumes["rootfs_1"],
           volumes'["rootfs"] <= volumes["rootfs"] \/ volumes'["rootfs"] = Pebs(passed.rootfs)
    PROVE  Room'
  <1> DEFINE v == volumes["rootfs"]
             w == volumes'["rootfs"]
             a == volumes["kernel_1"]
             b == volumes["rootfs_1"]
             c == volumes'["kernel_1"]
             d == volumes'["rootfs_1"]
             k == Pebs(passed.kernel)
             r == Pebs(passed.rootfs)
  <1>1. k \in Nat /\ r \in Nat /\ v \in Nat /\ w \in Nat /\ a \in Nat /\ b \in Nat /\ c \in Nat /\ d \in Nat
        /\ Peb \in Nat /\ bad_peb_limit \in Nat
    BY PebsNat, UbiAssumption, Zenon DEF TypeOK, Vol
  <1>2. k + v + a + b + bad_peb_limit <= Peb /\ k + r + a + b + bad_peb_limit <= Peb
    BY Zenon DEF Room
  <1>3. c <= a /\ d <= b /\ (w <= v \/ w = r)
    BY Zenon
  <1>4. k' = k /\ r' = r
    BY Zenon DEF Pebs
  <1>5. k + w + c + d + bad_peb_limit <= Peb /\ k + r + c + d + bad_peb_limit <= Peb
    <2> HIDE DEF v, w, a, b, c, d, k, r
    <2> QED
      BY <1>1, <1>2, <1>3
  <1> QED
    BY <1>4, <1>5, Zenon DEF Room

(* RetryInv where no volume is being replaced. *)
LEMMA RetryElsewhere ==
    ASSUME bad' <= MaxBad, Busy' => Reserved', \A v \in Vol : data'[v] <= upgrades',
           passed' # NoImage => Room', pc' \in {"restore", "off", "done"}
    PROVE  RetryInv'
  BY Zenon DEF RetryInv, On

(* A removal, tried or done, a bad block and a refusal: the volume in turn *)
(* may be gone, nothing else.                                              *)
LEMMA RetryStay ==
    ASSUME TypeOK, RetryInv, On(Vol), On(Vol)', bad' <= MaxBad, Reserved', volumes' \in [Vol -> Nat],
           beb_rsvd_pebs = beb_rsvd_level(bad) => beb_rsvd_pebs' = beb_rsvd_level(bad'),
           up' = up, upgrades' = upgrades, passed' = passed,
           \A v \in Vol \ {cur} : data'[v] = data[v] /\ volumes'[v] = volumes[v],
           data'[cur] \in {data[cur], Torn}, volumes'[cur] <= volumes[cur],
           \/ cur' = cur /\ pc \in {"remove", "create"} /\ pc' # "write"
           \/ cur' = cur /\ pc' = pc /\ volumes' = volumes
           \/ cur = "rootfs_data" /\ cur' = "kernel" /\ pc' = "check"
           \/ cur = "kernel_1" /\ cur' = "rootfs_1" /\ data' = data /\ volumes' = volumes
    PROVE  RetryInv'
  <1>0. /\ cur \in Vol /\ upgrades \in Nat /\ volumes \in [Vol -> Nat] /\ upgrades # Torn
        /\ data \in [Vol -> Nat \cup {Torn}]
    BY DEF TypeOK, Torn
  <1>1. \A v \in Vol : data'[v] <= upgrades
    BY <1>0 DEF RetryInv, Torn
  <1>2. passed # NoImage => Room'
    <2>1. \A v \in Vol : volumes'[v] <= volumes[v]
      BY <1>0
    <2> QED
      BY <2>1, RoomKept, Zenon DEF RetryInv, Vol
  <1>3. KernelMade /\ cur # "kernel" => KernelMade'
    BY Zenon DEF KernelMade, Vol, Pebs
  <1>4. RootMade /\ cur # "rootfs" => RootMade'
    BY Zenon DEF RootMade, Vol, Pebs
  <1>5. CASE cur = "rootfs_data"
    BY <1>0, <1>1, <1>2, <1>5, Zenon DEF RetryInv, On, Vol, Backup
  <1>6. CASE cur = "kernel"
    <2>1. data'["kernel"] # upgrades
      BY <1>0, <1>6, Zenon DEF RetryInv, On
    <2>2. pc' = "write" => KernelMade'
      BY <1>6, Zenon DEF RetryInv, On, KernelMade, Pebs
    <2> QED
      BY <1>1, <1>2, <1>6, <2>1, <2>2, Zenon DEF RetryInv, On, Backup
  <1>7. CASE cur = "rootfs"
    <2>1. data'["kernel"] = data["kernel"]
      BY <1>7, Zenon DEF Vol
    <2>2. pc' = "write" /\ RootMade => RootMade'
      BY <1>7, Zenon DEF RootMade, Pebs
    <2>3. data'["kernel"] = upgrades => KernelMade'
      BY <1>3, <1>7, <2>1, Zenon DEF RetryInv, On
    <2>4. ASSUME passed # NoImage
          PROVE  /\ data'["kernel"] = upgrades' /\ KernelMade'
                 /\ pc' # "check" => passed' = up'
                 /\ pc' = "write" => RootMade'
      <3>1. data["kernel"] = upgrades
        BY <1>7, <2>4, Zenon DEF RetryInv, On
      <3>2. pc' # "check" => pc # "check"
        BY <1>7, Zenon
      <3>3. pc' = "write" => pc = "write"
        BY <1>7, Zenon
      <3> QED
        BY <1>7, <2>1, <2>2, <2>3, <2>4, <3>1, <3>2, <3>3, Zenon DEF RetryInv, On
    <2> QED
      BY <1>1, <1>2, <1>7, <2>3, <2>4, Zenon DEF RetryInv, On, Backup
  <1>8. CASE cur \in Backup
    <2>1. cur' \in Backup /\ data'["kernel"] = data["kernel"]
      BY <1>8, Zenon DEF Vol, Backup
    <2>2. ASSUME passed # NoImage
          PROVE  data'["kernel"] = upgrades' /\ KernelMade' /\ passed' = up' /\ RootMade'
      BY <1>3, <1>4, <1>8, <2>1, <2>2, Zenon DEF RetryInv, On, Backup
    <2> QED
      BY <1>1, <1>2, <1>8, <2>1, <2>2, Zenon DEF RetryInv, On, Backup
  <1> QED
    BY <1>0, <1>5, <1>6, <1>7, <1>8, Zenon DEF Vol, Backup

(* The image passes: there is room for it.                                 *)
LEMMA PassStep ==
    ASSUME MaxBad <= bad_peb_limit, SpaceInv, RetryInv, CheckPasses PROVE RetryInv'
  <1>0. TypeOK /\ cur \in Vol /\ pc = "check" /\ pc' = "remove" /\ Busy
    BY Zenon DEF SpaceInv, TypeOK, CheckPasses, Busy
  <1>1. /\ volumes' = volumes /\ avail_pebs' = avail_pebs /\ beb_rsvd_pebs' = beb_rsvd_pebs /\ bad' = bad
        /\ data' = data /\ up' = up /\ cur' = cur /\ upgrades' = upgrades
    BY Zenon DEF CheckPasses, space, history
  <1>2. Reserved' /\ (KernelMade => KernelMade') /\ (RootMade => RootMade')
    BY <1>0, <1>1, Zenon DEF RetryInv, Reserved, KernelMade, RootMade, Pebs
  <1>3. \A v \in Vol : data'[v] <= upgrades'
    BY <1>1, Zenon DEF RetryInv
  <1>4. CASE cur = "rootfs" /\ data["kernel"] = upgrades
    <2> DEFINE vk == volumes["kernel"]
               vr == volumes["rootfs"]
               a == volumes["kernel_1"]
               b == volumes["rootfs_1"]
               d == volumes["rootfs_data"]
               k == Pebs(up.kernel)
               r == Pebs(up.rootfs)
    <2>1. passed' = up /\ KernelMade /\ bad <= bad_peb_limit
      BY <1>0, <1>4, UbiAssumption DEF CheckPasses, RetryInv, On, TypeOK
    <2>2. vk \in Nat /\ vr \in Nat /\ a \in Nat /\ b \in Nat /\ d \in Nat /\ k \in Nat /\ r \in Nat
      BY <1>0, PebsNat, Zenon DEF TypeOK, Vol
    <2>3. avail_pebs \in Nat /\ bad \in Nat /\ Peb \in Nat /\ bad_peb_limit \in Nat
      BY <1>0, UbiAssumption, Zenon DEF TypeOK
    <2>4. vk = k /\ beb_rsvd_pebs = bad_peb_limit - bad
      BY <2>1, <2>3, LevelIs, Zenon DEF KernelMade
    <2>5. vk + vr + a + b + d + avail_pebs + beb_rsvd_pebs = Peb - bad
      BY <1>0, Zenon DEF SpaceInv, PebsConserved, Used
    <2>6. r <= avail_pebs + vr
      <3>1. Shortfall = 0
        BY <1>0, <2>1, <2>3, LevelIs DEF KernelMade, Shortfall
      <3>2. Pebs(Size(cur)) = r
        BY <1>4, Zenon DEF Size
      <3> QED
        BY <1>4, <2>2, <2>3, <3>1, <3>2 DEF CheckPasses, ubi_volume_can_replace
    <2>7. /\ k + vr + a + b + bad_peb_limit <= Peb
          /\ k + r + a + b + bad_peb_limit <= Peb
      <3> HIDE DEF vk, vr, a, b, d, k, r
      <3> QED
        BY <2>2, <2>3, <2>4, <2>5, <2>6
    <2>8. Room'
      <3>1. Pebs(passed.kernel)' = k /\ Pebs(passed.rootfs)' = r
        BY <2>1, Zenon DEF Pebs
      <3> QED
        BY <1>1, <2>7, <3>1, Zenon DEF Room
    <2> QED
      BY <1>0, <1>1, <1>2, <1>3, <1>4, <2>1, <2>8, Zenon DEF RetryInv, On, Backup
  <1>5. CASE ~(cur = "rootfs" /\ data["kernel"] = upgrades)
    <2>1. passed' = passed
      BY <1>5, Zenon DEF CheckPasses
    <2>2. passed # NoImage => Room'
      BY <1>1, <2>1, Zenon DEF RetryInv, Room, Pebs
    <2>3. passed # NoImage => cur # "rootfs"
      BY <1>0, <1>5, Zenon DEF RetryInv, On
    <2> QED
      BY <1>0, <1>1, <1>2, <1>3, <2>1, <2>2, <2>3, Zenon DEF RetryInv, On, Backup
  <1> QED
    BY <1>4, <1>5, Zenon

-----------------------------------------------------------------------------
(* A volume is created: the reserve was full, since there was something    *)
(* left; what the backup takes leaves room for the image that passed.      *)
LEMMA MadeStep ==
    ASSUME MaxBad <= bad_peb_limit, SpaceInv, SpaceInv', Parted, RetryInv,
           bad' <= MaxBad, Reserved', ubi_create_vol
    PROVE  RetryInv'
  <1>0. TypeOK /\ TypeOK' /\ cur \in Vol /\ pc = "create" /\ pc' = "write" /\ Busy /\ Busy'
    BY Zenon DEF SpaceInv, TypeOK, ubi_create_vol, Busy
  <1> DEFINE n == Pebs(Size(cur))
  <1>1. /\ n <= avail_pebs /\ volumes' = [volumes EXCEPT ![cur] = n]
        /\ beb_rsvd_pebs' = beb_rsvd_pebs /\ bad' = bad
        /\ data' = [data EXCEPT ![cur] = Torn]
        /\ up' = up /\ cur' = cur /\ upgrades' = upgrades /\ passed' = passed
    BY Zenon DEF ubi_create_vol, Create, history
  <1>2. /\ volumes \in [Vol -> Nat] /\ data \in [Vol -> Nat \cup {Torn}] /\ upgrades \in Nat
        /\ upgrades # Torn /\ n \in Nat
    BY <1>0, SizeNat DEF TypeOK, Torn
  <1>3. \A v \in Vol : data'[v] <= upgrades'
    BY <1>1, <1>2 DEF RetryInv, Torn
  <1>4. KernelMade /\ cur # "kernel" => KernelMade'
    BY <1>1, <1>2, Zenon DEF KernelMade, Vol, Pebs
  <1>5. RootMade /\ cur # "rootfs" => RootMade'
    BY <1>1, <1>2, Zenon DEF RootMade, Vol, Pebs
  <1>6. CASE cur = "rootfs_data"
    <2>1. passed # NoImage => Room'
      <3>1. \A v \in Vol \ {"rootfs_data"} : volumes'[v] = volumes[v]
        BY <1>1, <1>2, <1>6, Zenon
      <3> QED
        BY <1>0, <1>1, <1>2, <3>1, RoomKept DEF RetryInv, Vol, TypeOK
    <2>2. data'["kernel"] # upgrades
      BY <1>0, <1>1, <1>2, <1>6, Zenon DEF RetryInv, On, Vol
    <2> QED
      BY <1>0, <1>1, <1>3, <1>6, <2>1, <2>2, Zenon DEF RetryInv, On, Backup
  <1>7. CASE cur = "kernel"
    <2>1. passed # NoImage => Room'
      <3>1. \A v \in Vol \ {"kernel"} : volumes'[v] = volumes[v]
        BY <1>1, <1>2, <1>7, Zenon
      <3> QED
        BY <1>0, <1>1, <1>2, <3>1, RoomKept DEF RetryInv, Vol, TypeOK
    <2>2. data'["kernel"] # upgrades
      BY <1>1, <1>2, <1>7, Zenon DEF Vol
    <2>3. KernelMade'
      <3>1. n = Pebs(up.kernel) /\ n >= 1
        BY <1>0, <1>7, PebsPositive, Zenon DEF Size, Parted, TypeOK
      <3>2. beb_rsvd_pebs = beb_rsvd_level(bad)
        BY <1>0, <1>1, <1>2, <3>1 DEF RetryInv, Reserved, TypeOK
      <3> QED
        BY <1>0, <1>1, <1>2, <1>7, <3>1, <3>2, Zenon DEF KernelMade, Pebs
    <2> QED
      BY <1>0, <1>1, <1>3, <1>7, <2>1, <2>2, <2>3, Zenon DEF RetryInv, On, Backup
  <1>8. CASE cur = "rootfs"
    <2>1. data'["kernel"] = data["kernel"] /\ RootMade'
      BY <1>1, <1>2, <1>8, Zenon DEF RootMade, Vol, Size, Pebs
    <2>2. passed # NoImage => passed = up /\ data["kernel"] = upgrades /\ KernelMade'
      BY <1>0, <1>4, <1>8, Zenon DEF RetryInv, On
    <2>3. passed # NoImage => Room'
      <3>1. ASSUME passed # NoImage PROVE volumes'["rootfs"] = Pebs(passed.rootfs)
        BY <1>0, <1>1, <1>2, <1>8, <2>2, <3>1, Zenon DEF Size
      <3>2. \A v \in Vol \ {"rootfs"} : volumes'[v] = volumes[v]
        BY <1>1, <1>2, <1>8, Zenon
      <3> QED
        BY <1>0, <1>1, <1>2, <3>1, <3>2, RoomKept DEF RetryInv, Vol, TypeOK
    <2>4. data'["kernel"] = upgrades' => KernelMade'
      BY <1>0, <1>1, <1>4, <1>8, <2>1, Zenon DEF RetryInv, On
    <2> QED
      BY <1>0, <1>1, <1>3, <1>8, <2>1, <2>2, <2>3, <2>4, Zenon DEF RetryInv, On, Backup
  <1>9. CASE cur \in Backup
    <2>1. data'["kernel"] = data["kernel"]
      BY <1>1, <1>2, <1>9, Zenon DEF Vol, Backup
    <2>2. passed # NoImage => passed = up /\ data["kernel"] = upgrades /\ KernelMade' /\ RootMade'
      BY <1>0, <1>4, <1>5, <1>9, Zenon DEF RetryInv, On, Backup
    <2>3. ASSUME passed # NoImage PROVE Room'
      <3> DEFINE k == Pebs(up.kernel)
                 r == Pebs(up.rootfs)
                 a == volumes'["kernel_1"]
                 b == volumes'["rootfs_1"]
                 d == volumes'["rootfs_data"]
      <3>1. Used(volumes') + avail_pebs' + beb_rsvd_pebs' = Peb - bad'
        BY <1>0, Zenon DEF SpaceInv, PebsConserved
      <3>2. volumes'["kernel"] = k /\ volumes'["rootfs"] = r /\ beb_rsvd_pebs' = beb_rsvd_level(bad')
        BY <1>1, <2>2, <2>3, Zenon DEF KernelMade, RootMade, Pebs
      <3>3. k + r + a + b + d + avail_pebs' + beb_rsvd_pebs' = Peb - bad'
        BY <3>1, <3>2, Zenon DEF Used
      <3>4. /\ k \in Nat /\ r \in Nat /\ a \in Nat /\ b \in Nat /\ d \in Nat /\ avail_pebs' \in Nat
            /\ bad' \in Nat /\ Peb \in Nat /\ bad_peb_limit \in Nat
        BY <1>0, PebsNat, UbiAssumption, Zenon DEF TypeOK, Vol
      <3>5. beb_rsvd_pebs' = bad_peb_limit - bad'
        BY <3>2, <3>4, LevelIs, UbiAssumption
      <3>6. k + r + a + b + bad_peb_limit <= Peb
        <4> HIDE DEF k, r, a, b, d
        <4> QED
          BY <3>3, <3>4, <3>5
      <3>7. Pebs(passed.kernel)' = k /\ Pebs(passed.rootfs)' = r
        BY <1>1, <2>2, <2>3, Zenon DEF Pebs
      <3> QED
        BY <3>2, <3>6, <3>7, Zenon DEF Room
    <2> QED
      BY <1>0, <1>1, <1>3, <1>9, <2>1, <2>2, <2>3, Zenon DEF RetryInv, On, Backup
  <1> QED
    BY <1>0, <1>6, <1>7, <1>8, <1>9, Zenon DEF Vol, Backup

(* A step to the next volume that leaves the space alone. *)
LEMMA RoomSame ==
    ASSUME RetryInv, volumes' = volumes, passed' = passed
    PROVE  passed' # NoImage => Room'
  BY Zenon DEF RetryInv, Room, Pebs

(* A volume is written.  The kernel gets the number of the upgrade.        *)
LEMMA WrittenStep ==
    ASSUME SpaceInv, Parted, RetryInv, ubi_volume_write, bad' <= MaxBad, Busy' => Reserved'
    PROVE  RetryInv'
  <1>0. TypeOK /\ cur \in Vol /\ pc = "write" /\ Busy /\ NextVolume /\ up.kernel > 0 /\ up.rootfs > 0
    BY Zenon DEF SpaceInv, TypeOK, ubi_volume_write, Busy, Parted
  <1>1. /\ volumes' = volumes /\ beb_rsvd_pebs' = beb_rsvd_pebs /\ bad' = bad
        /\ data' = [data EXCEPT ![cur] = upgrades]
        /\ up' = up /\ upgrades' = upgrades /\ passed' = passed
    BY Zenon DEF ubi_volume_write, space, history
  <1>2. data \in [Vol -> Nat \cup {Torn}] /\ upgrades \in Nat
    BY <1>0, Zenon DEF TypeOK
  <1>3. \A v \in Vol : data'[v] <= upgrades'
    BY <1>1, <1>2 DEF RetryInv
  <1>4. passed' # NoImage => Room'
    BY <1>1, RoomSame, Zenon
  <1>5. (KernelMade => KernelMade') /\ (RootMade => RootMade')
    BY <1>1, Zenon DEF KernelMade, RootMade, Pebs
  <1>6. CASE cur = "rootfs_data" /\ cur' = "kernel" /\ pc' = "check"
    <2>1. data'["kernel"] # upgrades
      BY <1>0, <1>1, <1>2, <1>6, Zenon DEF RetryInv, On, Vol
    <2>2. Busy'
      BY <1>6, Zenon DEF Busy
    <2> QED
      BY <1>1, <1>3, <1>4, <1>6, <2>1, <2>2, Zenon DEF RetryInv, On, Backup
  <1>7. CASE cur = "kernel" /\ cur' = "rootfs" /\ pc' = "check"
    <2>1. data'["kernel"] = upgrades' /\ KernelMade' /\ Busy'
      BY <1>0, <1>1, <1>2, <1>5, <1>7, Zenon DEF RetryInv, On, Vol, Busy
    <2> QED
      BY <1>1, <1>3, <1>4, <1>7, <2>1, Zenon DEF RetryInv, On, Backup
  <1>8. CASE cur = "rootfs" /\ cur' = "kernel_1" /\ pc' = "check"
    <2>1. passed # NoImage => data["kernel"] = upgrades /\ KernelMade /\ passed = up /\ RootMade
      BY <1>0, <1>8, Zenon DEF RetryInv, On
    <2>2. data'["kernel"] = data["kernel"] /\ Busy'
      BY <1>1, <1>2, <1>8, Zenon DEF Vol, Busy
    <2> QED
      BY <1>1, <1>3, <1>4, <1>5, <1>8, <2>1, <2>2, Zenon DEF RetryInv, On, Backup
  <1>9. CASE cur = "kernel_1" /\ cur' = "rootfs_1" /\ pc' = "check"
    <2>1. passed # NoImage => data["kernel"] = upgrades /\ KernelMade /\ passed = up /\ RootMade
      BY <1>0, <1>9, Zenon DEF RetryInv, On, Backup
    <2>2. data'["kernel"] = data["kernel"] /\ Busy'
      BY <1>1, <1>2, <1>9, Zenon DEF Vol, Busy
    <2> QED
      BY <1>1, <1>3, <1>4, <1>5, <1>9, <2>1, <2>2, Zenon DEF RetryInv, On, Backup
  <1>10. CASE pc' = "restore"
    BY <1>3, <1>4, <1>10, RetryElsewhere, Zenon
  <1> QED
    BY <1>0, <1>6, <1>7, <1>8, <1>9, <1>10, Following, Zenon DEF Backup

(* A hidden failure of a creation: nothing is known of the image. *)
LEMMA UnmadeStep ==
    ASSUME SpaceInv, Parted, RetryInv, CreateFails, bad' <= MaxBad, Busy' => Reserved'
    PROVE  RetryInv'
  <1>0. TypeOK /\ cur \in Vol /\ pc = "create" /\ NextVolume /\ up.kernel > 0 /\ up.rootfs > 0
    BY Zenon DEF SpaceInv, TypeOK, CreateFails, Busy, Parted
  <1>1. data' = data /\ upgrades' = upgrades /\ passed' = NoImage
    BY Zenon DEF CreateFails
  <1>2. \A v \in Vol : data'[v] <= upgrades'
    BY <1>1, Zenon DEF RetryInv
  <1>3. Busy'
    BY <1>0, NextVolumeType, Zenon DEF Busy
  <1>4. cur \in {"rootfs_data", "kernel"} => data["kernel"] # upgrades
    BY <1>0, Zenon DEF RetryInv, On
  <1>5. \/ cur \in {"rootfs_data", "kernel"} /\ pc' = "check" /\ cur' \in Primary
        \/ pc' = "check" /\ cur' \in Backup
        \/ pc' = "restore"
    BY <1>0, Following, Zenon DEF Primary, Backup
  <1> QED
    BY <1>1, <1>2, <1>3, <1>4, <1>5, Zenon DEF RetryInv, On, Primary, Backup

(* Every step keeps RetryInv. *)
LEMMA RetryStep ==
    ASSUME MaxBad <= bad_peb_limit, SpaceInv, SpaceInv', Parted, RetryInv, Next PROVE RetryInv'
  <1>0. TypeOK /\ TypeOK' /\ cur \in Vol /\ upgrades \in Nat /\ data \in [Vol -> Nat \cup {Torn}]
        /\ volumes \in [Vol -> Nat] /\ volumes' \in [Vol -> Nat]
    BY Zenon DEF SpaceInv, TypeOK
  <1>b. bad' <= MaxBad /\ (Busy' => Reserved')
        /\ (Busy /\ beb_rsvd_pebs = beb_rsvd_level(bad) => beb_rsvd_pebs' = beb_rsvd_level(bad'))
    BY ReservedStep, Zenon DEF RetryInv
  <1>1. CASE Attach
    <2>1. pc' = "remove" /\ cur' = "rootfs_data" /\ data' = data /\ upgrades' = upgrades + 1
          /\ volumes' = vtbl /\ passed' = passed
      BY <1>1, Zenon DEF Attach
    <2>2. \A v \in Vol : data'[v] <= upgrades'
      BY <1>0, <2>1 DEF RetryInv, Torn
    <2>3. data'["kernel"] # upgrades'
      BY <1>0, <2>1 DEF RetryInv, Torn, Vol
    <2>4. passed' # NoImage => Room'
      <3>1. \A v \in Vol : volumes'[v] <= volumes[v]
        BY <2>1, Zenon DEF SpaceInv, TableFits
      <3> QED
        BY <1>0, <2>1, <3>1, RoomKept, Zenon DEF RetryInv, Vol
    <2>5. Busy'
      BY <2>1, Zenon DEF Busy
    <2> QED
      BY <1>b, <2>1, <2>2, <2>3, <2>4, <2>5, Zenon DEF RetryInv, On, Backup
  <1>2. CASE AttachFailed
    <2>1. pc' = "done" /\ data' = data /\ upgrades' = upgrades + 1 /\ volumes' = volumes /\ passed' = passed
      BY <1>2, Zenon DEF AttachFailed, space
    <2>2. \A v \in Vol : data'[v] <= upgrades'
      BY <1>0, <2>1 DEF RetryInv, Torn
    <2> QED
      BY <1>b, <2>1, <2>2, RoomSame, RetryElsewhere, Zenon
  <1>3. CASE CheckPasses
    BY <1>3, PassStep, Zenon
  <1>g. ASSUME pc \in {"check", "write"}, GiveUp, UNCHANGED <<space, data, up, upgrades, passed>>
        PROVE  RetryInv'
    <2>1. volumes' = volumes /\ data' = data /\ up' = up /\ upgrades' = upgrades /\ passed' = passed /\ Busy
      BY <1>g, Zenon DEF space, Busy
    <2>2. CASE pc' = "restore"
      BY <1>b, <2>1, <2>2, RoomSame, RetryElsewhere, ZenonT(60) DEF RetryInv
    <2>3. CASE ~Required(cur) /\ pc' # "restore"
      <3>1. NextVolume /\ up.kernel > 0 /\ up.rootfs > 0
        BY <1>g, <2>1, <2>3, Zenon DEF GiveUp, Parted
      <3>2. /\ pc' = "check"
            /\ \/ cur = "rootfs_data" /\ cur' = "kernel"
               \/ cur = "kernel_1" /\ cur' = "rootfs_1"
        BY <1>0, <2>3, <3>1, Following, Zenon DEF Required
      <3>3. On(Vol) /\ On(Vol)' /\ Reserved'
        BY <1>0, <1>b, <1>g, <3>2, Zenon DEF On, Vol, Busy
      <3>4. \A v \in Vol : volumes'[v] <= volumes[v]
        BY <1>0, <2>1
      <3> QED
        BY <1>0, <1>b, <2>1, <3>2, <3>3, <3>4, RetryStay, Zenon
    <2> QED
      BY <1>g, <2>2, <2>3, Zenon DEF GiveUp
  <1>4. CASE CheckRefuses
    BY <1>4, <1>g, Zenon DEF CheckRefuses, history
  <1>r. ASSUME pc = "remove", Removed, UNCHANGED <<up, upgrades, passed>>,
               \A v \in Vol \ {cur} : data'[v] = data[v] /\ volumes'[v] = volumes[v],
               data'[cur] \in {data[cur], Torn}, volumes'[cur] <= volumes[cur]
        PROVE  RetryInv'
    <2>1. up.kernel > 0 /\ up.rootfs > 0 /\ Busy
      BY <1>r, Zenon DEF Parted, Busy
    <2>2. \/ cur' = cur /\ pc' = "create"
          \/ cur = "rootfs_data" /\ cur' = "kernel" /\ pc' = "check"
      <3>1. CASE cur = "rootfs_data"
        <4>1. NextVolume
          BY <1>r, <3>1, Zenon DEF Removed
        <4> QED
          BY <1>0, <2>1, <3>1, <4>1, Following, Zenon DEF Backup
      <3>2. CASE cur # "rootfs_data"
        BY <1>r, <3>2, Zenon DEF Removed
      <3> QED
        BY <3>1, <3>2, Zenon
    <2>3. On(Vol) /\ On(Vol)' /\ Reserved'
      BY <1>0, <1>b, <1>r, <2>2, Zenon DEF On, Vol, Busy
    <2> QED
      BY <1>0, <1>b, <1>r, <2>1, <2>2, <2>3, RetryStay, Zenon
  <1>5. CASE ubi_remove_vol
    <2>1. /\ \A v \in Vol \ {cur} : data'[v] = data[v] /\ volumes'[v] = volumes[v]
          /\ data'[cur] = Torn /\ volumes'[cur] = 0
      BY <1>0, <1>5, Zenon DEF ubi_remove_vol
    <2>2. volumes'[cur] <= volumes[cur]
      BY <1>0, <2>1
    <2> QED
      BY <1>5, <1>r, <2>1, <2>2, Zenon DEF ubi_remove_vol, history
  <1>6. CASE RemoveAbsent
    <2>1. volumes'[cur] <= volumes[cur] /\ volumes' = volumes
      BY <1>0, <1>6 DEF RemoveAbsent, space
    <2> QED
      BY <1>6, <1>r, <2>1, Zenon DEF RemoveAbsent, history
  <1>7. CASE RemoveFails
    <2>1. volumes'[cur] <= volumes[cur] /\ volumes' = volumes
      BY <1>0, <1>7 DEF RemoveFails, space
    <2>2. /\ \A v \in Vol \ {cur} : data'[v] = data[v]
          /\ data'[cur] \in {data[cur], Torn}
      BY <1>0, <1>7, Zenon DEF RemoveFails
    <2> QED
      BY <1>7, <1>r, <2>1, <2>2, Zenon DEF RemoveFails, history
  <1>8. CASE ubi_create_vol
    <2>1. Busy'
      BY <1>8, Zenon DEF ubi_create_vol, Busy
    <2> QED
      BY <1>8, <1>b, <2>1, MadeStep, Zenon
  <1>9. CASE CreateFails
    BY <1>9, <1>b, UnmadeStep, Zenon
  <1>10. CASE ubi_volume_write
    BY <1>10, <1>b, WrittenStep, Zenon
  <1>11. CASE WriteFails
    BY <1>11, <1>g, Zenon DEF WriteFails, history
  <1>12. CASE restore_config
    <2>1. pc' = "done" /\ passed' = passed /\ upgrades' = upgrades
      BY <1>12, Zenon DEF restore_config
    <2>2. \A v \in Vol \ {"rootfs_data"} : data'[v] = data[v] /\ volumes'[v] = volumes[v]
      BY <1>0, <1>12, Zenon DEF restore_config, Create, space
    <2>3. data'["rootfs_data"] \in {data["rootfs_data"], Torn}
      BY <1>0, <1>12, Zenon DEF restore_config, Create, Vol
    <2>4. \A v \in Vol : data'[v] <= upgrades'
      BY <1>0, <2>1, <2>2, <2>3 DEF RetryInv, Torn
    <2>5. passed' # NoImage => Room'
      BY <1>0, <2>1, <2>2, RoomKept DEF RetryInv, Vol
    <2> QED
      BY <1>b, <2>1, <2>4, <2>5, RetryElsewhere, Zenon
  <1>13. CASE erase_worker
    <2>1. /\ pc' = pc /\ cur' = cur /\ pc \in {"remove", "write"} /\ volumes' = volumes /\ data' = data
          /\ up' = up /\ upgrades' = upgrades /\ passed' = passed
      BY <1>13, Zenon DEF erase_worker, history
    <2>2. On(Vol) /\ On(Vol)' /\ Busy /\ Reserved'
      BY <1>0, <1>b, <2>1, Zenon DEF On, Busy
    <2>3. volumes'[cur] <= volumes[cur]
      BY <1>0, <2>1, SMTT(60)
    <2> QED
      BY <1>0, <1>b, <2>1, <2>2, <2>3, RetryStay, Zenon
  <1>14. CASE PowerLoss
    <2>1. pc' = "off" /\ data' = data /\ upgrades' = upgrades /\ volumes' = volumes /\ passed' = passed
      BY <1>14, Zenon DEF PowerLoss, space, history
    <2> QED
      BY <1>b, <2>1, RoomSame, RetryElsewhere, Zenon DEF RetryInv
  <1> QED
    BY <1>1, <1>2, <1>3, <1>4, <1>5, <1>6, <1>7, <1>8, <1>9, <1>10, <1>11, <1>12,
       <1>13, <1>14, Zenon DEF Next

(* An image that once had its kernel in place and room for its root file   *)
(* system is accepted again by ubi_volume_can_replace, after power losses, *)
(* failed writes and other upgrades, for every device and all images with  *)
(* both parts, while no more blocks go bad than the limit.                 *)
THEOREM RetrySafe ==
    ASSUME BothParts, MaxBad <= bad_peb_limit PROVE Spec => []RetryAccepted
  <1> DEFINE Inv == SpaceInv /\ Parted /\ RetryInv
  <1>1. Init => Inv
    <2>1. Init => Parted /\ RetryInv
      BY UbiAssumption DEF Init, Parted, Busy, RetryInv, On, Torn
    <2> QED
      BY <2>1, SpaceInit, Zenon
  <1>2. Inv /\ [Next]_vars => Inv'
    <2>1. ASSUME Inv, Next PROVE Inv'
      BY <2>1, SpaceInvStep, PartedStep, RetryStep, Zenon DEF SpaceInv
    <2>2. ASSUME Inv, UNCHANGED vars PROVE Inv'
      BY <2>2, SpaceStutter, ZenonT(60)
         DEF vars, Parted, Busy, RetryInv, On, Reserved, KernelMade, RootMade, Room, Pebs
    <2> QED
      BY <2>1, <2>2, Zenon
  <1>3. Inv => RetryAccepted
    BY RetryRight, Zenon
  <1> QED
    BY <1>1, <1>2, <1>3, PTL DEF Spec

-----------------------------------------------------------------------------
(* The parser.                                                             *)

(* The parts found so far are right at every step, and in an archive they  *)
(* end before the next header; so the next one cannot overlap them.        *)
End(part) == part.at + part.size
Apart == End(kernel) <= rootfs.at \/ End(rootfs) <= kernel.at
IInv ==
    /\ ParseTypeOK /\ img \in Upload
    /\ Inside(kernel) /\ Inside(rootfs) /\ Apart
    /\ stage = "tar" => End(kernel) <= pos /\ End(rootfs) <= pos /\ pos <= img.size
    /\ stage = "scan" => header_off + 512 <= img.size
    /\ stage \in {"begin", "scan"} => kernel = NoPart /\ rootfs = NoPart
    /\ stage = "done" => BothOrNone

(* The rounding does not wrap for a file that is inside an image.          *)
LEMMA PaddedRight ==
    ASSUME NEW n \in Nat, n + 511 < Wrap
    PROVE  Padded(n) \in Nat /\ n <= Padded(n)
<1>0. Wrap \in Nat BY ParserAssumption, Zenon
<1>1. (n + 511) % Wrap = n + 511
  BY <1>0, SMT
<1>2. QED BY <1>0, <1>1, SMT DEF Padded

(* What the assumption says of one image.                                  *)
LEMMA ImageFacts ==
    ASSUME img \in Upload
    PROVE  /\ img.size \in Nat /\ img.size + 512 < Wrap
           /\ \A p \in DOMAIN img.hdr :
                 /\ p \in Nat /\ img.hdr[p].fsize \in Nat
                 /\ img.hdr[p].fsize < Wrap
           /\ \A p \in DOMAIN img.hsqs : p \in Nat /\ img.hsqs[p] \in Nat
BY ParserAssumption, SMTT(60) DEF Header

(* One entry of an archive: its file lies between the header and the next  *)
(* header.                                                                 *)
LEMMA EntryStep ==
    ASSUME IInv, TarEntry
    PROVE  IInv'
<1> USE DEF IInv, ParseTypeOK
<1> DEFINE h == img.hdr[pos]
           body == pos + 512
<1>1. /\ stage = "tar" /\ AnotherEntry /\ ~TooLong(h.fsize, img.size - body)
      /\ kernel' = (IF IsKernel(h) THEN At(body, h.fsize) ELSE kernel)
      /\ rootfs' = (IF IsRootfs(h) THEN At(body, h.fsize) ELSE rootfs)
      /\ pos' = body + Padded(h.fsize) /\ entry' = entry + 1
      /\ img' = img /\ stage' = stage /\ header_off' = header_off /\ invalid' = invalid
  BY ZenonT(60) DEF TarEntry
<1>2. /\ entry < max_entries /\ pos \in DOMAIN img.hdr /\ img.size - pos >= 512
  BY <1>1, ZenonT(60) DEF AnotherEntry
<1>3. /\ img.size \in Nat /\ img.size + 512 < Wrap /\ h.fsize \in Nat /\ pos \in Nat
  BY <1>2, ImageFacts, ZenonT(60)
<1>4. h.fsize <= img.size - body /\ Padded(h.fsize) <= img.size - body
  <2>1. ~(h.fsize > img.size - body) /\ ~(Padded(h.fsize) > img.size - body)
    BY <1>1, ZenonT(60) DEF TooLong
  <2>2. h.fsize <= img.size - body
    BY <2>1, <1>3
  <2>3. Padded(h.fsize) \in Nat
    <3>1. h.fsize + 511 < Wrap
      BY <2>2, <1>3, ParserAssumption
    <3>2. QED BY <3>1, <1>3, PaddedRight, ZenonT(60)
  <2>4. QED BY <2>1, <2>2, <2>3, <1>3
<1>5. Padded(h.fsize) \in Nat /\ h.fsize <= Padded(h.fsize)
  <2>1. h.fsize + 511 < Wrap
    BY <1>4, <1>3, ParserAssumption, SMTT(60)
  <2>2. QED BY <2>1, <1>3, PaddedRight, ZenonT(60)
<1> HIDE DEF h
<1>6. /\ pos' \in Nat /\ pos' <= img.size /\ body + h.fsize <= pos' /\ pos <= body
      /\ entry' \in 0..max_entries
  BY <1>1, <1>2, <1>3, <1>4, <1>5, ParserAssumption, SMTT(60)
<1>7. At(body, h.fsize) \in [at : Nat, size : Nat]
  BY <1>3, SMTT(60) DEF At
<1>8. CASE IsKernel(h)
  <2>1. kernel' = At(body, h.fsize) /\ rootfs' = rootfs
    BY <1>1, <1>8, ZenonT(60) DEF IsRootfs
  <2>2. kernel'.at = body /\ kernel'.size = h.fsize
    BY <2>1, Zenon DEF At
  <2>3. QED BY <1>1, <1>3, <1>6, <1>7, <2>1, <2>2 DEF Inside, Apart, End
<1>9. CASE ~IsKernel(h) /\ IsRootfs(h)
  <2>1. rootfs' = At(body, h.fsize) /\ kernel' = kernel
    BY <1>1, <1>9, ZenonT(60)
  <2>2. rootfs'.at = body /\ rootfs'.size = h.fsize
    BY <2>1, Zenon DEF At
  <2>3. QED BY <1>1, <1>3, <1>6, <1>7, <2>1, <2>2 DEF Inside, Apart, End
<1>10. CASE ~IsKernel(h) /\ ~IsRootfs(h)
  <2>1. rootfs' = rootfs /\ kernel' = kernel
    BY <1>1, <1>10, ZenonT(60)
  <2>2. QED BY <1>1, <1>3, <1>6, <2>1, SMTT(60) DEF Inside, Apart, End
<1>11. QED BY <1>8, <1>9, <1>10, Zenon

(* A squashfs: the kernel is all that precedes it.                         *)
LEMMA ScanStep ==
    ASSUME IInv, NEW i \in DOMAIN img.hsqs, ScanHit(i)
    PROVE  IInv'
<1> USE DEF IInv, ParseTypeOK
<1>1. /\ stage = "scan" /\ stage' = "end" /\ img' = img /\ header_off' = header_off
      /\ pos' = pos /\ entry' = entry
      /\ i >= header_off
  BY Zenon DEF ScanHit, Hits
<1>2. /\ img.size \in Nat /\ i \in Nat /\ img.hsqs[i] \in Nat
  BY ImageFacts, ZenonT(60)
<1>3. CASE i + 48 > img.size /\ invalid' = TRUE /\ UNCHANGED <<kernel, rootfs>>
  <2>1. kernel' = kernel /\ rootfs' = rootfs /\ invalid' = TRUE
    BY <1>3, Zenon
  <2>2. ParseTypeOK'
    BY <1>1, <2>1, Zenon
  <2>3. img' \in Upload /\ Inside(kernel)' /\ Inside(rootfs)' /\ Apart'
    BY <1>1, <2>1, ZenonT(60) DEF Inside, Apart, End
  <2>4. QED BY <1>1, <2>2, <2>3, Zenon
<1>4. CASE /\ i + 48 <= img.size /\ kernel' = At(header_off, i - header_off)
           /\ invalid' = TRUE /\ rootfs' = At(i, 0)
  <2>1. /\ kernel'.at = header_off /\ kernel'.size = i - header_off
        /\ rootfs'.at = i /\ rootfs'.size = 0
    BY <1>4, Zenon DEF At
  <2>2. kernel' \in [at : Nat, size : Nat] /\ rootfs' \in [at : Nat, size : Nat]
    <3>1. header_off \in Nat /\ i - header_off \in Nat
      BY <1>1, <1>2
    <3> HIDE DEF IInv, ParseTypeOK
    <3>2. QED BY <1>2, <1>4, <3>1, Zenon DEF At
  <2>3. QED BY <1>1, <1>2, <1>4, <2>1, <2>2, SMTT(60) DEF Inside, Apart, End
<1>5. CASE /\ i + 48 <= img.size /\ kernel' = At(header_off, i - header_off)
           /\ img.hsqs[i] <= img.size - i
           /\ rootfs' = At(i, img.hsqs[i]) /\ UNCHANGED invalid
  <2>1. /\ kernel'.at = header_off /\ kernel'.size = i - header_off
        /\ rootfs'.at = i /\ rootfs'.size = img.hsqs[i]
    BY <1>5, Zenon DEF At
  <2>2. kernel' \in [at : Nat, size : Nat] /\ rootfs' \in [at : Nat, size : Nat]
    <3>1. header_off \in Nat /\ i - header_off \in Nat
      BY <1>1, <1>2
    <3> HIDE DEF IInv, ParseTypeOK
    <3>2. QED BY <1>2, <1>5, <3>1, Zenon DEF At
  <2>3. QED BY <1>1, <1>2, <1>5, <2>1, <2>2, SMTT(60) DEF Inside, Apart, End
<1>6. QED BY <1>3, <1>4, <1>5, ZenonT(60) DEF ScanHit

(* The other steps: the beginning, the ends of the loops, the last check.  *)
LEMMA QuietStep ==
    ASSUME IInv, Begin \/ TarEnd \/ TarInvalid \/ ScanNothing \/ Finish \/ UNCHANGED parseVars
    PROVE  IInv'
<1> USE DEF IInv, ParseTypeOK
<1>0. img.size \in Nat
  BY ImageFacts, ZenonT(60)
<1>1. CASE Begin
  <2>1. /\ img' = img /\ entry' = entry /\ invalid' = invalid
        /\ kernel' = kernel /\ rootfs' = rootfs
        /\ kernel = NoPart /\ rootfs = NoPart
        /\ header_off' \in {0, 10} /\ pos' = header_off'
        /\ \/ stage' = "end"
           \/ stage' \in {"tar", "scan"} /\ header_off' + 512 <= img.size
    BY <1>0, <1>1 DEF Begin
  <2>2. kernel.at = 0 /\ kernel.size = 0 /\ rootfs.at = 0 /\ rootfs.size = 0
    BY <2>1, ZenonT(60) DEF NoPart
  <2>3. QED BY <1>0, <2>1, <2>2 DEF Inside, Apart, End
<1>2. CASE TarEnd \/ ScanNothing \/ TarInvalid
  <2>1. /\ img' = img /\ entry' = entry /\ invalid' \in BOOLEAN /\ pos' = pos
        /\ kernel' = kernel /\ rootfs' = rootfs /\ header_off' = header_off
        /\ stage' = "end"
    <3>1. CASE TarEnd
      BY <1>0, <3>1, ZenonT(60) DEF TarEnd
    <3>2. CASE ScanNothing
      BY <1>0, <3>2, Zenon DEF ScanNothing
    <3>3. CASE TarInvalid
      BY <1>0, <3>3, ZenonT(60) DEF TarInvalid
    <3>4. QED BY <1>2, <3>1, <3>2, <3>3, Zenon
  <2>2. QED BY <1>0, <2>1, ZenonT(60) DEF Inside, Apart, End
<1>3. CASE Finish
  <2>1. /\ img' = img /\ entry' = entry /\ invalid' = invalid /\ pos' = pos
        /\ header_off' = header_off /\ stage' = "done"
        /\ \/ kernel' = NoPart /\ rootfs' = NoPart
           \/ /\ kernel' = kernel /\ rootfs' = rootfs
              /\ kernel.size # 0 /\ rootfs.size # 0
    BY <1>3, ZenonT(60) DEF Finish
  <2>2. CASE kernel' = NoPart /\ rootfs' = NoPart
    <3>1. kernel'.at = 0 /\ kernel'.size = 0 /\ rootfs'.at = 0 /\ rootfs'.size = 0
      BY <2>2, Zenon DEF NoPart
    <3>2. kernel' \in [at : Nat, size : Nat] /\ rootfs' \in [at : Nat, size : Nat]
      BY <2>2, Zenon DEF NoPart
    <3>3. QED BY <1>0, <2>1, <3>1, <3>2 DEF Inside, Apart, End, BothOrNone
  <2>3. CASE /\ kernel' = kernel /\ rootfs' = rootfs
             /\ kernel.size # 0 /\ rootfs.size # 0
    BY <1>0, <2>1, <2>3 DEF Inside, Apart, End, BothOrNone
  <2>4. QED BY <2>1, <2>2, <2>3, Zenon
<1>4. CASE UNCHANGED parseVars
  BY <1>4 DEF parseVars, Inside, Apart, End, BothOrNone
<1>5. QED BY <1>1, <1>2, <1>3, <1>4, Zenon

(* For every upload parse_sysupgrade gives out two parts inside the upload *)
(* that do not overlap, or nothing: what sysupgrade_write_ubi_volumes and  *)
(* the flash commands are handed is never other memory.                    *)
THEOREM PartsRight == ParseSpec => [](PartsInside /\ PartsDisjoint /\ BothOrNone)
<1>1. ParseInit => IInv
  <2> SUFFICES ASSUME ParseInit PROVE IInv BY Zenon
  <2>1. img.size \in Nat
    BY ImageFacts, Zenon DEF ParseInit
  <2>2. kernel.at = 0 /\ kernel.size = 0 /\ rootfs.at = 0 /\ rootfs.size = 0
    BY Zenon DEF ParseInit, NoPart
  <2>3. kernel \in [at : Nat, size : Nat] /\ rootfs \in [at : Nat, size : Nat]
    BY Zenon DEF ParseInit, NoPart
  <2>4. QED
    <3>1. max_entries \in Nat
      BY ParserAssumption, Zenon
    <3>2. ParseTypeOK
      <4>1. invalid \in BOOLEAN
        BY Zenon DEF ParseInit
      <4>2. /\ stage = "begin" /\ header_off = 0 /\ pos = 0 /\ entry = 0
        BY Zenon DEF ParseInit
      <4>3. header_off \in {0, 10} /\ pos \in Nat /\ entry \in 0..max_entries
        BY <3>1, <4>2, SMT
      <4>4. QED BY <2>3, <4>1, <4>2, <4>3, Zenon DEF ParseTypeOK
    <3>3. Inside(kernel) /\ Inside(rootfs) /\ Apart
      BY <2>1, <2>2 DEF Inside, Apart, End
    <3>4. QED BY <3>2, <3>3, Zenon DEF ParseInit, IInv
<1>2. IInv /\ [ParseNext]_parseVars => IInv'
  <2> SUFFICES ASSUME IInv, [ParseNext]_parseVars PROVE IInv' BY Zenon
  <2>1. CASE TarEntry
    BY <2>1, EntryStep, Zenon
  <2>2. ASSUME NEW i \in DOMAIN img.hsqs, ScanHit(i) PROVE IInv'
    BY <2>2, ScanStep, Zenon
  <2>3. CASE Begin \/ TarEnd \/ TarInvalid \/ ScanNothing \/ Finish \/ UNCHANGED parseVars
    BY <2>3, QuietStep, Zenon
  <2>4. QED BY <2>1, <2>2, <2>3, Zenon DEF ParseNext
<1>3. IInv => PartsInside /\ PartsDisjoint /\ BothOrNone
  BY ZenonT(60) DEF IInv, PartsInside, PartsDisjoint, BothOrNone, Apart, End
<1>4. QED BY <1>1, <1>2, <1>3, PTL DEF ParseSpec
=============================================================================
