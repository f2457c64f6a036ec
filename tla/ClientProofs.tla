--------------------------- MODULE ClientProofs -----------------------------
(***************************************************************************)
(* What the clients of the recovery network are given.  Addresses: the     *)
(* lease table, for every number of slots, every set of clients, every     *)
(* pool and every lease time; the UDP handler, which a stopped server has  *)
(* given back; and the pool, for every width of the addresses, every       *)
(* subnet size, span and fallback length.  Backups: for every size of the  *)
(* partition, of the RAM and of the sectors and pages, the client's file   *)
(* is contiguous, no read goes beyond the RAM, and a file as long as       *)
(* announced is whole.                                                     *)
(***************************************************************************)
EXTENDS Dhcpd, RecoveryNetwork, BackupStream, SequenceTheorems, TLAPS

\* No lease starts in the future of t.
Past(ls, t) == \A i \in Slot : ls[i].start <= t

\* The numbers among the constants are natural numbers.
LEMMA Numbers == MAX_LEASES \in Nat /\ LEASE_TIME \in Nat
BY NumberAssumption, Zenon

\* dhcpd_expire_leases changes nothing but used flags, and clears exactly the
\* ones of the leases that have run out.
LEMMA ExpireFacts ==
    ASSUME NEW ls \in [Slot -> Lease], NEW t \in Nat
    PROVE  /\ dhcpd_expire_leases(ls, t) \in [Slot -> Lease]
           /\ \A i \in Slot :
                LET e == dhcpd_expire_leases(ls, t)[i] IN
                /\ e.mac = ls[i].mac /\ e.ip = ls[i].ip /\ e.start = ls[i].start
                /\ e.used <=> ls[i].used /\ t <= ls[i].start + LEASE_TIME
<1> DEFINE on(i) == ls[i].used /\ t - ls[i].start <= LEASE_TIME
<1>1. \A i \in Slot : ls[i] \in Lease
  BY Zenon
<1>2. \A i \in Slot : on(i) \in BOOLEAN
  BY Zenon
<1>3. \A i \in Slot : dhcpd_expire_leases(ls, t)[i] = [ls[i] EXCEPT !.used = on(i)]
  BY Zenon DEF dhcpd_expire_leases
<1>4. \A i \in Slot : on(i) <=> ls[i].used /\ t <= ls[i].start + LEASE_TIME
  <2> TAKE i \in Slot
  <2>1. ls[i].start \in Nat
    BY <1>1, Zenon DEF Lease
  <2>2. t - ls[i].start <= LEASE_TIME <=> t <= ls[i].start + LEASE_TIME
    BY <2>1, Numbers
  <2> QED BY <2>2, Zenon
<1> HIDE DEF on
<1>5. ASSUME NEW i \in Slot
      PROVE  /\ [ls[i] EXCEPT !.used = on(i)] \in Lease
             /\ [ls[i] EXCEPT !.used = on(i)].mac = ls[i].mac
             /\ [ls[i] EXCEPT !.used = on(i)].ip = ls[i].ip
             /\ [ls[i] EXCEPT !.used = on(i)].start = ls[i].start
  BY <1>1, <1>2, Zenon DEF Lease
<1>6. ASSUME NEW i \in Slot
      PROVE  [ls[i] EXCEPT !.used = on(i)].used = on(i)
  BY <1>1, <1>2, Zenon DEF Lease
<1>7. dhcpd_expire_leases(ls, t) \in [Slot -> Lease]
  BY <1>3, <1>5, Zenon DEF dhcpd_expire_leases, on
<1> QED BY <1>3, <1>4, <1>5, <1>6, <1>7, ZenonT(60)

\* Expiring leases keeps the table a matching and its starts in the past.
LEMMA ExpireMatching ==
    ASSUME NEW ls \in [Slot -> Lease], NEW t \in Nat, Matching(ls)
    PROVE  Matching(dhcpd_expire_leases(ls, t))
<1> DEFINE e == dhcpd_expire_leases(ls, t)
<1>1. \A i \in Slot : e[i].mac = ls[i].mac /\ e[i].ip = ls[i].ip
  BY ExpireFacts, Zenon
<1>2. \A i \in Slot : e[i].used => ls[i].used
  BY ExpireFacts, Zenon
<1> HIDE DEF e
<1>3. ASSUME NEW i \in Slot, e[i].used
      PROVE  e[i].mac \in Mac /\ e[i].ip \in Pool
  BY <1>1, <1>2, <1>3, Zenon DEF Matching
<1>4. ASSUME NEW i \in Slot, NEW j \in Slot, i # j, e[i].used, e[j].used
      PROVE  e[i].mac # e[j].mac /\ e[i].ip # e[j].ip
  BY <1>1, <1>2, <1>4, ZenonT(60) DEF Matching
<1>5. Matching(e)
  BY <1>3, <1>4, Zenon DEF Matching
<1> QED BY <1>5, Zenon DEF e

\* A grant that has not run out is still covered after expiry.
LEMMA ExpireCovers ==
    ASSUME NEW ls \in [Slot -> Lease], NEW t \in Nat, NEW m \in Mac,
           NEW ip \in Pool \cup {NULL}, NEW until \in Nat,
           Covers(ls, m, ip, until), t <= until
    PROVE  Covers(dhcpd_expire_leases(ls, t), m, ip, until)
<1>1. PICK i \in Slot : /\ Leased(ls, i, m) /\ ls[i].ip = ip
                        /\ until <= ls[i].start + LEASE_TIME
  BY Zenon DEF Covers
<1>2. ls[i].start \in Nat
  BY Zenon DEF Lease
<1>3. t <= ls[i].start + LEASE_TIME
  BY <1>1, <1>2, Numbers
<1>4. /\ dhcpd_expire_leases(ls, t)[i].used
      /\ dhcpd_expire_leases(ls, t)[i].mac = m
      /\ dhcpd_expire_leases(ls, t)[i].ip = ip
      /\ dhcpd_expire_leases(ls, t)[i].start = ls[i].start
  BY <1>1, <1>3, ExpireFacts, Zenon DEF Leased
<1> QED BY <1>1, <1>4, Zenon DEF Covers, Leased

\* What holds of every outcome o of an operation on the lease table ls at
\* time t: the table keeps its type, stays a matching and starts no lease in
\* the future.
Sound(ls, t, o) ==
    /\ o.leases \in [Slot -> Lease]
    /\ o.ip \in Pool \cup {NULL}
    /\ Matching(o.leases)
    /\ Past(ls, t) => Past(o.leases, t)

\* The grants of client n that have not run out at t stay covered.
Keeps(ls, n, t, o) ==
    \A a \in Pool \cup {NULL}, u \in Nat :
        Covers(ls, n, a, u) /\ t <= u => Covers(o.leases, n, a, u)

\* new has a new lease in the free slot i, for a client that has none, at an
\* address nobody has.
Creates(ls, i, m, ip, t, new) ==
    /\ ~ls[i].used
    /\ \A j \in Slot : ls[j].used => ls[j].mac # m /\ ls[j].ip # ip
    /\ new = [ls EXCEPT ![i] = NewLease(m, ip, t)]

\* new has the lease i of client m moved to an address that nobody else has,
\* or left where it is, and restarted now; its used flag may be clear.
Updates(ls, i, m, ip, t, new) ==
    /\ ls[i].mac = m
    /\ \A j \in Slot : ls[j].used /\ j # i => ls[j].ip # ip
    /\ new = [ls EXCEPT ![i].ip = ip, ![i].start = t]

\* What both leave.
Written(ls, i, m, ip, t, new) ==
    /\ new \in [Slot -> Lease]
    /\ Matching(new)
    /\ Past(ls, t) => Past(new, t)
    /\ new[i].used => Covers(new, m, ip, t + LEASE_TIME)
    /\ \A j \in Slot : j # i => new[j] = ls[j]

\* Creating a lease keeps the table a matching and covers the new grant.
LEMMA CreateLease ==
    ASSUME NEW ls \in [Slot -> Lease], NEW t \in Nat, NEW m \in Mac,
           NEW ip \in Pool, NEW i \in Slot, NEW new, Matching(ls),
           Creates(ls, i, m, ip, t, new)
    PROVE  Written(ls, i, m, ip, t, new) /\ new[i].used
<1> DEFINE l == NewLease(m, ip, t)
<1>1. l \in Lease /\ l.mac = m /\ l.ip = ip /\ l.start = t
  BY Zenon DEF NewLease, Lease
<1>2. l.used
  BY Zenon DEF NewLease
<1>0. /\ new = [ls EXCEPT ![i] = l]
      /\ ~ls[i].used
      /\ \A j \in Slot : ls[j].used => ls[j].mac # m /\ ls[j].ip # ip
  BY Zenon DEF Creates
<1> HIDE DEF l
<1>3. /\ new \in [Slot -> Lease]
      /\ new[i] = l
      /\ \A j \in Slot : j # i => new[j] = ls[j]
  BY <1>0, <1>1, Zenon
<1>4. Matching(new)
  <2>1. ASSUME NEW j \in Slot, new[j].used
        PROVE  new[j].mac \in Mac /\ new[j].ip \in Pool
    BY <1>1, <1>3, <2>1, Zenon DEF Matching
  <2>2. ASSUME NEW j \in Slot, NEW k \in Slot, j # k, new[j].used, new[k].used
        PROVE  new[j].mac # new[k].mac /\ new[j].ip # new[k].ip
    <3>1. CASE j = i
      BY <1>0, <1>1, <1>3, <2>2, <3>1, Zenon
    <3>2. CASE k = i
      <4>1. j # i /\ new[j] = ls[j] /\ new[k] = l
        BY <1>3, <2>2, <3>2, Zenon
      <4>2. ls[j].used
        BY <2>2, <4>1, Zenon
      <4>3. ls[j].mac # m /\ ls[j].ip # ip
        BY <1>0, <4>2, Zenon
      <4> QED BY <1>1, <4>1, <4>3, Zenon
    <3>3. CASE j # i /\ k # i
      <4>1. new[j] = ls[j] /\ new[k] = ls[k]
        BY <1>3, <3>3, Zenon
      <4>2. ls[j].used /\ ls[k].used
        BY <2>2, <4>1, Zenon
      <4>3. ls[j].mac # ls[k].mac /\ ls[j].ip # ls[k].ip
        BY <2>2, <4>2, Zenon DEF Matching
      <4> QED BY <4>1, <4>3, Zenon
    <3> QED BY <3>1, <3>2, <3>3, Zenon
  <2> QED BY <2>1, <2>2, Zenon DEF Matching
<1>5. Past(ls, t) => Past(new, t)
  <2>1. \A j \in Slot : ls[j].start \in Nat
    BY Zenon DEF Lease
  <2>2. ASSUME Past(ls, t), NEW j \in Slot
        PROVE  new[j].start <= t
    BY <1>1, <1>3, <2>1, <2>2 DEF Past
  <2> QED BY <2>2, Zenon DEF Past
<1>6. Covers(new, m, ip, t + LEASE_TIME)
  <2>1. Leased(new, i, m) /\ new[i].ip = ip /\ new[i].start = t
    BY <1>1, <1>2, <1>3, Zenon DEF Leased
  <2>2. t + LEASE_TIME <= t + LEASE_TIME
    BY Numbers
  <2> QED BY <2>1, <2>2, Zenon DEF Covers
<1> QED BY <1>2, <1>3, <1>4, <1>5, <1>6, Zenon DEF Written

\* Updating a lease does the same, unless its used flag was clear.
LEMMA UpdateLease ==
    ASSUME NEW ls \in [Slot -> Lease], NEW t \in Nat, NEW m \in Mac,
           NEW ip \in Pool, NEW i \in Slot, NEW new, Matching(ls),
           Updates(ls, i, m, ip, t, new)
    PROVE  Written(ls, i, m, ip, t, new) /\ (new[i].used <=> ls[i].used)
<1> DEFINE l == [ls[i] EXCEPT !.ip = ip, !.start = t]
<1>0. /\ ls[i] \in Lease
      /\ ls[i].mac = m
      /\ new = [ls EXCEPT ![i].ip = ip, ![i].start = t]
  BY Zenon DEF Updates
<1>a. \A j \in Slot : ls[j].used /\ j # i => ls[j].ip # ip
  BY Zenon DEF Updates
<1>1. l \in Lease /\ l.mac = m /\ l.ip = ip /\ l.start = t
  BY <1>0, Zenon DEF Lease
<1>2. l.used = ls[i].used
  BY <1>0, Zenon DEF Lease
<1>3. /\ new \in [Slot -> Lease]
      /\ new[i] = l
      /\ \A j \in Slot : j # i => new[j] = ls[j]
  BY <1>0, <1>1, Zenon DEF Lease
<1> HIDE DEF l
<1>4. Matching(new)
  <2>1. ASSUME NEW j \in Slot, new[j].used
        PROVE  new[j].mac \in Mac /\ new[j].ip \in Pool
    BY <1>1, <1>3, <2>1, Zenon DEF Matching
  <2>2. ASSUME NEW j \in Slot, NEW k \in Slot, j # k, new[j].used, new[k].used
        PROVE  new[j].mac # new[k].mac /\ new[j].ip # new[k].ip
    <3>1. CASE j = i
      <4>1. new[k] = ls[k] /\ ls[k].used /\ ls[i].used
        BY <1>2, <1>3, <2>2, <3>1, Zenon
      <4>2. ls[k].mac # ls[i].mac /\ ls[k].ip # ip
        BY <1>a, <2>2, <3>1, <4>1, Zenon DEF Matching
      <4>3. new[j].mac = ls[i].mac /\ new[j].ip = ip
        BY <1>0, <1>1, <1>3, <3>1, Zenon
      <4> QED BY <4>1, <4>2, <4>3, Zenon
    <3>2. CASE k = i
      <4>1. new[j] = ls[j] /\ ls[j].used /\ ls[i].used
        BY <1>2, <1>3, <2>2, <3>2, Zenon
      <4>2. ls[j].mac # ls[i].mac /\ ls[j].ip # ip
        BY <1>a, <2>2, <3>2, <4>1, Zenon DEF Matching
      <4>3. new[k].mac = ls[i].mac /\ new[k].ip = ip
        BY <1>0, <1>1, <1>3, <3>2, Zenon
      <4> QED BY <4>1, <4>2, <4>3, Zenon
    <3>3. CASE j # i /\ k # i
      BY <1>3, <2>2, <3>3, ZenonT(60) DEF Matching
    <3> QED BY <3>1, <3>2, <3>3, Zenon
  <2> QED BY <2>1, <2>2, Zenon DEF Matching
<1>5. Past(ls, t) => Past(new, t)
  <2>1. \A j \in Slot : ls[j].start \in Nat
    BY Zenon DEF Lease
  <2>2. ASSUME Past(ls, t), NEW j \in Slot
        PROVE  new[j].start <= t
    BY <1>1, <1>3, <2>1, <2>2 DEF Past
  <2> QED BY <2>2, Zenon DEF Past
<1>6. ls[i].used => Covers(new, m, ip, t + LEASE_TIME)
  <2>1. ls[i].used => Leased(new, i, m) /\ new[i].ip = ip /\ new[i].start = t
    BY <1>1, <1>2, <1>3, Zenon DEF Leased
  <2>2. t + LEASE_TIME <= t + LEASE_TIME
    BY Numbers
  <2> QED BY <2>1, <2>2, Zenon DEF Covers
<1> QED BY <1>2, <1>3, <1>4, <1>5, <1>6, Zenon DEF Written

\* dhcpd_find_lease returns slots leased to the client, and in a matching the
\* client has no lease but that one.
LEMMA FindFacts ==
    ASSUME NEW ls \in [Slot -> Lease], NEW m \in Mac, Matching(ls),
           NEW i \in dhcpd_find_lease(ls, m)
    PROVE  /\ i \in Slot /\ ls[i].used /\ ls[i].mac = m /\ ls[i].ip \in Pool
           /\ \A j \in Slot : ls[j].used /\ ls[j].mac = m => j = i
<1>1. i \in Slot /\ ls[i].used /\ ls[i].mac = m
  BY Zenon DEF dhcpd_find_lease, Leased
<1>2. ls[i].ip \in Pool
  BY <1>1, Zenon DEF Matching
<1>3. ASSUME NEW j \in Slot, ls[j].used, ls[j].mac = m PROVE j = i
  BY <1>1, <1>3, Zenon DEF Matching
<1> QED BY <1>1, <1>2, <1>3, Zenon

\* Expiring leases starts none in the future.
LEMMA ExpirePast ==
    ASSUME NEW ls \in [Slot -> Lease], NEW t \in Nat, NEW u \in Nat, Past(ls, u)
    PROVE  Past(dhcpd_expire_leases(ls, t), u)
BY ExpireFacts, Zenon DEF Past

\* A table that agrees with ls on the used slots of n covers what ls covers.
LEMMA SameCovers ==
    ASSUME NEW ls, NEW new, NEW n, NEW a, NEW u,
           \A j \in Slot : Leased(ls, j, n) => new[j] = ls[j],
           Covers(ls, n, a, u)
    PROVE  Covers(new, n, a, u)
BY Zenon DEF Covers, Leased

\* dhcpd_alloc_ip is sound, leases the address it returns to the client for
\* the whole lease time, and breaks no grant of anyone.
LEMMA AllocOutcome ==
    ASSUME NEW ls \in [Slot -> Lease], NEW t \in Nat, NEW m \in Mac,
           NEW o \in dhcpd_alloc_ip(ls, m, t), Matching(ls)
    PROVE  /\ Sound(ls, t, o)
           /\ o.ip # NULL => Covers(o.leases, m, o.ip, t + LEASE_TIME)
           /\ Past(ls, t) => \A n \in Mac : Keeps(ls, n, t, o)
<1> DEFINE now == dhcpd_expire_leases(ls, t)
           unused == {ip \in Pool : ~dhcpd_ip_is_allocated(now, ip)}
           slots == dhcpd_get_available_lease_slot(now)
<1>1. /\ now \in [Slot -> Lease]
      /\ Matching(now)
      /\ Past(ls, t) => Past(now, t)
  BY ExpireFacts, ExpireMatching, ExpirePast, Zenon
<1>2. ASSUME NEW n \in Mac, NEW a \in Pool \cup {NULL}, NEW u \in Nat,
             Covers(ls, n, a, u), t <= u
      PROVE  Covers(now, n, a, u)
  BY <1>2, ExpireCovers, Zenon
<1>3. CASE dhcpd_find_lease(ls, m) # {}
  <2>1. PICK i \in dhcpd_find_lease(ls, m) :
               o = [leases |-> [ls EXCEPT ![i].start = t], ip |-> ls[i].ip]
    BY <1>3 DEF dhcpd_alloc_ip
  <2>2. /\ i \in Slot /\ ls[i].used /\ ls[i].mac = m /\ ls[i].ip \in Pool
        /\ \A j \in Slot : ls[j].used /\ ls[j].mac = m => j = i
    BY FindFacts
  <2>3. ls[i] \in Lease
    BY <2>2, Zenon
  <2>4. [ls EXCEPT ![i].start = t] = [ls EXCEPT ![i].ip = ls[i].ip, ![i].start = t]
    BY <2>2, <2>3, Zenon DEF Lease
  <2>5. \A j \in Slot : ls[j].used /\ j # i => ls[j].ip # ls[i].ip
    BY <2>2, Zenon DEF Matching
  <2> DEFINE new == [ls EXCEPT ![i].start = t]
  <2>6. /\ new \in [Slot -> Lease]
        /\ Matching(new)
        /\ Past(ls, t) => Past(new, t)
        /\ Covers(new, m, ls[i].ip, t + LEASE_TIME)
        /\ \A j \in Slot : j # i => new[j] = ls[j]
    <3>1. new = [ls EXCEPT ![i].ip = ls[i].ip, ![i].start = t]
      BY <2>4, Zenon
    <3>2. Updates(ls, i, m, ls[i].ip, t, new)
      BY <2>2, <2>5, <3>1, Zenon DEF Updates
    <3> HIDE DEF new
    <3>3. Written(ls, i, m, ls[i].ip, t, new) /\ (new[i].used <=> ls[i].used)
      BY <2>2, <3>2, UpdateLease, Zenon
    <3> QED BY <2>2, <3>3, Zenon DEF Written
  <2>7. o.leases = new /\ o.ip = ls[i].ip
    BY <2>1, Zenon
  <2>8. ASSUME Past(ls, t), NEW n \in Mac, NEW a \in Pool \cup {NULL}, NEW u \in Nat,
               Covers(ls, n, a, u), t <= u
        PROVE  Covers(new, n, a, u)
    <3>1. PICK j \in Slot : /\ ls[j].used /\ ls[j].mac = n /\ ls[j].ip = a
                            /\ u <= ls[j].start + LEASE_TIME
      BY <2>8, Zenon DEF Covers, Leased
    <3>2. CASE j = i
      <4>1. ls[i].start \in Nat /\ ls[i].start <= t
        BY <2>2, <2>3, <2>8, Zenon DEF Past, Lease
      <4>2. u <= t + LEASE_TIME
        BY <3>1, <3>2, <4>1, Numbers
      <4>3. n = m /\ a = ls[i].ip
        BY <2>2, <3>1, <3>2, Zenon
      <4>4. Covers(new, m, ls[i].ip, t + LEASE_TIME)
        BY <2>6, Zenon
      <4> HIDE DEF new
      <4>5. PICK k \in Slot : /\ Leased(new, k, m) /\ new[k].ip = ls[i].ip
                              /\ t + LEASE_TIME <= new[k].start + LEASE_TIME
        BY <4>4, Zenon DEF Covers
      <4>6. new[k].start \in Nat
        BY <2>6, Zenon DEF Lease
      <4>7. u <= new[k].start + LEASE_TIME
        BY <4>2, <4>5, <4>6, Numbers
      <4> QED BY <4>3, <4>5, <4>7, Zenon DEF Covers
    <3>3. CASE j # i
      <4> HIDE DEF new
      <4>1. new[j] = ls[j]
        BY <2>6, <3>3, Zenon
      <4> QED BY <3>1, <4>1, Zenon DEF Covers, Leased
    <3> QED BY <3>2, <3>3, Zenon
  <2> HIDE DEF new
  <2> QED BY <2>2, <2>6, <2>7, <2>8, Zenon DEF Sound, Keeps
<1>4. CASE dhcpd_find_lease(ls, m) = {} /\ (unused = {} \/ slots = {})
  <2>1. o = [leases |-> now, ip |-> NULL]
    BY <1>4 DEF dhcpd_alloc_ip
  <2>2. o.leases = now /\ o.ip = NULL
    BY <2>1, Zenon
  <2> HIDE DEF now
  <2> QED BY <1>1, <1>2, <2>2, Zenon DEF Sound, Keeps
<1>5. CASE dhcpd_find_lease(ls, m) = {} /\ unused # {} /\ slots # {}
  <2>1. PICK i \in slots, ip \in unused :
               o = [leases |-> [now EXCEPT ![i] = NewLease(m, ip, t)], ip |-> ip]
    BY <1>5 DEF dhcpd_alloc_ip
  <2>2. i \in Slot /\ ~now[i].used
    BY Zenon DEF dhcpd_get_available_lease_slot
  <2>3. ip \in Pool /\ \A j \in Slot : now[j].used => now[j].ip # ip
    BY Zenon DEF dhcpd_ip_is_allocated
  <2>4. \A j \in Slot : now[j].used => now[j].mac # m
    <3> SUFFICES ASSUME NEW j \in Slot, now[j].used, now[j].mac = m PROVE FALSE
      BY Zenon
    <3>1. ls[j].used /\ ls[j].mac = m
      BY ExpireFacts, Zenon
    <3> QED BY <1>5, <3>1, Zenon DEF dhcpd_find_lease, Leased
  <2> HIDE DEF now, slots, unused
  <2> DEFINE new == [now EXCEPT ![i] = NewLease(m, ip, t)]
  <2>5. \A j \in Slot : now[j].used => now[j].mac # m /\ now[j].ip # ip
    BY <2>3, <2>4, Zenon
  <2>6. /\ new \in [Slot -> Lease]
        /\ Matching(new)
        /\ Past(now, t) => Past(new, t)
        /\ Covers(new, m, ip, t + LEASE_TIME)
        /\ \A j \in Slot : now[j].used => new[j] = now[j]
    <3>1. Creates(now, i, m, ip, t, new)
      BY <2>2, <2>5, Zenon DEF Creates
    <3> HIDE DEF new
    <3>2. Written(now, i, m, ip, t, new) /\ new[i].used
      BY <1>1, <2>2, <2>3, <3>1, CreateLease, Zenon
    <3> QED BY <2>2, <3>2, Zenon DEF Written
  <2>7. o.leases = new /\ o.ip = ip
    BY <2>1, Zenon
  <2> HIDE DEF new
  <2>8. ASSUME NEW n \in Mac, NEW a \in Pool \cup {NULL}, NEW u \in Nat,
               Covers(ls, n, a, u), t <= u
        PROVE  Covers(new, n, a, u)
    <3>1. Covers(now, n, a, u)
      BY <1>2, <2>8, Zenon
    <3>2. \A j \in Slot : Leased(now, j, n) => new[j] = now[j]
      BY <2>6, Zenon DEF Leased
    <3> QED BY <3>1, <3>2, SameCovers, Zenon
  <2> QED BY <1>1, <2>3, <2>6, <2>7, <2>8, Zenon DEF Sound, Keeps
<1> QED BY <1>3, <1>4, <1>5, Zenon

\* found is the table as the look-up at c left it, now as the later checks
\* at t see it: matchings that still cover every grant that lasts beyond t.
Seen(ls, c, t, found, now) ==
    /\ found \in [Slot -> Lease] /\ Matching(found)
    /\ now \in [Slot -> Lease] /\ Matching(now)
    /\ Past(ls, t) => Past(now, t)
    /\ \A i \in Slot : now[i].mac = found[i].mac /\ now[i].ip = found[i].ip
    /\ \A i \in Slot : now[i].used => found[i].used
    /\ t = c => \A i \in Slot : found[i].used => now[i].used
    /\ \A n \in Mac, a \in Pool \cup {NULL}, u \in Nat :
          Covers(ls, n, a, u) /\ t <= u => Covers(now, n, a, u)

\* Two expiries in a row give such tables.
LEMMA TwiceExpired ==
    ASSUME NEW ls \in [Slot -> Lease], NEW c \in Nat, NEW t \in Nat, c <= t,
           Matching(ls), NEW found, found = dhcpd_expire_leases(ls, c),
           NEW now, now = dhcpd_expire_leases(found, t)
    PROVE  Seen(ls, c, t, found, now)
<1>1. found \in [Slot -> Lease] /\ Matching(found)
  BY ExpireFacts, ExpireMatching, Zenon
<1>2. now \in [Slot -> Lease] /\ Matching(now)
  BY <1>1, ExpireFacts, ExpireMatching, Zenon
<1>3. Past(ls, t) => Past(now, t)
  BY <1>1, ExpirePast, Zenon
<1>4. \A i \in Slot : now[i].mac = found[i].mac /\ now[i].ip = found[i].ip
  BY <1>1, ExpireFacts, ZenonT(60)
<1>5. \A i \in Slot : now[i].used => found[i].used
  BY <1>1, ExpireFacts, Zenon
<1>6. ASSUME t = c, NEW i \in Slot, found[i].used PROVE now[i].used
  <2>1. c <= ls[i].start + LEASE_TIME /\ found[i].start = ls[i].start
    BY <1>6, ExpireFacts, Zenon
  <2> QED BY <1>1, <1>6, <2>1, ExpireFacts, ZenonT(60)
<1>7. ASSUME NEW n \in Mac, NEW a \in Pool \cup {NULL}, NEW u \in Nat,
             Covers(ls, n, a, u), t <= u
      PROVE  Covers(now, n, a, u)
  <2>1. c <= u
    BY <1>7
  <2>2. Covers(found, n, a, u)
    BY <1>7, <2>1, ExpireCovers, Zenon
  <2> QED BY <1>1, <1>7, <2>2, ExpireCovers, Zenon
<1> QED BY <1>1, <1>2, <1>3, <1>4, <1>5, <1>6, <1>7, Zenon DEF Seen

\* dhcpd_process_lease is sound at whatever instants the clock is read, and
\* breaks no grant of another client; when the clock stands still, it also
\* leases the address it returns.
LEMMA ProcessOutcome ==
    ASSUME NEW ls \in [Slot -> Lease], clock \in Nat, NEW t \in Nat, clock <= t,
           NEW m \in Mac, NEW ip \in Pool, Matching(ls),
           NEW o \in dhcpd_process_lease(ls, m, ip, t)
    PROVE  /\ Sound(ls, t, o)
           /\ o.ip # NULL /\ t = clock => Covers(o.leases, m, o.ip, t + LEASE_TIME)
           /\ Past(ls, t) => \A n \in Mac \ {m} : Keeps(ls, n, t, o)
<1> DEFINE found == dhcpd_expire_leases(ls, clock)
           now == dhcpd_expire_leases(found, t)
           lease == dhcpd_find_lease(found, m)
           slots == dhcpd_get_available_lease_slot(now)
           taken == /\ dhcpd_ip_is_allocated(now, ip)
                    /\ ~dhcpd_ip_allocated_to_mac(now, ip, m)
<1>0. found = dhcpd_expire_leases(ls, clock) /\ now = dhcpd_expire_leases(found, t)
  BY Zenon
<1>5. Seen(ls, clock, t, found, now)
  <2> HIDE DEF found, now
  <2> QED BY <1>0, TwiceExpired, Zenon
<1>1. CASE taken
  <2>1. o \in dhcpd_alloc_ip(now, m, t)
    BY <1>1, Zenon DEF dhcpd_process_lease
  <2> HIDE DEF found, now
  <2>2. /\ now \in [Slot -> Lease] /\ Matching(now)
        /\ Past(ls, t) => Past(now, t)
        /\ \A n \in Mac, a \in Pool \cup {NULL}, u \in Nat :
                 Covers(ls, n, a, u) /\ t <= u => Covers(now, n, a, u)
    BY <1>5, ZenonT(60) DEF Seen
  <2>3. /\ Sound(now, t, o)
        /\ o.ip # NULL => Covers(o.leases, m, o.ip, t + LEASE_TIME)
        /\ Past(now, t) => \A n \in Mac : Keeps(now, n, t, o)
    BY <2>1, <2>2, AllocOutcome, Zenon
  <2>4. Sound(ls, t, o)
    BY <2>2, <2>3, Zenon DEF Sound
  <2>5. ASSUME Past(ls, t), NEW n \in Mac \ {m} PROVE Keeps(ls, n, t, o)
    BY <2>2, <2>3, <2>5, ZenonT(60) DEF Keeps
  <2> QED BY <2>3, <2>4, <2>5, Zenon
<1>2. CASE ~taken /\ lease # {}
  <2>1. PICK i \in lease :
               o = [leases |-> [now EXCEPT ![i].ip = ip, ![i].start = t], ip |-> ip]
    BY <1>2, Zenon DEF dhcpd_process_lease
  <2>2. \A k \in Slot : now[k].used /\ now[k].ip = ip =>
           \E j \in Slot : now[j].used /\ now[j].mac = m /\ now[j].ip = ip
    BY <1>2, Zenon DEF dhcpd_ip_is_allocated, dhcpd_ip_allocated_to_mac, Leased
  <2> DEFINE new == [now EXCEPT ![i].ip = ip, ![i].start = t]
  <2>3. o.leases = new /\ o.ip = ip
    BY <2>1, Zenon
  <2>a. new = [now EXCEPT ![i].ip = ip, ![i].start = t]
    BY Zenon
  <2> HIDE DEF found, now, new, taken
  <2>4. /\ found \in [Slot -> Lease] /\ Matching(found)
        /\ now \in [Slot -> Lease] /\ Matching(now)
        /\ Past(ls, t) => Past(now, t)
        /\ \A j \in Slot : now[j].mac = found[j].mac /\ now[j].ip = found[j].ip
        /\ \A j \in Slot : now[j].used => found[j].used
        /\ t = clock => \A j \in Slot : found[j].used => now[j].used
        /\ \A n \in Mac, a \in Pool \cup {NULL}, u \in Nat :
                 Covers(ls, n, a, u) /\ t <= u => Covers(now, n, a, u)
    BY <1>5, Zenon DEF Seen
  <2>5. /\ i \in Slot /\ found[i].used /\ found[i].mac = m
        /\ \A j \in Slot : found[j].used /\ found[j].mac = m => j = i
    BY <2>4, FindFacts
  <2>6. ASSUME NEW j \in Slot, now[j].used, j # i PROVE now[j].ip # ip
    <3> SUFFICES ASSUME now[j].ip = ip PROVE FALSE
      BY Zenon
    <3>1. PICK k \in Slot : now[k].used /\ now[k].mac = m /\ now[k].ip = ip
      BY <2>2, <2>6, Zenon
    <3>2. k = i
      BY <2>4, <2>5, <3>1, Zenon
    <3>3. now[i].used /\ now[i].ip = ip
      BY <3>1, <3>2, Zenon
    <3>4. now[j].ip # now[i].ip
      BY <2>4, <2>5, <2>6, <3>3, Zenon DEF Matching
    <3> QED BY <3>3, <3>4, Zenon
  <2>7. Updates(now, i, m, ip, t, new)
    BY <2>a, <2>4, <2>5, <2>6, ZenonT(60) DEF Updates
  <2>8. Written(now, i, m, ip, t, new) /\ (new[i].used <=> now[i].used)
    BY <2>4, <2>5, <2>7, UpdateLease, Zenon
  <2>9. Sound(ls, t, o)
    BY <2>3, <2>4, <2>8, Zenon DEF Sound, Written
  <2>10. t = clock => Covers(new, m, ip, t + LEASE_TIME)
    BY <2>4, <2>5, <2>8, Zenon DEF Written
  <2>11. ASSUME NEW n \in Mac \ {m}, NEW a \in Pool \cup {NULL}, NEW u \in Nat,
                Covers(ls, n, a, u), t <= u
         PROVE  Covers(new, n, a, u)
    <3>1. Covers(now, n, a, u)
      BY <2>4, <2>11, Zenon
    <3>2. ASSUME NEW j \in Slot, Leased(now, j, n) PROVE new[j] = now[j]
      <4>1. j # i
        BY <2>4, <2>5, <3>2, Zenon DEF Leased
      <4> QED BY <2>8, <4>1, Zenon DEF Written
    <3> QED BY <3>1, <3>2, SameCovers, Zenon
  <2> QED BY <2>3, <2>9, <2>10, <2>11, Zenon DEF Keeps
<1>3. CASE ~taken /\ lease = {} /\ slots = {}
  <2>1. o = [leases |-> now, ip |-> NULL]
    BY <1>3, Zenon DEF dhcpd_process_lease
  <2>2. o.leases = now /\ o.ip = NULL
    BY <2>1, Zenon
  <2> HIDE DEF found, now
  <2>3. /\ now \in [Slot -> Lease] /\ Matching(now)
        /\ Past(ls, t) => Past(now, t)
        /\ \A n \in Mac, a \in Pool \cup {NULL}, u \in Nat :
                 Covers(ls, n, a, u) /\ t <= u => Covers(now, n, a, u)
    BY <1>5, Zenon DEF Seen
  <2> QED BY <2>2, <2>3, Zenon DEF Sound, Keeps
<1>4. CASE ~taken /\ lease = {} /\ slots # {}
  <2>1. PICK i \in slots :
               o = [leases |-> [now EXCEPT ![i] = NewLease(m, ip, t)], ip |-> ip]
    BY <1>4, Zenon DEF dhcpd_process_lease
  <2>2. i \in Slot /\ ~now[i].used
    BY Zenon DEF dhcpd_get_available_lease_slot
  <2>3. \A k \in Slot : now[k].used /\ now[k].ip = ip =>
           \E j \in Slot : now[j].used /\ now[j].mac = m /\ now[j].ip = ip
    BY <1>4, Zenon DEF dhcpd_ip_is_allocated, dhcpd_ip_allocated_to_mac, Leased
  <2>4. \A j \in Slot : found[j].used => found[j].mac # m
    BY <1>4, Zenon DEF dhcpd_find_lease, Leased
  <2> DEFINE new == [now EXCEPT ![i] = NewLease(m, ip, t)]
  <2>5. o.leases = new /\ o.ip = ip
    BY <2>1, Zenon
  <2>a. new = [now EXCEPT ![i] = NewLease(m, ip, t)]
    BY Zenon
  <2> HIDE DEF found, now, new, slots
  <2>6. /\ now \in [Slot -> Lease] /\ Matching(now)
        /\ Past(ls, t) => Past(now, t)
        /\ \A j \in Slot : now[j].mac = found[j].mac /\ now[j].ip = found[j].ip
        /\ \A j \in Slot : now[j].used => found[j].used
        /\ \A n \in Mac, a \in Pool \cup {NULL}, u \in Nat :
                 Covers(ls, n, a, u) /\ t <= u => Covers(now, n, a, u)
    BY <1>5, Zenon DEF Seen
  <2>7. \A j \in Slot : now[j].used => now[j].mac # m
    BY <2>4, <2>6, Zenon
  <2>8. \A j \in Slot : now[j].used => now[j].ip # ip
    BY <2>3, <2>7, Zenon
  <2>9. Creates(now, i, m, ip, t, new)
    BY <2>a, <2>2, <2>7, <2>8, ZenonT(60) DEF Creates
  <2>10. Written(now, i, m, ip, t, new) /\ new[i].used
    BY <2>2, <2>6, <2>9, CreateLease, Zenon
  <2>11. Sound(ls, t, o)
    BY <2>5, <2>6, <2>10, Zenon DEF Sound, Written
  <2>12. Covers(new, m, ip, t + LEASE_TIME)
    BY <2>10, Zenon DEF Written
  <2>13. ASSUME NEW n \in Mac, NEW a \in Pool \cup {NULL}, NEW u \in Nat,
                Covers(ls, n, a, u), t <= u
         PROVE  Covers(new, n, a, u)
    <3>1. Covers(now, n, a, u)
      BY <2>6, <2>13, Zenon
    <3>2. \A j \in Slot : Leased(now, j, n) => new[j] = now[j]
      BY <2>2, <2>10, Zenon DEF Leased, Written
    <3> QED BY <3>1, <3>2, SameCovers, Zenon
  <2> QED BY <2>5, <2>11, <2>12, <2>13, Zenon DEF Keeps
<1> QED BY <1>1, <1>2, <1>3, <1>4, Zenon

\* dhcpd_handle_discover is sound as well; when the clock stands still, it
\* breaks no grant and leases the address it offers.
LEMMA DiscoverOutcome ==
    ASSUME NEW ls \in [Slot -> Lease], clock \in Nat, NEW t \in Nat, clock <= t,
           NEW m \in Mac, Matching(ls),
           NEW o \in dhcpd_handle_discover(ls, m, t)
    PROVE  /\ Sound(ls, t, o)
           /\ t = clock /\ Past(ls, t) => \A n \in Mac : Keeps(ls, n, t, o)
<1> DEFINE found == dhcpd_expire_leases(ls, clock)
           now == dhcpd_expire_leases(found, t)
           lease == dhcpd_find_lease(found, m)
           kept == {i \in lease : \/ ~dhcpd_ip_is_allocated(now, now[i].ip)
                                  \/ dhcpd_ip_allocated_to_mac(now, now[i].ip, m)}
           dropped == [i \in Slot |-> IF i \in lease
                                      THEN [now[i] EXCEPT !.used = FALSE, !.mac = NULL]
                                      ELSE now[i]]
<1>0. found = dhcpd_expire_leases(ls, clock) /\ now = dhcpd_expire_leases(found, t)
  BY Zenon
<1>1. Seen(ls, clock, t, found, now)
  <2> HIDE DEF found, now
  <2> QED BY <1>0, TwiceExpired, Zenon
<1>2. CASE kept # {}
  <2>1. PICK i \in kept : o = [leases |-> now, ip |-> now[i].ip]
    BY <1>2, Zenon DEF dhcpd_handle_discover
  <2>2. i \in Slot
    BY Zenon DEF dhcpd_find_lease
  <2>3. o.leases = now /\ o.ip = now[i].ip
    BY <2>1, Zenon
  <2> HIDE DEF found, now
  <2>4. now[i].ip \in Pool \cup {NULL}
    BY <1>1, <2>2, Zenon DEF Seen, Lease
  <2> QED BY <1>1, <2>3, <2>4, Zenon DEF Sound, Keeps, Seen
<1>3. CASE kept = {}
  <2>1. o \in dhcpd_alloc_ip(dropped, m, t)
    BY <1>3, Zenon DEF dhcpd_handle_discover
  <2>2. t = clock => lease = {}
    <3> SUFFICES ASSUME t = clock, NEW i \in lease PROVE FALSE
      BY Zenon
    <3>1. i \in Slot /\ found[i].used /\ found[i].mac = m
      BY Zenon DEF dhcpd_find_lease, Leased
    <3>2. now[i].used /\ now[i].mac = m
      <4> HIDE DEF found, now
      <4> QED BY <1>1, <3>1, Zenon DEF Seen
    <3>3. dhcpd_ip_allocated_to_mac(now, now[i].ip, m)
      <4> HIDE DEF found, now
      <4> QED BY <3>1, <3>2, Zenon DEF dhcpd_ip_allocated_to_mac, Leased
    <3>4. i \in kept
      BY <3>3, Zenon
    <3> QED BY <1>3, <3>4, Zenon
  <2>3. dropped = [i \in Slot |-> IF i \in lease
                                  THEN [now[i] EXCEPT !.used = FALSE, !.mac = NULL]
                                  ELSE now[i]]
    BY Zenon
  <2> HIDE DEF found, now, lease, kept, dropped
  <2>4. now \in [Slot -> Lease] /\ Matching(now)
    BY <1>1, Zenon DEF Seen
  <2>5. ASSUME NEW l \in Lease
        PROVE  /\ [l EXCEPT !.used = FALSE, !.mac = NULL] \in Lease
               /\ [l EXCEPT !.used = FALSE, !.mac = NULL].start = l.start
    BY Zenon DEF Lease
  <2>6. ASSUME NEW l \in Lease
        PROVE  ~[l EXCEPT !.used = FALSE, !.mac = NULL].used
    BY Zenon DEF Lease
  <2>7. ASSUME NEW i \in Slot
        PROVE  /\ dropped[i] \in Lease
               /\ dropped[i].start = now[i].start
               /\ dropped[i].used => dropped[i] = now[i]
    <3>1. now[i] \in Lease
      BY <2>4, Zenon
    <3>2. CASE i \in lease
      <4>1. dropped[i] = [now[i] EXCEPT !.used = FALSE, !.mac = NULL]
        BY <2>3, <3>2, Zenon
      <4> QED BY <2>5, <2>6, <3>1, <4>1, Zenon
    <3>3. CASE i \notin lease
      <4>1. dropped[i] = now[i]
        BY <2>3, <3>3, ZenonT(60)
      <4> QED BY <3>1, <4>1, Zenon
    <3> QED BY <3>2, <3>3, Zenon
  <2>8. dropped \in [Slot -> Lease]
    BY <2>3, <2>7, Zenon
  <2>9. Matching(dropped)
    <3>1. ASSUME NEW i \in Slot, dropped[i].used
          PROVE  dropped[i].mac \in Mac /\ dropped[i].ip \in Pool
      BY <2>4, <2>7, <3>1, Zenon DEF Matching
    <3>2. ASSUME NEW i \in Slot, NEW j \in Slot, i # j, dropped[i].used, dropped[j].used
          PROVE  dropped[i].mac # dropped[j].mac /\ dropped[i].ip # dropped[j].ip
      <4>1. dropped[i] = now[i] /\ dropped[j] = now[j]
        BY <2>7, <3>2, Zenon
      <4>2. now[i].used /\ now[j].used
        BY <3>2, <4>1, Zenon
      <4> QED BY <2>4, <3>2, <4>1, <4>2, Zenon DEF Matching
    <3> QED BY <3>1, <3>2, Zenon DEF Matching
  <2>10. Past(ls, t) => Past(dropped, t)
    BY <1>1, <2>7, Zenon DEF Past, Seen
  <2>11. /\ Sound(dropped, t, o)
         /\ Past(dropped, t) => \A n \in Mac : Keeps(dropped, n, t, o)
    BY <2>1, <2>8, <2>9, AllocOutcome, Zenon
  <2>12. Sound(ls, t, o)
    BY <2>10, <2>11, Zenon DEF Sound
  <2>13. ASSUME t = clock, Past(ls, t), NEW n \in Mac PROVE Keeps(ls, n, t, o)
    <3>1. dropped = now
      BY <2>2, <2>3, <2>4, <2>13, Zenon
    <3>2. \A a \in Pool \cup {NULL}, u \in Nat :
             Covers(ls, n, a, u) /\ t <= u => Covers(now, n, a, u)
      BY <1>1, Zenon DEF Seen
    <3>3. Keeps(dropped, n, t, o)
      BY <2>10, <2>11, <2>13, Zenon
    <3> QED BY <3>1, <3>2, <3>3, ZenonT(60) DEF Keeps
  <2> QED BY <2>12, <2>13, Zenon
<1> QED BY <1>2, <1>3, Zenon

(***************************************************************************)
(* The invariants.                                                         *)
(***************************************************************************)
\* The instants at which one packet reads the clock.
LEMMA InstantFacts ==
    ASSUME clock \in Nat, NEW t \in Instant
    PROVE  t \in Nat /\ clock <= t /\ (~TickInHandler => t = clock)
BY DEF Instant

\* The table, without grants: holds however the clock ticks.
TableInv == TypeOK /\ LeaseTable /\ Past(leases, clock)

\* The initial table is empty.
LEMMA EmptyTable ==
    /\ NoLeases \in [Slot -> Lease]
    /\ Matching(NoLeases)
    /\ \A t \in Nat : Past(NoLeases, t)
<1>1. FreeLease \in Lease /\ FreeLease.start = 0
  BY Zenon DEF FreeLease, Lease
<1>2. ~FreeLease.used
  BY Zenon DEF FreeLease
<1>3. NoLeases \in [Slot -> Lease] /\ \A i \in Slot : NoLeases[i] = FreeLease
  BY <1>1, Zenon DEF NoLeases
<1>4. Matching(NoLeases)
  BY <1>2, <1>3, Zenon DEF Matching
<1>5. \A t \in Nat : Past(NoLeases, t)
  BY <1>1, <1>3 DEF Past
<1> QED BY <1>3, <1>4, <1>5, Zenon

\* The part of TypeOK about the table, the answers and the clients.
LeaseTypes ==
    /\ leases \in [Slot -> Lease]
    /\ clock \in Nat
    /\ reply \in Reply
    /\ acked \in [Mac -> Grant]

\* The part about starting and stopping.
ServerTypes ==
    /\ udp_packet_handler \in Handler
    /\ original_udp_handler \in Handler \cup {NULL}
    /\ dhcpd_state \in {"STOPPED", "RUNNING"}
    /\ httpd \in BOOLEAN
    /\ blocking \in BOOLEAN
    /\ starts \in Nat

\* The two parts make up TypeOK.
LEMMA TypeParts == TypeOK <=> LeaseTypes /\ ServerTypes
BY Zenon DEF TypeOK, LeaseTypes, ServerTypes

\* No grant is a grant, and what an acknowledgement gives is one.
LEMMA GrantTypes ==
    /\ NoGrant \in Grant
    /\ \A ip \in Pool \cup {NULL}, t \in Nat :
          [ip |-> ip, until |-> t + LEASE_TIME] \in Grant
BY Numbers DEF NoGrant, Grant

\* The types of replies.
LEMMA ReplyTypes ==
    /\ NoReply \in Reply
    /\ \A y \in {"OFFER", "ACK", "NAK"}, m \in Mac, ip \in Pool \cup {NULL} :
          [type |-> y, mac |-> m, ip |-> ip] \in Reply
BY Zenon DEF NoReply, Reply

\* The initial state satisfies the table invariant.
LEMMA TableInit == Init => TableInv
<1> SUFFICES ASSUME Init PROVE TableInv
  BY Zenon
<1>1. LeaseTypes
  BY EmptyTable, GrantTypes, ReplyTypes, Zenon DEF Init, LeaseTypes
<1>2. ServerTypes
  BY Zenon DEF Init, ServerTypes, Handler
<1>3. LeaseTable /\ Past(leases, clock)
  BY EmptyTable, Zenon DEF Init, LeaseTable
<1> QED BY <1>1, <1>2, <1>3, TypeParts, Zenon DEF TableInv

\* Every step keeps the types of the server's own variables.
LEMMA ServerStep == ServerTypes /\ [Next]_vars => ServerTypes'
<1> SUFFICES ASSUME ServerTypes, [Next]_vars PROVE ServerTypes'
  BY Zenon
<1>1. CASE UNCHANGED serverVars
  BY <1>1, Zenon DEF serverVars, ServerTypes
<1>2. CASE Discover \/ RequestAddress \/ RequestRenew \/ RequestRefused \/ Forwarded \/ Tick
  BY <1>1, <1>2, Zenon DEF Discover, RequestAddress, RequestRenew, RequestRefused,
                           Forwarded, Tick
<1>3. CASE HttpdStart \/ dhcpd_request_nonblocking \/ dhcpd_request
  <2>1. /\ starts' = starts + 1
        /\ original_udp_handler' = udp_packet_handler
        /\ udp_packet_handler' = "dhcpd"
        /\ dhcpd_state' = "RUNNING"
    BY <1>3, Zenon DEF HttpdStart, dhcpd_request_nonblocking, dhcpd_request,
                       dhcpd_init_server
  <2>2. httpd' \in {TRUE, httpd} /\ blocking' \in {TRUE, blocking}
    BY <1>3, Zenon DEF HttpdStart, dhcpd_request_nonblocking, dhcpd_request
  <2>3. httpd' \in BOOLEAN /\ blocking' \in BOOLEAN
    BY <2>2, Zenon DEF ServerTypes
  <2>4. starts' \in Nat
    BY <2>1 DEF ServerTypes
  <2> QED BY <2>1, <2>3, <2>4, Zenon DEF ServerTypes, Handler
<1>4. CASE HttpdStop \/ dhcpd_stop_server
  BY <1>4, ZenonT(60) DEF HttpdStop, dhcpd_stop_server, dhcpd_deinit_server, ServerTypes, Handler
<1>5. CASE net_loop
  BY <1>5 DEF net_loop, ServerTypes, Handler
<1>6. CASE UNCHANGED vars
  BY <1>1, <1>6, Zenon DEF vars, serverVars
<1> QED BY <1>2, <1>3, <1>4, <1>5, <1>6, Zenon DEF Next

\* Every step keeps the table a matching of the right type.
LEMMA TableStep ==
    ASSUME LeaseTypes, LeaseTable, Past(leases, clock), [Next]_vars
    PROVE  LeaseTypes' /\ LeaseTable' /\ Past(leases, clock)'
<1>0. leases \in [Slot -> Lease] /\ clock \in Nat /\ Matching(leases)
  BY Zenon DEF LeaseTypes, LeaseTable
<1>1. ASSUME NEW t \in Nat, clock <= t PROVE Past(leases, t)
  BY <1>0, <1>1 DEF Past, Lease
<1>2. ASSUME NEW t \in Nat, clock <= t, NEW o, Sound(leases, t, o),
             leases' = o.leases, clock' = t
      PROVE  leases' \in [Slot -> Lease] /\ LeaseTable' /\ Past(leases, clock)' /\ clock' \in Nat
  BY <1>1, <1>2, Zenon DEF Sound, LeaseTable
<1>3. CASE Discover
  <2>1. PICK m \in Mac, t \in Instant :
             \E o \in dhcpd_handle_discover(leases, m, t) :
                /\ leases' = o.leases /\ clock' = t /\ acked' = acked
                /\ reply' = [type |-> "OFFER", mac |-> m, ip |-> o.ip]
    BY <1>3, Zenon DEF Discover
  <2>2. PICK o \in dhcpd_handle_discover(leases, m, t) :
                /\ leases' = o.leases /\ clock' = t /\ acked' = acked
                /\ reply' = [type |-> "OFFER", mac |-> m, ip |-> o.ip]
    BY <2>1, Zenon
  <2>3. t \in Nat /\ clock <= t
    BY <1>0, InstantFacts, Zenon
  <2>4. Sound(leases, t, o)
    BY <1>0, <2>3, DiscoverOutcome, Zenon
  <2>5. reply' \in Reply /\ acked' \in [Mac -> Grant]
    BY <2>2, <2>4, ReplyTypes, Zenon DEF Sound, LeaseTypes
  <2> QED BY <1>2, <2>2, <2>3, <2>4, <2>5, Zenon DEF LeaseTypes
<1>4. CASE RequestAddress
  <2>1. PICK m \in Mac, ip \in Pool, t \in Instant, heard \in BOOLEAN :
             \E o \in dhcpd_process_lease(leases, m, ip, t) :
                /\ leases' = o.leases /\ clock' = t
                /\ IF o.ip = NULL
                   THEN reply' = NoReply /\ acked' = [acked EXCEPT ![m] = NoGrant]
                   ELSE /\ reply' = [type |-> "ACK", mac |-> m, ip |-> o.ip]
                        /\ acked' = Granted(m, o.ip, t, heard, NoGrant)
    BY <1>4, ZenonT(60) DEF RequestAddress
  <2>2. PICK o \in dhcpd_process_lease(leases, m, ip, t) :
                /\ leases' = o.leases /\ clock' = t
                /\ IF o.ip = NULL
                   THEN reply' = NoReply /\ acked' = [acked EXCEPT ![m] = NoGrant]
                   ELSE /\ reply' = [type |-> "ACK", mac |-> m, ip |-> o.ip]
                        /\ acked' = Granted(m, o.ip, t, heard, NoGrant)
    BY <2>1, Zenon
  <2>3. t \in Nat /\ clock <= t
    BY <1>0, InstantFacts, Zenon
  <2>4. Sound(leases, t, o)
    BY <1>0, <2>3, ProcessOutcome, Zenon
  <2>5. o.ip \in Pool \cup {NULL}
    BY <2>4, Zenon DEF Sound
  <2>6. reply' \in Reply
    BY <2>2, <2>5, ReplyTypes, Zenon
  <2>7. ASSUME NEW g \in Grant PROVE [acked EXCEPT ![m] = g] \in [Mac -> Grant]
    BY Zenon DEF LeaseTypes
  <2>8. acked' \in [Mac -> Grant]
    BY <2>2, <2>3, <2>5, <2>7, GrantTypes, ZenonT(60) DEF Granted
  <2> QED BY <1>2, <2>2, <2>3, <2>4, <2>6, <2>8, Zenon DEF LeaseTypes
<1>5. CASE RequestRenew
  <2>1. PICK m \in Mac, t \in Instant, heard \in BOOLEAN :
             \E o \in dhcpd_alloc_ip(leases, m, t) :
                /\ leases' = o.leases /\ clock' = t
                /\ IF o.ip = NULL
                   THEN reply' = NoReply /\ acked' = acked
                   ELSE /\ reply' = [type |-> "ACK", mac |-> m, ip |-> o.ip]
                        /\ acked' = Granted(m, o.ip, t, heard, acked[m])
    BY <1>5, ZenonT(60) DEF RequestRenew
  <2>2. PICK o \in dhcpd_alloc_ip(leases, m, t) :
                /\ leases' = o.leases /\ clock' = t
                /\ IF o.ip = NULL
                   THEN reply' = NoReply /\ acked' = acked
                   ELSE /\ reply' = [type |-> "ACK", mac |-> m, ip |-> o.ip]
                        /\ acked' = Granted(m, o.ip, t, heard, acked[m])
    BY <2>1, Zenon
  <2>3. t \in Nat /\ clock <= t
    BY <1>0, InstantFacts, Zenon
  <2>4. Sound(leases, t, o)
    BY <1>0, <2>3, AllocOutcome, Zenon
  <2>5. o.ip \in Pool \cup {NULL}
    BY <2>4, Zenon DEF Sound
  <2>6. reply' \in Reply
    BY <2>2, <2>5, ReplyTypes, Zenon
  <2>7. ASSUME NEW g \in Grant PROVE [acked EXCEPT ![m] = g] \in [Mac -> Grant]
    BY Zenon DEF LeaseTypes
  <2>8. acked[m] \in Grant /\ acked \in [Mac -> Grant]
    BY Zenon DEF LeaseTypes
  <2>9. acked' \in [Mac -> Grant]
    BY <2>2, <2>3, <2>5, <2>7, <2>8, GrantTypes, Zenon DEF Granted
  <2> QED BY <1>2, <2>2, <2>3, <2>4, <2>6, <2>9, Zenon DEF LeaseTypes
<1>6. CASE RequestRefused
  <2>1. PICK m \in Mac : /\ reply' = [type |-> "NAK", mac |-> m, ip |-> NULL]
                         /\ acked' = [acked EXCEPT ![m] = NoGrant]
                         /\ leases' = leases /\ clock' = clock
    BY <1>6, Zenon DEF RequestRefused
  <2>2. reply' \in Reply
    BY <2>1, ReplyTypes, Zenon
  <2>3. acked' \in [Mac -> Grant]
    BY <2>1, GrantTypes, Zenon DEF LeaseTypes
  <2> QED BY <2>1, <2>2, <2>3, Zenon DEF LeaseTypes, LeaseTable
<1>7. CASE Forwarded
  BY <1>7, ReplyTypes, Zenon DEF Forwarded, leaseVars, LeaseTypes, LeaseTable
<1>8. CASE Tick
  <2>1. clock' = clock + 1 /\ leases' = leases /\ acked' = acked /\ reply' = reply
    BY <1>8, Zenon DEF Tick
  <2> QED BY <1>0, <1>1, <2>1 DEF LeaseTypes, LeaseTable
<1>9. CASE dhcpd_init_server
  <2>1. /\ leases' = NoLeases /\ clock' = clock /\ reply' = NoReply
        /\ acked' = [m \in Mac |-> NoGrant]
    BY <1>9, Zenon DEF dhcpd_init_server
  <2> QED BY <1>0, <2>1, EmptyTable, GrantTypes, ReplyTypes, Zenon DEF LeaseTypes, LeaseTable
<1>10. CASE UNCHANGED <<leaseVars, reply>>
  BY <1>10, Zenon DEF leaseVars, LeaseTypes, LeaseTable
<1>11. CASE HttpdStart \/ dhcpd_request_nonblocking \/ dhcpd_request
  BY <1>9, <1>11, Zenon DEF HttpdStart, dhcpd_request_nonblocking, dhcpd_request
<1>12. CASE HttpdStop \/ dhcpd_stop_server \/ net_loop
  BY <1>10, <1>12, Zenon DEF HttpdStop, dhcpd_stop_server, net_loop
<1>13. CASE UNCHANGED vars
  BY <1>10, <1>13, Zenon DEF vars, leaseVars
<1> QED BY <1>3, <1>4, <1>5, <1>6, <1>7, <1>8, <1>11, <1>12, <1>13, Zenon DEF Next

\* Types and table together.
LEMMA TableNext == TableInv /\ [Next]_vars => TableInv'
<1>1. ASSUME TableInv, [Next]_vars PROVE TypeOK' /\ LeaseTable' /\ Past(leases, clock)'
  <2>1. LeaseTypes /\ ServerTypes /\ LeaseTable /\ Past(leases, clock)
    BY <1>1, TypeParts, Zenon DEF TableInv
  <2>2. LeaseTypes' /\ LeaseTable' /\ Past(leases, clock)'
    BY <1>1, <2>1, TableStep, Zenon
  <2>3. ServerTypes'
    BY <1>1, <2>1, ServerStep, Zenon
  <2>4. TypeOK' <=> LeaseTypes' /\ ServerTypes'
    BY Zenon DEF TypeOK, LeaseTypes, ServerTypes
  <2> QED BY <2>2, <2>3, <2>4, Zenon
<1> QED BY <1>1, Zenon DEF TableInv

\* For every number of slots, pool and lease time, and whatever the clock does
\* while a packet is handled, only addresses of the pool are leased or sent,
\* and no client and no address has two leases at once.
THEOREM OneLeaseEach == Spec => [](TypeOK /\ LeaseTable)
<1>1. TableInv => TypeOK /\ LeaseTable
  BY Zenon DEF TableInv
<1> QED BY <1>1, TableInit, TableNext, PTL DEF Spec

(***************************************************************************)
(* Grants, when the clock does not advance while a packet is handled.      *)
(***************************************************************************)
\* Every step keeps the grants backed.
LEMMA GrantStep ==
    ASSUME ~TickInHandler, TableInv, Backed, [Next]_vars
    PROVE  Backed'
<1>0. /\ LeaseTypes /\ leases \in [Slot -> Lease] /\ clock \in Nat
      /\ Matching(leases) /\ Past(leases, clock) /\ acked \in [Mac -> Grant]
  BY TypeParts, Zenon DEF TableInv, LeaseTypes, LeaseTable
<1>1. \A n \in Mac : acked[n].ip \in Pool \cup {NULL} /\ acked[n].until \in Nat
  BY <1>0, Zenon DEF Grant
<1>2. ASSUME NEW n \in Mac, acked'[n] = acked[n], clock' \in {clock, clock + 1}, Holds(n)'
      PROVE  Holds(n) /\ clock' <= acked[n].until
  BY <1>0, <1>1, <1>2, SMTT(60) DEF Holds
<1>3. ASSUME NEW n \in Mac, NEW o, Keeps(leases, n, clock, o), leases' = o.leases,
             acked'[n] = acked[n], clock' = clock, Holds(n)'
      PROVE  Covers(leases, n, acked[n].ip, acked[n].until)'
  <2>1. Holds(n) /\ clock <= acked[n].until
    BY <1>2, <1>3, Zenon
  <2>2. Covers(leases, n, acked[n].ip, acked[n].until)
    BY <2>1, Zenon DEF Backed
  <2>3. Covers(o.leases, n, acked[n].ip, acked[n].until)
    BY <1>1, <1>3, <2>1, <2>2, Zenon DEF Keeps
  <2> QED BY <1>3, <2>3, Zenon DEF Covers, Leased
<1>4. ASSUME NEW n \in Mac, acked'[n] = NoGrant PROVE ~Holds(n)'
  BY <1>4 DEF NoGrant, Holds
<1>5. ASSUME NEW m \in Mac, NEW ip, NEW o, leases' = o.leases,
             acked'[m] = [ip |-> ip, until |-> clock + LEASE_TIME],
             Covers(o.leases, m, ip, clock + LEASE_TIME)
      PROVE  Covers(leases, m, acked[m].ip, acked[m].until)'
  <2>1. acked'[m].ip = ip /\ acked'[m].until = clock + LEASE_TIME
    BY <1>5
  <2> QED BY <1>5, <2>1, Zenon DEF Covers, Leased
<1>6. SUFFICES ASSUME NEW n \in Mac, Holds(n)'
               PROVE  Covers(leases, n, acked[n].ip, acked[n].until)'
  BY Zenon DEF Backed
<1>7. CASE Discover
  <2>1. PICK m \in Mac, t \in Instant :
             \E o \in dhcpd_handle_discover(leases, m, t) :
                leases' = o.leases /\ clock' = t /\ acked' = acked
    BY <1>7, Zenon DEF Discover
  <2>2. PICK o \in dhcpd_handle_discover(leases, m, t) :
                leases' = o.leases /\ clock' = t /\ acked' = acked
    BY <2>1, Zenon
  <2>3. t = clock /\ clock <= t
    BY <1>0, InstantFacts, Zenon
  <2>4. Keeps(leases, n, clock, o)
    BY <1>0, <2>3, DiscoverOutcome, Zenon
  <2> QED BY <1>3, <1>6, <2>2, <2>3, <2>4, Zenon
<1>8. CASE RequestAddress
  <2>1. PICK m \in Mac, ip \in Pool, t \in Instant, heard \in BOOLEAN :
             \E o \in dhcpd_process_lease(leases, m, ip, t) :
                /\ leases' = o.leases /\ clock' = t
                /\ IF o.ip = NULL
                   THEN reply' = NoReply /\ acked' = [acked EXCEPT ![m] = NoGrant]
                   ELSE /\ reply' = [type |-> "ACK", mac |-> m, ip |-> o.ip]
                        /\ acked' = Granted(m, o.ip, t, heard, NoGrant)
    BY <1>8, ZenonT(60) DEF RequestAddress
  <2>2. PICK o \in dhcpd_process_lease(leases, m, ip, t) :
                /\ leases' = o.leases /\ clock' = t
                /\ IF o.ip = NULL
                   THEN acked' = [acked EXCEPT ![m] = NoGrant]
                   ELSE acked' = Granted(m, o.ip, t, heard, NoGrant)
    BY <2>1, Zenon
  <2>3. t = clock /\ clock <= t
    BY <1>0, InstantFacts, Zenon
  <2>4. /\ o.ip \in Pool \cup {NULL}
        /\ o.ip # NULL => Covers(o.leases, m, o.ip, clock + LEASE_TIME)
        /\ n # m => Keeps(leases, n, clock, o)
    BY <1>0, <2>3, ProcessOutcome, Zenon DEF Sound
  <2>5. /\ n # m => acked'[n] = acked[n]
        /\ acked'[m] = NoGrant \/
           (o.ip # NULL /\ acked'[m] = [ip |-> o.ip, until |-> clock + LEASE_TIME])
    BY <1>0, <2>2, <2>3, <2>4, GrantTypes, Zenon DEF Granted
  <2>6. CASE n # m
    BY <1>3, <1>6, <2>2, <2>3, <2>4, <2>5, <2>6, Zenon
  <2>7. CASE n = m
    BY <1>4, <1>5, <1>6, <2>2, <2>4, <2>5, <2>7, Zenon
  <2> QED BY <2>6, <2>7, Zenon
<1>9. CASE RequestRenew
  <2>1. PICK m \in Mac, t \in Instant, heard \in BOOLEAN :
             \E o \in dhcpd_alloc_ip(leases, m, t) :
                /\ leases' = o.leases /\ clock' = t
                /\ IF o.ip = NULL
                   THEN reply' = NoReply /\ acked' = acked
                   ELSE /\ reply' = [type |-> "ACK", mac |-> m, ip |-> o.ip]
                        /\ acked' = Granted(m, o.ip, t, heard, acked[m])
    BY <1>9, ZenonT(60) DEF RequestRenew
  <2>2. PICK o \in dhcpd_alloc_ip(leases, m, t) :
                /\ leases' = o.leases /\ clock' = t
                /\ IF o.ip = NULL
                   THEN acked' = acked
                   ELSE acked' = Granted(m, o.ip, t, heard, acked[m])
    BY <2>1, Zenon
  <2>3. t = clock /\ clock <= t
    BY <1>0, InstantFacts, Zenon
  <2>4. /\ o.ip # NULL => Covers(o.leases, m, o.ip, clock + LEASE_TIME)
        /\ Keeps(leases, n, clock, o)
    BY <1>0, <2>3, AllocOutcome, Zenon DEF Sound
  <2>5. \/ acked'[n] = acked[n]
        \/ n = m /\ o.ip # NULL /\ acked'[m] = [ip |-> o.ip, until |-> clock + LEASE_TIME]
    BY <1>0, <2>2, <2>3, Zenon DEF Granted
  <2> QED BY <1>3, <1>5, <1>6, <2>2, <2>3, <2>4, <2>5, Zenon
<1>10. CASE RequestRefused
  <2>1. PICK m \in Mac : /\ acked' = [acked EXCEPT ![m] = NoGrant]
                         /\ leases' = leases /\ clock' = clock
    BY <1>10, Zenon DEF RequestRefused
  <2>2. n # m
    BY <1>0, <1>4, <1>6, <2>1, Zenon
  <2>3. acked'[n] = acked[n]
    BY <1>0, <2>1, <2>2, Zenon
  <2>4. Holds(n)
    BY <1>2, <1>6, <2>1, <2>3, Zenon
  <2>5. Covers(leases, n, acked[n].ip, acked[n].until)
    BY <2>4, Zenon DEF Backed
  <2> QED BY <2>1, <2>3, <2>5, Zenon DEF Covers, Leased
<1>11. CASE leases' = leases /\ acked' = acked /\ clock' \in {clock, clock + 1}
  <2>1. Holds(n)
    BY <1>2, <1>6, <1>11, Zenon
  <2>2. Covers(leases, n, acked[n].ip, acked[n].until)
    BY <2>1, Zenon DEF Backed
  <2> QED BY <1>11, <2>2, Zenon DEF Covers, Leased
<1>12. CASE dhcpd_init_server
  BY <1>4, <1>6, <1>12, Zenon DEF dhcpd_init_server
<1>13. CASE HttpdStart \/ dhcpd_request_nonblocking \/ dhcpd_request
  BY <1>12, <1>13, Zenon DEF HttpdStart, dhcpd_request_nonblocking, dhcpd_request
<1>14. CASE Tick \/ Forwarded \/ HttpdStop \/ dhcpd_stop_server \/ net_loop
  BY <1>11, <1>14, Zenon DEF Tick, Forwarded, HttpdStop, dhcpd_stop_server, net_loop, leaseVars
<1>15. CASE UNCHANGED vars
  BY <1>11, <1>15, Zenon DEF vars
<1> QED BY <1>7, <1>8, <1>9, <1>10, <1>13, <1>14, <1>15, Zenon DEF Next

\* As long as the clock does not advance while a packet is handled, and
\* whatever replies are lost, every grant a client still relies on is backed
\* by its lease, and two clients never rely on the same address.
THEOREM NoAddressTwice == ASSUME ~TickInHandler PROVE Spec => [](Backed /\ NoConflict)
<1>1. Init => Backed
  BY DEF Init, Backed, Holds, NoGrant
<1>2. TableInv /\ Backed /\ [Next]_vars => Backed'
  BY GrantStep, Zenon
<1>3. ASSUME TableInv, Backed PROVE NoConflict
  <2> SUFFICES ASSUME NEW m \in Mac, NEW n \in Mac, m # n, Holds(m), Holds(n),
                      acked[m].ip = acked[n].ip
               PROVE  FALSE
    BY Zenon DEF NoConflict
  <2>1. PICK i \in Slot : leases[i].used /\ leases[i].mac = m /\ leases[i].ip = acked[m].ip
    BY <1>3, Zenon DEF Backed, Covers, Leased
  <2>2. PICK j \in Slot : leases[j].used /\ leases[j].mac = n /\ leases[j].ip = acked[n].ip
    BY <1>3, Zenon DEF Backed, Covers, Leased
  <2>3. i # j /\ leases[i].ip = leases[j].ip
    BY <2>1, <2>2, Zenon
  <2> QED BY <1>3, <2>1, <2>2, <2>3, Zenon DEF TableInv, LeaseTable, Matching
<1> QED BY <1>1, <1>2, <1>3, TableInit, TableNext, PTL DEF Spec

-----------------------------------------------------------------------------
(* The pool.                                                               *)

\* What PoolInSubnet and PoolSparesServer say of one configuration.
GoodPool(c) ==
    HostAddress(c.server, c.size) =>
        /\ network(c.server, c.size) + 1 + FALLBACK < Top =>
              /\ c.start <= c.end
              /\ c.start > network(c.server, c.size)
              /\ c.end < broadcast(c.server, c.size)
        /\ c.size > SPAN + FALLBACK + 1 => c.server \notin c.start..c.end

\* Sums of at most one wrap.
LEMMA Wrap ==
    ASSUME NEW n \in Nat, NEW x \in Nat, n > 0
    PROVE  /\ x < n => x % n = x
           /\ x >= n /\ x < 2 * n => x % n = x - n
           /\ x % n \in 0..(n - 1)
<1>1. x % n \in 0..(n - 1)
  OBVIOUS
<1>2. x < n => x % n = x
  BY SMTT(30)
<1>3. x >= n /\ x < 2 * n => x % n = x - n
  BY SMTT(30)
<1> QED BY <1>1, <1>2, <1>3, Zenon

\* The network address and the size of a subnet in numbers.
LEMMA Subnet ==
    ASSUME NEW ip \in Address, NEW size \in Sizes
    PROVE  /\ ip \in Nat /\ ip < Top /\ size \in Nat /\ size >= 1
           /\ Top \in Nat /\ SPAN \in Nat /\ FALLBACK \in Nat
           /\ SPAN >= 2 /\ SPAN <= Top
           /\ network(ip, size) \in Nat
           /\ broadcast(ip, size) = network(ip, size) + size - 1
           /\ broadcast(ip, size) < Top
<1>1. /\ Top \in Nat /\ SPAN \in Nat /\ FALLBACK \in Nat
      /\ SPAN >= 2 /\ SPAN <= Top /\ size \in Nat /\ size >= 1
  BY NetworkAssumption, Zenon
<1>2. ip \in Nat /\ ip < Top
  BY <1>1 DEF Address
<1>3. ip % size \in 0..(size - 1)
  BY <1>1, <1>2
<1>4. ip % size <= ip
  BY <1>1, <1>2, SMTT(30)
<1>5. network(ip, size) \in Nat
  BY <1>2, <1>3, <1>4 DEF network
<1>6. broadcast(ip, size) < Top
  BY SubnetAssumption, Zenon
<1> QED BY <1>1, <1>2, <1>5, <1>6, Zenon DEF broadcast

\* dhcpd_ip_settings always returns a good pool.
LEMMA SettingsGood ==
    ASSUME NEW ip \in Address, NEW size \in Sizes
    PROVE  GoodPool(dhcpd_ip_settings(ip, size))
<1> DEFINE c == dhcpd_ip_settings(ip, size)
           net == network(ip, size)
           bc == broadcast(ip, size)
<1>1. /\ ip \in Nat /\ ip < Top /\ size \in Nat /\ size >= 1
      /\ Top \in Nat /\ SPAN \in Nat /\ FALLBACK \in Nat
      /\ SPAN >= 2 /\ SPAN <= Top
      /\ net \in Nat /\ bc = net + size - 1 /\ bc < Top
  BY Subnet, Zenon
<1>2. c.server = ip /\ c.size = size
  BY Zenon DEF dhcpd_ip_settings
<1>3. SUFFICES ASSUME ip > net, ip < bc
               PROVE  /\ net + 1 + FALLBACK < Top =>
                            c.start <= c.end /\ c.start > net /\ c.end < bc
                      /\ size > SPAN + FALLBACK + 1 => ip \notin c.start..c.end
  BY <1>1, <1>2 DEF GoodPool, HostAddress
<1>4. PoolStart(ip, size) = ip + 1
  <2>1. (ip + 1) % Top = ip + 1
    BY <1>1, <1>3, Wrap
  <2> HIDE DEF net, bc
  <2>2. PoolStart(ip, size) = IF ip + 1 <= net THEN net + 1 ELSE ip + 1
    BY <2>1, Zenon DEF PoolStart, net
  <2> QED BY <1>1, <1>3, <2>2
<1>5. (bc - 1) % Top = bc - 1
  <2> HIDE DEF net, bc
  <2>1. bc - 1 \in Nat /\ bc - 1 < Top
    BY <1>1, <1>3
  <2> QED BY <1>1, <2>1, Wrap
<1>6. PoolEnd(ip, size) = IF (ip + SPAN) % Top >= bc THEN bc - 1 ELSE (ip + SPAN) % Top
  BY <1>5, Zenon DEF PoolEnd
<1>7. /\ ip + SPAN < Top => (ip + SPAN) % Top = ip + SPAN
      /\ ip + SPAN >= Top => (ip + SPAN) % Top = ip + SPAN - Top
  <2> HIDE DEF net, bc
  <2>1. ip + SPAN \in Nat /\ ip + SPAN < 2 * Top /\ Top > 0
    BY <1>1
  <2> QED BY <1>1, <2>1, Wrap
<1>8. FallbackStart(ip, size) = net + 1
  <2> HIDE DEF bc
  <2>1. net + 1 \in Nat /\ net + 1 < Top
    BY <1>1, <1>3
  <2> QED BY <1>1, <2>1, Wrap DEF FallbackStart
<1>9. /\ FallbackEnd(ip, size) \in Nat
      /\ FallbackEnd(ip, size) <= bc - 1
      /\ net + 1 + FALLBACK < Top =>
            /\ FallbackEnd(ip, size) >= net + 1
            /\ FallbackEnd(ip, size) <= net + 1 + FALLBACK
  <2> DEFINE e == (net + 1 + FALLBACK) % Top
  <2>1. FallbackEnd(ip, size) = IF e < bc /\ e <= bc - 1 THEN e ELSE bc - 1
    BY <1>5, <1>8, Zenon DEF FallbackEnd
  <2> HIDE DEF net, bc
  <2>2. e \in Nat /\ (net + 1 + FALLBACK < Top => e = net + 1 + FALLBACK)
    <3>1. net + 1 + FALLBACK \in Nat /\ Top > 0
      BY <1>1
    <3> QED BY <1>1, <3>1, Wrap
  <2> HIDE DEF e
  <2> QED BY <1>1, <1>3, <2>1, <2>2
<1>10. CASE PoolStart(ip, size) > PoolEnd(ip, size)
  <2>1. c.start = net + 1 /\ c.end = FallbackEnd(ip, size)
    BY <1>8, <1>10, Zenon DEF dhcpd_ip_settings
  <2>2. ip + 1 > PoolEnd(ip, size)
    BY <1>4, <1>10, Zenon
  <2> HIDE DEF net, bc, c
  <2>3. ip = bc - 1 \/ ip + SPAN >= Top
    BY <1>1, <1>3, <1>6, <1>7, <2>2
  <2>4. size > SPAN + FALLBACK + 1 => ip > net + 1 + FALLBACK
    BY <1>1, <2>3
  <2>5. size > SPAN + FALLBACK + 1 => net + 1 + FALLBACK < Top
    BY <1>1
  <2> QED BY <1>1, <1>3, <1>9, <2>1, <2>4, <2>5, SMTT(60)
<1>11. CASE ~(PoolStart(ip, size) > PoolEnd(ip, size))
  <2>1. c.start = ip + 1 /\ c.end = PoolEnd(ip, size)
    BY <1>4, <1>11, Zenon DEF dhcpd_ip_settings
  <2>2. ~(ip + 1 > PoolEnd(ip, size))
    BY <1>4, <1>11, Zenon
  <2> HIDE DEF net, bc, c
  <2> QED BY <1>1, <1>3, <1>6, <1>7, <2>1, <2>2
<1> QED BY <1>10, <1>11, Zenon

\* For every width of the addresses, every subnet and every address of the
\* server, the pool that dhcpd_ip_settings computes lies in the subnet and,
\* where there is room for it, spares the server.
THEOREM PoolRight == NetSpec => []PoolUsable
<1> DEFINE Inv == /\ env.ip \in Address /\ env.size \in Sizes
                  /\ GoodPool(cfg)
<1>1. GoodPool(cfg) => PoolInSubnet /\ PoolSparesServer
  BY Zenon DEF GoodPool, PoolInSubnet, PoolSparesServer
<1>2. NetInit => Inv
  <2> SUFFICES ASSUME NetInit PROVE Inv
    BY Zenon
  <2>1. env.ip \in Address /\ env.size \in Sizes
    BY Zenon DEF NetInit
  <2>2. cfg.server = 0 /\ cfg.size = Size24 /\ Size24 \in Nat /\ Size24 >= 1
    BY NetworkAssumption, Zenon DEF NetInit
  <2>3. 0 % Size24 = 0
    BY <2>2, Wrap
  <2>4. ~HostAddress(cfg.server, cfg.size)
    BY <2>2, <2>3 DEF HostAddress, network
  <2> QED BY <2>1, <2>4, Zenon DEF GoodPool
<1>3. Inv /\ [NetNext]_netVars => Inv'
  <2> SUFFICES ASSUME Inv, [NetNext]_netVars PROVE Inv'
    BY Zenon
  <2>1. CASE do_httpd
    <3>1. PICK ip \in Address :
             /\ env' = [ip |-> ip, size |-> Size24, server |-> httpd_make_serverip(ip)]
             /\ cfg' = dhcpd_ip_settings(ip, Size24)
      BY <2>1, Zenon DEF do_httpd
    <3>2. env'.ip \in Address /\ env'.size \in Sizes
      BY <3>1, NetworkAssumption, Zenon
    <3>3. GoodPool(cfg')
      BY <3>1, SettingsGood, NetworkAssumption, Zenon
    <3>4. GoodPool(cfg)' <=> GoodPool(cfg')
      BY Zenon DEF GoodPool
    <3> QED BY <3>2, <3>3, <3>4, Zenon
  <2>2. CASE StopHttpd \/ UNCHANGED netVars
    BY <2>2, Zenon DEF StopHttpd, netVars, GoodPool
  <2>3. CASE do_dhcpd
    <3>1. cfg' = dhcpd_ip_settings(env.ip, env.size) /\ env' = env
      BY <2>3, Zenon DEF do_dhcpd
    <3>2. GoodPool(cfg')
      BY <3>1, SettingsGood, Zenon
    <3>4. GoodPool(cfg)' <=> GoodPool(cfg')
      BY Zenon DEF GoodPool
    <3> QED BY <3>1, <3>2, <3>4, Zenon
  <2> QED BY <2>1, <2>2, <2>3, Zenon DEF NetNext
<1>4. Inv => PoolUsable
  BY <1>1, Zenon DEF PoolUsable
<1> QED BY <1>2, <1>3, <1>4, PTL DEF NetSpec
-----------------------------------------------------------------------------
\* A stopped server has no handler to give back; a running one has the one
\* that was there before, which is not its own.
HandlerInv ==
    /\ udp_packet_handler \in Handler
    /\ dhcpd_state \in {"STOPPED", "RUNNING"}
    /\ dhcpd_state = "STOPPED" => udp_packet_handler # "dhcpd" /\ original_udp_handler = NULL
    /\ dhcpd_state = "RUNNING" => original_udp_handler = "dummy"

\* The UDP handler is given back by dhcpd_deinit_server, whoever stops the
\* server (HttpdStop, Ctrl-C or both, in either order) and whatever commands
\* clear the handler meanwhile (net_loop), and the server never forwards a
\* packet to itself, if no server is started while another one runs.
THEOREM HandlerRight ==
    ASSUME ~Overlap PROVE Spec => [](HandlerRestored /\ ForwardsElsewhere)
<1>1. Init => HandlerInv
  BY Zenon DEF Init, HandlerInv, Handler
<1>2. ASSUME HandlerInv, [Next]_vars PROVE HandlerInv'
  <2> USE <1>2 DEF HandlerInv, Handler
  <2>1. CASE UNCHANGED serverVars \/ UNCHANGED vars
    BY <2>1, Zenon DEF serverVars, vars
  <2>2. CASE dhcpd_init_server
    BY <2>2, Zenon DEF dhcpd_init_server
  <2>3. CASE dhcpd_deinit_server
    BY <2>3, AddressAssumption, Zenon DEF dhcpd_deinit_server
  <2>4. CASE net_loop
    BY <2>4, Zenon DEF net_loop
  <2>5. Discover \/ RequestAddress \/ RequestRenew \/ RequestRefused \/ Forwarded \/ Tick =>
            UNCHANGED serverVars
    BY Zenon DEF Discover, RequestAddress, RequestRenew, RequestRefused, Forwarded, Tick
  <2>6. HttpdStart \/ dhcpd_request_nonblocking \/ dhcpd_request => dhcpd_init_server
    BY Zenon DEF HttpdStart, dhcpd_request_nonblocking, dhcpd_request
  <2>7. HttpdStop \/ dhcpd_stop_server => dhcpd_deinit_server
    BY Zenon DEF HttpdStop, dhcpd_stop_server
  <2> QED
    BY <2>1, <2>2, <2>3, <2>4, <2>5, <2>6, <2>7, Zenon DEF Next
<1>3. HandlerInv => HandlerRestored /\ ForwardsElsewhere
  BY AddressAssumption, Zenon DEF HandlerInv, HandlerRestored, ForwardsElsewhere
<1> QED BY <1>1, <1>2, <1>3, PTL DEF Spec
-----------------------------------------------------------------------------
(* The boards on which the partition is read by the reader of its flash:   *)
(* all but SPI-NOR with a NAND that SMEM does not name for rootfs.         *)
Served == OnNand \/ OnEmmc \/ Board # "nor_nand" \/ Part # "rootfs"

Runs == [kind : {"raw", "data"}, at : Nat, n : Nat]
-----------------------------------------------------------------------------
(* Division with remainder, as the readers use it to find the page or      *)
(* sector of an offset.                                                    *)
LEMMA Division ==
    ASSUME NEW x \in Nat, NEW b \in Nat \ {0}
    PROVE  /\ x \div b \in Nat
           /\ (x \div b) * b <= x /\ x < (x \div b) * b + b
           /\ x % b = 0 => (x \div b) * b = x
<1>1. x \in Int /\ b \in Int /\ b > 0
  OBVIOUS
<1>2. x \div b \in Int /\ x % b \in 0..(b - 1)
  BY <1>1
<1>3. x = b * (x \div b) + (x % b)
  BY <1>1
<1> DEFINE q == x \div b
           r == x % b
<1>4. q \in Int /\ r \in 0..(b - 1) /\ x = b * q + r
  BY <1>2, <1>3, Zenon
<1> HIDE DEF q, r
<1>5. q >= 0
  <2>1. SUFFICES ASSUME q <= -1 PROVE FALSE
    BY <1>4
  <2>2. b * q <= -b
    BY <2>1, <1>4
  <2> QED
    BY <2>2, <1>4
<1>6. b * q = q * b
  BY <1>4
<1>7. q \in Nat /\ q * b <= x /\ x < q * b + b /\ (r = 0 => q * b = x)
  BY <1>4, <1>5, <1>6
<1> QED
  BY <1>7, Zenon DEF q, r

(* A multiple of the sector or page size leaves no remainder. *)
LEMMA Multiple ==
    ASSUME NEW k \in Nat, NEW b \in Nat \ {0}
    PROVE  k * b \in Nat /\ (k * b) % b = 0
OBVIOUS

(* Whole sectors or pages after whole ones are whole ones. *)
LEMMA SumOfMultiples ==
    ASSUME NEW x \in Nat, NEW y \in Nat, NEW b \in Nat \ {0}, x % b = 0, y % b = 0
    PROVE  (x + y) % b = 0
<1> DEFINE p == x \div b
           q == y \div b
<1>1. p \in Nat /\ q \in Nat /\ x = p * b /\ y = q * b
  BY Division, Zenon
<1> HIDE DEF p, q
<1>2. x + y = (p + q) * b /\ p + q \in Nat
  BY <1>1
<1>3. ((p + q) * b) % b = 0
  BY <1>2, Multiple, Zenon
<1> QED
  BY <1>2, <1>3, Zenon

(* Fewer pages have fewer bytes. *)
LEMMA Monotone ==
    ASSUME NEW j \in Nat, NEW k \in Nat, NEW b \in Nat, j <= k
    PROVE  j * b <= k * b
OBVIOUS

(* The sectors that hold n bytes fit where n bytes and whole sectors fit:  *)
(* the rounding in emmc_chunk_read does not go beyond the RAM.             *)
LEMMA RoundUp ==
    ASSUME NEW n \in Nat, NEW r \in Nat, NEW b \in Nat \ {0}, n <= r, r % b = 0
    PROVE  LET k == (n + b - 1) \div b
           IN  k \in Nat /\ k * b \in Nat /\ k * b >= n /\ k * b <= r
<1> DEFINE k == (n + b - 1) \div b
           q == r \div b
<1>1. n + b - 1 \in Nat
  OBVIOUS
<1>2. k \in Nat /\ k * b <= n + b - 1 /\ n + b - 1 < k * b + b
  BY <1>1, Division, Zenon
<1>3. q \in Nat /\ q * b = r
  BY Division, Zenon
<1> HIDE DEF k, q
<1>4. k * b < q * b + b
  BY <1>2, <1>3
<1>5. k <= q
  <2>1. SUFFICES ASSUME k >= q + 1 PROVE FALSE
    BY <1>2, <1>3
  <2>2. k * b >= (q + 1) * b
    BY <2>1, <1>2, <1>3
  <2> QED
    BY <2>2, <1>2, <1>3, <1>4
<1>6. k * b <= q * b /\ k * b \in Nat
  BY <1>5, <1>2, <1>3, Monotone
<1>7. k \in Nat /\ k * b \in Nat /\ k * b >= n /\ k * b <= r
  BY <1>2, <1>3, <1>6
<1> QED
  BY <1>7, Zenon DEF k
-----------------------------------------------------------------------------
(* What a reader may give out for an offset: bytes in the form that was    *)
(* asked for, from that offset on, in whole units, no more than the RAM.   *)
Good(got, offset, r) ==
    /\ got \in Runs
    /\ got.n > 0 => /\ got.kind = Form(r) /\ got.at = Begin(r) + offset
                    /\ got.n <= ram_avail /\ WholeUnits(r, got.n)

(* A reader is never asked for more than it may load. *)
LEMMA ChunkBound ==
    ASSUME NEW offset \in Nat, NEW size \in Nat
    PROVE  Chunk(offset, size) \in Nat /\ Chunk(offset, size) <= size
BY BackupAssumption DEF Chunk, Least

(* An empty read is a good one. *)
LEMMA NothingGood ==
    ASSUME NEW offset, NEW r
    PROVE  Good(Nothing, offset, r) /\ Nothing.n = 0
BY DEF Good, Nothing, Run, Runs

(* nand_raw_chunk_read: whole pages, at least one. *)
LEMMA RawRead ==
    ASSUME OnNand, NEW offset \in Nat, NEW size \in Nat, size <= ram_avail,
           offset % raw_page_size = 0, NEW got \in nand_raw_chunk_read(offset, size)
    PROVE  Good(got, offset, TRUE)
<1> DEFINE rp == raw_page_size
           start_page == offset \div rp
           wanted == IF size < rp THEN 1 ELSE size \div rp
           pages_avail == Least(wanted, total_pages - start_page)
<1>1. rp \in Nat \ {0} /\ rp <= ram_avail /\ ram_avail \in Nat /\ total_pages \in Nat
  BY BackupAssumption, PageAssumption DEF raw_page_size
<1>2. start_page \in Nat /\ start_page * rp = offset
  BY <1>1, Division, Zenon
<1>3. wanted \in Nat /\ wanted * rp <= ram_avail
  <2>1. CASE size < rp
    BY <2>1, <1>1
  <2>2. CASE ~(size < rp)
    <3>1. size \div rp \in Nat /\ (size \div rp) * rp <= size
      BY <1>1, Division, Zenon
    <3> QED
      BY <3>1, <2>2, <1>1
  <2> QED
    BY <2>1, <2>2, Zenon
<1>4. CASE got = Nothing
  BY <1>4, NothingGood, Zenon
<1>5. CASE got # Nothing
  <2>1. start_page < total_pages
    BY <1>5, <1>1, <1>2 DEF nand_raw_chunk_read
  <2>2. PICK p \in (IF ShortReads THEN 1 ELSE pages_avail)..pages_avail :
            got = Run("raw", start_page * rp, p * rp)
    BY <1>5, <2>1, <1>1, <1>2, Zenon DEF nand_raw_chunk_read
  <2> HIDE DEF wanted, start_page
  <2>3. pages_avail \in Nat /\ pages_avail <= wanted
    BY <2>1, <1>1, <1>2, <1>3 DEF Least
  <2> HIDE DEF pages_avail, rp
  <2>4. p \in Nat /\ p <= wanted
    BY <2>2, <2>3, <1>3
  <2>5. p * rp \in Nat /\ (p * rp) % rp = 0
    BY <2>4, <1>1, Multiple, Zenon
  <2>6. p * rp <= wanted * rp
    BY <2>4, <1>3, <1>1, Monotone, Zenon
  <2>7. p * rp <= ram_avail
    BY <2>5, <2>6, <1>3, <1>1
  <2>8. got.n = p * rp /\ got.at = offset /\ got.kind = "raw" /\ got \in Runs
    BY <2>2, <2>5, <1>2, Zenon DEF Run, Runs
  <2>9. WholeUnits(TRUE, got.n)
    BY <2>5, <2>8, Zenon DEF WholeUnits, OnEmmc, rp
  <2>10. Form(TRUE) = "raw" /\ Begin(TRUE) = 0
    BY Zenon DEF Form, Begin
  <2>11. 0 + offset = offset
    OBVIOUS
  <2>12. got.at = Begin(TRUE) + offset
    BY <2>8, <2>10, <2>11, Zenon
  <2>13. got.n <= ram_avail
    BY <2>7, <2>8, Zenon
  <2> QED
    BY <2>8, <2>9, <2>10, <2>12, <2>13, Zenon DEF Good
<1> QED
  BY <1>4, <1>5, Zenon

(* emmc_chunk_read: whole sectors, from the sector of the offset on. *)
LEMMA EmmcRead ==
    ASSUME OnEmmc, EmmcBase \in Bases, NEW offset \in Nat, NEW size \in Nat,
           size <= ram_avail, offset % blksz = 0, NEW r \in BOOLEAN,
           NEW got \in emmc_chunk_read(offset, size)
    PROVE  Good(got, offset, r)
<1> DEFINE c == Chunk(offset, size)
           k == (c + blksz - 1) \div blksz
           base == EmmcBase
           start_sector == (base + offset) \div blksz
<1>1. blksz \in Nat \ {0} /\ ram_avail \in Nat /\ ram_avail % blksz = 0
  BY BackupAssumption, SectorAssumption, Zenon
<1>2. base \in Nat /\ base % blksz = 0
  BY BackupAssumption, SectorAssumption, Zenon
<1>3. c \in Nat /\ c <= ram_avail
  <2>1. c \in Nat /\ c <= size
    BY ChunkBound, Zenon
  <2> HIDE DEF c
  <2> QED
    BY <2>1, <1>1
<1> HIDE DEF c, base
<1>4. k \in Nat /\ k * blksz \in Nat /\ k * blksz <= ram_avail
  BY <1>1, <1>3, RoundUp, Zenon
<1>5. (base + offset) % blksz = 0 /\ base + offset \in Nat
  <2>1. base + offset \in Nat
    BY <1>2
  <2>2. (base + offset) % blksz = 0
    BY <1>1, <1>2, SumOfMultiples, Zenon
  <2> QED
    BY <2>1, <2>2, Zenon
<1>6. start_sector * blksz = base + offset
  BY <1>1, <1>5, Division, Zenon
<1>7. CASE got = Nothing
  BY <1>7, NothingGood, Zenon
<1>8. CASE got # Nothing
  <2>1. got = Run("data", start_sector * blksz, k * blksz)
    BY <1>8, Zenon DEF emmc_chunk_read, c, base
  <2> HIDE DEF k, start_sector
  <2>2. got.n = k * blksz /\ got.at = base + offset /\ got.kind = "data" /\ got \in Runs
    BY <2>1, <1>4, <1>5, <1>6, Zenon DEF Run, Runs
  <2>3. (k * blksz) % blksz = 0
    BY <1>1, <1>4, Multiple, Zenon
  <2>4. WholeUnits(r, got.n)
    BY <2>2, <2>3, Zenon DEF WholeUnits, OnEmmc
  <2> QED
    BY <2>2, <2>4, <1>4, Zenon DEF Good, Form, Begin, OnEmmc, base
<1> QED
  BY <1>7, <1>8, Zenon

(* flashread_partition_chunk, whichever reader it takes. *)
LEMMA Reader ==
    ASSUME Served, NEW offset \in Nat, NEW size \in Nat, size <= ram_avail,
           NEW r \in BOOLEAN, WholeUnits(r, offset),
           EmmcBase \in Bases, table \in Bases,
           NEW got \in flashread_partition_chunk(offset, size, r)
    PROVE  Good(got, offset, r)
<1> DEFINE c == Chunk(offset, size)
<1>1. c \in Nat /\ c <= ram_avail
  <2>1. c \in Nat /\ c <= size
    BY ChunkBound, Zenon
  <2> HIDE DEF c
  <2> QED
    BY <2>1, BackupAssumption
<1>2. table \in Nat
  BY BackupAssumption, Zenon
<1>3. CASE got = Nothing
  BY <1>3, NothingGood, Zenon
<1>4. CASE got # Nothing /\ OnNand /\ r = TRUE
  <2>1. got \in nand_raw_chunk_read(offset, size) /\ offset % raw_page_size = 0
    BY <1>4, Zenon DEF flashread_partition_chunk, WholeUnits
  <2> QED
    BY <2>1, <1>4, RawRead, Zenon
<1>5. CASE got # Nothing /\ OnNand /\ r = FALSE
  <2>1. got = Run("data", table + offset, c)
    BY <1>5, Zenon DEF flashread_partition_chunk, nand_chunk_read
  <2> HIDE DEF c
  <2> QED
    BY <2>1, <1>1, <1>2, <1>5 DEF Good, Form, Begin, WholeUnits, OnEmmc, Run, Runs
<1>6. CASE OnEmmc
  <2>1. got \in emmc_chunk_read(offset, size) /\ offset % blksz = 0
    BY <1>6, Zenon DEF flashread_partition_chunk, WholeUnits, OnEmmc
  <2> QED
    BY <2>1, <1>6, EmmcRead, Zenon
<1>7. CASE got # Nothing /\ ~OnNand /\ ~OnEmmc
  <2>1. got = Run("data", table + offset, c)
    BY <1>7, Zenon DEF flashread_partition_chunk, sf_chunk_read, Served
  <2> HIDE DEF c
  <2> QED
    BY <2>1, <1>1, <1>2, <1>7 DEF Good, Form, Begin, WholeUnits, Run, Runs
<1> QED
  BY <1>3, <1>4, <1>5, <1>6, <1>7, Zenon
-----------------------------------------------------------------------------
(* The inductive invariant. *)
IInv == StreamTypeOK /\ StreamInv /\ Contiguous /\ FitsRam

(* The base that emmc_chunk_read uses is one that a table gave. *)
LEMMA BaseType ==
    ASSUME StreamTypeOK
    PROVE  EmmcBase \in Bases /\ EmmcBase \in Nat /\ table \in Nat /\ (\A r : Begin(r) \in Nat)
<1>1. EmmcBase \in Bases
  BY Zenon DEF StreamTypeOK, EmmcBase
<1>2. EmmcBase \in Nat /\ table \in Nat
  BY <1>1, BackupAssumption, Zenon DEF StreamTypeOK
<1> QED
  BY <1>1, <1>2, Zenon DEF Begin

(* Sending n bytes of the RAM appends them to the file. *)
LEMMA SendAppends ==
    ASSUME NEW f \in Seq({"raw", "data"} \X Nat), NEW run \in Runs, NEW n \in 1..run.n
    PROVE  LET g == f \o Bytes(run, n)
           IN  /\ g \in Seq({"raw", "data"} \X Nat)
               /\ Len(g) = Len(f) + n
               /\ \A i \in 1..Len(f) : g[i] = f[i]
               /\ \A i \in (Len(f) + 1)..Len(g) : g[i] = <<run.kind, run.at + (i - Len(f)) - 1>>
<1> DEFINE b == Bytes(run, n)
           g == f \o b
           S == {"raw", "data"} \X Nat
<1>1. n \in Nat /\ run.kind \in {"raw", "data"} /\ run.at \in Nat
  BY DEF Runs
<1>2. b \in Seq(S) /\ Len(b) = n
  BY <1>1 DEF Bytes
<1>3. \A i \in 1..n : b[i] = <<run.kind, run.at + i - 1>>
  BY <1>1, Zenon DEF Bytes
<1> HIDE DEF b, S
<1>4. f \in Seq(S)
  BY Zenon DEF S
<1>5. g \in Seq(S) /\ Len(g) = Len(f) + n
  BY <1>2, <1>4, ConcatProperties, Zenon
<1>6. \A i \in 1..Len(f) : g[i] = f[i]
  BY <1>1, <1>2, <1>4
<1>7. \A i \in (Len(f) + 1)..Len(g) : g[i] = b[i - Len(f)] /\ i - Len(f) \in 1..n
  BY <1>1, <1>2, <1>4, <1>5
<1>8. \A i \in (Len(f) + 1)..Len(g) : g[i] = <<run.kind, run.at + (i - Len(f)) - 1>>
  BY <1>3, <1>7, Zenon
<1> QED
  BY <1>5, <1>6, <1>8, Zenon DEF b, S

(* Resetting the state closes the connection. *)
LEMMA ResetStep ==
    ASSUME IInv, httpd_state_reset
    PROVE  IInv'
<1> USE DEF httpd_state_reset, client
<1>1. StreamTypeOK'
  BY Zenon DEF IInv, StreamTypeOK, Nothing, Run
<1>2. StreamInv'
  BY Zenon DEF StreamInv
<1>3. Contiguous' /\ FitsRam'
  BY Zenon DEF IInv, Contiguous, FitsRam, Form, OnNand
<1> QED
  BY <1>1, <1>2, <1>3, Zenon DEF IInv

(* A request that cannot be read. *)
LEMMA FailStep ==
    ASSUME IInv, NEW size \in ReqSizes, NEW r \in BOOLEAN, httpd_handle_backup(size, r),
           NEW capacity \in backup_flash_capacity(r),
           BackupFails(Capped(size, capacity), r)
    PROVE  IInv'
<1>1. size \in Nat /\ capacity \in Nat
  <2>1. total_pages * raw_page_size \in Nat
    BY BackupAssumption DEF raw_page_size
  <2> QED
    BY <2>1, BackupAssumption DEF backup_flash_capacity
<1>2. Capped(size, capacity) \in Nat
  BY <1>1, Zenon DEF Capped
<1>3. Begin(r) \in Nat /\ EmmcBase \in Bases
  BY BaseType, Zenon DEF IInv
<1>4. StreamTypeOK'
  BY <1>1, <1>2, <1>3, SMTT(60) DEF IInv, StreamTypeOK, httpd_handle_backup, BackupFails, Cache
<1>5. StreamInv'
  BY Zenon DEF IInv, StreamInv, httpd_handle_backup, BackupFails
<1>6. Contiguous' /\ FitsRam'
  BY BackupAssumption DEF httpd_handle_backup, BackupFails, Contiguous, FitsRam
<1> QED
  BY <1>4, <1>5, <1>6, Zenon DEF IInv

(* A request that is answered with the first piece. *)
LEMMA StartStep ==
    ASSUME Served, IInv, NEW size \in ReqSizes, NEW r \in BOOLEAN, httpd_handle_backup(size, r),
           NEW capacity \in backup_flash_capacity(r),
           BackupStarts(Capped(size, capacity), r)
    PROVE  IInv'
<1> DEFINE total == Capped(size, capacity)
           first == Least(total, ram_avail)
<1>1. size \in Nat /\ size > 0 /\ capacity \in Nat
  <2>1. total_pages * raw_page_size \in Nat
    BY BackupAssumption DEF raw_page_size
  <2> QED
    BY <2>1, BackupAssumption DEF backup_flash_capacity
<1>2. total \in Nat /\ total > 0 /\ ram_avail \in Nat
  BY <1>1, BackupAssumption DEF Capped
<1> HIDE DEF total
<1>3. first \in Nat /\ first <= ram_avail
  BY <1>2 DEF Least
<1>4. Begin(r) \in Nat /\ EmmcBase \in Bases /\ table \in Bases
  BY BaseType, Zenon DEF IInv, StreamTypeOK
<1>5. WholeUnits(r, 0)
  BY BackupAssumption DEF WholeUnits, raw_page_size
<1>6. PICK got \in flashread_partition_chunk(0, first, r) :
         LET n == Least(got.n, total)
             all == total > ram_avail
         IN  /\ got.n > 0
             /\ chunked' = all
             /\ total_size' = IF all THEN total ELSE n
             /\ chunk_offset' = IF all THEN n ELSE 0
             /\ total_sent' = IF all THEN n ELSE 0
             /\ total_remaining' = IF all THEN total - n ELSE 0
             /\ data' = [got EXCEPT !.n = n]
             /\ length' = total_size'
             /\ sending_header' = TRUE /\ open' = TRUE
             /\ loaded' = got.n
             /\ UNCHANGED <<chunk_busy, table>>
  BY Zenon DEF BackupStarts, total
<1> HIDE DEF first
<1>7. Good(got, 0, r)
  BY <1>3, <1>4, <1>5, <1>6, Reader, Zenon
<1>8. /\ got \in Runs /\ got.n \in Nat /\ got.n > 0 /\ got.kind = Form(r) /\ got.at = Begin(r)
      /\ got.n <= ram_avail /\ WholeUnits(r, got.n)
  BY <1>4, <1>6, <1>7 DEF Good, Runs
<1> DEFINE n == Least(got.n, total)
<1>9. n \in Nat /\ n > 0 /\ n <= total /\ n <= got.n /\ (n < total => n = got.n)
  BY <1>2, <1>8 DEF Least
<1>10. data' = [kind |-> Form(r), at |-> Begin(r), n |-> n] /\ data' \in Runs
  BY <1>6, <1>8, <1>9, Zenon DEF Runs
<1>11. chunked' \in BOOLEAN /\ (chunked' <=> total > ram_avail)
  <2>1. chunked' = (total > ram_avail)
    BY <1>6, Zenon
  <2>2. (total > ram_avail) \in BOOLEAN
    BY <1>2
  <2> QED
    BY <2>1, <2>2, Zenon
<1>12. chunked' =>
         /\ total_size' = total /\ chunk_offset' = n /\ total_sent' = n
         /\ total_remaining' = total - n
  BY <1>6, <1>11, Zenon
<1>13. ~chunked' =>
         /\ total_size' = n /\ chunk_offset' = 0 /\ total_sent' = 0
         /\ total_remaining' = 0
  BY <1>6, <1>11, Zenon
<1> HIDE DEF n
<1>14. /\ total_size' \in Nat /\ chunk_offset' \in Nat
       /\ total_sent' \in Nat /\ total_remaining' \in Nat
  <2>1. total - n \in Nat
    BY <1>2, <1>9
  <2>2. CASE chunked'
    BY <1>2, <1>9, <1>12, <2>1, <2>2, Zenon
  <2>3. CASE ~chunked'
    BY <1>9, <1>13, <2>3
  <2> QED
    BY <2>2, <2>3, Zenon
<1>15. /\ raw' = r /\ asked' = [size |-> size, raw |-> r] /\ file' = <<>>
       /\ origin' = Begin(r) /\ Cache
  BY Zenon DEF httpd_handle_backup
<1>16. StreamTypeOK'
  BY <1>1, <1>4, <1>6, <1>8, <1>10, <1>15, <1>11, <1>14 DEF IInv, StreamTypeOK, Cache, Runs
<1>17. Contiguous' /\ FitsRam'
  BY <1>6, <1>8, <1>15 DEF Contiguous, FitsRam
<1>18. Begin(r)' = Begin(r) /\ Form(r)' = Form(r) /\ (OnEmmc => cached' # Unset)
  BY <1>4, <1>6, <1>15, BackupAssumption, SMTT(60)
     DEF Begin, Form, EmmcBase, Cache, OnEmmc, OnNand, Unset
<1>19. StreamInv'
  <2>1. raw' = r /\ raw' = asked'.raw /\ length' = total_size' /\ origin' = Begin(r)'
    BY <1>6, <1>15, <1>18, Zenon
  <2>2. Len(file') + data'.n = IF chunked' THEN total_sent' ELSE total_size'
    BY <1>9, <1>10, <1>15, <1>12, <1>13, SMTT(60)
  <2>3. data'.kind = Form(r)' /\ data'.at = origin' + Len(file')
    BY <1>4, <1>10, <1>15, <1>18
  <2>4. chunked' => total_sent' + total_remaining' = total_size'
    BY <1>2, <1>9, <1>12
  <2>5. More' => chunk_offset' = total_sent' /\ chunk_offset' = got.n
    BY <1>2, <1>9, <1>12 DEF More
  <2>6. WholeUnits(r, got.n)' <=> WholeUnits(r, got.n)
    BY Zenon DEF WholeUnits, OnEmmc, OnNand
  <2>7. ~chunk_busy'
    BY <1>6, Zenon DEF IInv, StreamInv, httpd_handle_backup
  <2> QED
    BY <2>1, <2>2, <2>3, <2>4, <2>5, <2>6, <2>7, <1>8, <1>18, Zenon DEF StreamInv
<1> QED
  BY <1>16, <1>17, <1>19, Zenon DEF IInv

(* The bytes of the RAM reach the client. *)
LEMMA SendStep ==
    ASSUME IInv, NEW n \in 1..data.n, httpd_send_data(n)
    PROVE  IInv'
<1>1. /\ open /\ file \in Seq({"raw", "data"} \X Nat) /\ data \in Runs
      /\ n \in Nat /\ n > 0 /\ n <= data.n /\ data.n \in Nat
  BY DEF IInv, StreamTypeOK, httpd_send_data, Runs
<1>2. /\ raw = asked.raw /\ data.kind = Form(raw) /\ data.at = origin + Len(file)
      /\ Len(file) + data.n = IF chunked THEN total_sent ELSE total_size
  BY <1>1 DEF IInv, StreamInv
<1>3. /\ file' \in Seq({"raw", "data"} \X Nat) /\ Len(file') = Len(file) + n
      /\ \A i \in 1..Len(file) : file'[i] = file[i]
      /\ \A i \in (Len(file) + 1)..Len(file') :
            file'[i] = <<data.kind, data.at + (i - Len(file)) - 1>>
  BY <1>1, SendAppends, ZenonT(60) DEF httpd_send_data
<1>4. /\ data' = Run(data.kind, data.at + n, data.n - n) /\ data' \in Runs
      /\ data'.n = data.n - n /\ data'.at = data.at + n /\ data'.kind = data.kind
  BY <1>1 DEF httpd_send_data, Run, Runs
<1>5. UNCHANGED <<raw, total_size, chunked, chunk_offset, total_sent, total_remaining,
                  sending_header, chunk_busy, cached, table, open, length, asked, origin,
                  loaded>>
  BY Zenon DEF httpd_send_data, backup
<1>6. StreamTypeOK'
  BY <1>3, <1>4, <1>5, Zenon DEF IInv, StreamTypeOK, Runs
<1>7. origin \in Nat /\ Len(file) \in Nat
  BY <1>1 DEF IInv, StreamTypeOK
<1>8. Form(asked.raw)' = Form(asked.raw)
  BY <1>5, Zenon DEF Form, OnNand
<1>9. Contiguous'
  <2>1. SUFFICES ASSUME NEW i \in 1..Len(file')
                 PROVE  file'[i] = <<Form(asked.raw), origin + i - 1>>
    BY <1>3, <1>5, <1>8 DEF Contiguous
  <2>2. CASE i <= Len(file)
    <3>1. i \in DOMAIN file
      BY <1>1, <1>7, <2>2
    <3>2. file[i] = <<Form(asked.raw), origin + i - 1>>
      BY <3>1, Zenon DEF IInv, Contiguous
    <3>3. i \in 1..Len(file)
      BY <1>7, <2>2
    <3>4. file'[i] = file[i]
      BY <3>3, <1>3, ZenonT(60)
    <3> QED
      BY <3>2, <3>4, Zenon
  <2>3. CASE i > Len(file)
    <3>1. Len(file') \in Nat /\ i \in (Len(file) + 1)..Len(file')
      <4>1. Len(file') = Len(file) + n
        BY <1>3, Zenon
      <4> QED
        BY <4>1, <1>1, <1>7, <2>3
    <3>2. file'[i] = <<data.kind, data.at + (i - Len(file)) - 1>>
      BY <3>1, <1>3, Zenon
    <3>3. data.at + (i - Len(file)) - 1 = origin + i - 1
      <4>1. data.at = origin + Len(file)
        BY <1>2, Zenon
      <4> QED
        BY <4>1, <3>1, <1>7
    <3> QED
      BY <3>2, <3>3, <1>2, Zenon
  <2> QED
    BY <2>2, <2>3, <1>7, SMTT(60)
<1>10. StreamInv'
  <2>1. Begin(raw)' = Begin(raw) /\ Form(raw)' = Form(raw) /\ More' = More
    BY <1>5, Zenon DEF Begin, Form, EmmcBase, More
  <2>2. Len(file') + data'.n = Len(file) + data.n
    BY <1>1, <1>3, <1>4, <1>7, SMTT(60)
  <2>3. data'.kind = Form(raw) /\ data'.at = origin + Len(file')
    BY <1>1, <1>2, <1>3, <1>4, <1>7
  <2>4. ~chunk_busy
    BY <1>1 DEF IInv, StreamInv
  <2>5. WholeUnits(raw, chunk_offset)' <=> WholeUnits(raw, chunk_offset)
    BY <1>5, Zenon DEF WholeUnits
  <2> QED
    BY <2>1, <2>2, <2>3, <2>4, <2>5, <1>5, ZenonT(60) DEF IInv, StreamInv
<1> QED
  BY <1>5, <1>6, <1>9, <1>10, Zenon DEF IInv, FitsRam

(* What a piece adds to total_sent is a length. *)
LEMMA Difference ==
    ASSUME NEW a \in Nat, NEW b \in Nat, b <= a
    PROVE  a - b \in Nat
OBVIOUS

(* The next piece goes on where the last one ended. *)
LEMMA PieceStep ==
    ASSUME Served, IInv, open, chunk_busy, NextPiece
    PROVE  IInv'
<1> DEFINE size == Least(total_remaining, ram_avail)
<1>1. /\ chunked /\ total_remaining > 0 /\ data.n = 0 /\ chunk_offset = total_sent
      /\ WholeUnits(raw, chunk_offset) /\ Len(file) + data.n = total_sent
      /\ total_sent + total_remaining = total_size /\ origin = Begin(raw)
      /\ raw = asked.raw /\ length = total_size
  BY Zenon DEF IInv, StreamInv, More
<1>2. /\ raw \in BOOLEAN /\ chunk_offset \in Nat /\ total_sent \in Nat /\ total_size \in Nat
      /\ total_remaining \in Nat /\ table \in Bases /\ Len(file) \in Nat /\ origin \in Nat
      /\ ram_avail \in Nat
  BY BackupAssumption DEF IInv, StreamTypeOK
<1>3. EmmcBase \in Bases /\ Begin(raw) \in Nat
  BY BaseType, Zenon DEF IInv
<1>4. size \in Nat /\ size <= ram_avail
  BY <1>2 DEF Least
<1>5. PICK got \in flashread_partition_chunk(chunk_offset, size, raw) :
        /\ got.n > 0
        /\ chunk_offset' = chunk_offset + got.n
        /\ total_sent' = Least(total_sent + got.n, total_size)
        /\ data' = [got EXCEPT !.n = total_sent' - total_sent]
        /\ total_remaining' = total_size - total_sent'
        /\ chunk_busy' = FALSE
        /\ loaded' = got.n
        /\ Cache
        /\ UNCHANGED <<raw, total_size, chunked, sending_header, table, open, length, file,
                       asked, origin>>
  BY Zenon DEF NextPiece, client
<1> HIDE DEF size
<1>6. Good(got, chunk_offset, raw)
  BY <1>1, <1>2, <1>3, <1>4, Reader, Zenon
<1>7. /\ got \in Runs /\ got.n \in Nat /\ got.kind = Form(raw)
      /\ got.at = Begin(raw) + chunk_offset /\ got.n <= ram_avail /\ WholeUnits(raw, got.n)
  BY <1>5, <1>6, Zenon DEF Good, Runs
<1>8. /\ total_sent' \in Nat /\ total_sent' <= total_size /\ total_sent' >= total_sent
      /\ total_sent' < total_size => total_sent' = total_sent + got.n
  BY <1>1, <1>2, <1>5, <1>7, SMTT(60) DEF Least
<1>9. /\ data'.kind = Form(raw) /\ data'.at = Begin(raw) + chunk_offset
      /\ data'.n = total_sent' - total_sent /\ data' \in Runs
  <2>0. total_sent \in Nat /\ total_sent' \in Nat /\ total_sent' >= total_sent
    BY <1>2, <1>8, Zenon
  <2>1. total_sent' - total_sent \in Nat
    BY <2>0, Difference, Zenon
  <2>2. data' = [got EXCEPT !.n = total_sent' - total_sent]
    BY <1>5, Zenon
  <2>3. QED BY <1>7, <2>1, <2>2, Zenon DEF Runs
<1>10. Begin(raw)' = Begin(raw) /\ Form(raw)' = Form(raw) /\ (OnEmmc => cached' # Unset)
  BY <1>3, <1>5, BackupAssumption DEF Begin, Form, EmmcBase, Cache, OnEmmc, OnNand, Unset
<1>11. StreamTypeOK'
  <2>1. chunk_offset' \in Nat /\ total_remaining' \in Nat /\ loaded' \in Nat
    BY <1>2, <1>5, <1>7, <1>8, SMTT(60)
  <2>2. cached' \in Bases \cup {Unset}
    BY <1>3, <1>5, Zenon DEF Cache, IInv, StreamTypeOK
  <2> QED
    BY <2>1, <2>2, <1>5, <1>8, <1>9, Zenon DEF IInv, StreamTypeOK, Runs
<1>12. Contiguous' /\ FitsRam'
  BY <1>5, <1>7, Zenon DEF IInv, Contiguous, FitsRam, Form, OnNand
<1>13. StreamInv'
  <2>1. Len(file') + data'.n = total_sent'
    BY <1>1, <1>2, <1>5, <1>8, <1>9
  <2>2. data'.kind = Form(raw)' /\ data'.at = origin' + Len(file')
    BY <1>1, <1>2, <1>5, <1>9, <1>10
  <2>3. total_sent' + total_remaining' = total_size'
    BY <1>2, <1>5, <1>8
  <2>4. More' => chunk_offset' = total_sent' /\ WholeUnits(raw, chunk_offset')
    <3>1. SUFFICES ASSUME More' PROVE chunk_offset' = total_sent' /\ WholeUnits(raw, chunk_offset')
      BY Zenon
    <3>2. total_sent' < total_size
      BY <3>1, <1>2, <1>5, <1>8 DEF More
    <3>3. chunk_offset' = total_sent' /\ chunk_offset' = chunk_offset + got.n
      BY <3>2, <1>1, <1>5, <1>8, Zenon
    <3>4. blksz \in Nat \ {0} /\ raw_page_size \in Nat \ {0}
      BY BackupAssumption, SMTT(60) DEF raw_page_size
    <3>5. OnEmmc => (chunk_offset + got.n) % blksz = 0
      BY <3>4, <1>1, <1>2, <1>7, SumOfMultiples, SMTT(60) DEF WholeUnits
    <3>6. raw /\ OnNand => (chunk_offset + got.n) % raw_page_size = 0
      BY <3>4, <1>1, <1>2, <1>7, SumOfMultiples DEF WholeUnits
    <3> QED
      BY <3>3, <3>5, <3>6, Zenon DEF WholeUnits
  <2>5. WholeUnits(raw, chunk_offset)' <=> WholeUnits(raw, chunk_offset')
    BY <1>5, Zenon DEF WholeUnits, OnEmmc, OnNand
  <2> QED
    BY <2>1, <2>2, <2>3, <2>4, <2>5, <1>1, <1>5, <1>10, Zenon DEF StreamInv
<1> QED
  BY <1>11, <1>12, <1>13, Zenon DEF IInv

(* The other steps leave the bytes alone. *)
LEMMA QuietStep ==
    ASSUME IInv, SentHeader \/ SentPiece \/ (\E b \in Bases : TableWritten(b)) \/ UNCHANGED streamVars
    PROVE  IInv'
<1>1. CASE SentHeader
  <2> USE <1>1 DEF SentHeader, client
  <2>1. StreamTypeOK'
    BY ZenonT(60) DEF IInv, StreamTypeOK
  <2>2. StreamInv'
    BY ZenonT(60) DEF IInv, StreamInv, Begin, Form, EmmcBase, More, WholeUnits
  <2> QED
    BY <2>1, <2>2, ZenonT(60) DEF IInv, Contiguous, FitsRam, Form
<1>2. CASE SentPiece
  <2> USE <1>2 DEF SentPiece, client
  <2>1. StreamTypeOK'
    BY ZenonT(60) DEF IInv, StreamTypeOK
  <2>2. StreamInv'
    BY ZenonT(60) DEF IInv, StreamInv, Begin, Form, EmmcBase, More, WholeUnits, Sent
  <2> QED
    BY <2>1, <2>2, ZenonT(60) DEF IInv, Contiguous, FitsRam, Form
<1>3. CASE \E b \in Bases : TableWritten(b)
  <2>1. PICK b \in Bases : TableWritten(b)
    BY <1>3, Zenon
  <2>2. StreamTypeOK'
    BY <2>1, ZenonT(60) DEF IInv, StreamTypeOK, TableWritten, backup, client
  <2>3. StreamInv'
    BY <2>1, ZenonT(60) DEF IInv, StreamInv, Begin, Form, EmmcBase, More, WholeUnits, TableWritten, backup,
                client, OnEmmc, OnNand
  <2> QED
    BY <2>1, <2>2, <2>3, ZenonT(60) DEF IInv, Contiguous, FitsRam, Form, TableWritten, client
<1>4. CASE UNCHANGED streamVars
  <2> USE <1>4 DEF streamVars, backup, client
  <2>1. StreamTypeOK'
    BY ZenonT(60) DEF IInv, StreamTypeOK
  <2>2. StreamInv'
    BY ZenonT(60) DEF IInv, StreamInv, Begin, Form, EmmcBase, More, WholeUnits
  <2> QED
    BY <2>1, <2>2, ZenonT(60) DEF IInv, Contiguous, FitsRam, Form
<1> QED
  BY <1>1, <1>2, <1>3, <1>4, Zenon
-----------------------------------------------------------------------------
(* The server starts with no backup. *)
LEMMA InitInv == StreamInit => IInv
<1> SUFFICES ASSUME StreamInit PROVE IInv
  BY Zenon
<1>1. StreamTypeOK
  <2>1. file \in Seq({"raw", "data"} \X Nat)
    BY SMTT(60) DEF StreamInit
  <2>2. data \in [kind : {"raw", "data"}, at : Nat, n : Nat]
    BY ZenonT(60) DEF StreamInit, Nothing, Run
  <2>3. /\ raw \in BOOLEAN /\ chunked \in BOOLEAN /\ sending_header \in BOOLEAN
        /\ chunk_busy \in BOOLEAN /\ open \in BOOLEAN
        /\ asked \in [size : Nat, raw : BOOLEAN]
    BY ZenonT(60) DEF StreamInit
  <2> QED
    BY <2>1, <2>2, <2>3, Zenon DEF StreamInit, StreamTypeOK
<1>2. StreamInv
  BY Zenon DEF StreamInit, StreamInv
<1>3. Contiguous /\ FitsRam
  BY BackupAssumption DEF StreamInit, Contiguous, FitsRam
<1> QED
  BY <1>1, <1>2, <1>3, Zenon DEF IInv

(* Every step keeps the inductive invariant. *)
LEMMA NextInv ==
    ASSUME Served, IInv, [StreamNext]_streamVars
    PROVE  IInv'
<1>1. CASE \E size \in ReqSizes, r \in BOOLEAN : httpd_handle_backup(size, r)
  <2>1. PICK size \in ReqSizes, r \in BOOLEAN : httpd_handle_backup(size, r)
    BY <1>1, Zenon
  <2>2. PICK capacity \in backup_flash_capacity(r) :
           BackupFails(Capped(size, capacity), r) \/ BackupStarts(Capped(size, capacity), r)
    BY <2>1, Zenon DEF httpd_handle_backup
  <2> QED
    BY <2>1, <2>2, FailStep, StartStep, Zenon
<1>2. CASE \E n \in 1..data.n : httpd_send_data(n)
  BY <1>2, SendStep, Zenon
<1>3. CASE backup_chunk_next
  <2>1. open /\ chunk_busy /\ (NextPiece \/ NoPiece)
    BY <1>3, Zenon DEF backup_chunk_next
  <2>2. CASE NextPiece
    BY <2>1, <2>2, PieceStep, Zenon
  <2>3. CASE NoPiece
    BY <2>3, ResetStep, Zenon DEF NoPiece
  <2> QED
    BY <2>1, <2>2, <2>3, Zenon
<1>4. CASE SentAll \/ ConnectionLost
  BY <1>4, ResetStep, Zenon DEF SentAll, ConnectionLost
<1>5. CASE SentHeader \/ SentPiece \/ (\E b \in Bases : TableWritten(b)) \/ UNCHANGED streamVars
  BY <1>5, QuietStep, Zenon
<1> QED
  BY <1>1, <1>2, <1>3, <1>4, <1>5, Zenon DEF StreamNext, Transfer

(* Where the partition is read by the reader of its flash, what a client   *)
(* gets of a backup is the partition from its first byte on, never longer  *)
(* than the announced length, and no read of httpd_handle_backup or        *)
(* backup_chunk_next goes beyond the RAM: for every size of the partition, *)
(* the RAM, the sectors and the pages.                                     *)
THEOREM StreamRight ==
    ASSUME Served
    PROVE  StreamSpec => [](Contiguous /\ NotOverrun /\ FitsRam)
<1>1. StreamInit => IInv
  BY InitInv, Zenon
<1>2. IInv /\ [StreamNext]_streamVars => IInv'
  BY NextInv, Zenon
<1>3. IInv => Contiguous /\ NotOverrun /\ FitsRam
  <2>1. SUFFICES ASSUME IInv, open PROVE Len(file) + data.n <= length
    BY Zenon DEF IInv, NotOverrun
  <2>2. Len(file) + data.n = (IF chunked THEN total_sent ELSE total_size)
        /\ length = total_size /\ (chunked => total_sent + total_remaining = total_size)
    BY <2>1, Zenon DEF IInv, StreamInv
  <2>3. total_sent \in Nat /\ total_remaining \in Nat /\ total_size \in Nat
    BY <2>1, Zenon DEF IInv, StreamTypeOK
  <2>4. chunked \in BOOLEAN
    BY <2>1, Zenon DEF IInv, StreamTypeOK
  <2>5. CASE chunked
    BY <2>2, <2>3, <2>5
  <2>6. CASE ~chunked
    BY <2>2, <2>3, <2>6
  <2> QED
    BY <2>5, <2>6, Zenon
<1> QED
  BY <1>1, <1>2, <1>3, PTL DEF StreamSpec
-----------------------------------------------------------------------------
(* What there is to read in the form that was asked for. *)
Avail(r) == IF r /\ OnNand THEN total_pages * raw_page_size ELSE part_total

(* The length n is all that was asked for and the flash holds, up to one   *)
(* raw page.                                                               *)
Enough(n, size, r) ==
    \/ n = Least(size, Avail(r))
    \/ r /\ n + raw_page_size > Least(size, Avail(r))

(* Why a file that has its length is whole: no file goes beyond what there *)
(* is, and a length either is enough or goes beyond it.                    *)
WholeInv ==
    /\ Len(file) <= Available
    /\ open => Len(file) + data.n <= Available
    /\ length > 0 /\ ~(asked.raw /\ ShortReads) =>
          Enough(length, asked.size, asked.raw) \/ length > Available

(* The sizes are numbers. *)
LEMMA AvailNat ==
    /\ \A r : Avail(r) \in Nat
    /\ raw_page_size \in Nat \ {0} /\ total_pages * raw_page_size \in Nat
    /\ Available = Avail(asked.raw)
<1>1. raw_page_size \in Nat \ {0} /\ total_pages \in Nat /\ part_total \in Nat
  BY BackupAssumption DEF raw_page_size
<1>2. total_pages * raw_page_size \in Nat
  BY <1>1, SMTT(60)
<1> QED
  BY <1>1, <1>2, Zenon DEF Avail, Available

(* What a reader that gives something gives: nothing beyond the end and,   *)
(* from the first byte on, what was asked for.                             *)
Fills(got, offset, size, r) ==
    /\ offset + got.n <= Avail(r)
    /\ offset = 0 /\ ~(r /\ ShortReads) =>
          \/ got.n >= Least(size, Avail(r))
          \/ r /\ got.n <= size /\ got.n + raw_page_size > size

(* nand_raw_chunk_read stops at the last page. *)
LEMMA RawFills ==
    ASSUME OnNand, NEW offset \in Nat, NEW size \in Nat,
           offset % raw_page_size = 0, NEW got \in nand_raw_chunk_read(offset, size), got.n > 0
    PROVE  Fills(got, offset, size, TRUE)
<1> DEFINE rp == raw_page_size
           start_page == offset \div rp
           wanted == IF size < rp THEN 1 ELSE size \div rp
           pages_avail == Least(wanted, total_pages - start_page)
           all == total_pages * rp
<1>1. rp \in Nat \ {0} /\ total_pages \in Nat /\ all \in Nat /\ Avail(TRUE) = all
  BY AvailNat, BackupAssumption, Zenon DEF Avail
<1>2. start_page \in Nat /\ start_page * rp = offset
  BY <1>1, Division, Zenon
<1>3. wanted \in Nat /\ (wanted * rp >= size \/ (wanted * rp <= size /\ wanted * rp + rp > size))
  <2>1. CASE size < rp
    <3>1. 1 * rp = rp
      BY <1>1
    <3> QED
      BY <2>1, <3>1, <1>1
  <2>2. CASE ~(size < rp)
    <3>1. size \div rp \in Nat /\ (size \div rp) * rp <= size /\ size < (size \div rp) * rp + rp
      BY <1>1, Division, Zenon
    <3> QED
      BY <3>1, <2>2, <1>1, Zenon
  <2> QED
    BY <2>1, <2>2, Zenon
<1>4. got # Nothing
  BY DEF Nothing, Run
<1>5. start_page < total_pages
  BY <1>4, <1>1, <1>2, SMTT(60) DEF nand_raw_chunk_read
<1>6. PICK p \in (IF ShortReads THEN 1 ELSE pages_avail)..pages_avail :
          got = Run("raw", start_page * rp, p * rp)
  BY <1>4, <1>5, <1>1, <1>2, Zenon DEF nand_raw_chunk_read
<1> HIDE DEF wanted, start_page, rp
<1>7. /\ pages_avail \in Nat /\ start_page + pages_avail <= total_pages
      /\ pages_avail = wanted \/ (pages_avail < wanted /\ pages_avail = total_pages - start_page)
  BY <1>1, <1>2, <1>3, <1>5, SMTT(60) DEF Least
<1> HIDE DEF pages_avail
<1>8. p \in Nat /\ p <= pages_avail /\ (~ShortReads => p = pages_avail) /\ got.n = p * rp
  BY <1>6, <1>7, SMTT(60) DEF Run
<1>9. offset + got.n <= Avail(TRUE)
  <2>1. start_page + p \in Nat /\ start_page + p <= total_pages
    BY <1>1, <1>2, <1>7, <1>8
  <2>2. (start_page + p) * rp <= total_pages * rp
    BY <2>1, <1>1, Monotone, Zenon
  <2>3. (start_page + p) * rp = start_page * rp + p * rp
    BY <1>1, <1>2, <1>8, SMTT(60)
  <2> QED
    BY <1>1, <1>2, <1>8, <2>2, <2>3, ZenonT(60)
<1>10. ASSUME offset = 0, ~ShortReads
       PROVE  \/ got.n >= Least(size, all)
              \/ got.n <= size /\ got.n + rp > size
  <2>1. start_page = 0
    <3>1. ASSUME start_page >= 1 PROVE FALSE
      <4>1. 1 * rp <= start_page * rp
        BY <3>1, <1>1, <1>2, Monotone, Zenon
      <4> QED
        BY <4>1, <1>1, <1>2, <1>10, SMTT(60)
    <3> QED
      BY <3>1, <1>2
  <2>2. CASE pages_avail = wanted
    <3>1. got.n = wanted * rp /\ wanted * rp \in Nat
      BY <2>2, <1>1, <1>3, <1>8, <1>10, SMTT(60)
    <3> HIDE DEF all
    <3> QED
      BY <3>1, <1>1, <1>3, SMTT(60) DEF Least
  <2>3. CASE pages_avail = total_pages
    <3>1. got.n = all
      BY <2>3, <1>8, <1>10, Zenon
    <3> HIDE DEF all
    <3> QED
      BY <3>1, <1>1 DEF Least
  <2> QED
    BY <1>1, <1>7, <2>1, <2>2, <2>3
<1> QED
  BY <1>1, <1>9, <1>10, ZenonT(60) DEF Fills, rp

(* The chunk of the partition ends where that ends. *)
LEMMA ChunkFills ==
    ASSUME NEW offset \in Nat, NEW size \in Nat
    PROVE  /\ Chunk(offset, size) \in Nat
           /\ Chunk(offset, size) > 0 => offset + Chunk(offset, size) <= part_total
           /\ offset = 0 => Chunk(offset, size) = Least(size, part_total)
BY BackupAssumption, SMTT(60) DEF Chunk, Least

(* emmc_chunk_read: the last sector is one of the partition. *)
LEMMA EmmcFills ==
    ASSUME OnEmmc, NEW offset \in Nat, NEW size \in Nat, offset % blksz = 0, NEW r \in BOOLEAN,
           NEW got \in emmc_chunk_read(offset, size), got.n > 0
    PROVE  Fills(got, offset, size, r)
<1> DEFINE c == Chunk(offset, size)
           k == (c + blksz - 1) \div blksz
           left == part_total - offset
<1>1. blksz \in Nat \ {0} /\ part_total \in Nat /\ part_total % blksz = 0 /\ Avail(r) = part_total
  BY BackupAssumption, SectorAssumption, Zenon DEF Avail, OnEmmc
<1>2. c \in Nat /\ (c > 0 => offset + c <= part_total) /\ (offset = 0 => c = Least(size, part_total))
  BY ChunkFills, Zenon
<1>3. got # Nothing
  BY SMTT(60) DEF Nothing, Run
<1>4. got.n = k * blksz
  BY <1>3 DEF emmc_chunk_read, Run
<1> HIDE DEF c
<1>5. c > 0
  <2>1. ASSUME c = 0 PROVE FALSE
    <3>1. k = 0
      BY <2>1, <1>1
    <3>2. k * blksz = 0
      BY <3>1, <1>1
    <3> QED
      BY <3>2, <1>4
  <2> QED
    BY <2>1, <1>2
<1>6. left \in Nat /\ left % blksz = 0 /\ c <= left
  <2> DEFINE p == part_total \div blksz
             q == offset \div blksz
  <2>1. p \in Nat /\ q \in Nat /\ p * blksz = part_total /\ q * blksz = offset
    BY <1>1, Division, Zenon
  <2> HIDE DEF p, q
  <2>2. offset < part_total
    BY <1>1, <1>2, <1>5
  <2>3. q <= p
    <3>1. ASSUME p <= q PROVE part_total <= offset
      BY <3>1, <1>1, <2>1, Monotone, Zenon
    <3> QED
      BY <1>1, <2>1, <2>2, <3>1, SMTT(60)
  <2>4. p - q \in Nat
    BY <2>1, <2>3
  <2>5. (p - q) * blksz = p * blksz - q * blksz
    BY <1>1, <2>1
  <2>6. left = (p - q) * blksz
    BY <2>1, <2>5, Zenon
  <2>7. ((p - q) * blksz) % blksz = 0 /\ (p - q) * blksz \in Nat
    BY <1>1, <2>4, Multiple, Zenon
  <2>8. left \in Nat /\ left % blksz = 0
    BY <2>6, <2>7, Zenon
  <2> QED
    BY <1>1, <1>2, <1>5, <2>8, SMTT(60)
<1> HIDE DEF left
<1>7. k * blksz \in Nat /\ k * blksz >= c /\ k * blksz <= left
  BY <1>1, <1>2, <1>6, RoundUp, ZenonT(60)
<1> HIDE DEF k
<1>8. offset + got.n <= part_total
  BY <1>1, <1>4, <1>7 DEF left
<1>9. offset = 0 => got.n >= Least(size, part_total)
  BY <1>2, <1>4, <1>7, Zenon
<1> QED
  BY <1>1, <1>8, <1>9, Zenon DEF Fills

(* flashread_partition_chunk. *)
LEMMA ReaderFills ==
    ASSUME Served, NEW offset \in Nat, NEW size \in Nat, NEW r \in BOOLEAN, WholeUnits(r, offset),
           NEW got \in flashread_partition_chunk(offset, size, r), got.n > 0
    PROVE  Fills(got, offset, size, r)
<1> DEFINE c == Chunk(offset, size)
<1>1. c \in Nat /\ (c > 0 => offset + c <= part_total) /\ (offset = 0 => c = Least(size, part_total))
  BY ChunkFills, Zenon
<1>2. got # Nothing
  BY DEF Nothing, Run
<1>3. CASE OnNand /\ r = TRUE
  <2>1. got \in nand_raw_chunk_read(offset, size) /\ offset % raw_page_size = 0
    BY <1>2, <1>3, Zenon DEF flashread_partition_chunk, WholeUnits
  <2> QED
    BY <2>1, <1>3, RawFills, ZenonT(60)
<1>4. CASE OnEmmc
  <2>1. got \in emmc_chunk_read(offset, size) /\ offset % blksz = 0
    BY <1>4, Zenon DEF flashread_partition_chunk, WholeUnits, OnEmmc
  <2> QED
    BY <2>1, <1>4, EmmcFills, Zenon
<1>5. CASE ~OnEmmc /\ ~(OnNand /\ r = TRUE)
  <2>1. got.n = c
    <3>1. CASE OnNand
      BY <3>1, <1>2, <1>5 DEF flashread_partition_chunk, nand_chunk_read, Run
    <3>2. CASE ~OnNand
      BY <3>2, <1>2, <1>5 DEF flashread_partition_chunk, sf_chunk_read, Served, Run
    <3> QED
      BY <3>1, <3>2, Zenon
  <2>2. Avail(r) = part_total
    BY <1>5, Zenon DEF Avail
  <2> HIDE DEF c
  <2>3. part_total \in Nat /\ Least(size, part_total) \in Nat
    BY BackupAssumption, Zenon DEF Least
  <2> QED
    BY <2>1, <2>2, <2>3, <1>1 DEF Fills
<1> QED
  BY <1>3, <1>4, <1>5, ZenonT(60)

(* Capping the size loses nothing that the flash holds. *)
LEMMA CapKeeps ==
    ASSUME NEW size \in Nat, size > 0, NEW r \in BOOLEAN, NEW capacity \in backup_flash_capacity(r),
           r /\ OnNand => Part = "nand_full"
    PROVE  /\ capacity \in Nat
           /\ Capped(size, capacity) \in Nat /\ Capped(size, capacity) > 0
           /\ Least(Capped(size, capacity), Avail(r)) = Least(size, Avail(r))
<1>1. Avail(r) \in Nat /\ total_pages * raw_page_size \in Nat
  BY AvailNat, Zenon
<1>2. part_total \in Nat /\ chip_size \in Nat /\ part_total <= chip_size
  BY BackupAssumption, Zenon
<1>3. capacity \in Nat /\ (capacity = 0 \/ capacity >= Avail(r))
  <2>1. CASE Part = "nand_full"
    BY <2>1, <1>1, <1>2 DEF backup_flash_capacity, Avail, OnNand
  <2>2. CASE Part # "nand_full" /\ ~(r /\ OnNand)
    BY <2>2, <1>1, <1>2, SMTT(60) DEF backup_flash_capacity, Avail
  <2> QED
    BY <2>1, <2>2, Zenon
<1> QED
  BY <1>1, <1>3 DEF Capped, Least

(* A request that is answered: the length is settled. *)
LEMMA WholeStart ==
    ASSUME Served, IInv, NEW size \in ReqSizes, NEW r \in BOOLEAN, httpd_handle_backup(size, r),
           NEW capacity \in backup_flash_capacity(r),
           BackupStarts(Capped(size, capacity), r)
    PROVE  WholeInv'
<1> DEFINE total == Capped(size, capacity)
           first == Least(total, ram_avail)
<1>1. PICK got \in flashread_partition_chunk(0, first, r) :
         LET n == Least(got.n, total)
             all == total > ram_avail
         IN  /\ got.n > 0
             /\ total_size' = IF all THEN total ELSE n
             /\ data' = [got EXCEPT !.n = n]
             /\ length' = total_size'
  BY Zenon DEF BackupStarts
<1>2. got.n > 0 /\ got # Nothing
  BY <1>1, SMTT(60) DEF Nothing, Run
<1>3. r /\ OnNand => Part = "nand_full"
  BY <1>2, ZenonT(60) DEF flashread_partition_chunk
<1>4. size \in Nat /\ size > 0 /\ ram_avail \in Nat
  BY BackupAssumption, SMTT(60)
<1>5. /\ total \in Nat /\ total > 0
      /\ Least(total, Avail(r)) = Least(size, Avail(r))
  BY <1>3, <1>4, CapKeeps, ZenonT(60)
<1>6. raw' = r /\ asked' = [size |-> size, raw |-> r] /\ file' = <<>>
  BY ZenonT(60) DEF httpd_handle_backup
<1> HIDE DEF total
<1>7. first \in Nat /\ first <= ram_avail /\ (total <= ram_avail => first = total)
  BY <1>4, <1>5, SMTT(60) DEF Least
<1>8. WholeUnits(r, 0)
  BY BackupAssumption, SMTT(60) DEF WholeUnits, raw_page_size
<1>9. EmmcBase \in Bases /\ table \in Bases
  BY BaseType, ZenonT(60) DEF IInv, StreamTypeOK
<1> HIDE DEF first
<1>10. Good(got, 0, r) /\ Fills(got, 0, first, r)
  BY <1>2, <1>7, <1>8, <1>9, Reader, ReaderFills, ZenonT(60)
<1> DEFINE n == Least(got.n, total)
           a == Avail(r)
           rp == raw_page_size
<1>11. /\ got.n \in Nat /\ got \in Runs /\ got.n <= a /\ a \in Nat /\ rp \in Nat
       /\ ~(r /\ ShortReads) =>
             got.n >= Least(first, a) \/ (r /\ got.n <= first /\ got.n + rp > first)
  BY <1>10, AvailNat DEF Good, Fills, Runs
<1>12. data'.n = n /\ (total <= ram_avail => length' = n) /\ (total > ram_avail => length' = total)
  BY <1>1, <1>4, <1>5, <1>11 DEF Runs
<1> HIDE DEF a, rp
<1>13. n \in Nat /\ n <= a
  BY <1>5, <1>11 DEF Least
<1>14. ASSUME total <= ram_avail, ~(r /\ ShortReads)
       PROVE  n = Least(total, a) \/ (r /\ n + rp > Least(total, a))
  <2>1. first = total
    BY <1>7, <1>14, Zenon
  <2>2. CASE got.n >= Least(total, a)
    BY <2>2, <1>5, <1>11 DEF Least
  <2>3. CASE r /\ got.n <= total /\ got.n + rp > total
    <3>1. n = got.n
      BY <2>3, <1>5, <1>11, Zenon DEF Least
    <3>2. Least(total, a) <= total
      BY <1>5, <1>11, SMTT(60) DEF Least
    <3>3. Least(total, a) \in Nat
      BY <1>5, <1>11, Zenon DEF Least
    <3> HIDE DEF n
    <3> QED
      BY <2>3, <3>1, <3>2, <3>3, <1>5, <1>11
  <2> QED
    BY <1>11, <1>14, <2>1, <2>2, <2>3, ZenonT(60)
<1>15. ASSUME total > ram_avail PROVE total = Least(total, a) \/ total > a
  BY <1>5, <1>11, SMTT(60) DEF Least
<1> HIDE DEF n
<1>16. Available' = a /\ Avail(r)' = a
  BY <1>6, Zenon DEF Available, Avail, a, OnNand
<1>17. Len(file') = 0 /\ Len(file') + data'.n = n
  BY <1>6, <1>12, <1>13, SMTT(60)
<1>18. Least(total, a) = Least(size, a)
  BY <1>5, Zenon DEF a
<1>19. ASSUME ~(r /\ ShortReads)
       PROVE  \/ length' = Least(size, a)
              \/ r /\ length' + rp > Least(size, a)
              \/ length' > a
  BY <1>4, <1>5, <1>12, <1>14, <1>15, <1>18, <1>19, SMTT(60)
<1>20. asked'.size = size /\ asked'.raw = r
  BY <1>6, Zenon
<1>21. Enough(length', size, r) <=> length' = Least(size, a) \/ (r /\ length' + rp > Least(size, a))
  BY Zenon DEF Enough, rp, a
<1>22. 0 <= a
  BY <1>11
<1> QED
  BY <1>13, <1>16, <1>17, <1>19, <1>20, <1>21, <1>22, ZenonT(60) DEF WholeInv, Enough, raw_page_size, rp

(* The other steps. *)
LEMMA WholeStep ==
    ASSUME Served, IInv, WholeInv, [StreamNext]_streamVars PROVE WholeInv'
<1>0. Available \in Nat
  BY AvailNat, Zenon
<1>k. ASSUME UNCHANGED <<length, asked, file>>, open' => open /\ data'.n = data.n
      PROVE  WholeInv'
  BY <1>k, Zenon DEF WholeInv, Available, Avail, Enough, OnNand
<1>1. CASE \E size \in ReqSizes, r \in BOOLEAN : httpd_handle_backup(size, r)
  <2>1. PICK size \in ReqSizes, r \in BOOLEAN : httpd_handle_backup(size, r)
    BY <1>1, Zenon
  <2>2. PICK capacity \in backup_flash_capacity(r) :
           BackupFails(Capped(size, capacity), r) \/ BackupStarts(Capped(size, capacity), r)
    BY <2>1, Zenon DEF httpd_handle_backup
  <2>3. CASE BackupFails(Capped(size, capacity), r)
    <3>1. file' = <<>> /\ length' = 0 /\ ~open'
      BY <2>1, <2>3, Zenon DEF httpd_handle_backup, BackupFails
    <3>2. Available' \in Nat
      BY AvailNat, Zenon DEF Available, Avail, OnNand
    <3> QED
      BY <3>1, <3>2 DEF WholeInv
  <2> QED
    BY <2>1, <2>2, <2>3, WholeStart, Zenon
<1>2. CASE \E n \in 1..data.n : httpd_send_data(n)
  <2>1. PICK n \in 1..data.n : httpd_send_data(n)
    BY <1>2, Zenon
  <2>2. /\ file \in Seq({"raw", "data"} \X Nat) /\ data \in Runs
        /\ n \in Nat /\ n <= data.n /\ data.n \in Nat /\ open
    BY <2>1, SMTT(60) DEF IInv, StreamTypeOK, Runs, httpd_send_data
  <2>3. Len(file') = Len(file) + n /\ data'.n = data.n - n /\ Len(file) \in Nat
    BY <2>1, <2>2, SendAppends, SMTT(60) DEF httpd_send_data, Run
  <2>4. Len(file') + data'.n = Len(file) + data.n /\ Len(file') <= Len(file) + data.n
    BY <2>2, <2>3
  <2>5. UNCHANGED <<length, asked>>
    BY <2>1, Zenon DEF httpd_send_data
  <2>6. Len(file') <= Available /\ Len(file') + data'.n <= Available
    BY <1>0, <2>2, <2>3, <2>4 DEF WholeInv
  <2>7. Available' = Available
    BY <2>5, Zenon DEF Available, OnNand
  <2> QED
    BY <2>5, <2>6, <2>7, Zenon DEF WholeInv, Enough, Avail, OnNand
<1>3. CASE open /\ chunk_busy /\ NextPiece
  <2>1. PICK got \in flashread_partition_chunk(chunk_offset, Least(total_remaining, ram_avail), raw) :
          /\ got.n > 0
          /\ total_sent' = Least(total_sent + got.n, total_size)
          /\ data' = [got EXCEPT !.n = total_sent' - total_sent]
          /\ UNCHANGED <<open, client>>
    BY <1>3, Zenon DEF NextPiece
  <2>2. /\ chunk_offset = total_sent /\ WholeUnits(raw, chunk_offset) /\ raw = asked.raw
        /\ Len(file) + data.n = total_sent /\ data.n = 0 /\ total_sent + total_remaining = total_size
    BY <1>3, Zenon DEF IInv, StreamInv, More
  <2>3. /\ chunk_offset \in Nat /\ total_remaining \in Nat /\ total_sent \in Nat /\ total_size \in Nat
        /\ raw \in BOOLEAN /\ file \in Seq({"raw", "data"} \X Nat) /\ Len(file) \in Nat
    BY DEF IInv, StreamTypeOK
  <2>4. /\ Least(total_remaining, ram_avail) \in Nat
        /\ Least(total_remaining, ram_avail) <= ram_avail
    BY <2>3, BackupAssumption, SMTT(60) DEF Least
  <2>5. EmmcBase \in Bases /\ table \in Bases
    BY BaseType, Zenon DEF IInv, StreamTypeOK
  <2>6. Good(got, chunk_offset, raw) /\ chunk_offset + got.n <= Avail(raw)
    BY <2>1, <2>2, <2>3, <2>4, <2>5, Reader, ReaderFills, Zenon DEF Fills
  <2>7. got \in Runs /\ got.n \in Nat /\ Avail(raw) = Available
    BY <2>2, <2>6, AvailNat, Zenon DEF Good, Runs
  <2>8. total_sent' \in Nat /\ total_sent' <= total_sent + got.n
    BY <2>1, <2>3, <2>7, SMTT(60) DEF Least
  <2>9. data'.n = total_sent' - total_sent
    BY <2>1, <2>7, Zenon DEF Runs
  <2>10. Len(file) + data'.n <= Available
    BY <1>0, <2>2, <2>3, <2>6, <2>7, <2>8, <2>9
  <2>11. UNCHANGED <<file, length, asked>>
    BY <2>1, Zenon DEF client
  <2> QED
    BY <2>10, <2>11, Zenon DEF WholeInv, Available, Enough, Avail, OnNand
<1>4. CASE httpd_state_reset
  BY <1>4, <1>k, Zenon DEF httpd_state_reset, client
<1>5. CASE SentHeader \/ SentPiece \/ (\E b \in Bases : TableWritten(b)) \/ UNCHANGED streamVars
  <2>1. UNCHANGED <<client, open, data>>
    BY <1>5, Zenon DEF SentHeader, SentPiece, TableWritten, streamVars, client
  <2> QED
    BY <1>k, <2>1, Zenon DEF client
<1>6. backup_chunk_next => (open /\ chunk_busy /\ NextPiece) \/ httpd_state_reset
  BY Zenon DEF backup_chunk_next, NoPiece
<1>7. SentAll \/ ConnectionLost => httpd_state_reset
  BY Zenon DEF SentAll, ConnectionLost
<1> QED
  BY <1>1, <1>2, <1>3, <1>4, <1>5, <1>6, <1>7, Zenon DEF StreamNext, Transfer

(* A file as long as was announced is all that was asked for and the flash *)
(* holds, up to a raw page, for every size of the partition, the RAM, the  *)
(* sectors and the pages: httpd_handle_backup caps and cuts the length,    *)
(* backup_chunk_next ends early only by closing the connection.            *)
THEOREM NothingMissing == ASSUME Served PROVE StreamSpec => []Whole
<1>1. StreamInit => IInv /\ WholeInv
  <2>1. StreamInit => Len(file) = 0 /\ ~open /\ length = 0
    BY Zenon DEF StreamInit
  <2> QED
    BY <2>1, InitInv, AvailNat, SMTT(60) DEF WholeInv
<1>2. IInv /\ WholeInv /\ [StreamNext]_streamVars => IInv' /\ WholeInv'
  BY NextInv, WholeStep, Zenon
<1>3. IInv /\ WholeInv => Whole
  <2> SUFFICES ASSUME WholeInv, length > 0, Len(file) = length, ~(asked.raw /\ ShortReads),
                      length \in Nat
               PROVE  Enough(length, asked.size, asked.raw)
    BY AvailNat, Zenon DEF Whole, Enough, IInv, StreamTypeOK
  <2>1. Enough(length, asked.size, asked.raw) \/ length > Available
    BY Zenon DEF WholeInv
  <2>2. length <= Available /\ Available \in Nat
    BY AvailNat, Zenon DEF WholeInv
  <2> QED
    BY <2>1, <2>2, SMTT(60)
<1> QED
  BY <1>1, <1>2, <1>3, PTL DEF StreamSpec
=============================================================================
