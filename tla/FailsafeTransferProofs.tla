---------------------- MODULE FailsafeTransferProofs ------------------------
(***************************************************************************)
(* The upload RAM, the order of a backup's chunks, and an upload's counter.*)
(*                                                                         *)
(* None of the three is inductive.  They rest on what separates two        *)
(* sessions that use the same globals one after the other: session numbers *)
(* are never reused, nothing of a backup survives its connection, and the  *)
(* wait of backup_chunk_next remembers which session it reads for.         *)
(***************************************************************************)
EXTENDS FailsafeHttpdProofs

\* Nothing is to be sent, and nothing was.
Drained(h) == h.dataptr = "null" /\ h.out = <<>>

\* A connection that has no request yet, or is not live, has no transfer; only an
\* answer is sent; a live connection has a session of its own.
Sane(h) ==
    /\ ~h.live => h.state = "NONE"
    /\ h.state = "NONE" => ~h.owns
    /\ h.state # "FILE_REQUEST" => Drained(h)
    /\ h.live => h.sess > 0 /\ h.sess <= accepts

Sessions ==
    /\ \A c \in Conn : Sane(hs[c])
    /\ \A c, d \in Conn : hs[c].live /\ hs[d].live /\ hs[c].sess = hs[d].sess => c = d

\* struct backup is zero unless a backup owns it.
NoneLeft ==
    hs_global = NULL \/ hs[hs_global].state = "UPLOAD_REQUEST" => backup = NoBackup

\* Only a command is suspended below the innermost activation.
Suspended == \A i \in DOMAIN stack : i > 1 => stack[i].pc \in {"flash_cmd", "cmd"}

\* A backup for which backup_chunk_next waits is hs_global as long as it lives.
Waiting ==
    At("chunk_wait") =>
        /\ stack[1].n <= accepts
        /\ \A c \in Conn : hs[c].live /\ hs[c].sess = stack[1].n =>
              hs_global = c /\ hs[c].state = "FILE_REQUEST"

Awaited(s) == At("chunk_wait") /\ stack[1].n = s

\* How far backup b of connection h has come: chunk n is in the RAM, and wait says
\* that backup_chunk_next has read it but not handed it over.
Stream(h, b, n, wait) ==
    /\ InOrder(h.out)
    /\ b.data_size = 1
    /\ b.chunked => b.chunk_num = n + 1
    /\ h.upload \in {0, 1}
    /\ b.chunk_busy => h.upload = 0 /\ ~b.sending_header
    /\ wait => b.chunk_busy
    /\ IF b.sending_header
       THEN n = 1 /\ h.dataptr = "header" /\ Len(h.out) = 1 - h.upload
       ELSE /\ h.upload = 1 => h.dataptr = "ram"
            /\ Len(h.out) = IF h.upload = 1 \/ wait THEN n ELSE n + 1

Order ==
    ~taken /\ hs_global # NULL /\ hs[hs_global].state = "FILE_REQUEST" =>
        Stream(hs[hs_global], backup, ram.n, Awaited(hs[hs_global].sess))

Transfers == Sessions /\ NoneLeft /\ Waiting /\ RamOwned /\ UploadCounterUnlessTaken /\ Order

TransferInv == TypeOK /\ OwnerInv /\ Suspended /\ Transfers

\* The owner of the globals is live and past its request line, an upload is the
\* owner, and without an owner struct backup is zero.
LEMMA OwnerFacts ==
    ASSUME TransferInv, NEW c \in Conn
    PROVE  /\ hs[c] \in Hs
           /\ hs_global = c => hs[c].live /\ hs[c].owns
                               /\ hs[c].state \in {"UPLOAD_REQUEST", "FILE_REQUEST"}
           /\ hs[c].owns => hs_global = c
           /\ hs[c].state = "UPLOAD_REQUEST" => hs_global = c
           /\ hs[c].state = "NONE" /\ ~Busy(c) => hs_global = NULL
  <1>1. hs[c] \in Hs /\ hs_global \in Conn \cup {NULL}
    BY Zenon DEF TransferInv, TypeOK
  <1>2. hs[c].owns => hs[c].state # "NONE"
    BY Zenon DEF TransferInv, Transfers, Sessions, Sane
  <1>3. /\ hs_global = c => hs[c].live /\ hs[c].owns
        /\ hs[c].owns => hs_global = c
        /\ hs[c].state = "UPLOAD_REQUEST" => hs_global = c
    BY NullAssumption, Zenon DEF TransferInv, OwnerInv, SingleOwner, UploadOwns
  <1> QED BY <1>1, <1>2, <1>3, Zenon DEF Hs, States, Busy

\* A step of a connection that does not own the globals.
LEMMA Aside ==
    ASSUME TransferInv, NEW c \in Conn, NEW r \in Hs, hs_global # c,
           hs' = [hs EXCEPT ![c] = r],
           hs_global' = hs_global, backup' = backup, taken' = taken, stack' = stack,
           hs_global = NULL \/ (ram' = ram /\ upload'.data_start_found = upload.data_start_found),
           accepts' \in Nat, accepts' >= accepts,
           ~r.owns, ~r.live => r.state = "NONE",
           r.state = "FILE_REQUEST" \/ (r.state = "NONE" /\ Drained(r)),
           r.live => \/ hs[c].live /\ r.sess = hs[c].sess
                     \/ r.sess = accepts' /\ accepts' > accepts
    PROVE  Transfers'
  <1>t. /\ hs \in [Conn -> Hs] /\ hs_global \in Conn \cup {NULL} /\ accepts \in Nat
        /\ Transfers /\ stack \in Seq(Frames)
    BY Zenon DEF TransferInv, TypeOK
  <1>h. ASSUME NEW d \in Conn PROVE hs'[d] = IF d = c THEN r ELSE hs[d]
    BY <1>t, Zenon
  <1>n. \A d \in Conn : hs[d] \in Hs /\ hs[d].sess \in Nat
    BY <1>t, Zenon DEF Hs
  <1>s. Sessions
    BY <1>t, Zenon DEF Transfers
  <1>1. Sessions'
    <2>1. ASSUME NEW d \in Conn PROVE Sane(hs[d])'
      <3>1. CASE d = c
        BY <1>h, <1>n, <1>s, <1>t, <3>1 DEF Sessions, Sane
      <3>2. CASE d # c
        BY <1>h, <1>n, <1>s, <1>t, <3>2 DEF Sessions, Sane
      <3> QED BY <3>1, <3>2, Zenon
    <2>2. ASSUME NEW d \in Conn, NEW e \in Conn,
                 hs'[d].live, hs'[e].live, hs'[d].sess = hs'[e].sess
          PROVE  d = e
      BY <1>h, <1>n, <1>s, <1>t, <2>2 DEF Sessions, Sane
    <2> QED BY <2>1, <2>2, Zenon DEF Sessions
  <1>g. hs_global # NULL => hs_global \in Conn /\ hs'[hs_global] = hs[hs_global]
    BY <1>t, <1>h, Zenon
  <1>2. NoneLeft'
    BY <1>t, <1>g, Zenon DEF Transfers, NoneLeft
  <1>3. Waiting'
    <2> SUFFICES ASSUME At("chunk_wait") PROVE
               /\ stack[1].n <= accepts'
               /\ \A d \in Conn : hs'[d].live /\ hs'[d].sess = stack[1].n =>
                     hs_global = d /\ hs'[d].state = "FILE_REQUEST"
      BY Zenon DEF Waiting, At
    <2>1. /\ stack[1].n <= accepts /\ stack[1].n \in Nat
          /\ \A d \in Conn : hs[d].live /\ hs[d].sess = stack[1].n =>
                hs_global = d /\ hs[d].state = "FILE_REQUEST"
      BY <1>t DEF Transfers, Waiting, At, Frames
    <2> QED BY <2>1, <1>h, <1>t, <1>n
  <1>4. RamOwned'
    BY <1>t, <1>g, Zenon DEF Transfers, RamOwned
  <1>5. UploadCounterUnlessTaken'
    <2> SUFFICES ASSUME NEW d \in Conn, ~taken, hs'[d].state = "UPLOAD_REQUEST",
                        upload'.data_start_found
                 PROVE  hs'[d].upload = hs'[d].got
      BY Zenon DEF UploadCounterUnlessTaken, UploadCounter
    <2>1. d # c /\ hs'[d] = hs[d] /\ hs_global = d
      BY <1>h, OwnerFacts
    <2>2. upload'.data_start_found = upload.data_start_found
      BY <2>1, NullAssumption, Zenon
    <2> QED BY <2>1, <2>2, <1>t, Zenon DEF Transfers, UploadCounterUnlessTaken, UploadCounter
  <1>6. Order'
    <2> SUFFICES ASSUME ~taken, hs_global # NULL, hs'[hs_global].state = "FILE_REQUEST"
                 PROVE  Stream(hs'[hs_global], backup', ram'.n,
                               At("chunk_wait") /\ stack[1].n = hs'[hs_global].sess)
      BY Zenon DEF Order, Awaited, At
    <2>1. Stream(hs[hs_global], backup, ram.n,
                 At("chunk_wait") /\ stack[1].n = hs[hs_global].sess)
      BY <1>g, <1>t, Zenon DEF Transfers, Order, Awaited
    <2> QED BY <2>1, <1>g, Zenon
  <1> QED BY <1>1, <1>2, <1>3, <1>4, <1>5, <1>6, Zenon DEF Transfers

\* A connection gives the globals up, or none was the owner.
LEMMA Vacate ==
    ASSUME TransferInv, NEW c \in Conn, NEW r \in Hs, hs_global \in {NULL, c},
           hs' = [hs EXCEPT ![c] = r],
           hs_global' = NULL, backup' = NoBackup,
           taken' = taken, accepts' = accepts,
           stack' = stack \/ ~At("chunk_wait")',
           ~r.owns, ~r.live => r.state = "NONE",
           r.state = "FILE_REQUEST" \/ (r.state = "NONE" /\ Drained(r)),
           r.live => /\ hs[c].live /\ r.sess = hs[c].sess
                     /\ hs[c].state # "FILE_REQUEST"
    PROVE  Transfers'
  <1>t. /\ hs \in [Conn -> Hs] /\ hs_global \in Conn \cup {NULL} /\ accepts \in Nat
        /\ Transfers /\ stack \in Seq(Frames)
    BY Zenon DEF TransferInv, TypeOK
  <1>h. ASSUME NEW d \in Conn PROVE hs'[d] = IF d = c THEN r ELSE hs[d]
    BY <1>t, Zenon
  <1>s. Sessions
    BY <1>t, Zenon DEF Transfers
  <1>u. \A d \in Conn : hs'[d].state # "UPLOAD_REQUEST"
    BY <1>h, OwnerFacts, NullAssumption
  <1>1. Sessions'
    <2>1. ASSUME NEW d \in Conn PROVE Sane(hs[d])'
      <3>1. CASE d = c
        BY <1>h, <1>s, <1>t, <3>1, Zenon DEF Sessions, Sane
      <3>2. CASE d # c
        BY <1>h, <1>s, <1>t, <3>2, Zenon DEF Sessions, Sane
      <3> QED BY <3>1, <3>2, Zenon
    <2>2. ASSUME NEW d \in Conn, NEW e \in Conn,
                 hs'[d].live, hs'[e].live, hs'[d].sess = hs'[e].sess
          PROVE  d = e
      BY <1>h, <1>s, <1>t, <2>2, Zenon DEF Sessions
    <2> QED BY <2>1, <2>2, Zenon DEF Sessions
  <1>2. NoneLeft'
    BY Zenon DEF NoneLeft
  <1>3. Waiting'
    <2> SUFFICES ASSUME At("chunk_wait"), stack' = stack PROVE
               /\ stack[1].n <= accepts
               /\ \A d \in Conn : ~(hs'[d].live /\ hs'[d].sess = stack[1].n)
      BY Zenon DEF Waiting, At
    <2>1. /\ stack[1].n <= accepts
          /\ \A d \in Conn : hs[d].live /\ hs[d].sess = stack[1].n =>
                hs_global = d /\ hs[d].state = "FILE_REQUEST"
      BY <1>t, Zenon DEF Transfers, Waiting
    <2> QED BY <2>1, <1>h, NullAssumption
  <1>4. RamOwned' /\ Order'
    BY Zenon DEF RamOwned, Order
  <1>5. UploadCounterUnlessTaken'
    BY <1>u, Zenon DEF UploadCounterUnlessTaken, UploadCounter
  <1> QED BY <1>1, <1>2, <1>3, <1>4, <1>5, Zenon DEF Transfers

\* A connection takes the globals for an upload, or goes on with its upload.
LEMMA Uploading ==
    ASSUME TransferInv, NEW c \in Conn, NEW r \in Hs, hs_global \in {NULL, c},
           hs' = [hs EXCEPT ![c] = r], hs[c].live, hs[c].state # "FILE_REQUEST",
           hs_global' = c, backup' = backup,
           taken' = taken, stack' = stack, accepts' = accepts,
           ram'.use = "upload", ram'.sess = hs[c].sess,
           r.state = "UPLOAD_REQUEST", r.owns, r.live, r.sess = hs[c].sess,
           Drained(r), taken \/ (upload'.data_start_found => r.upload = r.got)
    PROVE  Transfers'
  <1>t. /\ hs \in [Conn -> Hs] /\ hs_global \in Conn \cup {NULL} /\ accepts \in Nat
        /\ Transfers /\ stack \in Seq(Frames)
    BY Zenon DEF TransferInv, TypeOK
  <1>h. ASSUME NEW d \in Conn PROVE hs'[d] = IF d = c THEN r ELSE hs[d]
    BY <1>t, Zenon
  <1>s. Sessions
    BY <1>t, Zenon DEF Transfers
  <1>u. \A d \in Conn : d # c => hs'[d].state # "UPLOAD_REQUEST"
    BY <1>h, OwnerFacts, NullAssumption
  <1>1. Sessions'
    <2>1. ASSUME NEW d \in Conn PROVE Sane(hs[d])'
      <3>1. CASE d = c
        BY <1>h, <1>s, <1>t, <3>1, Zenon DEF Sessions, Sane
      <3>2. CASE d # c
        BY <1>h, <1>s, <1>t, <3>2, Zenon DEF Sessions, Sane
      <3> QED BY <3>1, <3>2, Zenon
    <2>2. ASSUME NEW d \in Conn, NEW e \in Conn,
                 hs'[d].live, hs'[e].live, hs'[d].sess = hs'[e].sess
          PROVE  d = e
      BY <1>h, <1>s, <1>t, <2>2, ZenonT(60) DEF Sessions
    <2> QED BY <2>1, <2>2, Zenon DEF Sessions
  <1>2. NoneLeft'
    <2>1. hs_global = c => hs[c].state = "UPLOAD_REQUEST"
      BY OwnerFacts, Zenon
    <2>2. backup = NoBackup
      BY <1>t, <2>1, Zenon DEF Transfers, NoneLeft
    <2> QED BY <2>2, Zenon DEF NoneLeft
  <1>3. Waiting'
    <2> SUFFICES ASSUME At("chunk_wait") PROVE
               /\ stack[1].n <= accepts
               /\ \A d \in Conn : ~(hs'[d].live /\ hs'[d].sess = stack[1].n)
      BY Zenon DEF Waiting, At
    <2>1. /\ stack[1].n <= accepts
          /\ \A d \in Conn : hs[d].live /\ hs[d].sess = stack[1].n =>
                hs_global = d /\ hs[d].state = "FILE_REQUEST"
      BY <1>t, Zenon DEF Transfers, Waiting
    <2> QED BY <2>1, <1>h, NullAssumption
  <1>4. RamOwned' /\ Order'
    BY <1>h, Zenon DEF RamOwned, Order
  <1>5. UploadCounterUnlessTaken'
    BY <1>h, <1>u, Zenon DEF UploadCounterUnlessTaken, UploadCounter
  <1> QED BY <1>1, <1>2, <1>3, <1>4, <1>5, Zenon DEF Transfers

\* A connection takes the globals for a backup, or goes on with its backup.
LEMMA Downloading ==
    ASSUME TransferInv, NEW c \in Conn, NEW r \in Hs,
           \/ hs_global = c /\ hs[c].state = "FILE_REQUEST"
           \/ hs_global = NULL /\ hs[c].live,
           hs' = [hs EXCEPT ![c] = r], hs_global' = c,
           taken' = taken, stack' = stack, accepts' = accepts,
           ram'.use = "backup", ram'.sess = hs[c].sess,
           r.state = "FILE_REQUEST", r.owns, r.live, r.sess = hs[c].sess,
           ~taken => Stream(r, backup', ram'.n, Awaited(hs[c].sess))
    PROVE  Transfers'
  <1>t. /\ hs \in [Conn -> Hs] /\ hs_global \in Conn \cup {NULL} /\ accepts \in Nat
        /\ Transfers /\ stack \in Seq(Frames) /\ hs[c].live
    BY OwnerFacts, Zenon DEF TransferInv, TypeOK
  <1>h. ASSUME NEW d \in Conn PROVE hs'[d] = IF d = c THEN r ELSE hs[d]
    BY <1>t, Zenon
  <1>s. Sessions
    BY <1>t, Zenon DEF Transfers
  <1>u. \A d \in Conn : hs'[d].state # "UPLOAD_REQUEST"
    BY <1>h, OwnerFacts, NullAssumption, ZenonT(60)
  <1>1. Sessions'
    <2>1. ASSUME NEW d \in Conn PROVE Sane(hs[d])'
      <3>1. CASE d = c
        BY <1>h, <1>s, <1>t, <3>1, Zenon DEF Sessions, Sane
      <3>2. CASE d # c
        BY <1>h, <1>s, <1>t, <3>2, Zenon DEF Sessions, Sane
      <3> QED BY <3>1, <3>2, Zenon
    <2>2. ASSUME NEW d \in Conn, NEW e \in Conn,
                 hs'[d].live, hs'[e].live, hs'[d].sess = hs'[e].sess
          PROVE  d = e
      BY <1>h, <1>s, <1>t, <2>2, ZenonT(60) DEF Sessions
    <2> QED BY <2>1, <2>2, Zenon DEF Sessions
  <1>2. NoneLeft'
    BY <1>h, NullAssumption, Zenon DEF NoneLeft
  <1>3. Waiting'
    <2> SUFFICES ASSUME At("chunk_wait") PROVE
               /\ stack[1].n <= accepts
               /\ \A d \in Conn : hs'[d].live /\ hs'[d].sess = stack[1].n =>
                     c = d /\ hs'[d].state = "FILE_REQUEST"
      BY Zenon DEF Waiting, At
    <2>1. /\ stack[1].n <= accepts
          /\ \A d \in Conn : hs[d].live /\ hs[d].sess = stack[1].n =>
                hs_global = d /\ hs[d].state = "FILE_REQUEST"
      BY <1>t, Zenon DEF Transfers, Waiting
    <2> QED BY <2>1, <1>h, NullAssumption
  <1>4. RamOwned'
    BY <1>h, Zenon DEF RamOwned
  <1>5. UploadCounterUnlessTaken'
    BY <1>u, Zenon DEF UploadCounterUnlessTaken, UploadCounter
  <1>6. Order'
    <2> SUFFICES ASSUME ~taken
                 PROVE  Stream(hs'[c], backup', ram'.n,
                               At("chunk_wait") /\ stack[1].n = hs'[c].sess)
      BY Zenon DEF Order, Awaited, At
    <2> QED BY <1>h, ZenonT(60) DEF Awaited
  <1> QED BY <1>1, <1>2, <1>3, <1>4, <1>5, <1>6, Zenon DEF Transfers

\* A step of the poll loop that leaves the connections alone.
LEMMA Apart ==
    ASSUME TransferInv, ~At("chunk_wait") \/ hs_global = NULL, ~At("chunk_wait")',
           UNCHANGED <<hs, hs_global, upload, backup, ram, taken, accepts>>
    PROVE  Transfers'
  <1>p. Transfers
    BY Zenon DEF TransferInv
  <1>1. Sessions'
    BY <1>p, Zenon DEF Transfers, Sessions, Sane
  <1>2. NoneLeft' /\ RamOwned' /\ UploadCounterUnlessTaken'
    BY <1>p, Zenon DEF Transfers, NoneLeft, RamOwned, UploadCounterUnlessTaken, UploadCounter
  <1>3. Waiting'
    BY Zenon DEF Waiting
  <1>4. Order'
    BY <1>p, Zenon DEF Transfers, Order, Awaited
  <1> QED BY <1>1, <1>2, <1>3, <1>4, Zenon DEF Transfers

\* Stopping the server, or a reboot, leaves no connection.
LEMMA AllFree ==
    ASSUME TransferInv, hs' = [c \in Conn |-> FreeHs], hs_global' = NULL,
           backup' = NoBackup, accepts' = accepts, ~At("chunk_wait")'
    PROVE  Transfers'
  BY Zenon DEF Transfers, Sessions, Sane, NoneLeft, Waiting, RamOwned, Order, FreeHs,
         UploadCounterUnlessTaken, UploadCounter, Drained

\* What httpd_send_data leaves of a connection.
LEMMA SendCases ==
    ASSUME NEW h \in Hs, NEW r \in httpd_send_data(h)
    PROVE  /\ r.sess = h.sess /\ r.dataptr = h.dataptr /\ r.got = h.got
           /\ \/ r.upload = h.upload /\ r.out = h.out
              \/ /\ h.upload > 0 /\ h.dataptr # "null"
                 /\ r.upload = 0 /\ r.out = Append(h.out, Item(h))
  <1>1. CASE r = h
    BY <1>1, Zenon
  <1>2. CASE r = [h EXCEPT !.unacked = TRUE]
    BY <1>2, Zenon DEF Hs
  <1>3. CASE /\ h.upload > 0 /\ h.dataptr # "null"
             /\ r = [h EXCEPT !.unacked = TRUE, !.upload = 0, !.out = Append(@, Item(h))]
    <2>1. r.upload = 0 /\ r.out = Append(h.out, Item(h))
      BY <1>3, Zenon DEF Hs
    <2>2. r.sess = h.sess /\ r.dataptr = h.dataptr /\ r.got = h.got
      BY <1>3, Zenon DEF Hs
    <2> QED BY <1>3, <2>1, <2>2, Zenon
  <1> QED BY <1>1, <1>2, <1>3, Zenon DEF httpd_send_data

\* The number that follows the numbers received so far.
LEMMA NextInOrder ==
    ASSUME NEW s \in Seq(Int), InOrder(s)
    PROVE  InOrder(Append(s, Len(s))) /\ Len(Append(s, Len(s))) = Len(s) + 1
  <1> DEFINE r == Append(s, Len(s))
  <1>1. Len(s) \in Nat /\ DOMAIN s = 1..Len(s)
    OBVIOUS
  <1>2. r \in Seq(Int) /\ Len(r) = Len(s) + 1 /\ DOMAIN r = 1..Len(s) + 1
    BY <1>1
  <1>3. ASSUME NEW i \in DOMAIN r PROVE r[i] = i - 1
    <2>1. CASE i = Len(s) + 1
      BY <1>1, <2>1
    <2>2. CASE i \in 1..Len(s)
      <3>1. r[i] = s[i]
        BY <1>1, <2>2
      <3> QED BY <1>1, <2>2, <3>1, Zenon DEF InOrder
    <2> QED BY <1>1, <1>2, <2>1, <2>2
  <1> HIDE DEF r
  <1>4. InOrder(r)
    BY <1>3, Zenon DEF InOrder
  <1> QED BY <1>2, <1>4, Zenon DEF r

\* A backup's buffer leaves, and is the next one its client waits for.
LEMMA StreamSend ==
    ASSUME NEW h \in Hs, NEW b \in Backups, NEW n \in Nat, Stream(h, b, n, FALSE),
           Item(h) = IF h.dataptr = "ram" THEN n ELSE 0, NEW r \in httpd_send_data(h)
    PROVE  Stream(r, b, n, FALSE)
  <1>1. CASE r.upload = h.upload /\ r.out = h.out
    BY <1>1, SendCases, Zenon DEF Stream
  <1>2. CASE h.upload > 0 /\ r.upload = 0 /\ r.out = Append(h.out, Item(h))
    <2>1. /\ h.upload = 1 /\ ~b.chunk_busy /\ Len(h.out) = Item(h)
          /\ r.dataptr = h.dataptr /\ h.out \in Seq(Int) /\ Item(h) \in Nat
      BY <1>2, SendCases DEF Stream, Hs
    <2>2. InOrder(r.out) /\ Len(r.out) = Item(h) + 1
      <3>1. InOrder(h.out) /\ r.out = Append(h.out, Len(h.out))
        BY <1>2, <2>1, Zenon DEF Stream
      <3> QED BY <2>1, <3>1, NextInOrder, Zenon
    <2>3. Item(h) = IF b.sending_header THEN 0 ELSE n
      BY <2>1, Zenon DEF Stream
    <2> QED BY <1>2, <2>1, <2>2, <2>3 DEF Stream
  <1> QED BY <1>1, <1>2, SendCases, Zenon

\* A connection goes on as it is: only its idle time or its acknowledgements change.
LEMMA Touched ==
    ASSUME TransferInv, NEW c \in Conn, NEW r \in Hs, hs[c].live,
           hs' = [hs EXCEPT ![c] = r],
           UNCHANGED <<hs_global, upload, backup, ram, taken, stack, accepts>>,
           r.live = hs[c].live, r.owns = hs[c].owns, r.sess = hs[c].sess,
           r.state = hs[c].state, r.dataptr = hs[c].dataptr, r.upload = hs[c].upload,
           r.got = hs[c].got, r.out = hs[c].out
    PROVE  Transfers'
  <1>t. Transfers /\ accepts \in Nat
    BY Zenon DEF TransferInv, TypeOK
  <1>s. Sane(hs[c])
    BY <1>t, Zenon DEF Transfers, Sessions
  <1>1. CASE hs_global # c
    <2>1. hs[c].state # "UPLOAD_REQUEST" /\ ~hs[c].owns
      BY <1>1, OwnerFacts, Zenon
    <2>2. r.state = "FILE_REQUEST" \/ (r.state = "NONE" /\ Drained(r))
      BY <2>1, <1>s, Zenon DEF Sane, Drained, Hs, States
    <2>3. accepts' \in Nat /\ accepts' >= accepts
      BY <1>t
    <2>4. ~r.owns /\ r.live /\ upload'.data_start_found = upload.data_start_found
      BY <2>1, Zenon
    <2> QED BY <1>1, <2>2, <2>3, <2>4, Aside, Zenon
  <1>2. CASE hs_global = c /\ hs[c].state = "UPLOAD_REQUEST"
    <2>1. ram.use = "upload" /\ ram.sess = hs[c].sess
      BY <1>2, <1>t, NullAssumption, Zenon DEF Transfers, RamOwned
    <2>2. r.owns /\ Drained(r)
      BY <1>2, <1>s, OwnerFacts, Zenon DEF Sane, Drained
    <2>3. taken \/ (upload.data_start_found => r.upload = r.got)
      BY <1>2, <1>t, Zenon DEF Transfers, UploadCounterUnlessTaken, UploadCounter
    <2> QED BY <1>2, <2>1, <2>2, <2>3, Uploading, Zenon
  <1>3. CASE hs_global = c /\ hs[c].state = "FILE_REQUEST"
    <2>1. ram.use = "backup" /\ ram.sess = hs[c].sess
      BY <1>3, <1>t, NullAssumption, Zenon DEF Transfers, RamOwned
    <2>2. ~taken => Stream(hs[c], backup, ram.n, Awaited(hs[c].sess))
      BY <1>3, <1>t, NullAssumption, Zenon DEF Transfers, Order
    <2>3. ~taken => Stream(r, backup, ram.n, Awaited(hs[c].sess))
      BY <2>2, Zenon DEF Stream
    <2>4. r.owns
      BY <1>3, OwnerFacts, Zenon
    <2> QED BY <1>3, <2>1, <2>3, <2>4, Downloading, Zenon
  <1> QED BY <1>1, <1>2, <1>3, OwnerFacts, Zenon

\* httpd_close_conn, whatever upload it finds.
LEMMA Closed ==
    ASSUME TransferInv, NEW c \in Conn, hs' = [hs EXCEPT ![c] = FreeHs],
           hs_global' = IF hs[c].owns THEN NULL ELSE hs_global,
           backup' = IF hs[c].owns THEN NoBackup ELSE backup,
           UNCHANGED <<ram, taken, stack, accepts>>,
           \/ hs[c].owns \/ hs_global = NULL
           \/ upload'.data_start_found = upload.data_start_found
    PROVE  Transfers'
  <1>1. /\ FreeHs \in Hs /\ ~FreeHs.live /\ ~FreeHs.owns /\ FreeHs.state = "NONE"
        /\ Drained(FreeHs)
    BY NewHsType, Zenon DEF FreeHs, Drained
  <1>2. accepts' \in Nat /\ accepts' >= accepts
    BY DEF TransferInv, TypeOK
  <1>3. CASE hs[c].owns
    BY <1>1, <1>3, OwnerFacts, Vacate, Zenon
  <1>4. CASE ~hs[c].owns
    BY <1>1, <1>2, <1>4, OwnerFacts, Aside, Zenon
  <1> QED BY <1>3, <1>4, Zenon

\* A request without a transfer is answered from a buffer.
LEMMA Answered ==
    ASSUME TransferInv, NEW c \in Conn, hs[c].live, hs[c].state = "NONE",
           NEW r \in httpd_send_static([hs[c] EXCEPT !.idle = FALSE]),
           hs' = [hs EXCEPT ![c] = r],
           UNCHANGED <<hs_global, upload, backup, taken, stack, accepts>>,
           hs_global = NULL \/ ram' = ram
    PROVE  Transfers'
  <1> DEFINE g == [hs[c] EXCEPT !.idle = FALSE]
             h == [g EXCEPT !.state = "FILE_REQUEST", !.dataptr = "static", !.upload = 1]
  <1>1. hs[c] \in Hs /\ accepts \in Nat
    BY Zenon DEF TransferInv, TypeOK
  <1>2. g \in Hs /\ g.sess = hs[c].sess /\ g.live = hs[c].live /\ g.owns = hs[c].owns
    BY <1>1, Zenon DEF Hs
  <1>3. h \in Hs /\ h.sess = g.sess
    BY <1>2, Zenon DEF Hs, States
  <1>4. r \in httpd_send_static(g) /\ r \in httpd_send_data(h)
    BY Zenon DEF httpd_send_static
  <1> HIDE DEF g, h
  <1>5. r \in Hs /\ r.live = hs[c].live /\ r.owns = hs[c].owns /\ r.state = "FILE_REQUEST"
    BY <1>2, <1>4, SendStaticType, Zenon DEF TransferInv
  <1>6. r.sess = hs[c].sess
    BY <1>2, <1>3, <1>4, SendCases, Zenon
  <1>7. ~hs[c].owns /\ hs_global # c
    BY OwnerFacts, Zenon DEF TransferInv, Transfers, Sessions, Sane
  <1>8. accepts' \in Nat /\ accepts' >= accepts
    BY <1>1
  <1>9. ~r.owns /\ r.live /\ upload'.data_start_found = upload.data_start_found
    BY <1>5, <1>7, Zenon
  <1> QED BY <1>5, <1>6, <1>7, <1>8, <1>9, Aside, Zenon

\* An upload's segment, whether it completes the upload or not.
LEMMA Completed ==
    ASSUME TransferInv, NEW c \in Conn, NEW h \in Hs, NEW u, NEW w, NEW up, NEW bv,
           httpd_check_upload_complete(c, h, u, w, up, c, bv),
           hs_global \in {NULL, c}, hs[c].live, hs[c].state # "FILE_REQUEST",
           h.live, h.owns, h.state = "UPLOAD_REQUEST", h.sess = hs[c].sess,
           Drained(h), taken \/ (u.data_start_found => h.upload = h.got),
           ram'.use = "upload", ram'.sess = hs[c].sess,
           UNCHANGED <<taken, stack, accepts>>
    PROVE  Transfers'
  <1>1. CASE h.upload >= h.total + Trailer
    <2> DEFINE e == ResetHs(h)
               g == [e EXCEPT !.state = "FILE_REQUEST", !.dataptr = "static", !.upload = 1]
    <2>1. e \in Hs /\ ~e.owns /\ e.live = h.live /\ e.sess = h.sess
      BY Zenon DEF ResetHs, Hs, States
    <2>2. PICK r \in httpd_send_static(e) : hs' = [hs EXCEPT ![c] = r]
      BY <1>1, Zenon DEF httpd_check_upload_complete
    <2> HIDE DEF e
    <2>3. g \in Hs /\ g.sess = e.sess /\ r \in httpd_send_data(g)
      BY <2>1, <2>2, Zenon DEF Hs, States, httpd_send_static
    <2> HIDE DEF g
    <2>4. r \in Hs /\ ~r.owns /\ r.state = "FILE_REQUEST" /\ r.live = h.live
      BY <2>1, <2>2, SendStaticType, Zenon DEF TransferInv
    <2>5. r.sess = hs[c].sess
      BY <2>1, <2>3, SendCases, Zenon
    <2>6. hs_global' = NULL /\ backup' = NoBackup
      BY <1>1, Zenon DEF httpd_check_upload_complete
    <2> QED BY <2>2, <2>4, <2>5, <2>6, Vacate, Zenon
  <1>2. CASE ~(h.upload >= h.total + Trailer)
    <2>1. hs' = [hs EXCEPT ![c] = h] /\ hs_global' = c /\ upload' = u /\ backup' = backup
      BY <1>2, Zenon DEF httpd_check_upload_complete
    <2> QED BY <2>1, Uploading, Zenon
  <1> QED BY <1>1, <1>2, Zenon

\* The acknowledgement of a backup's header makes its first chunk the next buffer.
LEMMA SentType ==
    ASSUME TransferInv, NEW c \in Conn, NEW more \in BOOLEAN
    PROVE  LET h == SentHs(c, more) IN
           /\ h \in Hs /\ h.live = hs[c].live /\ h.owns = hs[c].owns
           /\ h.sess = hs[c].sess /\ h.got = hs[c].got /\ h.out = hs[c].out
           /\ ~HeaderDone(c) => /\ h.state = hs[c].state /\ h.dataptr = hs[c].dataptr
                                /\ h.upload = hs[c].upload
           /\ HeaderDone(c) => /\ h.state = "FILE_REQUEST" /\ h.dataptr = "ram"
                               /\ h.upload = backup.data_size
  <1>1. hs[c] \in Hs /\ backup.data_size \in Nat
    BY DEF TransferInv, TypeOK, Backups
  <1> QED BY <1>1, Zenon DEF SentHs, Hs, States

\* A backup that is the owner: the step that acknowledges leaves it a stream.
LEMMA SentStream ==
    ASSUME TransferInv, NEW c \in Conn, NEW more \in BOOLEAN, hs_global = c,
           hs[c].state = "FILE_REQUEST", ~taken
    PROVE  /\ Stream(SentHs(c, more), SentBackup(c), ram.n, Awaited(hs[c].sess))
           /\ SentHs(c, more).state = "FILE_REQUEST"
           /\ Awaited(hs[c].sess) => SentHs(c, more).upload = 0
           /\ SentBackup(c) \in Backups
           /\ SentHs(c, more).dataptr = "ram" => Item(SentHs(c, more)) = ram.n
           /\ SentHs(c, more).dataptr # "ram" => Item(SentHs(c, more)) = 0
  <1> DEFINE h == SentHs(c, more)
             b == SentBackup(c)
  <1>1. Transfers /\ backup \in Backups /\ hs[c].owns
    BY OwnerFacts, Zenon DEF TransferInv, TypeOK
  <1>2. Stream(hs[c], backup, ram.n, Awaited(hs[c].sess))
    BY <1>1, NullAssumption, Zenon DEF Transfers, Order
  <1>3. /\ b \in Backups /\ b.data_size = backup.data_size /\ b.chunked = backup.chunked
        /\ b.chunk_num = backup.chunk_num /\ b.chunk_busy = backup.chunk_busy
        /\ b.sending_header = (backup.sending_header /\ ~HeaderDone(c))
    BY <1>1, Zenon DEF SentBackup, Backups
  <1>4. HeaderDone(c) <=> backup.sending_header /\ hs[c].upload = 0
    BY <1>1, Zenon DEF HeaderDone, Owner
  <1>5. h \in Hs /\ h.sess = hs[c].sess /\ h.out = hs[c].out
    BY SentType, Zenon
  <1>6. ram.use = "backup" /\ ram.sess = h.sess
    BY <1>1, <1>5, NullAssumption, Zenon DEF Transfers, RamOwned
  <1>7. CASE HeaderDone(c)
    <2>1. h.state = "FILE_REQUEST" /\ h.dataptr = "ram" /\ h.upload = backup.data_size
      BY <1>7, SentType, Zenon
    <2> HIDE DEF h, b
    <2>2. /\ backup.sending_header /\ hs[c].upload = 0 /\ ~b.sending_header
          /\ ~backup.chunk_busy /\ ~b.chunk_busy /\ ~Awaited(hs[c].sess)
      BY <1>2, <1>3, <1>4, <1>7, Zenon DEF Stream
    <2>3. /\ InOrder(h.out) /\ Len(h.out) = 1 /\ ram.n = 1 /\ h.upload = 1
          /\ b.data_size = 1
          /\ b.chunked => b.chunk_num = ram.n + 1
      BY <1>2, <1>3, <1>5, <2>1, <2>2 DEF Stream
    <2>4. Stream(h, b, ram.n, Awaited(hs[c].sess))
      <3>1. Stream(h, b, ram.n, FALSE)
        BY <2>1, <2>2, <2>3, Zenon DEF Stream
      <3>2. Awaited(hs[c].sess) = FALSE
        BY <2>2, Zenon DEF Awaited, At
      <3> QED BY <3>1, <3>2, Zenon
    <2> QED BY <1>3, <1>5, <1>6, <2>1, <2>2, <2>4, Zenon DEF Item, h, b
  <1>8. CASE ~HeaderDone(c)
    <2>1. h.state = "FILE_REQUEST" /\ h.dataptr = hs[c].dataptr /\ h.upload = hs[c].upload
      BY <1>8, SentType, Zenon
    <2> HIDE DEF h, b
    <2>2. Stream(h, b, ram.n, Awaited(hs[c].sess))
      BY <1>2, <1>3, <1>4, <1>5, <1>8, <2>1, Zenon DEF Stream
    <2>3. Awaited(hs[c].sess) => h.upload = 0
      BY <2>2, Zenon DEF Stream
    <2> QED BY <1>3, <1>5, <1>6, <2>1, <2>2, <2>3, Zenon DEF Item, h, b
  <1> QED BY <1>7, <1>8, Zenon

\* httpd_sent that queues more or asks for the next chunk.
LEMMA Sent ==
    ASSUME TransferInv, NEW c \in Conn, httpd_sent_more(c) \/ httpd_sent_chunk(c)
    PROVE  Transfers'
  <1>t. /\ Transfers /\ accepts \in Nat /\ hs[c] \in Hs /\ hs[c].live /\ backup \in Backups
        /\ TypeOK
    BY Zenon DEF TransferInv, TypeOK, httpd_sent_more, httpd_sent_chunk, Rx
  <1>u. UNCHANGED <<hs_global, upload, ram, taken, stack, accepts>>
    BY Zenon DEF httpd_sent_more, httpd_sent_chunk, uploadVars, history
  <1>p. PICK more \in BOOLEAN : \E r \in httpd_send_data(SentHs(c, more)) :
              hs' = [hs EXCEPT ![c] = r]
    <2>1. ASSUME NEW m \in BOOLEAN PROVE SentHs(c, m) \in httpd_send_data(SentHs(c, m))
      BY Zenon DEF httpd_send_data
    <2> QED BY <2>1, Zenon DEF httpd_sent_more, httpd_sent_chunk
  <1> DEFINE h == SentHs(c, more)
  <1>r. PICK r \in httpd_send_data(h) : hs' = [hs EXCEPT ![c] = r]
    BY <1>p, Zenon
  <1>h. /\ h \in Hs /\ h.live = hs[c].live /\ h.owns = hs[c].owns
        /\ h.sess = hs[c].sess /\ h.got = hs[c].got /\ h.out = hs[c].out
        /\ ~HeaderDone(c) => h.state = hs[c].state /\ h.dataptr = hs[c].dataptr
                             /\ h.upload = hs[c].upload
    BY SentType, Zenon
  <1>s. Sane(hs[c])
    BY <1>t, Zenon DEF Transfers, Sessions
  <1>1. CASE hs_global # c
    <2>1. ~hs[c].owns /\ hs[c].state # "UPLOAD_REQUEST" /\ ~HeaderDone(c)
      BY <1>1, OwnerFacts, Zenon DEF HeaderDone, Owner
    <2>2. backup' = backup
      <3>1. httpd_sent_more(c)
        BY <1>1, Zenon DEF httpd_sent_chunk, Owner
      <3>2. backup' = [backup EXCEPT !.sending_header = @ /\ ~HeaderDone(c)]
        BY <3>1, Zenon DEF httpd_sent_more, SentBackup
      <3> QED BY <3>2, <2>1, <1>t, Zenon DEF Backups
    <2> HIDE DEF h
    <2>3. /\ r \in Hs /\ r.live /\ ~r.owns /\ r.sess = hs[c].sess /\ r.state = hs[c].state
          /\ r.dataptr = hs[c].dataptr
      BY <1>t, <1>h, <1>r, <2>1, SendType, SendCases, Zenon
    <2>4. r.state = "FILE_REQUEST" \/ (r.state = "NONE" /\ Drained(r))
      BY <1>h, <1>r, <1>s, <1>t, <2>1, <2>3, SendCases, ZenonT(60) DEF Sane, Drained, Hs, States
    <2>5. /\ accepts' \in Nat /\ accepts' >= accepts
          /\ upload'.data_start_found = upload.data_start_found
      BY <1>t, <1>u
    <2> QED BY <1>1, <1>t, <1>u, <1>r, <2>2, <2>3, <2>4, <2>5, Aside, Zenon
  <1>2. CASE hs_global = c /\ hs[c].state = "UPLOAD_REQUEST"
    <2>1. backup = NoBackup
      BY <1>2, <1>t, Zenon DEF Transfers, NoneLeft
    <2>2. ~HeaderDone(c) /\ ~httpd_sent_chunk(c)
      BY <2>1, Zenon DEF HeaderDone, NoBackup, httpd_sent_chunk
    <2>3. backup' = backup
      <3>1. backup' = [backup EXCEPT !.sending_header = @ /\ ~HeaderDone(c)]
        BY <2>2, Zenon DEF httpd_sent_more, SentBackup
      <3> QED BY <3>1, <2>2, <1>t, Zenon DEF Backups
    <2>4. Drained(h)
      BY <1>2, <1>h, <1>s, <2>2, Zenon DEF Sane, Drained
    <2> HIDE DEF h
    <2>5. /\ r \in Hs /\ r.live /\ r.owns /\ r.sess = hs[c].sess /\ r.state = "UPLOAD_REQUEST"
          /\ Drained(r) /\ r.upload = hs[c].upload /\ r.got = hs[c].got
      BY <1>t, <1>h, <1>r, <1>2, <2>2, <2>4, SendType, SendCases, OwnerFacts, Zenon DEF Drained
    <2>6. ram.use = "upload" /\ ram.sess = hs[c].sess
      BY <1>2, <1>t, NullAssumption, Zenon DEF Transfers, RamOwned
    <2>7. taken \/ (upload.data_start_found => r.upload = r.got)
      BY <1>2, <1>t, <2>5, Zenon DEF Transfers, UploadCounterUnlessTaken, UploadCounter
    <2> QED BY <1>2, <1>t, <1>u, <1>r, <2>3, <2>5, <2>6, <2>7, Uploading, ZenonT(60)
  <1>3. CASE hs_global = c /\ hs[c].state = "FILE_REQUEST"
    <2>1. h.state = "FILE_REQUEST"
      BY <1>3, SentType, Zenon
    <2>2. r \in Hs /\ r.live /\ r.owns /\ r.sess = hs[c].sess /\ r.state = "FILE_REQUEST"
      <3> HIDE DEF h
      <3> QED BY <1>t, <1>h, <1>r, <1>3, <2>1, SendType, SendCases, OwnerFacts, Zenon
    <2>3. ram.use = "backup" /\ ram.sess = hs[c].sess
      BY <1>3, <1>t, NullAssumption, Zenon DEF Transfers, RamOwned
    <2>4. ASSUME ~taken PROVE Stream(r, backup', ram.n, Awaited(hs[c].sess))
      <3>1. /\ Stream(h, SentBackup(c), ram.n, Awaited(hs[c].sess))
            /\ Awaited(hs[c].sess) => h.upload = 0
            /\ SentBackup(c) \in Backups
            /\ Item(h) = IF h.dataptr = "ram" THEN ram.n ELSE 0
        BY <1>3, <2>4, SentStream, Zenon
      <3>2. ram.n \in Nat
        BY <1>t, Zenon DEF TypeOK, Rams
      <3>3. CASE httpd_sent_more(c)
        <4>1. backup' = SentBackup(c)
          BY <3>3, Zenon DEF httpd_sent_more
        <4>2. CASE h.upload = 0
          <5> HIDE DEF h
          <5>1. r.upload = h.upload /\ r.out = h.out /\ r.dataptr = h.dataptr
            BY <4>2, <1>h, <1>r, SendCases, SMTT(60)
          <5>2. Stream(h, SentBackup(c), ram.n, Awaited(hs[c].sess))
            BY <3>1, Zenon
          <5> QED BY <4>1, <5>1, <5>2, Zenon DEF Stream
        <4>3. CASE h.upload # 0
          <5>1. Awaited(hs[c].sess) = FALSE
            BY <3>1, <4>3, Zenon DEF Awaited, At
          <5> HIDE DEF h
          <5>2. Stream(h, SentBackup(c), ram.n, FALSE)
            BY <3>1, <5>1, Zenon
          <5>3. Stream(r, SentBackup(c), ram.n, FALSE)
            BY <3>1, <3>2, <5>2, <1>h, <1>r, StreamSend, Zenon
          <5> QED BY <4>1, <5>1, <5>3, Zenon
        <4> QED BY <4>2, <4>3, Zenon
      <3>4. CASE httpd_sent_chunk(c)
        <4>1. /\ backup.chunk_busy \/ (backup.chunked /\ backup.remaining > 0)
              /\ backup' = [SentBackup(c) EXCEPT !.chunk_busy = TRUE]
          BY <3>4, Zenon DEF httpd_sent_chunk
        <4>2. PICK m \in BOOLEAN : /\ SentHs(c, m).upload = 0
                                   /\ hs' = [hs EXCEPT ![c] = SentHs(c, m)]
          BY <3>4, Zenon DEF httpd_sent_chunk
        <4>3. r = SentHs(c, m)
          BY <1>r, <4>2, <1>t, Zenon DEF TypeOK
        <4>4. Stream(r, SentBackup(c), ram.n, Awaited(hs[c].sess)) /\ r.upload = 0
          BY <1>3, <2>4, <4>2, <4>3, SentStream, Zenon
        <4>5. ~SentBackup(c).sending_header
          <5>1. ~HeaderDone(c)
            <6> SUFFICES ASSUME HeaderDone(c) PROVE FALSE
              BY Zenon
            <6>1. SentHs(c, m).upload = backup.data_size
              BY SentType, Zenon
            <6>2. backup.data_size = 1
              BY <3>1, <1>t, Zenon DEF Stream, SentBackup, Backups
            <6> QED BY <6>1, <6>2, <4>2
          <5>2. ~backup.sending_header
            <6>1. hs[c].upload = 0
              BY <4>2, <5>1, SentType, Zenon
            <6> QED BY <5>1, <6>1, <1>3, OwnerFacts, Zenon DEF HeaderDone, Owner
          <5> QED BY <5>2, <1>t, Zenon DEF SentBackup, Backups
        <4> DEFINE b == SentBackup(c)
        <4>6. b \in Backups
          BY <3>1, Zenon
        <4> HIDE DEF b
        <4>7. /\ backup'.data_size = b.data_size /\ backup'.chunked = b.chunked
              /\ backup'.chunk_num = b.chunk_num /\ backup'.chunk_busy = TRUE
              /\ backup'.sending_header = b.sending_header
          BY <4>1, <4>6, Zenon DEF Backups, b
        <4> QED BY <4>4, <4>5, <4>7, Zenon DEF Stream, b
      <3> QED BY <3>3, <3>4, Zenon
    <2> QED BY <1>3, <1>t, <1>u, <1>r, <2>2, <2>3, <2>4, Downloading, Zenon
  <1> QED BY <1>1, <1>2, <1>3, OwnerFacts, Zenon

\* httpd_poll_cb retries what lwIP did not take.
LEMMA Retried ==
    ASSUME TransferInv, NEW c \in Conn, httpd_poll_cb_send(c)
    PROVE  Transfers'
  <1>t. /\ Transfers /\ accepts \in Nat /\ hs[c] \in Hs /\ hs[c].live /\ backup \in Backups
        /\ TypeOK /\ hs[c].upload > 0
    BY Zenon DEF TransferInv, TypeOK, httpd_poll_cb_send
  <1>u. UNCHANGED <<hs_global, upload, backup, ram, taken, stack, accepts>>
    BY Zenon DEF httpd_poll_cb_send, uploadVars, ownerVars, history
  <1>r. PICK r \in httpd_send_data(hs[c]) : hs' = [hs EXCEPT ![c] = r]
    BY Zenon DEF httpd_poll_cb_send
  <1>h. /\ r \in Hs /\ r.live = hs[c].live /\ r.owns = hs[c].owns /\ r.sess = hs[c].sess
        /\ r.state = hs[c].state /\ r.dataptr = hs[c].dataptr /\ r.got = hs[c].got
    BY <1>t, <1>r, SendType, SendCases, Zenon
  <1>s. Sane(hs[c])
    BY <1>t, Zenon DEF Transfers, Sessions
  <1>1. CASE hs_global # c
    <2>1. ~hs[c].owns /\ hs[c].state # "UPLOAD_REQUEST"
      BY <1>1, OwnerFacts, Zenon
    <2>2. r.state = "FILE_REQUEST" \/ (r.state = "NONE" /\ Drained(r))
      BY <1>h, <1>r, <1>s, <1>t, <2>1, SendCases, Zenon DEF Sane, Drained, Hs, States
    <2>3. /\ accepts' \in Nat /\ accepts' >= accepts /\ ~r.owns /\ r.live
          /\ r.sess = hs[c].sess /\ upload'.data_start_found = upload.data_start_found
      BY <1>t, <1>u, <1>h, <2>1
    <2> QED BY <1>1, <1>t, <1>u, <1>r, <1>h, <2>2, <2>3, Aside, Zenon
  <1>2. CASE hs_global = c /\ hs[c].state = "UPLOAD_REQUEST"
    <2>1. Drained(hs[c])
      BY <1>2, <1>s, Zenon DEF Sane
    <2>2. r.owns /\ Drained(r) /\ r.upload = hs[c].upload
      BY <1>t, <1>r, <1>h, <1>2, <2>1, SendCases, OwnerFacts, Zenon DEF Drained
    <2>3. ram.use = "upload" /\ ram.sess = hs[c].sess
      BY <1>2, <1>t, NullAssumption, Zenon DEF Transfers, RamOwned
    <2>4. taken \/ (upload.data_start_found => r.upload = r.got)
      BY <1>2, <1>t, <1>h, <2>2, Zenon DEF Transfers, UploadCounterUnlessTaken, UploadCounter
    <2> QED BY <1>2, <1>t, <1>u, <1>r, <1>h, <2>1, <2>2, <2>3, <2>4, Uploading, Zenon
  <1>3. CASE hs_global = c /\ hs[c].state = "FILE_REQUEST"
    <2>1. ram.use = "backup" /\ ram.sess = hs[c].sess
      BY <1>3, <1>t, NullAssumption, Zenon DEF Transfers, RamOwned
    <2>2. ASSUME ~taken PROVE Stream(r, backup, ram.n, Awaited(hs[c].sess))
      <3>1. Stream(hs[c], backup, ram.n, Awaited(hs[c].sess))
        BY <1>3, <1>t, <2>2, NullAssumption, Zenon DEF Transfers, Order
      <3>2. Awaited(hs[c].sess) = FALSE
        BY <3>1, <1>t DEF Stream, Awaited, At
      <3>3. Item(hs[c]) = IF hs[c].dataptr = "ram" THEN ram.n ELSE 0
        BY <2>1, Zenon DEF Item
      <3>4. ram.n \in Nat
        BY <1>t, Zenon DEF TypeOK, Rams
      <3>5. Stream(hs[c], backup, ram.n, FALSE)
        BY <3>1, <3>2, Zenon
      <3>6. Stream(r, backup, ram.n, FALSE)
        BY <3>3, <3>4, <3>5, <1>t, <1>r, StreamSend, Zenon
      <3> QED BY <3>2, <3>6, Zenon
    <2>3. r.owns
      BY <1>h, <1>3, OwnerFacts, Zenon
    <2> QED BY <1>3, <1>t, <1>u, <1>r, <1>h, <2>1, <2>2, <2>3, Downloading, Zenon
  <1> QED BY <1>1, <1>2, <1>3, OwnerFacts, Zenon

\* The callbacks that free their connection.
LEMMA ClosedCallback ==
    ASSUME TransferInv, NEW c \in Conn,
           \/ httpd_recv_close(c) \/ httpd_recv_nomem(c) \/ httpd_recv_abort(c)
           \/ httpd_recv_post_badlength(c) \/ httpd_recv_nofirst(c) \/ httpd_sent_close(c)
           \/ httpd_err(c) \/ httpd_poll_cb_timeout(c)
    PROVE  Transfers'
  <1>t. upload \in Uploads
    BY Zenon DEF TransferInv, TypeOK
  <1>1. ASSUME NEW u, httpd_close_conn(c, u), UNCHANGED <<ram, taken, stack, accepts>>,
               \/ hs[c].owns \/ hs_global = NULL
               \/ u.data_start_found = upload.data_start_found
        PROVE  Transfers'
    BY <1>1, Closed, Zenon DEF httpd_close_conn, httpd_state_reset
  <1>2. CASE ArmAndClose(c)
    <2> DEFINE u == IF Arming(c) THEN [upload EXCEPT !.done = FALSE, !.failed = FALSE]
                    ELSE upload
    <2>1. u.data_start_found = upload.data_start_found
      BY <1>t, Zenon DEF Uploads
    <2>2. httpd_close_conn(c, u) /\ UNCHANGED <<ram, taken, stack, accepts>>
      BY <1>2, Zenon DEF ArmAndClose, history
    <2> HIDE DEF u
    <2> QED BY <1>1, <2>1, <2>2, Zenon
  <1>3. CASE DiscardAndClose(c)
    <2> DEFINE u == IF upload_hs = c THEN [upload EXCEPT !.done = FALSE, !.failed = FALSE]
                    ELSE upload
    <2>1. u.data_start_found = upload.data_start_found
      BY <1>t, Zenon DEF Uploads
    <2>2. /\ httpd_state_reset(c, u, IF hs_global = c THEN NULL ELSE hs_global)
          /\ hs' = [hs EXCEPT ![c] = FreeHs]
          /\ UNCHANGED <<ram, taken, stack, accepts>>
      BY <1>3, Zenon DEF DiscardAndClose, history
    <2> HIDE DEF u
    <2>3. ~hs[c].owns => hs_global # c
      BY OwnerFacts, Zenon
    <2> QED BY <2>1, <2>2, <2>3, Closed, Zenon DEF httpd_state_reset
  <1>4. CASE httpd_recv_nomem(c) \/ httpd_recv_abort(c)
    BY <1>4, <1>1, Zenon DEF httpd_recv_nomem, httpd_recv_abort, history
  <1>5. CASE httpd_recv_post_badlength(c)
    <2>1. hs_global = NULL
      BY <1>5, OwnerFacts, Zenon DEF httpd_recv_post_badlength
    <2> QED BY <1>5, <1>1, <2>1, Zenon DEF httpd_recv_post_badlength, history
  <1>6. CASE httpd_recv_nofirst(c)
    <2>1. hs[c].owns
      BY <1>6, OwnerFacts, Zenon DEF httpd_recv_nofirst
    <2>2. \E u : httpd_close_conn(c, u)
      BY <1>6, Zenon DEF httpd_recv_nofirst
    <2>3. UNCHANGED <<ram, taken, stack, accepts>>
      BY <1>6, Zenon DEF httpd_recv_nofirst, history
    <2> QED BY <1>1, <2>1, <2>2, <2>3, Zenon
  <1> QED BY <1>2, <1>3, <1>4, <1>5, <1>6, Zenon
          DEF httpd_recv_close, httpd_sent_close, httpd_err, httpd_poll_cb_timeout

\* The callbacks that answer, or only note that the client is there.
LEMMA AnsweredCallback ==
    ASSUME TransferInv, NEW c \in Conn,
           \/ httpd_accept(c) \/ httpd_recv_static(c)
           \/ \E cmd \in Cmd : webterm_execute_command(c, cmd)
           \/ httpd_recv_ignored(c) \/ httpd_recv_busy(c) \/ IdleTime(c)
    PROVE  Transfers'
  <1>t. hs[c] \in Hs /\ accepts \in Nat
    BY Zenon DEF TransferInv, TypeOK
  <1>1. CASE httpd_accept(c)
    <2> DEFINE r == NewHs(accepts + 1)
    <2>1. /\ r \in Hs /\ r.live /\ ~r.owns /\ r.state = "NONE" /\ r.sess = accepts + 1
          /\ Drained(r)
      <3>1. r \in Hs
        BY <1>t, NewHsType
      <3>2. /\ r.live /\ ~r.owns /\ r.state = "NONE" /\ r.sess = accepts + 1
            /\ r.dataptr = "null" /\ r.out = <<>>
        BY Zenon DEF NewHs, FreeHs
      <3> QED BY <3>1, <3>2, Zenon DEF Drained
    <2>2. /\ hs_global # c /\ hs' = [hs EXCEPT ![c] = r] /\ accepts' = accepts + 1
          /\ UNCHANGED <<hs_global, upload, backup, ram, taken, stack>>
      BY <1>1, OwnerFacts, Zenon DEF httpd_accept, uploadVars, ownerVars, history
    <2> HIDE DEF r
    <2>3. accepts' \in Nat /\ accepts' >= accepts /\ accepts' > accepts /\ r.sess = accepts'
      <3>1. accepts' = accepts + 1 /\ r.sess = accepts'
        BY <2>1, <2>2, Zenon
      <3> QED BY <1>t, <3>1
    <2> QED BY <2>1, <2>2, <2>3, Aside, Zenon
  <1>2. ASSUME Respond(c), Rx(c), hs[c].state = "NONE" PROVE Transfers'
    <2>1. PICK r \in httpd_send_static([hs[c] EXCEPT !.idle = FALSE]) :
                 hs' = [hs EXCEPT ![c] = r]
      BY <1>2, Zenon DEF Respond
    <2>2. UNCHANGED <<hs_global, upload, backup, ram, taken, stack, accepts>>
      BY <1>2, Zenon DEF Respond, uploadVars, ownerVars, history
    <2> QED BY <1>2, <2>1, <2>2, Answered, Zenon DEF Rx
  <1>3. ASSUME NEW b \in BOOLEAN, hs' = [hs EXCEPT ![c].idle = b], hs[c].live,
               UNCHANGED <<uploadVars, ownerVars, stack, accepts, history>>
        PROVE  Transfers'
    <2> DEFINE r == [hs[c] EXCEPT !.idle = b]
    <2>1. /\ r \in Hs /\ r.live = hs[c].live /\ r.owns = hs[c].owns /\ r.sess = hs[c].sess
          /\ r.state = hs[c].state /\ r.dataptr = hs[c].dataptr /\ r.upload = hs[c].upload
          /\ r.got = hs[c].got /\ r.out = hs[c].out
      BY <1>t, Zenon DEF Hs
    <2>2. hs' = [hs EXCEPT ![c] = r]
      BY <1>3, Zenon
    <2>3. UNCHANGED <<hs_global, upload, backup, ram, taken, stack, accepts>>
      BY <1>3, Zenon DEF uploadVars, ownerVars, history
    <2> HIDE DEF r
    <2> QED BY <1>3, <2>1, <2>2, <2>3, Touched, Zenon
  <1>4. CASE httpd_recv_ignored(c) \/ IdleTime(c)
    BY <1>3, <1>4, Zenon DEF httpd_recv_ignored, IdleTime, Rx
  <1> QED BY <1>1, <1>2, <1>4, Zenon
          DEF httpd_recv_static, webterm_execute_command, httpd_recv_busy

\* The callbacks of an upload.
LEMMA UploadCallback ==
    ASSUME TransferInv, NEW c \in Conn,
           \/ httpd_recv_post_rejected(c) \/ httpd_recv_post(c)
           \/ httpd_recv_first(c) \/ httpd_recv_data(c)
    PROVE  Transfers'
  <1>t. hs[c] \in Hs /\ accepts \in Nat /\ upload \in Uploads
    BY Zenon DEF TransferInv, TypeOK
  <1>p. Transfers /\ Sane(hs[c])
    BY Zenon DEF TransferInv, Transfers, Sessions
  <1>f. ASSUME NEW h \in Hs, NEW t \in 1..MaxData, NEW n \in 0..MaxPacket
        PROVE  /\ FirstHs(h, t, n) \in Hs /\ FirstHs(h, t, n).live = h.live
               /\ FirstHs(h, t, n).owns = h.owns /\ FirstHs(h, t, n).state = h.state
               /\ FirstHs(h, t, n).sess = h.sess
               /\ Drained(FirstHs(h, t, n)) = Drained(h)
               /\ FirstHs(h, t, n).upload = FirstHs(h, t, n).got
    <2>1. t \in Nat /\ n \in Nat
      BY BoundAssumption, SMTT(60)
    <2> QED BY <2>1, Zenon DEF FirstHs, Hs, Drained
  <1>o. ASSUME hs[c].state = "UPLOAD_REQUEST"
        PROVE  /\ hs_global = c /\ hs[c].live /\ hs[c].owns /\ Drained(hs[c])
               /\ ram.use = "upload" /\ ram.sess = hs[c].sess
               /\ taken \/ (upload.data_start_found => hs[c].upload = hs[c].got)
    <2>1. hs_global = c /\ hs[c].live /\ hs[c].owns /\ Drained(hs[c])
      BY <1>o, <1>p, OwnerFacts, Zenon DEF Sane
    <2>2. ram.use = "upload" /\ ram.sess = hs[c].sess
      BY <1>o, <1>p, <2>1, NullAssumption, Zenon DEF Transfers, RamOwned
    <2> QED BY <1>o, <1>p, <2>1, <2>2, Zenon DEF Transfers, UploadCounterUnlessTaken, UploadCounter
  <1>1. CASE httpd_recv_post_rejected(c)
    <2>1. FreeHs \in Hs /\ ~FreeHs.live /\ ~FreeHs.owns /\ FreeHs.state = "NONE" /\ Drained(FreeHs)
      BY NewHsType, Zenon DEF FreeHs, Drained
    <2>2. /\ hs' = [hs EXCEPT ![c] = FreeHs] /\ hs_global' = NULL /\ backup' = NoBackup
          /\ UNCHANGED <<taken, stack, accepts>> /\ hs_global = NULL
      BY <1>1, OwnerFacts, Zenon DEF httpd_recv_post_rejected
    <2> QED BY <2>1, <2>2, Vacate, Zenon
  <1>2. CASE httpd_recv_post(c)
    <2> DEFINE h == [hs[c] EXCEPT !.state = "UPLOAD_REQUEST", !.owns = TRUE, !.idle = FALSE]
    <2>1. hs[c].live /\ hs[c].state = "NONE" /\ hs_global = NULL
      BY <1>2, OwnerFacts, Zenon DEF httpd_recv_post, Rx
    <2>2. /\ h \in Hs /\ h.live /\ h.owns /\ h.state = "UPLOAD_REQUEST"
          /\ h.sess = hs[c].sess /\ Drained(h)
      BY <1>t, <1>p, <2>1, Zenon DEF Hs, States, Sane, Drained
    <2>3. /\ ram'.use = "upload" /\ ram'.sess = hs[c].sess
          /\ UNCHANGED <<taken, stack, accepts>>
      BY <1>2, <2>2, Zenon DEF httpd_recv_post
    <2>4. \/ \E t \in 1..MaxData, n \in 0..MaxPacket, reboot \in BOOLEAN :
                httpd_check_upload_complete(c, FirstHs(h, t, n),
                   FirstUpload(ZeroUpload, t, n), FirstWeb(c, reboot), NULL, c, TRUE)
          \/ /\ hs' = [hs EXCEPT ![c] = h] /\ hs_global' = c /\ backup' = backup
             /\ NoFirstChunk(c, ZeroUpload)
      BY <1>2, Zenon DEF httpd_recv_post
    <2> HIDE DEF h
    <2>5. ASSUME NEW t \in 1..MaxData, NEW n \in 0..MaxPacket, NEW reboot \in BOOLEAN,
                 httpd_check_upload_complete(c, FirstHs(h, t, n),
                   FirstUpload(ZeroUpload, t, n), FirstWeb(c, reboot), NULL, c, TRUE)
          PROVE  Transfers'
      <3> DEFINE g == FirstHs(h, t, n)
      <3>1. /\ g \in Hs /\ g.live /\ g.owns /\ g.state = "UPLOAD_REQUEST"
            /\ g.sess = hs[c].sess /\ Drained(g) /\ g.upload = g.got
        BY <1>f, <2>2, Zenon
      <3> HIDE DEF g
      <3> QED BY <2>1, <2>3, <2>5, <3>1, Completed, Zenon DEF g
    <2>6. ASSUME hs' = [hs EXCEPT ![c] = h], hs_global' = c, backup' = backup,
                 NoFirstChunk(c, ZeroUpload)
          PROVE  Transfers'
      <3>1. ~upload'.data_start_found
        BY <2>6 DEF NoFirstChunk, ZeroUpload
      <3> QED BY <2>1, <2>2, <2>3, <2>6, <3>1, Uploading, Zenon
    <2> QED BY <2>4, <2>5, <2>6, Zenon
  <1>3. CASE httpd_recv_first(c)
    <2> DEFINE h == [hs[c] EXCEPT !.idle = FALSE]
    <2>1. hs[c].state = "UPLOAD_REQUEST"
      BY <1>3, <1>t, Zenon DEF httpd_recv_first, Hs
    <2>2. /\ h \in Hs /\ h.live /\ h.owns /\ h.state = "UPLOAD_REQUEST"
          /\ h.sess = hs[c].sess /\ Drained(h)
      BY <1>t, <1>o, <2>1, ZenonT(60) DEF Hs, Drained
    <2>3. /\ ram'.use = "upload" /\ ram'.sess = hs[c].sess
          /\ UNCHANGED <<taken, stack, accepts>>
      BY <1>3, <1>o, <2>1, Zenon DEF httpd_recv_first
    <2>4. \E t \in 1..MaxData, n \in 0..MaxPacket, reboot \in BOOLEAN :
             httpd_check_upload_complete(c, FirstHs(h, t, n),
                FirstUpload(upload, t, n), FirstWeb(c, reboot),
                upload_hs, hs_global, boundary_value)
      BY <1>3, ZenonT(60) DEF httpd_recv_first
    <2> HIDE DEF h
    <2>5. ASSUME NEW t \in 1..MaxData, NEW n \in 0..MaxPacket, NEW reboot \in BOOLEAN,
                 httpd_check_upload_complete(c, FirstHs(h, t, n),
                   FirstUpload(upload, t, n), FirstWeb(c, reboot),
                   upload_hs, c, boundary_value)
          PROVE  Transfers'
      <3> DEFINE g == FirstHs(h, t, n)
      <3>1. /\ g \in Hs /\ g.live /\ g.owns /\ g.state = "UPLOAD_REQUEST"
            /\ g.sess = hs[c].sess /\ Drained(g) /\ g.upload = g.got
        BY <1>f, <2>2, Zenon
      <3> HIDE DEF g
      <3> QED BY <1>o, <2>1, <2>3, <2>5, <3>1, Completed, Zenon DEF g
    <2> QED BY <1>o, <2>1, <2>4, <2>5, Zenon
  <1>4. CASE httpd_recv_data(c)
    <2>1. hs[c].state = "UPLOAD_REQUEST" /\ upload.data_start_found
      BY <1>4, ZenonT(60) DEF httpd_recv_data
    <2>2. /\ ram'.use = "upload" /\ ram'.sess = hs[c].sess
          /\ UNCHANGED <<taken, stack, accepts>>
      BY <1>4, <1>o, <2>1, Zenon DEF httpd_recv_data
    <2>3. PICK n \in 1..MaxPacket : \E u :
             httpd_check_upload_complete(c,
                [hs[c] EXCEPT !.idle = FALSE, !.upload = @ + n, !.got = @ + n],
                u, web, upload_hs, hs_global, boundary_value)
      BY <1>4, Zenon DEF httpd_recv_data
    <2> DEFINE up == hs[c].upload + n
               got == hs[c].got + n
               h == [hs[c] EXCEPT !.idle = FALSE, !.upload = up, !.got = got]
    <2>4. n \in Nat
      BY BoundAssumption
    <2>5. up \in Nat /\ got \in Nat /\ (taken \/ up = got)
      BY <2>4, <2>1, <1>t, <1>o, SMTT(60) DEF Hs
    <2>6. PICK u : httpd_check_upload_complete(c, h, u, web, upload_hs, c, boundary_value)
      BY <2>3, <2>1, <1>o, Zenon
    <2> HIDE DEF up, got
    <2>7. /\ h \in Hs /\ h.live /\ h.owns /\ h.state = "UPLOAD_REQUEST"
          /\ h.sess = hs[c].sess /\ Drained(h) /\ h.upload = up /\ h.got = got
      BY <2>1, <2>5, <1>t, <1>o, Zenon DEF Hs, Drained
    <2> HIDE DEF h
    <2> QED BY <1>o, <2>1, <2>2, <2>5, <2>6, <2>7, Completed, Zenon
  <1> QED BY <1>1, <1>2, <1>3, <1>4, Zenon

\* GET /backup on NAND or eMMC.
LEMMA BackupCallback ==
    ASSUME TransferInv, NEW c \in Conn, httpd_handle_backup(c)
    PROVE  Transfers'
  <1>t. hs[c] \in Hs /\ backup \in Backups /\ Transfers /\ Sane(hs[c]) /\ TypeOK
    BY Zenon DEF TransferInv, TypeOK, Transfers, Sessions
  <1>1. /\ hs[c].live /\ hs[c].state = "NONE" /\ hs_global = NULL /\ taken' = taken
        /\ Drained(hs[c])
    BY <1>t, OwnerFacts, Zenon DEF httpd_handle_backup, Rx, Sane
  <1>2. CASE FailBackup(c, stack)
    <2>1. PICK r \in httpd_send_static([hs[c] EXCEPT !.idle = FALSE]) :
                 hs' = [hs EXCEPT ![c] = r]
      BY <1>2, Zenon DEF FailBackup
    <2>2. UNCHANGED <<hs_global, upload, backup, stack, accepts>>
      BY <1>2, Zenon DEF FailBackup, uploadVars, ownerVars
    <2> QED BY <1>1, <2>1, <2>2, Answered, Zenon
  <1>3. ASSUME NEW k \in 1..MaxChunks, StartBackup(c, k, stack) PROVE Transfers'
    <2> DEFINE h == [hs[c] EXCEPT !.state = "FILE_REQUEST", !.owns = TRUE, !.upload = 1,
                                  !.dataptr = "header", !.idle = FALSE]
    <2>1. /\ h \in Hs /\ h.live /\ h.owns /\ h.state = "FILE_REQUEST" /\ h.sess = hs[c].sess
          /\ h.upload = 1 /\ h.dataptr = "header" /\ h.out = <<>>
      BY <1>1, <1>t, Zenon DEF Hs, States, Drained
    <2>2. PICK r \in httpd_send_data(h) : hs' = [hs EXCEPT ![c] = r]
      BY <1>3, Zenon DEF StartBackup
    <2>3. /\ ram'.use = "backup" /\ ram'.sess = hs[c].sess /\ ram'.n = 1 /\ hs_global' = c
          /\ UNCHANGED <<stack, accepts>>
      BY <1>3, Zenon DEF StartBackup
    <2>4. /\ backup = NoBackup
          /\ backup'.data_size = 1 /\ backup'.sending_header /\ ~backup'.chunk_busy
          /\ backup'.chunked => backup'.chunk_num = 2
      <3>1. backup = NoBackup
        BY <1>1, <1>t, Zenon DEF Transfers, NoneLeft
      <3> QED BY <1>3, <3>1, ZenonT(60) DEF StartBackup, NoBackup
    <2> HIDE DEF h
    <2>5. /\ r \in Hs /\ r.live /\ r.owns /\ r.state = "FILE_REQUEST" /\ r.sess = hs[c].sess
          /\ r.dataptr = "header"
      BY <1>t, <2>1, <2>2, SendType, SendCases, Zenon
    <2>6. ~Awaited(hs[c].sess)
      BY <1>1, <1>t, NullAssumption, Zenon DEF Transfers, Waiting, Awaited
    <2>7. \/ r.upload = 1 /\ r.out = <<>>
          \/ r.upload = 0 /\ r.out = <<0>>
      <3>1. Item(h) = 0
        BY <2>1, Zenon DEF Item
      <3> QED BY <2>1, <2>2, <3>1, SendCases, SMTT(60)
    <2>8. Stream(r, backup', ram'.n, Awaited(hs[c].sess))
      <3>1. InOrder(r.out) /\ Len(r.out) = 1 - r.upload
        <4>1. CASE r.upload = 1 /\ r.out = <<>>
          BY <4>1 DEF InOrder
        <4>2. CASE r.upload = 0 /\ r.out = <<0>>
          <5>1. DOMAIN <<0>> = {1} /\ <<0>>[1] = 0 /\ Len(<<0>>) = 1
            BY SMTT(60)
          <5> QED BY <4>2, <5>1 DEF InOrder
        <4> QED BY <2>7, <4>1, <4>2, Zenon
      <3> QED BY <2>3, <2>4, <2>5, <2>6, <2>7, <3>1, SMTT(60) DEF Stream
    <2> QED BY <1>1, <2>2, <2>3, <2>5, <2>8, Downloading, Zenon
  <1> QED BY <1>2, <1>3, Zenon DEF httpd_handle_backup

\* Without run_command in the backup's first read, a callback leaves the activations
\* alone.
LEMMA StackCallback ==
    ASSUME ~ReadPolls, NEW c \in Conn, Callback(c)
    PROVE  stack' = stack
  <1>1. ASSUME httpd_handle_backup(c) PROVE stack' = stack
    BY <1>1, Zenon DEF httpd_handle_backup, StartBackup, FailBackup
  <1>2. ~httpd_handle_backup_read(c)
    BY Zenon DEF httpd_handle_backup_read
  <1> QED BY <1>1, <1>2, ZenonT(60) DEF Callback, httpd_accept, httpd_recv_close,
             httpd_recv_nomem, httpd_recv_static, webterm_execute_command,
             httpd_recv_abort, httpd_recv_ignored, httpd_recv_busy,
             httpd_recv_post_badlength, httpd_recv_post_rejected, httpd_recv_post,
             httpd_recv_first, httpd_recv_nofirst, httpd_recv_data, httpd_sent_more,
             httpd_sent_chunk, httpd_sent_close, httpd_err, httpd_poll_cb_timeout,
             httpd_poll_cb_send, IdleTime, ArmAndClose, DiscardAndClose, Respond

\* A callback keeps all of it.
LEMMA TransfersCallback ==
    ASSUME TransferInv, ~ReadPolls, NEW c \in Conn, Callback(c)
    PROVE  Transfers'
  <1>1. ~httpd_handle_backup_read(c)
    BY Zenon DEF httpd_handle_backup_read
  <1> QED BY <1>1, ClosedCallback, AnsweredCallback, UploadCallback, BackupCallback,
             Sent, Retried, Zenon DEF Callback

-----------------------------------------------------------------------------
(* The poll loop.                                                          *)

\* What is suspended stays so, and only backup_chunk_next waits.
LEMMA StackKept ==
    ASSUME TypeOK, Suspended, stack # <<>>
    PROVE  /\ \A f \in Frames : Goto(f) => Suspended' /\ (At("chunk_wait")' => f.pc = "chunk_wait")
           /\ \A f \in Frames : Goto(f) => stack' # <<>> /\ stack'[1] = f
           /\ \A f \in Frames : RunCommand(f) /\ f.pc \in {"flash_cmd", "cmd"} =>
                 Suspended' /\ ~At("chunk_wait")'
           /\ Return => Suspended' /\ ~At("chunk_wait")'
  <1>t. stack \in Seq(Frames) /\ Len(stack) \in Nat \ {0} /\ DOMAIN stack = 1..Len(stack)
    BY DEF TypeOK
  <1>p. Frame("poll") \in Frames /\ Frame("poll").pc = "poll"
    BY FrameType, Zenon DEF PollPcs, Frame
  <1>1. ASSUME NEW f \in Frames, stack' = <<f>> \o Tail(stack)
        PROVE  /\ Suspended' /\ stack' # <<>> /\ stack'[1] = f
               /\ At("chunk_wait")' => f.pc = "chunk_wait"
    <2>1. /\ stack' \in Seq(Frames) /\ Len(stack') = Len(stack) /\ stack'[1] = f
          /\ \A i \in 2..Len(stack) : stack'[i] = stack[i]
      BY <1>1, <1>t, StackSeq
    <2>2. DOMAIN stack' = 1..Len(stack) /\ stack' # <<>>
      BY <1>t, <2>1
    <2> QED BY <1>t, <2>1, <2>2 DEF Suspended, At
  <1>2. ASSUME NEW f \in Frames, stack' = <<Frame("poll"), f>> \o Tail(stack),
               f.pc \in {"flash_cmd", "cmd"}
        PROVE  Suspended' /\ ~At("chunk_wait")'
    <2>1. /\ stack' \in Seq(Frames) /\ Len(stack') = Len(stack) + 1
          /\ stack'[1] = Frame("poll") /\ stack'[2] = f
          /\ \A i \in 3..Len(stack) + 1 : stack'[i] = stack[i - 1]
      BY <1>2, <1>t, <1>p, StackSeq
    <2>2. DOMAIN stack' = 1..Len(stack) + 1
      BY <1>t, <2>1
    <2>3. ASSUME NEW i \in DOMAIN stack', i > 1 PROVE stack'[i].pc \in {"flash_cmd", "cmd"}
      <3>1. i = 2 \/ (i \in 3..Len(stack) + 1 /\ i - 1 \in DOMAIN stack /\ i - 1 > 1)
        BY <1>t, <2>2, <2>3
      <3> QED BY <1>2, <2>1, <3>1, Zenon DEF Suspended
    <2> QED BY <1>p, <2>1, <2>3, Zenon DEF Suspended, At
  <1>3. ASSUME stack' = Tail(stack) PROVE Suspended' /\ ~At("chunk_wait")'
    <2>1. /\ Len(stack') = Len(stack) - 1 /\ DOMAIN stack' = 1..Len(stack) - 1
          /\ \A i \in 1..Len(stack) - 1 : stack'[i] = stack[i + 1]
      BY <1>3, <1>t
    <2>2. ASSUME NEW i \in DOMAIN stack' PROVE stack'[i].pc \in {"flash_cmd", "cmd"}
      <3>1. i + 1 \in DOMAIN stack /\ i + 1 > 1 /\ stack'[i] = stack[i + 1]
        BY <1>t, <2>1
      <3> QED BY <3>1, Zenon DEF Suspended
    <2>3. stack' # <<>> => 1 \in DOMAIN stack'
      BY <1>t, <2>1
    <2> QED BY <2>2, <2>3, Zenon DEF Suspended, At
  <1> QED BY <1>1, <1>2, <1>3, <1>p, Zenon DEF Goto, RunCommand, Return

\* Every frame the poll loop builds is one.
LEMMA PollFrame ==
    ASSUME TypeOK, stack # <<>>
    PROVE  /\ \A pc \in PollPcs : Frame(pc) \in Frames /\ Frame(pc).pc = pc
           /\ \A pc \in PollPcs, n \in Nat : /\ [Frame(pc) EXCEPT !.n = n] \in Frames
                                             /\ [Frame(pc) EXCEPT !.n = n].pc = pc
                                             /\ [Frame(pc) EXCEPT !.n = n].n = n
           /\ [Frame("cmd") EXCEPT !.cmd = webterm_cmd, !.n = 1] \in Frames
           /\ [Frame("cmd") EXCEPT !.cmd = webterm_cmd, !.n = 1].pc = "cmd"
           /\ [stack[1] EXCEPT !.n = @ + 1] \in Frames
           /\ [stack[1] EXCEPT !.n = @ + 1].pc = stack[1].pc
           /\ stack[1].n \in Nat
  <1>1. stack[1] \in Frames
    BY DEF TypeOK
  <1>2. \A pc \in PollPcs : Frame(pc) \in Frames /\ Frame(pc).pc = pc
    BY FrameType, Zenon DEF Frame
  <1>3. ASSUME NEW pc \in PollPcs, NEW n \in Nat
        PROVE  /\ [Frame(pc) EXCEPT !.n = n] \in Frames
               /\ [Frame(pc) EXCEPT !.n = n].pc = pc /\ [Frame(pc) EXCEPT !.n = n].n = n
    BY Zenon DEF Frame, Frames, PollPcs, RxPcs, UpgradePcs
  <1>4. /\ [Frame("cmd") EXCEPT !.cmd = webterm_cmd, !.n = 1] \in Frames
        /\ [Frame("cmd") EXCEPT !.cmd = webterm_cmd, !.n = 1].pc = "cmd"
    BY ZenonT(60) DEF TypeOK, Frame, Frames, PollPcs, RxPcs
  <1>5. /\ [stack[1] EXCEPT !.n = @ + 1] \in Frames
        /\ [stack[1] EXCEPT !.n = @ + 1].pc = stack[1].pc
        /\ stack[1].n \in Nat
    BY <1>1 DEF Frames
  <1> QED BY <1>2, <1>3, <1>4, <1>5, Zenon

\* The steps of the poll loop that only move the activations: they leave the
\* connections alone, and backup_chunk_next does not wait before or after them.
Moves ==
    /\ UNCHANGED <<hs, hs_global, upload, backup, ram, taken, accepts>>
    /\ ~At("chunk_wait") /\ Suspended' /\ ~At("chunk_wait")'

\* They do only that.
LEMMA PollMoves ==
    ASSUME TypeOK, Suspended,
           \/ MainLoop \/ PollReady \/ PollFlashing \/ do_http_upgrade \/ execute_command
           \/ FlashCommand \/ (\E ok \in BOOLEAN : PollUpgraded(ok))
           \/ webterm_run_pending_command \/ CommandPolls \/ PollNoChunk \/ PollReturn
    PROVE  Moves
  <1>pc. {"poll", "rx", "chunk", "ready_wait", "flash_wait", "flash", "flash_cmd",
          "done_wait", "failed_wait", "cmd"} \subseteq PollPcs
    BY Zenon DEF PollPcs, RxPcs, UpgradePcs
  <1>1. CASE MainLoop
    <2>1. stack = <<>> /\ stack' = <<Frame("poll")>>
      BY <1>1, Zenon DEF MainLoop
    <2>2. Suspended' /\ ~At("chunk_wait") /\ ~At("chunk_wait")'
      BY <2>1 DEF Suspended, At, Frame
    <2> QED BY <1>1, <2>2, Zenon DEF MainLoop, Moves, connVars, uploadVars, ownerVars, history
  <1>go. ASSUME NEW pc, At(pc), pc # "chunk_wait", NEW f \in Frames, f.pc # "chunk_wait",
                \/ Goto(f) \/ Return \/ (RunCommand(f) /\ f.pc \in {"flash_cmd", "cmd"}),
                UNCHANGED <<hs, hs_global, upload, backup, ram, taken, accepts>>
         PROVE  Moves
    <2>1. stack # <<>> /\ ~At("chunk_wait")
      BY <1>go, Zenon DEF At
    <2> QED BY <1>go, <2>1, StackKept, Zenon DEF Moves
  <1>2. CASE \/ PollReady \/ PollFlashing \/ do_http_upgrade \/ PollNoChunk
             \/ \E ok \in BOOLEAN : PollUpgraded(ok)
    <2>1. PICK pc \in PollPcs \ {"chunk_wait"}, qc \in PollPcs \ {"chunk_wait"} :
             At(pc) /\ Goto(Frame(qc))
      BY <1>2, <1>pc, Zenon DEF PollReady, PollFlashing, do_http_upgrade, PollNoChunk, PollUpgraded
    <2>2. UNCHANGED <<hs, hs_global, upload, backup, ram, taken, accepts>>
      BY <1>2, Zenon DEF PollReady, PollFlashing, do_http_upgrade, PollNoChunk, PollUpgraded,
                  connVars, uploadVars, ownerVars, history
    <2>3. stack # <<>>
      BY <2>1, Zenon DEF At
    <2> QED BY <1>go, <2>1, <2>2, <2>3, PollFrame, Zenon
  <1>3. CASE execute_command \/ FlashCommand
    <2>1. stack # <<>> /\ (At("flash") \/ At("flash_cmd"))
      BY <1>3, Zenon DEF execute_command, FlashCommand, At
    <2>2. stack[1].n \in Nat /\ stack[1].n + 1 \in Nat
      BY <2>1, PollFrame
    <2>3. PICK n \in Nat : \/ RunCommand([Frame("flash_cmd") EXCEPT !.n = n])
                          \/ Goto([Frame("flash") EXCEPT !.n = n])
      BY <1>3, <2>2, Zenon DEF execute_command, FlashCommand
    <2>4. UNCHANGED <<hs, hs_global, upload, backup, ram, taken, accepts>>
      BY <1>3, Zenon DEF execute_command, FlashCommand, connVars, uploadVars, ownerVars, history
    <2> DEFINE f == [Frame("flash_cmd") EXCEPT !.n = n]
               g == [Frame("flash") EXCEPT !.n = n]
    <2>5. f \in Frames /\ f.pc = "flash_cmd" /\ g \in Frames /\ g.pc = "flash"
      BY <1>pc, <2>1, PollFrame, Zenon
    <2>6. RunCommand(f) \/ Goto(g)
      BY <2>3, Zenon
    <2> HIDE DEF f, g
    <2> QED BY <1>go, <2>1, <2>4, <2>5, <2>6, Zenon
  <1>4. CASE webterm_run_pending_command
    <2>1. stack # <<>> /\ At("poll")
      BY <1>4, Zenon DEF webterm_run_pending_command, At
    <2>2. \/ Goto(Frame("chunk"))
          \/ RunCommand([Frame("cmd") EXCEPT !.cmd = webterm_cmd, !.n = 1])
      BY <1>4, Zenon DEF webterm_run_pending_command
    <2>3. UNCHANGED <<hs, hs_global, upload, backup, ram, taken, accepts>>
      BY <1>4, Zenon DEF webterm_run_pending_command, connVars, uploadVars, ownerVars, history
    <2> DEFINE f == [Frame("cmd") EXCEPT !.cmd = webterm_cmd, !.n = 1]
               g == Frame("chunk")
    <2>4. f \in Frames /\ f.pc = "cmd" /\ g \in Frames /\ g.pc = "chunk"
      BY <1>pc, <2>1, PollFrame, Zenon
    <2>5. RunCommand(f) \/ Goto(g)
      BY <2>2, Zenon
    <2> HIDE DEF f, g
    <2> QED BY <1>go, <2>1, <2>3, <2>4, <2>5, Zenon
  <1>5. CASE CommandPolls
    <2>1. stack # <<>> /\ At("cmd") /\ stack[1].pc = "cmd"
      BY <1>5, Zenon DEF CommandPolls, At
    <2>2. RunCommand([stack[1] EXCEPT !.n = @ + 1])
      BY <1>5, Zenon DEF CommandPolls
    <2>3. UNCHANGED <<hs, hs_global, upload, backup, ram, taken, accepts>>
      BY <1>5, Zenon DEF CommandPolls, connVars, uploadVars, ownerVars, history
    <2> DEFINE f == [stack[1] EXCEPT !.n = @ + 1]
    <2>4. f \in Frames /\ f.pc = "cmd" /\ RunCommand(f)
      BY <2>1, <2>2, PollFrame, Zenon
    <2> HIDE DEF f
    <2> QED BY <1>go, <2>1, <2>3, <2>4, Zenon
  <1>6. CASE PollReturn
    <2>1. stack # <<>> /\ At("rx") /\ Return
      BY <1>6, Zenon DEF PollReturn, At
    <2>2. UNCHANGED <<hs, hs_global, upload, backup, ram, taken, accepts>>
      BY <1>6, Zenon DEF PollReturn, connVars, uploadVars, ownerVars, history
    <2> QED BY <1>go, <1>pc, <2>1, <2>2, PollFrame, Zenon
  <1> QED BY <1>1, <1>2, <1>3, <1>4, <1>5, <1>6, Zenon

\* A command or an upgrade that stops the server or restarts the device, or not.
LEMMA PollEnds ==
    ASSUME TypeOK, Suspended, PollDone \/ CommandDone
    PROVE  \/ Moves
           \/ /\ hs' = [c \in Conn |-> FreeHs] /\ hs_global' = NULL
              /\ backup' = NoBackup /\ accepts' = accepts
              /\ Suspended' /\ ~At("chunk_wait")'
  <1>pc. {"chunk", "done_wait", "failed_wait", "cmd"} \subseteq PollPcs
    BY Zenon DEF PollPcs, RxPcs
  <1>1. stack # <<>> /\ (At("failed_wait") \/ At("done_wait") \/ At("cmd"))
    BY Zenon DEF PollDone, CommandDone, At
  <1>2. ~At("chunk_wait")
    BY <1>1, Zenon DEF At
  <1>3. ASSUME Return \/ Goto(Frame("chunk")) PROVE Suspended' /\ ~At("chunk_wait")'
    BY <1>pc, <1>1, <1>3, StackKept, PollFrame, Zenon
  <1>4. CASE Reboot
    <2>1. stack' = <<>>
      BY <1>4, Zenon DEF Reboot
    <2>2. Suspended' /\ ~At("chunk_wait")'
      BY <2>1 DEF Suspended, At
    <2> QED BY <1>4, <2>2, Zenon DEF Reboot
  <1>5. CASE /\ Return \/ Goto(Frame("chunk"))
             /\ UNCHANGED <<connVars, web, history>>
    BY <1>2, <1>3, <1>5, Zenon DEF Moves, connVars, uploadVars, ownerVars, history
  <1>6. CASE /\ Return \/ Goto(Frame("chunk"))
             /\ HttpdStopEffect(TRUE) \/ HttpdStopEffect(FALSE)
    BY <1>3, <1>6, Zenon DEF HttpdStopEffect
  <1> QED BY <1>4, <1>5, <1>6, Zenon DEF PollDone, CommandDone

\* backup_chunk_next: the chunk it reads is the one after the last one sent.
LEMMA ChunkNext ==
    ASSUME TransferInv, backup_chunk_next
    PROVE  Transfers' /\ Suspended'
  <1>t. /\ TypeOK /\ Transfers /\ Suspended /\ backup \in Backups /\ accepts \in Nat
        /\ hs \in [Conn -> Hs]
    BY Zenon DEF TransferInv, TypeOK
  <1>1. /\ At("chunk") /\ stack # <<>> /\ ~At("chunk_wait")
        /\ backup.chunked /\ backup.chunk_busy /\ backup # NoBackup
    BY DEF backup_chunk_next, At, NoBackup
  <1>2. hs_global \in Conn /\ hs[hs_global].state = "FILE_REQUEST" /\ hs[hs_global].live
    <2>1. hs_global # NULL /\ hs[hs_global].state # "UPLOAD_REQUEST"
      BY <1>t, <1>1, Zenon DEF Transfers, NoneLeft
    <2>2. hs_global \in Conn
      BY <1>t, <2>1, Zenon DEF TypeOK
    <2> QED BY <2>1, <2>2, OwnerFacts, Zenon
  <1> DEFINE c == hs_global
  <1>3. hs[c] \in Hs /\ hs[c].sess \in Nat /\ c # NULL /\ hs[c].sess <= accepts
    BY <1>t, <1>2, NullAssumption, Zenon DEF Hs, Transfers, Sessions, Sane
  <1>4. /\ UNCHANGED <<hs, hs_global, upload, accepts, taken>>
        /\ ram' = [use |-> "backup", n |-> backup.chunk_num, sess |-> hs[c].sess]
        /\ backup' = [backup EXCEPT !.data_size = 1, !.chunk_num = @ + 1, !.remaining = @ - 1]
        /\ Goto([Frame("chunk_wait") EXCEPT !.n = hs[c].sess])
    BY <1>3, Zenon DEF backup_chunk_next, uploadVars
  <1>5. /\ ram'.use = "backup" /\ ram'.n = backup.chunk_num /\ ram'.sess = hs[c].sess
        /\ backup'.data_size = 1 /\ backup'.chunk_num = backup.chunk_num + 1
        /\ backup'.chunked /\ backup'.chunk_busy
        /\ backup'.sending_header = backup.sending_header
    BY <1>1, <1>4, <1>t, Zenon DEF Backups
  <1>6. /\ Suspended' /\ stack' # <<>> /\ stack'[1].pc = "chunk_wait"
        /\ stack'[1].n = hs[c].sess
    <2>1. "chunk_wait" \in PollPcs
      BY Zenon DEF PollPcs, RxPcs
    <2> DEFINE f == [Frame("chunk_wait") EXCEPT !.n = hs[c].sess]
    <2>2. f \in Frames /\ f.pc = "chunk_wait" /\ f.n = hs[c].sess
      BY <1>1, <1>3, <1>t, <2>1, PollFrame, Zenon
    <2>3. Goto(f)
      BY <1>4, Zenon
    <2> HIDE DEF f
    <2>4. Suspended' /\ stack' # <<>> /\ stack'[1] = f
      BY <1>1, <1>t, <2>2, <2>3, StackKept, Zenon
    <2> QED BY <2>2, <2>4, Zenon
  <1> HIDE DEF c
  <1>7. Sessions' /\ NoneLeft'
    BY <1>t, <1>2, <1>3, <1>4, Zenon DEF Transfers, Sessions, Sane, NoneLeft, c
  <1>8. Waiting'
    <2>1. ASSUME NEW d \in Conn, hs[d].live, hs[d].sess = hs[c].sess PROVE d = c
      BY <1>t, <1>2, <2>1, Zenon DEF Transfers, Sessions, c
    <2> QED BY <1>2, <1>3, <1>4, <1>6, <2>1, Zenon DEF Waiting, At, c
  <1>9. RamOwned' /\ UploadCounterUnlessTaken'
    BY <1>t, <1>2, <1>4, <1>5, Zenon DEF Transfers, RamOwned, UploadCounterUnlessTaken,
                                 UploadCounter, c
  <1>10. Order'
    <2> SUFFICES ASSUME ~taken PROVE Stream(hs[c], backup', ram'.n, TRUE)
      BY <1>4, <1>6, Zenon DEF Order, Awaited, At, c
    <2>1. Stream(hs[c], backup, ram.n, FALSE)
      BY <1>t, <1>1, <1>2, <1>3, Zenon DEF Transfers, Order, Awaited, c
    <2>2. ram.n \in Nat /\ backup.chunk_num \in Nat
      BY <1>t, Zenon DEF TypeOK, Rams, Backups
    <2>3. /\ InOrder(hs[c].out) /\ hs[c].upload = 0 /\ ~backup.sending_header
          /\ backup.chunk_num = ram.n + 1 /\ Len(hs[c].out) = ram.n + 1
      BY <1>1, <2>1 DEF Stream
    <2>4. Len(hs[c].out) = ram'.n /\ backup'.chunk_num = ram'.n + 1
      BY <1>5, <2>3, Zenon
    <2> QED BY <1>5, <2>3, <2>4 DEF Stream
  <1> QED BY <1>6, <1>7, <1>8, <1>9, <1>10, Zenon DEF Transfers

\* backup_chunk_failed: the connection is closed.
LEMMA ChunkFailed ==
    ASSUME TransferInv, backup_chunk_failed
    PROVE  Transfers' /\ Suspended'
  <1>t. TypeOK /\ Transfers /\ Suspended
    BY Zenon DEF TransferInv
  <1>1. stack # <<>> /\ Goto(Frame("rx")) /\ backup # NoBackup
    BY DEF backup_chunk_failed, At, NoBackup
  <1>2. Suspended' /\ ~At("chunk_wait")'
    <2>1. "rx" \in PollPcs
      BY Zenon DEF PollPcs, RxPcs
    <2> QED BY <1>1, <1>t, <2>1, StackKept, PollFrame, ZenonT(60)
  <1>3. hs_global # NULL /\ hs_global \in Conn
    BY <1>t, <1>1, Zenon DEF Transfers, NoneLeft, TypeOK
  <1>4. hs[hs_global].owns
    BY <1>3, OwnerFacts, Zenon
  <1>5. /\ hs' = [hs EXCEPT ![hs_global] = FreeHs] /\ hs_global' = NULL /\ backup' = NoBackup
        /\ UNCHANGED <<taken, accepts>>
    BY <1>3, <1>4, Zenon DEF backup_chunk_failed, httpd_close_conn, httpd_state_reset, history
  <1>6. FreeHs \in Hs /\ ~FreeHs.live /\ ~FreeHs.owns /\ FreeHs.state = "NONE" /\ Drained(FreeHs)
    BY NewHsType, Zenon DEF FreeHs, Drained
  <1> QED BY <1>2, <1>3, <1>5, <1>6, Vacate, Zenon

\* backup_chunk_resume: the backup it read for goes on; another transfer is taken.
LEMMA ChunkResume ==
    ASSUME TransferInv, backup_chunk_resume
    PROVE  Transfers' /\ Suspended'
  <1>t. /\ TypeOK /\ Transfers /\ Suspended /\ backup \in Backups /\ accepts \in Nat
        /\ hs \in [Conn -> Hs] /\ ram.n \in Nat
    BY Zenon DEF TransferInv, TypeOK, Rams
  <1>1. /\ At("chunk_wait") /\ stack # <<>> /\ Goto(Frame("rx"))
        /\ UNCHANGED <<hs_global, upload, accepts, ram>>
    BY Zenon DEF backup_chunk_resume, At, uploadVars
  <1>2. Suspended' /\ ~At("chunk_wait")'
    <2>1. "rx" \in PollPcs
      BY Zenon DEF PollPcs, RxPcs
    <2> QED BY <1>1, <1>t, <2>1, StackKept, PollFrame
  <1>3. CASE hs_global = NULL
    <2>1. backup = NoBackup
      BY <1>3, <1>t, Zenon DEF Transfers, NoneLeft
    <2>2. backup' = backup /\ UNCHANGED <<hs, taken>>
      BY <1>3, <2>1, Zenon DEF backup_chunk_resume, NoBackup
    <2> QED BY <1>1, <1>2, <1>3, <2>2, Apart, Zenon
  <1>4. CASE hs_global # NULL
    <2> DEFINE c == hs_global
               h == [hs[c] EXCEPT
                        !.dataptr = IF backup.data_size > 0 THEN "ram" ELSE "null",
                        !.upload = backup.data_size]
    <2>1. c \in Conn /\ hs[c] \in Hs /\ backup.data_size \in Nat
      BY <1>4, <1>t DEF TypeOK, Backups
    <2>2. /\ hs[c].live /\ hs[c].owns /\ hs[c].state \in {"UPLOAD_REQUEST", "FILE_REQUEST"}
          /\ Sane(hs[c])
      BY <2>1, <1>t, OwnerFacts, Zenon DEF Transfers, Sessions
    <2>3. /\ h \in Hs /\ h.live = hs[c].live /\ h.owns = hs[c].owns /\ h.sess = hs[c].sess
          /\ h.state = hs[c].state /\ h.out = hs[c].out /\ h.got = hs[c].got
          /\ h.upload = backup.data_size
          /\ h.dataptr = IF backup.data_size > 0 THEN "ram" ELSE "null"
      BY <2>1, Zenon DEF Hs
    <2>4. PICK r \in httpd_send_data(h) : hs' = [hs EXCEPT ![c] = r]
      BY <1>4, Zenon DEF backup_chunk_resume
    <2>5. /\ backup' = [backup EXCEPT !.chunk_busy = FALSE]
          /\ taken' = (taken \/ hs[c].sess # stack[1].n)
      BY <1>4, <2>3, Zenon DEF backup_chunk_resume
    <2> HIDE DEF c, h
    <2>6. /\ r \in Hs /\ r.live /\ r.owns /\ r.sess = hs[c].sess /\ r.state = hs[c].state
          /\ r.dataptr = h.dataptr /\ r.got = hs[c].got
      BY <1>t, <2>2, <2>3, <2>4, SendType, SendCases, ZenonT(60)
    <2>7. ASSUME NEW d \in Conn PROVE hs'[d] = IF d = c THEN r ELSE hs[d]
      BY <1>t, <2>4, Zenon
    <2>8. Sessions'
      <3>1. hs[c].state = "UPLOAD_REQUEST" => Drained(r)
        <4> SUFFICES ASSUME hs[c].state = "UPLOAD_REQUEST" PROVE Drained(r)
          BY Zenon
        <4>1. backup.data_size = 0
          BY <1>t DEF Transfers, NoneLeft, NoBackup, c
        <4> QED BY <2>2, <2>3, <2>4, <4>1, SendCases, SMTT(60) DEF Sane, Drained
      <3>2. ASSUME NEW d \in Conn PROVE Sane(hs[d])'
        <4>1. Sane(hs[d])
          BY <1>t, Zenon DEF Transfers, Sessions
        <4>2. CASE d = c
          BY <1>1, <2>2, <2>6, <2>7, <3>1, <4>2, Zenon DEF Sane
        <4>3. CASE d # c
          BY <1>1, <2>7, <4>1, <4>3, Zenon DEF Sane
        <4> QED BY <4>2, <4>3, Zenon
      <3>3. ASSUME NEW d \in Conn, NEW e \in Conn,
                   hs'[d].live, hs'[e].live, hs'[d].sess = hs'[e].sess
            PROVE  d = e
        BY <1>t, <2>1, <2>2, <2>6, <2>7, <3>3 DEF Transfers, Sessions
      <3> QED BY <3>2, <3>3, Zenon DEF Sessions
    <2>9. NoneLeft'
      <3> SUFFICES ASSUME hs[c].state = "UPLOAD_REQUEST" PROVE backup' = NoBackup
        BY <1>1, <1>4, <2>1, <2>6, <2>7, Zenon DEF NoneLeft, c
      <3>1. backup = NoBackup
        BY <1>t, Zenon DEF Transfers, NoneLeft, c
      <3> QED BY <2>5, <3>1, Zenon DEF NoBackup
    <2>10. Waiting'
      BY <1>2, Zenon DEF Waiting
    <2>11. RamOwned'
      BY <1>1, <1>t, <2>1, <2>6, <2>7, Zenon DEF Transfers, RamOwned, c
    <2>12. UploadCounterUnlessTaken'
      <3> SUFFICES ASSUME NEW d \in Conn, ~taken', hs'[d].state = "UPLOAD_REQUEST"
                   PROVE  FALSE
        BY Zenon DEF UploadCounterUnlessTaken, UploadCounter
      <3>1. d = c /\ hs[c].state = "UPLOAD_REQUEST"
        BY <2>1, <2>6, <2>7, OwnerFacts, Zenon DEF c
      <3>2. hs[c].sess = stack[1].n
        BY <2>5, Zenon
      <3> QED BY <1>1, <1>t, <2>1, <2>2, <3>1, <3>2, Zenon DEF Transfers, Waiting
    <2>13. Order'
      <3> SUFFICES ASSUME ~taken', hs[c].state = "FILE_REQUEST"
                   PROVE  Stream(r, backup', ram.n, FALSE)
        BY <1>1, <1>2, <2>1, <2>6, <2>7, Zenon DEF Order, Awaited, c
      <3>1. ~taken /\ hs[c].sess = stack[1].n
        BY <2>5, Zenon
      <3>2. Stream(hs[c], backup, ram.n, TRUE)
        BY <1>1, <1>4, <1>t, <3>1, Zenon DEF Transfers, Order, Awaited, c
      <3>3. /\ backup' \in Backups /\ backup'.data_size = backup.data_size
            /\ backup'.chunked = backup.chunked /\ backup'.chunk_num = backup.chunk_num
            /\ backup'.sending_header = backup.sending_header /\ ~backup'.chunk_busy
        BY <1>t, <2>5, Zenon DEF Backups
      <3>4. Stream(h, backup', ram.n, FALSE) /\ h.dataptr = "ram"
        <4>1. /\ InOrder(hs[c].out) /\ backup.data_size = 1 /\ ~backup.sending_header
              /\ backup.chunked => backup.chunk_num = ram.n + 1
              /\ Len(hs[c].out) = ram.n
          BY <3>2, Zenon DEF Stream
        <4> QED BY <2>3, <3>3, <4>1 DEF Stream
      <3>5. Item(h) = ram.n
        <4>1. ram.use = "backup" /\ ram.sess = hs[c].sess
          BY <1>4, <1>t, Zenon DEF Transfers, RamOwned, c
        <4> QED BY <4>1, <2>3, <3>4, Zenon DEF Item
      <3> QED BY <1>t, <2>3, <2>4, <3>3, <3>4, <3>5, StreamSend, Zenon
    <2> QED BY <1>2, <2>8, <2>9, <2>10, <2>11, <2>12, <2>13, Zenon DEF Transfers
  <1> QED BY <1>3, <1>4, Zenon

\* A step of the poll loop keeps all of it.
LEMMA TransfersPoll ==
    ASSUME TransferInv, Poll
    PROVE  Transfers' /\ Suspended'
  <1>t. TypeOK /\ Suspended
    BY Zenon DEF TransferInv
  <1>1. ~httpd_handle_backup_resume
    <2> SUFFICES ASSUME stack # <<>>, stack[1].pc = "backup_read" PROVE FALSE
      BY Zenon DEF httpd_handle_backup_resume, At
    <2>1. stack[1] \in PollFrames
      BY DEF TransferInv, OwnerInv
    <2> QED BY <2>1, Zenon DEF PollFrames
  <1>2. CASE Moves
    BY <1>2, Apart, Zenon DEF Moves
  <1>3. CASE PollDone \/ CommandDone
    BY <1>t, <1>2, <1>3, PollEnds, AllFree, Zenon
  <1>4. CASE \/ MainLoop \/ PollReady \/ PollFlashing \/ do_http_upgrade \/ execute_command
             \/ FlashCommand \/ (\E ok \in BOOLEAN : PollUpgraded(ok))
             \/ webterm_run_pending_command \/ CommandPolls \/ PollNoChunk \/ PollReturn
    BY <1>t, <1>4, PollMoves, Apart, Zenon DEF Moves
  <1> QED BY <1>1, <1>3, <1>4, ChunkNext, ChunkResume, ChunkFailed, Zenon DEF Poll

\* The whole of it is an invariant, whatever commands the terminal runs (a restart
\* of the server included) and whether or not malloc fails.
LEMMA TransferInvariant == ASSUME ~ReadPolls PROVE Spec => []TransferInv
  <1>1. Init => Suspended /\ Transfers
    <2> SUFFICES ASSUME Init PROVE Suspended /\ Transfers
      BY Zenon
    <2>1. \A c \in Conn : /\ ~hs[c].live /\ ~hs[c].owns /\ hs[c].state = "NONE"
                          /\ hs[c].dataptr = "null" /\ hs[c].out = <<>>
      BY Zenon DEF Init, FreeHs
    <2>2. Sessions
      BY <2>1, Zenon DEF Sessions, Sane, Drained
    <2>3. stack = <<>> /\ hs_global = NULL /\ backup = NoBackup
      BY Zenon DEF Init
    <2>4. Suspended /\ NoneLeft /\ Waiting /\ RamOwned /\ Order
      BY <2>3 DEF Suspended, NoneLeft, Waiting, At, RamOwned, Order
    <2>5. UploadCounterUnlessTaken
      BY <2>1, Zenon DEF UploadCounterUnlessTaken, UploadCounter
    <2> QED BY <2>2, <2>4, <2>5, Zenon DEF Transfers
  <1>2. TransferInv /\ [Next]_vars => Suspended' /\ Transfers'
    <2> SUFFICES ASSUME TransferInv, [Next]_vars PROVE Suspended' /\ Transfers'
      BY Zenon
    <2>p. Suspended /\ Transfers
      BY Zenon DEF TransferInv
    <2>1. CASE HttpdStart
      <3>1. /\ stack = <<>> /\ stack' = <<>>
            /\ UNCHANGED <<hs, hs_global, upload, backup, ram, taken, accepts>>
        BY <2>1, Zenon DEF HttpdStart, uploadVars, ownerVars, history
      <3>2. ~At("chunk_wait") /\ ~At("chunk_wait")' /\ Suspended'
        BY <3>1 DEF At, Suspended
      <3> QED BY <3>1, <3>2, Apart, Zenon
    <2>2. CASE HttpdStop
      <3>1. stack' = <<>>
        BY <2>2, Zenon DEF HttpdStop
      <3>2. ~At("chunk_wait")' /\ Suspended'
        BY <3>1 DEF At, Suspended
      <3> QED BY <2>2, <3>2, AllFree, Zenon DEF HttpdStop, HttpdStopEffect
    <2>3. CASE Poll
      BY <2>3, TransfersPoll, Zenon
    <2>4. ASSUME NEW c \in Conn, Callback(c) PROVE Suspended' /\ Transfers'
      <3>1. stack' = stack
        BY <2>4, StackCallback, Zenon
      <3> QED BY <2>4, <2>p, <3>1, TransfersCallback, Zenon DEF Suspended
    <2>5. CASE UNCHANGED vars
      <3>1. UNCHANGED <<hs, hs_global, upload, backup, stack, accepts, ram, taken>>
        BY <2>5, Zenon DEF vars, uploadVars, ownerVars, history
      <3> QED BY <3>1, <2>p, Zenon DEF Suspended, Transfers, Sessions, Sane, Drained, NoneLeft,
                 Waiting, At, RamOwned, UploadCounterUnlessTaken, UploadCounter, Order, Awaited
    <2> QED BY <2>1, <2>2, <2>3, <2>4, <2>5, Zenon DEF Next
  <1>3. TypeOK /\ OwnerInv /\ Suspended /\ Transfers => TransferInv
    BY Zenon DEF TransferInv
  <1> QED BY <1>1, <1>2, <1>3, TypeCorrect, OwnerInvariant, PTL DEF Spec

\* On NAND and eMMC the upload RAM always belongs to the transfer that owns the
\* globals (failsafe_httpd.c: the RAM is written by httpd_findandstore_firstchunk,
\* httpd_handle_upload_data, httpd_handle_backup and backup_chunk_next).
THEOREM RamSafe == ASSUME ~ReadPolls PROVE Spec => []RamOwned
  <1>1. TransferInv => RamOwned
    BY Zenon DEF TransferInv, Transfers
  <1> QED BY <1>1, TransferInvariant, PTL

\* On NAND and eMMC a backup's client receives the header and then every chunk once
\* and in order, however lwIP splits, delays or retries what it sends, unless the
\* chunk of one transfer was handed to another (backup_chunk_next's wait).
THEOREM ChunksInOrder == ASSUME ~ReadPolls PROVE Spec => []BackupInOrder
  <1>1. TransferInv => BackupInOrder
    <2> SUFFICES ASSUME TransferInv, ~taken, NEW c \in Conn, Owner(c)
                 PROVE  InOrder(hs[c].out)
      BY Zenon DEF BackupInOrder
    <2>1. hs_global = c /\ hs[c].state \in {"UPLOAD_REQUEST", "FILE_REQUEST"} /\ c # NULL
      BY OwnerFacts, NullAssumption, Zenon DEF Owner
    <2>2. Transfers /\ Sane(hs[c])
      BY Zenon DEF TransferInv, Transfers, Sessions
    <2>3. CASE hs[c].state = "FILE_REQUEST"
      BY <2>1, <2>2, <2>3, Zenon DEF Transfers, Order, Stream
    <2>4. CASE hs[c].state = "UPLOAD_REQUEST"
      BY <2>2, <2>4, SMTT(60) DEF Sane, Drained, InOrder
    <2> QED BY <2>1, <2>3, <2>4, Zenon
  <1> QED BY <1>1, TransferInvariant, PTL

\* On NAND and eMMC hs->upload of an upload counts what was received
\* (httpd_findandstore_firstchunk, httpd_handle_upload_data), and nothing but a chunk
\* handed to it by backup_chunk_next can break the count.
THEOREM CounterRight == ASSUME ~ReadPolls PROVE Spec => []UploadCounterUnlessTaken
  <1>1. TransferInv => UploadCounterUnlessTaken
    BY Zenon DEF TransferInv, Transfers
  <1> QED BY <1>1, TransferInvariant, PTL
=============================================================================
