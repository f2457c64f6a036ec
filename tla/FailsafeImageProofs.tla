------------------------ MODULE FailsafeImageProofs ------------------------
(***************************************************************************)
(* What do_http_upgrade is called with, what /upgrade_status says          *)
(* meanwhile, and that no accepted image is forgotten, for every number of *)
(* connections and every bound, on NAND and eMMC.                          *)
(***************************************************************************)
EXTENDS FailsafeRefinementProofs, FailsafeTransferProofs

-----------------------------------------------------------------------------
(* The description of the image.                                           *)
(*                                                                         *)
(* web.size and web.type are globals that every upload writes.  They are   *)
(* those of the accepted image because an upload that has not found the    *)
(* start of its data has not been accepted, and one that has found it has  *)
(* set them itself.                                                        *)

Waits == \E i \in DOMAIN stack : stack[i].pc \in {"ready_wait", "flash_wait"}

Writes == \E i \in DOMAIN stack : stack[i].pc \in {"flash_wait", "flash", "flash_cmd"}

Described ==
    Armable \/ web.ready \/ Waits => web.size = job.size /\ web.type = job.sess

Typed ==
    \A c \in Conn :
        hs[c].state = "UPLOAD_REQUEST" /\ upload.data_start_found => web.type = hs[c].sess

ImageInv == Described /\ Typed /\ FlashingReported

\* Who waits or writes is upgrading.
LEMMA WaitsWrites ==
    /\ Waits \/ Writes => Upgrading
    /\ Waits' \/ Writes' => Upgrading'
    /\ FlashingReported <=> (Writes => web.status = "flashing")
    /\ FlashingReported' <=> (Writes' => web'.status = "flashing")
  <1>1. {"ready_wait", "flash_wait"} \subseteq UpgradePcs
        /\ {"flash_wait", "flash", "flash_cmd"} \subseteq UpgradePcs
    BY Zenon DEF UpgradePcs
  <1>2. /\ Waits \/ Writes => Upgrading
        /\ Waits' \/ Writes' => Upgrading'
    BY <1>1, Zenon DEF Waits, Writes, Upgrading
  <1>3. FlashingReported <=> (Writes => web.status = "flashing")
    BY Zenon DEF Writes, FlashingReported
  <1>4. FlashingReported' <=> (Writes' => web'.status = "flashing")
    BY Zenon DEF Writes, FlashingReported
  <1> QED BY <1>2, <1>3, <1>4, Zenon

\* A step after which nothing new is armable, armed, waiting or written.
LEMMA ImageKept ==
    ASSUME ImageInv, Typed', Waits' => Waits, Writes' => Writes,
           Armable' \/ web'.ready => Armable \/ web.ready \/ Waits,
           web'.type = web.type \/ ~(Armable' \/ web'.ready \/ Waits'),
           web'.size = web.size, job' = job,
           web'.status = web.status \/ ~Writes'
    PROVE  ImageInv'
  <1>1. Described'
    BY Zenon DEF ImageInv, Described
  <1>2. FlashingReported'
    BY WaitsWrites, Zenon DEF ImageInv
  <1> QED BY <1>1, <1>2, Zenon DEF ImageInv

\* A step that leaves no image.
LEMMA ImageNone ==
    ASSUME ~Upgrading', ~web'.ready, ~Armable', Typed'
    PROVE  ImageInv'
  <1>1. ~Waits' /\ ~Writes'
    BY WaitsWrites, Zenon
  <1> QED BY <1>1, WaitsWrites, Zenon DEF ImageInv, Described

\* The activations stay.
LEMMA SameStack ==
    ASSUME stack' = stack
    PROVE  (Waits' <=> Waits) /\ (Writes' <=> Writes) /\ (Upgrading' <=> Upgrading)
  BY Zenon DEF Waits, Writes, Upgrading

-----------------------------------------------------------------------------
(* A connection goes on.                                                   *)

Follows(h, r) ==
    /\ r.state = "UPLOAD_REQUEST" => h.state = "UPLOAD_REQUEST" /\ r.sess = h.sess
    /\ h.live => r.live /\ r.sess = h.sess
    /\ h.live /\ h.state = "FILE_REQUEST" => r.state = "FILE_REQUEST"

Kept(c) ==
    /\ \E r : hs' = [hs EXCEPT ![c] = r] /\ Follows(hs[c], r)
    /\ UNCHANGED <<upload, upload_pending, upload_hs, web, job>>

\* Nothing of an image changes with it.
LEMMA KeptImage ==
    ASSUME TypeOK, ImageInv, NEW c \in Conn, Kept(c)
    PROVE  /\ stack' = stack => ImageInv'
           /\ Typed'
           /\ PendingAccounted /\ stack' = stack => PendingAccounted'
  <1>1. PICK r : hs' = [hs EXCEPT ![c] = r] /\ Follows(hs[c], r)
    BY Zenon DEF Kept
  <1>2. UNCHANGED <<upload, upload_pending, upload_hs, web, job>>
    BY Zenon DEF Kept
  <1>3. hs'[c] = r /\ \A d \in Conn : d # c => hs'[d] = hs[d]
    BY <1>1, Zenon DEF TypeOK
  <1>4. Typed'
    BY <1>1, <1>2, <1>3, ZenonT(60) DEF ImageInv, Typed, Follows
  <1>5. ASSUME stack' = stack PROVE ImageInv'
    <2>1. (Waits' <=> Waits) /\ (Writes' <=> Writes)
      BY <1>5, SameStack, Zenon
    <2>2. Armable' <=> Armable
      BY <1>2, Zenon DEF Armable
    <2> QED BY <1>2, <1>4, <2>1, <2>2, ImageKept, Zenon
  <1>6. ASSUME PendingAccounted, stack' = stack PROVE PendingAccounted'
    <2>1. Upgrading' <=> Upgrading
      BY <1>6, SameStack, Zenon
    <2>2. ASSUME upload_hs # NULL, hs[upload_hs].live, hs[upload_hs].state = "FILE_REQUEST",
                 hs[upload_hs].sess = job.sess
          PROVE  /\ hs'[upload_hs].live /\ hs'[upload_hs].state = "FILE_REQUEST"
                 /\ hs'[upload_hs].sess = job.sess
      BY <1>1, <1>3, <2>2, Zenon DEF Follows, TypeOK
    <2> QED BY <1>2, <1>6, <2>1, <2>2, Zenon DEF PendingAccounted
  <1> QED BY <1>4, <1>5, <1>6, Zenon

\* What lwIP takes of a connection's buffer does not change whose it is.
LEMMA SendFollows ==
    ASSUME TypeOK, NEW g \in Hs, NEW h \in Hs, NEW r \in httpd_send_data(h), Follows(g, h)
    PROVE  Follows(g, r)
  <1>1. r.live = h.live /\ r.state = h.state /\ r.sess = h.sess
    BY SendType, SendKeeps, Zenon
  <1> QED BY <1>1, Zenon DEF Follows

\* ... nor does an answer from a static buffer.
LEMMA StaticFollows ==
    ASSUME TypeOK, NEW h \in Hs, NEW r \in httpd_send_static([h EXCEPT !.idle = FALSE])
    PROVE  Follows(h, r)
  <1> DEFINE g == [h EXCEPT !.idle = FALSE]
  <1>1. g \in Hs /\ g.live = h.live /\ g.sess = h.sess
    BY Zenon DEF Hs
  <1>2. r \in httpd_send_static(g)
    BY Zenon
  <1> HIDE DEF g
  <1>3. r.live = h.live /\ r.state = "FILE_REQUEST" /\ r.sess = h.sess
    BY <1>1, <1>2, SendStaticType, SendKeeps, Zenon
  <1> QED BY <1>3, Zenon DEF Follows

\* The callbacks that only answer, send or wait.
LEMMA KeptCallback ==
    ASSUME TransferInv, NEW c \in Conn,
           \/ httpd_accept(c) \/ httpd_recv_static(c) \/ httpd_recv_busy(c)
           \/ (\E cmd \in Cmd : webterm_execute_command(c, cmd))
           \/ httpd_recv_ignored(c) \/ IdleTime(c) \/ httpd_handle_backup(c)
           \/ httpd_sent_more(c) \/ httpd_sent_chunk(c) \/ httpd_poll_cb_send(c)
    PROVE  Kept(c)
  <1>t. TypeOK /\ hs[c] \in Hs /\ accepts \in Nat
    BY Zenon DEF TransferInv, TypeOK
  <1>1. CASE httpd_accept(c)
    <2>1. ~hs[c].live /\ NewHs(accepts + 1).state = "NONE"
      BY <1>1, Zenon DEF httpd_accept, NewHs, FreeHs
    <2>2. Follows(hs[c], NewHs(accepts + 1))
      BY <2>1, Zenon DEF Follows
    <2>3. /\ hs' = [hs EXCEPT ![c] = NewHs(accepts + 1)]
          /\ UNCHANGED <<upload, upload_pending, upload_hs, web, job>>
      BY <1>1, Zenon DEF httpd_accept, uploadVars, history
    <2> QED BY <2>2, <2>3, Zenon DEF Kept
  <1>2. CASE httpd_recv_static(c) \/ httpd_recv_busy(c)
             \/ \E cmd \in Cmd : webterm_execute_command(c, cmd)
    <2>1. Respond(c)
      BY <1>2, Zenon DEF httpd_recv_static, httpd_recv_busy, webterm_execute_command
    <2>2. PICK r \in httpd_send_static([hs[c] EXCEPT !.idle = FALSE]) :
                 hs' = [hs EXCEPT ![c] = r]
      BY <2>1, Zenon DEF Respond
    <2>3. Follows(hs[c], r)
      BY <1>t, StaticFollows, Zenon
    <2>4. UNCHANGED <<upload, upload_pending, upload_hs, web, job>>
      BY <2>1, Zenon DEF Respond, uploadVars, history
    <2> QED BY <2>2, <2>3, <2>4, Zenon DEF Kept
  <1>3. CASE httpd_recv_ignored(c) \/ IdleTime(c)
    <2>1. PICK b \in BOOLEAN : hs' = [hs EXCEPT ![c] = [hs[c] EXCEPT !.idle = b]]
      BY <1>3, <1>t, Zenon DEF httpd_recv_ignored, IdleTime
    <2>2. Follows(hs[c], [hs[c] EXCEPT !.idle = b])
      BY <1>t, Zenon DEF Follows, Hs
    <2>3. UNCHANGED <<upload, upload_pending, upload_hs, web, job>>
      BY <1>3, Zenon DEF httpd_recv_ignored, IdleTime, uploadVars, history
    <2> QED BY <2>1, <2>2, <2>3, Zenon DEF Kept
  <1>4. CASE httpd_handle_backup(c)
    <2>0. hs[c].state = "NONE"
      BY <1>4, Zenon DEF httpd_handle_backup
    <2>1. UNCHANGED <<upload, upload_pending, upload_hs, web, job>>
      BY <1>4, Zenon DEF httpd_handle_backup, StartBackup, FailBackup, uploadVars
    <2>2. CASE FailBackup(c, stack)
      <3>1. PICK r \in httpd_send_static([hs[c] EXCEPT !.idle = FALSE]) :
                   hs' = [hs EXCEPT ![c] = r]
        BY <2>2, Zenon DEF FailBackup
      <3>2. Follows(hs[c], r)
        BY <1>t, StaticFollows, Zenon
      <3> QED BY <2>1, <3>1, <3>2, Zenon DEF Kept
    <2>3. ASSUME NEW k \in 1..MaxChunks, StartBackup(c, k, stack) PROVE Kept(c)
      <3> DEFINE h == [hs[c] EXCEPT !.state = "FILE_REQUEST", !.owns = TRUE, !.upload = 1,
                                    !.dataptr = "header", !.idle = FALSE]
      <3>1. h \in Hs /\ h.live = hs[c].live /\ h.sess = hs[c].sess /\ h.state = "FILE_REQUEST"
        BY <1>t, Zenon DEF Hs, States
      <3>2. PICK r \in httpd_send_data(h) : hs' = [hs EXCEPT ![c] = r]
        BY <2>3, Zenon DEF StartBackup
      <3> HIDE DEF h
      <3>3. Follows(hs[c], h)
        BY <3>1, Zenon DEF Follows
      <3>4. Follows(hs[c], r)
        BY <1>t, <3>1, <3>2, <3>3, SendFollows, Zenon
      <3> QED BY <2>1, <3>2, <3>4, Zenon DEF Kept
    <2> QED BY <1>4, <2>2, <2>3, Zenon DEF httpd_handle_backup
  <1>5. CASE httpd_sent_more(c) \/ httpd_sent_chunk(c)
    <2>1. PICK more \in BOOLEAN :
               \E r \in httpd_send_data(SentHs(c, more)) : hs' = [hs EXCEPT ![c] = r]
      BY <1>5, Zenon DEF httpd_sent_more, httpd_sent_chunk, httpd_send_data
    <2> DEFINE h == SentHs(c, more)
    <2>2. /\ h \in Hs /\ h.live = hs[c].live /\ h.sess = hs[c].sess
          /\ h.state = hs[c].state \/ h.state = "FILE_REQUEST"
      BY SentType, Zenon
    <2> HIDE DEF h
    <2>3. PICK r \in httpd_send_data(h) : hs' = [hs EXCEPT ![c] = r]
      BY <2>1, Zenon DEF h
    <2>4. Follows(hs[c], h)
      BY <2>2, Zenon DEF Follows
    <2>5. Follows(hs[c], r)
      BY <1>t, <2>2, <2>4, SendFollows, Zenon
    <2>6. UNCHANGED <<upload, upload_pending, upload_hs, web, job>>
      BY <1>5, Zenon DEF httpd_sent_more, httpd_sent_chunk, uploadVars, history
    <2> QED BY <2>3, <2>5, <2>6, ZenonT(60) DEF Kept
  <1>6. CASE httpd_poll_cb_send(c)
    <2>1. PICK r \in httpd_send_data(hs[c]) : hs' = [hs EXCEPT ![c] = r]
      BY <1>6, Zenon DEF httpd_poll_cb_send
    <2>2. Follows(hs[c], hs[c])
      BY Zenon DEF Follows
    <2>3. Follows(hs[c], r)
      BY <1>t, <2>2, SendFollows, Zenon
    <2>4. UNCHANGED <<upload, upload_pending, upload_hs, web, job>>
      BY <1>6, Zenon DEF httpd_poll_cb_send, uploadVars, history
    <2> QED BY <2>1, <2>3, <2>4, ZenonT(60) DEF Kept
  <1> QED BY <1>1, <1>2, <1>3, <1>4, <1>5, <1>6, Zenon

-----------------------------------------------------------------------------
(* A connection goes away.                                                 *)

\* Closing one changes neither the image's description nor its type.
LEMMA ClosedImage ==
    ASSUME TypeOK, ImageInv, NEW c \in Conn, hs' = [hs EXCEPT ![c] = FreeHs],
           stack' = stack, job' = job,
           web'.type = web.type, web'.size = web.size,
           web'.status = web.status \/ ~Upgrading,
           upload'.data_start_found => upload.data_start_found,
           Armable' \/ web'.ready => Armable \/ web.ready
    PROVE  ImageInv'
  <1>1. hs'[c] = FreeHs /\ \A d \in Conn : d # c => hs'[d] = hs[d]
    BY Zenon DEF TypeOK
  <1>2. FreeHs.state = "NONE"
    BY Zenon DEF FreeHs
  <1>3. Typed'
    BY <1>1, <1>2, ZenonT(60) DEF ImageInv, Typed
  <1>4. (Waits' <=> Waits) /\ (Writes' <=> Writes) /\ (Writes => Upgrading)
    BY SameStack, WaitsWrites, Zenon
  <1> QED BY <1>3, <1>4, ImageKept, Zenon

\* ... and a pending image is lost with its client, or armed, or another one's.
LEMMA ClosedPending ==
    ASSUME TypeOK, PendingAccounted, NEW c \in Conn, hs' = [hs EXCEPT ![c] = FreeHs],
           stack' = stack, job' = job,
           upload_pending' => upload_pending, web.ready => web'.ready,
           Armable /\ upload_hs # c => Armable' /\ upload_hs' = upload_hs,
           Armable /\ upload_hs = c => web'.ready \/ ~upload_pending'
    PROVE  PendingAccounted'
  <1>1. hs'[c] = FreeHs /\ \A d \in Conn : d # c => hs'[d] = hs[d]
    BY Zenon DEF TypeOK
  <1>2. Upgrading' <=> Upgrading
    BY SameStack, Zenon
  <1>3. SUFFICES ASSUME upload_pending', ~web'.ready, ~Upgrading'
                 PROVE  /\ Armable' /\ upload_hs' # NULL
                        /\ hs'[upload_hs'].live /\ hs'[upload_hs'].state = "FILE_REQUEST"
                        /\ hs'[upload_hs'].sess = job'.sess
    BY Zenon DEF PendingAccounted, Armable
  <1>4. /\ Armable /\ upload_hs # NULL
        /\ hs[upload_hs].live /\ hs[upload_hs].state = "FILE_REQUEST"
        /\ hs[upload_hs].sess = job.sess
    BY <1>2, <1>3, ZenonT(60) DEF PendingAccounted, Armable
  <1>5. upload_hs # c /\ Armable' /\ upload_hs' = upload_hs
    BY <1>3, <1>4, Zenon
  <1> QED BY <1>1, <1>4, <1>5, Zenon DEF TypeOK

\* httpd_close_conn, what it leaves of the upload.
LEMMA ClosedUpload ==
    ASSUME NEW c \in Conn, NEW u \in Uploads, NEW g, httpd_state_reset(c, u, g)
    PROVE  /\ upload'.done = u.done /\ upload'.failed = u.failed
           /\ upload'.data_start_found => u.data_start_found
  <1>1. upload' = IF hs[c].owns THEN [ZeroUpload EXCEPT !.done = u.done, !.failed = u.failed]
                  ELSE u
    BY Zenon DEF httpd_state_reset
  <1> QED BY <1>1, Zenon DEF ZeroUpload, Uploads

\* The response of a completed upload has left, or its client closed.
LEMMA ArmImage ==
    ASSUME Sound, ImageInv, NEW c \in Conn, ArmAndClose(c)
    PROVE  ImageInv' /\ (PendingAccounted => PendingAccounted')
  <1> DEFINE u == IF Arming(c)
                  THEN [upload EXCEPT !.done = FALSE, !.failed = FALSE]
                  ELSE upload
             b == web.ready \/ (Arming(c) /\ ~upload.failed)
  <1>1. /\ web' = [web EXCEPT !.ready = b]
        /\ upload_hs' = IF Arming(c) THEN NULL ELSE upload_hs
        /\ httpd_state_reset(c, u, hs_global)
        /\ hs' = [hs EXCEPT ![c] = FreeHs]
        /\ UNCHANGED <<upload_pending, stack, job>>
    BY Zenon DEF ArmAndClose, httpd_close_conn, history
  <1>2. TypeOK /\ upload \in Uploads /\ web \in Webs
    BY Zenon DEF Sound, TypeOK
  <1>3. /\ u \in Uploads /\ u.data_start_found = upload.data_start_found
        /\ Arming(c) => u.done = FALSE
        /\ ~Arming(c) => u = upload
    BY <1>2, Zenon DEF Uploads
  <1> HIDE DEF u
  <1>4. /\ upload'.done = u.done /\ upload'.failed = u.failed
        /\ upload'.data_start_found => upload.data_start_found
    BY <1>1, <1>3, ClosedUpload, Zenon
  <1>5. b <=> web.ready \/ (Arming(c) /\ ~upload.failed)
    BY Zenon
  <1> HIDE DEF b
  <1>6. /\ web'.type = web.type /\ web'.size = web.size /\ web'.status = web.status
        /\ web'.ready = b
    BY <1>1, <1>2, Zenon DEF Webs
  <1>7. /\ Arming(c) => upload.done
        /\ Armable <=> upload.done /\ ~upload.failed
        /\ Armable' <=> upload'.done /\ ~upload'.failed
        /\ Arming(c) <=> upload.done /\ upload_hs \in {NULL, c}
    BY Zenon DEF Arming, Armable
  <1>8. Armable' => Armable
    BY <1>3, <1>4, <1>7, Zenon
  <1>9. ImageInv'
    BY <1>1, <1>2, <1>4, <1>5, <1>6, <1>7, <1>8, ClosedImage, Zenon
  <1>10. ASSUME PendingAccounted PROVE PendingAccounted'
    <2>1. web.ready => web'.ready
      BY <1>5, <1>6, Zenon
    <2>2. ASSUME Armable, upload_hs = c PROVE web'.ready
      BY <1>5, <1>6, <1>7, <2>2, Zenon
    <2>3. ASSUME Armable, upload_hs # c PROVE web'.ready \/ (Armable' /\ upload_hs' = upload_hs)
      BY <1>1, <1>3, <1>4, <1>5, <1>6, <1>7, <2>3, Zenon
    <2>4. CASE web'.ready
      BY <2>4, Zenon DEF PendingAccounted
    <2>5. CASE ~web'.ready
      BY <1>1, <1>2, <1>10, <2>1, <2>2, <2>3, <2>5, ClosedPending, Zenon
    <2> QED BY <2>4, <2>5, Zenon
  <1> QED BY <1>9, <1>10, Zenon

\* A connection is lost or timed out.
LEMMA DiscardImage ==
    ASSUME Sound, ImageInv, NEW c \in Conn, DiscardAndClose(c)
    PROVE  ImageInv' /\ (PendingAccounted => PendingAccounted')
  <1> DEFINE u == IF upload_hs = c
                  THEN [upload EXCEPT !.done = FALSE, !.failed = FALSE]
                  ELSE upload
             g == IF hs_global = c THEN NULL ELSE hs_global
             s == IF upload_hs = c THEN "idle" ELSE web.status
  <1>1. /\ upload_pending' = (upload_pending /\ ~(upload_hs = c))
        /\ upload_hs' = IF upload_hs = c THEN NULL ELSE upload_hs
        /\ web' = [web EXCEPT !.status = s]
        /\ httpd_state_reset(c, u, g)
        /\ hs' = [hs EXCEPT ![c] = FreeHs]
        /\ UNCHANGED <<stack, job>>
    BY Zenon DEF DiscardAndClose, history
  <1>2. TypeOK /\ upload \in Uploads /\ web \in Webs
    BY Zenon DEF Sound, TypeOK
  <1>3. /\ u \in Uploads /\ u.data_start_found = upload.data_start_found
        /\ upload_hs = c => u.done = FALSE
        /\ upload_hs # c => u = upload
    BY <1>2, Zenon DEF Uploads
  <1> HIDE DEF u, g
  <1>4. /\ upload'.done = u.done /\ upload'.failed = u.failed
        /\ upload'.data_start_found => upload.data_start_found
    BY <1>1, <1>3, ClosedUpload, Zenon
  <1>5. upload_hs # c => s = web.status
    BY Zenon
  <1> HIDE DEF s
  <1>6. /\ web'.type = web.type /\ web'.size = web.size /\ web'.ready = web.ready
        /\ web'.status = s
    BY <1>1, <1>2, Zenon DEF Webs
  <1>7. upload_hs = c => ~Upgrading
    BY NullAssumption, Zenon DEF Sound, SessionInv, Flow
  <1>8. Armable' <=> upload_hs # c /\ Armable
    BY <1>3, <1>4, Zenon DEF Armable
  <1>9. ImageInv'
    BY <1>1, <1>2, <1>4, <1>5, <1>6, <1>7, <1>8, ClosedImage, Zenon
  <1>10. ASSUME PendingAccounted PROVE PendingAccounted'
    <2>1. upload_pending' => upload_pending /\ upload_hs # c
      BY <1>1, Zenon
    <2> QED BY <1>1, <1>2, <1>6, <1>8, <1>10, <2>1, ClosedPending, Zenon
  <1> QED BY <1>9, <1>10, Zenon

\* A request that is turned down, or a segment without memory for it.
LEMMA AbortImage ==
    ASSUME Sound, ImageInv, NEW c \in Conn, httpd_recv_abort(c) \/ httpd_recv_nomem(c)
    PROVE  ImageInv' /\ (PendingAccounted /\ ~RecvMallocFails => PendingAccounted')
  <1>1. /\ httpd_state_reset(c, upload, hs_global) /\ hs' = [hs EXCEPT ![c] = FreeHs]
        /\ UNCHANGED <<upload_pending, upload_hs, web, stack, job>>
    BY Zenon DEF httpd_recv_abort, httpd_recv_nomem, httpd_close_conn, history
  <1>2. TypeOK /\ upload \in Uploads
    BY Zenon DEF Sound, TypeOK
  <1>3. /\ upload'.done = upload.done /\ upload'.failed = upload.failed
        /\ upload'.data_start_found => upload.data_start_found
    BY <1>1, <1>2, ClosedUpload, Zenon
  <1>4. Armable' <=> Armable
    BY <1>3, Zenon DEF Armable
  <1>5. ImageInv'
    BY <1>1, <1>2, <1>3, <1>4, ClosedImage, Zenon
  <1>6. ASSUME PendingAccounted, ~RecvMallocFails PROVE PendingAccounted'
    <2>1. hs[c].state = "NONE"
      BY <1>6, Zenon DEF httpd_recv_abort, httpd_recv_nomem
    <2>2. CASE upload_hs = c
      <3>1. upload_pending => web.ready \/ Upgrading
        BY <1>6, <2>1, <2>2, Zenon DEF PendingAccounted
      <3>2. Upgrading' <=> Upgrading
        BY <1>1, SameStack, Zenon
      <3> QED BY <1>1, <3>1, <3>2, Zenon DEF PendingAccounted
    <2>3. CASE upload_hs # c
      BY <1>1, <1>2, <1>4, <1>6, <2>3, ClosedPending, Zenon
    <2> QED BY <2>2, <2>3, Zenon
  <1> QED BY <1>5, <1>6, Zenon

-----------------------------------------------------------------------------
(* Uploads.                                                                *)

\* Nobody else receives.
LEMMA OneReceives ==
    ASSUME Sound, NEW c \in Conn, hs_global \in {NULL, c}, NEW r,
           hs' = [hs EXCEPT ![c] = r], NEW d \in Conn, hs'[d].state = "UPLOAD_REQUEST"
    PROVE  d = c /\ hs'[d] = r
  <1>1. hs'[c] = r /\ \A e \in Conn : e # c => hs'[e] = hs[e]
    BY Zenon DEF Sound, TypeOK
  <1>2. d # c => hs_global = d
    BY <1>1, Phases, Zenon
  <1> QED BY <1>1, <1>2, NullAssumption, Zenon

\* httpd_check_upload_complete: the size and the type are those of the image that
\* is acknowledged, and its client can arm it.
LEMMA CompleteImage ==
    ASSUME Sound, NEW c \in Conn, NEW h \in Hs, NEW u \in Uploads, NEW w \in Webs, NEW bv,
           httpd_check_upload_complete(c, h, u, w, NULL, c, bv),
           Free \/ (Owned /\ hs_global = c),
           h.live, ~u.done, w.type = h.sess, stack' = stack, w.ready = web.ready
    PROVE  ImageInv' /\ PendingAccounted'
  <1>1. /\ ~Upgrading /\ ~web.ready /\ ~upload_pending /\ hs_global \in {NULL, c}
    BY Zenon DEF Free, Owned
  <1>2. ~Upgrading'
    BY <1>1, SameStack, Zenon
  <1>3. CASE ~(h.upload >= h.total + Trailer)
    <2>1. /\ hs' = [hs EXCEPT ![c] = h] /\ upload' = u /\ web' = w
          /\ upload_pending' = upload_pending
      BY <1>3, Zenon DEF httpd_check_upload_complete
    <2>2. ~Armable' /\ ~web'.ready
      BY <1>1, <2>1, Zenon DEF Armable
    <2>3. Typed'
      <3> SUFFICES ASSUME NEW d \in Conn, hs'[d].state = "UPLOAD_REQUEST"
                   PROVE  web'.type = hs'[d].sess
        BY Zenon DEF Typed
      <3>1. hs'[d] = h
        <4>1. hs_global \in {NULL, c}
          BY <1>1, Zenon
        <4>2. hs' = [hs EXCEPT ![c] = h]
          BY <2>1, Zenon
        <4> QED BY <4>1, <4>2, OneReceives, ZenonT(60)
      <3> QED BY <2>1, <3>1, Zenon
    <2>4. ImageInv'
      BY <1>2, <2>2, <2>3, ImageNone, Zenon
    <2> QED BY <1>1, <2>1, <2>4, Zenon DEF PendingAccounted
  <1>4. CASE h.upload >= h.total + Trailer
    <2>1. /\ upload' = [ZeroUpload EXCEPT !.done = TRUE, !.failed = u.failed]
          /\ upload_pending' = (upload_pending \/ ~u.failed)
          /\ upload_hs' = IF u.failed THEN NULL ELSE c
          /\ web' = [w EXCEPT !.status = "verifying", !.size = h.total]
          /\ job' = IF u.failed THEN job ELSE [sess |-> h.sess, size |-> h.total]
      BY <1>4, Zenon DEF httpd_check_upload_complete
    <2>2. PICK r \in httpd_send_static(ResetHs(h)) : hs' = [hs EXCEPT ![c] = r]
      BY <1>4, Zenon DEF httpd_check_upload_complete
    <2> DEFINE e == ResetHs(h)
    <2>3. e \in Hs /\ e.sess = h.sess /\ e.live = h.live /\ r \in httpd_send_static(e)
      BY Zenon DEF ResetHs, Hs, States
    <2> HIDE DEF e
    <2>4. r.state = "FILE_REQUEST" /\ r.sess = h.sess /\ r.live = h.live
      BY <2>3, SendStaticType, SendKeeps, Zenon DEF Sound
    <2>5. upload'.done = TRUE /\ upload'.failed = u.failed
      BY <2>1, Zenon DEF ZeroUpload, Uploads
    <2>6. web'.ready = w.ready /\ web'.type = w.type /\ web'.size = h.total
      BY <2>1, Zenon DEF Webs, Hs
    <2>7. Typed'
      <3> SUFFICES ASSUME NEW d \in Conn, hs'[d].state = "UPLOAD_REQUEST" PROVE FALSE
        BY Zenon DEF Typed
      <3>1. hs'[d] = r
        <4>1. hs_global \in {NULL, c}
          BY <1>1, Zenon
        <4>2. hs' = [hs EXCEPT ![c] = r]
          BY <2>2, Zenon
        <4> QED BY <4>1, <4>2, OneReceives, ZenonT(60)
      <3> QED BY <2>4, <3>1, Zenon
    <2>8. ~Waits' /\ ~Writes' /\ ~web'.ready
      BY <1>1, <1>2, <2>6, WaitsWrites, Zenon
    <2>9. CASE u.failed
      <3>1. ~Armable'
        BY <2>5, <2>9, Zenon DEF Armable
      <3>2. ~upload_pending'
        <4>1. upload_pending \in BOOLEAN
          BY Zenon DEF Sound, TypeOK
        <4> QED BY <1>1, <2>1, <2>9, <4>1, Zenon
      <3> QED BY <1>2, <2>7, <2>8, <3>1, <3>2, ImageNone, Zenon DEF PendingAccounted
    <2>10. CASE ~u.failed
      <3>1. job'.sess = h.sess /\ job'.size = h.total /\ upload_hs' = c
        BY <2>1, <2>10, Zenon
      <3>2. ImageInv'
        BY <2>6, <2>7, <2>8, <3>1, WaitsWrites, Zenon DEF ImageInv, Described
      <3>3. hs'[c] = r
        BY <2>2, Zenon DEF Sound, TypeOK
      <3>4. upload'.done /\ ~upload'.failed
        BY <2>5, <2>10, Zenon
      <3> QED BY <2>4, <3>1, <3>2, <3>3, <3>4, NullAssumption, Zenon DEF PendingAccounted
    <2> QED BY <2>9, <2>10, Zenon
  <1> QED BY <1>3, <1>4, Zenon

\* The first data of an upload set the type.
LEMMA FirstSets ==
    ASSUME TypeOK, NEW c \in Conn, NEW h \in Hs, NEW u \in Uploads,
           NEW t \in 1..MaxData, NEW n \in 0..MaxPacket, NEW reboot \in BOOLEAN
    PROVE  /\ FirstHs(h, t, n) \in Hs /\ FirstHs(h, t, n).live = h.live
           /\ FirstHs(h, t, n).sess = h.sess
           /\ FirstUpload(u, t, n) \in Uploads /\ FirstUpload(u, t, n).done = u.done
           /\ FirstWeb(c, reboot) \in Webs /\ FirstWeb(c, reboot).type = hs[c].sess
           /\ FirstWeb(c, reboot).ready = web.ready
  <1>1. /\ FirstHs(h, t, n) \in Hs /\ FirstUpload(u, t, n) \in Uploads
        /\ FirstWeb(c, reboot) \in Webs
    BY FirstType, Zenon
  <1>2. FirstHs(h, t, n).live = h.live /\ FirstHs(h, t, n).sess = h.sess
    BY BoundAssumption, Zenon DEF FirstHs, Hs
  <1>3. FirstWeb(c, reboot).type = hs[c].sess /\ FirstWeb(c, reboot).ready = web.ready
    BY Zenon DEF FirstWeb, TypeOK, Webs, Hs
  <1> DEFINE b == u.failed \/ t > SizeLimit \/ Least(n, t) > RamUnits
  <1>4. FirstUpload(u, t, n) = [u EXCEPT !.data_start_found = TRUE, !.failed = b]
    BY Zenon DEF FirstUpload
  <1> HIDE DEF b
  <1>5. FirstUpload(u, t, n).done = u.done
    BY <1>4, Zenon DEF Uploads
  <1> QED BY <1>1, <1>2, <1>3, <1>5, Zenon

\* The segments of an upload.
LEMMA UploadImage ==
    ASSUME Sound, ImageInv, NEW c \in Conn,
           httpd_recv_post(c) \/ httpd_recv_first(c) \/ httpd_recv_data(c)
    PROVE  ImageInv' /\ PendingAccounted'
  <1>t. TypeOK /\ hs[c] \in Hs /\ upload \in Uploads /\ web \in Webs
    BY Zenon DEF Sound, TypeOK
  <1>s. stack' = stack
    BY Zenon DEF httpd_recv_post, httpd_recv_first, httpd_recv_data
  <1>first. ASSUME NEW h \in Hs, NEW u \in Uploads, NEW bv, NEW t \in 1..MaxData,
                   NEW n \in 0..MaxPacket, NEW reboot \in BOOLEAN,
                   httpd_check_upload_complete(c, FirstHs(h, t, n), FirstUpload(u, t, n),
                      FirstWeb(c, reboot), NULL, c, bv),
                   Free \/ (Owned /\ hs_global = c), h.live, h.sess = hs[c].sess, ~u.done
            PROVE  ImageInv' /\ PendingAccounted'
    <2> DEFINE e == FirstHs(h, t, n)
               v == FirstUpload(u, t, n)
               w == FirstWeb(c, reboot)
    <2>1. /\ e \in Hs /\ e.live = h.live /\ e.sess = h.sess
          /\ v \in Uploads /\ v.done = u.done
          /\ w \in Webs /\ w.type = hs[c].sess /\ w.ready = web.ready
      BY <1>t, FirstSets
    <2>2. httpd_check_upload_complete(c, e, v, w, NULL, c, bv)
      BY <1>first, Zenon
    <2> HIDE DEF e, v, w
    <2>3. e.live /\ ~v.done /\ w.type = e.sess
      BY <1>first, <2>1, Zenon
    <2> QED BY <1>s, <1>first, <2>1, <2>2, <2>3, CompleteImage, Zenon
  <1>1. CASE httpd_recv_post(c)
    <2> DEFINE h == [hs[c] EXCEPT !.state = "UPLOAD_REQUEST", !.owns = TRUE, !.idle = FALSE]
    <2>1. hs[c].live /\ hs[c].state = "NONE" /\ ~Busy(c)
      BY <1>1, Zenon DEF httpd_recv_post, Rx
    <2>2. Free
      BY <2>1, Phases, Zenon
    <2>3. h \in Hs /\ h.live /\ h.sess = hs[c].sess
      BY <1>t, <2>1, ZenonT(60) DEF Hs, States
    <2>4. \/ \E t \in 1..MaxData, n \in 0..MaxPacket, reboot \in BOOLEAN :
                httpd_check_upload_complete(c, FirstHs(h, t, n),
                    FirstUpload(ZeroUpload, t, n), FirstWeb(c, reboot), NULL, c, TRUE)
          \/ /\ NoFirstChunk(c, ZeroUpload)
             /\ upload_pending' = upload_pending
      BY <1>1, Zenon DEF httpd_recv_post
    <2>5. ZeroUpload \in Uploads /\ ~ZeroUpload.done /\ ~ZeroUpload.data_start_found
      BY Zenon DEF ZeroUpload, Uploads
    <2> HIDE DEF h
    <2>6. ASSUME NoFirstChunk(c, ZeroUpload), upload_pending' = upload_pending
          PROVE  ImageInv' /\ PendingAccounted'
      <3>1. \/ upload' = ZeroUpload /\ web' = web
            \/ \E reboot \in BOOLEAN, failed \in BOOLEAN :
                  /\ upload' = [ZeroUpload EXCEPT !.failed = failed]
                  /\ web' = FirstWeb(c, reboot)
        BY <2>5, <2>6, Zenon DEF NoFirstChunk, Uploads
      <3>2. ~upload'.done /\ ~upload'.data_start_found
        BY <2>5, <3>1, Zenon DEF Uploads
      <3>3. web'.ready = web.ready
        BY <1>t, <3>1, Zenon DEF FirstWeb, Webs
      <3>4. Typed' /\ ~Armable'
        BY <3>2, Zenon DEF Typed, Armable
      <3>5. ~Upgrading' /\ ~web'.ready /\ ~upload_pending'
        BY <1>s, <2>2, <2>6, <3>3, SameStack, Zenon DEF Free
      <3> QED BY <3>4, <3>5, ImageNone, Zenon DEF PendingAccounted
    <2> QED BY <1>first, <2>2, <2>3, <2>4, <2>5, <2>6, Zenon
  <1>2. CASE httpd_recv_first(c)
    <2> DEFINE h == [hs[c] EXCEPT !.idle = FALSE]
    <2>1. h \in Hs /\ h.live = hs[c].live /\ h.state = hs[c].state /\ h.sess = hs[c].sess
      BY <1>t, ZenonT(60) DEF Hs
    <2>2. hs[c].live /\ hs[c].state = "UPLOAD_REQUEST"
      BY <1>2, <2>1, Zenon DEF httpd_recv_first, Rx
    <2>3. Owned /\ hs_global = c /\ upload_hs = NULL /\ ~upload.done
      BY <2>2, Phases, NullAssumption, Zenon DEF Sound, SessionInv, Receiving
    <2>4. \E t \in 1..MaxData, n \in 0..MaxPacket, reboot \in BOOLEAN :
             httpd_check_upload_complete(c, FirstHs(h, t, n),
                 FirstUpload(upload, t, n), FirstWeb(c, reboot),
                 upload_hs, hs_global, boundary_value)
      BY <1>2, Zenon DEF httpd_recv_first
    <2> HIDE DEF h
    <2>5. PICK t \in 1..MaxData, n \in 0..MaxPacket, reboot \in BOOLEAN :
             httpd_check_upload_complete(c, FirstHs(h, t, n),
                 FirstUpload(upload, t, n), FirstWeb(c, reboot), NULL, c, boundary_value)
      BY <2>3, <2>4, Zenon
    <2> QED BY <1>t, <1>first, <2>1, <2>2, <2>3, <2>5, Zenon
  <1>3. CASE httpd_recv_data(c)
    <2>1. hs[c].live /\ hs[c].state = "UPLOAD_REQUEST" /\ upload.data_start_found
      BY <1>3, ZenonT(60) DEF httpd_recv_data, Rx
    <2>2. Owned /\ hs_global = c /\ upload_hs = NULL /\ ~upload.done
      BY <2>1, Phases, NullAssumption, Zenon DEF Sound, SessionInv, Receiving
    <2>3. PICK n \in 1..MaxPacket, b \in BOOLEAN :
             httpd_check_upload_complete(c,
                [hs[c] EXCEPT !.idle = FALSE, !.upload = @ + n, !.got = @ + n],
                [upload EXCEPT !.failed = b], web, upload_hs, hs_global, boundary_value)
      BY <1>3, Zenon DEF httpd_recv_data
    <2> DEFINE up == hs[c].upload + n
               got == hs[c].got + n
               h == [hs[c] EXCEPT !.idle = FALSE, !.upload = up, !.got = got]
               u == [upload EXCEPT !.failed = b]
    <2>4. n \in Nat
      BY BoundAssumption
    <2>5. up \in Nat /\ got \in Nat
      <3>1. hs[c].upload \in Nat /\ hs[c].got \in Nat
        BY <1>t, Zenon DEF Hs
      <3> QED BY <2>4, <3>1
    <2>6. httpd_check_upload_complete(c, h, u, web, upload_hs, hs_global, boundary_value)
      BY <2>3, Zenon
    <2> HIDE DEF up, got
    <2>7. h \in Hs /\ h.live /\ h.sess = hs[c].sess
      BY <1>t, <2>1, <2>5, Zenon DEF Hs
    <2>8. u \in Uploads /\ ~u.done
      BY <1>t, <2>2, Zenon DEF Uploads
    <2>9. web.type = hs[c].sess
      BY <2>1, Zenon DEF ImageInv, Typed
    <2> HIDE DEF h, u
    <2>10. httpd_check_upload_complete(c, h, u, web, NULL, c, boundary_value)
      BY <2>2, <2>6, Zenon
    <2>11. web.type = h.sess
      BY <2>7, <2>9, Zenon
    <2> QED BY <1>s, <1>t, <2>2, <2>7, <2>8, <2>10, <2>11, CompleteImage, ZenonT(60)
  <1> QED BY <1>1, <1>2, <1>3, Zenon

\* An upload that is turned down.
LEMMA RejectImage ==
    ASSUME Sound, ImageInv, NEW c \in Conn,
           \/ httpd_recv_post_badlength(c) \/ httpd_recv_post_rejected(c)
           \/ httpd_recv_nofirst(c)
    PROVE  ImageInv' /\ PendingAccounted'
  <1>t. TypeOK /\ upload \in Uploads /\ web \in Webs
    BY Zenon DEF Sound, TypeOK
  <1>1. /\ hs' = [hs EXCEPT ![c] = FreeHs] /\ stack' = stack
    BY Zenon DEF httpd_recv_post_badlength, httpd_recv_post_rejected, httpd_recv_nofirst,
           httpd_close_conn
  <1>2. web' = web \/ \E reboot \in BOOLEAN : web' = FirstWeb(c, reboot)
    BY Zenon DEF httpd_recv_post_badlength, httpd_recv_post_rejected, httpd_recv_nofirst
  <1>3. web'.ready = web.ready
    BY <1>t, <1>2, Zenon DEF FirstWeb, Webs
  <1>4. \/ Free \/ (Owned /\ hs_global = c)
    <2>1. CASE httpd_recv_nofirst(c)
      <3>1. hs[c].state = "UPLOAD_REQUEST"
        BY <2>1, Zenon DEF httpd_recv_nofirst
      <3> QED BY <3>1, Phases, NullAssumption, Zenon
    <2>2. CASE ~httpd_recv_nofirst(c)
      <3>1. hs[c].live /\ hs[c].state = "NONE" /\ ~Busy(c)
        BY <2>2, Zenon DEF httpd_recv_post_badlength, httpd_recv_post_rejected, Rx
      <3> QED BY <3>1, Phases, Zenon
    <2> QED BY <2>1, <2>2, Zenon
  <1>5. ~Upgrading' /\ ~web'.ready /\ ~upload_pending /\ hs_global \in {NULL, c}
    BY <1>1, <1>3, <1>4, SameStack, Zenon DEF Free, Owned
  <1>6. ~upload_pending'
    BY <1>5, Zenon DEF httpd_recv_post_badlength, httpd_recv_post_rejected, httpd_recv_nofirst
  <1>7. FreeHs.state = "NONE"
    BY Zenon DEF FreeHs
  <1>8. Typed'
    <2> SUFFICES ASSUME NEW d \in Conn, hs'[d].state = "UPLOAD_REQUEST" PROVE FALSE
      BY Zenon DEF Typed
    <2>1. hs'[d] = FreeHs
      BY <1>1, <1>5, OneReceives, Zenon
    <2> QED BY <1>7, <2>1, Zenon
  <1>9. ~Armable'
    <2>1. CASE httpd_recv_nofirst(c)
      <3>1. ~upload.done
        BY <2>1, Zenon DEF httpd_recv_nofirst, Sound, SessionInv, Receiving
      <3>2. PICK failed \in BOOLEAN :
                httpd_state_reset(c, [upload EXCEPT !.failed = failed], hs_global)
        <4>1. upload = [upload EXCEPT !.failed = upload.failed] /\ upload.failed \in BOOLEAN
          BY <1>t, Zenon DEF Uploads
        <4> QED BY <2>1, <4>1, Zenon DEF httpd_recv_nofirst, httpd_close_conn
      <3> DEFINE u == [upload EXCEPT !.failed = failed]
      <3>3. u \in Uploads /\ ~u.done /\ httpd_state_reset(c, u, hs_global)
        BY <1>t, <3>1, <3>2, Zenon DEF Uploads
      <3> HIDE DEF u
      <3> QED BY <3>3, ClosedUpload, Zenon DEF Armable
    <2>2. CASE httpd_recv_post_rejected(c)
      BY <2>2, Zenon DEF httpd_recv_post_rejected, Armable, ZeroUpload
    <2>3. CASE httpd_recv_post_badlength(c)
      <3>1. httpd_state_reset(c, ZeroUpload, hs_global)
        BY <2>3, Zenon DEF httpd_recv_post_badlength, httpd_close_conn
      <3>2. ZeroUpload \in Uploads /\ ~ZeroUpload.done
        BY Zenon DEF ZeroUpload, Uploads
      <3> QED BY <3>1, <3>2, ClosedUpload, Zenon DEF Armable
    <2> QED BY <2>1, <2>2, <2>3, Zenon
  <1> QED BY <1>5, <1>6, <1>8, <1>9, ImageNone, Zenon DEF PendingAccounted

\* Every lwIP callback.
LEMMA CallbackImage ==
    ASSUME ~ReadPolls, Sound, TransferInv, ImageInv, NEW c \in Conn, Callback(c)
    PROVE  ImageInv' /\ (PendingAccounted /\ ~RecvMallocFails => PendingAccounted')
  <1>1. stack' = stack
    BY StackCallback, Zenon
  <1>2. TypeOK /\ ~httpd_handle_backup_read(c)
    BY Zenon DEF Sound, httpd_handle_backup_read
  <1>3. ASSUME Kept(c) PROVE ImageInv' /\ (PendingAccounted => PendingAccounted')
    BY <1>1, <1>2, <1>3, KeptImage, Zenon
  <1>4. CASE httpd_recv_close(c) \/ httpd_sent_close(c)
    BY <1>4, ArmImage, Zenon DEF httpd_recv_close, httpd_sent_close
  <1>5. CASE httpd_err(c) \/ httpd_poll_cb_timeout(c)
    BY <1>5, DiscardImage, Zenon DEF httpd_err, httpd_poll_cb_timeout
  <1> QED BY <1>2, <1>3, <1>4, <1>5, KeptCallback, AbortImage, UploadImage, RejectImage,
             Zenon DEF Callback

-----------------------------------------------------------------------------
(* The poll loop.                                                          *)

\* An activation of the new stack is one of the old, a nested poll, or the one
\* that goes on.
LEMMA FramesKept ==
    ASSUME TypeOK, stack # <<>>, NEW f \in Frames, NEW pcs, "poll" \notin pcs
    PROVE  /\ Goto(f) \/ RunCommand(f) =>
                 ((\E i \in DOMAIN stack' : stack'[i].pc \in pcs) =>
                     f.pc \in pcs \/ \E i \in DOMAIN stack : stack[i].pc \in pcs)
           /\ Return =>
                 ((\E i \in DOMAIN stack' : stack'[i].pc \in pcs) =>
                     \E i \in DOMAIN stack : stack[i].pc \in pcs)
  <1> DEFINE p == Frame("poll")
             n == Len(stack)
  <1>1. stack \in Seq(Frames) /\ n \in Nat \ {0} /\ DOMAIN stack = 1..n
    BY DEF TypeOK
  <1>2. p \in Frames /\ p.pc = "poll"
    BY FrameType, Zenon DEF PollPcs, Frame
  <1> HIDE DEF p
  <1>3. /\ Len(<<f>> \o Tail(stack)) = n
        /\ (<<f>> \o Tail(stack))[1] = f
        /\ \A i \in 2..n : (<<f>> \o Tail(stack))[i] = stack[i]
        /\ Len(<<p, f>> \o Tail(stack)) = n + 1
        /\ (<<p, f>> \o Tail(stack))[1] = p
        /\ (<<p, f>> \o Tail(stack))[2] = f
        /\ \A i \in 3..n + 1 : (<<p, f>> \o Tail(stack))[i] = stack[i - 1]
        /\ Len(Tail(stack)) = n - 1
        /\ \A i \in 1..n - 1 : Tail(stack)[i] = stack[i + 1]
    BY <1>1, <1>2, StackSeq, Zenon
  <1>4. /\ DOMAIN (<<f>> \o Tail(stack)) = 1..n
        /\ DOMAIN (<<p, f>> \o Tail(stack)) = 1..n + 1
        /\ DOMAIN Tail(stack) = 1..n - 1
    BY <1>1, <1>2
  <1>5. /\ Goto(f) \/ RunCommand(f) =>
              stack' = <<f>> \o Tail(stack) \/ stack' = <<p, f>> \o Tail(stack)
        /\ Return => stack' = Tail(stack)
    BY Zenon DEF Goto, RunCommand, Return, p
  <1> HIDE DEF n
  <1>6. ASSUME stack' = <<f>> \o Tail(stack), NEW i \in DOMAIN stack'
        PROVE  stack'[i] = f \/ \E j \in DOMAIN stack : stack'[i] = stack[j]
    BY <1>1, <1>3, <1>4, <1>6
  <1>7. ASSUME stack' = <<p, f>> \o Tail(stack), NEW i \in DOMAIN stack'
        PROVE  stack'[i] \in {f, p} \/ \E j \in DOMAIN stack : stack'[i] = stack[j]
    <2>1. i \in 1..n + 1
      BY <1>4, <1>7, Zenon
    <2>2. CASE i \in {1, 2}
      BY <1>3, <1>7, <2>2, Zenon
    <2>3. CASE i \in 3..n + 1
      BY <1>1, <1>3, <1>7, <2>3
    <2> QED BY <1>1, <2>1, <2>2, <2>3
  <1>8. ASSUME stack' = Tail(stack), NEW i \in DOMAIN stack'
        PROVE  \E j \in DOMAIN stack : stack'[i] = stack[j]
    BY <1>1, <1>3, <1>4, <1>8, SMTT(60)
  <1> QED BY <1>2, <1>5, <1>6, <1>7, <1>8, Zenon

\* So who waits and who writes changes only with the activation that goes on.
LEMMA StackImage ==
    ASSUME TypeOK, stack # <<>>, NEW f \in Frames
    PROVE  /\ Goto(f) \/ RunCommand(f) =>
                 /\ Waits' => Waits \/ f.pc \in {"ready_wait", "flash_wait"}
                 /\ Writes' => Writes \/ f.pc \in {"flash_wait", "flash", "flash_cmd"}
           /\ Return => (Waits' => Waits) /\ (Writes' => Writes)
           /\ stack[1].pc \in {"ready_wait", "flash_wait"} => Waits
           /\ stack[1].pc \in {"flash_wait", "flash", "flash_cmd"} => Writes
  <1>1. 1 \in DOMAIN stack
    BY DEF TypeOK
  <1>2. /\ "poll" \notin {"ready_wait", "flash_wait"}
        /\ "poll" \notin {"flash_wait", "flash", "flash_cmd"}
    BY Zenon
  <1>3. /\ Goto(f) \/ RunCommand(f) =>
              (Waits' => Waits \/ f.pc \in {"ready_wait", "flash_wait"})
        /\ Return => (Waits' => Waits)
    BY <1>2, FramesKept, Zenon DEF Waits
  <1>4. /\ Goto(f) \/ RunCommand(f) =>
              (Writes' => Writes \/ f.pc \in {"flash_wait", "flash", "flash_cmd"})
        /\ Return => (Writes' => Writes)
    BY <1>2, FramesKept, Zenon DEF Writes
  <1>5. /\ stack[1].pc \in {"ready_wait", "flash_wait"} => Waits
        /\ stack[1].pc \in {"flash_wait", "flash", "flash_cmd"} => Writes
    BY <1>1, Zenon DEF Waits, Writes
  <1> QED BY <1>3, <1>4, <1>5, Zenon

\* While a command runs, no upgrade waits: only the innermost activation waits.
LEMMA NoneWaits ==
    ASSUME TypeOK, Suspended, stack # <<>>, stack[1].pc = "cmd"
    PROVE  ~Waits
  <1> SUFFICES ASSUME NEW i \in DOMAIN stack, stack[i].pc \in {"ready_wait", "flash_wait"}
               PROVE  FALSE
    BY Zenon DEF Waits
  <1>1. i = 1 \/ i > 1
    BY DEF TypeOK
  <1> QED BY <1>1, Zenon DEF Suspended

\* A step that changes only the activations, and an owner's buffer.
LEMMA MovedImage ==
    ASSUME ImageInv, Typed', UNCHANGED <<upload, web, job>>, Waits' => Waits, Writes' => Writes
    PROVE  ImageInv'
  <1>1. Armable' <=> Armable
    BY Zenon DEF Armable
  <1> QED BY <1>1, ImageKept, Zenon

\* The connections, the upload and the type of the image stay.
LEMMA SameTyped ==
    ASSUME ImageInv, UNCHANGED <<hs, upload>>, web'.type = web.type
    PROVE  Typed'
  BY Zenon DEF ImageInv, Typed

\* No connection is left.
LEMMA NoneTyped ==
    ASSUME hs' = [c \in Conn |-> FreeHs] PROVE Typed'
  <1>1. FreeHs.state = "NONE" /\ \A c \in Conn : hs'[c] = FreeHs
    BY Zenon DEF FreeHs
  <1> QED BY <1>1, Zenon DEF Typed

\* The armed image waits to be flashed, is announced, and is done.
LEMMA UpgradeImage ==
    ASSUME Sound, ImageInv,
           PollReady \/ PollFlashing \/ \E ok \in BOOLEAN : PollUpgraded(ok)
    PROVE  ImageInv'
  <1>t. TypeOK /\ web \in Webs /\ OneFlash
    BY Zenon DEF Sound, TypeOK, SessionInv
  <1>s. stack # <<>> /\ UNCHANGED <<hs, upload, job>>
    BY Zenon DEF PollReady, PollFlashing, PollUpgraded, At, connVars, uploadVars, history
  <1>a. Armable' <=> Armable
    BY <1>s, Zenon DEF Armable
  <1>f. \A pc \in PollPcs : Frame(pc) \in Frames /\ Frame(pc).pc = pc
    BY <1>s, <1>t, PollFrame, Zenon
  <1>pc. {"ready_wait", "flash_wait", "done_wait", "failed_wait"} \subseteq PollPcs
    BY Zenon DEF PollPcs, RxPcs
  <1>1. CASE PollReady
    <2>1. /\ web.ready /\ web' = [web EXCEPT !.ready = FALSE, !.status = "verifying"]
          /\ Goto(Frame("ready_wait"))
      BY <1>1, Zenon DEF PollReady
    <2>2. /\ ~web'.ready /\ web'.type = web.type /\ web'.size = web.size
      BY <1>t, <2>1, Zenon DEF Webs
    <2>3. ~Upgrading /\ ~Armable
      BY <2>1, Zenon DEF Sound, SessionInv, Flow
    <2>4. ~Writes'
      BY <1>f, <1>pc, <1>s, <1>t, <2>1, <2>3, StackImage, WaitsWrites, ZenonT(60)
    <2>5. Described'
      BY <1>s, <2>1, <2>2, Zenon DEF ImageInv, Described
    <2>6. Typed'
      BY <1>s, <2>2, SameTyped, Zenon
    <2> QED BY <2>4, <2>5, <2>6, WaitsWrites, Zenon DEF ImageInv
  <1>2. CASE PollFlashing
    <2>1. /\ stack[1].pc = "ready_wait" /\ web' = [web EXCEPT !.status = "flashing"]
          /\ Goto(Frame("flash_wait"))
      BY <1>2, Zenon DEF PollFlashing, At
    <2>2. /\ web'.ready = web.ready /\ web'.type = web.type /\ web'.size = web.size
          /\ web'.status = "flashing"
      BY <1>t, <2>1, Zenon DEF Webs
    <2>3. Waits
      BY <1>f, <1>pc, <1>s, <1>t, <2>1, StackImage, Zenon
    <2>4. Described'
      BY <1>s, <2>2, <2>3, Zenon DEF ImageInv, Described
    <2>5. Typed'
      BY <1>s, <2>2, SameTyped, Zenon
    <2> QED BY <2>2, <2>4, <2>5, WaitsWrites, Zenon DEF ImageInv
  <1>3. ASSUME NEW ok \in BOOLEAN, PollUpgraded(ok) PROVE ImageInv'
    <2> DEFINE f == Frame(IF ok THEN "done_wait" ELSE "failed_wait")
               st == IF ~ok THEN "type_mismatch"
                     ELSE IF web.reboot THEN "rebooting" ELSE "upgrade_done"
    <2>1. /\ stack[1].pc = "flash" /\ Goto(f) /\ web' = [web EXCEPT !.status = st]
      BY <1>3, Zenon DEF PollUpgraded, At
    <2>2. f \in Frames /\ f.pc \in {"done_wait", "failed_wait"}
      BY <1>f, <1>pc, Zenon
    <2> HIDE DEF f, st
    <2>3. web'.ready = web.ready /\ web'.type = web.type
      BY <1>t, <2>1, Zenon DEF Webs
    <2>4. f.pc \notin UpgradePcs /\ stack[1].pc \in UpgradePcs
      BY <2>1, <2>2, Zenon DEF UpgradePcs
    <2>5. ~Upgrading'
      BY <1>s, <1>t, <2>1, <2>2, <2>4, GotoFlash, Zenon
    <2>6. Upgrading
      BY <1>s, <1>t, <2>4, StackType DEF Upgrading, TypeOK
    <2>7. ~web'.ready /\ ~Armable'
      BY <1>a, <2>3, <2>6, Zenon DEF Sound, SessionInv, Flow
    <2>8. Typed'
      BY <1>s, <2>3, SameTyped, Zenon
    <2> QED BY <2>5, <2>7, <2>8, ImageNone, Zenon
  <1> QED BY <1>1, <1>2, <1>3, Zenon

\* The device restarts, or the server stops while a command runs.
LEMMA EndedImage ==
    ASSUME TypeOK, ImageInv,
           \/ Reboot
           \/ HttpdStopEffect(FALSE) /\ ~Waits' /\ (Writes' => Writes)
    PROVE  ImageInv'
  <1>1. Typed'
    BY NoneTyped, Zenon DEF Reboot, HttpdStopEffect
  <1>2. ~Armable'
    BY DEF Armable, ZeroUpload, Reboot, HttpdStopEffect
  <1>3. CASE Reboot
    <2>1. ~web'.ready
      BY <1>3, Zenon DEF Reboot, StoppedWeb
    <2>2. ~Upgrading'
      BY <1>3 DEF Reboot, Upgrading
    <2> QED BY <1>1, <1>2, <2>1, <2>2, ImageNone, Zenon
  <1>4. CASE HttpdStopEffect(FALSE) /\ ~Waits' /\ (Writes' => Writes)
    <2>1. /\ job' = job
          /\ web' = [StoppedWeb EXCEPT !.running = FALSE, !.status = web.status,
                                       !.size = web.size]
      BY <1>4, Zenon DEF HttpdStopEffect, history
    <2>2. ~web'.ready /\ web'.size = web.size /\ web'.status = web.status
      BY <2>1, Zenon DEF StoppedWeb
    <2> QED BY <1>1, <1>2, <1>4, <2>1, <2>2, ImageKept, Zenon
  <1> QED BY <1>3, <1>4, Zenon

\* The chunks of a backup.
LEMMA ChunkImage ==
    ASSUME Sound, ImageInv, backup_chunk_next \/ backup_chunk_resume \/ backup_chunk_failed
    PROVE  ImageInv'
  <1>t. TypeOK /\ stack # <<>> /\ upload \in Uploads
    BY Zenon DEF Sound, TypeOK, backup_chunk_next, backup_chunk_resume, backup_chunk_failed, At
  <1>f. \A pc \in PollPcs : Frame(pc) \in Frames /\ Frame(pc).pc = pc
    BY <1>t, PollFrame, Zenon
  <1>pc. {"chunk_wait", "rx"} \subseteq PollPcs
    BY Zenon DEF PollPcs, RxPcs
  <1>w. web' = web /\ job' = job
    BY Zenon DEF backup_chunk_next, backup_chunk_resume, backup_chunk_failed, history
  <1>rx. ASSUME Goto(Frame("rx")) PROVE (Waits' => Waits) /\ (Writes' => Writes)
    BY <1>f, <1>pc, <1>rx, <1>t, StackImage, Zenon
  <1>1. CASE backup_chunk_next
    <2> DEFINE m == IF hs_global = NULL THEN 0 ELSE hs[hs_global].sess
               f == [Frame("chunk_wait") EXCEPT !.n = m]
    <2>1. Goto(f) /\ UNCHANGED <<hs, upload>>
      BY <1>1, Zenon DEF backup_chunk_next, uploadVars
    <2>2. m \in Nat
      BY <1>t, Zenon DEF TypeOK, Hs
    <2> HIDE DEF m
    <2>3. f \in Frames /\ f.pc = "chunk_wait"
      BY <1>pc, <1>t, <2>2, PollFrame, Zenon
    <2> HIDE DEF f
    <2>4. (Waits' => Waits) /\ (Writes' => Writes)
      BY <1>t, <2>1, <2>3, StackImage, Zenon
    <2>5. Typed'
      BY <1>w, <2>1, SameTyped, Zenon
    <2> QED BY <1>w, <2>1, <2>4, <2>5, MovedImage, Zenon
  <1>2. CASE backup_chunk_resume
    <2>1. Goto(Frame("rx")) /\ UNCHANGED <<upload, upload_pending, upload_hs>>
      BY <1>2, Zenon DEF backup_chunk_resume, uploadVars
    <2>2. CASE hs_global = NULL
      <3>1. hs' = hs
        BY <1>2, <2>2, Zenon DEF backup_chunk_resume
      <3>2. Typed'
        BY <1>w, <2>1, <3>1, SameTyped, Zenon
      <3> QED BY <1>rx, <1>w, <2>1, <3>2, MovedImage, Zenon
    <2>3. CASE hs_global # NULL
      <3> DEFINE c == hs_global
                 d == IF backup.data_size > 0 THEN "ram" ELSE "null"
                 n == backup.data_size
                 h == [hs[c] EXCEPT !.dataptr = d, !.upload = n]
      <3>1. c \in Conn /\ hs[c] \in Hs /\ n \in Nat /\ d \in {"null", "ram"}
        BY <1>t, <2>3 DEF TypeOK, Backups
      <3>2. PICK r \in httpd_send_data(h) : hs' = [hs EXCEPT ![c] = r]
        BY <1>2, <2>3, Zenon DEF backup_chunk_resume
      <3> HIDE DEF c, d, n
      <3>3. /\ h \in Hs /\ h.live = hs[c].live /\ h.sess = hs[c].sess
            /\ h.state = hs[c].state
        BY <3>1, Zenon DEF Hs
      <3> HIDE DEF h
      <3>4. Follows(hs[c], h)
        BY <3>3, Zenon DEF Follows
      <3>5. Follows(hs[c], r)
        BY <1>t, <3>1, <3>2, <3>3, <3>4, SendFollows, Zenon
      <3>6. Kept(c)
        BY <1>w, <2>1, <3>2, <3>5, ZenonT(60) DEF Kept
      <3>7. Typed'
        BY <1>t, <3>1, <3>6, KeptImage, Zenon
      <3> QED BY <1>rx, <1>w, <2>1, <3>7, MovedImage, Zenon
    <2> QED BY <2>2, <2>3, Zenon
  <1>3. CASE backup_chunk_failed
    <2>1. Goto(Frame("rx"))
      BY <1>3, Zenon DEF backup_chunk_failed
    <2>2. CASE hs_global = NULL
      <3>1. UNCHANGED <<hs, upload>>
        BY <1>3, <2>2, Zenon DEF backup_chunk_failed
      <3>2. Typed'
        BY <1>w, <3>1, SameTyped, Zenon
      <3> QED BY <1>rx, <1>w, <2>1, <3>1, <3>2, MovedImage, ZenonT(60)
    <2>3. CASE hs_global # NULL
      <3> DEFINE c == hs_global
      <3>1. c \in Conn
        BY <1>t, <2>3, Zenon DEF TypeOK
      <3>2. httpd_state_reset(c, upload, hs_global) /\ hs' = [hs EXCEPT ![c] = FreeHs]
        BY <1>3, <2>3, Zenon DEF backup_chunk_failed, httpd_close_conn
      <3> HIDE DEF c
      <3>3. /\ upload'.done = upload.done /\ upload'.failed = upload.failed
            /\ upload'.data_start_found => upload.data_start_found
        BY <1>t, <3>1, <3>2, ClosedUpload, Zenon
      <3>4. hs'[c] = FreeHs /\ FreeHs.state = "NONE" /\ \A e \in Conn : e # c => hs'[e] = hs[e]
        <4>1. FreeHs.state = "NONE"
          BY Zenon DEF FreeHs
        <4> QED BY <1>t, <3>1, <3>2, <4>1, Zenon DEF TypeOK
      <3>5. Typed'
        BY <1>w, <3>3, <3>4, Zenon DEF ImageInv, Typed
      <3>6. Armable' <=> Armable
        BY <3>3, Zenon DEF Armable
      <3> QED BY <1>rx, <1>w, <2>1, <3>5, <3>6, ImageKept, Zenon
    <2> QED BY <2>2, <2>3, Zenon
  <1> QED BY <1>1, <1>2, <1>3, Zenon

\* Every step of failsafe_httpd_poll.
LEMMA PollImage ==
    ASSUME "restart" \notin Cmd, Sound, Suspended, ImageInv, Poll
    PROVE  ImageInv'
  <1>t. TypeOK
    BY Zenon DEF Sound
  <1>pc. {"chunk", "rx", "cmd", "flash", "flash_cmd"} \subseteq PollPcs
    BY Zenon DEF PollPcs, RxPcs, UpgradePcs
  <1>f. ASSUME stack # <<>> PROVE \A pc \in PollPcs : Frame(pc) \in Frames /\ Frame(pc).pc = pc
    BY <1>f, <1>t, PollFrame, Zenon
  <1>m. ASSUME UNCHANGED <<connVars, web, history>>, Waits' => Waits, Writes' => Writes
        PROVE  ImageInv'
    <2>1. UNCHANGED <<hs, upload, web, job>>
      BY <1>m, Zenon DEF connVars, uploadVars, history
    <2>2. Typed'
      BY <2>1, SameTyped, Zenon
    <2> QED BY <1>m, <2>1, <2>2, MovedImage, Zenon
  <1>1. CASE httpd_handle_backup_resume
    <2>1. stack # <<>> /\ stack[1].pc = "backup_read"
      BY <1>1, Zenon DEF httpd_handle_backup_resume, At
    <2>2. stack[1] \in PollFrames
      BY <2>1 DEF Sound, OwnerInv
    <2> QED BY <2>1, <2>2, Zenon DEF PollFrames
  <1>2. CASE MainLoop
    <2>1. stack = <<>> /\ stack' = <<Frame("poll")>> /\ UNCHANGED <<connVars, web, history>>
      BY <1>2, Zenon DEF MainLoop
    <2>2. ~Waits' /\ ~Writes'
      BY <2>1 DEF Waits, Writes, Frame
    <2> QED BY <1>m, <2>1, <2>2, Zenon
  <1>3. CASE do_http_upgrade \/ FlashCommand \/ execute_command
    <2>1. PICK f \in Frames : (Goto(f) \/ RunCommand(f)) /\ f.pc \in {"flash", "flash_cmd"}
      <3>1. stack # <<>>
        BY <1>3, Zenon DEF do_http_upgrade, FlashCommand, execute_command, At
      <3>2. CASE do_http_upgrade
        BY <1>f, <1>pc, <3>1, <3>2, Zenon DEF do_http_upgrade
      <3>3. CASE FlashCommand
        <4> DEFINE m == stack[1].n
                   g == [Frame("flash") EXCEPT !.n = m]
        <4>1. Goto(g)
          BY <3>3, Zenon DEF FlashCommand
        <4>2. m \in Nat
          BY <1>t, <3>1, PollFrame, Zenon
        <4> HIDE DEF m
        <4>3. g \in Frames /\ g.pc = "flash"
          BY <1>pc, <1>t, <3>1, <4>2, PollFrame, Zenon
        <4> HIDE DEF g
        <4> QED BY <4>1, <4>3, Zenon
      <3>4. CASE execute_command
        <4> DEFINE m == stack[1].n + 1
                   g == [Frame("flash_cmd") EXCEPT !.n = m]
        <4>1. RunCommand(g)
          BY <3>4, Zenon DEF execute_command
        <4>2. m \in Nat
          BY <1>t, <3>1, PollFrame
        <4> HIDE DEF m
        <4>3. g \in Frames /\ g.pc = "flash_cmd"
          BY <1>pc, <1>t, <3>1, <4>2, PollFrame, Zenon
        <4> HIDE DEF g
        <4> QED BY <4>1, <4>3, Zenon
      <3> QED BY <1>3, <3>2, <3>3, <3>4, Zenon
    <2>2. /\ stack # <<>> /\ stack[1].pc \in {"flash_wait", "flash", "flash_cmd"}
          /\ UNCHANGED <<connVars, web, history>>
      BY <1>3, Zenon DEF do_http_upgrade, FlashCommand, execute_command, At
    <2>3. Writes /\ (Waits' => Waits)
      BY <1>t, <2>1, <2>2, StackImage, Zenon
    <2> QED BY <1>m, <2>2, <2>3, Zenon
  <1>4. CASE webterm_run_pending_command \/ CommandPolls \/ PollNoChunk
    <2>1. stack # <<>> /\ UNCHANGED <<connVars, web, history>>
      BY <1>4, Zenon DEF webterm_run_pending_command, CommandPolls, PollNoChunk, At
    <2>2. PICK f \in Frames : (Goto(f) \/ RunCommand(f)) /\ f.pc \in {"chunk", "rx", "cmd"}
      <3>1. CASE PollNoChunk
        BY <1>f, <1>pc, <2>1, <3>1, Zenon DEF PollNoChunk
      <3>2. CASE CommandPolls
        BY <1>t, <2>1, <3>2, PollFrame, Zenon DEF CommandPolls, At
      <3>3. CASE webterm_run_pending_command
        <4> DEFINE g == [Frame("cmd") EXCEPT !.cmd = webterm_cmd, !.n = 1]
        <4>1. Goto(Frame("chunk")) \/ RunCommand(g)
          BY <3>3, Zenon DEF webterm_run_pending_command
        <4>2. g \in Frames /\ g.pc = "cmd"
          BY <1>t, <2>1, PollFrame, Zenon
        <4>3. Frame("chunk") \in Frames /\ Frame("chunk").pc = "chunk"
          BY <1>f, <1>pc, <2>1, Zenon
        <4> HIDE DEF g
        <4> QED BY <4>1, <4>2, <4>3, Zenon
      <3> QED BY <1>4, <3>1, <3>2, <3>3, Zenon
    <2>3. (Waits' => Waits) /\ (Writes' => Writes)
      BY <1>t, <2>1, <2>2, StackImage, Zenon
    <2> QED BY <1>m, <2>1, <2>3, Zenon
  <1>5. CASE PollDone \/ PollReturn \/ CommandDone
    <2>1. stack # <<>> /\ (CommandDone => stack[1].pc = "cmd")
      BY <1>5, Zenon DEF PollDone, PollReturn, CommandDone, At
    <2>2. stack[1].cmd # "restart"
      BY <1>t, <2>1, StackType, Zenon DEF Frames
    <2>3. \/ Reboot
          \/ (Goto(Frame("chunk")) \/ Return) /\ UNCHANGED <<connVars, web, history>>
          \/ CommandDone /\ Return /\ HttpdStopEffect(FALSE)
      BY <1>5, <2>2, Zenon DEF PollDone, PollReturn, CommandDone
    <2>4. Frame("chunk") \in Frames /\ Frame("chunk").pc = "chunk"
      BY <1>f, <1>pc, <2>1, Zenon
    <2>5. Goto(Frame("chunk")) \/ Return => (Waits' => Waits) /\ (Writes' => Writes)
      BY <1>t, <2>1, <2>4, StackImage, Zenon
    <2>6. CommandDone => ~Waits
      BY <1>t, <2>1, NoneWaits, Zenon
    <2> QED BY <1>m, <1>t, <2>3, <2>5, <2>6, EndedImage, ZenonT(60)
  <1> QED BY <1>1, <1>2, <1>3, <1>4, <1>5, UpgradeImage, ChunkImage, ZenonT(60) DEF Poll

\* A pending image is not touched by the poll loop until it is flashed.
LEMMA PollPending ==
    ASSUME Sound, Poll, upload_pending'
    PROVE  upload_pending /\ UNCHANGED <<hs, upload, upload_hs, job>>
  <1>t. upload_pending \in BOOLEAN
    BY Zenon DEF Sound, TypeOK
  <1>1. ~(\E ok \in BOOLEAN : PollUpgraded(ok)) /\ ~Reboot /\ \A b : ~HttpdStopEffect(b)
    BY Zenon DEF PollUpgraded, Reboot, HttpdStopEffect
  <1>2. CASE \/ MainLoop \/ PollReady \/ PollFlashing \/ do_http_upgrade \/ execute_command
             \/ FlashCommand \/ PollDone \/ PollReturn \/ webterm_run_pending_command
             \/ CommandPolls \/ CommandDone \/ PollNoChunk
    <2>1. UNCHANGED <<connVars, history>>
      BY <1>1, <1>2, Zenon
         DEF MainLoop, PollReady, PollFlashing, do_http_upgrade, execute_command,
             FlashCommand, PollDone, PollReturn, webterm_run_pending_command,
             CommandPolls, CommandDone, PollNoChunk
    <2> QED BY <2>1, Zenon DEF connVars, uploadVars, history
  <1>3. CASE httpd_handle_backup_resume
    <2>1. stack # <<>> /\ stack[1].pc = "backup_read"
      BY <1>3, Zenon DEF httpd_handle_backup_resume, At
    <2>2. stack[1] \in PollFrames
      BY <2>1 DEF Sound, OwnerInv
    <2> QED BY <2>1, <2>2, Zenon DEF PollFrames
  <1>4. CASE backup_chunk_next \/ backup_chunk_resume \/ backup_chunk_failed
    <2>1. upload_pending' = upload_pending /\ upload_hs' = upload_hs /\ job' = job
      BY <1>4, Zenon
         DEF backup_chunk_next, backup_chunk_resume, backup_chunk_failed, uploadVars, history
    <2>2. hs_global = NULL /\ ~backup.chunked
      BY <2>1, Zenon DEF Sound, SessionInv, Flow, NoChunk
    <2>3. backup_chunk_resume
      BY <1>4, <2>2, Zenon DEF backup_chunk_next, backup_chunk_failed
    <2> QED BY <2>1, <2>2, <2>3 DEF backup_chunk_resume, uploadVars
  <1> QED BY <1>1, <1>2, <1>3, <1>4, Zenon DEF Poll

\* ... which the steps of RecoverySession tell: what is accepted after a step that
\* accepts nothing was accepted before it.
LEMMA PollAccounted ==
    ASSUME "restart" \notin Cmd, Sound, PendingAccounted, Poll
    PROVE  PendingAccounted'
  <1> SUFFICES ASSUME upload_pending', ~web'.ready, ~Upgrading' PROVE PendingAccounted'
    BY Zenon DEF PendingAccounted
  <1>1. upload_pending /\ UNCHANGED <<hs, upload, upload_hs, job>>
    BY PollPending, Zenon
  <1>2. Step
    BY PollStep, Zenon
  <1>3. phase' = "accepted"
    BY Views, Zenon DEF Accepted
  <1>4. Accepted \/ Armed \/ Upgrading
    BY <1>1, Zenon DEF Accepted, Armed
  <1>5. phase # "armed" /\ phase # "flashing"
    BY <1>2, <1>3, Zenon DEF Step, Recovery!Next, Recovery!Begin, Recovery!Send, Recovery!Accept,
                      Recovery!Arm, Recovery!Flash, Recovery!Finish, Recovery!Abandon
  <1>6. Accepted
    BY <1>4, <1>5, Views, Zenon
  <1> QED BY <1>1, <1>6, Zenon DEF Accepted, PendingAccounted

-----------------------------------------------------------------------------
(* The theorems.                                                           *)

\* Starting the server, stopping it from the console, and nothing at all.
LEMMA OtherImage ==
    ASSUME Sound, ImageInv, HttpdStart \/ HttpdStop \/ UNCHANGED vars
    PROVE  ImageInv' /\ (PendingAccounted => PendingAccounted')
  <1>t. TypeOK /\ web \in Webs
    BY Zenon DEF Sound, TypeOK
  <1>s. stack' = stack
    BY Zenon DEF HttpdStart, HttpdStop, vars
  <1>1. CASE HttpdStop
    <2>1. HttpdStopEffect(FALSE) /\ stack = <<>>
      BY <1>1, Zenon DEF HttpdStop
    <2>2. ~Waits /\ ~Writes
      BY <2>1 DEF Waits, Writes
    <2>3. ImageInv'
      BY <1>s, <1>t, <2>1, <2>2, SameStack, EndedImage, Zenon
    <2>4. ~upload_pending'
      BY <2>1, Zenon DEF HttpdStopEffect
    <2> QED BY <2>3, <2>4, Zenon DEF PendingAccounted
  <1>2. CASE HttpdStart \/ UNCHANGED vars
    <2>1. UNCHANGED <<hs, upload, upload_pending, upload_hs, job>>
      BY <1>2, Zenon DEF HttpdStart, vars, uploadVars, history
    <2>2. web' = web \/ web' = [web EXCEPT !.running = TRUE]
      BY <1>2, Zenon DEF HttpdStart, vars
    <2>3. /\ web'.ready = web.ready /\ web'.type = web.type /\ web'.size = web.size
          /\ web'.status = web.status
      BY <1>t, <2>2, Zenon DEF Webs
    <2>4. Typed'
      BY <2>1, <2>3, SameTyped, Zenon
    <2>5. Armable' <=> Armable
      BY <2>1, Zenon DEF Armable
    <2>6. (Waits' <=> Waits) /\ (Writes' <=> Writes) /\ (Upgrading' <=> Upgrading)
      BY <1>s, SameStack, Zenon
    <2>7. ImageInv'
      BY <2>1, <2>3, <2>4, <2>5, <2>6, ImageKept, Zenon
    <2>8. web'.ready <=> web.ready
      BY <2>3, Zenon
    <2> QED BY <2>1, <2>6, <2>7, <2>8, Zenon DEF PendingAccounted
  <1> QED BY <1>1, <1>2, Zenon

\* A server that was never started has no image.
LEMMA InitImage ==
    ASSUME Init PROVE ImageInv /\ PendingAccounted
  <1>1. /\ hs = [c \in Conn |-> FreeHs] /\ upload = ZeroUpload /\ upload_pending = FALSE
        /\ web = StoppedWeb /\ stack = <<>>
    BY Zenon DEF Init
  <1>2. ~Waits /\ ~Writes
    BY <1>1 DEF Waits, Writes
  <1>3. ~Armable /\ ~upload.data_start_found /\ ~web.ready
    BY <1>1, Zenon DEF Armable, ZeroUpload, StoppedWeb
  <1> QED BY <1>1, <1>2, <1>3, WaitsWrites, Zenon DEF ImageInv, Described, Typed, PendingAccounted

\* The description of the image is an invariant under the conditions of the
\* refinement.
LEMMA ImageInvariant ==
    ASSUME ~ReadPolls, "restart" \notin Cmd PROVE Spec => []ImageInv
  <1>1. Init => ImageInv
    BY InitImage, Zenon
  <1>2. /\ TypeOK /\ OwnerInv /\ SessionInv /\ TransferInv /\ ImageInv
        /\ [Next]_vars
        => ImageInv'
    <2> SUFFICES ASSUME Sound, TransferInv, ImageInv, [Next]_vars PROVE ImageInv'
      BY Zenon DEF Sound
    <2>1. Suspended
      BY Zenon DEF TransferInv
    <2> QED BY <2>1, CallbackImage, PollImage, OtherImage, Zenon DEF Next
  <1> QED BY <1>1, <1>2, TypeCorrect, OwnerInvariant, SessionConsistent, TransferInvariant,
             PTL DEF Spec

\* Under the same conditions the RAM holds the acknowledged image from the moment
\* it is armed until the last flash command, and do_http_upgrade is called with
\* that image's size and type, although every upload writes the same globals.
THEOREM ImageDescribed ==
    ASSUME ~ReadPolls, "restart" \notin Cmd PROVE Spec => []ArmedImage
  <1>1. SessionInv /\ ImageInv => ArmedImage
    <2> SUFFICES ASSUME SessionInv, ImageInv PROVE ArmedImage
      BY Zenon
    <2>1. web.ready \/ Upgrading => /\ ram.use = "upload" /\ ram.sess = job.sess
                                    /\ data_pointer = job.size
      BY Zenon DEF SessionInv, Flow, Held
    <2>2. web.ready \/ Waits => web.size = job.size /\ web.type = job.sess
      BY Zenon DEF ImageInv, Described
    <2> QED BY <2>1, <2>2, Zenon DEF ArmedImage, Waits
  <1> QED BY <1>1, SessionConsistent, ImageInvariant, PTL

\* Under the same conditions upgrade_status is "flashing" for as long as the flash
\* is being written, whatever other clients send or lose in the nested polls.
THEOREM StatusRight ==
    ASSUME ~ReadPolls, "restart" \notin Cmd PROVE Spec => []FlashingReported
  <1>1. ImageInv => FlashingReported
    BY Zenon DEF ImageInv
  <1> QED BY <1>1, ImageInvariant, PTL

\* Under the same conditions, and if httpd_recv can always allocate its copy of a
\* segment, an image that keeps the server busy can still be armed, is armed, or
\* is being flashed.
THEOREM NoImageStranded ==
    ASSUME ~ReadPolls, "restart" \notin Cmd, ~RecvMallocFails
    PROVE  Spec => []PendingAccounted
  <1>1. Init => PendingAccounted
    BY InitImage, Zenon
  <1>2. /\ TypeOK /\ OwnerInv /\ SessionInv /\ TransferInv /\ ImageInv /\ PendingAccounted
        /\ [Next]_vars
        => PendingAccounted'
    <2> SUFFICES ASSUME Sound, TransferInv, ImageInv, PendingAccounted, [Next]_vars
                 PROVE  PendingAccounted'
      BY Zenon DEF Sound
    <2> QED BY CallbackImage, PollAccounted, OtherImage, Zenon DEF Next
  <1> QED BY <1>1, <1>2, TypeCorrect, OwnerInvariant, SessionConsistent, TransferInvariant,
             ImageInvariant, PTL DEF Spec
=============================================================================
