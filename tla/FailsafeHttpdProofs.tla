------------------------ MODULE FailsafeHttpdProofs ------------------------
(***************************************************************************)
(* Proofs about FailsafeHttpd for every value of its constants.            *)
(***************************************************************************)
EXTENDS FailsafeHttpd, TLAPS

-----------------------------------------------------------------------------
(* Types of the values the actions build.                                  *)

\* The record of a freed or a new connection has the type of one.
LEMMA NewHsType == FreeHs \in Hs /\ \A s \in Nat : NewHs(s) \in Hs
  <1>1. <<>> \in Seq(Int)
    OBVIOUS
  <1>2. FreeHs \in Hs
    BY <1>1, Zenon DEF FreeHs, Hs, States
  <1>3. \A s \in Nat : NewHs(s) \in Hs
    BY <1>2, Zenon DEF NewHs, Hs
  <1> QED BY <1>2, <1>3, Zenon

\* An activation built with Frame has the type of one.
LEMMA FrameType ==
    ASSUME NEW pc \in PollPcs
    PROVE  Frame(pc) \in Frames
  BY Zenon DEF Frame, Frames, PollPcs, RxPcs, UpgradePcs

\* What goes to the client is a number.
LEMMA ItemType ==
    ASSUME TypeOK, NEW h \in Hs
    PROVE  Item(h) \in Int
  BY DEF TypeOK, Item, Rams

\* httpd_send_data returns connections.
LEMMA SendType ==
    ASSUME TypeOK, NEW h \in Hs, NEW r \in httpd_send_data(h)
    PROVE  /\ r \in Hs
           /\ r.live = h.live /\ r.owns = h.owns /\ r.state = h.state
  <1>1. Item(h) \in Int
    BY ItemType, Zenon
  <1>2. Append(h.out, Item(h)) \in Seq(Int)
    BY <1>1 DEF Hs
  <1>3. CASE r = h
    BY <1>3, Zenon
  <1>4. CASE r = [h EXCEPT !.unacked = TRUE]
    BY <1>4, Zenon DEF Hs
  <1>5. CASE r = [h EXCEPT !.unacked = TRUE, !.upload = 0,
                           !.out = Append(@, Item(h))]
    BY <1>2, <1>5, Zenon DEF Hs
  <1> QED BY <1>3, <1>4, <1>5, Zenon DEF httpd_send_data

\* httpd_send_static returns connections that answer a request.
LEMMA SendStaticType ==
    ASSUME TypeOK, NEW h \in Hs, NEW r \in httpd_send_static(h)
    PROVE  /\ r \in Hs
           /\ r.live = h.live /\ r.owns = h.owns /\ r.state = "FILE_REQUEST"
  <1> DEFINE g == [h EXCEPT !.state = "FILE_REQUEST", !.dataptr = "static", !.upload = 1]
  <1>1. g \in Hs /\ g.live = h.live /\ g.owns = h.owns /\ g.state = "FILE_REQUEST"
    BY Zenon DEF Hs, States
  <1>2. r \in httpd_send_data(g)
    BY Zenon DEF httpd_send_static
  <1> HIDE DEF g
  <1> QED BY <1>1, <1>2, SendType, Zenon

\* Calls and returns keep the stack a sequence of activations.
LEMMA StackType ==
    ASSUME TypeOK, stack # <<>>
    PROVE  /\ stack[1] \in Frames
           /\ Tail(stack) \in Seq(Frames)
           /\ \A f \in Frames : Goto(f) => stack' \in Seq(Frames)
           /\ \A f \in Frames : RunCommand(f) => stack' \in Seq(Frames)
  <1>1. stack \in Seq(Frames)
    BY Zenon DEF TypeOK
  <1>2. stack[1] \in Frames /\ Tail(stack) \in Seq(Frames)
    BY <1>1
  <1>3. Frame("poll") \in Frames
    BY FrameType, Zenon DEF PollPcs
  <1>4. ASSUME NEW f \in Frames
        PROVE  /\ <<f>> \o Tail(stack) \in Seq(Frames)
               /\ <<Frame("poll"), f>> \o Tail(stack) \in Seq(Frames)
    <2>1. <<f>> \in Seq(Frames) /\ <<Frame("poll"), f>> \in Seq(Frames)
      BY <1>3
    <2> QED BY <1>2, <2>1
  <1> QED BY <1>2, <1>4, Zenon DEF Goto, RunCommand

\* Closing a connection keeps the types, whatever upload it finds.
LEMMA CloseType ==
    ASSUME TypeOK, NEW c \in Conn, NEW g \in Conn \cup {NULL},
           NEW u \in Uploads,
           httpd_state_reset(c, u, g), hs' = [hs EXCEPT ![c] = FreeHs]
    PROVE  /\ hs' \in [Conn -> Hs]
           /\ hs_global' \in Conn \cup {NULL}
           /\ upload' \in Uploads
           /\ boundary_value' \in BOOLEAN
           /\ backup' \in Backups
  <1>1. hs' \in [Conn -> Hs]
    BY NewHsType, Zenon DEF TypeOK
  <1>2. hs_global' \in Conn \cup {NULL}
    BY Zenon DEF httpd_state_reset
  <1>3. upload' \in Uploads
    BY Zenon DEF httpd_state_reset, ZeroUpload, Uploads
  <1>4. boundary_value' \in BOOLEAN
    BY Zenon DEF httpd_state_reset
  <1>5. backup' \in Backups
    BY Zenon DEF TypeOK, httpd_state_reset, NoBackup, Backups
  <1> QED BY <1>1, <1>2, <1>3, <1>4, <1>5, Zenon

\* So does an upload's step, whether it completes the upload or not.
LEMMA CompleteType ==
    ASSUME TypeOK, NEW c \in Conn, NEW h \in Hs, NEW up \in Conn \cup {NULL},
           NEW u \in Uploads,
           NEW w \in Webs,
           NEW g \in Conn \cup {NULL}, NEW bv \in BOOLEAN,
           httpd_check_upload_complete(c, h, u, w, up, g, bv),
           data_pointer' \in Nat,
           ram' \in Rams,
           UNCHANGED <<webterm_cmd, stack, accepts, taken>>
    PROVE  TypeOK'
  <1>1. CASE h.upload >= h.total + Trailer
    <2>1. ResetHs(h) \in Hs
      BY Zenon DEF ResetHs, Hs, States
    <2>2. PICK r \in httpd_send_static(ResetHs(h)) : hs' = [hs EXCEPT ![c] = r]
      BY <1>1, Zenon DEF httpd_check_upload_complete
    <2>3. hs' \in [Conn -> Hs]
      BY <2>1, <2>2, SendStaticType, Zenon DEF TypeOK
    <2>4. /\ upload' = [ZeroUpload EXCEPT !.done = TRUE, !.failed = u.failed]
          /\ upload_hs' = IF u.failed THEN up ELSE c
          /\ web' = [w EXCEPT !.status = "verifying", !.size = h.total]
          /\ job' = IF u.failed THEN job ELSE [sess |-> h.sess, size |-> h.total]
          /\ hs_global' = NULL /\ backup' = NoBackup
      BY <1>1, Zenon DEF httpd_check_upload_complete
    <2>5. upload_pending' \in BOOLEAN /\ boundary_value' \in BOOLEAN
      BY <1>1, Zenon DEF httpd_check_upload_complete
    <2>6. upload' \in Uploads
      BY <2>4, Zenon DEF ZeroUpload, Uploads
    <2>7. web' \in Webs
      BY <2>4, Zenon DEF Hs, Webs
    <2>8. job' \in Jobs /\ upload_hs' \in Conn \cup {NULL}
      BY <2>4, Zenon DEF TypeOK, Hs, Jobs
    <2> QED BY <2>3, <2>4, <2>5, <2>6, <2>7, <2>8, Zenon DEF TypeOK, NoBackup, Backups
  <1>2. CASE ~(h.upload >= h.total + Trailer)
    BY <1>2, Zenon DEF httpd_check_upload_complete, TypeOK
  <1> QED BY <1>1, <1>2, Zenon

\* Arming an image while its connection closes keeps the types.
LEMMA ArmType ==
    ASSUME TypeOK, NEW c \in Conn, ArmAndClose(c)
    PROVE  TypeOK'
  <1> DEFINE u == IF Arming(c)
                  THEN [upload EXCEPT !.done = FALSE, !.failed = FALSE]
                  ELSE upload
  <1>1. /\ web' = [web EXCEPT !.ready = @ \/ (Arming(c) /\ ~upload.failed)]
        /\ upload_hs' = IF Arming(c) THEN NULL ELSE upload_hs
        /\ httpd_state_reset(c, u, hs_global)
        /\ hs' = [hs EXCEPT ![c] = FreeHs]
        /\ UNCHANGED <<upload_pending, data_pointer, webterm_cmd, stack, accepts,
                       ram, job, taken>>
    BY Zenon DEF ArmAndClose, httpd_close_conn, history
  <1>2. u \in Uploads
    BY Zenon DEF TypeOK, Uploads
  <1>3. hs_global \in Conn \cup {NULL}
    BY Zenon DEF TypeOK
  <1>4. web' \in Webs
    <2>1. (web.ready \/ (Arming(c) /\ ~upload.failed)) \in BOOLEAN
      BY Zenon
    <2> DEFINE b == web.ready \/ (Arming(c) /\ ~upload.failed)
    <2>2. b \in BOOLEAN /\ web' = [web EXCEPT !.ready = b]
      BY <1>1, <2>1, Zenon
    <2> HIDE DEF b
    <2> QED BY <2>2, Zenon DEF TypeOK, Webs
  <1> HIDE DEF u
  <1>5. /\ hs' \in [Conn -> Hs] /\ hs_global' \in Conn \cup {NULL}
        /\ upload' \in Uploads /\ boundary_value' \in BOOLEAN /\ backup' \in Backups
    BY <1>1, <1>2, <1>3, CloseType, Zenon
  <1>6. upload_hs' \in Conn \cup {NULL}
    BY <1>1, Zenon DEF TypeOK
  <1> QED BY <1>1, <1>4, <1>5, <1>6, Zenon DEF TypeOK

\* So does losing a connection.
LEMMA DiscardType ==
    ASSUME TypeOK, NEW c \in Conn, DiscardAndClose(c)
    PROVE  TypeOK'
  <1> DEFINE u == IF upload_hs = c
                  THEN [upload EXCEPT !.done = FALSE, !.failed = FALSE]
                  ELSE upload
             g == IF hs_global = c THEN NULL ELSE hs_global
  <1>1. /\ upload_pending' = (upload_pending /\ ~(upload_hs = c))
        /\ upload_hs' = IF upload_hs = c THEN NULL ELSE upload_hs
        /\ web' = [web EXCEPT !.status = IF upload_hs = c THEN "idle" ELSE @]
        /\ httpd_state_reset(c, u, g)
        /\ hs' = [hs EXCEPT ![c] = FreeHs]
        /\ UNCHANGED <<data_pointer, webterm_cmd, stack, accepts, ram, job, taken>>
    BY Zenon DEF DiscardAndClose, history
  <1>2. u \in Uploads /\ g \in Conn \cup {NULL}
    BY Zenon DEF TypeOK, Uploads
  <1> HIDE DEF u, g
  <1>3. /\ hs' \in [Conn -> Hs] /\ hs_global' \in Conn \cup {NULL}
        /\ upload' \in Uploads /\ boundary_value' \in BOOLEAN /\ backup' \in Backups
    BY <1>1, <1>2, CloseType, Zenon
  <1>4. upload_hs' \in Conn \cup {NULL} /\ web' \in Webs
    BY <1>1, Zenon DEF TypeOK, Webs
  <1>5. upload_pending' \in BOOLEAN
    BY <1>1, Zenon
  <1> QED BY <1>1, <1>3, <1>4, <1>5, Zenon DEF TypeOK

\* So does an answer from a static buffer.
LEMMA RespondType ==
    ASSUME TypeOK, NEW c \in Conn, Respond(c), webterm_cmd' \in Cmd \cup {"none"}
    PROVE  TypeOK'
  <1> DEFINE h == [hs[c] EXCEPT !.idle = FALSE]
  <1>1. h \in Hs
    BY ZenonT(60) DEF TypeOK, Hs
  <1>2. PICK r \in httpd_send_static(h) : hs' = [hs EXCEPT ![c] = r]
    BY Zenon DEF Respond
  <1> HIDE DEF h
  <1>3. hs' \in [Conn -> Hs]
    BY <1>1, <1>2, SendStaticType, Zenon DEF TypeOK
  <1> QED BY <1>3, Zenon DEF Respond, TypeOK, uploadVars, ownerVars, history

\* So do both ends of a backup's first read.
LEMMA StartBackupType ==
    ASSUME TypeOK, NEW c \in Conn, NEW st \in Seq(Frames), NEW k \in Nat \ {0},
           StartBackup(c, k, st), taken' \in BOOLEAN
    PROVE  TypeOK'
  <1> DEFINE h == [hs[c] EXCEPT !.state = "FILE_REQUEST", !.owns = TRUE, !.upload = 1,
                                !.dataptr = "header", !.idle = FALSE]
  <1>1. h \in Hs
    <2>1. hs[c] \in Hs
      BY Zenon DEF TypeOK
    <2> QED BY <2>1, Zenon DEF Hs, States
  <1>2. PICK r \in httpd_send_data(h) : hs' = [hs EXCEPT ![c] = r]
    BY Zenon DEF StartBackup
  <1> HIDE DEF h
  <1>3. hs' \in [Conn -> Hs]
    BY <1>1, <1>2, SendType, Zenon DEF TypeOK
  <1>4. ram' \in Rams
    BY Zenon DEF StartBackup, TypeOK, Rams, Hs
  <1>5. backup' \in Backups
    <2> DEFINE n == IF k # 1 THEN 2 ELSE backup.chunk_num
    <2>1. backup \in Backups /\ n \in Nat /\ k - 1 \in Nat
      BY DEF TypeOK, Backups
    <2>2. (k # 1) \in BOOLEAN
      BY Zenon
    <2>3. ASSUME NEW b \in BOOLEAN, NEW m \in Nat, NEW l \in Nat
          PROVE  [backup EXCEPT !.data_size = 1, !.sending_header = TRUE,
                                !.chunked = b, !.remaining = m, !.chunk_num = l]
                    \in Backups
      BY <2>1, Zenon DEF Backups
    <2>4. [backup EXCEPT !.data_size = 1, !.sending_header = TRUE, !.chunked = (k # 1),
                         !.remaining = k - 1, !.chunk_num = n] \in Backups
      BY <2>1, <2>2, <2>3, Zenon
    <2> QED BY <2>4, Zenon DEF StartBackup
  <1>6. hs_global' \in Conn \cup {NULL} /\ stack' \in Seq(Frames)
    BY Zenon DEF StartBackup
  <1> QED BY <1>3, <1>4, <1>5, <1>6, Zenon DEF StartBackup, TypeOK, uploadVars

\* A failed first read keeps the types.
LEMMA FailBackupType ==
    ASSUME TypeOK, NEW c \in Conn, NEW st \in Seq(Frames), FailBackup(c, st),
           taken' \in BOOLEAN
    PROVE  TypeOK'
  <1> DEFINE h == [hs[c] EXCEPT !.idle = FALSE]
  <1>1. h \in Hs
    BY ZenonT(60) DEF TypeOK, Hs
  <1>2. PICK r \in httpd_send_static(h) : hs' = [hs EXCEPT ![c] = r]
    BY Zenon DEF FailBackup
  <1> HIDE DEF h
  <1>3. hs' \in [Conn -> Hs]
    BY <1>1, <1>2, SendStaticType, Zenon DEF TypeOK
  <1>4. ram' \in Rams
    BY Zenon DEF FailBackup, TypeOK, Rams, Hs
  <1> QED BY <1>3, <1>4, Zenon DEF FailBackup, TypeOK, uploadVars, ownerVars

\* So do stopping the server ...
LEMMA StopType ==
    ASSUME TypeOK, NEW b \in BOOLEAN, HttpdStopEffect(b),
           webterm_cmd' \in Cmd \cup {"none"}, stack' \in Seq(Frames)
    PROVE  TypeOK'
  <1>1. hs' \in [Conn -> Hs]
    BY NewHsType, Zenon DEF HttpdStopEffect
  <1>2. upload' \in Uploads /\ backup' \in Backups
    BY Zenon DEF HttpdStopEffect, ZeroUpload, Uploads, NoBackup, Backups
  <1>3. web' \in Webs
    BY Zenon DEF HttpdStopEffect, StoppedWeb, Webs, TypeOK
  <1> QED BY <1>1, <1>2, <1>3, Zenon DEF HttpdStopEffect, TypeOK, history

\* ... and restarting the device.
LEMMA RebootType ==
    ASSUME TypeOK, Reboot
    PROVE  TypeOK'
  <1>1. hs' \in [Conn -> Hs]
    BY NewHsType, Zenon DEF Reboot
  <1>2. upload' \in Uploads /\ backup' \in Backups
    BY Zenon DEF Reboot, ZeroUpload, Uploads, NoBackup, Backups
  <1>3. web' \in Webs /\ ram' \in Rams /\ job' \in Jobs
    BY Zenon DEF Reboot, StoppedWeb, Webs, NoRam, Rams, NoJob, Jobs
  <1>4. stack' \in Seq(Frames)
    BY DEF Reboot
  <1> QED BY <1>1, <1>2, <1>3, <1>4, Zenon DEF Reboot, TypeOK

\* What the first segment with data makes of a connection, of upload, of the
\* data pointer and of web.
LEMMA FirstType ==
    ASSUME TypeOK, NEW c \in Conn, NEW h \in Hs, NEW u \in Uploads,
           NEW t \in 1..MaxData, NEW n \in 0..MaxPacket, NEW reboot \in BOOLEAN
    PROVE  /\ FirstHs(h, t, n) \in Hs
           /\ FirstUpload(u, t, n) \in Uploads
           /\ FirstPointer(t, n) \in Nat
           /\ FirstWeb(c, reboot) \in Webs
  <1>1. t \in Nat /\ n \in Nat
    BY BoundAssumption
  <1>2. FirstHs(h, t, n) \in Hs
    BY <1>1, Zenon DEF FirstHs, Hs
  <1>3. FirstPointer(t, n) \in Nat
    BY <1>1, Zenon DEF FirstPointer, Least
  <1>4. FirstUpload(u, t, n) \in Uploads
    <2> DEFINE b == u.failed \/ t > SizeLimit \/ Least(n, t) > RamUnits
    <2>1. b \in BOOLEAN
      BY Zenon
    <2>2. FirstUpload(u, t, n) = [u EXCEPT !.data_start_found = TRUE, !.failed = b]
      BY Zenon DEF FirstUpload
    <2> HIDE DEF b
    <2> QED BY <2>1, <2>2, Zenon DEF Uploads
  <1>5. FirstWeb(c, reboot) \in Webs
    <2>1. web \in Webs /\ hs[c].sess \in Nat
      BY Zenon DEF TypeOK, Hs
    <2> QED BY <2>1, Zenon DEF FirstWeb, Webs
  <1> QED BY <1>2, <1>3, <1>4, <1>5, Zenon

\* Every lwIP callback keeps the types.
LEMMA TypeCallback ==
    ASSUME TypeOK, NEW c \in Conn, Callback(c)
    PROVE  TypeOK'
  <1>hs. hs[c] \in Hs /\ hs \in [Conn -> Hs] /\ stack \in Seq(Frames)
    BY Zenon DEF TypeOK
  <1>u. upload \in Uploads /\ ZeroUpload \in Uploads
    BY Zenon DEF TypeOK, ZeroUpload, Uploads
  <1>1. CASE httpd_accept(c)
    <2>1. hs' \in [Conn -> Hs] /\ accepts' \in Nat
      BY <1>1, NewHsType DEF httpd_accept, TypeOK
    <2> QED BY <1>1, <2>1, Zenon DEF httpd_accept, TypeOK, uploadVars, ownerVars, history
  <1>2. CASE httpd_recv_close(c)
    BY <1>2, ArmType, Zenon DEF httpd_recv_close
  <1>3. ASSUME httpd_close_conn(c, upload),
               web' = web,
               UNCHANGED <<upload_pending, upload_hs, data_pointer, webterm_cmd,
                           stack, accepts, history>>
        PROVE  TypeOK'
    <2>1. /\ hs' \in [Conn -> Hs] /\ hs_global' \in Conn \cup {NULL}
          /\ upload' \in Uploads /\ boundary_value' \in BOOLEAN /\ backup' \in Backups
      BY <1>3, <1>u, CloseType, Zenon DEF httpd_close_conn, TypeOK
    <2> QED BY <1>3, <2>1, Zenon DEF TypeOK, history
  <1>4. CASE httpd_recv_nomem(c) \/ httpd_recv_abort(c)
    BY <1>4, <1>3, Zenon DEF httpd_recv_nomem, httpd_recv_abort
  <1>5. CASE httpd_recv_static(c) \/ httpd_recv_busy(c)
    BY <1>5, RespondType, Zenon DEF httpd_recv_static, httpd_recv_busy, TypeOK
  <1>6. CASE \E cmd \in Cmd : webterm_execute_command(c, cmd)
    BY <1>6, RespondType, Zenon DEF webterm_execute_command
  <1>7. CASE httpd_recv_ignored(c) \/ IdleTime(c)
    <2>1. hs' \in [Conn -> Hs]
      <3>1. \A b \in BOOLEAN : [hs[c] EXCEPT !.idle = b] \in Hs
        BY <1>hs, Zenon DEF Hs
      <3>2. \E b \in BOOLEAN : hs' = [hs EXCEPT ![c] = [hs[c] EXCEPT !.idle = b]]
        BY <1>7, <1>hs, Zenon DEF httpd_recv_ignored, IdleTime
      <3> QED BY <3>1, <3>2, <1>hs, Zenon
    <2> QED BY <1>7, <2>1, Zenon DEF httpd_recv_ignored, IdleTime, TypeOK, uploadVars,
                              ownerVars, history
  <1>8. CASE httpd_recv_post_badlength(c)
    <2>1. /\ hs' \in [Conn -> Hs] /\ hs_global' \in Conn \cup {NULL}
          /\ upload' \in Uploads /\ boundary_value' \in BOOLEAN /\ backup' \in Backups
      BY <1>8, <1>u, CloseType, Zenon DEF httpd_recv_post_badlength, httpd_close_conn, TypeOK
    <2> QED BY <1>8, <2>1, Zenon DEF httpd_recv_post_badlength, TypeOK, history
  <1>9. CASE httpd_recv_post_rejected(c)
    <2>1. hs' \in [Conn -> Hs] /\ backup' \in Backups /\ upload' \in Uploads
      BY <1>9, <1>hs, <1>u, NewHsType, Zenon DEF httpd_recv_post_rejected, NoBackup, Backups
    <2>2. web' \in Webs /\ ram' \in Rams /\ data_pointer' \in Nat
      <3>1. CASE UNCHANGED <<web, ram, data_pointer>>
        BY <3>1, Zenon DEF TypeOK
      <3>2. ASSUME NEW reboot \in BOOLEAN, web' = FirstWeb(c, reboot),
                   ram' = [use |-> "upload", sess |-> hs[c].sess, n |-> 0],
                   data_pointer' = 0
            PROVE  web' \in Webs /\ ram' \in Rams /\ data_pointer' \in Nat
        <4>1. web \in Webs /\ hs[c].sess \in Nat
          BY <1>hs, Zenon DEF TypeOK, Hs
        <4> QED BY <3>2, <4>1, Zenon DEF FirstWeb, Webs, Rams
      <3> QED BY <1>9, <3>1, <3>2, Zenon DEF httpd_recv_post_rejected
    <2> QED BY <1>9, <2>1, <2>2, Zenon DEF httpd_recv_post_rejected, TypeOK
  <1>10. CASE httpd_recv_post(c)
    <2> DEFINE h == [hs[c] EXCEPT !.state = "UPLOAD_REQUEST", !.owns = TRUE, !.idle = FALSE]
    <2>1. h \in Hs
      BY <1>hs, Zenon DEF Hs, States
    <2>2. ram' \in Rams
      BY <1>10, <1>hs, Zenon DEF httpd_recv_post, Rams, Hs
    <2>3. /\ \/ \E t \in 1..MaxData, n \in 0..MaxPacket, reboot \in BOOLEAN :
                   /\ data_pointer' = FirstPointer(t, n)
                   /\ httpd_check_upload_complete(c, FirstHs(h, t, n),
                         FirstUpload(ZeroUpload, t, n), FirstWeb(c, reboot), NULL, c, TRUE)
             \/ /\ NoFirstChunk(c, ZeroUpload)
                /\ hs' = [hs EXCEPT ![c] = h]
                /\ upload_hs' = NULL
                /\ hs_global' = c
                /\ boundary_value' = TRUE
                /\ data_pointer' = 0
                /\ UNCHANGED <<upload_pending, backup, job>>
          /\ UNCHANGED <<webterm_cmd, stack, accepts, taken>>
      BY <1>10, Zenon DEF httpd_recv_post
    <2> HIDE DEF h
    <2>4. ASSUME NEW t \in 1..MaxData, NEW n \in 0..MaxPacket, NEW reboot \in BOOLEAN,
                 data_pointer' = FirstPointer(t, n),
                 httpd_check_upload_complete(c, FirstHs(h, t, n),
                    FirstUpload(ZeroUpload, t, n), FirstWeb(c, reboot), NULL, c, TRUE)
          PROVE  TypeOK'
      <3>1. /\ FirstHs(h, t, n) \in Hs /\ FirstUpload(ZeroUpload, t, n) \in Uploads
            /\ data_pointer' \in Nat /\ FirstWeb(c, reboot) \in Webs
        BY <2>1, <2>4, <1>u, FirstType, Zenon
      <3> QED BY <2>2, <2>3, <2>4, <3>1, CompleteType, Zenon
    <2>5. ASSUME NoFirstChunk(c, ZeroUpload), hs' = [hs EXCEPT ![c] = h],
                 upload_hs' = NULL, hs_global' = c, boundary_value' = TRUE,
                 data_pointer' = 0, UNCHANGED <<upload_pending, backup, job>>
          PROVE  TypeOK'
      <3>1. hs' \in [Conn -> Hs]
        BY <2>1, <2>5, <1>hs, Zenon
      <3>2. upload' \in Uploads /\ web' \in Webs
        <4>1. CASE upload' = ZeroUpload /\ web' = web
          BY <4>1, <1>u, Zenon DEF TypeOK
        <4>2. ASSUME NEW reboot \in BOOLEAN, NEW f \in {ZeroUpload.failed, TRUE},
                     upload' = [ZeroUpload EXCEPT !.failed = f],
                     web' = FirstWeb(c, reboot)
              PROVE  upload' \in Uploads /\ web' \in Webs
          <5>1. web \in Webs /\ hs[c].sess \in Nat
            BY <1>hs, Zenon DEF TypeOK, Hs
          <5>2. f \in BOOLEAN
            BY Zenon DEF ZeroUpload
          <5> QED BY <4>2, <5>1, <5>2, <1>u, Zenon DEF FirstWeb, Webs, Uploads
        <4> QED BY <2>5, <4>1, <4>2, Zenon DEF NoFirstChunk
      <3> QED BY <2>2, <2>3, <2>5, <3>1, <3>2, Zenon DEF TypeOK
    <2> QED BY <2>3, <2>4, <2>5, Zenon
  <1>11. CASE httpd_recv_first(c)
    <2> DEFINE h == [hs[c] EXCEPT !.idle = FALSE]
    <2>1. h \in Hs
      BY <1>hs, Zenon DEF Hs
    <2>2. UNCHANGED <<webterm_cmd, stack, accepts, ram, taken>>
      BY <1>11, Zenon DEF httpd_recv_first
    <2>3. PICK t \in 1..MaxData, n \in 0..MaxPacket, reboot \in BOOLEAN :
             /\ data_pointer' = FirstPointer(t, n)
             /\ httpd_check_upload_complete(c, FirstHs(h, t, n),
                   FirstUpload(upload, t, n), FirstWeb(c, reboot),
                   upload_hs, hs_global, boundary_value)
      BY <1>11, Zenon DEF httpd_recv_first
    <2> HIDE DEF h
    <2>4. /\ FirstHs(h, t, n) \in Hs /\ FirstUpload(upload, t, n) \in Uploads
          /\ data_pointer' \in Nat /\ FirstWeb(c, reboot) \in Webs
      BY <2>1, <2>3, <1>u, FirstType, Zenon
    <2>5. upload_hs \in Conn \cup {NULL} /\ hs_global \in Conn \cup {NULL} /\ ram' \in Rams
      BY <2>2, Zenon DEF TypeOK
    <2>6. boundary_value \in BOOLEAN
      BY Zenon DEF TypeOK
    <2> QED BY <2>2, <2>3, <2>4, <2>5, <2>6, CompleteType, ZenonT(60)
  <1>12. CASE httpd_recv_nofirst(c)
    <2>1. ASSUME NEW u \in Uploads, httpd_close_conn(c, u)
          PROVE  /\ hs' \in [Conn -> Hs] /\ hs_global' \in Conn \cup {NULL}
                 /\ upload' \in Uploads /\ boundary_value' \in BOOLEAN
                 /\ backup' \in Backups
      BY <2>1, CloseType, Zenon DEF httpd_close_conn, TypeOK
    <2>2. /\ \E u \in Uploads : httpd_close_conn(c, u)
          /\ web' \in Webs
      <3>1. CASE UNCHANGED web /\ httpd_close_conn(c, upload)
        BY <3>1, <1>u, Zenon DEF TypeOK
      <3>2. ASSUME NEW reboot \in BOOLEAN, NEW f \in {upload.failed, TRUE},
                   web' = FirstWeb(c, reboot),
                   httpd_close_conn(c, [upload EXCEPT !.failed = f])
            PROVE  /\ \E u \in Uploads : httpd_close_conn(c, u)
                   /\ web' \in Webs
        <4>1. web \in Webs /\ hs[c].sess \in Nat
          BY <1>hs, Zenon DEF TypeOK, Hs
        <4>2. f \in BOOLEAN
          BY <1>u, Zenon DEF Uploads
        <4>3. [upload EXCEPT !.failed = f] \in Uploads
          BY <4>2, <1>u, Zenon DEF Uploads
        <4>4. web' \in Webs
          BY <3>2, <4>1, Zenon DEF FirstWeb, Webs
        <4> QED BY <3>2, <4>3, <4>4, Zenon
      <3> QED BY <1>12, <3>1, <3>2, Zenon DEF httpd_recv_nofirst
    <2>3. UNCHANGED <<upload_pending, upload_hs, data_pointer, webterm_cmd, stack,
                      accepts, ram, job, taken>>
      BY <1>12, Zenon DEF httpd_recv_nofirst, history
    <2> QED BY <2>1, <2>2, <2>3, Zenon DEF TypeOK
  <1>13. CASE httpd_recv_data(c)
    <2>1. PICK n \in 1..MaxPacket :
          LET h == [hs[c] EXCEPT !.idle = FALSE, !.upload = @ + n, !.got = @ + n]
              store == Least(n, h.total - data_pointer)
              over == data_pointer > h.total
              full == data_pointer + store > RamUnits
          IN  /\ data_pointer' = IF upload.failed \/ over \/ full THEN data_pointer
                                 ELSE data_pointer + store
              /\ httpd_check_upload_complete(c, h,
                    [upload EXCEPT !.failed = @ \/ over \/ full],
                    web, upload_hs, hs_global, boundary_value)
      BY <1>13, Zenon DEF httpd_recv_data
    <2> DEFINE h == [hs[c] EXCEPT !.idle = FALSE, !.upload = @ + n, !.got = @ + n]
               store == Least(n, h.total - data_pointer)
               over == data_pointer > h.total
               full == data_pointer + store > RamUnits
               b == upload.failed \/ over \/ full
               u == [upload EXCEPT !.failed = b]
    <2>2. n \in Nat
      BY BoundAssumption
    <2>3. h \in Hs /\ h.total \in Nat
      <3> DEFINE up == hs[c].upload + n
                 got == hs[c].got + n
      <3>1. up \in Nat /\ got \in Nat
        BY <2>2, <1>hs DEF Hs
      <3>2. h = [hs[c] EXCEPT !.idle = FALSE, !.upload = up, !.got = got]
        BY Zenon
      <3> HIDE DEF up, got, h
      <3>3. h \in Hs
        BY <3>1, <3>2, <1>hs, Zenon DEF Hs
      <3> QED BY <3>3, Zenon DEF Hs
    <2>4. /\ data_pointer' = IF b THEN data_pointer ELSE data_pointer + store
          /\ httpd_check_upload_complete(c, h, u, web, upload_hs, hs_global, boundary_value)
      BY <2>1, Zenon
    <2>5. b \in BOOLEAN
      BY Zenon
    <2>6. data_pointer \in Nat /\ (~b => store \in Nat)
      <3> HIDE DEF h
      <3> QED BY <2>2, <2>3 DEF TypeOK, Least
    <2>7. data_pointer' \in Nat
      <3> HIDE DEF store, b
      <3> QED BY <2>4, <2>6
    <2>8. u \in Uploads
      <3> HIDE DEF b
      <3> QED BY <2>5, <1>u, Zenon DEF Uploads
    <2>9. /\ UNCHANGED <<webterm_cmd, stack, accepts, taken>>
          /\ ram' \in Rams /\ web \in Webs
          /\ upload_hs \in Conn \cup {NULL} /\ hs_global \in Conn \cup {NULL}
      BY <1>13, Zenon DEF httpd_recv_data, TypeOK
    <2>10. boundary_value \in BOOLEAN
      BY Zenon DEF TypeOK
    <2> HIDE DEF h, u
    <2> QED BY <2>3, <2>4, <2>7, <2>8, <2>9, <2>10, CompleteType, ZenonT(60)
  <1>14. CASE httpd_handle_backup(c)
    <2>1. taken' \in BOOLEAN
      BY <1>14, Zenon DEF httpd_handle_backup, TypeOK
    <2> QED BY <1>14, <2>1, <1>hs, StartBackupType, FailBackupType, BoundAssumption
            DEF httpd_handle_backup
  <1>15. CASE httpd_handle_backup_read(c)
    <2> DEFINE f == [Frame("backup_read") EXCEPT !.hs = c, !.n = hs[c].sess]
    <2>1. Frame("poll") \in Frames /\ f \in Frames
      BY <1>hs, Zenon DEF Frame, Frames, PollPcs, Hs
    <2> HIDE DEF f
    <2>2. <<Frame("poll"), f>> \o stack \in Seq(Frames)
      BY <2>1, <1>hs
    <2>3. stack' \in Seq(Frames)
      BY <1>15, <2>2, Zenon DEF httpd_handle_backup_read, f
    <2> QED BY <1>15, <2>3, Zenon DEF httpd_handle_backup_read, TypeOK, uploadVars,
                               ownerVars, history
  <1>16. ASSUME NEW more \in BOOLEAN PROVE SentHs(c, more) \in Hs
    <2>1. backup.data_size \in Nat
      BY DEF TypeOK, Backups
    <2> QED BY <2>1, <1>hs, ZenonT(60) DEF SentHs, Hs, States
  <1>17. SentBackup(c) \in Backups
    <2> DEFINE b == backup.sending_header /\ ~HeaderDone(c)
    <2>1. b \in BOOLEAN /\ SentBackup(c) = [backup EXCEPT !.sending_header = b]
      BY Zenon DEF SentBackup
    <2>2. backup \in Backups
      BY Zenon DEF TypeOK
    <2> HIDE DEF b
    <2> QED BY <2>1, <2>2, Zenon DEF Backups
  <1>18. CASE httpd_sent_more(c)
    <2>1. hs' \in [Conn -> Hs]
      BY <1>18, <1>16, <1>hs, SendType DEF httpd_sent_more
    <2> QED BY <1>18, <2>1, <1>17, Zenon DEF httpd_sent_more, TypeOK, uploadVars, history
  <1>19. CASE httpd_sent_chunk(c)
    <2>1. hs' \in [Conn -> Hs]
      BY <1>19, <1>16, <1>hs, Zenon DEF httpd_sent_chunk
    <2>2. backup' \in Backups
      BY <1>19, <1>17, Zenon DEF httpd_sent_chunk, Backups
    <2> QED BY <1>19, <2>1, <2>2, Zenon DEF httpd_sent_chunk, TypeOK, uploadVars, history
  <1>20. CASE httpd_sent_close(c)
    BY <1>20, ArmType, Zenon DEF httpd_sent_close
  <1>21. CASE httpd_err(c) \/ httpd_poll_cb_timeout(c)
    BY <1>21, DiscardType, Zenon DEF httpd_err, httpd_poll_cb_timeout
  <1>22. CASE httpd_poll_cb_send(c)
    <2>1. hs' \in [Conn -> Hs]
      BY <1>22, <1>hs, SendType, Zenon DEF httpd_poll_cb_send
    <2> QED BY <1>22, <2>1, Zenon DEF httpd_poll_cb_send, TypeOK, uploadVars, ownerVars, history
  <1> QED BY <1>1, <1>2, <1>4, <1>5, <1>6, <1>7, <1>8, <1>9, <1>10, <1>11, <1>12,
             <1>13, <1>14, <1>15, <1>18, <1>19, <1>20, <1>21, <1>22, Zenon DEF Callback

\* Every step of the poll loop keeps the types.
LEMMA TypePoll ==
    ASSUME TypeOK, Poll
    PROVE  TypeOK'
  <1>st. ASSUME stack # <<>>
         PROVE  /\ stack[1] \in Frames
                /\ Tail(stack) \in Seq(Frames)
                /\ \A f \in Frames : Goto(f) => stack' \in Seq(Frames)
                /\ \A f \in Frames : RunCommand(f) => stack' \in Seq(Frames)
    BY <1>st, StackType, Zenon
  <1>fr. \A pc \in PollPcs : Frame(pc) \in Frames
    BY FrameType, Zenon
  <1>go. ASSUME stack # <<>>, NEW pc \in PollPcs, Goto(Frame(pc))
         PROVE  stack' \in Seq(Frames)
    BY <1>go, <1>st, <1>fr, Zenon
  <1>w. web \in Webs /\ stack \in Seq(Frames) /\ upload \in Uploads /\ backup \in Backups
    BY Zenon DEF TypeOK
  <1>n. ASSUME stack # <<>>, NEW pc \in PollPcs, NEW m \in Nat
        PROVE  /\ stack[1].n \in Nat
               /\ stack[1].n + 1 \in Nat
               /\ [Frame(pc) EXCEPT !.n = m] \in Frames
    <2>1. stack[1].n \in Nat
      BY <1>n, <1>st, Zenon DEF Frames
    <2>2. Frame(pc) \in Frames
      BY <1>fr, Zenon
    <2>3. [Frame(pc) EXCEPT !.n = m] \in Frames
      BY <2>2, Zenon DEF Frames
    <2> QED BY <2>1, <2>3
  \* Steps that change nothing but the stack.
  <1>only. ASSUME stack' \in Seq(Frames),
                  UNCHANGED <<connVars, web, webterm_cmd, history>>
           PROVE  TypeOK'
    BY <1>only, Zenon DEF TypeOK, connVars, uploadVars, ownerVars, history
  <1>1. CASE httpd_handle_backup_resume
    <2>1. stack[1].hs \in Conn /\ Tail(stack) \in Seq(Frames)
      BY <1>1, <1>st, Zenon DEF httpd_handle_backup_resume, At, Frames
    <2>2. \/ StartBackup(stack[1].hs, 1, Tail(stack))
          \/ FailBackup(stack[1].hs, Tail(stack))
      BY <1>1, Zenon DEF httpd_handle_backup_resume
    <2>3. 1 \in Nat \ {0}
      OBVIOUS
    <2>4. taken' \in BOOLEAN
      BY <1>1, Zenon DEF httpd_handle_backup_resume, TypeOK
    <2> QED BY <2>1, <2>2, <2>3, <2>4, StartBackupType, FailBackupType, Zenon
  <1>2. CASE MainLoop
    <2>1. <<Frame("poll")>> \in Seq(Frames)
      BY <1>fr DEF PollPcs
    <2> QED BY <1>2, <2>1, <1>only, Zenon DEF MainLoop
  <1>3. CASE PollReturn
    BY <1>3, <1>st, <1>only, Zenon DEF PollReturn, Return, At
  <1>4. CASE PollReady
    <2>1. stack' \in Seq(Frames)
      BY <1>4, <1>go, Zenon DEF PollReady, At, PollPcs, UpgradePcs
    <2>2. web' \in Webs
      BY <1>4, <1>w, Zenon DEF PollReady, Webs
    <2> QED BY <1>4, <2>1, <2>2, Zenon DEF PollReady, TypeOK, connVars, uploadVars, ownerVars,
                                    history
  <1>5. CASE PollFlashing
    <2>1. stack' \in Seq(Frames)
      BY <1>5, <1>go, Zenon DEF PollFlashing, At, PollPcs, UpgradePcs
    <2>2. web' \in Webs
      BY <1>5, <1>w, Zenon DEF PollFlashing, Webs
    <2> QED BY <1>5, <2>1, <2>2, Zenon DEF PollFlashing, TypeOK, connVars, uploadVars,
                                    ownerVars, history
  <1>6. CASE do_http_upgrade
    BY <1>6, <1>go, <1>only, Zenon DEF do_http_upgrade, At, PollPcs, UpgradePcs
  <1>7. CASE execute_command
    <2>1. stack # <<>> /\ stack[1].n \in Nat
      BY <1>7, <1>st, Zenon DEF execute_command, At, Frames
    <2>2. [Frame("flash_cmd") EXCEPT !.n = stack[1].n + 1] \in Frames
      BY <2>1, <1>n, Zenon DEF PollPcs, UpgradePcs
    <2> QED BY <1>7, <2>1, <2>2, <1>st, <1>only, Zenon DEF execute_command
  <1>8. CASE FlashCommand
    <2>1. stack # <<>> /\ stack[1].n \in Nat
      BY <1>8, <1>st, Zenon DEF FlashCommand, At, Frames
    <2>2. [Frame("flash") EXCEPT !.n = stack[1].n] \in Frames
      BY <2>1, <1>n, Zenon DEF PollPcs, UpgradePcs
    <2> QED BY <1>8, <2>1, <2>2, <1>st, <1>only, Zenon DEF FlashCommand
  <1>9. ASSUME NEW ok \in BOOLEAN, PollUpgraded(ok) PROVE TypeOK'
    <2>1. stack' \in Seq(Frames)
      BY <1>9, <1>go, Zenon DEF PollUpgraded, At, PollPcs, RxPcs
    <2>2. web' \in Webs
      BY <1>9, <1>w, Zenon DEF PollUpgraded, Webs
    <2> QED BY <1>9, <2>1, <2>2, Zenon DEF PollUpgraded, TypeOK, ownerVars, history
  <1>10. CASE PollDone
    BY <1>10, <1>st, <1>only, RebootType, Zenon DEF PollDone, Return, At
  <1>11. CASE webterm_run_pending_command
    <2>1. stack' \in Seq(Frames)
      <3>1. stack # <<>>
        BY <1>11, Zenon DEF webterm_run_pending_command, At
      <3>2. [Frame("cmd") EXCEPT !.cmd = webterm_cmd, !.n = 1] \in Frames
        BY Zenon DEF TypeOK, Frame, Frames, PollPcs, RxPcs
      <3> QED BY <1>11, <3>1, <3>2, <1>go, <1>st, Zenon DEF webterm_run_pending_command, PollPcs
    <2> QED BY <1>11, <2>1, Zenon DEF webterm_run_pending_command, TypeOK, connVars, uploadVars,
                               ownerVars, history
  <1>12. CASE CommandPolls
    <2>1. stack # <<>> /\ stack[1] \in Frames
      BY <1>12, <1>st, Zenon DEF CommandPolls, At
    <2>2. [stack[1] EXCEPT !.n = @ + 1] \in Frames
      BY <2>1 DEF Frames
    <2> QED BY <1>12, <2>1, <2>2, <1>st, <1>only, Zenon DEF CommandPolls
  <1>13. CASE CommandDone
    <2>1. stack # <<>>
      BY <1>13, Zenon DEF CommandDone, At
    <2>2. Goto(Frame("chunk")) \/ Return => stack' \in Seq(Frames)
      BY <2>1, <1>go, <1>st, Zenon DEF PollPcs, Return
    <2>3. UNCHANGED webterm_cmd => webterm_cmd' \in Cmd \cup {"none"}
      BY Zenon DEF TypeOK
    <2> QED BY <1>13, <2>2, <2>3, <1>only, StopType, RebootType, Zenon DEF CommandDone
  <1>14. CASE backup_chunk_next
    <2> DEFINE s == IF hs_global = NULL THEN 0 ELSE hs[hs_global].sess
    <2>1. stack # <<>> /\ s \in Nat
      BY <1>14, Zenon DEF backup_chunk_next, At, TypeOK, Hs
    <2>2. [Frame("chunk_wait") EXCEPT !.n = s] \in Frames
      BY <2>1, <1>n, Zenon DEF PollPcs, RxPcs
    <2>3. ram' \in Rams
      <3> HIDE DEF s
      <3>1. ram' = [use |-> "backup", n |-> backup.chunk_num, sess |-> s]
        BY <1>14, Zenon DEF backup_chunk_next, s
      <3> QED BY <2>1, <3>1, <1>w, Zenon DEF Rams, Backups
    <2>4. backup' \in Backups
      <3>1. /\ backup.remaining > 0
            /\ backup' = [backup EXCEPT !.data_size = 1, !.chunk_num = @ + 1,
                                        !.remaining = @ - 1]
        BY <1>14, Zenon DEF backup_chunk_next
      <3>2. backup.chunk_num + 1 \in Nat /\ backup.remaining - 1 \in Nat
        BY <3>1, <1>w DEF Backups
      <3>3. ASSUME NEW l \in Nat, NEW m \in Nat
            PROVE  [backup EXCEPT !.data_size = 1, !.chunk_num = l, !.remaining = m]
                      \in Backups
        BY <1>w, Zenon DEF Backups
      <3>4. [backup EXCEPT !.data_size = 1, !.chunk_num = backup.chunk_num + 1,
                           !.remaining = backup.remaining - 1] \in Backups
        BY <3>2, <3>3, Zenon
      <3> QED BY <3>1, <3>4, Zenon
    <2>5. stack' \in Seq(Frames)
      BY <1>14, <2>1, <2>2, <1>st, Zenon DEF backup_chunk_next
    <2> QED BY <1>14, <2>3, <2>4, <2>5, Zenon DEF backup_chunk_next, TypeOK, uploadVars
  <1>15. CASE backup_chunk_resume
    <2>1. stack' \in Seq(Frames)
      BY <1>15, <1>go, Zenon DEF backup_chunk_resume, At, PollPcs, RxPcs
    <2>2. backup' \in Backups
      <3>1. \/ backup' = [backup EXCEPT !.chunk_busy = FALSE]
            \/ backup' = [backup EXCEPT !.chunk_busy = FALSE, !.chunked = FALSE,
                                        !.remaining = 0]
        BY <1>15, Zenon DEF backup_chunk_resume
      <3>2. [backup EXCEPT !.chunk_busy = FALSE] \in Backups
        BY <1>w, Zenon DEF Backups
      <3>3. [backup EXCEPT !.chunk_busy = FALSE, !.chunked = FALSE, !.remaining = 0]
               \in Backups
        BY <1>w, Zenon DEF Backups
      <3> QED BY <3>1, <3>2, <3>3, Zenon
    <2>3. hs' \in [Conn -> Hs] /\ taken' \in BOOLEAN
      <3>1. CASE hs_global = NULL
        BY <1>15, <3>1, Zenon DEF backup_chunk_resume, TypeOK
      <3>2. CASE hs_global # NULL
        <4> DEFINE h == [hs[hs_global] EXCEPT
                            !.dataptr = IF backup.data_size > 0 THEN "ram" ELSE "null",
                            !.upload = backup.data_size]
        <4>1. hs[hs_global] \in Hs /\ backup.data_size \in Nat
          BY <3>2, <1>w DEF TypeOK, Backups
        <4>2. h \in Hs
          BY <4>1, Zenon DEF Hs
        <4>3. PICK r \in httpd_send_data(h) : hs' = [hs EXCEPT ![hs_global] = r]
          BY <1>15, <3>2, Zenon DEF backup_chunk_resume
        <4>4. taken' \in BOOLEAN
          BY <1>15, <3>2, Zenon DEF backup_chunk_resume
        <4> HIDE DEF h
        <4> QED BY <4>2, <4>3, <4>4, SendType, Zenon DEF TypeOK
      <3> QED BY <3>1, <3>2, Zenon
    <2> QED BY <1>15, <2>1, <2>2, <2>3, Zenon DEF backup_chunk_resume, TypeOK, uploadVars
  <1>16. CASE backup_chunk_failed
    <2>1. stack' \in Seq(Frames)
      BY <1>16, <1>go, Zenon DEF backup_chunk_failed, At, PollPcs, RxPcs
    <2>2. /\ hs' \in [Conn -> Hs] /\ hs_global' \in Conn \cup {NULL}
          /\ upload' \in Uploads /\ boundary_value' \in BOOLEAN /\ backup' \in Backups
      <3>1. CASE hs_global = NULL
        <4>1. backup' \in Backups
          <5>1. backup' = [backup EXCEPT !.chunk_busy = FALSE, !.chunked = FALSE,
                                         !.remaining = 0]
            BY <1>16, <3>1, Zenon DEF backup_chunk_failed
          <5> QED BY <5>1, <1>w, Zenon DEF Backups
        <4> QED BY <1>16, <3>1, <4>1, Zenon DEF backup_chunk_failed, TypeOK
      <3>2. CASE hs_global # NULL
        BY <1>16, <3>2, <1>w, CloseType, Zenon DEF backup_chunk_failed, httpd_close_conn, TypeOK
      <3> QED BY <3>1, <3>2, Zenon
    <2> QED BY <1>16, <2>1, <2>2, Zenon DEF backup_chunk_failed, TypeOK, history
  <1>17. CASE PollNoChunk
    BY <1>17, <1>go, <1>only, Zenon DEF PollNoChunk, At, PollPcs, RxPcs
  <1> QED BY <1>1, <1>2, <1>3, <1>4, <1>5, <1>6, <1>7, <1>8, <1>9, <1>10, <1>11, <1>12,
             <1>13, <1>14, <1>15, <1>16, <1>17, Zenon DEF Poll

\* Every global of the server keeps its type, whatever the clients send and
\* however deep the polls nest (all of failsafe_httpd.c).
THEOREM TypeCorrect == Spec => []TypeOK
  <1>1. Init => TypeOK
    <2> SUFFICES ASSUME Init PROVE TypeOK
      BY Zenon
    <2>1. hs \in [Conn -> Hs]
      BY NewHsType, Zenon DEF Init
    <2>2. upload \in Uploads /\ backup \in Backups
      BY Zenon DEF Init, ZeroUpload, Uploads, NoBackup, Backups
    <2>3. web \in Webs /\ ram \in Rams /\ job \in Jobs
      BY Zenon DEF Init, StoppedWeb, Webs, NoRam, Rams, NoJob, Jobs
    <2>4. stack \in Seq(Frames)
      BY DEF Init
    <2> QED BY <2>1, <2>2, <2>3, <2>4, Zenon DEF Init, TypeOK
  <1>2. TypeOK /\ [Next]_vars => TypeOK'
    <2> SUFFICES ASSUME TypeOK, [Next]_vars PROVE TypeOK'
      BY Zenon
    <2>1. CASE HttpdStart
      <3>1. web' \in Webs
        BY <2>1, Zenon DEF HttpdStart, TypeOK, Webs
      <3> QED BY <2>1, <3>1, Zenon DEF HttpdStart, TypeOK, uploadVars, ownerVars, history
    <2>2. CASE HttpdStop
      <3>1. webterm_cmd' \in Cmd \cup {"none"} /\ stack' \in Seq(Frames)
        BY <2>2, Zenon DEF HttpdStop, TypeOK
      <3>2. FALSE \in BOOLEAN
        BY Zenon
      <3> QED BY <2>2, <3>1, <3>2, StopType, Zenon DEF HttpdStop
    <2>3. CASE Poll
      BY <2>3, TypePoll, Zenon
    <2>4. CASE \E c \in Conn : Callback(c)
      BY <2>4, TypeCallback, Zenon
    <2>5. CASE UNCHANGED vars
      BY <2>5, Zenon DEF vars, uploadVars, ownerVars, history, TypeOK
    <2> QED BY <2>1, <2>2, <2>3, <2>4, <2>5, Zenon DEF Next
  <1> QED BY <1>1, <1>2, PTL DEF Spec

-----------------------------------------------------------------------------
(* One owner of the transfer state.                                        *)
(*                                                                         *)
(* SingleOwner is not inductive: httpd_check_upload_complete clears        *)
(* hs_global because an upload's segment can only come from its owner, and *)
(* a backup's read must not return to a connection that lost its place.    *)

PollFrames == {f \in Frames : f.pc # "backup_read"}

UploadOwns == \A c \in Conn : hs[c].state = "UPLOAD_REQUEST" => hs[c].owns

OwnerInv == SingleOwner /\ UploadOwns /\ stack \in Seq(PollFrames)

\* A step that leaves a connection's place alone keeps the ownership.
LEMMA KeepOwner ==
    ASSUME TypeOK, SingleOwner, UploadOwns, NEW c \in Conn, NEW r,
           hs' = [hs EXCEPT ![c] = r], hs_global' = hs_global,
           r.live = hs[c].live, r.owns = hs[c].owns,
           r.state = "UPLOAD_REQUEST" => r.owns
    PROVE  SingleOwner' /\ UploadOwns'
  BY NullAssumption, Zenon DEF TypeOK, SingleOwner, UploadOwns

\* So does freeing a connection together with what it owns.
LEMMA FreeOwner ==
    ASSUME TypeOK, SingleOwner, UploadOwns, NEW c \in Conn,
           hs' = [hs EXCEPT ![c] = FreeHs],
           hs_global' = IF hs[c].owns THEN NULL ELSE hs_global
    PROVE  SingleOwner' /\ UploadOwns'
  BY NullAssumption, Zenon DEF TypeOK, SingleOwner, UploadOwns, FreeHs

\* A connection that is not busy may take the globals.
LEMMA TakeOwner ==
    ASSUME TypeOK, SingleOwner, UploadOwns, NEW c \in Conn, NEW r,
           hs' = [hs EXCEPT ![c] = r], hs_global' = c,
           r.live, r.owns, hs_global \in {NULL, c}
    PROVE  SingleOwner' /\ UploadOwns'
  BY NullAssumption, Zenon DEF TypeOK, SingleOwner, UploadOwns

\* A connection that may have owned them, and only that one, may give them up.
LEMMA GiveOwner ==
    ASSUME TypeOK, SingleOwner, UploadOwns, NEW c \in Conn, NEW r,
           hs' = [hs EXCEPT ![c] = r], hs_global' = NULL,
           ~r.owns, r.state # "UPLOAD_REQUEST", hs_global \in {NULL, c}
    PROVE  SingleOwner' /\ UploadOwns'
  BY NullAssumption, Zenon DEF TypeOK, SingleOwner, UploadOwns

\* With every connection free there is no owner.
LEMMA NoOwner ==
    ASSUME hs' = [c \in Conn |-> FreeHs], hs_global' = NULL
    PROVE  SingleOwner' /\ UploadOwns'
  BY Zenon DEF SingleOwner, UploadOwns, FreeHs

\* An upload's step, whether it completes the upload or not.
LEMMA CompleteOwner ==
    ASSUME TypeOK, SingleOwner, UploadOwns, NEW c \in Conn, NEW h \in Hs,
           NEW u, NEW w, NEW up, NEW bv,
           h.live, h.owns, hs_global \in {NULL, c},
           httpd_check_upload_complete(c, h, u, w, up, c, bv)
    PROVE  SingleOwner' /\ UploadOwns'
  <1>1. CASE h.upload >= h.total + Trailer
    <2>1. ResetHs(h) \in Hs /\ ~ResetHs(h).owns
      BY Zenon DEF ResetHs, Hs, States
    <2>2. PICK r \in httpd_send_static(ResetHs(h)) : hs' = [hs EXCEPT ![c] = r]
      BY <1>1, Zenon DEF httpd_check_upload_complete
    <2>3. ~r.owns /\ r.state # "UPLOAD_REQUEST"
      BY <2>1, <2>2, SendStaticType, ZenonT(60)
    <2>4. hs_global' = NULL
      BY <1>1, Zenon DEF httpd_check_upload_complete
    <2> QED BY <2>2, <2>3, <2>4, GiveOwner, Zenon
  <1>2. CASE ~(h.upload >= h.total + Trailer)
    <2>1. hs' = [hs EXCEPT ![c] = h] /\ hs_global' = c
      BY <1>2, Zenon DEF httpd_check_upload_complete
    <2> QED BY <2>1, TakeOwner, Zenon
  <1> QED BY <1>1, <1>2, Zenon

\* No callback gives the transfer state a second owner, leaves hs_global on a
\* freed connection, or lets an upload go on without it.
LEMMA OwnerCallback ==
    ASSUME TypeOK, SingleOwner, UploadOwns, NEW c \in Conn, Callback(c)
    PROVE  SingleOwner' /\ UploadOwns'
  <1>hs. hs[c] \in Hs /\ hs \in [Conn -> Hs] /\ hs_global \in Conn \cup {NULL}
    BY Zenon DEF TypeOK
  <1>up. hs[c].state = "UPLOAD_REQUEST" => hs_global = c /\ hs[c].live /\ hs[c].owns
    BY NullAssumption, Zenon DEF SingleOwner, UploadOwns
  <1>nb. ~Busy(c) => hs_global \in {NULL, c}
    BY Zenon DEF Busy
  <1>cl. ASSUME NEW u, httpd_close_conn(c, u)
         PROVE  SingleOwner' /\ UploadOwns'
    BY <1>cl, FreeOwner, Zenon DEF httpd_close_conn, httpd_state_reset
  <1>rs. ASSUME NEW h \in Hs, NEW r \in httpd_send_static(h),
                h.live = hs[c].live, h.owns = hs[c].owns,
                hs' = [hs EXCEPT ![c] = r], hs_global' = hs_global
         PROVE  SingleOwner' /\ UploadOwns'
    BY <1>rs, SendStaticType, KeepOwner, Zenon
  <1>id. ASSUME NEW b \in BOOLEAN
         PROVE  /\ [hs[c] EXCEPT !.idle = b] \in Hs
                /\ [hs[c] EXCEPT !.idle = b].live = hs[c].live
                /\ [hs[c] EXCEPT !.idle = b].owns = hs[c].owns
                /\ [hs[c] EXCEPT !.idle = b].state = hs[c].state
    BY <1>hs, Zenon DEF Hs
  <1>1. CASE httpd_accept(c)
    <2>1. hs_global' = hs_global /\ ~hs[c].live /\ hs' = [hs EXCEPT ![c] = NewHs(accepts + 1)]
      BY <1>1, Zenon DEF httpd_accept, ownerVars
    <2>2. ~NewHs(accepts + 1).owns /\ NewHs(accepts + 1).state = "NONE"
      BY Zenon DEF NewHs, FreeHs
    <2>3. hs_global # c
      BY <2>1, NullAssumption, Zenon DEF SingleOwner
    <2> QED BY <2>1, <2>2, <2>3, <1>hs, Zenon DEF SingleOwner, UploadOwns
  <1>2. CASE httpd_recv_close(c) \/ httpd_sent_close(c)
    BY <1>2, <1>cl, Zenon DEF httpd_recv_close, httpd_sent_close, ArmAndClose
  <1>3. CASE httpd_recv_nomem(c) \/ httpd_recv_abort(c) \/ httpd_recv_nofirst(c)
             \/ httpd_recv_post_badlength(c)
    BY <1>3, <1>cl, Zenon DEF httpd_recv_nomem, httpd_recv_abort, httpd_recv_nofirst,
                       httpd_recv_post_badlength
  <1>4. CASE Respond(c)
    <2>1. PICK r \in httpd_send_static([hs[c] EXCEPT !.idle = FALSE]) :
                 hs' = [hs EXCEPT ![c] = r]
      BY <1>4, Zenon DEF Respond
    <2>2. hs_global' = hs_global
      BY <1>4, Zenon DEF Respond, ownerVars
    <2> QED BY <2>1, <2>2, <1>id, <1>rs, Zenon
  <1>5. CASE httpd_recv_ignored(c) \/ IdleTime(c)
    <2>1. PICK b \in BOOLEAN : hs' = [hs EXCEPT ![c] = [hs[c] EXCEPT !.idle = b]]
      BY <1>5, <1>hs, Zenon DEF httpd_recv_ignored, IdleTime
    <2>2. hs_global' = hs_global
      BY <1>5, Zenon DEF httpd_recv_ignored, IdleTime, ownerVars
    <2> DEFINE r == [hs[c] EXCEPT !.idle = b]
    <2>3. /\ hs' = [hs EXCEPT ![c] = r] /\ r.live = hs[c].live /\ r.owns = hs[c].owns
          /\ r.state = "UPLOAD_REQUEST" => r.owns
      BY <2>1, <1>id, <1>up, Zenon
    <2> HIDE DEF r
    <2> QED BY <2>2, <2>3, KeepOwner, Zenon
  <1>6. CASE httpd_recv_post_rejected(c)
    <2>1. /\ hs_global \in {NULL, c} /\ hs_global' = NULL
          /\ hs' = [hs EXCEPT ![c] = FreeHs]
      BY <1>6, <1>nb, Zenon DEF httpd_recv_post_rejected
    <2>2. ~FreeHs.owns /\ FreeHs.state # "UPLOAD_REQUEST"
      BY Zenon DEF FreeHs
    <2> QED BY <2>1, <2>2, GiveOwner, Zenon
  <1>7. CASE httpd_recv_post(c)
    <2> DEFINE h == [hs[c] EXCEPT !.state = "UPLOAD_REQUEST", !.owns = TRUE, !.idle = FALSE]
    <2>1. h \in Hs /\ h.live /\ h.owns
      BY <1>7, <1>hs, Zenon DEF httpd_recv_post, Rx, Hs, States
    <2>2. hs_global \in {NULL, c}
      BY <1>7, <1>nb, Zenon DEF httpd_recv_post
    <2>3. \/ \E t \in 1..MaxData, n \in 0..MaxPacket, reboot \in BOOLEAN :
                httpd_check_upload_complete(c, FirstHs(h, t, n),
                   FirstUpload(ZeroUpload, t, n), FirstWeb(c, reboot), NULL, c, TRUE)
          \/ hs' = [hs EXCEPT ![c] = h] /\ hs_global' = c
      BY <1>7, Zenon DEF httpd_recv_post
    <2> HIDE DEF h
    <2>4. ASSUME NEW t \in 1..MaxData, NEW n \in 0..MaxPacket
          PROVE  FirstHs(h, t, n) \in Hs /\ FirstHs(h, t, n).live /\ FirstHs(h, t, n).owns
      <3>1. t \in Nat /\ n \in Nat
        BY BoundAssumption
      <3> QED BY <2>1, <3>1, Zenon DEF FirstHs, Hs
    <2>5. CASE hs' = [hs EXCEPT ![c] = h] /\ hs_global' = c
      BY <2>1, <2>2, <2>5, TakeOwner, Zenon
    <2> QED BY <2>2, <2>3, <2>4, <2>5, CompleteOwner, Zenon
  <1>8. CASE httpd_recv_first(c)
    <2> DEFINE h == [hs[c] EXCEPT !.idle = FALSE]
    <2>1. h \in Hs /\ h.live /\ h.owns /\ hs_global = c
      BY <1>8, <1>id, <1>up, Zenon DEF httpd_recv_first
    <2>2. \E t \in 1..MaxData, n \in 0..MaxPacket, reboot \in BOOLEAN :
             httpd_check_upload_complete(c, FirstHs(h, t, n),
                FirstUpload(upload, t, n), FirstWeb(c, reboot),
                upload_hs, hs_global, boundary_value)
      BY <1>8, Zenon DEF httpd_recv_first
    <2> HIDE DEF h
    <2>3. ASSUME NEW t \in 1..MaxData, NEW n \in 0..MaxPacket
          PROVE  FirstHs(h, t, n) \in Hs /\ FirstHs(h, t, n).live /\ FirstHs(h, t, n).owns
      <3>1. t \in Nat /\ n \in Nat
        BY BoundAssumption
      <3> QED BY <2>1, <3>1, Zenon DEF FirstHs, Hs
    <2> QED BY <2>1, <2>2, <2>3, CompleteOwner, Zenon
  <1>9. CASE httpd_recv_data(c)
    <2>1. hs_global = c /\ hs[c].live /\ hs[c].owns
      BY <1>9, <1>up, Zenon DEF httpd_recv_data
    <2>2. PICK n \in 1..MaxPacket : \E u :
             httpd_check_upload_complete(c,
                [hs[c] EXCEPT !.idle = FALSE, !.upload = @ + n, !.got = @ + n],
                u, web, upload_hs, hs_global, boundary_value)
      BY <1>9, Zenon DEF httpd_recv_data
    <2> DEFINE up == hs[c].upload + n
               got == hs[c].got + n
               h == [hs[c] EXCEPT !.idle = FALSE, !.upload = up, !.got = got]
    <2>3. n \in Nat
      BY BoundAssumption
    <2>4. up \in Nat /\ got \in Nat
      BY <2>3, <1>hs, SMTT(60) DEF Hs
    <2>5. \E u : httpd_check_upload_complete(c, h, u, web, upload_hs, hs_global, boundary_value)
      BY <2>2, Zenon
    <2> HIDE DEF up, got
    <2>6. h \in Hs /\ h.live /\ h.owns
      BY <2>1, <2>4, <1>hs, Zenon DEF Hs
    <2> HIDE DEF h
    <2> QED BY <2>1, <2>5, <2>6, CompleteOwner, Zenon
  <1>10. CASE httpd_handle_backup(c)
    <2>1. hs_global \in {NULL, c} /\ hs[c].live
      BY <1>10, <1>nb, Zenon DEF httpd_handle_backup, Rx
    <2>2. CASE FailBackup(c, stack)
      <3>1. PICK r \in httpd_send_static([hs[c] EXCEPT !.idle = FALSE]) :
                   hs' = [hs EXCEPT ![c] = r]
        BY <2>2, Zenon DEF FailBackup
      <3>2. hs_global' = hs_global
        BY <2>2, Zenon DEF FailBackup, ownerVars
      <3> QED BY <3>1, <3>2, <1>id, <1>rs, Zenon
    <2>3. ASSUME NEW k \in 1..MaxChunks, StartBackup(c, k, stack)
          PROVE  SingleOwner' /\ UploadOwns'
      <3> DEFINE h == [hs[c] EXCEPT !.state = "FILE_REQUEST", !.owns = TRUE, !.upload = 1,
                                    !.dataptr = "header", !.idle = FALSE]
      <3>1. h \in Hs /\ h.live /\ h.owns
        BY <2>1, <1>hs, Zenon DEF Hs, States
      <3>2. PICK r \in httpd_send_data(h) : hs' = [hs EXCEPT ![c] = r]
        BY <2>3, Zenon DEF StartBackup
      <3>3. hs_global' = c
        BY <2>3, Zenon DEF StartBackup
      <3> HIDE DEF h
      <3> QED BY <2>1, <3>1, <3>2, <3>3, SendType, TakeOwner, Zenon
    <2> QED BY <1>10, <2>2, <2>3, Zenon DEF httpd_handle_backup
  <1>11. CASE httpd_handle_backup_read(c)
    BY <1>11, Zenon DEF httpd_handle_backup_read, ownerVars, SingleOwner, UploadOwns
  <1>12. ASSUME NEW more \in BOOLEAN
         PROVE  /\ SentHs(c, more) \in Hs
                /\ SentHs(c, more).live = hs[c].live
                /\ SentHs(c, more).owns = hs[c].owns
                /\ SentHs(c, more).state = "UPLOAD_REQUEST" => hs[c].owns
    <2>1. backup.data_size \in Nat
      BY DEF TypeOK, Backups
    <2> QED BY <2>1, <1>hs, <1>up, ZenonT(60) DEF SentHs, Hs, States
  <1>13. CASE httpd_sent_more(c)
    <2>1. hs_global' = hs_global
      BY <1>13, Zenon DEF httpd_sent_more
    <2>2. PICK more \in BOOLEAN :
             \E r \in httpd_send_data(SentHs(c, more)) : hs' = [hs EXCEPT ![c] = r]
      BY <1>13, Zenon DEF httpd_sent_more
    <2>3. PICK r \in httpd_send_data(SentHs(c, more)) : hs' = [hs EXCEPT ![c] = r]
      BY <2>2, Zenon
    <2>4. /\ r.live = hs[c].live /\ r.owns = hs[c].owns
          /\ r.state = "UPLOAD_REQUEST" => r.owns
      BY <1>12, SendType, SMTT(60)
    <2> QED BY <2>1, <2>3, <2>4, KeepOwner, Zenon
  <1>14. CASE httpd_sent_chunk(c)
    <2>1. hs_global' = hs_global
      BY <1>14, Zenon DEF httpd_sent_chunk
    <2>2. PICK more \in BOOLEAN : hs' = [hs EXCEPT ![c] = SentHs(c, more)]
      BY <1>14, Zenon DEF httpd_sent_chunk
    <2> QED BY <2>1, <2>2, <1>12, KeepOwner, Zenon
  <1>15. CASE httpd_err(c) \/ httpd_poll_cb_timeout(c)
    <2>1. /\ hs' = [hs EXCEPT ![c] = FreeHs]
          /\ hs_global' = IF hs[c].owns THEN NULL
                          ELSE IF hs_global = c THEN NULL ELSE hs_global
      BY <1>15, Zenon DEF httpd_err, httpd_poll_cb_timeout, DiscardAndClose,
                          httpd_state_reset
    <2>2. ~hs[c].owns => hs_global # c
      BY NullAssumption, Zenon DEF SingleOwner
    <2>3. hs_global' = IF hs[c].owns THEN NULL ELSE hs_global
      BY <2>1, <2>2, Zenon
    <2> QED BY <2>1, <2>3, FreeOwner, Zenon
  <1>16. CASE httpd_poll_cb_send(c)
    <2>1. hs_global' = hs_global
      BY <1>16, Zenon DEF httpd_poll_cb_send, ownerVars
    <2>2. PICK r \in httpd_send_data(hs[c]) : hs' = [hs EXCEPT ![c] = r]
      BY <1>16, Zenon DEF httpd_poll_cb_send
    <2>3. r.live = hs[c].live /\ r.owns = hs[c].owns /\ r.state = hs[c].state
      BY <2>2, <1>hs, SendType, Zenon
    <2> QED BY <2>1, <2>2, <2>3, <1>up, KeepOwner, Zenon
  <1>17. CASE \/ httpd_recv_static(c) \/ httpd_recv_busy(c)
              \/ \E cmd \in Cmd : webterm_execute_command(c, cmd)
    BY <1>17, <1>4, Zenon DEF httpd_recv_static, httpd_recv_busy, webterm_execute_command
  <1> QED BY <1>1, <1>2, <1>3, <1>5, <1>6, <1>7, <1>8, <1>9, <1>10, <1>11, <1>13, <1>14,
             <1>15, <1>16, <1>17, Zenon DEF Callback

\* Nor does a step of the poll loop, as long as no backup read is under way.
LEMMA OwnerPoll ==
    ASSUME TypeOK, OwnerInv, Poll
    PROVE  SingleOwner' /\ UploadOwns'
  <1>1. CASE UNCHANGED <<hs, hs_global>>
    BY <1>1, Zenon DEF OwnerInv, SingleOwner, UploadOwns
  <1>2. ~httpd_handle_backup_resume
    <2> SUFFICES ASSUME stack # <<>>, stack[1].pc = "backup_read" PROVE FALSE
      BY Zenon DEF httpd_handle_backup_resume, At
    <2>1. stack[1] \in PollFrames
      BY DEF OwnerInv
    <2> QED BY <2>1, Zenon DEF PollFrames
  <1>3. CASE Reboot
    BY <1>3, NoOwner, Zenon DEF Reboot
  <1>4. ASSUME NEW b, HttpdStopEffect(b) PROVE SingleOwner' /\ UploadOwns'
    BY <1>4, NoOwner, Zenon DEF HttpdStopEffect
  <1>5. CASE PollDone
    BY <1>5, <1>1, <1>3, Zenon DEF PollDone, connVars, ownerVars
  <1>6. CASE CommandDone
    BY <1>6, <1>1, <1>3, <1>4, Zenon DEF CommandDone, connVars, ownerVars
  <1>7. CASE backup_chunk_resume
    <2>1. CASE hs_global = NULL
      BY <1>7, <2>1, <1>1, Zenon DEF backup_chunk_resume
    <2>2. CASE hs_global # NULL
      <3> DEFINE h == [hs[hs_global] EXCEPT
                          !.dataptr = IF backup.data_size > 0 THEN "ram" ELSE "null",
                          !.upload = backup.data_size]
      <3>1. hs[hs_global] \in Hs /\ backup.data_size \in Nat /\ hs_global \in Conn
        BY <2>2 DEF TypeOK, Backups
      <3>2. /\ h \in Hs /\ h.live = hs[hs_global].live /\ h.owns = hs[hs_global].owns
            /\ h.state = hs[hs_global].state
        BY <3>1, Zenon DEF Hs
      <3>3. PICK r \in httpd_send_data(h) : hs' = [hs EXCEPT ![hs_global] = r]
        BY <1>7, <2>2, Zenon DEF backup_chunk_resume
      <3>4. hs_global' = hs_global
        BY <1>7, Zenon DEF backup_chunk_resume
      <3> HIDE DEF h
      <3>5. /\ r.live = hs[hs_global].live /\ r.owns = hs[hs_global].owns
            /\ r.state = "UPLOAD_REQUEST" => r.owns
        BY <3>1, <3>2, <3>3, SendType DEF OwnerInv, UploadOwns
      <3> QED BY <3>1, <3>3, <3>4, <3>5, KeepOwner, Zenon DEF OwnerInv
    <2> QED BY <2>1, <2>2, Zenon
  <1>8. CASE backup_chunk_failed
    <2>1. CASE hs_global = NULL
      BY <1>8, <2>1, <1>1, Zenon DEF backup_chunk_failed
    <2>2. CASE hs_global # NULL
      <3>1. hs_global \in Conn
        BY <2>2, Zenon DEF TypeOK
      <3>2. /\ hs' = [hs EXCEPT ![hs_global] = FreeHs]
            /\ hs_global' = IF hs[hs_global].owns THEN NULL ELSE hs_global
        BY <1>8, <2>2, Zenon DEF backup_chunk_failed, httpd_close_conn, httpd_state_reset
      <3> QED BY <3>1, <3>2, FreeOwner, Zenon DEF OwnerInv
    <2> QED BY <2>1, <2>2, Zenon
  <1>9. CASE \/ MainLoop \/ PollReady \/ PollFlashing \/ do_http_upgrade
             \/ execute_command \/ FlashCommand
    BY <1>9, <1>1, Zenon DEF MainLoop, PollReady, PollFlashing, do_http_upgrade,
                      execute_command, FlashCommand, connVars, ownerVars
  <1>10. CASE \/ \E ok \in BOOLEAN : PollUpgraded(ok)
              \/ webterm_run_pending_command \/ CommandPolls \/ backup_chunk_next
              \/ PollNoChunk \/ PollReturn
    BY <1>10, <1>1, Zenon DEF PollUpgraded, webterm_run_pending_command, CommandPolls,
                       backup_chunk_next, PollNoChunk, PollReturn, connVars, ownerVars
  <1> QED BY <1>2, <1>5, <1>6, <1>7, <1>8, <1>9, <1>10, Zenon DEF Poll

\* Without run_command in the backup's first read, every activation is one of
\* the poll loop.
LEMMA StackPoll ==
    ASSUME TypeOK, stack \in Seq(PollFrames), Poll
    PROVE  stack' \in Seq(PollFrames)
  <1>fr. \A pc \in PollPcs : Frame(pc) \in PollFrames
    BY FrameType, Zenon DEF PollFrames, Frame, PollPcs, RxPcs, UpgradePcs
  <1>tl. stack # <<>> => Tail(stack) \in Seq(PollFrames) /\ stack[1] \in PollFrames
    OBVIOUS
  <1>go. ASSUME stack # <<>>, NEW f \in PollFrames, Goto(f) \/ RunCommand(f)
         PROVE  stack' \in Seq(PollFrames)
    <2>1. Frame("poll") \in PollFrames
      BY <1>fr, Zenon DEF PollPcs
    <2>2. <<f>> \in Seq(PollFrames) /\ <<Frame("poll"), f>> \in Seq(PollFrames)
      BY <2>1
    <2>3. /\ <<f>> \o Tail(stack) \in Seq(PollFrames)
          /\ <<Frame("poll"), f>> \o Tail(stack) \in Seq(PollFrames)
      BY <2>2, <1>tl, <1>go
    <2> QED BY <2>3, <1>go, Zenon DEF Goto, RunCommand
  <1>n. ASSUME NEW pc \in PollPcs, NEW m \in Nat
        PROVE  [Frame(pc) EXCEPT !.n = m] \in PollFrames
    BY <1>fr DEF PollFrames, Frames
  <1>r. Reboot => stack' \in Seq(PollFrames)
    BY DEF Reboot
  <1>1. CASE MainLoop
    <2>1. <<Frame("poll")>> \in Seq(PollFrames)
      BY <1>fr DEF PollPcs
    <2> QED BY <1>1, <2>1, Zenon DEF MainLoop
  <1>2. CASE PollReturn \/ PollDone
    BY <1>2, <1>tl, <1>r, Zenon DEF PollReturn, PollDone, Return, At
  <1>3. CASE \/ PollReady \/ PollFlashing \/ do_http_upgrade \/ PollNoChunk
             \/ backup_chunk_resume \/ backup_chunk_failed
             \/ \E ok \in BOOLEAN : PollUpgraded(ok)
    <2>1. stack # <<>> /\ \E pc \in PollPcs : Goto(Frame(pc))
      BY <1>3, Zenon DEF PollReady, PollFlashing, do_http_upgrade, PollNoChunk,
                  backup_chunk_resume, backup_chunk_failed, PollUpgraded, At,
                  PollPcs, RxPcs, UpgradePcs
    <2> QED BY <2>1, <1>go, <1>fr, Zenon
  <1>4. CASE execute_command \/ FlashCommand
    <2>1. stack # <<>> /\ stack[1].n \in Nat
      BY <1>4, <1>tl, Zenon DEF execute_command, FlashCommand, At, PollFrames, Frames
    <2>2. /\ [Frame("flash_cmd") EXCEPT !.n = stack[1].n + 1] \in PollFrames
          /\ [Frame("flash") EXCEPT !.n = stack[1].n] \in PollFrames
      <3>1. stack[1].n + 1 \in Nat
        BY <2>1
      <3>2. "flash_cmd" \in PollPcs /\ "flash" \in PollPcs
        BY Zenon DEF PollPcs, UpgradePcs
      <3> QED BY <2>1, <3>1, <3>2, <1>n, Zenon
    <2> QED BY <1>4, <2>1, <2>2, <1>go, Zenon DEF execute_command, FlashCommand
  <1>5. CASE webterm_run_pending_command
    <2>1. stack # <<>>
      BY <1>5, Zenon DEF webterm_run_pending_command, At
    <2>2. [Frame("cmd") EXCEPT !.cmd = webterm_cmd, !.n = 1] \in PollFrames
      BY Zenon DEF TypeOK, Frame, Frames, PollFrames, PollPcs, RxPcs
    <2>3. Frame("chunk") \in PollFrames
      BY <1>fr, Zenon DEF PollPcs
    <2> QED BY <1>5, <2>1, <2>2, <2>3, <1>go, Zenon DEF webterm_run_pending_command
  <1>6. CASE CommandPolls
    <2>1. stack # <<>>
      BY <1>6, Zenon DEF CommandPolls, At
    <2>2. [stack[1] EXCEPT !.n = @ + 1] \in PollFrames
      BY <2>1, <1>tl, SMTT(60) DEF Frames, PollFrames
    <2> QED BY <1>6, <2>1, <2>2, <1>go, Zenon DEF CommandPolls
  <1>7. CASE CommandDone
    <2>1. stack # <<>>
      BY <1>7, Zenon DEF CommandDone, At
    <2>2. Frame("chunk") \in PollFrames
      BY <1>fr, Zenon DEF PollPcs
    <2> QED BY <1>7, <2>1, <2>2, <1>go, <1>tl, <1>r, Zenon DEF CommandDone, Return
  <1>8. CASE backup_chunk_next
    <2> DEFINE m == IF hs_global = NULL THEN 0 ELSE hs[hs_global].sess
    <2>1. stack # <<>> /\ m \in Nat
      BY <1>8, Zenon DEF backup_chunk_next, At, TypeOK, Hs
    <2>2. [Frame("chunk_wait") EXCEPT !.n = m] \in PollFrames
      BY <2>1, <1>n, Zenon DEF PollPcs, RxPcs
    <2> QED BY <1>8, <2>1, <2>2, <1>go, Zenon DEF backup_chunk_next
  <1>9. CASE httpd_handle_backup_resume
    <2>1. stack # <<>> /\ stack' = Tail(stack)
      BY <1>9, Zenon DEF httpd_handle_backup_resume, At, StartBackup, FailBackup
    <2> QED BY <2>1, <1>tl, Zenon
  <1> QED BY <1>1, <1>2, <1>3, <1>4, <1>5, <1>6, <1>7, <1>8, <1>9, Zenon DEF Poll

\* The ownership and what it rests on is an invariant.
LEMMA OwnerInvariant == ASSUME ~ReadPolls PROVE Spec => []OwnerInv
  <1>1. Init => OwnerInv
    BY DEF Init, OwnerInv, SingleOwner, UploadOwns, FreeHs
  <1>2. TypeOK /\ OwnerInv /\ [Next]_vars => OwnerInv'
    <2> SUFFICES ASSUME TypeOK, OwnerInv, [Next]_vars PROVE OwnerInv'
      BY Zenon
    <2>1. CASE HttpdStart
      BY <2>1, Zenon DEF HttpdStart, ownerVars, OwnerInv, SingleOwner, UploadOwns
    <2>2. CASE HttpdStop
      BY <2>2, NoOwner, Zenon DEF HttpdStop, HttpdStopEffect, OwnerInv
    <2>3. CASE Poll
      BY <2>3, OwnerPoll, StackPoll, Zenon DEF OwnerInv
    <2>4. ASSUME NEW c \in Conn, Callback(c) PROVE OwnerInv'
      <3>1. SingleOwner' /\ UploadOwns'
        BY <2>4, OwnerCallback, Zenon DEF OwnerInv
      <3>2. stack' = stack
        <4>1. ASSUME httpd_handle_backup(c) PROVE stack' = stack
          BY <4>1, Zenon DEF httpd_handle_backup, StartBackup, FailBackup
        <4>2. ~httpd_handle_backup_read(c)
          BY Zenon DEF httpd_handle_backup_read
        <4> QED BY <2>4, <4>1, <4>2, ZenonT(60) DEF Callback, httpd_accept, httpd_recv_close,
                   httpd_recv_nomem, httpd_recv_static, webterm_execute_command,
                   httpd_recv_abort, httpd_recv_ignored, httpd_recv_busy,
                   httpd_recv_post_badlength, httpd_recv_post_rejected, httpd_recv_post,
                   httpd_recv_first, httpd_recv_nofirst, httpd_recv_data, httpd_sent_more,
                   httpd_sent_chunk, httpd_sent_close, httpd_err, httpd_poll_cb_timeout,
                   httpd_poll_cb_send, IdleTime, ArmAndClose, DiscardAndClose, Respond
      <3> QED BY <3>1, <3>2, Zenon DEF OwnerInv
    <2>5. CASE UNCHANGED vars
      BY <2>5, Zenon DEF vars, ownerVars, OwnerInv, SingleOwner, UploadOwns
    <2> QED BY <2>1, <2>2, <2>3, <2>4, <2>5, Zenon DEF Next
  <1> QED BY <1>1, <1>2, TypeCorrect, PTL DEF Spec

\* On NAND and eMMC, where a backup's first read does not poll the server
\* (failsafe_httpd.c, httpd_handle_backup), hs_global always is a live connection
\* that owns the transfer state, and nobody else believes to own it.
THEOREM Ownership == ASSUME ~ReadPolls PROVE Spec => []SingleOwner
  <1>1. OwnerInv => SingleOwner
    BY Zenon DEF OwnerInv
  <1> QED BY <1>1, OwnerInvariant, PTL

-----------------------------------------------------------------------------
\* What a step of an activation makes of the stack.
LEMMA StackSeq ==
    ASSUME NEW s \in Seq(Frames), s # <<>>, NEW f \in Frames, NEW p \in Frames
    PROVE  /\ Len(<<f>> \o Tail(s)) = Len(s)
           /\ (<<f>> \o Tail(s))[1] = f
           /\ \A i \in 2..Len(s) : (<<f>> \o Tail(s))[i] = s[i]
           /\ Len(<<p, f>> \o Tail(s)) = Len(s) + 1
           /\ (<<p, f>> \o Tail(s))[1] = p
           /\ (<<p, f>> \o Tail(s))[2] = f
           /\ \A i \in 3..Len(s) + 1 : (<<p, f>> \o Tail(s))[i] = s[i - 1]
           /\ Len(Tail(s)) = Len(s) - 1
           /\ \A i \in 1..Len(s) - 1 : Tail(s)[i] = s[i + 1]
  OBVIOUS
=============================================================================
