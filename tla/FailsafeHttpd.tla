--------------------------- MODULE FailsafeHttpd ---------------------------
(***************************************************************************)
(* The Web failsafe server of failsafe/failsafe_httpd.c: its connections,  *)
(* the one upload or backup that may own the global transfer state, and    *)
(* the poll loop that flashes an accepted image.                           *)
(*                                                                         *)
(* The program is single threaded.  Concurrency comes from re-entrance:    *)
(* lwIP callbacks run inside eth_rx() and sys_check_timeouts(), which are  *)
(* called from several places of the poll loop, and every run_command()    *)
(* goes through the HUSH parser, which calls httpd_poll() again.  The      *)
(* variable stack holds the activations of failsafe_httpd_poll (and of the *)
(* callback that reads SPI-NOR through run_command), innermost first.      *)
(*                                                                         *)
(* Sizes are in abstract units: a multipart trailer (closing boundary and  *)
(* its 6 bytes) is one unit, a queued response or a backup chunk is one.   *)
(***************************************************************************)
EXTENDS Integers, Sequences, FiniteSets

CONSTANTS
    Conn,          \* addresses malloc may return for a connection state
    NULL,          \* the null pointer
    Cmd,           \* commands the web terminal may be asked to run
    MaxAccepts,    \* bound: connections accepted in a behaviour
    MaxDepth,      \* bound: activations on the stack that still nest a poll
    MaxCommands,   \* bound: run_command calls of one upgrade or command
    MaxData,       \* bound: largest image announced by a client
    MaxPacket,     \* bound: largest number of units in one segment
    MaxChunks,     \* bound: largest backup, in RAM-sized chunks
    SizeLimit,     \* get_max_size() of the upgrade type
    RamUnits,      \* upload RAM
    ReadPolls,     \* the backup's first read goes through run_command (SPI-NOR)
    RecvMallocFails \* malloc may fail in httpd_recv

ASSUME NullAssumption == NULL \notin Conn
ASSUME CmdAssumption == Cmd \subseteq {"other", "stop", "restart", "reset"}
ASSUME BoundAssumption ==
    /\ {MaxAccepts, MaxDepth, MaxCommands, MaxData, MaxPacket, MaxChunks,
        SizeLimit, RamUnits} \subseteq Nat
    /\ {ReadPolls, RecvMallocFails} \subseteq BOOLEAN

VARIABLES
    hs,              \* struct failsafe_httpd_state of every address
    hs_global,       \* the connection that owns upload/backup, or NULL
    upload,          \* static struct upload
    upload_pending,  \* an accepted image waits for its flashing
    upload_hs,       \* the connection that sent it, until it is armed
    boundary_value,  \* the multipart boundary is allocated
    data_pointer,    \* webfailsafe_data_pointer, from the start of the RAM
    backup,          \* static struct backup
    web,             \* the webfailsafe_* globals and upgrade_status
    webterm_cmd,     \* the web terminal's pending command, or "none"
    stack,           \* activations, innermost first
    accepts,         \* connections accepted so far; numbers the sessions
    ram,             \* history: what the upload RAM holds
    job,             \* history: the last image accepted with 200 OK
    taken            \* history: a transfer went on with another one's state

uploadVars == <<upload, upload_pending, upload_hs, boundary_value, data_pointer>>
ownerVars == <<hs_global, backup>>
history == <<ram, job, taken>>
vars == <<hs, uploadVars, ownerVars, web, webterm_cmd, stack, accepts, history>>

-----------------------------------------------------------------------------
(* Data.                                                                   *)

Trailer == 1

FreeHs == [live |-> FALSE, state |-> "NONE", upload |-> 0, total |-> 0,
           dataptr |-> "null", owns |-> FALSE, unacked |-> FALSE,
           idle |-> FALSE, sess |-> 0, got |-> 0, out |-> <<>>]

NewHs(s) == [FreeHs EXCEPT !.live = TRUE, !.sess = s]

ZeroUpload == [data_start_found |-> FALSE, failed |-> FALSE, done |-> FALSE]

NoBackup == [data_size |-> 0, sending_header |-> FALSE, chunked |-> FALSE,
             chunk_busy |-> FALSE, remaining |-> 0, chunk_num |-> 0]

StoppedWeb == [running |-> FALSE, ready |-> FALSE, type |-> 0, reboot |-> TRUE,
               status |-> "idle", size |-> 0]

NoRam == [use |-> "none", sess |-> 0, n |-> 0]

NoJob == [sess |-> 0, size |-> 0]

Frame(pc) == [pc |-> pc, cmd |-> "none", hs |-> NULL, n |-> 0]

UpgradePcs == {"ready_wait", "flash_wait", "flash", "flash_cmd"}

\* Points of the code that call eth_rx() and sys_check_timeouts().
RxPcs == {"rx", "chunk_wait", "ready_wait", "flash_wait", "failed_wait",
          "done_wait", "cmd"}

PollPcs == {"poll", "chunk"} \cup RxPcs \cup UpgradePcs

At(pc) == stack # <<>> /\ stack[1].pc = pc

InLwip == stack # <<>> /\ stack[1].pc \in RxPcs

Upgrading == \E i \in DOMAIN stack : stack[i].pc \in UpgradePcs

Goto(f) == stack' = <<f>> \o Tail(stack)

Return == stack' = Tail(stack)

\* run_command(): parse_stream_outer polls the server before it runs the
\* command, which returns at once when the server is stopped; f is the activation
\* that resumes afterwards.
RunCommand(f) ==
    stack' = IF Len(stack) < MaxDepth /\ web.running
             THEN <<Frame("poll"), f>> \o Tail(stack)
             ELSE <<f>> \o Tail(stack)

Rx(c) == InLwip /\ web.running /\ hs[c].live

Owner(c) == hs[c].owns /\ hs_global = c

\* Mutant: the pending image is forgotten.
BusyIgnoresPending(c) == hs_global \notin {NULL, c}

Busy(c) == upload_pending \/ hs_global \notin {NULL, c}

Least(m, n) == IF m < n THEN m ELSE n

-----------------------------------------------------------------------------
(* Helpers of the callbacks.                                               *)

\* What the client receives when a queued unit leaves buffer h.dataptr:
\* 0 is a header or a static response, n > 0 is chunk n of its own backup.
Item(h) ==
    IF h.dataptr # "ram" THEN 0
    ELSE IF ram.use = "backup" /\ ram.sess = h.sess THEN ram.n ELSE -1

\* httpd_send_data: lwIP takes nothing, a part, or all of the buffer; it
\* refuses a null one.
httpd_send_data(h) ==
    {h} \cup IF h.upload > 0 /\ h.dataptr # "null"
             THEN {[h EXCEPT !.unacked = TRUE],
                   [h EXCEPT !.unacked = TRUE, !.upload = 0,
                             !.out = Append(@, Item(h))]}
             ELSE {}

ResetHs(h) == [h EXCEPT !.state = "NONE", !.dataptr = "null", !.upload = 0,
                        !.total = 0, !.owns = FALSE, !.idle = FALSE]

httpd_send_static(h) ==
    httpd_send_data([h EXCEPT !.state = "FILE_REQUEST", !.dataptr = "static",
                              !.upload = 1])

\* Mutant: hs_global is not cleared.
StateResetKeepsOwner(c, u, g) ==
    /\ upload' = IF hs[c].owns
                 THEN [ZeroUpload EXCEPT !.done = u.done, !.failed = u.failed]
                 ELSE u
    /\ backup' = IF hs[c].owns THEN NoBackup ELSE backup
    /\ boundary_value' = (boundary_value /\ ~hs[c].owns)
    /\ hs_global' = g

\* httpd_state_reset, the globals: u and g are the upload and hs_global it finds.
httpd_state_reset(c, u, g) ==
    /\ upload' = IF hs[c].owns
                 THEN [ZeroUpload EXCEPT !.done = u.done, !.failed = u.failed]
                 ELSE u
    /\ hs_global' = IF hs[c].owns THEN NULL ELSE g
    /\ backup' = IF hs[c].owns THEN NoBackup ELSE backup
    /\ boundary_value' = (boundary_value /\ ~hs[c].owns)

\* httpd_close_conn and httpd_conn_abort.
httpd_close_conn(c, u) ==
    /\ httpd_state_reset(c, u, hs_global)
    /\ hs' = [hs EXCEPT ![c] = FreeHs]

\* The response of a completed upload left, or its client closed: arm.
Arming(c) == upload.done /\ upload_hs \in {NULL, c}

ArmAndClose(c) ==
    /\ web' = [web EXCEPT !.ready = @ \/ (Arming(c) /\ ~upload.failed)]
    /\ upload_hs' = IF Arming(c) THEN NULL ELSE upload_hs
    /\ httpd_close_conn(c, IF Arming(c)
                           THEN [upload EXCEPT !.done = FALSE, !.failed = FALSE]
                           ELSE upload)
    /\ UNCHANGED <<upload_pending, data_pointer, webterm_cmd, stack, accepts,
                   history>>

\* Mutant: the pending upload of a lost connection is not discarded.
CloseWithoutDiscard(c) ==
    /\ httpd_close_conn(c, upload)
    /\ UNCHANGED <<upload_pending, upload_hs, web, data_pointer, webterm_cmd, stack,
                   accepts, history>>

\* Mutant: losing any connection resets upgrade_status.
DiscardAlways(c) ==
    /\ web' = [web EXCEPT !.status = "idle"]
    /\ httpd_close_conn(c, upload)
    /\ upload_pending' = (upload_pending /\ upload_hs # c)
    /\ upload_hs' = IF upload_hs = c THEN NULL ELSE upload_hs
    /\ UNCHANGED <<data_pointer, webterm_cmd, stack, accepts, history>>

\* httpd_err and httpd_poll_cb: the connection of a completed upload is lost before
\* it was armed (httpd_discard_pending_upload), and is freed.
DiscardAndClose(c) ==
    LET lost == upload_hs = c IN
    /\ upload_pending' = (upload_pending /\ ~lost)
    /\ upload_hs' = IF lost THEN NULL ELSE upload_hs
    /\ web' = [web EXCEPT !.status = IF lost THEN "idle" ELSE @]
    /\ httpd_state_reset(c, IF lost
                            THEN [upload EXCEPT !.done = FALSE, !.failed = FALSE]
                            ELSE upload,
                         IF hs_global = c THEN NULL ELSE hs_global)
    /\ hs' = [hs EXCEPT ![c] = FreeHs]
    /\ UNCHANGED <<data_pointer, webterm_cmd, stack, accepts, history>>

\* Replies without touching the transfer state.
Respond(c) ==
    /\ \E h \in httpd_send_static([hs[c] EXCEPT !.idle = FALSE]) :
          hs' = [hs EXCEPT ![c] = h]
    /\ UNCHANGED <<uploadVars, ownerVars, web, stack, accepts, history>>

\* httpd_check_upload_complete: h, u, w, up, g and bv are the connection, upload,
\* web, upload_hs, hs_global and boundary_value as its caller leaves them.
httpd_check_upload_complete(c, h, u, w, up, g, bv) ==
    IF h.upload >= h.total + Trailer
    THEN /\ \E r \in httpd_send_static(ResetHs(h)) : hs' = [hs EXCEPT ![c] = r]
         /\ upload' = [ZeroUpload EXCEPT !.done = TRUE, !.failed = u.failed]
         /\ upload_pending' = (upload_pending \/ ~u.failed)
         /\ upload_hs' = IF u.failed THEN up ELSE c
         /\ web' = [w EXCEPT !.status = "verifying", !.size = h.total]
         /\ job' = IF u.failed THEN job ELSE [sess |-> h.sess, size |-> h.total]
         /\ hs_global' = NULL
         /\ backup' = NoBackup
         /\ boundary_value' = FALSE
    ELSE /\ hs' = [hs EXCEPT ![c] = h]
         /\ upload' = u
         /\ upload_hs' = up
         /\ web' = w
         /\ hs_global' = g
         /\ boundary_value' = bv
         /\ UNCHANGED <<upload_pending, backup, job>>

\* Mutant: only the bytes stored are counted.
FirstHsCapped(h, t, n) ==
    [h EXCEPT !.total = t, !.upload = Least(n, t), !.got = n]

\* httpd_findandstore_firstchunk found the file part: an image of t units, n of
\* which (or its trailer) came in this segment.
FirstHs(h, t, n) == [h EXCEPT !.total = t, !.upload = n, !.got = n]

\* Mutant: an image larger than the RAM is not marked failed.
FirstUploadNoRamCheck(u, t, n) ==
    [u EXCEPT !.data_start_found = TRUE, !.failed = @ \/ t > SizeLimit]

FirstUpload(u, t, n) ==
    [u EXCEPT !.data_start_found = TRUE,
              !.failed = @ \/ t > SizeLimit \/ Least(n, t) > RamUnits]

FirstPointer(t, n) ==
    IF t > SizeLimit \/ Least(n, t) > RamUnits THEN 0 ELSE Least(n, t)

FirstWeb(c, reboot) == [web EXCEPT !.type = hs[c].sess, !.reboot = reboot]

\* ... or did not find it: not the field name, or not the start of the data, or
\* a Content-Length smaller than the headers, which marks the upload failed.
NoFirstChunk(c, u) ==
    \/ upload' = u /\ web' = web
    \/ \E reboot \in BOOLEAN, failed \in {u.failed, TRUE} :
          /\ upload' = [u EXCEPT !.failed = failed]
          /\ web' = FirstWeb(c, reboot)

-----------------------------------------------------------------------------
(* lwIP callbacks.                                                         *)

httpd_accept(c) ==
    /\ InLwip /\ web.running
    /\ ~hs[c].live
    /\ accepts < MaxAccepts
    /\ accepts' = accepts + 1
    /\ hs' = [hs EXCEPT ![c] = NewHs(accepts + 1)]
    /\ UNCHANGED <<uploadVars, ownerVars, web, webterm_cmd, stack, history>>

\* httpd_recv with p = NULL: the client half-closed.
httpd_recv_close(c) ==
    /\ Rx(c)
    /\ ArmAndClose(c)

\* httpd_recv could not allocate its copy of the segment.
httpd_recv_nomem(c) ==
    /\ RecvMallocFails
    /\ Rx(c)
    /\ httpd_close_conn(c, upload)
    /\ UNCHANGED <<upload_pending, upload_hs, data_pointer, web, webterm_cmd,
                   stack, accepts, history>>

\* A request answered from a static buffer or file.
httpd_recv_static(c) ==
    /\ Rx(c) /\ hs[c].state = "NONE"
    /\ Respond(c)
    /\ UNCHANGED webterm_cmd

\* POST /webterm/cmd: the one pending slot is overwritten.
webterm_execute_command(c, cmd) ==
    /\ Rx(c) /\ hs[c].state = "NONE"
    /\ webterm_cmd' = cmd
    /\ Respond(c)

\* Not a request the server knows, or an unusable one: httpd_recv_abort.
httpd_recv_abort(c) ==
    /\ Rx(c) /\ hs[c].state = "NONE"
    /\ httpd_close_conn(c, upload)
    /\ UNCHANGED <<upload_pending, upload_hs, data_pointer, web, webterm_cmd,
                   stack, accepts, history>>

\* A segment that changes nothing but last_activity: the body of a request that
\* is already being answered, or a web-terminal request that gets no reply.
httpd_recv_ignored(c) ==
    /\ Rx(c) /\ hs[c].state # "UPLOAD_REQUEST"
    /\ hs' = [hs EXCEPT ![c].idle = FALSE]
    /\ UNCHANGED <<uploadVars, ownerVars, web, webterm_cmd, stack, accepts, history>>

\* Mutant: the upload RAM is initialised before the busy check.
BusyAfterRamInit(c) ==
    /\ Rx(c) /\ hs[c].state = "NONE"
    /\ Busy(c)
    /\ \E h \in httpd_send_static(hs[c]) : hs' = [hs EXCEPT ![c] = h]
    /\ ram' = [use |-> "upload", sess |-> hs[c].sess, n |-> 0]
    /\ UNCHANGED <<uploadVars, ownerVars, web, stack, accepts, job, taken, webterm_cmd>>

\* POST of an image or GET /backup while another transfer or image is pending.
httpd_recv_busy(c) ==
    /\ Rx(c) /\ hs[c].state = "NONE"
    /\ Busy(c)
    /\ Respond(c)
    /\ UNCHANGED webterm_cmd

\* POST of an image without a usable Content-Length: nothing is owned yet.
httpd_recv_post_badlength(c) ==
    /\ Rx(c) /\ hs[c].state = "NONE"
    /\ ~Busy(c)
    /\ upload_pending' = FALSE
    /\ upload_hs' = NULL
    /\ httpd_close_conn(c, ZeroUpload)
    /\ UNCHANGED <<data_pointer, web, webterm_cmd, stack, accepts, history>>

\* The upload takes the globals and gives them up at once: there is no boundary
\* (or no memory for it), or the image is below the minimum size, which is less
\* than one unit.
httpd_recv_post_rejected(c) ==
    /\ Rx(c) /\ hs[c].state = "NONE"
    /\ ~Busy(c)
    /\ upload_pending' = FALSE
    /\ upload_hs' = NULL
    /\ hs_global' = NULL
    /\ backup' = NoBackup
    /\ boundary_value' = FALSE
    /\ upload' = ZeroUpload
    /\ hs' = [hs EXCEPT ![c] = FreeHs]
    /\ \/ UNCHANGED <<web, ram, data_pointer>>
       \/ /\ \E reboot \in BOOLEAN : web' = FirstWeb(c, reboot)
          /\ ram' = [use |-> "upload", sess |-> hs[c].sess, n |-> 0]
          /\ data_pointer' = 0
    /\ UNCHANGED <<webterm_cmd, stack, accepts, job, taken>>

\* POST of an image: the upload owns the globals; the first segment holds the
\* file part's data (t units announced, n received) or only headers.
httpd_recv_post(c) ==
    LET h == [hs[c] EXCEPT !.state = "UPLOAD_REQUEST", !.owns = TRUE, !.idle = FALSE]
    IN  /\ Rx(c) /\ hs[c].state = "NONE"
        /\ ~Busy(c)
        /\ ram' = [use |-> "upload", sess |-> h.sess, n |-> 0]
        /\ \/ \E t \in 1..MaxData, n \in 0..MaxPacket, reboot \in BOOLEAN :
                 /\ data_pointer' = FirstPointer(t, n)
                 /\ httpd_check_upload_complete(c, FirstHs(h, t, n),
                       FirstUpload(ZeroUpload, t, n), FirstWeb(c, reboot), NULL, c, TRUE)
           \/ /\ NoFirstChunk(c, ZeroUpload)
              /\ hs' = [hs EXCEPT ![c] = h]
              /\ upload_hs' = NULL
              /\ hs_global' = c
              /\ boundary_value' = TRUE
              /\ data_pointer' = 0
              /\ UNCHANGED <<upload_pending, backup, job>>
        /\ UNCHANGED <<webterm_cmd, stack, accepts, taken>>

\* The second segment of an upload whose first one held only headers.
httpd_recv_first(c) ==
    LET h == [hs[c] EXCEPT !.idle = FALSE]
    IN  /\ Rx(c) /\ h.state = "UPLOAD_REQUEST"
        /\ ~upload.data_start_found
        /\ \E t \in 1..MaxData, n \in 0..MaxPacket, reboot \in BOOLEAN :
              /\ data_pointer' = FirstPointer(t, n)
              /\ httpd_check_upload_complete(c, FirstHs(h, t, n),
                    FirstUpload(upload, t, n), FirstWeb(c, reboot),
                    upload_hs, hs_global, boundary_value)
        /\ UNCHANGED <<webterm_cmd, stack, accepts, ram, taken>>

\* ... in which the file part is missing, too, or announces too small an image.
httpd_recv_nofirst(c) ==
    /\ Rx(c) /\ hs[c].state = "UPLOAD_REQUEST"
    /\ ~upload.data_start_found
    /\ \/ /\ UNCHANGED web
          /\ httpd_close_conn(c, upload)
       \/ \E reboot \in BOOLEAN, failed \in {upload.failed, TRUE} :
             /\ web' = FirstWeb(c, reboot)
             /\ httpd_close_conn(c, [upload EXCEPT !.failed = failed])
    /\ UNCHANGED <<upload_pending, upload_hs, data_pointer, webterm_cmd, stack,
                   accepts, history>>

\* httpd_handle_upload_data: n more units, of which only the announced image is
\* stored.
httpd_recv_data(c) ==
    /\ Rx(c) /\ hs[c].state = "UPLOAD_REQUEST"
    /\ upload.data_start_found
    /\ \E n \in 1..MaxPacket :
          LET h == [hs[c] EXCEPT !.idle = FALSE, !.upload = @ + n, !.got = @ + n]
              store == Least(n, h.total - data_pointer)
              over == data_pointer > h.total
              full == data_pointer + store > RamUnits
          IN  /\ data_pointer' = IF upload.failed \/ over \/ full THEN data_pointer
                                 ELSE data_pointer + store
              /\ httpd_check_upload_complete(c, h,
                    [upload EXCEPT !.failed = @ \/ over \/ full],
                    web, upload_hs, hs_global, boundary_value)
    /\ UNCHANGED <<webterm_cmd, stack, accepts, ram, taken>>

\* httpd_handle_backup after its first read: k chunks in all, the first in RAM;
\* the header goes first.  st is the stack the callback returns to.
StartBackup(c, k, st) ==
    LET h == [hs[c] EXCEPT !.state = "FILE_REQUEST", !.owns = TRUE, !.upload = 1,
                           !.dataptr = "header", !.idle = FALSE]
    IN  /\ ram' = [use |-> "backup", sess |-> hs[c].sess, n |-> 1]
        /\ backup' = [backup EXCEPT !.data_size = 1, !.sending_header = TRUE,
                                    !.chunked = (k # 1), !.remaining = k - 1,
                                    !.chunk_num = IF k # 1 THEN 2 ELSE @]
        /\ hs_global' = c
        /\ \E r \in httpd_send_data(h) : hs' = [hs EXCEPT ![c] = r]
        /\ stack' = st
        /\ UNCHANGED <<uploadVars, web, webterm_cmd, accepts, job>>

\* ... or after a read that failed, which leaves what it did read in the RAM.
FailBackup(c, st) ==
    /\ \E r \in httpd_send_static([hs[c] EXCEPT !.idle = FALSE]) :
          hs' = [hs EXCEPT ![c] = r]
    /\ ram' = [use |-> "backup", sess |-> hs[c].sess, n |-> 0]
    /\ stack' = st
    /\ UNCHANGED <<uploadVars, ownerVars, web, webterm_cmd, accepts, job>>

\* GET /backup on NAND or eMMC: the read does not call back into the server.
\* A request that names no partition, size or flash is answered by
\* httpd_recv_static.
httpd_handle_backup(c) ==
    /\ ~ReadPolls
    /\ Rx(c) /\ hs[c].state = "NONE"
    /\ ~Busy(c)
    /\ \/ \E k \in 1..MaxChunks : StartBackup(c, k, stack)
       \/ FailBackup(c, stack)
    /\ UNCHANGED taken

\* GET /backup on SPI-NOR: sf_chunk_read calls run_command, which polls the
\* server inside the tcp_recv callback.
httpd_handle_backup_read(c) ==
    /\ ReadPolls
    /\ Rx(c) /\ hs[c].state = "NONE"
    /\ ~Busy(c)
    /\ Len(stack) < MaxDepth
    /\ stack' = <<Frame("poll"), [Frame("backup_read") EXCEPT !.hs = c, !.n = hs[c].sess]>>
                \o stack
    /\ UNCHANGED <<hs, uploadVars, ownerVars, web, webterm_cmd, accepts, history>>

\* ... and goes on with the connection it was called for, whatever became of it.
httpd_handle_backup_resume ==
    /\ At("backup_read")
    /\ \/ StartBackup(stack[1].hs, 1, Tail(stack))
       \/ FailBackup(stack[1].hs, Tail(stack))
    /\ taken' = (taken \/ hs[stack[1].hs].sess # stack[1].n \/ Busy(stack[1].hs))

\* httpd_sent: when the header has left, the first chunk follows it.
HeaderDone(c) == Owner(c) /\ backup.sending_header /\ hs[c].upload = 0

SentHs(c, more) ==
    LET h == [hs[c] EXCEPT !.unacked = more, !.idle = FALSE]
    IN  IF HeaderDone(c)
        THEN [h EXCEPT !.state = "FILE_REQUEST", !.dataptr = "ram",
                       !.upload = backup.data_size]
        ELSE h

\* Mutant: the header is never marked as sent.
SentBackupKeepsHeader(c) == backup

SentBackup(c) == [backup EXCEPT !.sending_header = @ /\ ~HeaderDone(c)]

\* More of the buffer can be queued; more: other segments are still unacknowledged.
httpd_sent_more(c) ==
    /\ Rx(c) /\ hs[c].unacked
    /\ \E more \in BOOLEAN :
          /\ SentHs(c, more).upload > 0
          /\ \E r \in httpd_send_data(SentHs(c, more)) : hs' = [hs EXCEPT ![c] = r]
    /\ backup' = SentBackup(c)
    /\ UNCHANGED <<uploadVars, hs_global, web, webterm_cmd, stack, accepts, history>>

\* A chunk has left: ask the poll loop for the next one (or still wait for it).
httpd_sent_chunk(c) ==
    /\ Rx(c) /\ hs[c].unacked
    /\ Owner(c)
    /\ backup.chunk_busy \/ (backup.chunked /\ backup.remaining > 0)
    /\ \E more \in BOOLEAN :
          /\ SentHs(c, more).upload = 0
          /\ hs' = [hs EXCEPT ![c] = SentHs(c, more)]
    /\ backup' = [SentBackup(c) EXCEPT !.chunk_busy = TRUE]
    /\ UNCHANGED <<uploadVars, hs_global, web, webterm_cmd, stack, accepts, history>>

\* Everything has left.
httpd_sent_close(c) ==
    /\ Rx(c) /\ hs[c].unacked
    /\ SentHs(c, TRUE).upload = 0
    /\ ~(Owner(c) /\ (backup.chunk_busy \/ (backup.chunked /\ backup.remaining > 0)))
    /\ ArmAndClose(c)

\* httpd_err: reset by the peer, retransmissions exhausted, or killed by lwIP to
\* make room for a connection of higher priority.
httpd_err(c) ==
    /\ InLwip /\ hs[c].live
    /\ DiscardAndClose(c)

\* Mutant: the owner of a transfer is never timed out.
TimeoutSparesOwner(c) ==
    /\ InLwip /\ hs[c].live
    /\ hs[c].idle /\ ~hs[c].owns
    /\ DiscardAndClose(c)

\* httpd_poll_cb on a connection that was idle for 300 s.
httpd_poll_cb_timeout(c) ==
    /\ InLwip /\ hs[c].live
    /\ hs[c].idle
    /\ DiscardAndClose(c)

\* httpd_poll_cb retries what lwIP did not take.
httpd_poll_cb_send(c) ==
    /\ InLwip /\ hs[c].live
    /\ ~hs[c].idle
    /\ hs[c].upload > 0
    /\ \E r \in httpd_send_data(hs[c]) : hs' = [hs EXCEPT ![c] = r]
    /\ UNCHANGED <<uploadVars, ownerVars, web, webterm_cmd, stack, accepts, history>>

\* 300 s pass without a segment from the client.
IdleTime(c) ==
    /\ hs[c].live /\ ~hs[c].idle
    /\ hs' = [hs EXCEPT ![c].idle = TRUE]
    /\ UNCHANGED <<uploadVars, ownerVars, web, webterm_cmd, stack, accepts, history>>

-----------------------------------------------------------------------------
(* Starting and stopping (net/httpd.c).                                    *)

\* failsafe_httpd_stop and reset_webfailsafe_state; upgrade_status stays.
HttpdStopEffect(running) ==
    /\ hs' = [c \in Conn |-> FreeHs]
    /\ hs_global' = NULL
    /\ upload' = ZeroUpload
    /\ backup' = NoBackup
    /\ upload_pending' = FALSE
    /\ upload_hs' = NULL
    /\ boundary_value' = FALSE
    /\ web' = [StoppedWeb EXCEPT !.running = running, !.status = web.status,
                                 !.size = web.size]
    /\ UNCHANGED <<data_pointer, accepts, history>>

\* do_httpd from the console, the button or a failed autoboot.
HttpdStart ==
    /\ stack = <<>>
    /\ ~web.running
    /\ web' = [web EXCEPT !.running = TRUE]
    /\ UNCHANGED <<hs, uploadVars, ownerVars, webterm_cmd, stack, accepts, history>>

\* "httpd s" on the console.
HttpdStop ==
    /\ stack = <<>>
    /\ web.running
    /\ HttpdStopEffect(FALSE)
    /\ UNCHANGED <<webterm_cmd, stack>>

\* do_reset: the device starts again.
Reboot ==
    /\ hs' = [c \in Conn |-> FreeHs]
    /\ hs_global' = NULL
    /\ upload' = ZeroUpload
    /\ backup' = NoBackup
    /\ upload_pending' = FALSE
    /\ upload_hs' = NULL
    /\ boundary_value' = FALSE
    /\ data_pointer' = 0
    /\ web' = StoppedWeb
    /\ webterm_cmd' = "none"
    /\ stack' = <<>>
    /\ ram' = NoRam
    /\ job' = NoJob
    /\ UNCHANGED <<accepts, taken>>

-----------------------------------------------------------------------------
(* failsafe_httpd_poll.                                                    *)

connVars == <<hs, uploadVars, ownerVars, accepts>>

\* The console loop polls again.
MainLoop ==
    /\ stack = <<>>
    /\ web.running
    /\ stack' = <<Frame("poll")>>
    /\ UNCHANGED <<connVars, web, webterm_cmd, history>>

PollReady ==
    /\ At("poll")
    /\ web.running /\ web.ready
    /\ web' = [web EXCEPT !.ready = FALSE, !.status = "verifying"]
    /\ Goto(Frame("ready_wait"))
    /\ UNCHANGED <<connVars, webterm_cmd, history>>

PollFlashing ==
    /\ At("ready_wait")
    /\ web' = [web EXCEPT !.status = "flashing"]
    /\ Goto(Frame("flash_wait"))
    /\ UNCHANGED <<connVars, webterm_cmd, history>>

\* do_http_upgrade starts, with the size and the type of this moment.
do_http_upgrade ==
    /\ At("flash_wait")
    /\ Goto(Frame("flash"))
    /\ UNCHANGED <<connVars, web, webterm_cmd, history>>

\* Mutant: a command is retried for ever.
ExecuteForEver ==
    /\ At("flash")
    /\ stack[1].n < MaxCommands
    /\ RunCommand([Frame("flash_cmd") EXCEPT !.n = stack[1].n])
    /\ UNCHANGED <<connVars, web, webterm_cmd, history>>

\* execute_command of an upgrade step.
execute_command ==
    /\ At("flash")
    /\ stack[1].n < MaxCommands
    /\ RunCommand([Frame("flash_cmd") EXCEPT !.n = stack[1].n + 1])
    /\ UNCHANGED <<connVars, web, webterm_cmd, history>>

\* ... whose command reads the upload RAM once the nested poll has returned.
FlashCommand ==
    /\ At("flash_cmd")
    /\ Goto([Frame("flash") EXCEPT !.n = stack[1].n])
    /\ UNCHANGED <<connVars, web, webterm_cmd, history>>

PollUpgraded(ok) ==
    /\ At("flash")
    /\ upload_pending' = FALSE
    /\ web' = [web EXCEPT !.status = IF ~ok THEN "type_mismatch"
                                     ELSE IF web.reboot THEN "rebooting"
                                     ELSE "upgrade_done"]
    /\ Goto(Frame(IF ok THEN "done_wait" ELSE "failed_wait"))
    /\ UNCHANGED <<hs, upload, upload_hs, boundary_value, data_pointer, ownerVars,
                   accepts, webterm_cmd, history>>

PollDone ==
    \/ /\ At("failed_wait")
       /\ Return
       /\ UNCHANGED <<connVars, web, webterm_cmd, history>>
    \/ /\ At("done_wait")
       /\ ~web.reboot
       /\ Return
       /\ UNCHANGED <<connVars, web, webterm_cmd, history>>
    \/ /\ At("done_wait")
       /\ web.reboot
       /\ Reboot

\* webterm_run_pending_command takes the command and runs it.
webterm_run_pending_command ==
    /\ At("poll")
    /\ web.running /\ ~web.ready
    /\ IF webterm_cmd = "none"
       THEN Goto(Frame("chunk"))
       ELSE RunCommand([Frame("cmd") EXCEPT !.cmd = webterm_cmd, !.n = 1])
    /\ webterm_cmd' = "none"
    /\ UNCHANGED <<connVars, web, history>>

\* A command that itself calls run_command polls again.
CommandPolls ==
    /\ At("cmd")
    /\ stack[1].cmd = "other"
    /\ stack[1].n < MaxCommands
    /\ RunCommand([stack[1] EXCEPT !.n = @ + 1])
    /\ UNCHANGED <<connVars, web, webterm_cmd, history>>

\* The command's own effect, then the rest of the poll if the server still runs.
CommandDone ==
    /\ At("cmd")
    /\ \/ /\ stack[1].cmd = "other"
          /\ IF web.running THEN Goto(Frame("chunk")) ELSE Return
          /\ UNCHANGED <<connVars, web, webterm_cmd, history>>
       \/ /\ stack[1].cmd = "stop"
          /\ IF web.running
             THEN HttpdStopEffect(FALSE)
             ELSE UNCHANGED <<connVars, web, history>>
          /\ Return
          /\ UNCHANGED webterm_cmd
       \/ /\ stack[1].cmd = "restart"
          /\ HttpdStopEffect(TRUE)
          /\ Goto(Frame("chunk"))
          /\ UNCHANGED webterm_cmd
       \/ /\ stack[1].cmd = "reset"
          /\ Reboot

\* backup_chunk_next reads the next chunk into RAM and waits with the network
\* served.
backup_chunk_next ==
    /\ At("chunk")
    /\ backup.chunked /\ backup.chunk_busy /\ backup.remaining > 0
    /\ ram' = [use |-> "backup", n |-> backup.chunk_num,
               sess |-> IF hs_global = NULL THEN 0 ELSE hs[hs_global].sess]
    /\ backup' = [backup EXCEPT !.data_size = 1, !.chunk_num = @ + 1,
                                !.remaining = @ - 1]
    /\ Goto([Frame("chunk_wait") EXCEPT
                !.n = IF hs_global = NULL THEN 0 ELSE hs[hs_global].sess])
    /\ UNCHANGED <<hs, uploadVars, hs_global, accepts, web, webterm_cmd, job, taken>>

\* ... then hands the chunk to whichever connection is hs_global now.
backup_chunk_resume ==
    /\ At("chunk_wait")
    /\ IF hs_global # NULL
       THEN LET h == [hs[hs_global] EXCEPT
                         !.dataptr = IF backup.data_size > 0 THEN "ram" ELSE "null",
                         !.upload = backup.data_size]
            IN  /\ \E r \in httpd_send_data(h) : hs' = [hs EXCEPT ![hs_global] = r]
                /\ backup' = [backup EXCEPT !.chunk_busy = FALSE]
                /\ taken' = (taken \/ h.sess # stack[1].n)
       ELSE /\ backup' = [backup EXCEPT !.chunk_busy = FALSE, !.chunked = FALSE,
                                        !.remaining = 0]
            /\ UNCHANGED <<hs, taken>>
    /\ Goto(Frame("rx"))
    /\ UNCHANGED <<uploadVars, hs_global, accepts, web, webterm_cmd, ram, job>>

\* ... or cannot read it and closes the connection.
backup_chunk_failed ==
    /\ At("chunk")
    /\ backup.chunked /\ backup.chunk_busy /\ backup.remaining > 0
    /\ IF hs_global # NULL
       THEN httpd_close_conn(hs_global, upload)
       ELSE /\ backup' = [backup EXCEPT !.chunk_busy = FALSE, !.chunked = FALSE,
                                        !.remaining = 0]
            /\ UNCHANGED <<hs, hs_global, upload, boundary_value>>
    /\ Goto(Frame("rx"))
    /\ UNCHANGED <<upload_pending, upload_hs, data_pointer, accepts, web,
                   webterm_cmd, history>>

PollNoChunk ==
    /\ At("chunk")
    /\ ~(backup.chunked /\ backup.chunk_busy /\ backup.remaining > 0)
    /\ Goto(Frame("rx"))
    /\ UNCHANGED <<connVars, web, webterm_cmd, history>>

\* eth_rx() and sys_check_timeouts() of the poll return.
PollReturn ==
    /\ At("rx")
    /\ Return
    /\ UNCHANGED <<connVars, web, webterm_cmd, history>>

-----------------------------------------------------------------------------

Init ==
    /\ hs = [c \in Conn |-> FreeHs]
    /\ hs_global = NULL
    /\ upload = ZeroUpload
    /\ upload_pending = FALSE
    /\ upload_hs = NULL
    /\ boundary_value = FALSE
    /\ data_pointer = 0
    /\ backup = NoBackup
    /\ web = StoppedWeb
    /\ webterm_cmd = "none"
    /\ stack = <<>>
    /\ accepts = 0
    /\ ram = NoRam
    /\ job = NoJob
    /\ taken = FALSE

Callback(c) ==
    \/ httpd_accept(c)
    \/ httpd_recv_close(c)
    \/ httpd_recv_nomem(c)
    \/ httpd_recv_static(c)
    \/ \E cmd \in Cmd : webterm_execute_command(c, cmd)
    \/ httpd_recv_abort(c)
    \/ httpd_recv_ignored(c)
    \/ httpd_recv_busy(c)
    \/ httpd_recv_post_badlength(c)
    \/ httpd_recv_post_rejected(c)
    \/ httpd_recv_post(c)
    \/ httpd_recv_first(c)
    \/ httpd_recv_nofirst(c)
    \/ httpd_recv_data(c)
    \/ httpd_handle_backup(c)
    \/ httpd_handle_backup_read(c)
    \/ httpd_sent_more(c)
    \/ httpd_sent_chunk(c)
    \/ httpd_sent_close(c)
    \/ httpd_err(c)
    \/ httpd_poll_cb_timeout(c)
    \/ httpd_poll_cb_send(c)
    \/ IdleTime(c)

Poll ==
    \/ httpd_handle_backup_resume
    \/ MainLoop
    \/ PollReady
    \/ PollFlashing
    \/ do_http_upgrade
    \/ execute_command
    \/ FlashCommand
    \/ \E ok \in BOOLEAN : PollUpgraded(ok)
    \/ PollDone
    \/ webterm_run_pending_command
    \/ CommandPolls
    \/ CommandDone
    \/ backup_chunk_next
    \/ backup_chunk_resume
    \/ backup_chunk_failed
    \/ PollNoChunk
    \/ PollReturn

Next ==
    \/ HttpdStart
    \/ HttpdStop
    \/ Poll
    \/ \E c \in Conn : Callback(c)

Spec == Init /\ [][Next]_vars

\* The loop goes on, time passes, and lwIP's slow timer is served at every
\* eth_rx/sys_check_timeouts point.  Nothing is assumed of the clients.
Fairness ==
    /\ WF_vars(Poll)
    /\ \A c \in Conn : WF_vars(IdleTime(c)) /\ SF_vars(httpd_poll_cb_timeout(c))

FairSpec == Spec /\ Fairness

-----------------------------------------------------------------------------
(* Properties.                                                             *)

States == {"NONE", "UPLOAD_REQUEST", "FILE_REQUEST"}

Hs == [live : BOOLEAN, state : States, upload : Nat, total : Nat,
       dataptr : {"null", "static", "header", "ram"}, owns : BOOLEAN,
       unacked : BOOLEAN, idle : BOOLEAN, sess : Nat, got : Nat, out : Seq(Int)]

Frames == {f \in [pc : PollPcs \cup {"backup_read"}, cmd : Cmd \cup {"none"},
                  hs : Conn \cup {NULL}, n : Nat] :
              f.pc = "backup_read" => f.hs \in Conn}

Uploads == [data_start_found : BOOLEAN, failed : BOOLEAN, done : BOOLEAN]

Backups == [data_size : {0, 1}, sending_header : BOOLEAN, chunked : BOOLEAN,
            chunk_busy : BOOLEAN, remaining : Nat, chunk_num : Nat]

Webs == [running : BOOLEAN, ready : BOOLEAN, type : Nat, reboot : BOOLEAN,
         status : {"idle", "verifying", "flashing", "type_mismatch", "rebooting",
                   "upgrade_done"},
         size : Nat]

Rams == [use : {"none", "upload", "backup"}, sess : Nat, n : Nat]

Jobs == [sess : Nat, size : Nat]

\* Every global of the server keeps its type.
TypeOK ==
    /\ hs \in [Conn -> Hs]
    /\ hs_global \in Conn \cup {NULL}
    /\ upload \in Uploads
    /\ upload_pending \in BOOLEAN
    /\ upload_hs \in Conn \cup {NULL}
    /\ boundary_value \in BOOLEAN
    /\ data_pointer \in Nat
    /\ backup \in Backups
    /\ web \in Webs
    /\ webterm_cmd \in Cmd \cup {"none"}
    /\ stack \in Seq(Frames)
    /\ accepts \in Nat
    /\ ram \in Rams
    /\ job \in Jobs
    /\ taken \in BOOLEAN

\* The global upload/backup state has one owner: hs_global is a live connection
\* that owns it, and no other connection believes it does.  Every callback that
\* dereferences hs_global, frees the boundary or clears the structs relies on it.
SingleOwner ==
    /\ hs_global # NULL => hs[hs_global].live /\ hs[hs_global].owns
    /\ \A c \in Conn : hs[c].owns => hs_global = c

\* The RAM belongs to the transfer that owns the globals: an upload's bytes or a
\* backup's chunk are never replaced by those of another connection.
RamOwned ==
    hs_global # NULL =>
        LET h == hs[hs_global]
        IN  /\ ram.sess = h.sess
            /\ ram.use = IF h.state = "UPLOAD_REQUEST" THEN "upload" ELSE "backup"

\* An image that keeps the server busy is on its way to be flashed: its client's
\* connection can still arm it, it is armed, or it is being flashed.  Otherwise
\* every later upload would be answered 503 for ever.
PendingAccounted ==
    upload_pending =>
        \/ /\ upload.done /\ ~upload.failed
           /\ upload_hs # NULL
           /\ hs[upload_hs].live /\ hs[upload_hs].state = "FILE_REQUEST"
           /\ hs[upload_hs].sess = job.sess
        \/ web.ready
        \/ Upgrading

\* From the moment it is armed until the last flash command, even when the server
\* is stopped in between, the upload RAM holds the whole image its client was
\* answered 200 OK for; do_http_upgrade is called with its size and its type.
ArmedImage ==
    /\ web.ready \/ Upgrading =>
          /\ ram.use = "upload" /\ ram.sess = job.sess
          /\ data_pointer = job.size
    /\ web.ready \/ (\E i \in DOMAIN stack : stack[i].pc \in {"ready_wait", "flash_wait"}) =>
          /\ web.size = job.size
          /\ web.type = job.sess

\* One upgrade at a time: no image is armed while another is being flashed.
OneUpgrade ==
    /\ Upgrading => ~web.ready
    /\ \A i, j \in DOMAIN stack :
          stack[i].pc \in UpgradePcs /\ stack[j].pc \in UpgradePcs => i = j

\* On SPI-NOR, where a backup read lets the server run inside its callback, the
\* three of them fail only after a read that went on although its connection had
\* been closed or the transfer state belonged to another one by then.
ReentryOnly == taken \/ (SingleOwner /\ PendingAccounted /\ OneUpgrade)

\* /upgrade_status says "flashing" while the flash is being written.
FlashingReported ==
    \A i \in DOMAIN stack :
        stack[i].pc \in {"flash_wait", "flash", "flash_cmd"} => web.status = "flashing"

\* hs->upload counts everything received since the start of the data
\* (failsafe_httpd.c, comment in httpd_findandstore_firstchunk).
UploadCounter ==
    \A c \in Conn :
        hs[c].state = "UPLOAD_REQUEST" /\ upload.data_start_found
            => hs[c].upload = hs[c].got

\* ... and the only thing that breaks the count is a chunk handed to an upload
\* that became hs_global during backup_chunk_next's wait.
UploadCounterUnlessTaken == taken \/ UploadCounter

\* A backup's client receives the header, then every chunk once and in order.
InOrder(s) == \A i \in DOMAIN s : s[i] = i - 1

BackupInOrder ==
    ~taken => \A c \in Conn : Owner(c) => InOrder(hs[c].out)

\* An owner gives the transfer state back, however its client behaves.
OwnerReleases == \A c \in Conn : hs_global = c ~> hs_global # c

\* Every upgrade comes to its end although its commands poll the server.
UpgradeEnds == Upgrading ~> ~Upgrading
=============================================================================
