------------------------ MODULE FailsafeRefinement ------------------------
(***************************************************************************)
(* FailsafeHttpd implements RecoverySession.  The phase is read off the    *)
(* activations and the globals; what an armed or flashing transfer will    *)
(* write is read off the upload RAM itself, so a step that disturbs the    *)
(* image in it is no step of RecoverySession.                              *)
(***************************************************************************)
EXTENDS FailsafeHttpd

phase ==
    IF Upgrading THEN "flashing"
    ELSE IF web.ready THEN "armed"
    ELSE IF upload_pending THEN "accepted"
    ELSE IF hs_global = NULL THEN "free"
    ELSE IF hs[hs_global].state = "UPLOAD_REQUEST" THEN "receiving" ELSE "sending"

(* The bytes of session ram.sess that are stored in the upload RAM. *)
Stored == [sess |-> IF ram.use = "upload" THEN ram.sess ELSE 0, size |-> data_pointer]

image ==
    IF phase \in {"flashing", "armed"} THEN Stored
    ELSE IF phase = "accepted" THEN job
    ELSE IF phase = "free" THEN NoJob
    ELSE [sess |-> hs[hs_global].sess, size |-> 0]

Recovery == INSTANCE RecoverySession WITH Session <- Nat \ {0}, Size <- Nat \ {0}

-----------------------------------------------------------------------------
(* What the implementation rests on.                                       *)

(* The response of a complete image is on its way. *)
Armable == upload.done /\ ~upload.failed

(* The upload RAM holds the image that was accepted last. *)
Held == ram.use = "upload" /\ ram.sess = job.sess /\ data_pointer = job.size

(* An image goes one way: it is armable, then armed, then flashed, and     *)
(* keeps the place meanwhile.                                              *)
Flow ==
    /\ web.ready \/ Upgrading => ~Armable
    /\ Armable \/ web.ready \/ Upgrading => Held
    /\ Armable \/ web.ready => upload_pending
    /\ Upgrading /\ web.running => upload_pending
    /\ Upgrading => ~web.ready
    /\ upload_hs # NULL => Armable
    /\ upload_pending => hs_global = NULL

(* One activation flashes. *)
OneFlash ==
    \A i, j \in DOMAIN stack :
        stack[i].pc \in UpgradePcs /\ stack[j].pc \in UpgradePcs => i = j

(* A stopped server has no connections and no image. *)
Stopped == ~web.running => ~upload_pending /\ \A c \in Conn : ~hs[c].live

(* A connection that owns the globals is past its request line. *)
Places ==
    \A c \in Conn : /\ hs[c].owns => hs[c].state # "NONE"
                    /\ hs[c].live => hs[c].sess > 0

(* Nothing of a backup is left when its connection has gone, so that       *)
(* backup_chunk_next has nothing to hand to an upload.                     *)
NoChunk ==
    hs_global = NULL \/ hs[hs_global].state = "UPLOAD_REQUEST" =>
        backup.data_size = 0 /\ ~backup.chunked /\ ~backup.sending_header

(* An upload's bytes are in the RAM; its counter may have lost some to     *)
(* backup_chunk_next, but never runs ahead of what is stored.              *)
Receiving ==
    \A c \in Conn : hs[c].state = "UPLOAD_REQUEST" =>
        /\ ram.use = "upload" /\ ram.sess = hs[c].sess /\ ~upload.done
        /\ upload.data_start_found /\ ~upload.failed =>
              /\ hs[c].total > 0
              /\ data_pointer <= hs[c].total
              /\ data_pointer < hs[c].total => hs[c].upload <= data_pointer

(* Together: what every step of failsafe_httpd.c must preserve for the     *)
(* image in the RAM to be the one that is flashed.                         *)
SessionInv == Flow /\ OneFlash /\ Stopped /\ Places /\ NoChunk /\ Receiving

(* The server implements the one place for a transfer, through re-entrant  *)
(* polls, lost connections and stops: see RecoverySession.                 *)
ImplementsSession == Recovery!Spec

(* ... and gives the place back, whatever its clients do. *)
ImplementsFairSession == Recovery!FairSpec
=============================================================================
