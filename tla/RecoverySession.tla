-------------------------- MODULE RecoverySession --------------------------
(***************************************************************************)
(* What the Web failsafe server promises, without connections, polls or    *)
(* buffers: there is one place for a transfer.  A client fills it with an  *)
(* image or reads a backup through it; an image that was accepted is       *)
(* flashed once, as it was accepted, or dropped, and until then nobody     *)
(* else gets the place.                                                    *)
(***************************************************************************)
EXTENDS Naturals

CONSTANTS
    Session,  \* the clients' sessions
    Size      \* the sizes of images

VARIABLES
    phase,    \* what the place is used for
    image     \* whose transfer it is, and how much of it there is to flash

abstractVars == <<phase, image>>

Nothing == [sess |-> 0, size |-> 0]

(* An upload begins. *)
Begin ==
    /\ phase = "free" /\ phase' = "receiving"
    /\ image' \in [sess : Session, size : {0}]

(* A backup begins. *)
Send ==
    /\ phase = "free" /\ phase' = "sending"
    /\ image' \in [sess : Session, size : {0}]

(* The image is complete and its client is told so; a small one may have   *)
(* come with the request.                                                  *)
Accept ==
    /\ phase \in {"free", "receiving"} /\ phase' = "accepted"
    /\ image' \in [sess : Session, size : Size]
    /\ phase = "receiving" => image'.sess = image.sess

(* The client has the answer: nothing but a stop of the server or a        *)
(* restart of the device keeps the image from the flash now.               *)
Arm == phase = "accepted" /\ phase' = "armed" /\ UNCHANGED image

Flash == phase = "armed" /\ phase' = "flashing" /\ UNCHANGED image

(* The image is flashed, or flashing it failed. *)
Finish == phase = "flashing" /\ phase' = "free" /\ image' = Nothing

(* The client is lost or refused, or the server is stopped. *)
Abandon ==
    /\ phase \in {"receiving", "sending", "accepted", "armed"}
    /\ phase' = "free" /\ image' = Nothing

Init == phase = "free" /\ image = Nothing

Next == Begin \/ Send \/ Accept \/ Arm \/ Flash \/ Finish \/ Abandon

Spec == Init /\ [][Next]_abstractVars

(* The place is always given back: every phase ends. *)
Fairness == /\ WF_abstractVars(Abandon \/ Arm \/ Flash)
            /\ WF_abstractVars(Finish)

FairSpec == Spec /\ Fairness
=============================================================================
