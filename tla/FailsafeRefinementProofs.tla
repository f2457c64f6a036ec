--------------------- MODULE FailsafeRefinementProofs ---------------------
(***************************************************************************)
(* FailsafeHttpd implements RecoverySession, for every value of the        *)
(* constants: SessionInv is inductive together with the ownership, and     *)
(* every step maps to one step of RecoverySession or to none.              *)
(***************************************************************************)
EXTENDS FailsafeRefinement, FailsafeHttpdProofs

Step == [Recovery!Next]_<<phase, image>>

-----------------------------------------------------------------------------
(* The stack.                                                              *)

Flashes(s) == \E i \in DOMAIN s : s[i].pc \in UpgradePcs

FlashesOnce(s) ==
    \A i, j \in DOMAIN s : s[i].pc \in UpgradePcs /\ s[j].pc \in UpgradePcs => i = j

\* The innermost of n activations is replaced ...
LEMMA TopFlashes ==
    ASSUME NEW n \in Nat \ {0}, NEW s, NEW t, DOMAIN s = 1..n, DOMAIN t = 1..n,
           \A i \in 2..n : t[i] = s[i], FlashesOnce(s)
    PROVE  /\ (t[1].pc \in UpgradePcs <=> s[1].pc \in UpgradePcs) =>
                 FlashesOnce(t) /\ (Flashes(t) <=> Flashes(s))
           /\ t[1].pc \notin UpgradePcs /\ s[1].pc \in UpgradePcs =>
                 FlashesOnce(t) /\ ~Flashes(t)
           /\ t[1].pc \in UpgradePcs /\ ~Flashes(s) => FlashesOnce(t) /\ Flashes(t)
  <1>1. \A i \in 1..n : i = 1 \/ t[i] = s[i]
    OBVIOUS
  <1>2. 1 \in 1..n
    OBVIOUS
  <1> QED BY <1>1, <1>2, Zenon DEF Flashes, FlashesOnce

\* ... or the innermost returns ...
LEMMA PopFlashes ==
    ASSUME NEW n \in Nat \ {0}, NEW s, NEW t, DOMAIN s = 1..n, DOMAIN t = 1..n - 1,
           \A i \in 1..n - 1 : t[i] = s[i + 1], FlashesOnce(s), s[1].pc \notin UpgradePcs
    PROVE  FlashesOnce(t) /\ (Flashes(t) <=> Flashes(s))
  <1>1. \A i \in 1..n - 1 : i + 1 \in 1..n /\ t[i] = s[i + 1]
    OBVIOUS
  <1>2. \A i \in 1..n : i = 1 \/ (i - 1 \in 1..n - 1 /\ t[i - 1] = s[i])
    OBVIOUS
  <1>3. FlashesOnce(t)
    <2> SUFFICES ASSUME NEW i \in 1..n - 1, NEW j \in 1..n - 1,
                        t[i].pc \in UpgradePcs, t[j].pc \in UpgradePcs
                 PROVE  i = j
      BY Zenon DEF FlashesOnce
    <2>1. i + 1 = j + 1
      BY <1>1, Zenon DEF FlashesOnce
    <2> QED BY <2>1
  <1>4. Flashes(t) <=> Flashes(s)
    BY <1>1, <1>2, Zenon DEF Flashes
  <1> QED BY <1>3, <1>4, Zenon

\* ... or is covered by a poll.
LEMMA PushFlashes ==
    ASSUME NEW n \in Nat \ {0}, NEW s, NEW t, DOMAIN s = 1..n, DOMAIN t = 1..n + 1,
           \A i \in 1..n : t[i + 1] = s[i], FlashesOnce(s), t[1].pc \notin UpgradePcs
    PROVE  FlashesOnce(t) /\ (Flashes(t) <=> Flashes(s))
  <1>1. \A i \in 1..n : i + 1 \in 1..n + 1 /\ t[i + 1] = s[i]
    OBVIOUS
  <1>2. \A i \in 1..n + 1 : i = 1 \/ (i - 1 \in 1..n /\ t[i] = s[i - 1])
    OBVIOUS
  <1>3. FlashesOnce(t)
    <2> SUFFICES ASSUME NEW i \in 1..n + 1, NEW j \in 1..n + 1,
                        t[i].pc \in UpgradePcs, t[j].pc \in UpgradePcs
                 PROVE  i = j
      BY Zenon DEF FlashesOnce
    <2>1. i - 1 = j - 1
      BY <1>2, Zenon DEF FlashesOnce
    <2> QED BY <2>1
  <1>4. Flashes(t) <=> Flashes(s)
    BY <1>1, <1>2, Zenon DEF Flashes
  <1> QED BY <1>3, <1>4, Zenon

\* Goto: the innermost activation goes on, begins to flash, or ends it.
LEMMA GotoFlash ==
    ASSUME TypeOK, OneFlash, stack # <<>>, NEW f \in Frames, Goto(f)
    PROVE  /\ (f.pc \in UpgradePcs <=> stack[1].pc \in UpgradePcs) =>
                 OneFlash' /\ (Upgrading' <=> Upgrading)
           /\ f.pc \notin UpgradePcs /\ stack[1].pc \in UpgradePcs =>
                 OneFlash' /\ ~Upgrading'
           /\ f.pc \in UpgradePcs /\ ~Upgrading => OneFlash' /\ Upgrading'
  <1> DEFINE n == Len(stack)
  <1>1. stack \in Seq(Frames) /\ stack' = <<f>> \o Tail(stack)
    BY Zenon DEF TypeOK, Goto
  <1>2. n \in Nat \ {0} /\ DOMAIN stack = 1..n
    BY <1>1
  <1>3. /\ Len(stack') = n /\ stack'[1] = f /\ \A i \in 2..n : stack'[i] = stack[i]
    BY <1>1, StackSeq
  <1>4. DOMAIN stack' = 1..n
    BY <1>1, <1>3
  <1>5. FlashesOnce(stack)
    BY Zenon DEF OneFlash, FlashesOnce
  <1> HIDE DEF n
  <1>6. /\ (f.pc \in UpgradePcs <=> stack[1].pc \in UpgradePcs) =>
              FlashesOnce(stack') /\ (Flashes(stack') <=> Flashes(stack))
        /\ f.pc \notin UpgradePcs /\ stack[1].pc \in UpgradePcs =>
              FlashesOnce(stack') /\ ~Flashes(stack')
        /\ f.pc \in UpgradePcs /\ ~Flashes(stack) => FlashesOnce(stack') /\ Flashes(stack')
    BY <1>2, <1>3, <1>4, <1>5, TopFlashes, Zenon
  <1> QED BY <1>6, Zenon DEF OneFlash, FlashesOnce, Upgrading, Flashes

\* RunCommand: a nested poll, or none, does not change who flashes.
LEMMA RunFlash ==
    ASSUME TypeOK, OneFlash, stack # <<>>, NEW f \in Frames, RunCommand(f),
           f.pc \in UpgradePcs <=> stack[1].pc \in UpgradePcs
    PROVE  OneFlash' /\ (Upgrading' <=> Upgrading)
  <1> DEFINE n == Len(stack)
             m == <<f>> \o Tail(stack)
             p == Frame("poll")
  <1>1. stack \in Seq(Frames) /\ (stack' = m \/ stack' = <<p, f>> \o Tail(stack))
    BY Zenon DEF TypeOK, RunCommand
  <1>2. p \in Frames /\ p.pc \notin UpgradePcs
    BY FrameType, Zenon DEF PollPcs, Frame, UpgradePcs
  <1>3. n \in Nat \ {0} /\ DOMAIN stack = 1..n /\ Tail(stack) \in Seq(Frames)
    BY <1>1
  <1> HIDE DEF p
  <1>4. /\ Len(m) = n /\ m[1] = f /\ \A i \in 2..n : m[i] = stack[i]
        /\ Len(<<p, f>> \o Tail(stack)) = n + 1
        /\ (<<p, f>> \o Tail(stack))[1] = p
        /\ (<<p, f>> \o Tail(stack))[2] = f
        /\ \A i \in 3..n + 1 : (<<p, f>> \o Tail(stack))[i] = stack[i - 1]
    BY <1>1, <1>2, StackSeq
  <1>5. DOMAIN m = 1..n /\ DOMAIN (<<p, f>> \o Tail(stack)) = 1..n + 1
    BY <1>2, <1>3, <1>4
  <1>6. FlashesOnce(stack)
    BY Zenon DEF OneFlash, FlashesOnce
  <1> HIDE DEF n, m
  <1>7. FlashesOnce(m) /\ (Flashes(m) <=> Flashes(stack))
    BY <1>3, <1>4, <1>5, <1>6, TopFlashes, Zenon
  <1>8. ASSUME NEW t, t = <<p, f>> \o Tail(stack)
        PROVE  FlashesOnce(t) /\ (Flashes(t) <=> Flashes(m))
    <2>1. /\ DOMAIN t = 1..n + 1 /\ t[1] = p /\ t[2] = f
          /\ \A i \in 3..n + 1 : t[i] = stack[i - 1]
      BY <1>4, <1>5, <1>8, Zenon
    <2>2. \A i \in 1..n : t[i + 1] = m[i]
      BY <2>1, <1>3, <1>4
    <2> QED BY <2>1, <2>2, <1>2, <1>3, <1>5, <1>7, PushFlashes, Zenon
  <1>9. FlashesOnce(stack') /\ (Flashes(stack') <=> Flashes(stack))
    BY <1>1, <1>7, <1>8, Zenon
  <1> QED BY <1>9, Zenon DEF OneFlash, FlashesOnce, Upgrading, Flashes

\* Return: an activation that does not flash leaves.
LEMMA ReturnFlash ==
    ASSUME TypeOK, OneFlash, stack # <<>>, stack[1].pc \notin UpgradePcs, Return
    PROVE  OneFlash' /\ (Upgrading' <=> Upgrading)
  <1> DEFINE n == Len(stack)
  <1>1. stack \in Seq(Frames) /\ stack' = Tail(stack)
    BY Zenon DEF TypeOK, Return
  <1>2. n \in Nat \ {0} /\ DOMAIN stack = 1..n /\ DOMAIN stack' = 1..n - 1
    BY <1>1
  <1>3. \A i \in 1..n - 1 : stack'[i] = stack[i + 1]
    BY <1>1
  <1>4. FlashesOnce(stack)
    BY Zenon DEF OneFlash, FlashesOnce
  <1> HIDE DEF n
  <1>5. FlashesOnce(stack') /\ (Flashes(stack') <=> Flashes(stack))
    BY <1>2, <1>3, <1>4, PopFlashes, Zenon
  <1> QED BY <1>5, Zenon DEF OneFlash, FlashesOnce, Upgrading, Flashes

-----------------------------------------------------------------------------
(* The phases and the steps between them.                                  *)

Free == ~Upgrading /\ ~web.ready /\ ~upload_pending /\ hs_global = NULL
Owned == ~Upgrading /\ ~web.ready /\ ~upload_pending /\ hs_global # NULL
Accepted == ~Upgrading /\ ~web.ready /\ upload_pending
Armed == ~Upgrading /\ web.ready

\* What the refinement mapping reads in each phase, before and after a step.
LEMMA Views ==
    /\ Free => phase = "free" /\ image = NoJob
    /\ Free' => phase' = "free" /\ image' = NoJob
    /\ Owned => /\ phase = IF hs[hs_global].state = "UPLOAD_REQUEST"
                           THEN "receiving" ELSE "sending"
                /\ image = [sess |-> hs[hs_global].sess, size |-> 0]
    /\ Owned' => /\ phase' = IF hs'[hs_global'].state = "UPLOAD_REQUEST"
                             THEN "receiving" ELSE "sending"
                 /\ image' = [sess |-> hs'[hs_global'].sess, size |-> 0]
    /\ Accepted => phase = "accepted" /\ image = job
    /\ Accepted' => phase' = "accepted" /\ image' = job'
    /\ Armed => phase = "armed" /\ image = Stored
    /\ Armed' => phase' = "armed" /\ image' = Stored'
    /\ Upgrading => phase = "flashing" /\ image = Stored
    /\ Upgrading' => phase' = "flashing" /\ image' = Stored'
  <1>1. /\ Free => phase = "free" 
        /\ Owned => phase = IF hs[hs_global].state = "UPLOAD_REQUEST"
                            THEN "receiving" ELSE "sending"
        /\ Accepted => phase = "accepted"
        /\ Armed => phase = "armed"
        /\ Upgrading => phase = "flashing"
    BY Zenon DEF phase, Free, Owned, Accepted, Armed
  <1>2. /\ Free' => phase' = "free" 
        /\ Owned' => phase' = IF hs'[hs_global'].state = "UPLOAD_REQUEST"
                              THEN "receiving" ELSE "sending"
        /\ Accepted' => phase' = "accepted"
        /\ Armed' => phase' = "armed"
        /\ Upgrading' => phase' = "flashing"
    BY Zenon DEF phase, Free, Owned, Accepted, Armed
  <1>3. /\ phase \in {"flashing", "armed"} => image = Stored
        /\ phase = "accepted" => image = job
        /\ phase = "free" => image = NoJob
        /\ phase \in {"receiving", "sending"} =>
              image = [sess |-> hs[hs_global].sess, size |-> 0]
    <2> DEFINE owner == [sess |-> hs[hs_global].sess, size |-> 0]
    <2>1. image = IF phase \in {"flashing", "armed"} THEN Stored
                  ELSE IF phase = "accepted" THEN job
                  ELSE IF phase = "free" THEN NoJob ELSE owner
      BY Zenon DEF image
    <2> HIDE DEF owner
    <2> QED BY <2>1, Zenon DEF owner
  <1>4. /\ phase' \in {"flashing", "armed"} => image' = Stored'
        /\ phase' = "accepted" => image' = job'
        /\ phase' = "free" => image' = NoJob
        /\ phase' \in {"receiving", "sending"} =>
              image' = [sess |-> hs'[hs_global'].sess, size |-> 0]
    <2>1. NoJob' = NoJob
      BY Zenon DEF NoJob
    <2> DEFINE owner == [sess |-> hs[hs_global].sess, size |-> 0]
    <2>2. image' = IF phase' \in {"flashing", "armed"} THEN Stored'
                   ELSE IF phase' = "accepted" THEN job'
                   ELSE IF phase' = "free" THEN NoJob ELSE owner'
      BY <2>1, Zenon DEF image
    <2>3. owner' = [sess |-> hs'[hs_global'].sess, size |-> 0]
      BY Zenon
    <2> HIDE DEF owner
    <2> QED BY <2>2, <2>3, Zenon
  <1> QED BY <1>1, <1>2, <1>3, <1>4, ZenonT(60)

\* Nothing the mapping reads changes.
LEMMA StepNone ==
    ASSUME Upgrading' <=> Upgrading, web'.ready <=> web.ready,
           upload_pending' <=> upload_pending, hs_global' = hs_global,
           hs_global # NULL => /\ hs'[hs_global].state = hs[hs_global].state
                               /\ hs'[hs_global].sess = hs[hs_global].sess,
           UNCHANGED <<ram, data_pointer, job>>
    PROVE  Step
  <1>1. Stored' = Stored
    BY Zenon DEF Stored
  <1>2. phase' = phase /\ image' = image
    <2>1. Free \/ Owned \/ Accepted \/ Armed \/ Upgrading
      BY Zenon DEF Free, Owned, Accepted, Armed
    <2>2. /\ Free <=> Free'
          /\ Owned <=> Owned'
          /\ Accepted <=> Accepted'
          /\ Armed <=> Armed'
      BY Zenon DEF Free, Owned, Accepted, Armed
    <2>3. CASE Free
      BY <2>2, <2>3, Views
    <2>4. CASE Owned
      BY <2>2, <2>4, Views DEF Owned
    <2>5. CASE Accepted
      BY <2>2, <2>5, Views, Zenon
    <2>6. CASE Armed
      BY <2>2, <2>6, Views, <1>1, Zenon
    <2>7. CASE Upgrading
      BY <2>7, Views, <1>1, Zenon
    <2> QED BY <2>1, <2>3, <2>4, <2>5, <2>6, <2>7, Zenon
  <1> QED BY <1>2, Zenon DEF Step

\* No transfer before, none after.
LEMMA StepFree ==
    ASSUME Free, Free' PROVE Step
  BY Views, Zenon DEF Step

\* The place is given back.
LEMMA StepAbandon ==
    ASSUME Owned \/ Accepted \/ Armed, Free' PROVE Step
  BY Views, Zenon DEF Step, Recovery!Next, Recovery!Abandon, Recovery!Nothing, NoJob

\* A client takes the place.
LEMMA StepTake ==
    ASSUME Free, Owned', hs'[hs_global'].sess \in Nat \ {0} PROVE Step
  BY Views DEF Step, Recovery!Next, Recovery!Begin, Recovery!Send

\* An image is complete.
LEMMA StepAccept ==
    ASSUME \/ Free
           \/ Owned /\ hs[hs_global].state = "UPLOAD_REQUEST"
                    /\ job'.sess = hs[hs_global].sess,
           Accepted', job' \in [sess : Nat \ {0}, size : Nat \ {0}]
    PROVE  Step
  BY Views DEF Step, Recovery!Next, Recovery!Accept

\* It is armed, ...
LEMMA StepArm ==
    ASSUME TypeOK, Accepted, Armed', Held, UNCHANGED <<ram, data_pointer, job>>
    PROVE  Step
  <1>1. Stored' = Stored /\ Stored = job
    BY Zenon DEF Stored, Held, TypeOK, Jobs
  <1> QED BY <1>1, Views, Zenon DEF Step, Recovery!Next, Recovery!Arm

\* ... flashed ...
LEMMA StepFlash ==
    ASSUME Armed, Upgrading', UNCHANGED <<ram, data_pointer>>
    PROVE  Step
  <1>1. Stored' = Stored
    BY Zenon DEF Stored
  <1> QED BY <1>1, Views, Zenon DEF Step, Recovery!Next, Recovery!Flash

\* ... and done.
LEMMA StepFinish ==
    ASSUME Upgrading, Free' PROVE Step
  BY Views, Zenon DEF Step, Recovery!Next, Recovery!Finish, Recovery!Nothing, NoJob

-----------------------------------------------------------------------------
(* The steps that leave the transfer alone.                                *)

Sound == TypeOK /\ OwnerInv /\ SessionInv

\* A server with an owner is in no other phase; a request for the place that is
\* not answered 503 finds it free; a complete image is accepted and not armed.
LEMMA Phases ==
    ASSUME Sound, NEW c \in Conn
    PROVE  /\ hs_global # NULL => Owned /\ ~Armable /\ upload_hs = NULL
           /\ hs[c].live => web.running
           /\ hs[c].live /\ hs[c].state = "NONE" /\ ~Busy(c) =>
                 Free /\ ~Armable /\ upload_hs = NULL /\ ~hs[c].owns
           /\ hs[c].state = "UPLOAD_REQUEST" => hs_global = c /\ hs[c].owns /\ hs[c].live
           /\ Armable => Accepted
           /\ hs[c].owns <=> hs_global = c
  <1>1. hs[c].live => web.running
    BY Zenon DEF Sound, SessionInv, Stopped
  <1>2. /\ hs_global # NULL => hs_global \in Conn /\ hs[hs_global].live /\ hs[hs_global].owns
        /\ hs[c].owns => hs_global = c
        /\ hs[c].state = "UPLOAD_REQUEST" => hs[c].owns
        /\ c # NULL
    BY NullAssumption, Zenon DEF Sound, OwnerInv, SingleOwner, UploadOwns, TypeOK
  <1>3. hs_global # NULL => web.running
    BY <1>2, Zenon DEF Sound, SessionInv, Stopped
  <1>4. /\ upload_pending => hs_global = NULL
        /\ Upgrading /\ web.running => upload_pending
        /\ Armable \/ web.ready => upload_pending
        /\ upload_hs # NULL => Armable
        /\ web.ready \/ Upgrading => ~Armable
    BY Zenon DEF Sound, SessionInv, Flow
  <1>5. hs_global # NULL => Owned /\ ~Armable /\ upload_hs = NULL
    BY <1>3, <1>4, Zenon DEF Owned
  <1>6. Armable => Accepted
    BY <1>4, Zenon DEF Accepted
  <1>7. hs[c].owns <=> hs_global = c
    BY <1>2, Zenon
  <1>8. hs[c].owns => hs[c].state # "NONE"
    BY Zenon DEF Sound, SessionInv, Places
  <1>9. ASSUME hs[c].live, hs[c].state = "NONE", ~Busy(c)
        PROVE  Free /\ ~Armable /\ upload_hs = NULL /\ ~hs[c].owns
    <2>1. ~upload_pending /\ hs_global \in {NULL, c}
      BY <1>9, Zenon DEF Busy
    <2>2. hs_global = NULL /\ ~hs[c].owns
      BY <2>1, <1>7, <1>8, <1>9, Zenon
    <2> QED BY <1>1, <1>4, <1>9, <2>1, <2>2, Zenon DEF Free
  <1> QED BY <1>1, <1>2, <1>5, <1>6, <1>7, <1>9, Zenon

\* A step of one connection, or of nobody, that keeps its place.
LEMMA Quiet ==
    ASSUME Sound, NEW c \in Conn, NEW r \in Hs,
           hs' = [hs EXCEPT ![c] = r],
           UNCHANGED <<upload, upload_pending, upload_hs, data_pointer, hs_global, web,
                       ram, job>>,
           OneFlash', Upgrading' <=> Upgrading,
           r.live => web.running /\ r.sess > 0,
           r.owns => r.state # "NONE",
           hs_global = c => r.state = hs[c].state /\ r.sess = hs[c].sess,
           r.state = "UPLOAD_REQUEST" =>
              hs[c].state = "UPLOAD_REQUEST" /\ r.total = hs[c].total /\ r.upload <= hs[c].upload,
           backup.data_size = 0 => backup'.data_size = 0,
           ~backup.chunked => ~backup'.chunked,
           ~backup.sending_header => ~backup'.sending_header
    PROVE  SessionInv' /\ Step
  <1>hs. /\ hs \in [Conn -> Hs] /\ hs'[c] = r
         /\ \A d \in Conn : d # c => hs'[d] = hs[d]
    BY Zenon DEF Sound, TypeOK
  <1>1. Flow'
    <2>1. Flow
      BY Zenon DEF Sound, SessionInv
    <2> QED BY <2>1, Zenon DEF Flow, Armable, Held
  <1>2. Stopped'
    BY <1>hs, Zenon DEF Sound, SessionInv, Stopped
  <1>3. Places'
    BY <1>hs, Zenon DEF Sound, SessionInv, Places
  <1>4. NoChunk'
    <2>1. hs_global # NULL => hs'[hs_global].state = hs[hs_global].state
      BY <1>hs, Zenon DEF Sound, TypeOK
    <2> QED BY <2>1, Zenon DEF Sound, SessionInv, NoChunk
  <1>5. Receiving'
    <2> SUFFICES ASSUME NEW d \in Conn, hs'[d].state = "UPLOAD_REQUEST"
                 PROVE  /\ ram.use = "upload" /\ ram.sess = hs'[d].sess /\ ~upload.done
                        /\ upload.data_start_found /\ ~upload.failed =>
                              /\ hs'[d].total > 0
                              /\ data_pointer <= hs'[d].total
                              /\ data_pointer < hs'[d].total => hs'[d].upload <= data_pointer
      BY Zenon DEF Receiving
    <2>1. Receiving
      BY Zenon DEF Sound, SessionInv
    <2>2. CASE d # c
      BY <2>1, <2>2, <1>hs, Zenon DEF Receiving
    <2>3. CASE d = c
      <3>1. hs[c].state = "UPLOAD_REQUEST" /\ hs_global = c
        BY <2>3, <1>hs, Phases, Zenon
      <3>2. data_pointer \in Nat /\ hs[c].upload \in Nat /\ r.upload \in Nat
        BY <1>hs, Zenon DEF Sound, TypeOK, Hs
      <3>3. /\ ram.use = "upload" /\ ram.sess = hs[c].sess /\ ~upload.done
            /\ upload.data_start_found /\ ~upload.failed =>
                  /\ hs[c].total > 0
                  /\ data_pointer <= hs[c].total
                  /\ data_pointer < hs[c].total => hs[c].upload <= data_pointer
        BY <2>1, <3>1, Zenon DEF Receiving
      <3> QED BY <2>3, <3>1, <3>2, <3>3, <1>hs
    <2> QED BY <2>2, <2>3, Zenon
  <1>6. Step
    <2>1. hs_global # NULL => /\ hs'[hs_global].state = hs[hs_global].state
                              /\ hs'[hs_global].sess = hs[hs_global].sess
      BY <1>hs, Zenon DEF Sound, TypeOK
    <2> QED BY <2>1, StepNone, Zenon
  <1> QED BY <1>1, <1>2, <1>3, <1>4, <1>5, <1>6, Zenon DEF SessionInv

\* A step in which no connection takes part and nobody starts or ends to flash.
LEMMA Still ==
    ASSUME Sound,
           UNCHANGED <<hs, upload, upload_pending, upload_hs, data_pointer, hs_global,
                       ram, job>>,
           web'.ready <=> web.ready, web'.running <=> web.running,
           OneFlash', Upgrading' <=> Upgrading,
           backup.data_size = 0 => backup'.data_size = 0,
           ~backup.chunked => ~backup'.chunked,
           ~backup.sending_header => ~backup'.sending_header
    PROVE  SessionInv' /\ Step
  <1>1. Flow'
    <2>1. Flow
      BY Zenon DEF Sound, SessionInv
    <2> QED BY <2>1, Zenon DEF Flow, Armable, Held
  <1>2. Stopped' /\ Places'
    BY Zenon DEF Sound, SessionInv, Stopped, Places
  <1>3. NoChunk'
    BY Zenon DEF Sound, SessionInv, NoChunk
  <1>4. Receiving'
    BY Zenon DEF Sound, SessionInv, Receiving
  <1>5. Step
    BY StepNone, Zenon
  <1> QED BY <1>1, <1>2, <1>3, <1>4, <1>5, Zenon DEF SessionInv

-----------------------------------------------------------------------------
(* A connection goes away.                                                 *)

\* A freed connection takes what it owned with it.
LEMMA Freed ==
    ASSUME Sound, NEW c \in Conn, hs' = [hs EXCEPT ![c] = FreeHs],
           hs_global' = IF hs[c].owns THEN NULL ELSE hs_global,
           backup' = IF hs[c].owns THEN NoBackup ELSE backup,
           hs_global \notin {NULL, c} /\ hs[hs_global].state = "UPLOAD_REQUEST" =>
              upload' = upload,
           UNCHANGED <<data_pointer, ram>>,
           web'.running <=> web.running, upload_pending' => upload_pending
    PROVE  Stopped' /\ Places' /\ NoChunk' /\ Receiving'
  <1>hs. /\ hs \in [Conn -> Hs] /\ hs'[c] = FreeHs
         /\ \A d \in Conn : d # c => hs'[d] = hs[d]
         /\ hs_global # NULL => hs_global \in Conn
    BY Zenon DEF Sound, TypeOK
  <1>f. /\ ~FreeHs.live /\ ~FreeHs.owns /\ FreeHs.state = "NONE"
        /\ NoBackup.data_size = 0 /\ ~NoBackup.chunked /\ ~NoBackup.sending_header
    BY Zenon DEF FreeHs, NoBackup
  <1>1. Stopped'
    BY <1>hs, <1>f, Zenon DEF Sound, SessionInv, Stopped
  <1>2. Places'
    BY <1>hs, <1>f, Zenon DEF Sound, SessionInv, Places
  <1>3. NoChunk'
    <2>1. CASE hs[c].owns
      <3>1. backup' = NoBackup
        BY <2>1, Zenon
      <3> QED BY <3>1, <1>f, Zenon DEF NoChunk
    <2>2. CASE ~hs[c].owns
      <3>1. hs_global' = hs_global /\ backup' = backup /\ hs_global # c
        BY <2>2, Phases, Zenon
      <3>2. hs_global # NULL => hs'[hs_global] = hs[hs_global]
        BY <3>1, <1>hs, Zenon
      <3> QED BY <3>1, <3>2, Zenon DEF Sound, SessionInv, NoChunk
    <2> QED BY <2>1, <2>2, Zenon
  <1>4. Receiving'
    <2> SUFFICES ASSUME NEW d \in Conn, hs'[d].state = "UPLOAD_REQUEST"
                 PROVE  /\ ram.use = "upload" /\ ram.sess = hs'[d].sess /\ ~upload'.done
                        /\ upload'.data_start_found /\ ~upload'.failed =>
                              /\ hs'[d].total > 0
                              /\ data_pointer <= hs'[d].total
                              /\ data_pointer < hs'[d].total => hs'[d].upload <= data_pointer
      BY Zenon DEF Receiving
    <2>1. d # c /\ hs'[d] = hs[d] /\ hs[d].state = "UPLOAD_REQUEST"
      BY <1>hs, <1>f, Zenon
    <2>2. hs_global = d /\ hs_global # NULL
      BY <2>1, Phases, NullAssumption, Zenon
    <2>3. upload' = upload
      BY <2>1, <2>2, Zenon
    <2> QED BY <2>1, <2>3, Zenon DEF Sound, SessionInv, Receiving
  <1> QED BY <1>1, <1>2, <1>3, <1>4, Zenon

\* A connection closes and no image of it is pending.
LEMMA CloseStep ==
    ASSUME Sound, NEW c \in Conn, hs' = [hs EXCEPT ![c] = FreeHs],
           hs_global' = IF hs[c].owns THEN NULL ELSE hs_global,
           backup' = IF hs[c].owns THEN NoBackup ELSE backup,
           hs_global \notin {NULL, c} /\ hs[hs_global].state = "UPLOAD_REQUEST" =>
              upload' = upload,
           Armable' <=> Armable,
           UNCHANGED <<upload_pending, upload_hs, data_pointer, ram, job>>,
           web'.running <=> web.running, web'.ready <=> web.ready,
           OneFlash', Upgrading' <=> Upgrading
    PROVE  SessionInv' /\ Step
  <1>1. Stopped' /\ Places' /\ NoChunk' /\ Receiving'
    BY Freed, Zenon
  <1>2. Flow'
    <2>1. Flow
      BY Zenon DEF Sound, SessionInv
    <2>2. hs_global = NULL => hs_global' = NULL
      BY Zenon
    <2> QED BY <2>1, <2>2, Zenon DEF Flow, Held
  <1>3. Step
    <2>1. CASE hs[c].owns
      <3>1. Owned
        BY <2>1, Phases, NullAssumption, Zenon
      <3>2. hs_global' = NULL
        BY <2>1, Zenon
      <3>3. Free'
        BY <3>1, <3>2, Zenon DEF Owned, Free
      <3> QED BY <3>1, <3>3, StepAbandon, Zenon
    <2>2. CASE ~hs[c].owns
      <3>1. hs_global' = hs_global /\ hs_global # c
        BY <2>2, Phases, Zenon
      <3>2. hs_global # NULL => hs'[hs_global] = hs[hs_global]
        BY <3>1, Zenon DEF Sound, TypeOK
      <3> QED BY <3>1, <3>2, StepNone, Zenon
    <2> QED BY <2>1, <2>2, Zenon
  <1> QED BY <1>1, <1>2, <1>3, Zenon DEF SessionInv

\* httpd_recv's half-close and httpd_sent's last one, which may arm an image.
LEMMA ArmStep ==
    ASSUME Sound, NEW c \in Conn, ArmAndClose(c)
    PROVE  SessionInv' /\ Step
  <1> DEFINE u == IF Arming(c)
                  THEN [upload EXCEPT !.done = FALSE, !.failed = FALSE]
                  ELSE upload
  <1>1. /\ web' = [web EXCEPT !.ready = @ \/ (Arming(c) /\ ~upload.failed)]
        /\ upload_hs' = IF Arming(c) THEN NULL ELSE upload_hs
        /\ httpd_state_reset(c, u, hs_global)
        /\ hs' = [hs EXCEPT ![c] = FreeHs]
        /\ UNCHANGED <<upload_pending, data_pointer, stack, ram, job>>
    BY Zenon DEF ArmAndClose, httpd_close_conn, history
  <1>2. /\ hs_global' = IF hs[c].owns THEN NULL ELSE hs_global
        /\ backup' = IF hs[c].owns THEN NoBackup ELSE backup
        /\ upload' = IF hs[c].owns
                     THEN [ZeroUpload EXCEPT !.done = u.done, !.failed = u.failed] ELSE u
    BY <1>1, Zenon DEF httpd_state_reset
  <1>3. OneFlash' /\ (Upgrading' <=> Upgrading)
    BY <1>1, Zenon DEF Sound, SessionInv, OneFlash, Upgrading
  <1>4. /\ web'.ready <=> web.ready \/ (Arming(c) /\ ~upload.failed)
        /\ web'.running <=> web.running
    <2> DEFINE b == web.ready \/ (Arming(c) /\ ~upload.failed)
    <2>1. web' = [web EXCEPT !.ready = b]
      BY <1>1, Zenon
    <2> HIDE DEF b
    <2>2. web'.ready = b /\ web'.running = web.running
      BY <2>1, Zenon DEF Sound, TypeOK, Webs
    <2> QED BY <2>2, Zenon DEF b
  <1>5. u \in Uploads /\ upload \in Uploads
    BY Zenon DEF Sound, TypeOK, Uploads
  <1>6. upload'.done = u.done /\ upload'.failed = u.failed /\ (~hs[c].owns => upload' = u)
    <2> HIDE DEF u
    <2> QED BY <1>2, <1>5, Zenon DEF ZeroUpload, Uploads
  <1>7. CASE Arming(c) /\ ~upload.failed
    <2>1. Armable
      BY <1>7, Zenon DEF Arming, Armable
    <2>2. Accepted /\ Held /\ hs_global = NULL /\ ~hs[c].owns
      <3>1. Accepted /\ Held
        BY <2>1, Phases, Zenon DEF Sound, SessionInv, Flow
      <3>2. hs_global = NULL
        BY <3>1, Zenon DEF Accepted, Sound, SessionInv, Flow
      <3> QED BY <3>1, <3>2, Phases, NullAssumption, Zenon
    <2>3. web'.ready
      BY <1>4, <1>7, Zenon
    <2>4. u.done = FALSE
      BY <1>7, <1>5, Zenon DEF Uploads
    <2>5. ~Armable'
      BY <1>6, <2>4, Zenon DEF Armable
    <2>6. hs_global' = NULL /\ upload_hs' = NULL
      BY <1>1, <1>2, <1>7, <2>2, Zenon
    <2>7. Held'
      BY <1>1, <2>2, Zenon DEF Held
    <2>8. Flow'
      BY <1>1, <1>3, <2>2, <2>3, <2>5, <2>6, <2>7, Zenon DEF Flow, Accepted
    <2>9. Stopped' /\ Places' /\ NoChunk' /\ Receiving'
      BY <1>1, <1>2, <1>4, <2>2, Freed, Zenon
    <2>10. Armed'
      BY <1>3, <2>2, <2>3, Zenon DEF Armed, Accepted
    <2>11. Step
      BY <1>1, <2>2, <2>10, StepArm, Zenon DEF Sound
    <2> QED BY <1>3, <2>8, <2>9, <2>11, Zenon DEF SessionInv
  <1>8. CASE ~(Arming(c) /\ ~upload.failed)
    <2>1. web'.ready <=> web.ready
      BY <1>4, <1>8, Zenon
    <2>2. Armable' <=> Armable
      <3>1. CASE Arming(c)
        <4>1. upload.failed /\ u.done = FALSE
          BY <3>1, <1>5, <1>8, Zenon DEF Uploads
        <4> QED BY <4>1, <1>6, Zenon DEF Armable
      <3>2. CASE ~Arming(c)
        <4>1. u = upload
          BY <3>2, Zenon
        <4> QED BY <4>1, <1>6, Zenon DEF Armable
      <3> QED BY <3>1, <3>2, Zenon
    <2>3. upload_hs' = upload_hs
      <3>1. CASE Arming(c)
        <4>1. ~Armable
          BY <3>1, <1>8, Zenon DEF Armable
        <4>2. upload_hs = NULL
          BY <4>1, Zenon DEF Sound, SessionInv, Flow
        <4> QED BY <4>2, <3>1, <1>1, Zenon
      <3>2. CASE ~Arming(c)
        BY <3>2, <1>1, Zenon
      <3> QED BY <3>1, <3>2, Zenon
    <2>4. ASSUME hs_global \notin {NULL, c}, hs[hs_global].state = "UPLOAD_REQUEST"
          PROVE  upload' = upload
      <3>1. ~upload.done
        BY <2>4, Zenon DEF Sound, TypeOK, SessionInv, Receiving
      <3>2. ~Arming(c)
        BY <3>1, Zenon DEF Arming
      <3>3. u = upload /\ ~hs[c].owns
        BY <2>4, <3>2, Phases, Zenon
      <3> QED BY <3>3, <1>6, Zenon
    <2> HIDE DEF u
    <2> QED BY <1>1, <1>2, <1>3, <1>4, <2>1, <2>2, <2>3, <2>4, CloseStep, Zenon
  <1> QED BY <1>7, <1>8, Zenon

\* httpd_err and the timeout of httpd_poll_cb, which may discard an image.
LEMMA DiscardStep ==
    ASSUME Sound, NEW c \in Conn, DiscardAndClose(c)
    PROVE  SessionInv' /\ Step
  <1> DEFINE u == IF upload_hs = c
                  THEN [upload EXCEPT !.done = FALSE, !.failed = FALSE]
                  ELSE upload
             g == IF hs_global = c THEN NULL ELSE hs_global
  <1>1. /\ upload_pending' = (upload_pending /\ ~(upload_hs = c))
        /\ upload_hs' = IF upload_hs = c THEN NULL ELSE upload_hs
        /\ web' = [web EXCEPT !.status = IF upload_hs = c THEN "idle" ELSE @]
        /\ httpd_state_reset(c, u, g)
        /\ hs' = [hs EXCEPT ![c] = FreeHs]
        /\ UNCHANGED <<data_pointer, stack, ram, job>>
    BY Zenon DEF DiscardAndClose, history
  <1>2. /\ hs_global' = IF hs[c].owns THEN NULL ELSE g
        /\ backup' = IF hs[c].owns THEN NoBackup ELSE backup
        /\ upload' = IF hs[c].owns
                     THEN [ZeroUpload EXCEPT !.done = u.done, !.failed = u.failed] ELSE u
    BY <1>1, Zenon DEF httpd_state_reset
  <1>3. hs_global' = IF hs[c].owns THEN NULL ELSE hs_global
    BY <1>2, Phases, Zenon
  <1>4. OneFlash' /\ (Upgrading' <=> Upgrading)
    BY <1>1, Zenon DEF Sound, SessionInv, OneFlash, Upgrading
  <1>5. web'.ready = web.ready /\ web'.running = web.running
    BY <1>1, Zenon DEF Sound, TypeOK, Webs
  <1>6. u \in Uploads /\ upload \in Uploads
    BY Zenon DEF Sound, TypeOK, Uploads
  <1>7. upload'.done = u.done /\ upload'.failed = u.failed /\ (~hs[c].owns => upload' = u)
    <2> HIDE DEF u
    <2> QED BY <1>2, <1>6, Zenon DEF ZeroUpload, Uploads
  <1>8. CASE upload_hs = c
    <2>1. Accepted /\ hs_global = NULL /\ ~hs[c].owns
      <3>1. Accepted
        BY <1>8, Phases, NullAssumption, Zenon DEF Sound, SessionInv, Flow
      <3>2. hs_global = NULL
        BY <3>1, Zenon DEF Accepted, Sound, SessionInv, Flow
      <3> QED BY <3>1, <3>2, Phases, NullAssumption, Zenon
    <2>2. u.done = FALSE
      BY <1>6, <1>8, Zenon DEF Uploads
    <2>3. ~Armable' /\ ~upload_pending' /\ upload_hs' = NULL /\ hs_global' = NULL
      BY <1>1, <1>3, <1>7, <1>8, <2>1, <2>2, Zenon DEF Armable
    <2>4. Free'
      BY <1>4, <1>5, <2>1, <2>3, Zenon DEF Free, Accepted
    <2>5. Flow'
      BY <2>3, <2>4, Zenon DEF Flow, Free
    <2>6. Stopped' /\ Places' /\ NoChunk' /\ Receiving'
      <3>1. web'.running <=> web.running
        BY <1>5, Zenon
      <3> QED BY <1>1, <1>2, <1>3, <2>1, <2>3, <3>1, Freed, Zenon
    <2> QED BY <1>4, <2>1, <2>4, <2>5, <2>6, StepAbandon, Zenon DEF SessionInv
  <1>9. CASE upload_hs # c
    <2>1. u = upload /\ upload_hs' = upload_hs
      BY <1>1, <1>9, Zenon
    <2>2. upload_pending' = upload_pending
      <3>1. upload_pending \in BOOLEAN
        BY Zenon DEF Sound, TypeOK
      <3> QED BY <1>1, <1>9, <3>1, Zenon
    <2>3. Armable' <=> Armable
      BY <1>7, <2>1, Zenon DEF Armable
    <2>4. ASSUME hs_global \notin {NULL, c}
          PROVE  upload' = upload
      BY <2>1, <2>4, <1>7, Phases, Zenon
    <2>5. (web'.running <=> web.running) /\ (web'.ready <=> web.ready)
      BY <1>5, Zenon
    <2> HIDE DEF u, g
    <2> QED BY <1>1, <1>2, <1>3, <1>4, <2>1, <2>2, <2>3, <2>4, <2>5, CloseStep, Zenon
  <1> QED BY <1>8, <1>9, Zenon

\* httpd_close_conn without an image at stake: httpd_recv_abort and its like.
LEMMA PlainClose ==
    ASSUME Sound, NEW c \in Conn, NEW u \in Uploads, httpd_close_conn(c, u),
           u.done /\ ~u.failed <=> Armable,
           hs_global \notin {NULL, c} /\ hs[hs_global].state = "UPLOAD_REQUEST" => u = upload,
           UNCHANGED <<upload_pending, upload_hs, data_pointer, ram, job>>,
           web'.running <=> web.running, web'.ready <=> web.ready,
           OneFlash', Upgrading' <=> Upgrading
    PROVE  SessionInv' /\ Step
  <1>1. /\ hs' = [hs EXCEPT ![c] = FreeHs]
        /\ hs_global' = IF hs[c].owns THEN NULL ELSE hs_global
        /\ backup' = IF hs[c].owns THEN NoBackup ELSE backup
        /\ upload' = IF hs[c].owns
                     THEN [ZeroUpload EXCEPT !.done = u.done, !.failed = u.failed] ELSE u
    BY Zenon DEF httpd_close_conn, httpd_state_reset
  <1>2. upload'.done = u.done /\ upload'.failed = u.failed /\ (~hs[c].owns => upload' = u)
    BY <1>1, Zenon DEF ZeroUpload, Uploads
  <1>3. Armable' <=> Armable
    BY <1>2, Zenon DEF Armable
  <1>4. ASSUME hs_global \notin {NULL, c}, hs[hs_global].state = "UPLOAD_REQUEST"
        PROVE  upload' = upload
    <2>1. ~hs[c].owns
      BY <1>4, Phases, Zenon
    <2> QED BY <1>2, <1>4, <2>1, Zenon
  <1> QED BY <1>1, <1>3, <1>4, CloseStep, Zenon

-----------------------------------------------------------------------------
(* Uploads.                                                                *)

\* What is queued for a client belongs to it and only gets less.
LEMMA SendKeeps ==
    ASSUME NEW h \in Hs
    PROVE  /\ \A r \in httpd_send_data(h) :
                 r.sess = h.sess /\ r.total = h.total /\ r.upload <= h.upload
           /\ \A r \in httpd_send_static(h) : r.sess = h.sess
  <1>1. ASSUME NEW g \in Hs, NEW r \in httpd_send_data(g)
        PROVE  r.sess = g.sess /\ r.total = g.total /\ r.upload <= g.upload
    <2>1. \/ r = g
          \/ r = [g EXCEPT !.unacked = TRUE]
          \/ r = [g EXCEPT !.unacked = TRUE, !.upload = 0, !.out = Append(@, Item(g))]
      BY <1>1, Zenon DEF httpd_send_data
    <2>2. g.upload \in Nat /\ g.upload <= g.upload /\ 0 <= g.upload
      BY DEF Hs
    <2>3. CASE r = [g EXCEPT !.unacked = TRUE, !.upload = 0, !.out = Append(@, Item(g))]
      <3>1. r.sess = g.sess /\ r.total = g.total /\ r.upload = 0
        BY <2>3, Zenon DEF Hs
      <3> QED BY <3>1, <2>2, Zenon
    <2>4. CASE r = [g EXCEPT !.unacked = TRUE]
      <3>1. r.sess = g.sess /\ r.total = g.total /\ r.upload = g.upload
        BY <2>4, Zenon DEF Hs
      <3> QED BY <3>1, <2>2, Zenon
    <2> QED BY <2>1, <2>2, <2>3, <2>4, Zenon
  <1>2. ASSUME NEW r \in httpd_send_static(h) PROVE r.sess = h.sess
    <2> DEFINE g == [h EXCEPT !.state = "FILE_REQUEST", !.dataptr = "static", !.upload = 1]
    <2>1. g \in Hs /\ g.sess = h.sess /\ r \in httpd_send_data(g)
      BY <1>2, Zenon DEF Hs, States, httpd_send_static
    <2> HIDE DEF g
    <2> QED BY <2>1, <1>1, Zenon
  <1> QED BY <1>1, <1>2, Zenon

\* An owner's transfer goes on.
LEMMA StepOwned ==
    ASSUME Owned, Owned', hs'[hs_global'].state = hs[hs_global].state,
           hs'[hs_global'].sess = hs[hs_global].sess
    PROVE  Step
  BY Views DEF Step

\* What an upload that may go on needs: its connection h, the upload u and the
\* data pointer p it leaves.
Progress(h, u, p) ==
    u.data_start_found /\ ~u.failed =>
        /\ h.total > 0
        /\ p <= h.total
        /\ p < h.total => h.upload <= p

\* The upload of connection c goes on, with everything it stored.
LEMMA GoOn ==
    ASSUME Sound, NEW c \in Conn, NEW h \in Hs, hs' = [hs EXCEPT ![c] = h],
           Free \/ (Owned /\ hs_global = c /\ hs[c].state = "UPLOAD_REQUEST"),
           web.running, h.live, h.state = "UPLOAD_REQUEST", h.sess = hs[c].sess,
           hs[c].live,
           hs_global' = c, ~upload'.done, Progress(h, upload', data_pointer'),
           ram'.use = "upload", ram'.sess = h.sess, upload_hs' = NULL,
           UNCHANGED <<upload_pending, backup, job, stack>>,
           web'.ready <=> web.ready, web'.running <=> web.running
    PROVE  SessionInv' /\ Step
  <1>hs. /\ hs \in [Conn -> Hs] /\ hs'[c] = h
         /\ \A d \in Conn : d # c => hs'[d] = hs[d]
    BY Zenon DEF Sound, TypeOK
  <1>n. c # NULL /\ hs_global \in {NULL, c} /\ hs[c].sess > 0
    BY NullAssumption, Zenon DEF Free, Sound, SessionInv, Places
  <1>1. OneFlash' /\ (Upgrading' <=> Upgrading)
    BY Zenon DEF Sound, SessionInv, OneFlash, Upgrading
  <1>2. ~Upgrading /\ ~web.ready /\ ~upload_pending
    BY Zenon DEF Free, Owned
  <1>3. Owned'
    BY <1>1, <1>2, <1>n, Zenon DEF Owned
  <1>4. Flow'
    <2>1. ~Armable'
      BY Zenon DEF Armable
    <2> QED BY <1>3, <2>1, Zenon DEF Flow, Owned
  <1>5. Stopped'
    BY Zenon DEF Stopped
  <1>6. Places'
    BY <1>hs, <1>n, Zenon DEF Sound, SessionInv, Places
  <1>7. NoChunk'
    <2>1. hs_global = NULL \/ hs[hs_global].state = "UPLOAD_REQUEST"
      BY Zenon DEF Free
    <2> QED BY <2>1, Zenon DEF NoChunk, Sound, SessionInv
  <1>8. Receiving'
    <2> SUFFICES ASSUME NEW d \in Conn, hs'[d].state = "UPLOAD_REQUEST"
                 PROVE  /\ ram'.use = "upload" /\ ram'.sess = hs'[d].sess /\ ~upload'.done
                        /\ Progress(hs'[d], upload', data_pointer')
      BY Zenon DEF Receiving, Progress
    <2>1. d = c
      <3> SUFFICES ASSUME d # c PROVE FALSE
        BY Zenon
      <3>1. hs[d].state = "UPLOAD_REQUEST"
        BY <1>hs, Zenon
      <3>2. hs_global = d
        BY <3>1, Phases, Zenon
      <3> QED BY <3>2, <1>n, NullAssumption, Zenon
    <2> QED BY <2>1, <1>hs, Zenon
  <1>9. Step
    <2>1. CASE Free
      <3>1. hs'[hs_global'].sess \in Nat \ {0}
        BY <1>hs, <1>n DEF Hs
      <3> QED BY <2>1, <3>1, <1>3, StepTake, Zenon
    <2>2. CASE Owned /\ hs_global = c /\ hs[c].state = "UPLOAD_REQUEST"
      BY <2>2, <1>hs, <1>3, StepOwned, Zenon
    <2> QED BY <2>1, <2>2, Zenon
  <1> QED BY <1>1, <1>4, <1>5, <1>6, <1>7, <1>8, <1>9, Zenon DEF SessionInv

\* httpd_check_upload_complete: the upload goes on, fails, or is accepted with
\* everything that was announced in the RAM.
LEMMA CompleteStep ==
    ASSUME Sound, NEW c \in Conn, NEW h \in Hs, NEW u \in Uploads, NEW w \in Webs, NEW bv,
           httpd_check_upload_complete(c, h, u, w, NULL, c, bv),
           Free \/ (Owned /\ hs_global = c /\ hs[c].state = "UPLOAD_REQUEST"),
           web.running, hs[c].live,
           h.live, h.state = "UPLOAD_REQUEST", h.sess = hs[c].sess,
           ~u.done, u.data_start_found, data_pointer' \in Nat,
           Progress(h, u, data_pointer'),
           ram'.use = "upload", ram'.sess = h.sess, stack' = stack,
           w.ready <=> web.ready, w.running <=> web.running
    PROVE  SessionInv' /\ Step
  <1>1. CASE ~(h.upload >= h.total + Trailer)
    <2>1. /\ hs' = [hs EXCEPT ![c] = h] /\ upload' = u /\ upload_hs' = NULL /\ web' = w
          /\ hs_global' = c /\ UNCHANGED <<upload_pending, backup, job>>
      BY <1>1, Zenon DEF httpd_check_upload_complete
    <2> QED BY <2>1, GoOn, Zenon
  <1>2. CASE h.upload >= h.total + Trailer
    <2>1. /\ upload' = [ZeroUpload EXCEPT !.done = TRUE, !.failed = u.failed]
          /\ upload_pending' = (upload_pending \/ ~u.failed)
          /\ upload_hs' = IF u.failed THEN NULL ELSE c
          /\ web' = [w EXCEPT !.status = "verifying", !.size = h.total]
          /\ job' = IF u.failed THEN job ELSE [sess |-> h.sess, size |-> h.total]
          /\ hs_global' = NULL /\ backup' = NoBackup
      BY <1>2, Zenon DEF httpd_check_upload_complete
    <2>2. PICK r \in httpd_send_static(ResetHs(h)) : hs' = [hs EXCEPT ![c] = r]
      BY <1>2, Zenon DEF httpd_check_upload_complete
    <2>3. ResetHs(h) \in Hs /\ ~ResetHs(h).owns /\ ResetHs(h).sess = h.sess
      BY Zenon DEF ResetHs, Hs, States
    <2>4. ~r.owns /\ r.state = "FILE_REQUEST" /\ r.sess = h.sess
      BY <2>2, <2>3, SendStaticType, SendKeeps, SMTT(60) DEF Sound
    <2>5. /\ hs'[c] = r /\ \A d \in Conn : d # c => hs'[d] = hs[d]
      BY <2>2, Zenon DEF Sound, TypeOK
    <2>6. upload'.done = TRUE /\ upload'.failed = u.failed
      BY <2>1, Zenon DEF ZeroUpload, Uploads
    <2>7. (web'.ready <=> web.ready) /\ (web'.running <=> web.running)
      <3>1. web'.ready = w.ready /\ web'.running = w.running
        BY <2>1, Zenon DEF Webs
      <3> QED BY <3>1, Zenon
    <2>8. ~Upgrading /\ ~web.ready /\ ~upload_pending /\ hs[c].sess > 0
      BY Zenon DEF Free, Owned, Sound, SessionInv, Places
    <2>9. OneFlash' /\ ~Upgrading' /\ ~web'.ready
      BY <2>7, <2>8, Zenon DEF Sound, SessionInv, OneFlash, Upgrading
    <2>10. Stopped' /\ Places' /\ NoChunk'
      <3>1. Stopped'
        BY <2>7, Zenon DEF Stopped
      <3>2. Places'
        BY <2>4, <2>5, <2>8, Zenon DEF Sound, SessionInv, Places
      <3>3. NoBackup.data_size = 0 /\ ~NoBackup.chunked /\ ~NoBackup.sending_header
        BY Zenon DEF NoBackup
      <3>4. NoChunk'
        BY <2>1, <3>3, Zenon DEF NoChunk
      <3> QED BY <3>1, <3>2, <3>4, Zenon
    <2>11. Receiving'
      <3> SUFFICES ASSUME NEW d \in Conn, hs'[d].state = "UPLOAD_REQUEST" PROVE FALSE
        BY Zenon DEF Receiving
      <3>1. d # c /\ hs[d].state = "UPLOAD_REQUEST"
        BY <2>4, <2>5, Zenon
      <3>2. hs_global = d
        BY <3>1, Phases, Zenon
      <3> QED BY <3>1, <3>2, NullAssumption, Zenon DEF Free
    <2>12. CASE u.failed
      <3>1. ~upload_pending' /\ ~Armable' /\ upload_hs' = NULL
        <4>1. upload_pending' = upload_pending
          <5>1. upload_pending \in BOOLEAN
            BY Zenon DEF Sound, TypeOK
          <5> QED BY <2>1, <2>12, <5>1, Zenon
        <4> QED BY <2>1, <2>6, <2>8, <2>12, <4>1, Zenon DEF Armable
      <3>2. Free'
        BY <2>1, <2>9, <3>1, Zenon DEF Free
      <3>3. Flow'
        BY <3>1, <3>2, Zenon DEF Flow, Free
      <3>4. Step
        BY <3>2, StepFree, StepAbandon, Zenon
      <3> QED BY <2>9, <2>10, <2>11, <3>3, <3>4, Zenon DEF SessionInv
    <2>13. CASE ~u.failed
      <3>1. job' = [sess |-> h.sess, size |-> h.total]
        BY <2>1, <2>13, Zenon
      <3>2. upload_pending'
        BY <2>1, <2>13, Zenon
      <3>3. data_pointer' = h.total /\ h.total > 0
        <4>1. h.total \in Nat /\ h.upload \in Nat
          BY Zenon DEF Hs
        <4> QED BY <1>2, <2>13, <4>1, SMTT(60) DEF Progress, Trailer
      <3>4. Held'
        BY <3>1, <3>3, Zenon DEF Held
      <3>5. Accepted'
        BY <2>9, <3>2, Zenon DEF Accepted
      <3>6. Armable'
        BY <2>6, <2>13, Zenon DEF Armable
      <3>7. Flow'
        BY <2>1, <2>9, <3>2, <3>4, <3>6, Zenon DEF Flow
      <3>8. Step
        <4>1. job' \in [sess : Nat \ {0}, size : Nat \ {0}] /\ job'.sess = hs[c].sess
          <5>1. h.sess = hs[c].sess /\ h.sess > 0 /\ h.total > 0
            BY <2>8, <3>3, Zenon
          <5>2. h.sess \in Nat /\ h.total \in Nat
            BY Zenon DEF Hs
          <5>3. h.sess \in Nat \ {0} /\ h.total \in Nat \ {0}
            BY <5>1, <5>2
          <5>4. job'.sess = h.sess /\ job' \in [sess : Nat \ {0}, size : Nat \ {0}]
            BY <3>1, <5>3, Zenon
          <5> QED BY <5>1, <5>4, Zenon
        <4> QED BY <3>5, <4>1, StepAccept, Zenon
      <3> QED BY <2>9, <2>10, <2>11, <3>7, <3>8, Zenon DEF SessionInv
    <2> QED BY <2>12, <2>13, Zenon
  <1> QED BY <1>1, <1>2, Zenon

-----------------------------------------------------------------------------
(* Steps that leave a transfer where it is.                                *)

\* A connection sends: h is the connection with what it offers to lwIP.
LEMMA Sends ==
    ASSUME Sound, NEW c \in Conn, hs[c].live, NEW h \in Hs, NEW r \in httpd_send_data(h),
           hs' = [hs EXCEPT ![c] = r],
           h.live = hs[c].live, h.owns = hs[c].owns, h.sess = hs[c].sess,
           h.state = hs[c].state \/ (hs[c].state = "NONE" /\ h.state = "FILE_REQUEST"),
           h.state = "UPLOAD_REQUEST" => h.total = hs[c].total /\ h.upload <= hs[c].upload,
           UNCHANGED <<upload, upload_pending, upload_hs, data_pointer, hs_global, web,
                       ram, job>>,
           OneFlash', Upgrading' <=> Upgrading,
           backup.data_size = 0 => backup'.data_size = 0,
           ~backup.chunked => ~backup'.chunked,
           ~backup.sending_header => ~backup'.sending_header
    PROVE  SessionInv' /\ Step
  <1>1. r \in Hs /\ r.live = h.live /\ r.owns = h.owns /\ r.state = h.state
    BY SendType, Zenon DEF Sound
  <1>2. r.sess = h.sess /\ r.total = h.total /\ r.upload <= h.upload
    BY SendKeeps, Zenon
  <1>3. hs[c] \in Hs /\ hs[c].sess > 0 /\ (hs[c].owns => hs[c].state # "NONE") /\ web.running
    BY Phases, Zenon DEF Sound, TypeOK, SessionInv, Places
  <1>4. hs_global = c => r.state = hs[c].state /\ r.sess = hs[c].sess
    BY <1>1, <1>2, <1>3, Phases, Zenon
  <1>5. r.owns => r.state # "NONE"
    BY <1>1, <1>3, Zenon
  <1>6. r.state = "UPLOAD_REQUEST" =>
            hs[c].state = "UPLOAD_REQUEST" /\ r.total = hs[c].total /\ r.upload <= hs[c].upload
    <2>1. r.upload \in Nat /\ h.upload \in Nat /\ hs[c].upload \in Nat
      BY <1>1, <1>3, Zenon DEF Hs
    <2> QED BY <1>1, <1>2, <2>1
  <1>7. r.live => web.running /\ r.sess > 0
    BY <1>2, <1>3, Zenon
  <1> QED BY <1>1, <1>4, <1>5, <1>6, <1>7, Quiet, Zenon

\* A request is answered from a buffer.
LEMMA RespondStep ==
    ASSUME Sound, NEW c \in Conn, hs[c].live, hs[c].state = "NONE", Respond(c)
    PROVE  SessionInv' /\ Step
  <1> DEFINE h == [hs[c] EXCEPT !.idle = FALSE, !.state = "FILE_REQUEST",
                                !.dataptr = "static", !.upload = 1]
  <1>1. PICK r \in httpd_send_static([hs[c] EXCEPT !.idle = FALSE]) :
               hs' = [hs EXCEPT ![c] = r]
    BY Zenon DEF Respond
  <1>2. /\ h \in Hs /\ h.live = hs[c].live /\ h.owns = hs[c].owns /\ h.sess = hs[c].sess
        /\ h.state = "FILE_REQUEST"
    BY ZenonT(60) DEF Sound, TypeOK, Hs, States
  <1>3. r \in httpd_send_data(h)
    BY <1>1, Zenon DEF httpd_send_static
  <1>4. UNCHANGED <<upload, upload_pending, upload_hs, data_pointer, hs_global, backup, web,
                    stack, ram, job>>
    BY Zenon DEF Respond, uploadVars, ownerVars, history
  <1>5. OneFlash' /\ (Upgrading' <=> Upgrading)
    BY <1>4, Zenon DEF Sound, SessionInv, OneFlash, Upgrading
  <1> HIDE DEF h
  <1> QED BY <1>1, <1>2, <1>3, <1>4, <1>5, Sends, Zenon

\* A segment or the time changes only how long a connection has been idle.
LEMMA IdleStep ==
    ASSUME Sound, NEW c \in Conn, NEW b \in BOOLEAN, hs[c].live,
           hs' = [hs EXCEPT ![c] = [hs[c] EXCEPT !.idle = b]],
           UNCHANGED <<upload, upload_pending, upload_hs, data_pointer, hs_global, backup, web,
                       stack, ram, job>>
    PROVE  SessionInv' /\ Step
  <1> DEFINE h == [hs[c] EXCEPT !.idle = b]
  <1>1. /\ h \in Hs /\ h.live = hs[c].live /\ h.owns = hs[c].owns /\ h.sess = hs[c].sess
        /\ h.state = hs[c].state /\ h.total = hs[c].total /\ h.upload = hs[c].upload
        /\ hs[c].upload \in Nat
    BY ZenonT(60) DEF Sound, TypeOK, Hs
  <1>2. hs' = [hs EXCEPT ![c] = h]
    BY Zenon
  <1>3. OneFlash' /\ (Upgrading' <=> Upgrading)
    BY Zenon DEF Sound, SessionInv, OneFlash, Upgrading
  <1> HIDE DEF h
  <1>4. h \in httpd_send_data(h) /\ h.upload <= hs[c].upload
    BY <1>1 DEF httpd_send_data
  <1> QED BY <1>1, <1>2, <1>3, <1>4, Sends, Zenon

\* httpd_sent on a connection that stays: the header of a backup may have left.
LEMMA SentStep ==
    ASSUME Sound, NEW c \in Conn, hs[c].live,
           httpd_sent_more(c) \/ httpd_sent_chunk(c)
    PROVE  SessionInv' /\ Step
  <1>1. PICK more \in BOOLEAN :
               \E r \in httpd_send_data(SentHs(c, more)) : hs' = [hs EXCEPT ![c] = r]
    BY Zenon DEF httpd_sent_more, httpd_sent_chunk, httpd_send_data
  <1> DEFINE h == SentHs(c, more)
  <1>2. /\ backup' = SentBackup(c) \/ backup' = [SentBackup(c) EXCEPT !.chunk_busy = TRUE]
        /\ UNCHANGED <<upload, upload_pending, upload_hs, data_pointer, hs_global, web,
                       stack, ram, job>>
    BY Zenon DEF httpd_sent_more, httpd_sent_chunk, uploadVars, history
  <1>3. /\ backup'.data_size = backup.data_size
        /\ backup'.chunked = backup.chunked
        /\ ~backup.sending_header => ~backup'.sending_header
    <2> DEFINE b == backup.sending_header /\ ~HeaderDone(c)
    <2>1. SentBackup(c) = [backup EXCEPT !.sending_header = b]
      BY Zenon DEF SentBackup
    <2>2. ~backup.sending_header => ~b
      BY Zenon
    <2> HIDE DEF b
    <2>3. /\ backup'.data_size = backup.data_size
          /\ backup'.chunked = backup.chunked
          /\ backup'.sending_header = b
      BY <2>1, <1>2, Zenon DEF Sound, TypeOK, Backups
    <2> QED BY <2>2, <2>3, Zenon
  <1>4. OneFlash' /\ (Upgrading' <=> Upgrading)
    BY <1>2, Zenon DEF Sound, SessionInv, OneFlash, Upgrading
  <1>5. HeaderDone(c) => hs[c].state = "FILE_REQUEST"
    <2> SUFFICES ASSUME HeaderDone(c) PROVE hs[c].state = "FILE_REQUEST"
      BY Zenon
    <2>1. hs_global = c /\ hs[c].owns /\ backup.sending_header
      BY Zenon DEF HeaderDone, Owner
    <2>2. hs[c].state # "UPLOAD_REQUEST"
      BY <2>1, Zenon DEF Sound, SessionInv, NoChunk
    <2>3. hs[c].state # "NONE" /\ hs[c].state \in States
      BY <2>1, Zenon DEF Sound, SessionInv, Places, TypeOK, Hs
    <2> QED BY <2>2, <2>3, Zenon DEF States
  <1>6. /\ h \in Hs /\ h.live = hs[c].live /\ h.owns = hs[c].owns /\ h.sess = hs[c].sess
        /\ h.state = hs[c].state
        /\ h.state = "UPLOAD_REQUEST" => h.total = hs[c].total /\ h.upload = hs[c].upload
    <2>1. hs[c] \in Hs /\ backup.data_size \in Nat
      BY DEF Sound, TypeOK, Backups
    <2>2. CASE HeaderDone(c)
      BY <2>1, <2>2, <1>5, Zenon DEF SentHs, Hs
    <2>3. CASE ~HeaderDone(c)
      BY <2>1, <2>3, ZenonT(60) DEF SentHs, Hs
    <2> QED BY <2>2, <2>3, Zenon
  <1>7. hs[c].upload \in Nat /\ (h.state = "UPLOAD_REQUEST" => h.upload <= hs[c].upload)
    BY <1>6, SMTT(60) DEF Sound, TypeOK, Hs
  <1> HIDE DEF h
  <1>8. PICK r \in httpd_send_data(h) : hs' = [hs EXCEPT ![c] = r]
    BY <1>1, Zenon DEF h
  <1> QED BY <1>2, <1>3, <1>4, <1>6, <1>7, <1>8, Sends, Zenon

-----------------------------------------------------------------------------
(* httpd_recv on an upload or a backup.                                    *)

\* The first data of an upload: the counter does not run ahead of what is stored.
LEMMA FirstProgress ==
    ASSUME TypeOK, NEW c \in Conn, NEW h \in Hs, NEW u \in Uploads, ~u.done,
           NEW t \in 1..MaxData, NEW n \in 0..MaxPacket, NEW reboot \in BOOLEAN
    PROVE  /\ Progress(FirstHs(h, t, n), FirstUpload(u, t, n), FirstPointer(t, n))
           /\ FirstHs(h, t, n).live = h.live /\ FirstHs(h, t, n).state = h.state
           /\ FirstHs(h, t, n).sess = h.sess
           /\ ~FirstUpload(u, t, n).done /\ FirstUpload(u, t, n).data_start_found
           /\ FirstWeb(c, reboot).ready = web.ready
           /\ FirstWeb(c, reboot).running = web.running
  <1>1. t \in Nat /\ n \in Nat /\ t > 0
    BY BoundAssumption
  <1>2. /\ FirstHs(h, t, n).live = h.live /\ FirstHs(h, t, n).state = h.state
        /\ FirstHs(h, t, n).sess = h.sess
        /\ FirstHs(h, t, n).total = t /\ FirstHs(h, t, n).upload = n
    BY <1>1, Zenon DEF FirstHs, Hs
  <1>3. /\ FirstWeb(c, reboot).ready = web.ready
        /\ FirstWeb(c, reboot).running = web.running
    BY Zenon DEF FirstWeb, TypeOK, Webs
  <1> DEFINE b == u.failed \/ t > SizeLimit \/ Least(n, t) > RamUnits
  <1>4. FirstUpload(u, t, n) = [u EXCEPT !.data_start_found = TRUE, !.failed = b]
    BY Zenon DEF FirstUpload
  <1>5. ~b => /\ FirstPointer(t, n) = Least(n, t)
    BY Zenon DEF FirstPointer
  <1> HIDE DEF b
  <1>6. /\ FirstUpload(u, t, n).data_start_found = TRUE
        /\ FirstUpload(u, t, n).failed = b
        /\ FirstUpload(u, t, n).done = u.done
    BY <1>4, Zenon DEF Uploads
  <1>7. Least(n, t) <= t /\ (Least(n, t) < t => n <= Least(n, t))
    BY <1>1 DEF Least
  <1>8. Progress(FirstHs(h, t, n), FirstUpload(u, t, n), FirstPointer(t, n))
    BY <1>1, <1>2, <1>5, <1>6, <1>7, Zenon DEF Progress
  <1> QED BY <1>2, <1>3, <1>6, <1>8, Zenon

\* The first segment of an upload.
LEMMA PostStep ==
    ASSUME Sound, TypeOK', NEW c \in Conn, httpd_recv_post(c)
    PROVE  SessionInv' /\ Step
  <1> DEFINE h == [hs[c] EXCEPT !.state = "UPLOAD_REQUEST", !.owns = TRUE, !.idle = FALSE]
  <1>1. hs[c].live /\ hs[c].state = "NONE" /\ ~Busy(c) /\ web.running
    BY Zenon DEF httpd_recv_post, Rx
  <1>2. Free /\ ~Armable /\ upload_hs = NULL
    BY <1>1, Phases, Zenon
  <1>3. h \in Hs /\ h.live /\ h.state = "UPLOAD_REQUEST" /\ h.sess = hs[c].sess
    BY <1>1, ZenonT(60) DEF Sound, TypeOK, Hs, States
  <1>4. ram' = [use |-> "upload", sess |-> h.sess, n |-> 0] /\ stack' = stack
    BY Zenon DEF httpd_recv_post
  <1>5. ram'.use = "upload" /\ ram'.sess = h.sess
    BY <1>4, Zenon
  <1>6. \/ \E t \in 1..MaxData, n \in 0..MaxPacket, reboot \in BOOLEAN :
              /\ data_pointer' = FirstPointer(t, n)
              /\ httpd_check_upload_complete(c, FirstHs(h, t, n),
                    FirstUpload(ZeroUpload, t, n), FirstWeb(c, reboot), NULL, c, TRUE)
        \/ /\ NoFirstChunk(c, ZeroUpload)
           /\ hs' = [hs EXCEPT ![c] = h] /\ upload_hs' = NULL /\ hs_global' = c
           /\ UNCHANGED <<upload_pending, backup, job>>
    BY Zenon DEF httpd_recv_post
  <1>7. ZeroUpload \in Uploads /\ ~ZeroUpload.done /\ ~ZeroUpload.data_start_found
    BY Zenon DEF ZeroUpload, Uploads
  <1> HIDE DEF h
  <1>8. ASSUME NEW t \in 1..MaxData, NEW n \in 0..MaxPacket, NEW reboot \in BOOLEAN,
               data_pointer' = FirstPointer(t, n),
               httpd_check_upload_complete(c, FirstHs(h, t, n),
                    FirstUpload(ZeroUpload, t, n), FirstWeb(c, reboot), NULL, c, TRUE)
        PROVE  SessionInv' /\ Step
    <2>1. /\ FirstHs(h, t, n) \in Hs /\ FirstUpload(ZeroUpload, t, n) \in Uploads
          /\ FirstWeb(c, reboot) \in Webs
      BY <1>3, <1>7, FirstType, Zenon DEF Sound
    <2>2. /\ Progress(FirstHs(h, t, n), FirstUpload(ZeroUpload, t, n), data_pointer')
          /\ FirstHs(h, t, n).live = h.live /\ FirstHs(h, t, n).state = h.state
          /\ FirstHs(h, t, n).sess = h.sess
          /\ ~FirstUpload(ZeroUpload, t, n).done
          /\ FirstUpload(ZeroUpload, t, n).data_start_found
          /\ FirstWeb(c, reboot).ready = web.ready
          /\ FirstWeb(c, reboot).running = web.running
      <3>1. data_pointer' = FirstPointer(t, n) /\ TypeOK
        BY <1>8, Zenon DEF Sound
      <3>2. h \in Hs
        BY <1>3, Zenon
      <3>3. ~ZeroUpload.done
        BY <1>7, Zenon
      <3>4. ZeroUpload \in Uploads
        BY <1>7, Zenon
      <3> QED BY <3>1, <3>2, <3>3, <3>4, FirstProgress, SMTT(60)
    <2>3. data_pointer' \in Nat
      BY Zenon DEF TypeOK
    <2> QED BY <1>1, <1>2, <1>3, <1>4, <1>5, <1>8, <2>1, <2>2, <2>3, CompleteStep, Zenon
  <1>9. ASSUME NoFirstChunk(c, ZeroUpload),
               hs' = [hs EXCEPT ![c] = h], upload_hs' = NULL, hs_global' = c,
               UNCHANGED <<upload_pending, backup, job>>
        PROVE  SessionInv' /\ Step
    <2>1. \/ upload' = ZeroUpload /\ web' = web
          \/ \E reboot \in BOOLEAN, failed \in BOOLEAN :
                /\ upload' = [ZeroUpload EXCEPT !.failed = failed]
                /\ web' = FirstWeb(c, reboot)
      BY <1>7, <1>9, ZenonT(60) DEF NoFirstChunk, Uploads
    <2>2. ~upload'.done /\ ~upload'.data_start_found
      BY <1>7, <2>1, Zenon DEF Uploads
    <2>3. (web'.ready <=> web.ready) /\ (web'.running <=> web.running)
      <3>1. web'.ready = web.ready /\ web'.running = web.running
        BY <2>1, Zenon DEF FirstWeb, Sound, TypeOK, Webs
      <3> QED BY <3>1, Zenon
    <2>4. Progress(h, upload', data_pointer')
      BY <2>2, Zenon DEF Progress
    <2> QED BY <1>1, <1>2, <1>3, <1>4, <1>5, <1>9, <2>2, <2>3, <2>4, GoOn, Zenon
  <1> QED BY <1>6, <1>8, <1>9, Zenon

\* The second segment of an upload, when the first held no data.
LEMMA FirstStep ==
    ASSUME Sound, TypeOK', NEW c \in Conn, httpd_recv_first(c)
    PROVE  SessionInv' /\ Step
  <1> DEFINE h == [hs[c] EXCEPT !.idle = FALSE]
  <1>1. /\ h \in Hs /\ h.live = hs[c].live /\ h.state = hs[c].state /\ h.sess = hs[c].sess
        /\ upload \in Uploads
    BY ZenonT(60) DEF Sound, TypeOK, Hs
  <1>2. hs[c].live /\ hs[c].state = "UPLOAD_REQUEST" /\ web.running /\ stack' = stack
    BY <1>1, Zenon DEF httpd_recv_first, Rx
  <1>3. Owned /\ hs_global = c /\ upload_hs = NULL
    BY <1>2, Phases, NullAssumption, Zenon
  <1>4. ram.use = "upload" /\ ram.sess = hs[c].sess /\ ~upload.done
    BY <1>2, Zenon DEF Sound, SessionInv, Receiving
  <1>5. ram' = ram /\ \E t \in 1..MaxData, n \in 0..MaxPacket, reboot \in BOOLEAN :
           /\ data_pointer' = FirstPointer(t, n)
           /\ httpd_check_upload_complete(c, FirstHs(h, t, n),
                 FirstUpload(upload, t, n), FirstWeb(c, reboot),
                 upload_hs, hs_global, boundary_value)
    BY Zenon DEF httpd_recv_first
  <1> HIDE DEF h
  <1>6. PICK t \in 1..MaxData, n \in 0..MaxPacket, reboot \in BOOLEAN :
           /\ data_pointer' = FirstPointer(t, n)
           /\ httpd_check_upload_complete(c, FirstHs(h, t, n),
                 FirstUpload(upload, t, n), FirstWeb(c, reboot), NULL, c, boundary_value)
    BY <1>3, <1>5, Zenon
  <1>7. /\ FirstHs(h, t, n) \in Hs /\ FirstUpload(upload, t, n) \in Uploads
        /\ FirstWeb(c, reboot) \in Webs
    BY <1>1, FirstType, Zenon DEF Sound
  <1>8. /\ Progress(FirstHs(h, t, n), FirstUpload(upload, t, n), data_pointer')
        /\ FirstHs(h, t, n).live = h.live /\ FirstHs(h, t, n).state = h.state
        /\ FirstHs(h, t, n).sess = h.sess
        /\ ~FirstUpload(upload, t, n).done
        /\ FirstUpload(upload, t, n).data_start_found
        /\ FirstWeb(c, reboot).ready = web.ready
        /\ FirstWeb(c, reboot).running = web.running
    <2>1. data_pointer' = FirstPointer(t, n) /\ TypeOK /\ ~upload.done
      BY <1>4, <1>6, Zenon DEF Sound
    <2>2. h \in Hs /\ upload \in Uploads
      BY <1>1, Zenon
    <2>3. Progress(FirstHs(h, t, n), FirstUpload(upload, t, n), FirstPointer(t, n))
      BY <2>1, <2>2, FirstProgress, Zenon
    <2>4. Progress(FirstHs(h, t, n), FirstUpload(upload, t, n), data_pointer')
      BY <2>1, <2>3, Zenon
    <2>5. TypeOK /\ ~upload.done
      BY <2>1, Zenon
    <2>6. /\ FirstHs(h, t, n).live = h.live /\ FirstHs(h, t, n).state = h.state
          /\ FirstHs(h, t, n).sess = h.sess
          /\ ~FirstUpload(upload, t, n).done
          /\ FirstUpload(upload, t, n).data_start_found
          /\ FirstWeb(c, reboot).ready = web.ready
          /\ FirstWeb(c, reboot).running = web.running
      BY <2>2, <2>5, FirstProgress, SMTT(60)
    <2> QED BY <2>4, <2>6, Zenon
  <1>9. data_pointer' \in Nat
    BY Zenon DEF TypeOK
  <1> QED BY <1>1, <1>2, <1>3, <1>4, <1>5, <1>6, <1>7, <1>8, <1>9, CompleteStep, Zenon

\* n more units of which s are stored: the counter stays behind the pointer.
LEMMA DataProgress ==
    ASSUME NEW n \in Nat, NEW p \in Nat, NEW total \in Nat, NEW got \in Nat,
           p <= total, p < total => got <= p
    PROVE  /\ p + Least(n, total - p) \in Nat
           /\ p + Least(n, total - p) <= total
           /\ p + Least(n, total - p) < total => got + n <= p + Least(n, total - p)
  BY SMTT(60) DEF Least

\* httpd_handle_upload_data.
LEMMA DataStep ==
    ASSUME Sound, TypeOK', NEW c \in Conn, httpd_recv_data(c)
    PROVE  SessionInv' /\ Step
  <1>1. /\ hs[c].live /\ hs[c].state = "UPLOAD_REQUEST" /\ web.running /\ stack' = stack
        /\ upload.data_start_found /\ ram' = ram
    BY Zenon DEF httpd_recv_data, Rx
  <1>2. Owned /\ hs_global = c /\ upload_hs = NULL
    BY <1>1, Phases, NullAssumption, Zenon
  <1>3. /\ ram.use = "upload" /\ ram.sess = hs[c].sess /\ ~upload.done
        /\ ~upload.failed =>
              /\ hs[c].total > 0
              /\ data_pointer <= hs[c].total
              /\ data_pointer < hs[c].total => hs[c].upload <= data_pointer
    BY <1>1, Zenon DEF Sound, SessionInv, Receiving
  <1>4. PICK n \in 1..MaxPacket :
          LET h == [hs[c] EXCEPT !.idle = FALSE, !.upload = @ + n, !.got = @ + n]
              store == Least(n, h.total - data_pointer)
              over == data_pointer > h.total
              full == data_pointer + store > RamUnits
          IN  /\ data_pointer' = IF upload.failed \/ over \/ full THEN data_pointer
                                 ELSE data_pointer + store
              /\ httpd_check_upload_complete(c, h,
                    [upload EXCEPT !.failed = @ \/ over \/ full],
                    web, upload_hs, hs_global, boundary_value)
    BY Zenon DEF httpd_recv_data
  <1> DEFINE up == hs[c].upload + n
             got == hs[c].got + n
             h == [hs[c] EXCEPT !.idle = FALSE, !.upload = up, !.got = got]
             store == Least(n, h.total - data_pointer)
             over == data_pointer > h.total
             full == data_pointer + store > RamUnits
             b == upload.failed \/ over \/ full
             u == [upload EXCEPT !.failed = b]
  <1>5. n \in Nat /\ hs[c] \in Hs /\ upload \in Uploads /\ web \in Webs /\ data_pointer \in Nat
    BY BoundAssumption, SMTT(60) DEF Sound, TypeOK
  <1>6. /\ data_pointer' = IF b THEN data_pointer ELSE data_pointer + store
        /\ httpd_check_upload_complete(c, h, u, web, NULL, c, boundary_value)
    <2>1. httpd_check_upload_complete(c, h, u, web, upload_hs, hs_global, boundary_value)
      BY <1>4, Zenon
    <2>2. data_pointer' = IF b THEN data_pointer ELSE data_pointer + store
      BY <1>4, Zenon
    <2> HIDE DEF h, u, b, store
    <2> QED BY <2>1, <2>2, <1>2, Zenon
  <1>7. b \in BOOLEAN
    BY Zenon
  <1>8. ~b => ~upload.failed
    BY Zenon
  <1> HIDE DEF b
  <1>9. /\ u \in Uploads
        /\ u.done = upload.done /\ u.data_start_found = upload.data_start_found
        /\ u.failed = b
    BY <1>5, <1>7, Zenon DEF Uploads
  <1> HIDE DEF u
  <1>10. up \in Nat /\ got \in Nat /\ hs[c].total \in Nat /\ hs[c].upload \in Nat
    BY <1>5, SMTT(60) DEF Hs
  <1> HIDE DEF got
  <1>11. /\ h \in Hs /\ h.live = hs[c].live /\ h.state = hs[c].state /\ h.sess = hs[c].sess
         /\ h.total = hs[c].total /\ h.upload = up
    <2> HIDE DEF up
    <2> QED BY <1>5, <1>10, Zenon DEF Hs
  <1>12. store = Least(n, hs[c].total - data_pointer)
    <2> HIDE DEF h
    <2> QED BY <1>11, Zenon
  <1> HIDE DEF h, store
  <1>13. ~b => /\ hs[c].total > 0
               /\ data_pointer + store <= hs[c].total
               /\ data_pointer + store < hs[c].total => up <= data_pointer + store
    BY <1>3, <1>5, <1>8, <1>10, <1>12, DataProgress, Zenon
  <1> HIDE DEF up
  <1>14. Progress(h, u, data_pointer')
    <2>1. ~b => data_pointer' = data_pointer + store
      BY <1>6, Zenon
    <2>2. ASSUME ~u.failed
          PROVE  h.total > 0 /\ data_pointer' <= h.total
                 /\ (data_pointer' < h.total => h.upload <= data_pointer')
      <3>1. ~b
        BY <2>2, <1>9, Zenon
      <3> QED BY <3>1, <2>1, <1>11, <1>13, Zenon
    <2> QED BY <2>2, Zenon DEF Progress
  <1>15. data_pointer' \in Nat
    BY Zenon DEF TypeOK
  <1>16. /\ h.live /\ h.state = "UPLOAD_REQUEST" /\ ~u.done /\ u.data_start_found
         /\ ram'.use = "upload" /\ ram'.sess = h.sess
    BY <1>1, <1>3, <1>9, <1>11, Zenon
  <1> QED BY <1>1, <1>2, <1>5, <1>6, <1>9, <1>11, <1>14, <1>15, <1>16, CompleteStep, Zenon

\* A POST without a usable length, or one that is turned down at once.
LEMMA RejectStep ==
    ASSUME Sound, NEW c \in Conn,
           httpd_recv_post_badlength(c) \/ httpd_recv_post_rejected(c)
    PROVE  SessionInv' /\ Step
  <1>1. hs[c].live /\ hs[c].state = "NONE" /\ ~Busy(c)
    BY Zenon DEF httpd_recv_post_badlength, httpd_recv_post_rejected, Rx
  <1>2. Free /\ ~Armable /\ upload_hs = NULL /\ ~hs[c].owns
    BY <1>1, Phases, Zenon
  <1>3. /\ upload_pending' = FALSE /\ upload_hs' = NULL /\ stack' = stack
        /\ hs' = [hs EXCEPT ![c] = FreeHs]
        /\ job' = job
    BY Zenon DEF httpd_recv_post_badlength, httpd_recv_post_rejected, httpd_close_conn, history
  <1>4. upload' = ZeroUpload /\ hs_global' = NULL /\ (backup' = NoBackup \/ backup' = backup)
    BY <1>2, Zenon DEF httpd_recv_post_badlength, httpd_recv_post_rejected, httpd_close_conn,
                httpd_state_reset, Free
  <1>5. (web'.ready <=> web.ready) /\ (web'.running <=> web.running)
    <2>1. web' = web \/ \E reboot \in BOOLEAN : web' = FirstWeb(c, reboot)
      BY Zenon DEF httpd_recv_post_badlength, httpd_recv_post_rejected
    <2>2. web'.ready = web.ready /\ web'.running = web.running
      BY <2>1, Zenon DEF FirstWeb, Sound, TypeOK, Webs
    <2> QED BY <2>2, Zenon
  <1>6. OneFlash' /\ (Upgrading' <=> Upgrading)
    BY <1>3, Zenon DEF Sound, SessionInv, OneFlash, Upgrading
  <1>7. Free'
    BY <1>2, <1>3, <1>4, <1>5, <1>6, Zenon DEF Free
  <1>8. Flow'
    <2>1. ~Armable'
      BY <1>4, Zenon DEF Armable, ZeroUpload
    <2> QED BY <1>3, <1>7, <2>1, Zenon DEF Flow, Free
  <1>9. /\ hs'[c] = FreeHs /\ \A d \in Conn : d # c => hs'[d] = hs[d]
    BY <1>3, Zenon DEF Sound, TypeOK
  <1>10. ~FreeHs.live /\ ~FreeHs.owns /\ FreeHs.state = "NONE"
    BY Zenon DEF FreeHs
  <1>11. Stopped' /\ Places'
    BY <1>3, <1>5, <1>9, <1>10, ZenonT(60) DEF Sound, SessionInv, Stopped, Places
  <1>12. NoChunk'
    <2>1. backup.data_size = 0 /\ ~backup.chunked /\ ~backup.sending_header
      BY <1>2, Zenon DEF Sound, SessionInv, NoChunk, Free
    <2> QED BY <1>4, <2>1, SMTT(60) DEF NoChunk, NoBackup
  <1>13. Receiving'
    <2> SUFFICES ASSUME NEW d \in Conn, hs'[d].state = "UPLOAD_REQUEST" PROVE FALSE
      BY Zenon DEF Receiving
    <2>1. hs[d].state = "UPLOAD_REQUEST"
      BY <1>9, <1>10, Zenon
    <2> QED BY <1>2, <2>1, Phases, NullAssumption, Zenon DEF Free
  <1> QED BY <1>2, <1>6, <1>7, <1>8, <1>11, <1>12, <1>13, StepFree, Zenon DEF SessionInv

\* GET /backup takes the place, or fails and leaves it free.
LEMMA BackupStep ==
    ASSUME Sound, NEW c \in Conn, httpd_handle_backup(c)
    PROVE  SessionInv' /\ Step
  <1>1. hs[c].live /\ hs[c].state = "NONE" /\ ~Busy(c) /\ web.running
    BY Zenon DEF httpd_handle_backup, Rx
  <1>2. Free /\ ~Armable /\ upload_hs = NULL /\ ~hs[c].owns
    BY <1>1, Phases, Zenon
  <1>3. /\ stack' = stack /\ web' = web /\ job' = job /\ data_pointer' = data_pointer
        /\ upload' = upload /\ upload_pending' = upload_pending /\ upload_hs' = upload_hs
    BY Zenon DEF httpd_handle_backup, StartBackup, FailBackup, uploadVars
  <1>4. OneFlash' /\ (Upgrading' <=> Upgrading)
    BY <1>3, Zenon DEF Sound, SessionInv, OneFlash, Upgrading
  <1>5. Flow'
    <2>1. ~Armable' /\ upload_hs' = NULL
      BY <1>2, <1>3, Zenon DEF Armable
    <2>2. ~web'.ready /\ ~Upgrading' /\ ~upload_pending'
      BY <1>2, <1>3, <1>4, Zenon DEF Free
    <2> QED BY <2>1, <2>2, Zenon DEF Flow
  <1>6. hs[c] \in Hs /\ hs[c].sess > 0
    BY <1>1, Zenon DEF Sound, TypeOK, SessionInv, Places
  <1>7. ASSUME NEW r \in Hs, hs' = [hs EXCEPT ![c] = r], r.state = "FILE_REQUEST",
               r.sess = hs[c].sess
        PROVE  Stopped' /\ Places' /\ Receiving' /\ hs'[c] = r
    <2>1. /\ hs'[c] = r /\ \A d \in Conn : d # c => hs'[d] = hs[d]
      BY <1>7, Zenon DEF Sound, TypeOK
    <2>2. Stopped'
      BY <1>1, <1>3, Zenon DEF Stopped
    <2>3. Places'
      BY <1>6, <1>7, <2>1, ZenonT(60) DEF Sound, SessionInv, Places
    <2>4. Receiving'
      <3> SUFFICES ASSUME NEW d \in Conn, hs'[d].state = "UPLOAD_REQUEST" PROVE FALSE
        BY Zenon DEF Receiving
      <3>1. hs[d].state = "UPLOAD_REQUEST"
        BY <1>7, <2>1, Zenon
      <3> QED BY <1>2, <3>1, Phases, NullAssumption, Zenon DEF Free
    <2> QED BY <2>1, <2>2, <2>3, <2>4, Zenon
  <1>8. ASSUME NEW k \in 1..MaxChunks, StartBackup(c, k, stack)
        PROVE  SessionInv' /\ Step
    <2> DEFINE h == [hs[c] EXCEPT !.state = "FILE_REQUEST", !.owns = TRUE, !.upload = 1,
                                  !.dataptr = "header", !.idle = FALSE]
    <2>1. h \in Hs /\ h.sess = hs[c].sess /\ h.state = "FILE_REQUEST"
      BY <1>6, Zenon DEF Hs, States
    <2>2. hs_global' = c /\ \E r \in httpd_send_data(h) : hs' = [hs EXCEPT ![c] = r]
      BY <1>8, Zenon DEF StartBackup
    <2> HIDE DEF h
    <2>3. PICK r \in httpd_send_data(h) : hs' = [hs EXCEPT ![c] = r]
      BY <2>2, Zenon
    <2>4. r \in Hs /\ r.state = "FILE_REQUEST" /\ r.sess = hs[c].sess
      BY <2>1, SendType, SendKeeps, Zenon DEF Sound
    <2>5. Stopped' /\ Places' /\ Receiving' /\ hs'[c] = r
      BY <1>7, <2>3, <2>4, Zenon
    <2>6. NoChunk'
      BY <2>2, <2>4, <2>5, NullAssumption, Zenon DEF NoChunk
    <2>7. Owned'
      BY <1>2, <1>3, <1>4, <2>2, NullAssumption, Zenon DEF Free, Owned
    <2>8. hs'[hs_global'].sess \in Nat \ {0}
      BY <1>6, <2>2, <2>4, <2>5 DEF Hs
    <2>9. Step
      BY <1>2, <2>7, <2>8, StepTake, Zenon
    <2> QED BY <1>4, <1>5, <2>5, <2>6, <2>9, Zenon DEF SessionInv
  <1>9. CASE FailBackup(c, stack)
    <2>1. [hs[c] EXCEPT !.idle = FALSE] \in Hs
          /\ [hs[c] EXCEPT !.idle = FALSE].sess = hs[c].sess
      BY <1>6, Zenon DEF Hs
    <2>2. PICK r \in httpd_send_static([hs[c] EXCEPT !.idle = FALSE]) :
                 hs' = [hs EXCEPT ![c] = r]
      BY <1>9, Zenon DEF FailBackup
    <2>3. r \in Hs /\ r.state = "FILE_REQUEST" /\ r.sess = hs[c].sess
      BY <2>1, SendStaticType, SendKeeps, Zenon DEF Sound
    <2>4. Stopped' /\ Places' /\ Receiving'
      BY <1>7, <2>2, <2>3, Zenon
    <2>5. hs_global' = hs_global /\ backup' = backup
      BY <1>9, Zenon DEF FailBackup, ownerVars
    <2>6. hs_global' = NULL
      BY <1>2, <2>5, Zenon DEF Free
    <2>7. NoChunk'
      BY <1>2, <2>5, Zenon DEF Sound, SessionInv, NoChunk, Free
    <2>8. Free'
      BY <1>2, <1>3, <1>4, <2>6, Zenon DEF Free
    <2> QED BY <1>2, <1>4, <1>5, <2>4, <2>7, <2>8, StepFree, Zenon DEF SessionInv
  <1> QED BY <1>8, <1>9, Zenon DEF httpd_handle_backup

\* Every lwIP callback preserves SessionInv and is a step of RecoverySession or none.
LEMMA CallbackStep ==
    ASSUME ~ReadPolls, Sound, TypeOK', NEW c \in Conn, Callback(c)
    PROVE  SessionInv' /\ Step
  <1>ty. /\ hs \in [Conn -> Hs] /\ hs[c] \in Hs /\ upload \in Uploads /\ web \in Webs
         /\ accepts \in Nat
    BY Zenon DEF Sound, TypeOK
  <1>st. ASSUME stack' = stack PROVE OneFlash' /\ (Upgrading' <=> Upgrading)
    BY <1>st, ZenonT(60) DEF Sound, SessionInv, OneFlash, Upgrading
  <1>1. CASE httpd_accept(c)
    <2>1. /\ hs' = [hs EXCEPT ![c] = NewHs(accepts + 1)] /\ ~hs[c].live /\ web.running
          /\ UNCHANGED <<upload, upload_pending, upload_hs, data_pointer, hs_global, backup,
                         web, stack, ram, job>>
      BY <1>1, Zenon DEF httpd_accept, uploadVars, ownerVars, history
    <2>2. accepts + 1 \in Nat /\ accepts + 1 > 0
      BY <1>ty
    <2> DEFINE r == NewHs(accepts + 1)
    <2>3. r \in Hs /\ ~r.owns /\ r.state = "NONE" /\ r.sess > 0
      BY <2>2, NewHsType, Zenon DEF NewHs, FreeHs
    <2>4. hs_global # c
      BY <2>1, NullAssumption, Zenon DEF Sound, OwnerInv, SingleOwner
    <2> HIDE DEF r
    <2>5. hs' = [hs EXCEPT ![c] = r]
      BY <2>1, Zenon DEF r
    <2> QED BY <1>st, <2>1, <2>3, <2>4, <2>5, Quiet, Zenon
  <1>2. CASE httpd_recv_close(c) \/ httpd_sent_close(c)
    BY <1>2, ArmStep, Zenon DEF httpd_recv_close, httpd_sent_close
  <1>3. CASE httpd_err(c) \/ httpd_poll_cb_timeout(c)
    BY <1>3, DiscardStep, Zenon DEF httpd_err, httpd_poll_cb_timeout
  <1>4. CASE httpd_recv_nomem(c) \/ httpd_recv_abort(c)
    <2>1. /\ httpd_close_conn(c, upload)
          /\ UNCHANGED <<upload_pending, upload_hs, data_pointer, web, stack, ram, job>>
      BY <1>4, Zenon DEF httpd_recv_nomem, httpd_recv_abort, history
    <2> QED BY <1>st, <1>ty, <2>1, PlainClose, Zenon DEF Armable
  <1>5. CASE httpd_recv_nofirst(c)
    <2>1. hs[c].state = "UPLOAD_REQUEST" /\ stack' = stack
          /\ UNCHANGED <<upload_pending, upload_hs, data_pointer, ram, job>>
      BY <1>5, Zenon DEF httpd_recv_nofirst, history
    <2>2. ~upload.done /\ hs_global = c
      BY <2>1, Phases, Zenon DEF Sound, SessionInv, Receiving
    <2>3. PICK failed \in BOOLEAN :
              /\ httpd_close_conn(c, [upload EXCEPT !.failed = failed])
              /\ web' = web \/ \E reboot \in BOOLEAN : web' = FirstWeb(c, reboot)
      <3>1. upload = [upload EXCEPT !.failed = upload.failed] /\ upload.failed \in BOOLEAN
        BY <1>ty, Zenon DEF Uploads
      <3> QED BY <1>5, <3>1, Zenon DEF httpd_recv_nofirst
    <2> DEFINE u == [upload EXCEPT !.failed = failed]
    <2>4. u \in Uploads /\ u.done = upload.done
      BY <1>ty, Zenon DEF Uploads
    <2>5. (web'.ready <=> web.ready) /\ (web'.running <=> web.running)
      <3>1. web'.ready = web.ready /\ web'.running = web.running
        BY <1>ty, <2>3, Zenon DEF FirstWeb, Webs
      <3> QED BY <3>1, Zenon
    <2> HIDE DEF u
    <2>6. httpd_close_conn(c, u) /\ ~u.done /\ ~Armable
      BY <2>2, <2>3, <2>4, Zenon DEF u, Armable
    <2> QED BY <1>st, <2>1, <2>2, <2>4, <2>5, <2>6, PlainClose, Zenon
  <1>6. CASE httpd_recv_static(c) \/ httpd_recv_busy(c)
             \/ \E cmd \in Cmd : webterm_execute_command(c, cmd)
    BY <1>6, RespondStep, Zenon DEF httpd_recv_static, httpd_recv_busy, webterm_execute_command, Rx
  <1>7. CASE httpd_recv_ignored(c) \/ IdleTime(c)
    <2>1. PICK b \in BOOLEAN : hs' = [hs EXCEPT ![c] = [hs[c] EXCEPT !.idle = b]]
      BY <1>7, <1>ty, Zenon DEF httpd_recv_ignored, IdleTime
    <2>2. /\ hs[c].live
          /\ UNCHANGED <<upload, upload_pending, upload_hs, data_pointer, hs_global, backup,
                         web, stack, ram, job>>
      BY <1>7, Zenon DEF httpd_recv_ignored, IdleTime, Rx, uploadVars, ownerVars, history
    <2> QED BY <2>1, <2>2, IdleStep, Zenon
  <1>8. CASE httpd_poll_cb_send(c)
    <2>1. PICK r \in httpd_send_data(hs[c]) : hs' = [hs EXCEPT ![c] = r]
      BY <1>8, Zenon DEF httpd_poll_cb_send
    <2>2. /\ hs[c].live
          /\ UNCHANGED <<upload, upload_pending, upload_hs, data_pointer, hs_global, backup,
                         web, stack, ram, job>>
      BY <1>8, Zenon DEF httpd_poll_cb_send, uploadVars, ownerVars, history
    <2>3. hs[c].upload <= hs[c].upload
      BY <1>ty, SMTT(60) DEF Hs
    <2> QED BY <1>st, <1>ty, <2>1, <2>2, <2>3, Sends, Zenon
  <1>9. CASE httpd_sent_more(c) \/ httpd_sent_chunk(c)
    <2>1. hs[c].live
      BY <1>9, Zenon DEF httpd_sent_more, httpd_sent_chunk, Rx
    <2> QED BY <1>9, <2>1, SentStep, Zenon
  <1>10. CASE httpd_handle_backup_read(c)
    BY <1>10, Zenon DEF httpd_handle_backup_read
  <1> QED BY <1>1, <1>2, <1>3, <1>4, <1>5, <1>6, <1>7, <1>8, <1>9, <1>10, RejectStep,
             PostStep, FirstStep, DataStep, BackupStep, ZenonT(60) DEF Callback

-----------------------------------------------------------------------------
(* The poll loop.                                                          *)

\* The server may give up the place at any time.
LEMMA ToFree ==
    ASSUME Free' PROVE Step
  <1>1. Free \/ Owned \/ Accepted \/ Armed \/ Upgrading
    BY Zenon DEF Free, Owned, Accepted, Armed
  <1> QED BY <1>1, StepFree, StepAbandon, StepFinish, Zenon

\* Nothing is left of a transfer.
LEMMA Cleared ==
    ASSUME Sound, hs' = [c \in Conn |-> FreeHs], hs_global' = NULL, upload' = ZeroUpload,
           backup' = NoBackup, ~upload_pending', upload_hs' = NULL, ~web'.ready, OneFlash',
           Upgrading' => Upgrading /\ Held' /\ ~web'.running
    PROVE  SessionInv' /\ (~Upgrading' => Step)
  <1>1. ~FreeHs.live /\ ~FreeHs.owns /\ FreeHs.state = "NONE" /\ \A c \in Conn : hs'[c] = FreeHs
    BY Zenon DEF FreeHs
  <1>2. ~Armable'
    BY Zenon DEF Armable, ZeroUpload
  <1>3. Flow'
    BY <1>2, Zenon DEF Flow
  <1>4. Stopped' /\ Places'
    BY <1>1, Zenon DEF Stopped, Places
  <1>5. Receiving'
    BY <1>1, Zenon DEF Receiving
  <1>6. NoBackup.data_size = 0 /\ ~NoBackup.chunked /\ ~NoBackup.sending_header
    BY Zenon DEF NoBackup
  <1>7. NoChunk'
    BY <1>6, Zenon DEF NoChunk
  <1>8. ~Upgrading' => Step
    BY ToFree, Zenon DEF Free
  <1> QED BY <1>3, <1>4, <1>5, <1>7, <1>8, Zenon DEF SessionInv

\* The device restarts.
LEMMA RebootStep ==
    ASSUME Sound, Reboot PROVE SessionInv' /\ Step
  <1>1. /\ hs' = [c \in Conn |-> FreeHs] /\ hs_global' = NULL /\ upload' = ZeroUpload
        /\ backup' = NoBackup /\ upload_pending' = FALSE /\ upload_hs' = NULL
        /\ web' = StoppedWeb /\ stack' = <<>>
    BY Zenon DEF Reboot
  <1>2. ~Upgrading' /\ OneFlash' /\ ~web'.ready
    BY <1>1, SMTT(60) DEF Upgrading, OneFlash, StoppedWeb
  <1> QED BY <1>1, <1>2, Cleared, Zenon

\* The server stops; an upgrade under way goes on with the image it has.
LEMMA StopStep ==
    ASSUME Sound, HttpdStopEffect(FALSE), OneFlash', Upgrading' <=> Upgrading
    PROVE  SessionInv' /\ Step
  <1>1. /\ hs' = [c \in Conn |-> FreeHs] /\ hs_global' = NULL /\ upload' = ZeroUpload
        /\ backup' = NoBackup /\ upload_pending' = FALSE /\ upload_hs' = NULL
        /\ web' = [StoppedWeb EXCEPT !.running = FALSE, !.status = web.status,
                                     !.size = web.size]
        /\ UNCHANGED <<data_pointer, ram, job>>
    BY Zenon DEF HttpdStopEffect, history
  <1>2. ~web'.ready /\ ~web'.running
    BY <1>1, Zenon DEF StoppedWeb
  <1>3. Upgrading' => Held'
    <2>1. Upgrading => Held
      BY Zenon DEF Sound, SessionInv, Flow
    <2>2. Held => Held'
      BY <1>1, Zenon DEF Held
    <2> QED BY <2>1, <2>2, Zenon
  <1>4. SessionInv' /\ (~Upgrading' => Step)
    BY <1>1, <1>2, <1>3, Cleared, Zenon
  <1>5. Upgrading' => Step
    <2> SUFFICES ASSUME Upgrading' PROVE Step
      BY Zenon
    <2>1. Stored' = Stored
      BY <1>1, Zenon DEF Stored
    <2> QED BY <2>1, Views, Zenon DEF Step
  <1> QED BY <1>4, <1>5, Zenon

\* A step that changes only the activations and what is reported.
LEMMA StackStep ==
    ASSUME Sound, UNCHANGED <<connVars, history>>,
           web'.ready <=> web.ready, web'.running <=> web.running,
           OneFlash', Upgrading' <=> Upgrading
    PROVE  SessionInv' /\ Step
  <1>1. UNCHANGED <<hs, upload, upload_pending, upload_hs, data_pointer, hs_global, backup,
                    ram, job>>
    BY Zenon DEF connVars, uploadVars, ownerVars, history
  <1> QED BY <1>1, Still, Zenon

\* The armed image begins to be flashed.
LEMMA ReadyStep ==
    ASSUME Sound, PollReady PROVE SessionInv' /\ Step
  <1>1. /\ stack # <<>> /\ Goto(Frame("ready_wait"))
        /\ web' = [web EXCEPT !.ready = FALSE, !.status = "verifying"]
        /\ UNCHANGED <<hs, upload, upload_pending, upload_hs, data_pointer, hs_global,
                       backup, ram, job>>
    BY Zenon DEF PollReady, At, connVars, uploadVars, ownerVars, history
  <1>2. web.ready /\ web.running
    BY Zenon DEF PollReady
  <1>3. web'.ready = FALSE /\ web'.running = web.running
    BY <1>1, Zenon DEF Sound, TypeOK, Webs
  <1>4. Flow /\ ~Upgrading
    BY <1>2, Zenon DEF Sound, SessionInv, Flow
  <1>5. Frame("ready_wait") \in Frames /\ Frame("ready_wait").pc \in UpgradePcs
    BY FrameType, Zenon DEF PollPcs, UpgradePcs, Frame
  <1>6. OneFlash' /\ Upgrading'
    BY <1>1, <1>4, <1>5, GotoFlash, Zenon DEF Sound, SessionInv
  <1>7. Flow'
    <2>1. Held' /\ ~Armable' /\ upload_pending' /\ upload_hs' = upload_hs /\ hs_global' = NULL
      BY <1>1, <1>2, <1>4, Zenon DEF Flow, Held, Armable
    <2>2. upload_hs = NULL
      BY <1>2, <1>4, Zenon DEF Flow
    <2> QED BY <1>3, <2>1, <2>2, Zenon DEF Flow
  <1>8. Stopped' /\ Places' /\ NoChunk' /\ Receiving'
    <2>1. web'.running
      BY <1>2, <1>3, Zenon
    <2>2. Stopped' /\ Places'
      BY <1>1, <2>1, Zenon DEF Sound, SessionInv, Stopped, Places
    <2>3. NoChunk' /\ Receiving'
      BY <1>1, Zenon DEF Sound, SessionInv, NoChunk, Receiving
    <2> QED BY <2>2, <2>3, Zenon
  <1>9. Step
    BY <1>1, <1>2, <1>4, <1>6, StepFlash, Zenon DEF Armed
  <1> QED BY <1>6, <1>7, <1>8, <1>9, Zenon DEF SessionInv

\* An upgrade ends.
LEMMA UpgradedStep ==
    ASSUME Sound, NEW ok \in BOOLEAN, PollUpgraded(ok) PROVE SessionInv' /\ Step
  <1> DEFINE pc == IF ok THEN "done_wait" ELSE "failed_wait"
  <1>1. /\ stack # <<>> /\ stack[1].pc = "flash" /\ Goto(Frame(pc))
        /\ upload_pending' = FALSE
        /\ UNCHANGED <<hs, upload, upload_hs, data_pointer, hs_global, backup, ram, job>>
    BY Zenon DEF PollUpgraded, At, ownerVars, history
  <1>2. web'.ready = web.ready /\ web'.running = web.running
    BY Zenon DEF PollUpgraded, Sound, TypeOK, Webs
  <1>3. Upgrading
    <2>1. 1 \in DOMAIN stack
      BY <1>1, SMTT(60) DEF Sound, TypeOK
    <2> QED BY <1>1, <2>1, Zenon DEF Upgrading, UpgradePcs
  <1>4. Frame(pc) \in Frames /\ Frame(pc).pc \notin UpgradePcs
    BY FrameType, Zenon DEF PollPcs, RxPcs, UpgradePcs, Frame
  <1>5. OneFlash' /\ ~Upgrading'
    BY <1>1, <1>4, GotoFlash, Zenon DEF Sound, SessionInv, UpgradePcs
  <1>6. ~web.ready /\ ~Armable /\ upload_hs = NULL
    BY <1>3, Zenon DEF Sound, SessionInv, Flow
  <1>7. hs_global = NULL
    <2>1. CASE web.running
      BY <1>3, <2>1, Zenon DEF Sound, SessionInv, Flow
    <2>2. CASE ~web.running
      <3>1. \A c \in Conn : ~hs[c].live
        BY <2>2, Zenon DEF Sound, SessionInv, Stopped
      <3> QED BY <3>1, Zenon DEF Sound, TypeOK, OwnerInv, SingleOwner
    <2> QED BY <2>1, <2>2, Zenon
  <1>8. ~web'.ready /\ ~Armable' /\ ~upload_pending' /\ hs_global' = NULL /\ upload_hs' = NULL
    BY <1>1, <1>2, <1>6, <1>7, Zenon DEF Armable
  <1>9. Flow'
    BY <1>5, <1>8, Zenon DEF Flow
  <1>10. Stopped' /\ Places' /\ NoChunk' /\ Receiving'
    <2>1. (web'.running <=> web.running)
      BY <1>2, Zenon
    <2>2. Stopped' /\ Places'
      BY <1>1, <1>8, <2>1, Zenon DEF Sound, SessionInv, Stopped, Places
    <2>3. NoChunk' /\ Receiving'
      BY <1>1, Zenon DEF Sound, SessionInv, NoChunk, Receiving
    <2> QED BY <2>2, <2>3, Zenon
  <1>11. Step
    BY <1>5, <1>8, ToFree, Zenon DEF Free
  <1> QED BY <1>5, <1>9, <1>10, <1>11, Zenon DEF SessionInv

\* backup_chunk_next and what follows it: only a backup has chunks.
LEMMA ChunkStep ==
    ASSUME Sound, backup_chunk_next \/ backup_chunk_resume \/ backup_chunk_failed
    PROVE  SessionInv' /\ Step
  <1>1. stack # <<>> /\ stack[1].pc \in {"chunk", "chunk_wait"}
    BY Zenon DEF backup_chunk_next, backup_chunk_resume, backup_chunk_failed, At
  <1>2. ASSUME NEW f \in Frames, f.pc \notin UpgradePcs, Goto(f)
        PROVE  OneFlash' /\ (Upgrading' <=> Upgrading)
    BY <1>1, <1>2, GotoFlash, Zenon DEF Sound, SessionInv, UpgradePcs
  <1>3. Frame("rx") \in Frames /\ Frame("rx").pc \notin UpgradePcs
    BY FrameType, Zenon DEF PollPcs, RxPcs, UpgradePcs, Frame
  <1>4. ASSUME backup.chunked
        PROVE  /\ hs_global \in Conn /\ hs[hs_global].live /\ Owned /\ ~Armable
               /\ upload_hs = NULL /\ hs[hs_global].state # "UPLOAD_REQUEST"
    <2>1. hs_global # NULL /\ hs[hs_global].state # "UPLOAD_REQUEST"
      BY <1>4, Zenon DEF Sound, SessionInv, NoChunk
    <2>2. hs_global \in Conn
      BY <2>1, Zenon DEF Sound, TypeOK
    <2>3. hs[hs_global].live
      BY <2>1, <2>2, Zenon DEF Sound, OwnerInv, SingleOwner
    <2> QED BY <2>1, <2>2, <2>3, Phases, Zenon
  <1>5. CASE backup_chunk_next
    <2> DEFINE m == IF hs_global = NULL THEN 0 ELSE hs[hs_global].sess
               f == [Frame("chunk_wait") EXCEPT !.n = m]
    <2>1. backup.chunked
      BY <1>5, Zenon DEF backup_chunk_next
    <2>2. /\ Goto(f)
          /\ UNCHANGED <<hs, upload, upload_pending, upload_hs, data_pointer, hs_global, web,
                         job>>
      BY <1>5, Zenon DEF backup_chunk_next, uploadVars
    <2>3. m \in Nat
      BY <1>4, <2>1, Zenon DEF Sound, TypeOK, Hs
    <2> HIDE DEF m
    <2>4. Frame("chunk_wait") \in Frames
      BY FrameType, Zenon DEF PollPcs, RxPcs
    <2>5. f \in Frames /\ f.pc \notin UpgradePcs
      BY <2>3, <2>4, Zenon DEF Frames, Frame, UpgradePcs
    <2> HIDE DEF f
    <2>6. OneFlash' /\ (Upgrading' <=> Upgrading)
      BY <1>2, <2>2, <2>5, Zenon
    <2>7. Owned' /\ ~Armable'
      BY <1>4, <2>1, <2>2, <2>6, Zenon DEF Owned, Armable
    <2>8. Flow'
      BY <1>4, <2>1, <2>2, <2>7, Zenon DEF Flow, Owned
    <2>9. Stopped' /\ Places'
      BY <2>2, Zenon DEF Sound, SessionInv, Stopped, Places
    <2>10. NoChunk'
      BY <1>4, <2>1, <2>2, <2>7, Zenon DEF NoChunk, Owned
    <2>11. Receiving'
      <3> SUFFICES ASSUME NEW d \in Conn, hs'[d].state = "UPLOAD_REQUEST" PROVE FALSE
        BY Zenon DEF Receiving
      <3>1. hs_global = d
        BY <2>2, Phases, Zenon
      <3> QED BY <3>1, <1>4, <2>1, <2>2, Zenon
    <2>12. Step
      BY <1>4, <2>1, <2>2, <2>7, StepOwned, Zenon
    <2> QED BY <2>6, <2>8, <2>9, <2>10, <2>11, <2>12, Zenon DEF SessionInv
  <1>6. CASE backup_chunk_failed
    <2>1. /\ backup.chunked /\ Goto(Frame("rx"))
          /\ UNCHANGED <<upload_pending, upload_hs, data_pointer, web, ram, job>>
      BY <1>6, Zenon DEF backup_chunk_failed, history
    <2>2. hs_global # NULL
      BY <1>4, <2>1, NullAssumption, Zenon
    <2>3. httpd_close_conn(hs_global, upload)
      BY <1>6, <2>2, Zenon DEF backup_chunk_failed
    <2>4. OneFlash' /\ (Upgrading' <=> Upgrading)
      BY <1>2, <1>3, <2>1, Zenon
    <2>5. PICK c \in Conn : c = hs_global
      BY <1>4, <2>1, Zenon
    <2>6. httpd_close_conn(c, upload) /\ upload \in Uploads
      BY <2>3, <2>5, Zenon DEF Sound, TypeOK
    <2> QED BY <2>1, <2>4, <2>6, PlainClose, Zenon DEF Armable
  <1>7. CASE backup_chunk_resume
    <2>1. /\ Goto(Frame("rx"))
          /\ UNCHANGED <<upload, upload_pending, upload_hs, data_pointer, hs_global, web, ram,
                         job>>
      BY <1>7, Zenon DEF backup_chunk_resume, uploadVars
    <2>2. OneFlash' /\ (Upgrading' <=> Upgrading)
      BY <1>2, <1>3, <2>1, Zenon
    <2>3. CASE hs_global = NULL
      <3>1. /\ hs' = hs
            /\ backup' = [backup EXCEPT !.chunk_busy = FALSE, !.chunked = FALSE,
                                        !.remaining = 0]
        BY <1>7, <2>3, Zenon DEF backup_chunk_resume
      <3>2. /\ backup'.data_size = backup.data_size /\ backup'.chunked = FALSE
            /\ backup'.sending_header = backup.sending_header
        BY <3>1, Zenon DEF Sound, TypeOK, Backups
      <3> QED BY <2>1, <2>2, <3>1, <3>2, Still, Zenon
    <2>4. CASE hs_global # NULL
      <3>1. PICK c \in Conn : c = hs_global
        BY <2>4, Zenon DEF Sound, TypeOK
      <3> DEFINE p == IF backup.data_size > 0 THEN "ram" ELSE "null"
                 h == [hs[c] EXCEPT !.dataptr = p, !.upload = backup.data_size]
      <3>2. /\ \E r \in httpd_send_data(h) : hs' = [hs EXCEPT ![c] = r]
            /\ backup' = [backup EXCEPT !.chunk_busy = FALSE]
        BY <1>7, <2>4, <3>1, Zenon DEF backup_chunk_resume
      <3>3. /\ backup'.data_size = backup.data_size /\ backup'.chunked = backup.chunked
            /\ backup'.sending_header = backup.sending_header
        BY <3>2, Zenon DEF Sound, TypeOK, Backups
      <3>4. p \in {"ram", "null"} /\ backup.data_size \in Nat /\ hs[c] \in Hs
        BY DEF Sound, TypeOK, Backups
      <3> HIDE DEF p
      <3>5. /\ h \in Hs /\ h.live = hs[c].live /\ h.owns = hs[c].owns /\ h.sess = hs[c].sess
            /\ h.state = hs[c].state /\ h.total = hs[c].total
            /\ h.upload = backup.data_size /\ hs[c].upload \in Nat
        BY <3>4, Zenon DEF Hs
      <3> HIDE DEF h
      <3>6. h.state = "UPLOAD_REQUEST" => h.upload <= hs[c].upload
        <4>1. h.state = "UPLOAD_REQUEST" => backup.data_size = 0
          BY <3>1, <3>5, Zenon DEF Sound, SessionInv, NoChunk
        <4> QED BY <3>5, <4>1
      <3>7. hs[c].live
        BY <2>4, <3>1, Zenon DEF Sound, OwnerInv, SingleOwner
      <3>8. PICK r \in httpd_send_data(h) : hs' = [hs EXCEPT ![c] = r]
        BY <3>2, Zenon
      <3> QED BY <2>1, <2>2, <3>3, <3>5, <3>6, <3>7, <3>8, Sends, Zenon
    <2> QED BY <2>3, <2>4, Zenon
  <1> QED BY <1>5, <1>6, <1>7, Zenon

\* Every step of failsafe_httpd_poll preserves SessionInv and is a step of
\* RecoverySession or none.
LEMMA PollStep ==
    ASSUME "restart" \notin Cmd, Sound, Poll
    PROVE  SessionInv' /\ Step
  <1>fr. \A pc \in PollPcs : Frame(pc) \in Frames /\ Frame(pc).pc = pc
    BY FrameType, Zenon DEF Frame
  <1>up. {"ready_wait", "flash_wait", "flash", "flash_cmd"} = UpgradePcs
    BY Zenon DEF UpgradePcs
  <1>pc. UpgradePcs \cup {"chunk", "rx", "cmd"} \subseteq PollPcs
    BY Zenon DEF PollPcs, RxPcs
  <1>go. ASSUME stack # <<>>, NEW f \in Frames, Goto(f),
                f.pc \in UpgradePcs <=> stack[1].pc \in UpgradePcs
         PROVE  OneFlash' /\ (Upgrading' <=> Upgrading)
    BY <1>go, GotoFlash, Zenon DEF Sound, SessionInv
  <1>rc. ASSUME stack # <<>>, NEW f \in Frames, RunCommand(f),
                f.pc \in UpgradePcs <=> stack[1].pc \in UpgradePcs
         PROVE  OneFlash' /\ (Upgrading' <=> Upgrading)
    BY <1>rc, RunFlash, Zenon DEF Sound, SessionInv
  <1>rt. ASSUME stack # <<>>, stack[1].pc \notin UpgradePcs, Return
         PROVE  OneFlash' /\ (Upgrading' <=> Upgrading)
    BY <1>rt, ReturnFlash, Zenon DEF Sound, SessionInv
  <1>n. ASSUME stack # <<>>, NEW pc \in PollPcs, NEW m \in Nat
        PROVE  /\ stack[1] \in Frames /\ stack[1].n \in Nat
               /\ stack[1].n + 1 \in Nat
               /\ [Frame(pc) EXCEPT !.n = m] \in Frames
               /\ [Frame(pc) EXCEPT !.n = m].pc = pc
    <2>1. stack[1] \in Frames /\ stack[1].n \in Nat
      BY <1>n, StackType, Zenon DEF Sound, Frames
    <2>2. Frame(pc) \in Frames /\ Frame(pc).pc = pc
      BY <1>fr, Zenon
    <2>3. [Frame(pc) EXCEPT !.n = m] \in Frames /\ [Frame(pc) EXCEPT !.n = m].pc = pc
      BY <2>2, Zenon DEF Frames
    <2> QED BY <2>1, <2>3
  <1>1. CASE httpd_handle_backup_resume
    <2>1. stack # <<>> /\ stack[1].pc = "backup_read"
      BY <1>1, Zenon DEF httpd_handle_backup_resume, At
    <2>2. stack[1] \in PollFrames
      BY <2>1 DEF Sound, OwnerInv
    <2> QED BY <2>1, <2>2, Zenon DEF PollFrames
  <1>2. CASE MainLoop
    <2>1. stack = <<>> /\ stack' = <<Frame("poll")>> /\ UNCHANGED <<connVars, web, history>>
      BY <1>2, Zenon DEF MainLoop
    <2>2. Frame("poll").pc \notin UpgradePcs
      BY Zenon DEF Frame, UpgradePcs
    <2>3. OneFlash' /\ ~Upgrading' /\ ~Upgrading
      BY <2>1, <2>2 DEF OneFlash, Upgrading
    <2> QED BY <2>1, <2>3, StackStep, Zenon
  <1>3. CASE PollFlashing
    <2>1. /\ stack # <<>> /\ stack[1].pc = "ready_wait" /\ Goto(Frame("flash_wait"))
          /\ web' = [web EXCEPT !.status = "flashing"] /\ UNCHANGED <<connVars, history>>
      BY <1>3, Zenon DEF PollFlashing, At
    <2>2. web'.ready = web.ready /\ web'.running = web.running
      BY <2>1, Zenon DEF Sound, TypeOK, Webs
    <2>3. OneFlash' /\ (Upgrading' <=> Upgrading)
      BY <2>1, <1>fr, <1>up, <1>pc, <1>go, Zenon
    <2> QED BY <2>1, <2>2, <2>3, StackStep, Zenon
  <1>4. CASE do_http_upgrade
    <2>1. /\ stack # <<>> /\ stack[1].pc = "flash_wait" /\ Goto(Frame("flash"))
          /\ UNCHANGED <<connVars, web, history>>
      BY <1>4, Zenon DEF do_http_upgrade, At
    <2>2. OneFlash' /\ (Upgrading' <=> Upgrading)
      BY <2>1, <1>fr, <1>up, <1>pc, <1>go, Zenon
    <2> QED BY <2>1, <2>2, StackStep, Zenon
  <1>5. CASE execute_command
    <2> DEFINE m == stack[1].n + 1
               f == [Frame("flash_cmd") EXCEPT !.n = m]
    <2>1. /\ stack # <<>> /\ stack[1].pc = "flash" /\ RunCommand(f)
          /\ UNCHANGED <<connVars, web, history>>
      BY <1>5, Zenon DEF execute_command, At
    <2>2. m \in Nat
      BY <2>1, <1>n, <1>up, <1>pc, Zenon
    <2> HIDE DEF m
    <2>3. f \in Frames /\ f.pc = "flash_cmd"
      BY <2>1, <2>2, <1>n, <1>up, <1>pc, Zenon
    <2> HIDE DEF f
    <2>4. OneFlash' /\ (Upgrading' <=> Upgrading)
      BY <2>1, <2>3, <1>up, <1>rc, Zenon
    <2> QED BY <2>1, <2>4, StackStep, Zenon
  <1>6. CASE FlashCommand
    <2> DEFINE m == stack[1].n
               f == [Frame("flash") EXCEPT !.n = m]
    <2>1. /\ stack # <<>> /\ stack[1].pc = "flash_cmd" /\ Goto(f)
          /\ UNCHANGED <<connVars, web, history>>
      BY <1>6, Zenon DEF FlashCommand, At
    <2>2. m \in Nat
      BY <2>1, <1>n, <1>up, <1>pc, Zenon
    <2> HIDE DEF m
    <2>3. f \in Frames /\ f.pc = "flash"
      BY <2>1, <2>2, <1>n, <1>up, <1>pc, Zenon
    <2> HIDE DEF f
    <2>4. OneFlash' /\ (Upgrading' <=> Upgrading)
      BY <2>1, <2>3, <1>up, <1>go, Zenon
    <2> QED BY <2>1, <2>4, StackStep, Zenon
  <1>7. CASE PollDone \/ PollReturn
    <2>1. CASE Reboot
      BY <2>1, RebootStep, Zenon
    <2>2. CASE ~Reboot
      <3>1. /\ stack # <<>> /\ stack[1].pc \in {"failed_wait", "done_wait", "rx"} /\ Return
            /\ UNCHANGED <<connVars, web, history>>
        BY <1>7, <2>2, Zenon DEF PollDone, PollReturn, At
      <3>2. OneFlash' /\ (Upgrading' <=> Upgrading)
        BY <3>1, <1>up, <1>rt, Zenon
      <3> QED BY <3>1, <3>2, StackStep, Zenon
    <2> QED BY <2>1, <2>2, Zenon
  <1>8. CASE webterm_run_pending_command
    <2> DEFINE f == [Frame("cmd") EXCEPT !.cmd = webterm_cmd, !.n = 1]
    <2>1. /\ stack # <<>> /\ stack[1].pc = "poll" /\ (Goto(Frame("chunk")) \/ RunCommand(f))
          /\ UNCHANGED <<connVars, web, history>>
      BY <1>8, Zenon DEF webterm_run_pending_command, At
    <2>2. f \in Frames /\ f.pc = "cmd"
      BY Zenon DEF Sound, TypeOK, Frame, Frames, PollPcs, RxPcs
    <2> HIDE DEF f
    <2>3. Frame("chunk") \in Frames /\ Frame("chunk").pc = "chunk"
      BY <1>fr, <1>pc, Zenon
    <2>4. OneFlash' /\ (Upgrading' <=> Upgrading)
      BY <2>1, <2>2, <2>3, <1>up, <1>go, <1>rc, Zenon
    <2> QED BY <2>1, <2>4, StackStep, Zenon
  <1>9. CASE CommandPolls
    <2> DEFINE m == stack[1].n + 1
               f == [stack[1] EXCEPT !.n = m]
    <2>1. /\ stack # <<>> /\ stack[1].pc = "cmd" /\ RunCommand(f)
          /\ UNCHANGED <<connVars, web, history>>
      BY <1>9, Zenon DEF CommandPolls, At
    <2>2. m \in Nat /\ stack[1] \in Frames
      BY <2>1, <1>n, <1>up, <1>pc, Zenon
    <2> HIDE DEF m
    <2>3. f \in Frames /\ f.pc = "cmd"
      BY <2>1, <2>2, Zenon DEF Frames
    <2> HIDE DEF f
    <2>4. OneFlash' /\ (Upgrading' <=> Upgrading)
      BY <2>1, <2>3, <1>up, <1>rc, Zenon
    <2> QED BY <2>1, <2>4, StackStep, Zenon
  <1>10. CASE CommandDone
    <2>1. stack # <<>> /\ stack[1].pc = "cmd"
      BY <1>10, Zenon DEF CommandDone, At
    <2>2. stack[1].cmd # "restart"
      BY <2>1, StackType, Zenon DEF Sound, Frames
    <2>3. Frame("chunk") \in Frames /\ Frame("chunk").pc = "chunk"
      BY <1>fr, <1>pc, Zenon
    <2>4. CASE Reboot
      BY <2>4, RebootStep, Zenon
    <2>5. CASE (Goto(Frame("chunk")) \/ Return) /\ UNCHANGED <<connVars, web, history>>
      <3>1. OneFlash' /\ (Upgrading' <=> Upgrading)
        BY <2>1, <2>3, <2>5, <1>up, <1>go, <1>rt, Zenon
      <3> QED BY <2>5, <3>1, StackStep, Zenon
    <2>6. CASE Return /\ HttpdStopEffect(FALSE)
      <3>1. OneFlash' /\ (Upgrading' <=> Upgrading)
        BY <2>1, <2>6, <1>up, <1>rt, Zenon
      <3> QED BY <2>6, <3>1, StopStep, Zenon
    <2> QED BY <1>10, <2>2, <2>4, <2>5, <2>6, Zenon DEF CommandDone
  <1>11. CASE PollNoChunk
    <2>1. /\ stack # <<>> /\ stack[1].pc = "chunk" /\ Goto(Frame("rx"))
          /\ UNCHANGED <<connVars, web, history>>
      BY <1>11, Zenon DEF PollNoChunk, At
    <2>2. OneFlash' /\ (Upgrading' <=> Upgrading)
      BY <2>1, <1>fr, <1>up, <1>pc, <1>go, Zenon
    <2> QED BY <2>1, <2>2, StackStep, Zenon
  <1> QED BY <1>1, <1>2, <1>3, <1>4, <1>5, <1>6, <1>7, <1>8, <1>9, <1>10, <1>11, ReadyStep,
             UpgradedStep, ChunkStep, Zenon DEF Poll

-----------------------------------------------------------------------------
(* The theorems.                                                           *)

\* Starting the server, stopping it from the console, and nothing at all.
LEMMA OtherStep ==
    ASSUME Sound, HttpdStart \/ HttpdStop \/ UNCHANGED vars
    PROVE  SessionInv' /\ Step
  <1>1. CASE HttpdStart
    <2>1. /\ stack = <<>> /\ stack' = stack /\ web' = [web EXCEPT !.running = TRUE]
          /\ UNCHANGED <<hs, upload, upload_pending, upload_hs, data_pointer, hs_global,
                         backup, ram, job>>
      BY <1>1, Zenon DEF HttpdStart, uploadVars, ownerVars, history
    <2>2. web'.ready = web.ready /\ web'.running = TRUE
      BY <2>1, Zenon DEF Sound, TypeOK, Webs
    <2>3. OneFlash' /\ ~Upgrading' /\ ~Upgrading
      BY <2>1 DEF OneFlash, Upgrading
    <2>4. Flow'
      <3>1. web'.ready <=> web.ready
        BY <2>2, Zenon
      <3> QED BY <2>1, <2>3, <3>1, Zenon DEF Sound, SessionInv, Flow, Armable, Held
    <2>5. Stopped' /\ Places'
      BY <2>1, <2>2, Zenon DEF Sound, SessionInv, Stopped, Places
    <2>6. NoChunk' /\ Receiving'
      BY <2>1, Zenon DEF Sound, SessionInv, NoChunk, Receiving
    <2>7. Step
      BY <2>1, <2>2, <2>3, StepNone, Zenon
    <2> QED BY <2>3, <2>4, <2>5, <2>6, <2>7, Zenon DEF SessionInv
  <1>2. CASE HttpdStop
    <2>1. HttpdStopEffect(FALSE) /\ stack' = stack
      BY <1>2, Zenon DEF HttpdStop
    <2>2. OneFlash' /\ (Upgrading' <=> Upgrading)
      BY <2>1, Zenon DEF Sound, SessionInv, OneFlash, Upgrading
    <2> QED BY <2>1, <2>2, StopStep, Zenon
  <1>3. CASE UNCHANGED vars
    <2>1. stack' = stack /\ web' = web /\ UNCHANGED <<connVars, history>>
      BY <1>3, Zenon DEF vars, connVars
    <2>2. OneFlash' /\ (Upgrading' <=> Upgrading)
      BY <2>1, Zenon DEF Sound, SessionInv, OneFlash, Upgrading
    <2> QED BY <2>1, <2>2, StackStep, Zenon
  <1> QED BY <1>1, <1>2, <1>3, Zenon

\* Every step from a state that satisfies the invariants.
LEMMA EveryStep ==
    ASSUME ~ReadPolls, "restart" \notin Cmd, Sound, TypeOK', [Next]_vars
    PROVE  SessionInv' /\ Step
  BY CallbackStep, PollStep, OtherStep, Zenon DEF Next

\* A server that was never started holds nothing.
LEMMA InitSession ==
    ASSUME Init PROVE SessionInv /\ Recovery!Init
  <1>1. /\ hs = [c \in Conn |-> FreeHs] /\ hs_global = NULL /\ upload = ZeroUpload
        /\ upload_pending = FALSE /\ upload_hs = NULL /\ backup = NoBackup
        /\ web = StoppedWeb /\ stack = <<>>
    BY Zenon DEF Init
  <1>2. ~Upgrading /\ OneFlash /\ ~web.ready /\ ~Armable
    BY <1>1, SMTT(60) DEF Upgrading, OneFlash, StoppedWeb, Armable, ZeroUpload
  <1>3. ~FreeHs.live /\ ~FreeHs.owns /\ FreeHs.state = "NONE" /\ \A c \in Conn : hs[c] = FreeHs
    BY <1>1, Zenon DEF FreeHs
  <1>4. Flow
    BY <1>1, <1>2, Zenon DEF Flow
  <1>5. Stopped /\ Places
    BY <1>1, <1>3, Zenon DEF Stopped, Places
  <1>6. Receiving
    BY <1>3, Zenon DEF Receiving
  <1>7. NoChunk
    BY <1>1, Zenon DEF NoChunk, NoBackup
  <1>8. Free
    BY <1>1, <1>2, Zenon DEF Free
  <1>9. Recovery!Init
    BY <1>8, Views, Zenon DEF Recovery!Init, Recovery!Nothing, NoJob
  <1> QED BY <1>2, <1>4, <1>5, <1>6, <1>7, <1>9, Zenon DEF SessionInv

\* On NAND and eMMC, and unless the server is restarted from its own terminal,
\* the globals of failsafe_httpd.c stay consistent through every interleaving of
\* callbacks and nested polls: the image that was acknowledged is the one in the
\* RAM until it is flashed, and one activation flashes.
THEOREM SessionConsistent ==
    ASSUME ~ReadPolls, "restart" \notin Cmd PROVE Spec => []SessionInv
  <1>1. Init => SessionInv
    BY InitSession, Zenon
  <1>2. TypeOK /\ OwnerInv /\ SessionInv /\ TypeOK' /\ [Next]_vars => SessionInv'
    BY EveryStep, Zenon DEF Sound
  <1> QED BY <1>1, <1>2, TypeCorrect, OwnerInvariant, PTL DEF Spec

\* Under the same conditions the server implements RecoverySession: one transfer
\* at a time has the place, what is accepted is armed, what is armed is flashed
\* unchanged, and no other client's data takes its place.
THEOREM Implementation ==
    ASSUME ~ReadPolls, "restart" \notin Cmd PROVE Spec => ImplementsSession
  <1>1. Init => Recovery!Init
    BY InitSession, Zenon
  <1>2. TypeOK /\ OwnerInv /\ SessionInv /\ TypeOK' /\ [Next]_vars =>
           [Recovery!Next]_<<phase, image>>
    BY EveryStep, Zenon DEF Sound, Step
  <1> QED BY <1>1, <1>2, TypeCorrect, OwnerInvariant, SessionConsistent, PTL
          DEF Spec, ImplementsSession, Recovery!Spec, Recovery!abstractVars

\* Under the same conditions one image at a time is flashed, and none is armed
\* meanwhile, however deep failsafe_httpd_poll is nested.
THEOREM SingleUpgrade ==
    ASSUME ~ReadPolls, "restart" \notin Cmd PROVE Spec => []OneUpgrade
  <1>1. SessionInv => OneUpgrade
    BY Zenon DEF SessionInv, Flow, OneFlash, OneUpgrade
  <1> QED BY <1>1, SessionConsistent, PTL
=============================================================================
