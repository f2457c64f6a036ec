------------------------------ MODULE Webterm ------------------------------
(***************************************************************************)
(* The Web terminal: console output captured line by line into a ring      *)
(* (common/webterm.c), the one pending command and the abort flag, and the *)
(* browser page that follows the output (failsafe/html/pig/term.html).     *)
(*                                                                         *)
(* A byte is NL or the serial number of a printed character, so that a     *)
(* byte in the ring or on the page says where in the output it comes from. *)
(* The ring is allocated at boot (initr_webterm); the counter              *)
(* webterm_output_seq is below 2^31.                                       *)
(***************************************************************************)
EXTENDS Integers, Sequences, FiniteSets

CONSTANTS
    SIZE,           \* WEBTERM_BUFFER_SIZE
    LINE,           \* WEBTERM_LINE_SIZE
    Poller,         \* activations of the page's fetchStatus
    MaxChars,       \* bound: characters printed
    MaxCommands,    \* bound: commands posted
    MaxAborts,      \* bound: aborts posted
    MaxClears,      \* bound: clicks on the page's clear button
    MaxLosses       \* bound: requests that fail, of either kind

ASSUME RingAssumption ==
    /\ LINE \in Nat /\ LINE >= 2
    /\ SIZE \in Nat /\ SIZE >= LINE

ASSUME BoundAssumption ==
    {MaxChars, MaxCommands, MaxAborts, MaxClears, MaxLosses} \subseteq Nat

VARIABLES
    out,        \* webterm_out, the line buffer, webterm_prev_char_was_cr, webterm_output_seq
    printed,    \* history: characters printed so far
    erased,     \* history: the last character printed before the last reset
    cmd,        \* webterm_has_pending_cmd, commands running, webterm_abort_requested
    page,       \* the page: its text, lastSeq, pollTimer, a reset on its way
    poll,       \* the page's activations of fetchStatus
    used        \* how much of each bound is used; data: output was lost

vars == <<out, printed, erased, cmd, page, poll, used>>

NL == 0
CR == -1        \* only ever an argument of webterm_add_char

Byte == Nat
Slot == 0 .. SIZE - 1

Least(a, b) == IF a <= b THEN a ELSE b

-----------------------------------------------------------------------------
(* The ring. "stream" is history: the bytes copied since the last reset.   *)

Empty == [buffer |-> [i \in Slot |-> NL], head |-> 0, tail |-> 0, count |-> 0,
          seq |-> 0, line |-> <<>>, cr |-> FALSE, stream |-> <<>>]

webterm_reset(o) ==
    [o EXCEPT !.head = 0, !.tail = 0, !.count = 0, !.seq = 0,
              !.line = <<>>, !.cr = FALSE, !.stream = <<>>]

webterm_batch_copy(o, src) ==
    LET len   == Len(src)
        first == Least(len, SIZE - o.head)
        over  == o.count + len - SIZE
    IN  [o EXCEPT
          !.buffer = [i \in Slot |->
             IF o.head <= i /\ i < o.head + first THEN src[i - o.head + 1]
             ELSE IF i < len - first THEN src[first + i + 1]
             ELSE @[i]],
          !.head  = IF len > first THEN len - first ELSE (@ + first) % SIZE,
          !.tail  = IF over > 0 THEN (@ + over) % SIZE ELSE @,
          !.count = IF over > 0 THEN SIZE ELSE @ + len,
          !.seq   = @ + len,
          !.stream = @ \o src]

webterm_flush_line(o) ==
    [webterm_batch_copy(o, Append(o.line, NL)) EXCEPT !.line = <<>>]

FlushIfAny(o) == IF o.line # <<>> THEN webterm_flush_line(o) ELSE o

\* Mutant: a full line is dropped instead of flushed.
AddDropsLine(o, c) ==
    CASE c = NL /\ o.cr  -> [o EXCEPT !.cr = FALSE]
      [] c = CR \/ (c = NL /\ ~o.cr) -> FlushIfAny([o EXCEPT !.cr = (c = CR)])
      [] OTHER -> [o EXCEPT !.cr = FALSE,
                            !.line = IF Len(@) >= LINE - 1 THEN <<c>> ELSE Append(@, c)]

webterm_add_char(o, c) ==
    CASE c = NL /\ o.cr  -> [o EXCEPT !.cr = FALSE]
      [] c = CR \/ (c = NL /\ ~o.cr) -> FlushIfAny([o EXCEPT !.cr = (c = CR)])
      [] OTHER -> LET p == IF Len(o.line) >= LINE - 1 THEN webterm_flush_line(o) ELSE o
                  IN  [p EXCEPT !.cr = FALSE, !.line = Append(@, c)]

\* Mutant: the capped length is taken from the oldest bytes.
OutputFromTail(o, size, since) ==
    IF o.count = 0 \/ since >= o.seq THEN <<>>
    ELSE LET len == Least(Least(o.seq - since, o.count), size - 1)
         IN  [i \in 1 .. len |-> o.buffer[(o.tail + i - 1) % SIZE]]

webterm_get_output(o, size, since) ==
    IF o.count = 0 \/ since >= o.seq THEN <<>>
    ELSE LET len   == Least(Least(o.seq - since, o.count), size - 1)
             pos   == (o.tail + (o.count - len)) % SIZE
             first == Least(len, SIZE - pos)
         IN  [i \in 1 .. len |->
                IF i <= first THEN o.buffer[pos + i - 1] ELSE o.buffer[i - first - 1]]

-----------------------------------------------------------------------------
(* Console and commands.                                                   *)

\* putc and puts capture what they print: a character, a '\n' or a '\r'.
webterm_putc ==
    /\ \/ /\ printed < MaxChars
          /\ printed' = printed + 1
          /\ out' = webterm_add_char(out, printed + 1)
       \/ /\ \E c \in {NL, CR} : out' = webterm_add_char(out, c)
          /\ UNCHANGED printed
    /\ UNCHANGED <<erased, cmd, page, poll, used>>

\* POST /webterm/cmd, sent by the page's sendCommand: echo "> cmd\n" (here
\* one character), remember the command. The page then polls at once.
webterm_execute_command ==
    /\ used.commands < MaxCommands
    /\ printed < MaxChars
    /\ printed' = printed + 1
    /\ out' = webterm_add_char(webterm_add_char(out, printed + 1), NL)
    /\ cmd' = [cmd EXCEPT !.pending = TRUE, !.abort = FALSE]
    /\ page' = [page EXCEPT !.timer = TRUE]
    /\ used' = [used EXCEPT !.commands = @ + 1]
    /\ UNCHANGED <<erased, poll>>

\* Mutant: an abort that came before the command ran is kept.
RunKeepsAbort ==
    /\ cmd.pending
    /\ cmd' = [cmd EXCEPT !.pending = FALSE, !.running = @ + 1, !.started = @ + 1]
    /\ UNCHANGED <<out, printed, erased, page, poll, used>>

\* The poll loop takes the command; a command polls before it runs, so that
\* another one may start inside it.
webterm_run_pending_command ==
    /\ cmd.pending
    /\ cmd' = [cmd EXCEPT !.pending = FALSE, !.abort = FALSE,
                          !.running = @ + 1, !.started = @ + 1]
    /\ UNCHANGED <<out, printed, erased, page, poll, used>>

\* run_command returned.
CommandReturned ==
    /\ cmd.running > 0
    /\ cmd' = [cmd EXCEPT !.running = @ - 1]
    /\ out' = FlushIfAny(out)
    /\ UNCHANGED <<printed, erased, page, poll, used>>

\* POST /webterm/abort, sent by the page's abortCommand.
webterm_abort ==
    /\ used.aborts < MaxAborts
    /\ cmd' = [cmd EXCEPT !.abort = TRUE, !.asked = cmd.started]
    /\ page' = [page EXCEPT !.timer = TRUE]
    /\ used' = [used EXCEPT !.aborts = @ + 1]
    /\ UNCHANGED <<out, printed, erased, poll>>

\* Whoever asks first takes the abort: the running command, the DHCP server.
ctrlc ==
    /\ cmd.abort
    /\ cmd' = [cmd EXCEPT !.abort = FALSE]
    /\ UNCHANGED <<out, printed, erased, page, poll, used>>

-----------------------------------------------------------------------------
(* The page. An activation of fetchStatus is "idle", has the answer to its *)
(* status request ("status"), waits for output ("wants"), or has it        *)
(* ("data").                                                               *)

Idle == [at |-> "idle", seq |-> 0, since |-> 0, text |-> <<>>]

\* Mutant: an unfinished line stays in the line buffer.
StatusUnflushed(p) ==
    /\ page.timer
    /\ poll[p].at = "idle"
    /\ poll' = [poll EXCEPT ![p] = [Idle EXCEPT !.at = "status", !.seq = out.seq]]
    /\ page' = [page EXCEPT !.timer = FALSE]
    /\ UNCHANGED <<out, printed, erased, cmd, used>>

\* The timer fires; the server answers GET /webterm/status.
fetchStatus(p) ==
    /\ page.timer
    /\ poll[p].at = "idle"
    /\ out' = FlushIfAny(out)
    /\ poll' = [poll EXCEPT ![p] = [Idle EXCEPT !.at = "status", !.seq = out'.seq]]
    /\ page' = [page EXCEPT !.timer = FALSE]
    /\ UNCHANGED <<printed, erased, cmd, used>>

\* The status request fails, before or after the server answered it.
StatusLost(p) ==
    /\ used.losses < MaxLosses
    /\ poll[p].at = "status"
    /\ poll' = [poll EXCEPT ![p] = Idle]
    /\ page' = [page EXCEPT !.timer = TRUE]
    /\ used' = [used EXCEPT !.losses = @ + 1]
    /\ UNCHANGED <<out, printed, erased, cmd>>

\* Mutant: output is asked for only when the counter has grown.
StatusReadNewer(p) ==
    /\ poll[p].at = "status"
    /\ IF poll[p].seq > page.lastSeq
       THEN /\ poll' = [poll EXCEPT ![p].at = "wants", ![p].since = page.lastSeq]
            /\ UNCHANGED page
       ELSE /\ poll' = [poll EXCEPT ![p] = Idle]
            /\ page' = [page EXCEPT !.timer = TRUE]
    /\ UNCHANGED <<out, printed, erased, cmd, used>>

\* The page reads the counter, and asks for output if it is a new one.
StatusRead(p) ==
    /\ poll[p].at = "status"
    /\ IF poll[p].seq # page.lastSeq
       THEN /\ poll' = [poll EXCEPT ![p].at = "wants", ![p].since = page.lastSeq]
            /\ UNCHANGED page
       ELSE /\ poll' = [poll EXCEPT ![p] = Idle]
            /\ page' = [page EXCEPT !.timer = TRUE]
    /\ UNCHANGED <<out, printed, erased, cmd, used>>

\* The server answers GET /webterm/data?since=.
fetchOutput(p) ==
    /\ poll[p].at = "wants"
    /\ out' = FlushIfAny(out)
    /\ poll' = [poll EXCEPT ![p].at = "data",
                            ![p].text = webterm_get_output(out', SIZE, poll[p].since)]
    /\ UNCHANGED <<printed, erased, cmd, page, used>>

\* The page appends the output; lastSeq becomes the counter read before.
DataRead(p) ==
    /\ poll[p].at = "data"
    /\ page' = [page EXCEPT !.shown = @ \o poll[p].text,
                            !.lastSeq = poll[p].seq, !.timer = TRUE]
    /\ poll' = [poll EXCEPT ![p] = Idle]
    /\ UNCHANGED <<out, printed, erased, cmd, used>>

\* The request for output fails: fetchOutput swallows the error.
DataLost(p) ==
    /\ used.losses < MaxLosses
    /\ poll[p].at \in {"wants", "data"}
    /\ page' = [page EXCEPT !.lastSeq = poll[p].seq, !.timer = TRUE]
    /\ poll' = [poll EXCEPT ![p] = Idle]
    /\ used' = [used EXCEPT !.losses = @ + 1, !.data = TRUE]
    /\ UNCHANGED <<out, printed, erased, cmd>>

\* The clear button: the text goes at once, the request is sent.
clearTerminal ==
    /\ used.clears < MaxClears
    /\ page' = [page EXCEPT !.shown = <<>>, !.clearing = TRUE]
    /\ used' = [used EXCEPT !.clears = @ + 1]
    /\ UNCHANGED <<out, printed, erased, cmd, poll>>

\* The server answers POST /webterm/reset.
ResetServed ==
    /\ page.clearing
    /\ out' = webterm_reset(out)
    /\ erased' = printed
    /\ page' = [page EXCEPT !.clearing = FALSE]
    /\ UNCHANGED <<printed, cmd, poll, used>>

-----------------------------------------------------------------------------
Init ==
    /\ out = Empty
    /\ printed = 0
    /\ erased = 0
    /\ cmd = [pending |-> FALSE, running |-> 0, abort |-> FALSE, started |-> 0, asked |-> 0]
    /\ page = [shown |-> <<>>, lastSeq |-> 0, timer |-> TRUE, clearing |-> FALSE]
    /\ poll = [p \in Poller |-> Idle]
    /\ used = [commands |-> 0, aborts |-> 0, clears |-> 0, losses |-> 0, data |-> FALSE]

Terminal ==
    \/ webterm_putc \/ webterm_execute_command \/ webterm_run_pending_command
    \/ CommandReturned \/ webterm_abort \/ ctrlc \/ ResetServed

Page(p) ==
    \/ fetchStatus(p) \/ StatusLost(p) \/ StatusRead(p)
    \/ fetchOutput(p) \/ DataRead(p) \/ DataLost(p)

Next == Terminal \/ clearTerminal \/ \E p \in Poller : Page(p)

Spec == Init /\ [][Next]_vars

\* The page's timer and answers are served: the server polls the network, and
\* the browser runs its callbacks. Nothing is assumed of the operator.
FairSpec ==
    /\ Spec
    /\ WF_vars(ResetServed)
    /\ WF_vars(\E p \in Poller : fetchStatus(p))
    /\ \A p \in Poller : WF_vars(StatusRead(p)) /\ WF_vars(fetchOutput(p)) /\ WF_vars(DataRead(p))

-----------------------------------------------------------------------------
(* Properties.                                                             *)

Contents(s) == {s[i] : i \in DOMAIN s}

Ring ==
    [buffer : [Slot -> Byte], head : Slot, tail : Slot, count : 0 .. SIZE, seq : Nat,
     line : Seq(Byte), cr : BOOLEAN, stream : Seq(Byte)]

\* Types. In particular the line buffer (LINE bytes, one of them kept for the
\* '\n' that webterm_flush_line adds) is never overrun by webterm_add_char.
TypeOK ==
    /\ out \in Ring
    /\ Len(out.line) <= LINE - 1
    /\ printed \in Nat

Holds(o) ==
    /\ o.seq = Len(o.stream)
    /\ o.count = Least(o.seq, SIZE)
    /\ o.head = (o.tail + o.count) % SIZE
    /\ \A j \in 0 .. o.count - 1 :
          o.buffer[(o.tail + j) % SIZE] = o.stream[o.seq - o.count + 1 + j]

\* The ring holds the latest output: its count bytes, from the tail on and
\* across the wrap, are the last bytes captured since the last reset, and the
\* counter the page polls (webterm_output_seq) is how many were captured.
RingHolds == Holds(out)

\* Whatever a client asks for (webterm_get_output), it gets the bytes after
\* "since" in order up to the latest; when they are more than the ring holds or
\* the answer takes, the oldest are the ones left out.
OutputSince ==
    \A since \in 0 .. out.seq :
        webterm_get_output(out, SIZE, since) =
            LET from == IF out.seq - since > SIZE - 1 THEN out.seq - (SIZE - 1) ELSE since
            IN  SubSeq(out.stream, from + 1, out.seq)

\* The capture loses and reorders nothing: the characters copied and the ones
\* still in the line buffer are those printed since the last reset, however the
\* lines end and however long they are (webterm_add_char).
InOrder(s, e, p) ==
    /\ \A i \in DOMAIN s : s[i] = NL \/ s[i] \in e + 1 .. p
    /\ \A n \in e + 1 .. p : \E i \in DOMAIN s : s[i] = n
    /\ \A i, j \in DOMAIN s : i < j /\ s[i] # NL /\ s[j] # NL => s[i] < s[j]

NothingDropped == InOrder(out.stream \o out.line, erased, printed)

\* An abort interrupts only a command that was running when it was asked for:
\* one left over from before (webterm_abort_requested) never hits a later one.
AbortFresh == cmd.running > 0 /\ cmd.abort => cmd.asked = cmd.started

\* Every character printed is shown by the page in the end, also one at the end
\* of an unfinished line, unless one of three things happened: a request for
\* output failed (fetchOutput swallows the error, and the page moves on all the
\* same), the operator pressed clear (lastSeq stays while the server's counter
\* restarts), or more was printed than an answer holds.
Excused == used.data \/ used.clears > 0 \/ out.seq > SIZE - 1

Delivered ==
    \A n \in 1 .. MaxChars :
        (printed >= n) ~> (n \in Contents(page.shown) \/ Excused)

\* The page recovers from failed requests, from a reset that makes the counter
\* smaller than its lastSeq, and from an overflow of the ring: once nothing is
\* printed any more, it ends up with the server's counter and stays there.
Resynchronised == <>[](page.lastSeq = out.seq /\ out.line = <<>>)
=============================================================================
