------------------------------ MODULE TarSize ------------------------------
(***************************************************************************)
(* tar_parse_size: the size field of a tar header, octal digits between    *)
(* blanks, one character per step.  The value has a width; here it is much *)
(* smaller than 64 bits, so that fields of a few characters overflow it.   *)
(***************************************************************************)
EXTENDS Integers, Sequences

CONSTANTS
    len,         \* characters of the field
    ULLMax,         \* the largest value, 7 modulo 8; it also stands for an error
    Digits       \* the digits that occur, of 0..7

Blank == 8   \* ' ' or 0
Other == 9   \* neither a blank nor an octal digit

VARIABLES s, i, val, seen, ret
vars == <<s, i, val, seen, ret>>

None == -1   \* has not returned

Return(v) == ret' = v /\ UNCHANGED <<s, i, val, seen>>

SkipBlank ==
    /\ ret = None /\ i < len /\ s[i + 1] = Blank /\ ~seen
    /\ i' = i + 1
    /\ UNCHANGED <<s, val, seen, ret>>

EndOfNumber ==
    /\ ret = None
    /\ \/ i = len
       \/ i < len /\ s[i + 1] = Blank /\ seen
    /\ Return(val)

RoomForDigitOff == val <= (ULLMax + 1) \div 8

(* A digit more must not overflow. *)
RoomForDigit == val <= (ULLMax - 7) \div 8

BadCharacter ==
    /\ ret = None /\ i < len /\ s[i + 1] # Blank
    /\ s[i + 1] = Other \/ ~RoomForDigit
    /\ Return(ULLMax)

Digit ==
    /\ ret = None /\ i < len /\ s[i + 1] \in 0..7 /\ RoomForDigit
    /\ val' = (val * 8 + s[i + 1]) % (ULLMax + 1)
    /\ seen' = TRUE /\ i' = i + 1
    /\ UNCHANGED <<s, ret>>

Init ==
    /\ s \in [1..len -> Digits \cup {Blank, Other}]
    /\ i = 0 /\ val = 0 /\ seen = FALSE /\ ret = None

Next == SkipBlank \/ EndOfNumber \/ BadCharacter \/ Digit

Spec == Init /\ [][Next]_vars
-----------------------------------------------------------------------------
(* The number: from the first character that is no blank to the next blank *)
(* or the end.                                                             *)
Places ==
    { j \in 1..len :
        /\ s[j] # Blank
        /\ \A a, b \in 1..j : a < b /\ s[a] # Blank => s[b] # Blank }

RECURSIVE Octal(_)
Octal(P) ==
    IF P = {} THEN 0
    ELSE LET last == CHOOSE j \in P : \A k \in P : k <= j
         IN  8 * Octal(P \ {last}) + s[last]

(* The function returns the value of the number, or the error value when   *)
(* it is not octal or does not fit the width; an entry whose size was cut  *)
(* would move every later entry of the archive.                            *)
SizeRight ==
    ret # None =>
        ret = IF \E j \in Places : s[j] = Other THEN ULLMax
              ELSE IF Octal(Places) > ULLMax THEN ULLMax ELSE Octal(Places)
=============================================================================
