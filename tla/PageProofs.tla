---------------------------- MODULE PageProofs ------------------------------
(***************************************************************************)
(* Two pages of the Web server.  The terminal: its ring holds the latest   *)
(* output, for every size of the ring and of the line buffer, every client *)
(* gets a suffix of it, no character is lost on the way, and an abort hits *)
(* no later command.  The MAC addresses: an edit does what it is answered  *)
(* to have done, and nothing else.                                         *)
(***************************************************************************)
EXTENDS Webterm, ArtEdit, FiniteSetTheorems, SequenceTheorems, TLAPS

\* The position j places after t.
At(t, j) == IF t + j < SIZE THEN t + j ELSE t + j - SIZE

\* Every wrap of the code (% SIZE) is of a sum below twice the size.
LEMMA Wrap ==
    ASSUME NEW t \in Nat, NEW j \in Nat, t < SIZE, j <= SIZE
    PROVE  (t + j) % SIZE = At(t, j)
  <1>1. CASE t + j < SIZE
    BY <1>1, RingAssumption, SMTT(30) DEF At
  <1>2. CASE t + j >= SIZE
    <2>1. t + j = 1 * SIZE + (t + j - SIZE) /\ t + j - SIZE \in 0 .. SIZE - 1
      BY <1>2, RingAssumption
    <2>. QED  BY <1>2, <2>1, RingAssumption, SMTT(30) DEF At
  <1>. QED  BY <1>1, <1>2, RingAssumption

\* How many old bytes a copy of len bytes pushes out of a ring that holds c.
Over(c, len) == IF c + len > SIZE THEN c + len - SIZE ELSE 0

\* After a copy the head is again count places after the tail.
LEMMA HeadAfterCopy ==
    ASSUME NEW t \in Nat, NEW c \in Nat, NEW len \in Nat, t < SIZE, c <= SIZE, len <= SIZE
    PROVE  /\ Over(c, len) \in Nat /\ Over(c, len) <= len
           /\ c + len - Over(c, len) \in Nat /\ c + len - Over(c, len) <= SIZE
           /\ At(t, Over(c, len)) \in 0 .. SIZE - 1
           /\ At(At(t, c), len) = At(At(t, Over(c, len)), c + len - Over(c, len))
  BY RingAssumption DEF At, Over

\* Two moves round the ring add up.
LEMMA AtAdds ==
    ASSUME NEW t \in Nat, NEW v \in Nat, NEW j \in Nat, t < SIZE, v <= SIZE, j <= SIZE,
           v + j < 2 * SIZE
    PROVE  At(At(t, v), j) = IF v + j < SIZE THEN At(t, v + j) ELSE At(t, v + j - SIZE)
  BY RingAssumption DEF At

\* The m-th new byte is written by the first memcpy or by the second.
LEMMA NewPlace ==
    ASSUME NEW h \in Nat, NEW len \in Nat, NEW m \in 0 .. len - 1, h < SIZE, len <= SIZE
    PROVE  \/ /\ h <= At(h, m) /\ At(h, m) < h + Least(len, SIZE - h)
              /\ At(h, m) - h + 1 = m + 1
           \/ /\ ~(h <= At(h, m)) /\ At(h, m) < len - Least(len, SIZE - h)
              /\ Least(len, SIZE - h) + At(h, m) + 1 = m + 1
  BY RingAssumption DEF At, Least

\* A ring that holds min(captured, SIZE) bytes goes on doing so.
LEMMA CountAfterCopy ==
    ASSUME NEW sq \in Nat, NEW len \in Nat, len <= SIZE
    PROVE  /\ Least(sq, SIZE) <= sq
           /\ Least(sq, SIZE) + len - Over(Least(sq, SIZE), len) = Least(sq + len, SIZE)
  BY RingAssumption DEF Least, Over

\* An old byte that is not pushed out is written by neither.
LEMMA OldPlace ==
    ASSUME NEW t \in Nat, NEW c \in Nat, NEW len \in Nat, t < SIZE, c <= SIZE, len <= SIZE,
           NEW q \in Nat, q < c, q >= Over(c, len)
    PROVE  /\ ~(At(t, c) <= At(t, q) /\ At(t, q) < At(t, c) + Least(len, SIZE - At(t, c)))
           /\ ~(At(t, q) < len - Least(len, SIZE - At(t, c)))
  BY RingAssumption DEF At, Least, Over

\* The part of Holds that is about positions, without the modulus.
Placed(o) ==
    /\ o.seq = Len(o.stream)
    /\ o.count = Least(o.seq, SIZE)
    /\ o.head = At(o.tail, o.count)

Filled(o) ==
    \A j \in 0 .. o.count - 1 :
        o.buffer[At(o.tail, j)] = o.stream[o.seq - o.count + 1 + j]

\* Holds without the modulus.
LEMMA HoldsPlain ==
    ASSUME NEW o \in Ring
    PROVE  Holds(o) <=> Placed(o) /\ Filled(o)
  <1>1. o.tail \in Nat /\ o.count \in Nat /\ o.tail < SIZE /\ o.count <= SIZE
    BY RingAssumption DEF Ring, Slot
  <1>2. (o.tail + o.count) % SIZE = At(o.tail, o.count)
    BY <1>1, Wrap, RingAssumption, Zenon
  <1>3. \A j \in 0 .. o.count - 1 : (o.tail + j) % SIZE = At(o.tail, j)
    <2>. SUFFICES ASSUME NEW j \in 0 .. o.count - 1
                  PROVE  (o.tail + j) % SIZE = At(o.tail, j)
      BY Zenon
    <2>1. j \in Nat /\ j <= SIZE
      BY <1>1, RingAssumption
    <2>. QED  BY <1>1, <2>1, Wrap, Zenon
  <1>. QED  BY <1>2, <1>3, Zenon DEF Holds, Placed, Filled

\* What the two memcpy calls leave at each place of the ring.
Pasted(o, src, n) ==
    LET first == Least(Len(src), SIZE - o.head)
    IN  \A i \in Slot :
            n.buffer[i] = IF o.head <= i /\ i < o.head + first THEN src[i - o.head + 1]
                          ELSE IF i < Len(src) - first THEN src[first + i + 1]
                          ELSE o.buffer[i]

\* The positions after a copy.
Moved(o, src, n) ==
    /\ n.head = At(o.head, Len(src))
    /\ n.tail = At(o.tail, Over(o.count, Len(src)))
    /\ n.count = o.count + Len(src) - Over(o.count, Len(src))
    /\ n.seq = o.seq + Len(src)
    /\ n.stream = o.stream \o src

\* webterm_batch_copy, field by field and without the modulus.
LEMMA CopyFields ==
    ASSUME NEW o \in Ring, NEW src \in Seq(Byte), Len(src) \in 1 .. SIZE,
           NEW n, n = webterm_batch_copy(o, src)
    PROVE  /\ Pasted(o, src, n)
           /\ Moved(o, src, n)
           /\ n \in Ring
           /\ n.line = o.line
           /\ n.cr = o.cr
  <1>. DEFINE len   == Len(src)
              first == Least(len, SIZE - o.head)
              over  == o.count + len - SIZE
              bytes == [i \in Slot |->
                          IF o.head <= i /\ i < o.head + first THEN src[i - o.head + 1]
                          ELSE IF i < len - first THEN src[first + i + 1]
                          ELSE o.buffer[i]]
              hd    == IF len > first THEN len - first ELSE (o.head + first) % SIZE
              tl    == IF over > 0 THEN (o.tail + over) % SIZE ELSE o.tail
              cnt   == IF over > 0 THEN SIZE ELSE o.count + len
  <1>1. /\ o.head \in Nat /\ o.head < SIZE /\ o.tail \in Nat /\ o.tail < SIZE
        /\ o.count \in Nat /\ o.count <= SIZE /\ o.seq \in Nat
        /\ o.stream \in Seq(Byte) /\ o.buffer \in [Slot -> Byte]
        /\ o.line \in Seq(Byte) /\ o.cr \in BOOLEAN
    BY RingAssumption DEF Ring, Slot
  <1>2. n = [buffer |-> bytes, head |-> hd, tail |-> tl, count |-> cnt, seq |-> o.seq + len,
             line |-> o.line, cr |-> o.cr, stream |-> o.stream \o src]
    BY RingAssumption, Zenon DEF webterm_batch_copy, Ring
  <1>3. first \in Nat /\ first <= len /\ first <= SIZE - o.head /\ len \in Nat /\ len <= SIZE
    BY <1>1, RingAssumption, SMTT(60) DEF Least
  <1>4. hd = At(o.head, len)
    <2>1. CASE len > first
      BY <1>1, <1>3, <2>1, RingAssumption DEF At, Least
    <2>2. CASE ~(len > first)
      <3>1. first = len
        BY <1>3, <2>2
      <3>2. (o.head + len) % SIZE = At(o.head, len)
        BY <1>1, <1>3, Wrap, Zenon
      <3>. QED  BY <2>2, <3>1, <3>2, Zenon
    <2>. QED  BY <2>1, <2>2, Zenon
  <1>5. tl = IF over > 0 THEN At(o.tail, over) ELSE o.tail
    <2>1. CASE over > 0
      <3>1. over \in Nat /\ over <= SIZE
        BY <1>1, <1>3, <2>1, RingAssumption
      <3>2. (o.tail + over) % SIZE = At(o.tail, over)
        BY <1>1, <3>1, Wrap, Zenon
      <3>. QED  BY <2>1, <3>2, Zenon
    <2>2. CASE ~(over > 0)
      BY <2>2, Zenon
    <2>. QED  BY <2>1, <2>2, Zenon
  <1>6. hd \in Slot /\ tl \in Slot /\ cnt \in 0 .. SIZE
    <2>1. \A t, j \in Nat : t < SIZE /\ j <= SIZE => At(t, j) \in Slot
      BY RingAssumption DEF At, Slot
    <2>2. hd \in Slot
      BY <1>1, <1>3, <1>4, <2>1, Zenon
    <2>3. tl \in Slot
      <3>1. CASE over > 0
        <4>1. over \in Nat /\ over <= SIZE
          BY <1>1, <1>3, <3>1, RingAssumption
        <4>. HIDE DEF over, tl
        <4>. QED  BY <1>1, <1>5, <2>1, <3>1, <4>1, Zenon
      <3>2. CASE ~(over > 0)
        BY <3>2, Zenon DEF Ring
      <3>. QED  BY <3>1, <3>2, Zenon
    <2>4. cnt \in 0 .. SIZE
      BY <1>1, <1>3, RingAssumption
    <2>. QED  BY <2>2, <2>3, <2>4, Zenon
  <1>7. bytes \in [Slot -> Byte]
    <2>. SUFFICES ASSUME NEW i \in Slot  PROVE bytes[i] \in Byte
      BY Zenon
    <2>1. i \in Nat /\ o.buffer[i] \in Byte
      BY <1>1, RingAssumption DEF Slot
    <2>2. \A k \in 1 .. len : src[k] \in Byte
      BY <1>3
    <2>3. CASE o.head <= i /\ i < o.head + first
      <3>1. i - o.head + 1 \in 1 .. len
        BY <1>1, <1>3, <2>1, <2>3, SMTT(60)
      <3>. QED  BY <2>2, <2>3, <3>1, Zenon
    <2>4. CASE ~(o.head <= i /\ i < o.head + first) /\ i < len - first
      <3>1. first + i + 1 \in 1 .. len
        BY <1>1, <1>3, <2>1, <2>4, SMTT(60)
      <3>. QED  BY <2>2, <2>4, <3>1, Zenon
    <2>5. CASE ~(o.head <= i /\ i < o.head + first) /\ ~(i < len - first)
      BY <2>1, <2>5, Zenon
    <2>. QED  BY <2>3, <2>4, <2>5, Zenon
  <1>8. o.stream \o src \in Seq(Byte) /\ o.seq + len \in Nat
    BY <1>1, <1>3
  <1>. HIDE DEF bytes, hd, tl, cnt, over, first
  <1>9. n \in Ring /\ n.line = o.line /\ n.cr = o.cr
    BY <1>1, <1>2, <1>6, <1>7, <1>8 DEF Ring
  <1>10. Moved(o, src, n)
    <2>1. tl = At(o.tail, Over(o.count, len))
      BY <1>1, <1>3, <1>5, RingAssumption, SMTT(60) DEF over, Over, At
    <2>2. cnt = o.count + len - Over(o.count, len)
      BY <1>1, <1>3, RingAssumption DEF cnt, over, Over
    <2>. QED  BY <1>2, <1>4, <2>1, <2>2 DEF Moved
  <1>11. Pasted(o, src, n)
    BY <1>2 DEF Pasted, bytes, first
  <1>. QED  BY <1>9, <1>10, <1>11, Zenon
Geometry(t, c, len, h, first, v) ==
    h = At(t, c) /\ first = Least(len, SIZE - h) /\ v = Over(c, len)

Sizes(t, c, sq, len, stream, src, h, first, v) ==
    /\ t \in Nat /\ c \in Nat /\ sq \in Nat /\ len \in Nat
    /\ h \in Nat /\ first \in Nat /\ v \in Nat
    /\ stream \in Seq(Byte) /\ src \in Seq(Byte)
    /\ t < SIZE /\ c <= SIZE /\ c <= sq /\ len >= 1 /\ len <= SIZE /\ h < SIZE
    /\ sq = Len(stream) /\ len = Len(src) /\ v <= len /\ c + len - v <= SIZE

OldBytes(bytes, t, c, stream, sq) ==
    \A j \in 0 .. c - 1 : bytes[At(t, j)] = stream[sq - c + 1 + j]

NewBytes(nbuf, bytes, src, h, first, len) ==
    \A i \in Slot :
        nbuf[i] = IF h <= i /\ i < h + first THEN src[i - h + 1]
                  ELSE IF i < len - first THEN src[first + i + 1]
                  ELSE bytes[i]

\* The bytes after a copy, in plain values: new bytes land after the head, and
\* old ones that are still counted are not overwritten.
LEMMA CopyBytes ==
    ASSUME NEW t, NEW c, NEW sq, NEW len, NEW stream, NEW src, NEW bytes, NEW nbuf,
           NEW h, NEW first, NEW v,
           Sizes(t, c, sq, len, stream, src, h, first, v), Geometry(t, c, len, h, first, v),
           OldBytes(bytes, t, c, stream, sq), NewBytes(nbuf, bytes, src, h, first, len)
    PROVE  OldBytes(nbuf, At(t, v), c + len - v, stream \o src, sq + len)
  <1>a. /\ t \in Nat /\ c \in Nat /\ sq \in Nat /\ len \in Nat
        /\ h \in Nat /\ first \in Nat /\ v \in Nat
        /\ t < SIZE /\ c <= SIZE /\ c <= sq /\ len >= 1 /\ len <= SIZE /\ h < SIZE
        /\ v <= len /\ c + len - v <= SIZE
    BY Zenon DEF Sizes
  <1>s. stream \in Seq(Byte) /\ src \in Seq(Byte) /\ sq = Len(stream) /\ len = Len(src)
    BY Zenon DEF Sizes
  <1>. USE <1>a
  <1>. DEFINE nt == At(t, v)
              nc == c + len - v
              all == stream \o src
              nsq == sq + len
  <1>. SUFFICES ASSUME NEW j \in 0 .. nc - 1
                PROVE  nbuf[At(nt, j)] = all[nsq - nc + 1 + j]
    <2>. HIDE DEF nt, nc, all, nsq
    <2>1. SUFFICES OldBytes(nbuf, nt, nc, all, nsq)
      BY Zenon DEF nt, nc, all, nsq
    <2>. QED  BY Zenon DEF OldBytes
  <1>b. j \in Nat /\ j < c + len - v /\ sq + len - (c + len - v) + 1 + j = sq - c + v + 1 + j
    OBVIOUS
  <1>. SUFFICES nbuf[At(At(t, v), j)] = (stream \o src)[sq - c + v + 1 + j]
    <2>. DEFINE k1 == nsq - nc + 1 + j
                k2 == sq - c + v + 1 + j
    <2>1. k1 = k2
      OBVIOUS
    <2>. HIDE DEF k1, k2
    <2>2. SUFFICES nbuf[At(nt, j)] = all[k1]
      BY Zenon DEF k1
    <2>3. nbuf[At(nt, j)] = all[k2]
      BY Zenon DEF k2
    <2>. QED  BY <2>1, <2>3, Zenon
  <1>. USE <1>b
  <1>. DEFINE k == sq - c + v + 1 + j
              i == At(At(t, v), j)
  <1>0. h = At(t, c) /\ first = Least(len, SIZE - h) /\ v = Over(c, len)
    BY Zenon DEF Geometry
  <1>1. k \in 1 .. sq + len
    OBVIOUS
  <1>2. (stream \o src)[k] = IF k <= sq THEN stream[k] ELSE src[k - sq]
    BY <1>1, <1>s, SMTT(60)
  <1>3. i = IF v + j < SIZE THEN At(t, v + j) ELSE At(t, v + j - SIZE)
    <2>1. v <= SIZE /\ j <= SIZE /\ v + j < 2 * SIZE
      BY RingAssumption
    <2>. QED  BY <2>1, AtAdds
  <1>4. i \in Slot
    BY <1>3, RingAssumption DEF At, Slot
  <1>5. nbuf[i] = IF h <= i /\ i < h + first THEN src[i - h + 1]
                  ELSE IF i < len - first THEN src[first + i + 1]
                  ELSE bytes[i]
    BY <1>4, Zenon DEF NewBytes
  <1>. HIDE DEF i, k
  <1>6. CASE v + j >= c
    <2>1. PICK m \in Nat : v + j = c + m
      BY <1>6
    <2>2. m \in 0 .. len - 1 /\ k = sq + m + 1
      BY <2>1 DEF k
    <2>3. At(h, m) = IF c + m < SIZE THEN At(t, c + m) ELSE At(t, c + m - SIZE)
      <3>1. m <= SIZE /\ c + m < 2 * SIZE
        BY <2>2, RingAssumption
      <3>2. At(At(t, c), m) = IF c + m < SIZE THEN At(t, c + m) ELSE At(t, c + m - SIZE)
        BY <3>1, AtAdds
      <3>. QED  BY <1>0, <3>2, Zenon
    <2>4. i = At(h, m)
      BY <1>3, <2>1, <2>2, <2>3, RingAssumption DEF At
    <2>5. \/ h <= i /\ i < h + first /\ i - h + 1 = m + 1
          \/ ~(h <= i) /\ i < len - first /\ first + i + 1 = m + 1
      <3>1. \/ /\ h <= At(h, m) /\ At(h, m) < h + Least(len, SIZE - h)
               /\ At(h, m) - h + 1 = m + 1
            \/ /\ ~(h <= At(h, m)) /\ At(h, m) < len - Least(len, SIZE - h)
               /\ Least(len, SIZE - h) + At(h, m) + 1 = m + 1
        BY <2>2, NewPlace
      <3>. QED  BY <1>0, <2>4, <3>1, Zenon
    <2>6. nbuf[i] = src[m + 1]
      <3>1. CASE h <= i /\ i < h + first /\ i - h + 1 = m + 1
        <4>1. nbuf[i] = src[i - h + 1]
          BY <1>5, <3>1, Zenon
        <4>. QED  BY <3>1, <4>1, Zenon
      <3>2. CASE ~(h <= i) /\ i < len - first /\ first + i + 1 = m + 1
        <4>1. nbuf[i] = src[first + i + 1]
          BY <1>5, <3>2, Zenon
        <4>. QED  BY <3>2, <4>1, Zenon
      <3>. QED  BY <2>5, <3>1, <3>2, Zenon
    <2>7. ~(k <= sq) /\ k - sq = m + 1
      BY <2>2
    <2>. QED  BY <1>2, <2>6, <2>7, Zenon DEF i, k
  <1>7. CASE v + j < c
    <2>1. PICK q \in Nat : q = v + j
      OBVIOUS
    <2>2. q < c /\ q >= v /\ q < SIZE
      BY <1>7, <2>1, RingAssumption
    <2>3. k <= sq /\ k = sq - c + 1 + q
      BY <2>1, <2>2 DEF k
    <2>4. i = At(t, q)
      BY <1>3, <2>1, <2>2, Zenon
    <2>5. ~(h <= i /\ i < h + first) /\ ~(i < len - first)
      <3>1. q >= Over(c, len)
        BY <1>0, <2>2, Zenon
      <3>2. /\ ~(At(t, c) <= At(t, q) /\ At(t, q) < At(t, c) + Least(len, SIZE - At(t, c)))
            /\ ~(At(t, q) < len - Least(len, SIZE - At(t, c)))
        BY <2>2, <3>1, OldPlace, Zenon
      <3>. QED  BY <1>0, <2>4, <3>2, Zenon
    <2>6. bytes[At(t, q)] = stream[sq - c + 1 + q]
      BY <2>2 DEF OldBytes
    <2>. QED  BY <1>2, <1>5, <2>3, <2>4, <2>5, <2>6, Zenon DEF i, k
  <1>8. v + j >= c \/ v + j < c
    OBVIOUS
  <1>. QED  BY <1>6, <1>7, <1>8, Zenon

\* A copy keeps the ring right.
LEMMA CopyHolds ==
    ASSUME NEW o \in Ring, NEW src \in Seq(Byte), Len(src) \in 1 .. SIZE,
           NEW n, n = webterm_batch_copy(o, src), Holds(o)
    PROVE  n \in Ring /\ Holds(n) /\ n.line = o.line /\ n.cr = o.cr
  <1>1. Pasted(o, src, n) /\ Moved(o, src, n) /\ n \in Ring /\ n.line = o.line /\ n.cr = o.cr
    BY CopyFields, Zenon
  <1>2. Placed(o) /\ Filled(o)
    BY HoldsPlain, Zenon
  <1>3. PICK t, c, sq, h, stream, bytes :
          /\ t = o.tail /\ c = o.count /\ sq = o.seq /\ h = o.head
          /\ stream = o.stream /\ bytes = o.buffer
    BY Zenon
  <1>4. PICK len, v, first :
          len = Len(src) /\ v = Over(c, len) /\ first = Least(len, SIZE - h)
    BY Zenon
  <1>5. /\ t \in Nat /\ t < SIZE /\ h \in Nat /\ h < SIZE /\ c \in Nat /\ c <= SIZE
        /\ sq \in Nat /\ stream \in Seq(Byte) /\ len \in Nat /\ len >= 1 /\ len <= SIZE
    BY <1>3, <1>4, RingAssumption, SMTT(60) DEF Ring, Slot
  <1>6. h = At(t, c) /\ sq = Len(stream) /\ c = Least(sq, SIZE)
    BY <1>2, <1>3, Zenon DEF Placed
  <1>7. OldBytes(bytes, t, c, stream, sq)
    BY <1>2, <1>3, Zenon DEF Filled, OldBytes
  <1>8. NewBytes(n.buffer, bytes, src, h, first, len)
    BY <1>1, <1>3, <1>4, Zenon DEF Pasted, NewBytes
  <1>9. /\ n.head = At(h, len) /\ n.tail = At(t, v) /\ n.count = c + len - v
        /\ n.seq = sq + len /\ n.stream = stream \o src
    BY <1>1, <1>3, <1>4, Zenon DEF Moved
  <1>10. /\ v \in Nat /\ v <= len /\ c + len - v \in Nat /\ c + len - v <= SIZE
         /\ At(At(t, c), len) = At(At(t, v), c + len - v)
    BY <1>4, <1>5, HeadAfterCopy
  <1>11. c <= sq /\ c + len - v = Least(sq + len, SIZE)
    BY <1>4, <1>5, <1>6, CountAfterCopy, Zenon
  <1>12. Placed(n)
    <2>1. sq + len = Len(stream \o src)
      BY <1>4, <1>5, <1>6
    <2>. QED  BY <1>6, <1>9, <1>10, <1>11, <2>1, Zenon DEF Placed
  <1>13. Filled(n)
    <2>1. PICK nbuf : nbuf = n.buffer
      BY Zenon
    <2>2. first \in Nat
      BY <1>4, <1>5, RingAssumption DEF Least
    <2>3. Geometry(t, c, len, h, first, v)
      BY <1>4, <1>6, Zenon DEF Geometry
    <2>4. NewBytes(nbuf, bytes, src, h, first, len)
      BY <1>8, <2>1, Zenon
    <2>5. Sizes(t, c, sq, len, stream, src, h, first, v)
      BY <1>4, <1>5, <1>6, <1>10, <1>11, <2>2, Zenon DEF Sizes
    <2>6. OldBytes(nbuf, At(t, v), c + len - v, stream \o src, sq + len)
      BY <1>7, <2>3, <2>4, <2>5, CopyBytes, Zenon
    <2>. QED  BY <1>9, <2>1, <2>6, Zenon DEF Filled, OldBytes
  <1>14. Holds(n)
    BY <1>1, <1>12, <1>13, HoldsPlain, Zenon
  <1>. QED  BY <1>1, <1>14, Zenon
-----------------------------------------------------------------------------
Sound(o) == o \in Ring /\ Holds(o) /\ Len(o.line) <= LINE - 1

\* Changing only the line or the CR flag does not touch the ring.
LEMMA LineOnly ==
    ASSUME NEW o \in Ring, Holds(o), NEW l \in Seq(Byte), Len(l) <= LINE - 1,
           NEW f \in BOOLEAN
    PROVE  /\ Sound([o EXCEPT !.cr = f, !.line = l])
           /\ Sound([o EXCEPT !.line = l])
           /\ Len(o.line) <= LINE - 1 => Sound([o EXCEPT !.cr = f])
           /\ [o EXCEPT !.cr = f].line = o.line
  <1>. DEFINE a == [o EXCEPT !.cr = f, !.line = l]
              b == [o EXCEPT !.line = l]
              d == [o EXCEPT !.cr = f]
  <1>1. /\ a \in Ring /\ a.line = l /\ a.buffer = o.buffer /\ a.head = o.head /\ a.tail = o.tail
        /\ a.count = o.count /\ a.seq = o.seq /\ a.stream = o.stream
    BY Zenon DEF Ring
  <1>2. /\ b \in Ring /\ b.line = l /\ b.buffer = o.buffer /\ b.head = o.head /\ b.tail = o.tail
        /\ b.count = o.count /\ b.seq = o.seq /\ b.stream = o.stream
    BY Zenon DEF Ring
  <1>3. /\ d \in Ring /\ d.line = o.line /\ d.buffer = o.buffer /\ d.head = o.head /\ d.tail = o.tail
        /\ d.count = o.count /\ d.seq = o.seq /\ d.stream = o.stream
    BY Zenon DEF Ring
  <1>. HIDE DEF a, b, d
  <1>4. Holds(a)
    BY <1>1, Zenon DEF Holds
  <1>5. Holds(b)
    BY <1>2, Zenon DEF Holds
  <1>6. Holds(d)
    BY <1>3, Zenon DEF Holds
  <1>7. Sound(a) /\ Sound(b) /\ (Len(o.line) <= LINE - 1 => Sound(d)) /\ d.line = o.line
    BY <1>1, <1>2, <1>3, <1>4, <1>5, <1>6, Zenon DEF Sound
  <1>. QED  BY <1>7, Zenon DEF a, b, d

\* A line with its '\n' fits the ring, so a flush keeps the ring right.
LEMMA FlushSound ==
    ASSUME NEW o, Sound(o)
    PROVE  Sound(webterm_flush_line(o)) /\ webterm_flush_line(o).line = <<>>
  <1>. DEFINE src == Append(o.line, NL)
              n   == webterm_batch_copy(o, src)
  <1>1. o \in Ring /\ Holds(o) /\ o.line \in Seq(Byte) /\ Len(o.line) <= LINE - 1
    BY Zenon DEF Sound, Ring
  <1>2. src \in Seq(Byte) /\ Len(src) \in 1 .. SIZE
    BY <1>1, RingAssumption DEF Byte, NL
  <1>. HIDE DEF src, n
  <1>3. n \in Ring /\ Holds(n)
    BY <1>1, <1>2, CopyHolds, Zenon DEF n
  <1>4. <<>> \in Seq(Byte) /\ Len(<<>>) <= LINE - 1
    BY RingAssumption, SMTT(60)
  <1>5. Sound([n EXCEPT !.line = <<>>])
    BY <1>3, <1>4, LineOnly, Zenon
  <1>6. [n EXCEPT !.line = <<>>].line = <<>>
    BY <1>3, Zenon DEF Ring
  <1>. QED  BY <1>5, <1>6, Zenon DEF webterm_flush_line, n, src

(* The flush at the end of a command keeps the ring sound. *)
LEMMA FlushIfAnySound ==
    ASSUME NEW o, Sound(o)
    PROVE  Sound(FlushIfAny(o))
  BY FlushSound, Zenon DEF FlushIfAny

\* webterm_add_char keeps the ring right and the line within its buffer.
LEMMA AddSound ==
    ASSUME NEW o, Sound(o), NEW c \in Byte \cup {CR}
    PROVE  Sound(webterm_add_char(o, c))
  <1>1. o \in Ring /\ Holds(o) /\ o.line \in Seq(Byte) /\ Len(o.line) <= LINE - 1
    BY Zenon DEF Sound, Ring
  <1>2. CASE c = NL /\ o.cr
    <2>1. Sound([o EXCEPT !.cr = FALSE])
      BY <1>1, LineOnly, Zenon
    <2>2. ~(c = CR \/ (c = NL /\ ~o.cr))
      BY <1>2 DEF NL, CR
    <2>. QED  BY <1>2, <2>1, <2>2, Zenon DEF webterm_add_char
  <1>3. CASE ~(c = NL /\ o.cr) /\ (c = CR \/ (c = NL /\ ~o.cr))
    <2>1. (c = CR) \in BOOLEAN
      BY Zenon
    <2>2. Sound([o EXCEPT !.cr = (c = CR)])
      BY <1>1, <2>1, LineOnly, Zenon
    <2>3. Sound(FlushIfAny([o EXCEPT !.cr = (c = CR)]))
      BY <2>2, FlushIfAnySound, Zenon
    <2>. QED  BY <1>3, <2>3, Zenon DEF webterm_add_char
  <1>4. CASE ~(c = NL /\ o.cr) /\ ~(c = CR \/ (c = NL /\ ~o.cr))
    <2>. DEFINE q == IF Len(o.line) >= LINE - 1 THEN webterm_flush_line(o) ELSE o
                r == [q EXCEPT !.cr = FALSE, !.line = Append(@, c)]
    <2>1. c \in Byte
      BY <1>4, Zenon
    <2>2. q \in Ring /\ Holds(q) /\ q.line \in Seq(Byte) /\ Len(q.line) < LINE - 1
      <3>1. CASE Len(o.line) >= LINE - 1
        <4>1. Sound(q) /\ q.line = <<>>
          BY <3>1, FlushSound, Zenon
        <4>. HIDE DEF q
        <4>2. q \in Ring /\ Holds(q)
          BY <4>1, Zenon DEF Sound
        <4>3. <<>> \in Seq(Byte) /\ Len(<<>>) < LINE - 1
          BY RingAssumption
        <4>. QED  BY <4>1, <4>2, <4>3, Zenon
      <3>2. CASE ~(Len(o.line) >= LINE - 1)
        <4>1. q = o
          BY <3>2, Zenon
        <4>2. Len(o.line) \in Nat
          BY <1>1
        <4>3. Len(o.line) < LINE - 1
          BY <3>2, <4>2, RingAssumption
        <4>. QED  BY <1>1, <4>1, <4>3, Zenon
      <3>. QED  BY <3>1, <3>2, Zenon
    <2>. HIDE DEF q
    <2>3. Append(q.line, c) \in Seq(Byte) /\ Len(Append(q.line, c)) <= LINE - 1
      BY <2>1, <2>2, RingAssumption
    <2>4. r = [q EXCEPT !.cr = FALSE, !.line = Append(q.line, c)]
      BY <2>2, Zenon DEF Ring
    <2>5. Sound([q EXCEPT !.cr = FALSE, !.line = Append(q.line, c)])
      BY <2>2, <2>3, LineOnly, Zenon
    <2>6. webterm_add_char(o, c) = r
      BY <1>4, Zenon DEF webterm_add_char, q
    <2>. QED  BY <2>4, <2>5, <2>6, Zenon
  <1>. QED  BY <1>2, <1>3, <1>4, Zenon
(* A ring that was reset is sound. *)
LEMMA EmptySound == Sound(Empty)
  <1>1. Empty \in Ring /\ Empty.line = <<>> /\ Empty.seq = 0 /\ Empty.count = 0
        /\ Empty.head = 0 /\ Empty.tail = 0 /\ Empty.stream = <<>>
    BY RingAssumption DEF Empty, Ring, Slot, Byte, NL
  <1>2. Placed(Empty) /\ Filled(Empty)
    BY <1>1, RingAssumption DEF Placed, Filled, Least, At
  <1>. QED  BY <1>1, <1>2, HoldsPlain, RingAssumption DEF Sound

\* webterm_reset empties the ring, whatever the buffer holds.
LEMMA ResetSound ==
    ASSUME NEW o, Sound(o)
    PROVE  Sound(webterm_reset(o))
  <1>. DEFINE n == webterm_reset(o)
  <1>1. n \in Ring /\ n.line = <<>> /\ n.seq = 0 /\ n.count = 0
        /\ n.head = 0 /\ n.tail = 0 /\ n.stream = <<>>
    <2>1. o \in Ring
      BY Zenon DEF Sound
    <2>2. 0 \in Slot /\ 0 \in 0 .. SIZE /\ 0 \in Nat /\ <<>> \in Seq(Byte)
      BY RingAssumption DEF Slot
    <2>. QED  BY <2>1, <2>2, Zenon DEF webterm_reset, Ring
  <1>. HIDE DEF n
  <1>2. Placed(n) /\ Filled(n)
    BY <1>1, RingAssumption DEF Placed, Filled, Least, At
  <1>3. Sound(n)
    BY <1>1, <1>2, HoldsPlain, RingAssumption DEF Sound
  <1>. QED  BY <1>3, Zenon DEF n

Inv == Sound(out) /\ printed \in Nat

(* Every step of the terminal and of its page keeps the ring sound. *)
LEMMA InvStep ==
    ASSUME Inv, [Next]_vars
    PROVE  Inv'
  <1>. USE DEF Inv
  <1>1. CASE webterm_putc
    <2>1. CASE printed' = printed + 1 /\ out' = webterm_add_char(out, printed + 1)
      <3>1. printed + 1 \in Byte \cup {CR} /\ printed + 1 \in Nat
        BY DEF Byte
      <3>. QED  BY <2>1, <3>1, AddSound, Zenon
    <2>2. ASSUME NEW c \in {NL, CR}, out' = webterm_add_char(out, c), UNCHANGED printed
          PROVE  Inv'
      <3>1. c \in Byte \cup {CR}
        BY DEF Byte, NL
      <3>. QED  BY <2>2, <3>1, AddSound, Zenon
    <2>. QED  BY <1>1, <2>1, <2>2, Zenon DEF webterm_putc
  <1>2. CASE webterm_execute_command
    <2>1. out' = webterm_add_char(webterm_add_char(out, printed + 1), NL) /\ printed' = printed + 1
      BY <1>2, Zenon DEF webterm_execute_command
    <2>2. printed + 1 \in Byte \cup {CR} /\ printed + 1 \in Nat /\ NL \in Byte \cup {CR}
      BY DEF Byte, NL
    <2>3. Sound(webterm_add_char(out, printed + 1))
      BY <2>2, AddSound, Zenon
    <2>4. Sound(webterm_add_char(webterm_add_char(out, printed + 1), NL))
      BY <2>2, <2>3, AddSound, Zenon
    <2>. QED  BY <2>1, <2>2, <2>4, Zenon
  <1>3. CASE CommandReturned
    BY <1>3, FlushIfAnySound, Zenon DEF CommandReturned
  <1>4. CASE ResetServed
    BY <1>4, ResetSound, Zenon DEF ResetServed
  <1>5. ASSUME NEW p \in Poller, fetchStatus(p) \/ fetchOutput(p)
        PROVE  Inv'
    BY <1>5, FlushIfAnySound, Zenon DEF fetchStatus, fetchOutput
  <1>6. CASE UNCHANGED <<out, printed>>
    BY <1>6, Zenon
  <1>7. CASE webterm_run_pending_command \/ webterm_abort \/ ctrlc \/ clearTerminal \/ UNCHANGED vars
    BY <1>6, <1>7, Zenon DEF webterm_run_pending_command, webterm_abort, ctrlc, clearTerminal, vars
  <1>8. ASSUME NEW p \in Poller, StatusLost(p) \/ StatusRead(p) \/ DataRead(p) \/ DataLost(p)
        PROVE  Inv'
    BY <1>6, <1>8, Zenon DEF StatusLost, StatusRead, DataRead, DataLost
  <1>. QED  BY <1>1, <1>2, <1>3, <1>4, <1>5, <1>7, <1>8, Zenon DEF Next, Terminal, Page

\* For every ring and line size, every output and every interleaving of
\* commands, requests and resets: the ring holds the latest output, and the line
\* buffer is never overrun.
THEOREM RingRight == Spec => [](TypeOK /\ RingHolds)
  <1>1. Init => Inv
    BY EmptySound DEF Init, Inv
  <1>2. Inv /\ [Next]_vars => Inv'
    BY InvStep, Zenon
  <1>3. Inv => TypeOK /\ RingHolds
    BY Zenon DEF Inv, Sound, TypeOK, RingHolds
  <1>. QED  BY <1>1, <1>2, <1>3, PTL DEF Spec
\* The last l elements of a sequence.
LEMMA SuffixIs ==
    ASSUME NEW s \in Seq(Byte), NEW l \in Nat, l >= 1, l <= Len(s)
    PROVE  SubSeq(s, Len(s) - l + 1, Len(s)) = [i \in 1 .. l |-> s[Len(s) - l + i]]
  <1>. DEFINE m == Len(s) - l + 1
              n == Len(s)
  <1>1. m \in 1 .. Len(s) + 1 /\ n \in m - 1 .. Len(s) /\ n \in Nat
    OBVIOUS
  <1>2. SubSeq(s, m, n) = [i \in 1 .. n - m + 1 |-> s[m + i - 1]]
    BY <1>1
  <1>3. n - m + 1 = l /\ \A i \in 1 .. l : m + i - 1 = Len(s) - l + i
    BY <1>1
  <1>. QED  BY <1>2, <1>3, Zenon

\* What webterm_get_output copies is, place by place, the end of the output.
LEMMA OutputIs ==
    ASSUME NEW o \in Ring, Holds(o), NEW since \in 0 .. o.seq
    PROVE  webterm_get_output(o, SIZE, since) =
               LET from == IF o.seq - since > SIZE - 1 THEN o.seq - (SIZE - 1) ELSE since
               IN  SubSeq(o.stream, from + 1, o.seq)
  <1>. DEFINE from == IF o.seq - since > SIZE - 1 THEN o.seq - (SIZE - 1) ELSE since
  <1>1. Placed(o) /\ Filled(o)
    BY HoldsPlain, Zenon
  <1>2. /\ o.tail \in Nat /\ o.tail < SIZE /\ o.count \in Nat /\ o.count <= SIZE
        /\ o.seq \in Nat /\ o.stream \in Seq(Byte) /\ since \in Nat /\ since <= o.seq
    BY RingAssumption DEF Ring, Slot
  <1>3. o.seq = Len(o.stream) /\ o.count = Least(o.seq, SIZE)
    BY <1>1, Zenon DEF Placed
  <1>4. CASE o.count = 0 \/ since >= o.seq
    <2>1. since = o.seq
      BY <1>2, <1>3, <1>4, RingAssumption DEF Least
    <2>2. from = o.seq
      BY <1>2, <2>1, RingAssumption
    <2>3. SubSeq(o.stream, o.seq + 1, o.seq) = <<>>
      BY <1>2, <1>3
    <2>. QED  BY <1>4, <2>2, <2>3, Zenon DEF webterm_get_output
  <1>5. CASE ~(o.count = 0 \/ since >= o.seq)
    <2>. DEFINE len   == Least(Least(o.seq - since, o.count), SIZE - 1)
                skip  == o.count - len
                pos   == (o.tail + skip) % SIZE
                first == Least(len, SIZE - pos)
                got   == [i \in 1 .. len |->
                            IF i <= first THEN o.buffer[pos + i - 1] ELSE o.buffer[i - first - 1]]
    <2>1. len \in Nat /\ len >= 1 /\ len <= o.count /\ from = o.seq - len /\ o.count <= o.seq
      <3>1. PICK sq, ct : sq = o.seq /\ ct = o.count
        BY Zenon
      <3>2. /\ sq \in Nat /\ ct \in Nat /\ ct = Least(sq, SIZE)
            /\ ct > 0 /\ since \in Nat /\ since < sq
        BY <1>2, <1>3, <1>5, <3>1
      <3>3. LET l == Least(Least(sq - since, ct), SIZE - 1)
            IN  /\ l \in Nat /\ l >= 1 /\ l <= ct /\ ct <= sq
                /\ (IF sq - since > SIZE - 1 THEN sq - (SIZE - 1) ELSE since) = sq - l
        BY <3>2, RingAssumption, SMTT(30) DEF Least
      <3>. QED  BY <3>1, <3>3, Zenon
    <2>. HIDE DEF len, from
    <2>2. skip \in Nat /\ skip <= SIZE
      BY <1>2, <2>1, RingAssumption, SMTT(60)
    <2>3. pos = At(o.tail, skip)
      <3>. HIDE DEF skip
      <3>. QED  BY <1>2, <2>2, Wrap, Zenon
    <2>4. pos \in Nat /\ pos < SIZE
      <3>. HIDE DEF pos, skip
      <3>. QED  BY <1>2, <2>2, <2>3, RingAssumption, SMTT(60) DEF At
    <2>. HIDE DEF pos
    <2>5. ASSUME NEW i \in 1 .. len
          PROVE  got[i] = o.stream[o.seq - len + i]
      <3>. DEFINE j == skip + (i - 1)
      <3>1. j \in 0 .. o.count - 1 /\ i \in Nat /\ i >= 1 /\ i <= SIZE /\ j < SIZE
        BY <1>2, <2>1, RingAssumption, SMTT(60)
      <3>2. At(pos, i - 1) = At(o.tail, j)
        <4>1. i - 1 \in Nat /\ i - 1 <= SIZE
          BY <3>1, RingAssumption
        <4>2. skip + (i - 1) < SIZE
          BY <3>1, Zenon
        <4>. HIDE DEF skip
        <4>3. At(At(o.tail, skip), i - 1) = At(o.tail, skip + (i - 1))
          BY <1>2, <2>2, <4>1, <4>2, AtAdds, RingAssumption
        <4>. QED  BY <2>3, <4>3, Zenon
      <3>3. o.buffer[At(o.tail, j)] = o.stream[o.seq - o.count + 1 + j]
        BY <1>1, <3>1, Zenon DEF Filled
      <3>4. o.seq - o.count + 1 + j = o.seq - len + i
        BY <1>2, <2>1, <3>1, SMTT(60)
      <3>5. got[i] = o.buffer[At(pos, i - 1)]
        <4>1. CASE i <= first
          <5>1. At(pos, i - 1) = pos + i - 1
            BY <2>1, <2>4, <3>1, <4>1, RingAssumption DEF At, Least
          <5>. QED  BY <4>1, <5>1, Zenon
        <4>2. CASE ~(i <= first)
          <5>1. At(pos, i - 1) = i - first - 1
            BY <2>1, <2>4, <3>1, <4>2, RingAssumption DEF At, Least
          <5>. QED  BY <4>2, <5>1, Zenon
        <4>. QED  BY <4>1, <4>2, Zenon
      <3>. QED  BY <3>2, <3>3, <3>4, <3>5, Zenon
    <2>. HIDE DEF got
    <2>6. got = SubSeq(o.stream, o.seq - len + 1, o.seq)
      <3>1. SubSeq(o.stream, o.seq - len + 1, o.seq) =
                [i \in 1 .. len |-> o.stream[o.seq - len + i]]
        <4>1. len <= Len(o.stream)
          BY <1>2, <1>3, <2>1
        <4>2. SubSeq(o.stream, Len(o.stream) - len + 1, Len(o.stream)) =
                  [i \in 1 .. len |-> o.stream[Len(o.stream) - len + i]]
          BY <1>2, <2>1, <4>1, SuffixIs, Zenon
        <4>. QED  BY <1>3, <4>2, Zenon
      <3>2. got = [i \in 1 .. len |-> o.stream[o.seq - len + i]]
        BY <2>5, Zenon DEF got
      <3>. QED  BY <3>1, <3>2, Zenon
    <2>7. webterm_get_output(o, SIZE, since) = got
      BY <1>5, Zenon DEF webterm_get_output, got, len, pos
    <2>. QED  BY <2>1, <2>6, <2>7, Zenon DEF from
  <1>. QED  BY <1>4, <1>5, Zenon

\* Whatever "since" a client sends, the answer is a gapless end of the output.
THEOREM AnswersRight == Spec => []OutputSince
  <1>1. TypeOK /\ RingHolds => OutputSince
    BY OutputIs, Zenon DEF TypeOK, RingHolds, OutputSince
  <1>. QED  BY <1>1, RingRight, PTL
-----------------------------------------------------------------------------
CmdType ==
    cmd \in [pending : BOOLEAN, running : Nat, abort : BOOLEAN, started : Nat, asked : Nat]

\* An abort never hits a command that was started after it was asked for:
\* webterm_execute_command and webterm_run_pending_command both clear the
\* flag, ctrlc and the end of a command cannot set it.
THEOREM AbortsRight == Spec => []AbortFresh
  <1>. DEFINE I == CmdType /\ AbortFresh
  <1>1. Init => I
    BY DEF Init, CmdType, AbortFresh
  <1>2. I /\ [Next]_vars => I'
    <2>. SUFFICES ASSUME CmdType, AbortFresh, [Next]_vars PROVE I'
      BY Zenon
    <2>1. CASE cmd' = cmd
      BY <2>1, Zenon DEF CmdType, AbortFresh
    <2>2. CASE webterm_execute_command
      BY <2>2, Zenon DEF webterm_execute_command, CmdType, AbortFresh
    <2>3. CASE webterm_run_pending_command
      <3>1. CmdType'
        <4>1. cmd.running \in Nat /\ cmd.started \in Nat
          BY Zenon DEF CmdType
        <4>2. cmd.running + 1 \in Nat /\ cmd.started + 1 \in Nat
          BY <4>1
        <4>. QED  BY <2>3, <4>2, Zenon DEF webterm_run_pending_command, CmdType
      <3>2. ~cmd'.abort
        BY <2>3, Zenon DEF webterm_run_pending_command, CmdType
      <3>. QED  BY <3>1, <3>2, Zenon DEF AbortFresh
    <2>4. CASE CommandReturned
      BY <2>4 DEF CommandReturned, CmdType, AbortFresh
    <2>5. CASE webterm_abort
      BY <2>5, Zenon DEF webterm_abort, CmdType, AbortFresh
    <2>6. CASE ctrlc
      BY <2>6, Zenon DEF ctrlc, CmdType, AbortFresh
    <2>7. webterm_putc \/ ResetServed \/ clearTerminal \/ UNCHANGED vars => cmd' = cmd
      BY Zenon DEF webterm_putc, ResetServed, clearTerminal, vars
    <2>8. (\E p \in Poller : Page(p)) => cmd' = cmd
      BY Zenon DEF Page, fetchStatus, StatusLost, StatusRead, fetchOutput, DataRead, DataLost
    <2>. QED
      BY <2>1, <2>2, <2>3, <2>4, <2>5, <2>6, <2>7, <2>8, Zenon DEF Next, Terminal
  <1>3. I => AbortFresh
    BY Zenon
  <1>. QED  BY <1>1, <1>2, <1>3, PTL DEF Spec
-----------------------------------------------------------------------------
\* What was captured since the last reset.
Text(o) == o.stream \o o.line

\* A line end changes nothing of the order of the characters.
LEMMA OrderLineEnd ==
    ASSUME NEW s \in Seq(Byte), NEW e \in Nat, NEW p \in Nat, InOrder(s, e, p)
    PROVE  InOrder(Append(s, NL), e, p)
  <1>. DEFINE t == Append(s, NL)
  <1>1. /\ DOMAIN s = 1 .. Len(s) /\ DOMAIN t = 1 .. Len(s) + 1 /\ Len(s) \in Nat
        /\ \A i \in 1 .. Len(s) : t[i] = s[i]
        /\ t[Len(s) + 1] = NL
    BY DEF Byte, NL
  <1>2. \A i \in DOMAIN t : i \in DOMAIN s \/ i = Len(s) + 1
    BY <1>1
  <1>3. \A i \in DOMAIN s : i \in DOMAIN t /\ t[i] = s[i]
    BY <1>1
  <1>. HIDE DEF t
  <1>4. \A i \in DOMAIN t : t[i] = NL \/ t[i] \in e + 1 .. p
    BY <1>1, <1>2, <1>3, Zenon DEF InOrder
  <1>5. \A n \in e + 1 .. p : \E i \in DOMAIN t : t[i] = n
    BY <1>3, Zenon DEF InOrder
  <1>6. \A i, j \in DOMAIN t : i < j /\ t[i] # NL /\ t[j] # NL => t[i] < t[j]
    BY <1>1, <1>2, <1>3, Zenon DEF InOrder
  <1>. QED  BY <1>4, <1>5, <1>6, Zenon DEF InOrder, t

\* The next character comes after all others.
LEMMA OrderCharacter ==
    ASSUME NEW s \in Seq(Byte), NEW e \in Nat, NEW p \in Nat, e <= p, InOrder(s, e, p)
    PROVE  InOrder(Append(s, p + 1), e, p + 1)
  <1>. DEFINE t == Append(s, p + 1)
  <1>1. /\ DOMAIN s = 1 .. Len(s) /\ DOMAIN t = 1 .. Len(s) + 1 /\ Len(s) \in Nat
        /\ \A i \in 1 .. Len(s) : t[i] = s[i]
        /\ t[Len(s) + 1] = p + 1
    BY DEF Byte
  <1>2. \A i \in DOMAIN t : i \in DOMAIN s \/ i = Len(s) + 1
    BY <1>1
  <1>3. \A i \in DOMAIN s : i \in DOMAIN t /\ t[i] = s[i] /\ i < Len(s) + 1
    BY <1>1
  <1>. HIDE DEF t
  <1>4. \A n : n \in e + 1 .. p + 1 <=> n \in e + 1 .. p \/ n = p + 1
    OBVIOUS
  <1>5. \A i \in DOMAIN t : t[i] = NL \/ t[i] \in e + 1 .. p + 1
    BY <1>1, <1>2, <1>3, <1>4, Zenon DEF InOrder
  <1>6. \A n \in e + 1 .. p + 1 : \E i \in DOMAIN t : t[i] = n
    <2>1. Len(s) + 1 \in DOMAIN t
      BY <1>1
    <2>. QED  BY <1>1, <1>3, <1>4, <2>1, Zenon DEF InOrder
  <1>7. ASSUME NEW i \in DOMAIN t, NEW j \in DOMAIN t, i < j, t[i] # NL, t[j] # NL
        PROVE  t[i] < t[j]
    <2>1. i \in DOMAIN s
      BY <1>1, <1>7
    <2>2. CASE j \in DOMAIN s
      BY <1>3, <1>7, <2>1, <2>2, Zenon DEF InOrder
    <2>3. CASE j = Len(s) + 1
      <3>1. t[i] \in e + 1 .. p
        BY <1>3, <1>7, <2>1, Zenon DEF InOrder
      <3>. QED  BY <1>1, <2>3, <3>1
    <2>. QED  BY <1>2, <2>2, <2>3, Zenon
  <1>. QED  BY <1>5, <1>6, <1>7, Zenon DEF InOrder, t

\* Appending to the second part of a text.
LEMMA AppendLast ==
    ASSUME NEW a \in Seq(Byte), NEW b \in Seq(Byte), NEW c \in Byte
    PROVE  a \o Append(b, c) = Append(a \o b, c)
  <1>. DEFINE d == <<c>>
              ab == a \o b
  <1>1. d \in Seq(Byte) /\ ab \in Seq(Byte)
    BY ConcatProperties
  <1>2. Append(b, c) = b \o d
    BY AppendIsConcat, Zenon
  <1>3. Append(ab, c) = ab \o d
    BY <1>1, AppendIsConcat, Zenon
  <1>. HIDE DEF d
  <1>4. \A S : \A x, y, z \in Seq(S) : (x \o y) \o z = x \o (y \o z)
    BY ConcatAssociative, Zenon
  <1>5. (a \o b) \o d = a \o (b \o d)
    BY <1>1, <1>4, SMTT(20)
  <1>. QED  BY <1>2, <1>3, <1>5, Zenon

\* A flush moves the line into the ring and ends it.
LEMMA FlushText ==
    ASSUME NEW o, Sound(o)
    PROVE  Text(webterm_flush_line(o)) = Append(Text(o), NL)
  <1>. DEFINE src == Append(o.line, NL)
              n   == webterm_batch_copy(o, src)
  <1>1. o \in Ring /\ o.line \in Seq(Byte) /\ o.stream \in Seq(Byte) /\ NL \in Byte
    BY Zenon DEF Sound, Ring, Byte, NL
  <1>2. n \in Ring /\ n.stream = o.stream \o src
    <2>1. src \in Seq(Byte) /\ Len(src) \in 1 .. SIZE
      BY <1>1, RingAssumption DEF Sound
    <2>. HIDE DEF src
    <2>. QED  BY <1>1, <2>1, CopyFields, Zenon DEF Moved
  <1>3. webterm_flush_line(o).stream = n.stream /\ webterm_flush_line(o).line = <<>>
    <2>1. webterm_flush_line(o) = [n EXCEPT !.line = <<>>]
      BY Zenon DEF webterm_flush_line
    <2>. HIDE DEF n
    <2>. QED  BY <1>2, <2>1, Zenon DEF Ring
  <1>4. o.stream \o src = Append(o.stream \o o.line, NL)
    BY <1>1, AppendLast, Zenon
  <1>5. Append(o.stream \o o.line, NL) \in Seq(Byte)
    BY <1>1, ConcatProperties, AppendProperties, Zenon
  <1>6. (o.stream \o src) \o <<>> = o.stream \o src
    BY <1>4, <1>5, ConcatEmptySeq, Zenon
  <1>. QED  BY <1>2, <1>3, <1>4, <1>6, Zenon DEF Text

\* webterm_add_char adds its character, after a line end or none; a '\n' or
\* a '\r' adds at most a line end.
LEMMA AddText ==
    ASSUME NEW o, Sound(o), NEW c \in Byte \cup {CR}
    PROVE  /\ c \in {NL, CR} => Text(webterm_add_char(o, c)) \in {Text(o), Append(Text(o), NL)}
           /\ c \notin {NL, CR} => Text(webterm_add_char(o, c)) \in
                  {Append(Text(o), c), Append(Append(Text(o), NL), c)}
  <1>1. o \in Ring /\ Holds(o) /\ o.line \in Seq(Byte) /\ o.stream \in Seq(Byte)
        /\ Len(o.line) <= LINE - 1
    BY Zenon DEF Sound, Ring
  <1>2. ASSUME NEW f \in BOOLEAN
        PROVE  /\ Sound([o EXCEPT !.cr = f]) /\ Text([o EXCEPT !.cr = f]) = Text(o)
    <2>1. Sound([o EXCEPT !.cr = f])
      BY <1>1, LineOnly, Zenon
    <2>2. [o EXCEPT !.cr = f].stream = o.stream /\ [o EXCEPT !.cr = f].line = o.line
      BY <1>1, Zenon DEF Ring
    <2>. QED  BY <2>1, <2>2, Zenon DEF Text
  <1>3. CASE c = NL /\ o.cr
    <2>1. webterm_add_char(o, c) = [o EXCEPT !.cr = FALSE]
      BY <1>3 DEF webterm_add_char, NL, CR
    <2>. QED  BY <1>2, <1>3, <2>1, Zenon
  <1>4. CASE ~(c = NL /\ o.cr) /\ (c = CR \/ (c = NL /\ ~o.cr))
    <2>. DEFINE q == [o EXCEPT !.cr = (c = CR)]
    <2>1. webterm_add_char(o, c) = FlushIfAny(q) /\ c \in {NL, CR}
      BY <1>4, Zenon DEF webterm_add_char
    <2>2. Sound(q) /\ Text(q) = Text(o)
      <3>1. (c = CR) \in BOOLEAN
        BY Zenon
      <3>. QED  BY <1>2, <3>1, Zenon
    <2>. HIDE DEF q
    <2>. QED  BY <2>1, <2>2, FlushText, Zenon DEF FlushIfAny
  <1>5. CASE ~(c = NL /\ o.cr) /\ ~(c = CR \/ (c = NL /\ ~o.cr))
    <2>. DEFINE q == IF Len(o.line) >= LINE - 1 THEN webterm_flush_line(o) ELSE o
                r == [q EXCEPT !.cr = FALSE, !.line = Append(@, c)]
    <2>1. c \in Byte /\ c \notin {NL, CR}
      BY <1>5, Zenon DEF CR, Byte
    <2>2. webterm_add_char(o, c) = r
      BY <1>5, Zenon DEF webterm_add_char
    <2>3. Sound(q) /\ Text(q) \in {Text(o), Append(Text(o), NL)}
      BY FlushSound, FlushText, Zenon
    <2>. HIDE DEF q
    <2>4. q \in Ring /\ q.line \in Seq(Byte) /\ q.stream \in Seq(Byte)
      BY <2>3, Zenon DEF Sound, Ring
    <2>5. r.stream = q.stream /\ r.line = Append(q.line, c)
      BY <2>4, Zenon DEF Ring
    <2>6. q.stream \o Append(q.line, c) = Append(q.stream \o q.line, c)
      BY <2>1, <2>4, AppendLast, Zenon
    <2>7. Text(r) = Append(Text(q), c)
      BY <2>5, <2>6, Zenon DEF Text
    <2>. QED  BY <2>1, <2>2, <2>3, <2>7, Zenon
  <1>. QED  BY <1>3, <1>4, <1>5, Zenon

Captures(o, e, p) == Sound(o) /\ InOrder(Text(o), e, p)

\* Printing a character, ending a line and flushing keep the text in order.
LEMMA AddCaptures ==
    ASSUME NEW o, NEW e \in Nat, NEW p \in Nat, e <= p, Captures(o, e, p)
    PROVE  /\ \A c \in {NL, CR} : Captures(webterm_add_char(o, c), e, p)
           /\ Captures(webterm_add_char(o, p + 1), e, p + 1)
           /\ Captures(FlushIfAny(o), e, p)
  <1>1. Sound(o) /\ InOrder(Text(o), e, p)
    BY Zenon DEF Captures
  <1>2. Text(o) \in Seq(Byte) /\ NL \in Byte /\ Append(Text(o), NL) \in Seq(Byte)
    <2>1. o.stream \in Seq(Byte) /\ o.line \in Seq(Byte) /\ NL \in Byte
      BY <1>1, Zenon DEF Sound, Ring, Byte, NL
    <2>2. Text(o) \in Seq(Byte)
      BY <2>1, ConcatProperties, Zenon DEF Text
    <2>. QED  BY <2>1, <2>2, AppendProperties, Zenon
  <1>3. InOrder(Append(Text(o), NL), e, p)
    BY <1>1, <1>2, OrderLineEnd, Zenon
  <1>4. ASSUME NEW c \in {NL, CR} PROVE Captures(webterm_add_char(o, c), e, p)
    <2>1. c \in Byte \cup {CR}
      BY <1>2, Zenon
    <2>2. Text(webterm_add_char(o, c)) \in {Text(o), Append(Text(o), NL)}
      BY <1>1, <2>1, AddText, Zenon
    <2>3. Sound(webterm_add_char(o, c))
      BY <1>1, <2>1, AddSound, Zenon
    <2>. QED  BY <1>1, <1>3, <2>2, <2>3, Zenon DEF Captures
  <1>5. Captures(webterm_add_char(o, p + 1), e, p + 1)
    <2>1. p + 1 \in Byte \cup {CR} /\ p + 1 \notin {NL, CR}
      BY DEF Byte, NL, CR
    <2>2. Text(webterm_add_char(o, p + 1)) \in
              {Append(Text(o), p + 1), Append(Append(Text(o), NL), p + 1)}
      BY <1>1, <2>1, AddText, Zenon
    <2>3. InOrder(Append(Text(o), p + 1), e, p + 1)
      BY <1>1, <1>2, OrderCharacter, Zenon
    <2>4. InOrder(Append(Append(Text(o), NL), p + 1), e, p + 1)
      BY <1>2, <1>3, OrderCharacter, Zenon
    <2>5. Sound(webterm_add_char(o, p + 1))
      BY <1>1, <2>1, AddSound, Zenon
    <2>. QED  BY <2>2, <2>3, <2>4, <2>5, Zenon DEF Captures
  <1>6. Captures(FlushIfAny(o), e, p)
    <2>1. Sound(FlushIfAny(o))
      BY <1>1, FlushIfAnySound, Zenon
    <2>2. FlushIfAny(o) = o \/ FlushIfAny(o) = webterm_flush_line(o)
      BY Zenon DEF FlushIfAny
    <2>3. Text(webterm_flush_line(o)) = Append(Text(o), NL)
      BY <1>1, FlushText, Zenon
    <2>. QED  BY <1>1, <1>3, <2>1, <2>2, <2>3, Zenon DEF Captures
  <1>. QED  BY <1>4, <1>5, <1>6, Zenon

\* A ring without text holds what was printed since now.
LEMMA NoneCaptured ==
    ASSUME NEW o, Sound(o), o.stream = <<>>, o.line = <<>>, NEW p \in Nat
    PROVE  Captures(o, p, p)
  <1>1. Text(o) = <<>>
    BY DEF Text
  <1>2. InOrder(<<>>, p, p)
    BY DEF InOrder
  <1>. QED  BY <1>1, <1>2, Zenon DEF Captures

CaptureInv == printed \in Nat /\ erased \in Nat /\ erased <= printed /\ Captures(out, erased, printed)

\* Every step of the terminal and of its page keeps the text in order.
LEMMA CaptureStep ==
    ASSUME CaptureInv, [Next]_vars PROVE CaptureInv'
  <1>0. printed \in Nat /\ erased \in Nat /\ erased <= printed /\ Captures(out, erased, printed)
    BY Zenon DEF CaptureInv
  <1>1. CASE UNCHANGED <<out, printed, erased>>
    BY <1>0, <1>1, Zenon DEF CaptureInv
  <1>2. CASE UNCHANGED <<printed, erased>> /\ out' = FlushIfAny(out)
    <2>1. Captures(FlushIfAny(out), erased, printed)
      BY <1>0, AddCaptures, Zenon
    <2>. QED  BY <1>0, <1>2, <2>1, Zenon DEF CaptureInv
  <1>3. ASSUME printed' = printed + 1, erased' = erased, Captures(out', erased, printed + 1)
        PROVE  CaptureInv'
    <2>1. printed + 1 \in Nat /\ erased <= printed + 1
      BY <1>0
    <2>. QED  BY <1>0, <1>3, <2>1, Zenon DEF CaptureInv
  <1>4. CASE webterm_putc
    <2>1. CASE printed' = printed + 1 /\ out' = webterm_add_char(out, printed + 1)
      <3>1. Captures(webterm_add_char(out, printed + 1), erased, printed + 1)
        BY <1>0, AddCaptures, Zenon
      <3>. QED  BY <1>3, <1>4, <2>1, <3>1, Zenon DEF webterm_putc
    <2>2. ASSUME NEW c \in {NL, CR}, out' = webterm_add_char(out, c), UNCHANGED printed
          PROVE  CaptureInv'
      <3>1. Captures(webterm_add_char(out, c), erased, printed) /\ erased' = erased
        BY <1>0, <1>4, AddCaptures, Zenon DEF webterm_putc
      <3>. QED  BY <1>0, <2>2, <3>1, Zenon DEF CaptureInv
    <2>. QED  BY <1>4, <2>1, <2>2, Zenon DEF webterm_putc
  <1>5. CASE webterm_execute_command
    <2>1. /\ out' = webterm_add_char(webterm_add_char(out, printed + 1), NL)
          /\ printed' = printed + 1 /\ erased' = erased
      BY <1>5, Zenon DEF webterm_execute_command
    <2>2. Captures(webterm_add_char(out, printed + 1), erased, printed + 1)
      BY <1>0, AddCaptures, Zenon
    <2>3. printed + 1 \in Nat /\ erased <= printed + 1
      BY <1>0
    <2>4. Captures(webterm_add_char(webterm_add_char(out, printed + 1), NL), erased, printed + 1)
      BY <1>0, <2>2, <2>3, AddCaptures, Zenon
    <2>. QED  BY <1>3, <2>1, <2>4, Zenon
  <1>6. CASE ResetServed
    <2>1. out' = webterm_reset(out) /\ erased' = printed /\ printed' = printed
      BY <1>6, Zenon DEF ResetServed
    <2>2. Sound(out) /\ out \in Ring
      BY <1>0, Zenon DEF Captures, Sound
    <2>3. Sound(webterm_reset(out))
      BY <2>2, ResetSound, Zenon
    <2>4. webterm_reset(out).stream = <<>> /\ webterm_reset(out).line = <<>>
      BY <2>2, Zenon DEF webterm_reset, Ring
    <2>5. Captures(webterm_reset(out), printed, printed) /\ printed <= printed
      BY <1>0, <2>3, <2>4, NoneCaptured
    <2>. QED  BY <1>0, <2>1, <2>5, Zenon DEF CaptureInv
  <1>7. CommandReturned \/ (\E p \in Poller : fetchStatus(p) \/ fetchOutput(p)) =>
            UNCHANGED <<printed, erased>> /\ out' = FlushIfAny(out)
    BY Zenon DEF CommandReturned, fetchStatus, fetchOutput
  <1>8. webterm_run_pending_command \/ webterm_abort \/ ctrlc \/ clearTerminal \/ UNCHANGED vars =>
            UNCHANGED <<out, printed, erased>>
    BY Zenon DEF webterm_run_pending_command, webterm_abort, ctrlc, clearTerminal, vars
  <1>9. (\E p \in Poller : StatusLost(p) \/ StatusRead(p) \/ DataRead(p) \/ DataLost(p)) =>
            UNCHANGED <<out, printed, erased>>
    BY Zenon DEF StatusLost, StatusRead, DataRead, DataLost
  <1>. QED
    BY <1>1, <1>2, <1>4, <1>5, <1>6, <1>7, <1>8, <1>9, Zenon DEF Next, Terminal, Page

\* The capture loses, repeats and reorders no character, for every size of
\* the ring and of the line buffer: webterm_add_char, webterm_flush_line.
THEOREM CaptureRight == Spec => []NothingDropped
  <1>1. Init => CaptureInv
    <2>1. Empty.stream = <<>> /\ Empty.line = <<>>
      BY Zenon DEF Empty
    <2>2. Captures(Empty, 0, 0)
      BY <2>1, EmptySound, NoneCaptured, Zenon
    <2>. QED  BY <2>2 DEF Init, CaptureInv
  <1>2. CaptureInv /\ [Next]_vars => CaptureInv'
    BY CaptureStep, Zenon
  <1>3. CaptureInv => NothingDropped
    BY Zenon DEF CaptureInv, Captures, NothingDropped, Text
  <1>. QED  BY <1>1, <1>2, <1>3, PTL DEF Spec
-----------------------------------------------------------------------------
(* How much of ART an edit reads, given the header.                        *)
SizeOf(w) == IF job.kind = "base" THEN base_size ELSE art_cal_size(w)

(* That part of ART.                                                       *)
Area == Off..(Off + SizeOf(before[Off]) - 1)

(* Where the new address goes ...                                          *)
MacAt == IF job.kind = "base" THEN job.index ELSE MacOff(job.index)
(* ... and what else the edit changes.                                     *)
Touched == {MacAt} \cup IF job.kind = "base" THEN {} ELSE {CsOff(job.index)}

(* f is what the edit should make of that part.                            *)
Right(f) ==
    /\ \A a \in Area : a \in Touched \/ f[a] = before[a]
    /\ f[MacAt] = job.mac
    /\ job.kind = "wifi" => Xor([a \in Area |-> f[a]]) = FF

(* The partition f has room for the calibration blocks and the first page. *)
Roomy(f) ==
    /\ 0..(base_size - 1) \subseteq DOMAIN f
    /\ \A k \in DOMAIN cal_offsets : cal_offsets[k]..(cal_offsets[k] + 2 * cal_size - 1) \subseteq DOMAIN f

(* The address to change exists.                                           *)
JobOk ==
    /\ job.kind \in {"base", "wifi"} /\ job.index \in Nat
    /\ job.index < IF job.kind = "base" THEN Eths ELSE WifiMax

(* ART is as the edit found it, outside S.                                 *)
Outside(S) == \A a \in DOMAIN art : a \in S \/ art[a] = before[a]

(* The buffer is what is to be written.                                    *)
Ready == DOMAIN buf = Area /\ Right(buf)

(* The stages of art_write on each kind of flash.                          *)
Writing == CASE Chip = "nor" -> {"erase", "write"}
             [] Chip = "nand" -> {"block", "program"}
             [] Chip = "emmc" -> {"write"}

(* The types. No transfer has failed before the first one.                 *)
ArtType ==
    /\ board \in Board /\ Roomy(before) /\ DOMAIN art = DOMAIN before
    /\ failed \in BOOLEAN /\ (pc = "header" => ~failed)
    /\ pc \in {"idle", "header", "read"} \cup Writing
    /\ pc # "idle" => result = "none" /\ JobOk
    /\ result \in {"none", "error", "ok"}
    /\ result = "ok" => JobOk

(* The edit is at p and nothing has failed.                                *)
Stage(p) == pc = p /\ ~failed

(* The inductive invariant of the edit: what ART and the buffer hold at    *)
(* each stage, as long as no transfer failed. On eMMC the blocks up to     *)
(* block_off are written.                                                  *)
ArtInv ==
    /\ Stage("header") => Outside({}) /\ job.kind = "wifi"
    /\ Stage("read") => Outside({}) /\ (job.kind = "wifi" => buf[Off] = before[Off])
    /\ Stage("erase") => Outside({}) /\ Ready
    /\ Stage("block") => Outside({}) /\ Ready /\ block_off = Off - (Off % erase_size)
    /\ Stage("write") /\ Chip = "nor" => Outside(Area) /\ Ready
    /\ Stage("program") =>
          /\ Area \subseteq NandBlock /\ Right(buf) /\ Outside(NandBlock)
          /\ \A a \in NandBlock : a \in DOMAIN art /\ a \notin Area => buf[a] = before[a]
    /\ Stage("write") /\ Chip = "emmc" =>
          /\ Ready
          /\ \E k, n \in Nat : k < n /\ block_off = Off + k * blksz /\ Area = Off..(Off + n * blksz - 1)
          /\ \A a \in DOMAIN art : art[a] = IF a \in Off..(block_off - 1) THEN buf[a] ELSE before[a]
    /\ Stage("idle") /\ result = "ok" => Right(art) /\ Outside(Area)
    /\ Stage("idle") /\ result = "error" => Outside({})

(* The sizes that are written are multiples of what is erased (SPI-NOR) or *)
(* written (eMMC) at a time. Without that art_write erases or pads what    *)
(* follows the data.                                                       *)
Aligned == \A b \in Board :
    LET unit == IF b.flash = "nor" THEN b.erase_size ELSE b.blksz
    IN  b.flash # "nand" => \A n \in {base_size, b.cal_size, 2 * b.cal_size} : n % unit = 0

(* The number of words, that at c left out, with the bit b.                *)
Others(f, c, b) == Cardinality({a \in DOMAIN f : a # c /\ b \in f[a]})

(* The bit b of the exclusive or of f, with w at c.                        *)
LEMMA OnesCounted ==
    ASSUME NEW f, IsFiniteSet(DOMAIN f), NEW c \in DOMAIN f, NEW w, NEW b \in Bits
    PROVE  /\ Others(f, c, b) \in Nat
           /\ b \in Xor([f EXCEPT ![c] = w]) <=>
                IF b \in w THEN Others(f, c, b) % 2 = 0 ELSE Others(f, c, b) % 2 = 1
<1> DEFINE S == {a \in DOMAIN f : a # c /\ b \in f[a]}
           g == [f EXCEPT ![c] = w]
           T == {a \in DOMAIN g : b \in g[a]}
           n == Cardinality(S)
<1>1. IsFiniteSet(S) /\ c \notin S
  BY FS_Subset, Zenon
<1>2. n \in Nat /\ Cardinality(S \cup {c}) = n + 1
  BY <1>1, FS_CardinalityType, FS_AddElement, Zenon
<1>3. T = IF b \in w THEN S \cup {c} ELSE S
  BY Zenon
<1>4. b \in Xor(g) <=> Cardinality(T) % 2 = 1
  BY Zenon DEF Xor
<1> HIDE DEF S, g, T
<1>5. Cardinality(T) = IF b \in w THEN n + 1 ELSE n
  BY <1>2, <1>3, Zenon
<1> HIDE DEF n
<1>6. (n + 1) % 2 = 1 <=> n % 2 = 0
  BY <1>2
<1>7. b \in Xor(g) <=> IF b \in w THEN n % 2 = 0 ELSE n % 2 = 1
  BY <1>4, <1>5, <1>6, Zenon
<1> QED
  BY <1>2, <1>7, Zenon DEF n, S, g, Others

(* xor16_checksum: with the complement of the exclusive or over a zero     *)
(* checksum, or the exclusive or over a checksum of ones, the whole is all *)
(* ones.                                                                   *)
LEMMA ChecksumRight ==
    ASSUME NEW f, IsFiniteSet(DOMAIN f), NEW c \in DOMAIN f, NEW x,
           x = FF \ Xor([f EXCEPT ![c] = Zero]) \/ x = Xor([f EXCEPT ![c] = FF])
    PROVE  Xor([f EXCEPT ![c] = x]) = FF
<1>1. ASSUME NEW b \in Bits PROVE b \in Xor([f EXCEPT ![c] = x])
  <2> DEFINE n == Others(f, c, b)
  <2>1. /\ n \in Nat
        /\ b \in Xor([f EXCEPT ![c] = x]) <=> IF b \in x THEN n % 2 = 0 ELSE n % 2 = 1
    BY <1>1, OnesCounted, Zenon
  <2>2. b \in Xor([f EXCEPT ![c] = Zero]) <=> IF b \in Zero THEN n % 2 = 0 ELSE n % 2 = 1
    BY <1>1, OnesCounted, Zenon
  <2>3. b \in Xor([f EXCEPT ![c] = FF]) <=> IF b \in FF THEN n % 2 = 0 ELSE n % 2 = 1
    BY <1>1, OnesCounted, Zenon
  <2> HIDE DEF n
  <2>4. b \in FF /\ b \notin Zero
    BY <1>1, Zenon DEF FF, Zero
  <2>5. n % 2 = 0 \/ n % 2 = 1
    BY <2>1
  <2>6. b \in x <=> n % 2 = 0
    <3>1. CASE x = FF \ Xor([f EXCEPT ![c] = Zero])
      BY <2>2, <2>4, <2>5, <3>1
    <3>2. CASE x = Xor([f EXCEPT ![c] = FF])
      BY <2>3, <2>4, <2>5, <3>2, Zenon
    <3> QED
      BY <3>1, <3>2, Zenon
  <2> QED
    BY <2>1, <2>5, <2>6, Zenon
<1>2. Xor([f EXCEPT ![c] = x]) \subseteq Bits
  BY Zenon DEF Xor
<1> QED
  BY <1>1, <1>2, Zenon DEF FF

(* What macaddr_modify_wifi makes of a calibration block: the new address, *)
(* a right checksum, nothing else.                                         *)
LEMMA EditRight ==
    ASSUME NEW f, IsFiniteSet(DOMAIN f), NEW i, NEW mac, ath10k \in BOOLEAN,
           MacOff(i) \in DOMAIN f, CsOff(i) \in DOMAIN f, MacOff(i) # CsOff(i)
    PROVE  LET g == EditWifi(f, i, mac)
           IN  /\ DOMAIN g = DOMAIN f /\ Xor(g) = FF /\ g[MacOff(i)] = mac
               /\ \A a \in DOMAIN f : a \in {MacOff(i), CsOff(i)} \/ g[a] = f[a]
               /\ g = [a \in DOMAIN f |-> g[a]]
<1> DEFINE m == MacOff(i)
           c == CsOff(i)
           g == [f EXCEPT ![m] = mac]
           cs == IF ath10k THEN Xor([g EXCEPT ![c] = FF]) ELSE FF \ Xor([g EXCEPT ![c] = Zero])
           h == [g EXCEPT ![c] = cs]
<1>1. EditWifi(f, i, mac) = h
  BY Zenon DEF EditWifi
<1> HIDE DEF m, c
<1>2. m \in DOMAIN f /\ c \in DOMAIN f /\ m # c
  BY Zenon DEF m, c
<1>3. DOMAIN g = DOMAIN f /\ IsFiniteSet(DOMAIN g) /\ c \in DOMAIN g
  BY <1>2, Zenon
<1>4. g[m] = mac /\ \A a \in DOMAIN f : a # m => g[a] = f[a]
  BY <1>2, Zenon
<1>5. cs = FF \ Xor([g EXCEPT ![c] = Zero]) \/ cs = Xor([g EXCEPT ![c] = FF])
  BY Zenon
<1> HIDE DEF g, cs
<1>6. Xor(h) = FF
  BY <1>3, <1>5, ChecksumRight, Zenon
<1>7. /\ DOMAIN h = DOMAIN f /\ h[m] = mac
      /\ \A a \in DOMAIN f : a \in {m, c} \/ h[a] = f[a]
      /\ h = [a \in DOMAIN f |-> h[a]]
  BY <1>2, <1>3, <1>4, Zenon
<1> HIDE DEF h
<1> QED
  BY <1>1, <1>6, <1>7, Zenon DEF m, c

(* What ArtAssumption says of the board.                                   *)
LEMMA BoardFacts ==
    ASSUME board \in Board
    PROVE  /\ base_size \in Nat /\ Eths \in Nat /\ Eths <= base_size
           /\ ath10k \in BOOLEAN /\ Chip \in {"nor", "nand", "emmc"}
           /\ erase_size \in Nat \ {0} /\ blksz \in Nat \ {0}
           /\ cal_size \in Nat /\ cal_size >= 4 /\ cal_offsets \in Seq(Nat)
           /\ PerBlock \in {1, 2} /\ WifiMax \in Nat
           /\ \A f \in Arts : Roomy(f)
           /\ \A w : art_cal_size(w) \in {cal_size, 2 * cal_size}
<1>1. /\ base_size \in Nat /\ Eths \in Nat /\ Eths <= base_size
      /\ ath10k \in BOOLEAN /\ Chip \in {"nor", "nand", "emmc"}
      /\ erase_size \in Nat \ {0} /\ blksz \in Nat \ {0}
      /\ cal_size \in Nat /\ cal_size >= 4 /\ cal_offsets \in Seq(Nat)
  BY ArtAssumption DEF ath10k, Chip, erase_size, blksz, cal_size, cal_offsets
<1>2. PerBlock \in {1, 2}
  BY Zenon DEF PerBlock
<1>3. WifiMax \in Nat
  <2>1. Len(cal_offsets) \in Nat
    BY <1>1
  <2> QED
    BY <1>2, <2>1 DEF WifiMax
<1>4. \A f \in Arts : Roomy(f)
  BY ArtAssumption, Zenon DEF Arts, Roomy, cal_size, cal_offsets
<1>5. \A w : art_cal_size(w) \in {cal_size, 2 * cal_size}
  BY Zenon DEF art_cal_size
<1> QED
  BY <1>1, <1>2, <1>3, <1>4, <1>5, Zenon

(* Where the address and the checksum are: in the part that is read, and   *)
(* not in the header.                                                      *)
LEMMA Place ==
    ASSUME board \in Board, Roomy(before), JobOk
    PROVE  /\ Off \in Nat /\ IsFiniteSet(Area) /\ Area \subseteq DOMAIN before /\ Area \subseteq Int
           /\ SizeOf(before[Off]) \in {base_size, cal_size, 2 * cal_size} /\ SizeOf(before[Off]) \in Nat
           /\ MacAt \in Area
           /\ job.kind = "wifi" => /\ CsOff(job.index) \in Area /\ Off \in Area /\ Off \notin Touched
                                   /\ MacOff(job.index) # CsOff(job.index)
                                   /\ Off = CalOff(job.index) /\ MacAt = MacOff(job.index)
                                   /\ Touched = {MacOff(job.index), CsOff(job.index)}
           /\ job.kind = "base" => MacAt = job.index /\ Touched = {job.index}
<1>1. /\ base_size \in Nat /\ Eths \in Nat /\ Eths <= base_size
      /\ cal_size \in Nat /\ cal_size >= 4 /\ cal_offsets \in Seq(Nat)
      /\ PerBlock \in {1, 2} /\ \A w : art_cal_size(w) \in {cal_size, 2 * cal_size}
  BY BoardFacts, Zenon
<1>2. CASE job.kind = "base"
  <2>1. Off = 0 /\ SizeOf(before[Off]) = base_size /\ MacAt = job.index /\ Touched = {job.index}
    BY <1>2, Zenon DEF Off, SizeOf, MacAt, Touched
  <2>2. Area = 0..(base_size - 1)
    BY <1>1, <2>1 DEF Area
  <2>3. job.index \in Nat /\ job.index < Eths
    BY <1>2, Zenon DEF JobOk
  <2>4. MacAt \in Area /\ Area \subseteq Int
    BY <1>1, <2>1, <2>2, <2>3
  <2>5. IsFiniteSet(Area)
    BY <1>1, <2>2, FS_Interval
  <2>6. Area \subseteq DOMAIN before
    BY <2>2, Zenon DEF Roomy
  <2> QED
    BY <1>1, <1>2, <2>1, <2>4, <2>5, <2>6, Zenon
<1>3. CASE job.kind = "wifi"
  <2> DEFINE i == job.index
             k == i \div PerBlock + 1
  <2>1. i \in Nat /\ i < PerBlock * Len(cal_offsets) /\ Len(cal_offsets) \in Nat
    BY <1>1, <1>3 DEF JobOk, WifiMax
  <2>2. k \in 1..Len(cal_offsets) /\ i % PerBlock \in {0, 1}
    <3>1. CASE PerBlock = 1
      BY <2>1, <3>1
    <3>2. CASE PerBlock = 2
      BY <2>1, <3>2
    <3> QED
      BY <1>1, <3>1, <3>2, Zenon
  <2>3. Off = cal_offsets[k] /\ Off = CalOff(i) /\ MacAt = MacOff(i) /\ Touched = {MacOff(i), CsOff(i)}
    BY <1>3, Zenon DEF Off, CalOff, MacAt, Touched
  <2> HIDE DEF k
  <2>4. Off \in Nat /\ k \in DOMAIN cal_offsets
    <3>1. cal_offsets[k] \in Nat /\ DOMAIN cal_offsets = 1..Len(cal_offsets)
      BY <1>1, <2>2, ElementOfSeq, LenProperties, Zenon
    <3> QED
      BY <2>2, <2>3, <3>1, Zenon
  <2>5. MacOff(i) \in {Off + 2, Off + 3} /\ CsOff(i) = Off + 1
    BY <2>2, <2>3, <2>4 DEF MacOff, CsOff
  <2>6. SizeOf(before[Off]) \in {cal_size, 2 * cal_size}
    BY <1>1, <1>3, Zenon DEF SizeOf
  <2>7. Off..(Off + 2 * cal_size - 1) \subseteq DOMAIN before
    BY <2>3, <2>4, Zenon DEF Roomy
  <2> DEFINE s == SizeOf(before[Off])
             o == Off
  <2>8. Area = o..(o + s - 1) /\ o \in Nat /\ s \in Nat /\ 4 <= s /\ s <= 2 * cal_size
    BY <1>1, <2>4, <2>6 DEF Area
  <2> HIDE DEF s, o
  <2>9. /\ Area \subseteq o..(o + 2 * cal_size - 1) /\ o \in Area /\ o + 1 \in Area
        /\ o + 2 \in Area /\ o + 3 \in Area /\ Area \subseteq Int
    BY <1>1, <2>8
  <2>10. IsFiniteSet(Area)
    BY <2>8, FS_Interval
  <2>11. /\ Off \in Area /\ Off \notin {MacOff(i), CsOff(i)} /\ MacOff(i) \in Area /\ CsOff(i) \in Area
         /\ MacOff(i) # CsOff(i) /\ Area \subseteq Int
    BY <2>4, <2>5, <2>9 DEF o
  <2>12. Area \subseteq DOMAIN before
    BY <2>7, <2>9, Zenon DEF o
  <2>13. SizeOf(before[Off]) \in Nat
    BY <1>1, <2>6
  <2> HIDE DEF i
  <2> QED
    BY <1>3, <2>3, <2>4, <2>6, <2>10, <2>11, <2>12, <2>13, Zenon DEF i
<1> QED
  BY <1>2, <1>3, Zenon DEF JobOk

(* All that depends on the edit and the board alone stays as it is.        *)
LEMMA SameJob ==
    ASSUME job' = job, before' = before, board' = board
    PROVE  /\ Area' = Area /\ Off' = Off /\ MacAt' = MacAt /\ Touched' = Touched
           /\ JobOk' = JobOk /\ Roomy(before)' = Roomy(before) /\ Chip' = Chip
           /\ erase_size' = erase_size /\ blksz' = blksz /\ WifiMax' = WifiMax
           /\ Right(buf)' = Right(buf') /\ Right(art)' = Right(art')
<1>1. /\ Chip' = Chip /\ erase_size' = erase_size /\ blksz' = blksz
      /\ cal_size' = cal_size /\ cal_offsets' = cal_offsets /\ ath10k' = ath10k
  BY Zenon DEF Chip, erase_size, blksz, cal_size, cal_offsets, ath10k
<1>2. PerBlock' = PerBlock /\ WifiMax' = WifiMax
  BY <1>1, Zenon DEF PerBlock, WifiMax
<1>3. Off' = Off
  BY <1>1, <1>2, Zenon DEF Off, CalOff
<1>4. Area' = Area
  BY <1>1, <1>3, Zenon DEF Area, SizeOf, art_cal_size
<1>5. MacAt' = MacAt /\ Touched' = Touched
  BY <1>1, <1>2, Zenon DEF MacAt, Touched, MacOff, CsOff, CalOff
<1>6. JobOk' = JobOk
  BY <1>2, Zenon DEF JobOk
<1>7. Roomy(before)' = Roomy(before)
  BY <1>1, Zenon DEF Roomy
<1>8. Right(buf)' = Right(buf') /\ Right(art)' = Right(art')
  BY <1>4, <1>5, Zenon DEF Right, Xor, FF, Bits
<1> QED
  BY <1>1, <1>2, <1>3, <1>4, <1>5, <1>6, <1>7, <1>8, Zenon

(* The initial states have the types and ArtInv.                           *)
LEMMA ArtInitial == ArtInit => ArtType /\ ArtInv
<1> SUFFICES ASSUME ArtInit PROVE ArtType /\ ArtInv
  BY Zenon
<1>1. /\ board \in Board /\ art \in Arts /\ job = NoJob /\ pc = "idle"
      /\ result = "none" /\ before = art /\ failed = FALSE
  BY Zenon DEF ArtInit
<1>2. Roomy(before)
  BY <1>1, BoardFacts, Zenon
<1>3. ArtType
  BY <1>1, <1>2, Zenon DEF ArtType
<1>4. ArtInv
  BY <1>1, Zenon DEF ArtInv, Stage
<1> QED
  BY <1>3, <1>4, Zenon

(* httpd_handle_mac_set begins an edit, or refuses it.                     *)
LEMMA SetStep ==
    ASSUME ArtType, ArtInv, board' = board, NEW kind \in {"base", "wifi"}, NEW i \in 0..WifiMax, NEW mac \in Macs,
           httpd_handle_mac_set(kind, i, mac)
    PROVE  ArtType' /\ ArtInv'
<1>1. /\ pc = "idle" /\ before' = art /\ failed' = FALSE /\ art' = art /\ buf' = buf /\ block_off' = block_off
      /\ \/ /\ i < (IF kind = "base" THEN Eths ELSE WifiMax)
            /\ job' = [kind |-> kind, index |-> i, mac |-> mac]
            /\ pc' = (IF kind = "base" THEN "read" ELSE "header") /\ result' = "none"
         \/ result' = "error" /\ job' = job /\ pc' = pc
  BY Zenon DEF httpd_handle_mac_set
<1>2. board \in Board /\ Roomy(before) /\ DOMAIN art = DOMAIN before
  BY Zenon DEF ArtType
<1>3. Roomy(before)' /\ DOMAIN art' = DOMAIN before' /\ Outside({})'
  BY <1>1, <1>2, Zenon DEF Roomy, cal_offsets, cal_size, Outside
<1>4. WifiMax \in Nat /\ WifiMax' = WifiMax /\ Chip' = Chip /\ Chip \in {"nor", "nand", "emmc"}
  BY <1>2, BoardFacts, Zenon DEF WifiMax, PerBlock, ath10k, cal_offsets, Chip
<1>5. CASE /\ i < (IF kind = "base" THEN Eths ELSE WifiMax)
           /\ job' = [kind |-> kind, index |-> i, mac |-> mac]
           /\ pc' = (IF kind = "base" THEN "read" ELSE "header") /\ result' = "none"
  <2>1. JobOk'
    <3>1. job'.kind = kind /\ job'.index = i
      BY <1>5, Zenon
    <3>2. i \in Nat
      BY <1>4
    <3> QED
      BY <1>4, <1>5, <3>1, <3>2, Zenon DEF JobOk
  <2>2. job'.kind = kind /\ (pc' = "header" => kind = "wifi") /\ (pc' = "read" => kind = "base") /\ pc' \in {"header", "read"}
    BY <1>5, Zenon
  <2>3. ArtType'
    BY <1>1, <1>2, <1>3, <1>4, <1>5, <2>1, <2>2, ZenonT(60) DEF ArtType
  <2>4. ArtInv'
    BY <1>3, <2>2, Zenon DEF ArtInv, Stage
  <2> QED
    BY <2>3, <2>4, Zenon
<1>6. CASE result' = "error" /\ job' = job /\ pc' = pc
  <2>1. ArtType'
    BY <1>1, <1>2, <1>3, <1>4, <1>6, ZenonT(60) DEF ArtType
  <2>2. ArtInv'
    BY <1>1, <1>3, <1>6, Zenon DEF ArtInv, Stage
  <2> QED
    BY <2>1, <2>2, Zenon
<1> QED
  BY <1>1, <1>5, <1>6, Zenon

(* What agrees with f on the part is as right as f.                        *)
LEMMA Agree ==
    ASSUME NEW f, NEW g, Right(f), \A a \in Area : g[a] = f[a], MacAt \in Area
    PROVE  Right(g)
<1>1. [a \in Area |-> g[a]] = [a \in Area |-> f[a]]
  BY Zenon
<1> QED
  BY <1>1, Zenon DEF Right

(* An edit that is answered: the answer and what ART then has to be.       *)
LEMMA Settled ==
    ASSUME ArtType, pc # "idle", board' = board, DOMAIN art' = DOMAIN art, failed' \in BOOLEAN,
           NEW r \in {"ok", "error"}, Answer(r),
           ~failed' => IF r = "ok" THEN Right(art') /\ \A a \in DOMAIN art : a \in Area \/ art'[a] = before[a]
                       ELSE \A a \in DOMAIN art : art'[a] = before[a]
    PROVE  ArtType' /\ ArtInv'
<1>1. pc' = "idle" /\ result' = r /\ job' = job /\ before' = before
  BY Zenon DEF Answer
<1>2. /\ Area' = Area /\ JobOk' = JobOk /\ Roomy(before)' = Roomy(before) /\ Right(art)' = Right(art')
  BY <1>1, SameJob, Zenon
<1>3. ArtType'
  BY <1>1, <1>2, Zenon DEF ArtType
<1>4. ArtInv'
  BY <1>1, <1>2, Zenon DEF ArtInv, Stage, Outside
<1> QED
  BY <1>3, <1>4, Zenon

(* An edit that goes on keeps the types.                                   *)
LEMMA Onward ==
    ASSUME ArtType, pc # "idle", board' = board, job' = job, before' = before, result' = result,
           DOMAIN art' = DOMAIN art, failed' \in BOOLEAN, pc' \in {"read"} \cup Writing
    PROVE  ArtType' /\ pc' # "idle" /\ pc' # "header"
<1>1. JobOk' = JobOk /\ Roomy(before)' = Roomy(before) /\ Chip' = Chip
  BY SameJob, Zenon
<1>2. Writing' = Writing /\ Writing \subseteq {"erase", "write", "block", "program"}
  <2>1. Chip \in {"nor", "nand", "emmc"}
    BY BoardFacts, Zenon DEF ArtType
  <2> QED
    BY <1>1, <2>1, Zenon DEF Writing
<1> QED
  BY <1>1, <1>2, Zenon DEF ArtType

(* The header is read.                                                     *)
LEMMA HeaderStep ==
    ASSUME ArtType, ArtInv, board' = board, ReadHeader
    PROVE  ArtType' /\ ArtInv'
<1>1. pc = "header" /\ ~failed /\ art' = art /\ block_off' = block_off /\ Outside({}) /\ job.kind = "wifi"
  BY Zenon DEF ReadHeader, ArtType, ArtInv, Stage
<1>2. PICK h \in art_read(Off, 1) :
        /\ IF HeaderOk(h[Off])
           THEN /\ pc' = "read" /\ buf' = h
                /\ UNCHANGED <<job, result, before, edits>>
           ELSE Answer("error")
        /\ failed' = (h # Piece(Off, 1))
  BY Zenon DEF ReadHeader
<1>3. failed' \in BOOLEAN
  BY <1>2, Zenon
<1>4. CASE HeaderOk(h[Off])
  <2>1. pc' = "read" /\ buf' = h /\ job' = job /\ result' = result /\ before' = before
    BY <1>2, <1>4, Zenon
  <2>2. ArtType'
    BY <1>1, <1>3, <2>1, Onward, Zenon
  <2>3. ASSUME ~failed' PROVE buf'[Off] = before[Off]
    <3>1. /\ Off \in Nat /\ Off \in Area /\ Area \subseteq DOMAIN art
      BY <1>1, Place, Zenon DEF ArtType
    <3>2. h = Piece(Off, 1)
      BY <1>2, <2>3, Zenon
    <3>3. h[Off] = art[Off]
      BY <3>1, <3>2 DEF Piece
    <3>4. art[Off] = before[Off]
      BY <1>1, <3>1, Zenon DEF Outside
    <3> QED
      BY <2>1, <3>3, <3>4, Zenon
  <2>4. Outside({})' /\ Off' = Off
    BY <1>1, <2>1, SameJob, Zenon DEF Outside
  <2> QED
    BY <2>1, <2>2, <2>3, <2>4, Zenon DEF ArtInv, Stage
<1>5. CASE ~HeaderOk(h[Off])
  <2>1. Answer("error")
    BY <1>2, <1>5, Zenon
  <2>2. \A a \in DOMAIN art : art'[a] = before[a]
    BY <1>1, Zenon DEF Outside
  <2> QED
    BY <1>1, <1>3, <2>1, <2>2, Settled, Zenon
<1> QED
  BY <1>4, <1>5, Zenon

(* A multiple.                                                             *)
LEMMA Divided ==
    ASSUME NEW n \in Nat, NEW e \in Nat \ {0}, n % e = 0
    PROVE  \E q \in Nat : n = q * e
<1> DEFINE q == n \div e
<1>1. q \in Nat /\ n - e * q = 0
  OBVIOUS
<1> HIDE DEF q
<1>2. n = q * e
  BY <1>1
<1> QED
  BY <1>1, <1>2, Zenon

(* The part is read and changed.                                           *)
LEMMA EditStep ==
    ASSUME Aligned, ArtType, ArtInv, board' = board, ReadAndEdit
    PROVE  ArtType' /\ ArtInv'
<1> DEFINE size == IF job.kind = "base" THEN base_size ELSE art_cal_size(buf[Off])
<1>1. /\ pc = "read" /\ art' = art /\ job' = job /\ result' = result /\ before' = before
      /\ block_off' = (IF Chip = "nand" THEN Off - (Off % erase_size) ELSE Off)
      /\ pc' = CASE Chip = "nor" -> "erase" [] Chip = "nand" -> "block" [] Chip = "emmc" -> "write"
  BY Zenon DEF ReadAndEdit
<1>2. PICK f \in art_read(Off, size) :
        /\ buf' = IF job.kind = "base" THEN EditBase(f, job.index, job.mac)
                  ELSE EditWifi(f, job.index, job.mac)
        /\ failed' = (failed \/ f # Piece(Off, size))
  BY Zenon DEF ReadAndEdit
<1>3. board \in Board /\ Roomy(before) /\ JobOk /\ DOMAIN art = DOMAIN before
  BY <1>1, Zenon DEF ArtType
<1>4. Chip \in {"nor", "nand", "emmc"} /\ ath10k \in BOOLEAN /\ blksz \in Nat \ {0}
  BY <1>3, BoardFacts, Zenon
<1>5. ArtType'
  BY <1>1, <1>2, <1>4, Onward, Zenon DEF Writing
<1>6. /\ Area' = Area /\ Off' = Off /\ Right(buf)' = Right(buf') /\ Chip' = Chip
      /\ erase_size' = erase_size /\ blksz' = blksz
  BY <1>1, SameJob, Zenon
<1>7. ASSUME ~failed' PROVE ArtInv'
  <2>1. ~failed /\ f = Piece(Off, size)
    BY <1>2, <1>7, Zenon
  <2>2. Outside({}) /\ (job.kind = "wifi" => buf[Off] = before[Off])
    BY <1>1, <2>1, Zenon DEF ArtInv, Stage
  <2>3. size = SizeOf(before[Off])
    BY <2>2, <1>3, Zenon DEF SizeOf, JobOk
  <2>4. /\ Off \in Nat /\ IsFiniteSet(Area) /\ Area \subseteq DOMAIN before
        /\ MacAt \in Area
        /\ job.kind = "wifi" => /\ CsOff(job.index) \in Area
                                /\ MacOff(job.index) # CsOff(job.index)
                                /\ MacAt = MacOff(job.index)
                                /\ Touched = {MacOff(job.index), CsOff(job.index)}
        /\ job.kind = "base" => MacAt = job.index /\ Touched = {job.index}
    BY <1>3, Place, Zenon
  <2>5. DOMAIN f = Area /\ \A a \in Area : f[a] = art[a]
    BY <2>1, <2>3, <2>4, Zenon DEF Piece, Area
  <2>6. \A a \in Area : f[a] = before[a]
    BY <1>3, <2>2, <2>4, <2>5, Zenon DEF Outside
  <2>7. DOMAIN buf' = Area /\ Right(buf')
    <3>1. CASE job.kind = "base"
      <4>1. buf' = [f EXCEPT ![MacAt] = job.mac]
        BY <1>2, <2>4, <3>1, Zenon DEF EditBase
      <4>2. DOMAIN buf' = Area /\ buf'[MacAt] = job.mac /\ \A a \in Area : a # MacAt => buf'[a] = before[a]
        BY <2>4, <2>5, <2>6, <4>1, Zenon
      <4> QED
        BY <2>4, <3>1, <4>2, Zenon DEF Right
    <3>2. CASE job.kind = "wifi"
      <4> DEFINE i == job.index
      <4>1. buf' = EditWifi(f, i, job.mac)
        BY <1>2, <3>2, Zenon
      <4>2. /\ IsFiniteSet(DOMAIN f) /\ MacOff(i) \in DOMAIN f /\ CsOff(i) \in DOMAIN f /\ MacOff(i) # CsOff(i)
        BY <2>4, <2>5, <3>2, Zenon
      <4>3. /\ DOMAIN buf' = DOMAIN f /\ Xor(buf') = FF /\ buf'[MacOff(i)] = job.mac
            /\ \A a \in DOMAIN f : a \in {MacOff(i), CsOff(i)} \/ buf'[a] = f[a]
            /\ buf' = [a \in DOMAIN f |-> buf'[a]]
        BY <1>4, <4>1, <4>2, EditRight
      <4>4. [a \in Area |-> buf'[a]] = buf'
        BY <2>5, <4>3, Zenon
      <4> QED
        BY <2>4, <2>5, <2>6, <3>2, <4>3, <4>4, Zenon DEF Right
    <3> QED
      BY <1>3, <3>1, <3>2, Zenon DEF JobOk
  <2>8. Ready' /\ Outside({})'
    BY <1>1, <1>6, <2>2, <2>7, Zenon DEF Ready, Outside
  <2>9. CASE Chip = "nor"
    BY <1>1, <1>6, <2>8, <2>9, Zenon DEF ArtInv, Stage
  <2>10. CASE Chip = "nand"
    BY <1>1, <1>6, <2>8, <2>10, Zenon DEF ArtInv, Stage
  <2>11. CASE Chip = "emmc"
    <3> DEFINE s == SizeOf(before[Off])
               o == Off
               z == blksz
    <3>1. s \in Nat /\ s % z = 0 /\ z \in Nat \ {0} /\ o \in Nat
      <4>1. s \in {base_size, cal_size, 2 * cal_size} /\ s \in Nat
        BY <1>3, Place, Zenon
      <4>2. \A n \in {base_size, cal_size, 2 * cal_size} : n % z = 0
        BY <1>3, <2>11, Zenon DEF Aligned, Chip, cal_size, blksz
      <4> QED
        BY <1>4, <2>4, <4>1, <4>2, Zenon
    <3>2. Area = o..(o + s - 1) /\ Area # {}
      BY <2>4, Zenon DEF Area
    <3> HIDE DEF s, o, z
    <3>3. PICK n \in Nat : s = n * z
      BY <3>1, Divided, Zenon
    <3>4. n # 0
      BY <3>1, <3>2, <3>3
    <3>5. 0 < n /\ o = o + 0 * z /\ Area = o..(o + n * z - 1)
      BY <3>1, <3>2, <3>3, <3>4
    <3>6. \E k, q \in Nat : k < q /\ o = o + k * z /\ Area = o..(o + q * z - 1)
      BY <3>5, Zenon
    <3>7. (\E k, q \in Nat : k < q /\ block_off = Off + k * blksz /\ Area = Off..(Off + q * blksz - 1))'
      BY <1>1, <1>6, <2>11, <3>6, Zenon DEF o, z
    <3>8. \A a \in DOMAIN art' : art'[a] = IF a \in Off'..(block_off' - 1) THEN buf'[a] ELSE before'[a]
      <4>1. block_off' = Off /\ Off' = Off
        BY <1>1, <1>6, <2>11, Zenon
      <4>2. Off..(Off - 1) = {}
        BY <2>4
      <4>3. \A a \in DOMAIN art' : art'[a] = before'[a]
        BY <2>8, Zenon DEF Outside
      <4> QED
        BY <4>1, <4>2, <4>3, Zenon
    <3>9. pc' = "write" /\ Chip' = "emmc"
      BY <1>1, <1>6, <2>11, Zenon
    <3> QED
      BY <2>8, <3>7, <3>8, <3>9, Zenon DEF ArtInv, Stage
  <2> QED
    BY <1>4, <2>9, <2>10, <2>11, Zenon
<1>8. failed' => ArtInv'
  BY Zenon DEF ArtInv, Stage
<1> QED
  BY <1>5, <1>7, <1>8, Zenon

(* art_write on SPI-NOR erases no more than it is going to write.          *)
LEMMA NorEraseStep ==
    ASSUME Aligned, ArtType, ArtInv, board' = board, NorErase
    PROVE  ArtType' /\ ArtInv'
<1>1. /\ pc = "erase" /\ Chip = "nor" /\ art' = Erased(Sectors) /\ pc' = "write"
      /\ job' = job /\ buf' = buf /\ result' = result /\ before' = before /\ failed' = failed
  BY Zenon DEF NorErase
<1>2. board \in Board /\ Roomy(before) /\ JobOk /\ failed \in BOOLEAN
  BY <1>1, Zenon DEF ArtType
<1>3. DOMAIN art' = DOMAIN art
  BY <1>1, Zenon DEF Erased
<1>4. ArtType'
  BY <1>1, <1>2, <1>3, Onward, Zenon DEF Writing
<1>5. /\ Area' = Area /\ Right(buf)' = Right(buf') /\ Chip' = Chip
  BY <1>1, SameJob, Zenon
<1>6. ASSUME ~failed PROVE Outside(Area)' /\ Ready'
  <2>1. Outside({}) /\ Ready
    BY <1>1, <1>6, Zenon DEF ArtInv, Stage
  <2>2. Sectors = Area
    <3> DEFINE s == SizeOf(before[Off])
               o == Off
               e == erase_size
    <3>1. s \in {base_size, cal_size, 2 * cal_size} /\ s \in Nat /\ o \in Nat /\ e \in Nat \ {0}
      BY <1>2, Place, BoardFacts, Zenon
    <3>2. \A n \in {base_size, cal_size, 2 * cal_size} : n % e = 0
      BY <1>1, <1>2, Zenon DEF Aligned, Chip, cal_size, erase_size
    <3>3. Area = o..(o + s - 1) /\ DOMAIN buf = Area
      BY <2>1, Zenon DEF Area, Ready
    <3>4. Sectors = o..(o + ((Cardinality(DOMAIN buf) + e - 1) \div e) * e - 1)
      BY Zenon DEF Sectors, RoundUp
    <3>5. s % e = 0
      BY <3>1, <3>2, Zenon
    <3> HIDE DEF s, o, e
    <3>6. Cardinality(DOMAIN buf) = s
      <4>1. Cardinality(o..(o + s - 1)) = IF o > o + s - 1 THEN 0 ELSE (o + s - 1) - o + 1
        BY <3>1, FS_Interval
      <4> QED
        BY <3>1, <3>3, <4>1
    <3>7. PICK q \in Nat : s = q * e
      BY <3>1, <3>5, Divided, Zenon
    <3>8. (s + e - 1) \div e = q
      BY <3>1, <3>7, SMTT(60)
    <3> QED
      BY <3>3, <3>4, <3>6, <3>7, <3>8, Zenon
  <2> QED
    BY <1>1, <1>3, <1>5, <2>1, <2>2, Zenon DEF Outside, Ready, Erased
<1>7. ArtInv'
  BY <1>1, <1>5, <1>6, Zenon DEF ArtInv, Stage
<1> QED
  BY <1>4, <1>7, Zenon

(* It writes.                                                              *)
LEMMA NorWriteStep ==
    ASSUME ArtType, ArtInv, board' = board, NorWrite
    PROVE  ArtType' /\ ArtInv'
<1>1. /\ pc = "write" /\ Chip = "nor" /\ art' = Written(DOMAIN buf) /\ Answer("ok") /\ failed' = failed
  BY Zenon DEF NorWrite
<1>2. DOMAIN art' = DOMAIN art /\ failed \in BOOLEAN /\ DOMAIN art = DOMAIN before
      /\ board \in Board /\ Roomy(before) /\ JobOk
  BY <1>1, Zenon DEF Written, ArtType
<1>3. ASSUME ~failed PROVE Right(art') /\ \A a \in DOMAIN art : a \in Area \/ art'[a] = before[a]
  <2>1. Outside(Area) /\ DOMAIN buf = Area /\ Right(buf)
    BY <1>1, <1>3, Zenon DEF ArtInv, Stage, Ready
  <2>2. Area \subseteq DOMAIN art /\ MacAt \in Area
    BY <1>2, Place, Zenon
  <2>3. \A a \in DOMAIN art : art'[a] = IF a \in Area THEN buf[a] ELSE art[a]
    BY <1>1, <2>1, Zenon DEF Written
  <2>4. Right(art')
    <3>1. \A a \in Area : art'[a] = buf[a]
      BY <2>2, <2>3, Zenon
    <3> QED
      BY <2>1, <2>2, <3>1, Agree, Zenon
  <2> QED
    BY <2>1, <2>3, <2>4, Zenon DEF Outside
<1> QED
  BY <1>1, <1>2, <1>3, Settled, Zenon

(* art_write on eMMC writes one block, and is done when it has written the *)
(* part.                                                                   *)
LEMMA EmmcStep ==
    ASSUME ArtType, ArtInv, board' = board, EmmcWrite
    PROVE  ArtType' /\ ArtInv'
<1>1. /\ pc = "write" /\ Chip = "emmc" /\ block_off' = block_off + blksz
      /\ \/ /\ art' = [a \in DOMAIN art |->
                         IF a \notin EmmcBlock THEN art[a]
                         ELSE IF a \in DOMAIN buf THEN buf[a] ELSE FF]
            /\ failed' = failed
         \/ failed' = TRUE /\ art' = art
  BY Zenon DEF EmmcWrite
<1>2. /\ DOMAIN art' = DOMAIN art /\ failed' \in BOOLEAN /\ DOMAIN art = DOMAIN before
      /\ board \in Board /\ Roomy(before) /\ JobOk /\ blksz \in Nat \ {0}
  BY <1>1, BoardFacts, Zenon DEF ArtType
<1> DEFINE o == Off
           z == blksz
           next == block_off + blksz
           Done(f, b) == \A a \in DOMAIN art : f[a] = IF a \in o..(b - 1) THEN buf[a] ELSE before[a]
<1>3. ASSUME ~failed'
      PROVE  /\ Ready /\ Done(art', next)
             /\ next \in Area => \E k, n \in Nat : k < n /\ next = o + k * z /\ Area = o..(o + n * z - 1)
             /\ next \notin Area => Area = o..(next - 1)
  <2>1. /\ ~failed /\ art' = [a \in DOMAIN art |->
                         IF a \notin EmmcBlock THEN art[a]
                         ELSE IF a \in DOMAIN buf THEN buf[a] ELSE FF]
    BY <1>1, <1>3
  <2>2. /\ Ready /\ Done(art, block_off)
        /\ \E k, n \in Nat : k < n /\ block_off = o + k * z /\ Area = o..(o + n * z - 1)
    BY <1>1, <2>1, Zenon DEF ArtInv, Stage
  <2>3. PICK k \in Nat, n \in Nat : k < n /\ block_off = o + k * z /\ Area = o..(o + n * z - 1)
    BY <2>2, Zenon
  <2>4. o \in Nat /\ z \in Nat \ {0} /\ DOMAIN buf = Area /\ EmmcBlock = block_off..(next - 1) /\ next = block_off + z
    BY <1>2, <2>2, Place DEF Ready, EmmcBlock
  <2>5. /\ k * z \in Nat /\ n * z \in Nat /\ (k + 1) * z = k * z + z /\ (k + 1) * z <= n * z
    <3>1. k + 1 <= n /\ k + 1 \in Nat
      BY <2>3
    <3>2. (k + 1) * z <= n * z
      BY <2>4, <3>1
    <3> QED
      BY <2>4, <3>2
  <2> HIDE DEF o, z, next
  <2>6. next = o + (k + 1) * z /\ block_off \in Nat /\ next \in Nat
    BY <2>3, <2>4, <2>5
  <2>7. EmmcBlock \subseteq Area /\ \A a : a \in o..(next - 1) <=> a \in o..(block_off - 1) \/ a \in EmmcBlock
    BY <2>3, <2>4, <2>5, <2>6
  <2>8. \A a \in DOMAIN art : art'[a] = IF a \in EmmcBlock THEN buf[a] ELSE art[a]
    BY <2>1, <2>4, <2>7, ZenonT(60)
  <2>9. Done(art', next)
    BY <2>2, <2>7, <2>8, Zenon
  <2>10. next \in Area => k + 1 < n
    <3>1. ASSUME k + 1 = n PROVE next \notin Area
      BY <2>3, <2>4, <2>5, <2>6, <3>1
    <3> QED
      BY <2>3, <3>1
  <2>11. next \notin Area => k + 1 = n
    <3>1. ASSUME k + 2 <= n PROVE next \in Area
      <4>1. (k + 2) * z <= n * z /\ (k + 2) * z = (k + 1) * z + z
        BY <2>4, <3>1
      <4> QED
        BY <2>3, <2>4, <2>5, <2>6, <4>1
    <3> QED
      BY <2>3, <3>1
  <2>12. next \notin Area => Area = o..(next - 1)
    <3>1. SUFFICES ASSUME next \notin Area PROVE Area = o..(next - 1)
      BY Zenon
    <3> DEFINE j == k + 1
    <3>2. j = n /\ next = o + j * z
      BY <2>6, <2>11, <3>1, Zenon
    <3> HIDE DEF j
    <3>3. next = o + n * z
      BY <3>2, Zenon
    <3> QED
      BY <2>3, <2>4, <2>5, <3>3
  <2>13. ASSUME next \in Area
         PROVE  \E a, b \in Nat : a < b /\ next = o + a * z /\ Area = o..(o + b * z - 1)
    <3>1. k + 1 \in Nat /\ n \in Nat /\ k + 1 < n
      BY <2>3, <2>10, <2>13
    <3>2. next = o + (k + 1) * z /\ Area = o..(o + n * z - 1)
      BY <2>3, <2>6, Zenon
    <3> QED
      BY <3>1, <3>2, Zenon
  <2> QED
    BY <2>2, <2>9, <2>12, <2>13, Zenon
<1>4. CASE next \in DOMAIN buf
  <2>1. job' = job /\ pc' = pc /\ buf' = buf /\ result' = result /\ before' = before
    BY <1>4, Zenon DEF EmmcWrite
  <2>2. ArtType'
    BY <1>1, <1>2, <2>1, Onward, Zenon DEF Writing
  <2>3. /\ Area' = Area /\ Off' = Off /\ Right(buf)' = Right(buf') /\ Chip' = Chip /\ blksz' = blksz
    BY <2>1, SameJob, Zenon
  <2>4. ASSUME ~failed' PROVE ArtInv'
    <3>1. Ready'
      BY <1>3, <2>1, <2>3, <2>4, Zenon DEF Ready
    <3>2. next \in Area
      BY <1>3, <1>4, <2>4, Zenon DEF Ready
    <3>3. (\E k, n \in Nat : k < n /\ block_off = Off + k * blksz /\ Area = Off..(Off + n * blksz - 1))'
      BY <1>1, <1>3, <2>3, <2>4, <3>2, Zenon
    <3>4. \A a \in DOMAIN art' : art'[a] = IF a \in Off'..(block_off' - 1) THEN buf'[a] ELSE before'[a]
      BY <1>1, <1>2, <1>3, <2>1, <2>3, <2>4, Zenon
    <3>5. pc' = "write" /\ Chip' = "emmc"
      BY <1>1, <2>1, <2>3, Zenon
    <3> QED
      BY <3>1, <3>3, <3>4, <3>5, Zenon DEF ArtInv, Stage
  <2>5. failed' => ArtInv'
    BY Zenon DEF ArtInv, Stage
  <2> QED
    BY <2>2, <2>4, <2>5, Zenon
<1>5. CASE next \notin DOMAIN buf
  <2>1. Answer("ok")
    BY <1>5, Zenon DEF EmmcWrite
  <2>2. ASSUME ~failed' PROVE Right(art') /\ \A a \in DOMAIN art : a \in Area \/ art'[a] = before[a]
    <3>1. Ready /\ Done(art', next) /\ Area = o..(next - 1)
      BY <1>3, <1>5, <2>2, Zenon DEF Ready
    <3>2. Area \subseteq DOMAIN art /\ MacAt \in Area
      BY <1>2, Place, Zenon
    <3>3. \A a \in Area : art'[a] = buf[a]
      BY <3>1, <3>2, Zenon
    <3>4. Right(art')
      BY <3>1, <3>2, <3>3, Agree, Zenon DEF Ready
    <3> QED
      BY <3>1, <3>4, Zenon
  <2> QED
    BY <1>1, <1>2, <2>1, <2>2, Settled, Zenon
<1> QED
  BY <1>4, <1>5, Zenon

(* art_write on NAND has the rest of the erase block in the buffer before  *)
(* it erases.                                                              *)
LEMMA NandEraseStep ==
    ASSUME ArtType, ArtInv, board' = board, NandErase
    PROVE  ArtType' /\ ArtInv'
<1>1. /\ pc = "block" /\ ~NandSpans /\ art' = Erased(NandBlock) /\ pc' = "program"
      /\ buf' = [a \in NandBlock |-> IF a \in DOMAIN buf THEN buf[a] ELSE art[a]]
      /\ job' = job /\ block_off' = block_off /\ result' = result /\ before' = before /\ failed' = failed
  BY Zenon DEF NandErase
<1>2. board \in Board /\ Roomy(before) /\ JobOk /\ failed \in BOOLEAN /\ Chip = "nand"
  <2>1. board \in Board /\ Roomy(before) /\ JobOk /\ failed \in BOOLEAN /\ pc \in {"idle", "header", "read"} \cup Writing
    BY <1>1, Zenon DEF ArtType
  <2>2. Chip \in {"nor", "nand", "emmc"}
    BY <2>1, BoardFacts, Zenon
  <2> QED
    BY <1>1, <2>1, <2>2, Zenon DEF Writing
<1>3. DOMAIN art' = DOMAIN art
  BY <1>1, Zenon DEF Erased
<1>4. ArtType'
  BY <1>1, <1>2, <1>3, Onward, Zenon DEF Writing
<1>5. /\ Area' = Area /\ Right(buf)' = Right(buf') /\ erase_size' = erase_size
  BY <1>1, SameJob, Zenon
<1>6. NandBlock' = NandBlock
  BY <1>1, <1>5, Zenon DEF NandBlock
<1>7. ASSUME ~failed
      PROVE  /\ Area \subseteq NandBlock /\ Right(buf') /\ Outside(NandBlock)'
             /\ \A a \in NandBlock : a \in DOMAIN art /\ a \notin Area => buf'[a] = before[a]
  <2>1. Outside({}) /\ DOMAIN buf = Area /\ Right(buf) /\ block_off = Off - (Off % erase_size)
    BY <1>1, <1>7, Zenon DEF ArtInv, Stage, Ready
  <2>2. /\ Off \in Nat /\ erase_size \in Nat \ {0} /\ MacAt \in Area /\ Area \subseteq Int
        /\ Area = Off..(Off + SizeOf(before[Off]) - 1) /\ SizeOf(before[Off]) \in Nat
    BY <1>2, Place, BoardFacts, Zenon DEF Area
  <2>3. block_off \in Int /\ block_off <= Off
    <3>1. Off % erase_size \in Nat
      BY <2>2
    <3> QED
      BY <2>1, <2>2, <3>1
  <2>4. \A a \in Area : a < block_off + erase_size /\ a >= Off
    BY <1>1, <2>1, <2>2, <2>3 DEF NandSpans
  <2>5. Area \subseteq NandBlock
    BY <2>2, <2>3, <2>4 DEF NandBlock
  <2>6. /\ \A a \in Area : buf'[a] = buf[a]
        /\ \A a \in NandBlock : a \notin Area => buf'[a] = art[a]
    BY <1>1, <2>1, <2>5, Zenon
  <2>7. Right(buf')
    BY <2>1, <2>2, <2>6, Agree, Zenon
  <2>8. Outside(NandBlock)'
    BY <1>1, <1>3, <1>6, <2>1, Zenon DEF Outside, Erased
  <2> QED
    BY <2>1, <2>5, <2>6, <2>7, <2>8, ZenonT(60) DEF Outside
<1>8. ArtInv'
  BY <1>1, <1>3, <1>5, <1>6, <1>7, Zenon DEF ArtInv, Stage
<1> QED
  BY <1>4, <1>8, Zenon

(* It writes the block back.                                               *)
LEMMA NandWriteStep ==
    ASSUME ArtType, ArtInv, board' = board, NandWrite
    PROVE  ArtType' /\ ArtInv'
<1>1. pc = "program" /\ art' = Written(NandBlock) /\ Answer("ok") /\ failed' = failed
  BY Zenon DEF NandWrite
<1>2. /\ DOMAIN art' = DOMAIN art /\ failed \in BOOLEAN /\ DOMAIN art = DOMAIN before
      /\ board \in Board /\ Roomy(before) /\ JobOk
  BY <1>1, Zenon DEF Written, ArtType
<1>3. ASSUME ~failed PROVE Right(art') /\ \A a \in DOMAIN art : a \in Area \/ art'[a] = before[a]
  <2>1. /\ Area \subseteq NandBlock /\ Right(buf) /\ Outside(NandBlock)
        /\ \A a \in NandBlock : a \in DOMAIN art /\ a \notin Area => buf[a] = before[a]
    BY <1>1, <1>3, Zenon DEF ArtInv, Stage
  <2>2. Area \subseteq DOMAIN art /\ MacAt \in Area
    BY <1>2, Place, Zenon
  <2>3. \A a \in DOMAIN art : art'[a] = IF a \in NandBlock THEN buf[a] ELSE art[a]
    BY <1>1, Zenon DEF Written
  <2>4. Right(art')
    <3>1. \A a \in Area : art'[a] = buf[a]
      BY <2>1, <2>2, <2>3, Zenon
    <3> QED
      BY <2>1, <2>2, <3>1, Agree, Zenon
  <2> QED
    BY <2>1, <2>3, <2>4, Zenon DEF Outside
<1> QED
  BY <1>1, <1>2, <1>3, Settled, Zenon

(* A refusal, a failure or a power loss.                                   *)
LEMMA EditUnwritten ==
    ASSUME ArtType, ArtInv, board' = board,
           ReadError \/ NorUnaligned \/ NandTooLong \/ FlashFails \/ EditPowerLoss
    PROVE  ArtType' /\ ArtInv'
<1>1. CASE ReadError
  <2>1. pc # "idle" /\ failed' = TRUE /\ art' = art /\ Answer("error")
    BY <1>1, Zenon DEF ReadError
  <2> QED
    BY <2>1, Settled, Zenon
<1>2. CASE NorUnaligned \/ NandTooLong
  <2>1. pc \in {"erase", "block"} /\ failed' = failed /\ art' = art /\ Answer("error")
    BY <1>2, Zenon DEF NorUnaligned, NandTooLong
  <2>2. failed \in BOOLEAN
    BY Zenon DEF ArtType
  <2>3. ~failed => \A a \in DOMAIN art : art'[a] = before[a]
    BY <2>1, <2>2, Zenon DEF ArtInv, Stage, Outside
  <2> QED
    BY <2>1, <2>2, <2>3, Settled, Zenon
<1>3. CASE FlashFails
  <2>1. pc # "idle" /\ failed' = TRUE /\ DOMAIN art' = DOMAIN art /\ Answer("error")
    BY <1>3, Zenon DEF FlashFails, Erased
  <2> QED
    BY <2>1, Settled, Zenon
<1>4. CASE EditPowerLoss
  <2>1. /\ pc # "idle" /\ pc' = "idle" /\ art' = art /\ job' = job /\ result' = result
        /\ before' = before /\ failed' = failed
    BY <1>4, Zenon DEF EditPowerLoss
  <2>2. result = "none"
    BY <2>1, Zenon DEF ArtType
  <2>3. JobOk' = JobOk /\ Roomy(before)' = Roomy(before)
    BY <2>1, SameJob, Zenon
  <2>4. ArtType'
    BY <2>1, <2>2, <2>3, Zenon DEF ArtType
  <2>5. ArtInv'
    BY <2>1, <2>2, Zenon DEF ArtInv, Stage
  <2> QED
    BY <2>4, <2>5, Zenon
<1> QED
  BY <1>1, <1>2, <1>3, <1>4, Zenon

(* Every step keeps the types and ArtInv.                                  *)
LEMMA ArtStep ==
    ASSUME Aligned, ArtType, ArtInv, [ArtNext]_artVars
    PROVE  ArtType' /\ ArtInv'
<1>1. CASE UNCHANGED artVars
  <2>1. /\ board' = board /\ art' = art /\ job' = job /\ pc' = pc /\ buf' = buf /\ block_off' = block_off
        /\ result' = result /\ before' = before /\ failed' = failed
    BY <1>1, Zenon DEF artVars
  <2>2. /\ Area' = Area /\ Off' = Off /\ JobOk' = JobOk /\ Roomy(before)' = Roomy(before) /\ Chip' = Chip
        /\ erase_size' = erase_size /\ blksz' = blksz
        /\ Right(buf)' = Right(buf') /\ Right(art)' = Right(art')
    BY <2>1, SameJob, Zenon
  <2>3. Writing' = Writing
    BY <2>2, Zenon DEF Writing
  <2>4. ArtType'
    BY <2>1, <2>2, <2>3, Zenon DEF ArtType
  <2>5. Ready' = Ready /\ NandBlock' = NandBlock /\ Outside({})' = Outside({}) /\ Outside(Area)' = Outside(Area)
        /\ Outside(NandBlock)' = Outside(NandBlock) /\ \A p : Stage(p)' = Stage(p)
    BY <2>1, <2>2, Zenon DEF Ready, NandBlock, Outside, Stage
  <2>6. ArtInv'
    BY <2>1, <2>2, <2>5, ZenonT(60) DEF ArtInv
  <2> QED
    BY <2>4, <2>6, Zenon
<1>2. CASE ArtNext
  <2>1. board' = board
    BY <1>2, Zenon DEF ArtNext
  <2>2. ASSUME NEW kind \in {"base", "wifi"}, NEW i \in 0..WifiMax, NEW mac \in Macs,
               httpd_handle_mac_set(kind, i, mac)
        PROVE  ArtType' /\ ArtInv'
    BY <2>1, <2>2, SetStep, Zenon
  <2>3. CASE ReadHeader
    BY <2>1, <2>3, HeaderStep, Zenon
  <2>4. CASE ReadAndEdit
    BY <2>1, <2>4, EditStep, Zenon
  <2>5. CASE NorErase
    BY <2>1, <2>5, NorEraseStep, ZenonT(60)
  <2>6. CASE NorWrite
    BY <2>1, <2>6, NorWriteStep, Zenon
  <2>7. CASE EmmcWrite
    BY <2>1, <2>7, EmmcStep, Zenon
  <2>8. CASE NandErase
    BY <2>1, <2>8, NandEraseStep, Zenon
  <2>9. CASE NandWrite
    BY <2>1, <2>9, NandWriteStep, Zenon
  <2>10. CASE ReadError \/ NorUnaligned \/ NandTooLong \/ FlashFails \/ EditPowerLoss
    BY <2>1, <2>10, EditUnwritten, Zenon
  <2> QED
    BY <1>2, <2>2, <2>3, <2>4, <2>5, <2>6, <2>7, <2>8, <2>9, <2>10, Zenon DEF ArtNext
<1> QED
  BY <1>1, <1>2, Zenon

(* ArtInv implies what is to be proved.                                    *)
LEMMA EditOutcome ==
    ASSUME ArtType, ArtInv
    PROVE  EditDone /\ OnlyMac
<1>1. result = "none" \/ (pc = "idle" /\ result = "error") \/ (pc = "idle" /\ result = "ok" /\ JobOk)
  BY Zenon DEF ArtType
<1>2. CASE result = "none" \/ failed
  BY <1>2, Zenon DEF EditDone, OnlyMac
<1>3. CASE pc = "idle" /\ result = "error" /\ ~failed
  <2>1. Outside({})
    BY <1>3, Zenon DEF ArtInv, Stage
  <2> QED
    BY <1>3, <2>1, Zenon DEF Outside, EditDone, OnlyMac
<1>4. CASE pc = "idle" /\ result = "ok" /\ JobOk /\ ~failed
  <2>1. Right(art) /\ Outside(Area)
    BY <1>4, Zenon DEF ArtInv, Stage
  <2>2. board \in Board /\ Roomy(before)
    BY Zenon DEF ArtType
  <2>3. /\ MacAt \in Area
        /\ job.kind = "wifi" => /\ Off \in Area /\ Off \notin Touched
                                /\ Off = CalOff(job.index) /\ MacAt = MacOff(job.index)
                                /\ Touched = {MacOff(job.index), CsOff(job.index)}
        /\ job.kind = "base" => MacAt = job.index /\ Touched = {job.index}
    BY <1>4, <2>2, Place, Zenon
  <2>4. \A a \in DOMAIN art : a \in Touched \/ art[a] = before[a]
    BY <2>1, Zenon DEF Outside, Right
  <2>5. job.kind \in {"base", "wifi"}
    BY <1>4, Zenon DEF JobOk
  <2>6. OnlyMac
    BY <1>4, <2>3, <2>4, <2>5, Zenon DEF OnlyMac
  <2>7. CASE job.kind = "base"
    BY <2>1, <2>3, <2>6, <2>7, Zenon DEF EditDone, Right
  <2>8. CASE job.kind = "wifi"
    <3>1. art[Off] = before[Off]
      BY <2>1, <2>3, <2>8, Zenon DEF Right
    <3>2. Piece(CalOff(job.index), art_cal_size(art[CalOff(job.index)])) = [a \in Area |-> art[a]]
      BY <2>3, <2>8, <3>1, Zenon DEF Piece, Area, SizeOf
    <3>3. Xor(Piece(CalOff(job.index), art_cal_size(art[CalOff(job.index)]))) = FF
      BY <2>1, <2>8, <3>2, Zenon DEF Right
    <3>4. art[MacOff(job.index)] = job.mac
      BY <2>1, <2>3, <2>8, Zenon DEF Right
    <3> QED
      BY <2>6, <2>8, <3>3, <3>4, Zenon DEF EditDone
  <2> QED
    BY <2>5, <2>7, <2>8, Zenon
<1> QED
  BY <1>1, <1>2, <1>3, <1>4, Zenon

(* An edit answered "ok" with no failed transfer put the address where it  *)
(* belongs and left a calibration block with a right checksum:             *)
(* macaddr_modify_wifi and art_write, for all aligned boards, contents of  *)
(* ART and sequences of edits.                                             *)
THEOREM AddressWritten ==
    ASSUME Aligned
    PROVE  ArtSpec => []EditDone
BY ArtInitial, ArtStep, EditOutcome, PTL DEF ArtSpec

(* It changed nothing else, and a refused edit changed nothing: the        *)
(* calibration data that cannot be made again stays as it was, for all     *)
(* aligned boards.                                                         *)
THEOREM CalibrationKept ==
    ASSUME Aligned
    PROVE  ArtSpec => []OnlyMac
BY ArtInitial, ArtStep, EditOutcome, PTL DEF ArtSpec
=============================================================================
