---------------------------- MODULE SerialProofs ----------------------------
(***************************************************************************)
(* Proofs about a serial device, for buffers, calls and tasks of any size  *)
(* and number: first the arithmetic of the circular buffer, then the types *)
(* of the device, that sleepers are remembered and woken for data, and     *)
(* that both directions implement the byte queue of ByteFifo.              *)
(***************************************************************************)
EXTENDS SerialDevice, SequenceTheorems, TLAPS

-----------------------------------------------------------------------------
(* Indices.                                                                *)

LEMMA MaskedRange == \A n \in Int : Masked(n) \in Places
  BY SizeAssumption DEF Masked, Places

\* The mask takes off or adds one length of the array.
LEMMA MaskedNear ==
  ASSUME NEW n \in Int, -Size <= n, n < 2 * Size
  PROVE  Masked(n) = IF n < 0 THEN n + Size ELSE IF n < Size THEN n ELSE n - Size
<1>1. CASE n < 0
  BY <1>1, SizeAssumption DEF Masked
<1>2. CASE 0 <= n /\ n < Size
  BY <1>2, SizeAssumption DEF Masked
<1>3. CASE Size <= n
  BY <1>3, SizeAssumption DEF Masked
<1> QED BY <1>1, <1>2, <1>3, SizeAssumption

\* An index that is moved twice may be masked once.
LEMMA MaskedTwice ==
  ASSUME NEW a \in Places, NEW k \in Nat, NEW j \in Nat, k + j <= Size
  PROVE  Masked(Masked(a + k) + j) = Masked(a + k + j)
<1>1. a \in Nat /\ a < Size /\ Size \in Nat
  BY SizeAssumption DEF Places
<1>2. Masked(a + k) = IF a + k < Size THEN a + k ELSE a + k - Size
  BY <1>1, MaskedNear
<1>3. Masked(a + k + j) = IF a + k + j < Size THEN a + k + j ELSE a + k + j - Size
  BY <1>1, MaskedNear
<1>4. CASE a + k < Size
  BY <1>1, <1>2, <1>4
<1>5. CASE a + k >= Size
  <2>1. Masked(a + k - Size + j) = a + k - Size + j
    BY <1>1, <1>5, MaskedNear
  <2> QED BY <1>1, <1>2, <1>3, <1>5, <2>1
<1> QED BY <1>1, <1>4, <1>5

LEMMA MinOfTwo ==
  ASSUME NEW a \in Int, NEW b \in Int
  PROVE  Min({a, b}) = IF a <= b THEN a ELSE b
<1> DEFINE m == IF a <= b THEN a ELSE b
<1>1. m \in {a, b} /\ \A y \in {a, b} : m <= y
  OBVIOUS
<1>2. \A x \in {a, b} : (\A y \in {a, b} : x <= y) => x = m
  OBVIOUS
<1>3. Min({a, b}) = CHOOSE x \in {a, b} : \A y \in {a, b} : x <= y
  BY DEF Min
<1> QED BY <1>1, <1>2, <1>3

LEMMA MaxOfTwo ==
  ASSUME NEW a \in Int, NEW b \in Int
  PROVE  Max({a, b}) = IF a >= b THEN a ELSE b
<1> DEFINE m == IF a >= b THEN a ELSE b
<1>1. m \in {a, b} /\ \A y \in {a, b} : m >= y
  OBVIOUS
<1>2. \A x \in {a, b} : (\A y \in {a, b} : x >= y) => x = m
  OBVIOUS
<1>3. Max({a, b}) = CHOOSE x \in {a, b} : \A y \in {a, b} : x >= y
  BY DEF Max
<1> QED BY <1>1, <1>2, <1>3

\* A sequence that has the elements of two others in order.
LEMMA Joined ==
  ASSUME NEW S, NEW s \in Seq(S), NEW t \in Seq(S), NEW u \in Seq(S),
         Len(u) = Len(s) + Len(t),
         \A i \in 1 .. Len(s) : u[i] = s[i],
         \A i \in 1 .. Len(t) : u[Len(s) + i] = t[i]
  PROVE  u = s \o t
<1>1. /\ s \o t \in Seq(S) /\ Len(s \o t) = Len(s) + Len(t)
      /\ \A i \in 1 .. Len(s) + Len(t) :
           (s \o t)[i] = IF i <= Len(s) THEN s[i] ELSE t[i - Len(s)]
  BY ConcatProperties
<1>2. Len(s) \in Nat /\ Len(t) \in Nat
  BY LenProperties
<1>3. \A i \in 1 .. Len(u) : u[i] = (s \o t)[i]
  <2> TAKE i \in 1 .. Len(u)
  <2>1. CASE i <= Len(s)
    BY <1>1, <1>2, <2>1
  <2>2. CASE i > Len(s)
    <3>1. i - Len(s) \in 1 .. Len(t) /\ Len(s) + (i - Len(s)) = i
      BY <1>2, <2>2
    <3>2. u[Len(s) + (i - Len(s))] = t[i - Len(s)]
      BY <3>1
    <3> QED BY <1>1, <1>2, <2>2, <3>1, <3>2
  <2> QED BY <1>2, <2>1, <2>2
<1> QED BY <1>1, <1>3, SeqEqual

-----------------------------------------------------------------------------
(* The circular buffer.                                                    *)

\* What is read of a buffer, whatever its bytes.
Indexed(b) == b.head \in Places /\ b.tail \in Places

\* What the macros compute, and that bytes and room make up all but one place.
LEMMA Counts ==
  ASSUME NEW b, Indexed(b)
  PROVE  /\ Count(b, b.tail) = IF b.head <= b.tail THEN b.tail - b.head
                               ELSE b.tail - b.head + Size
         /\ Count(b, b.tail) \in 0 .. Size - 1
         /\ Space(b, b.head) = Size - 1 - Count(b, b.tail)
         /\ Empty(b) <=> Count(b, b.tail) = 0
<1>1. /\ b.head \in Nat /\ b.tail \in Nat /\ b.head < Size /\ b.tail < Size
      /\ Size \in Nat /\ Size > 1
  BY SizeAssumption DEF Indexed, Places
<1>2. Masked(b.tail - b.head) = IF b.tail - b.head < 0 THEN b.tail - b.head + Size
                                ELSE b.tail - b.head
  BY <1>1, MaskedNear
<1>3. Masked(b.head - b.tail - 1) = IF b.head - b.tail - 1 < 0 THEN b.head - b.tail - 1 + Size
                                    ELSE b.head - b.tail - 1
  BY <1>1, MaskedNear
<1> QED BY <1>1, <1>2, <1>3 DEF Count, Space, Empty

\* The part of the room and of the bytes before the end of the array.
LEMMA RawCounts ==
  ASSUME NEW b, Indexed(b)
  PROVE  /\ RawSpace(b, b.head) \in 0 .. Space(b, b.head)
         /\ RawSpace(b, b.head) = 0 <=> Space(b, b.head) = 0
         /\ b.tail + RawSpace(b, b.head) <= Size
         /\ RawSpace(b, b.head) < Space(b, b.head) => b.tail + RawSpace(b, b.head) = Size
         /\ RawCount(b, b.tail) \in 0 .. Count(b, b.tail)
         /\ RawCount(b, b.tail) = 0 <=> Count(b, b.tail) = 0
         /\ b.head + RawCount(b, b.tail) <= Size
         /\ RawCount(b, b.tail) < Count(b, b.tail) => b.head + RawCount(b, b.tail) = Size
<1>1. /\ b.head \in Nat /\ b.tail \in Nat /\ b.head < Size /\ b.tail < Size
      /\ Size \in Nat /\ Size > 1
  BY SizeAssumption DEF Indexed, Places
<1> DEFINE n == Count(b, b.tail)
           s == Space(b, b.head)
<1>2. /\ n = IF b.head <= b.tail THEN b.tail - b.head ELSE b.tail - b.head + Size
      /\ s = Size - 1 - n
  BY Counts
<1> HIDE DEF n, s
<1>3. /\ RawSpace(b, b.head) \in 0 .. s
      /\ RawSpace(b, b.head) = 0 <=> s = 0
      /\ b.tail + RawSpace(b, b.head) <= Size
      /\ RawSpace(b, b.head) < s => b.tail + RawSpace(b, b.head) = Size
  <2> DEFINE r == RawSpace(b, b.head)
  <2>1. r = IF b.tail >= b.head
            THEN IF b.head > 0 THEN Size - b.tail ELSE Size - 1 - b.tail
            ELSE b.head - b.tail - 1
    BY <1>1 DEF RawSpace
  <2> HIDE DEF r
  <2>2. r \in 0 .. s /\ (r = 0 <=> s = 0)
    BY <1>1, <1>2, <2>1
  <2>3. b.tail + r <= Size /\ (r < s => b.tail + r = Size)
    BY <1>1, <1>2, <2>1
  <2> QED BY <2>2, <2>3 DEF r
<1>4. /\ RawCount(b, b.tail) \in 0 .. n
      /\ RawCount(b, b.tail) = 0 <=> n = 0
      /\ b.head + RawCount(b, b.tail) <= Size
      /\ RawCount(b, b.tail) < n => b.head + RawCount(b, b.tail) = Size
  BY <1>1, <1>2 DEF RawCount
<1> QED BY <1>3, <1>4 DEF n, s

\* The bytes of a buffer from its head on, as many as are asked for.
Front(b, k) == [i \in 1 .. k |-> b.buf[Masked(b.head + i - 1)]]

LEMMA ContentsFront == \A b : Contents(b) = Front(b, Count(b, b.tail))
  BY DEF Contents, Front

LEMMA FrontType ==
  ASSUME NEW bytes, NEW b \in Buffers(bytes), NEW k \in Nat
  PROVE  /\ Front(b, k) \in Seq(bytes) /\ Len(Front(b, k)) = k
         /\ \A i \in 1 .. k : Front(b, k)[i] = b.buf[Masked(b.head + i - 1)]
<1>1. \A i \in 1 .. k : b.head + i - 1 \in Int
  BY SizeAssumption DEF Buffers, Places
<1>2. \A i \in 1 .. k : b.buf[Masked(b.head + i - 1)] \in bytes
  BY <1>1, MaskedRange DEF Buffers
<1> QED BY <1>2 DEF Front

LEMMA ContentsType ==
  ASSUME NEW bytes, NEW b \in Buffers(bytes)
  PROVE  /\ Indexed(b)
         /\ Contents(b) \in Seq(bytes) /\ Len(Contents(b)) = Count(b, b.tail)
         /\ Count(b, b.tail) \in Nat
<1>1. Indexed(b)
  BY DEF Buffers, Indexed
<1>2. Count(b, b.tail) \in Nat
  BY <1>1, Counts, SizeAssumption
<1> QED BY <1>1, <1>2, FrontType, ContentsFront

\* A front is made of a shorter one and the front of what is left after it.
LEMMA FrontMoves ==
  ASSUME NEW bytes, NEW b \in Buffers(bytes), NEW k \in Nat, NEW n \in Nat, k + n <= Size
  PROVE  Front(b, k + n) = Front(b, k) \o Front(MoveHead(b, k), n)
<1> DEFINE h == Masked(b.head + k)
           c == MoveHead(b, k)
<1>1. /\ b.head \in Nat /\ b.head < Size /\ Size \in Nat /\ b.head \in Places
  BY SizeAssumption DEF Buffers, Places
<1>2. h \in Places
  BY <1>1, MaskedRange
<1>3. c = [head |-> h, tail |-> b.tail, buf |-> b.buf] /\ c \in Buffers(bytes)
  BY <1>2 DEF MoveHead, Buffers
<1> DEFINE s == Front(b, k)
           t == Front(c, n)
           u == Front(b, k + n)
<1>4. /\ s \in Seq(bytes) /\ Len(s) = k
      /\ \A i \in 1 .. k : s[i] = b.buf[Masked(b.head + i - 1)]
  BY FrontType
<1>5. /\ t \in Seq(bytes) /\ Len(t) = n
      /\ \A i \in 1 .. n : t[i] = b.buf[Masked(h + i - 1)]
  <2> HIDE DEF c, h
  <2>1. /\ Front(c, n) \in Seq(bytes) /\ Len(Front(c, n)) = n
        /\ \A i \in 1 .. n : Front(c, n)[i] = c.buf[Masked(c.head + i - 1)]
    BY <1>3, FrontType
  <2> QED BY <1>3, <2>1
<1>6. /\ u \in Seq(bytes) /\ Len(u) = k + n
      /\ \A i \in 1 .. k + n : u[i] = b.buf[Masked(b.head + i - 1)]
  <2>1. k + n \in Nat
    OBVIOUS
  <2> QED BY <2>1, FrontType
<1>7. \A i \in 1 .. n : Masked(h + i - 1) = Masked(b.head + (k + i) - 1)
  <2> TAKE i \in 1 .. n
  <2>1. i - 1 \in Nat /\ k + (i - 1) <= Size
    BY <1>1
  <2>2. Masked(h + (i - 1)) = Masked(b.head + k + (i - 1))
    BY <1>1, <2>1, MaskedTwice
  <2>3. h + i - 1 = h + (i - 1) /\ b.head + (k + i) - 1 = b.head + k + (i - 1)
    BY <1>1, <1>2 DEF Places
  <2> HIDE DEF h
  <2> QED BY <2>2, <2>3
<1> HIDE DEF h, c, s, t, u
<1>8. \A i \in 1 .. k : u[i] = s[i]
  <2> TAKE i \in 1 .. k
  <2>1. i \in 1 .. k + n
    OBVIOUS
  <2> QED BY <1>4, <1>6, <2>1
<1>9. \A i \in 1 .. n : u[k + i] = t[i]
  <2> TAKE i \in 1 .. n
  <2>1. k + i \in 1 .. k + n
    OBVIOUS
  <2>2. u[k + i] = b.buf[Masked(b.head + (k + i) - 1)]
    BY <1>6, <2>1
  <2> QED BY <1>5, <1>7, <2>2
<1>10. u = s \o t
  BY <1>4, <1>5, <1>6, <1>8, <1>9, Joined
<1> QED BY <1>10 DEF s, t, u, c

\* Moving the head takes the bytes off the front, the oldest first.
LEMMA HeadMoves ==
  ASSUME NEW bytes, NEW b \in Buffers(bytes), NEW k \in 0 .. Count(b, b.tail)
  PROVE  /\ MoveHead(b, k) \in Buffers(bytes)
         /\ Count(MoveHead(b, k), b.tail) = Count(b, b.tail) - k
         /\ Contents(b) = Front(b, k) \o Contents(MoveHead(b, k))
<1> DEFINE h == Masked(b.head + k)
           c == MoveHead(b, k)
           n == Count(b, b.tail)
<1>1. /\ b.head \in Nat /\ b.tail \in Nat /\ b.head < Size /\ b.tail < Size
      /\ Size \in Nat /\ Size > 1 /\ b.head \in Places /\ b.tail \in Places
  BY SizeAssumption DEF Buffers, Places
<1>2. /\ n \in 0 .. Size - 1 /\ k \in Nat /\ k <= n /\ n \in Nat
      /\ n = IF b.head <= b.tail THEN b.tail - b.head ELSE b.tail - b.head + Size
  BY <1>1, Counts DEF Indexed
<1>3. h \in Places /\ h = IF b.head + k < Size THEN b.head + k ELSE b.head + k - Size
  BY <1>1, <1>2, MaskedNear, MaskedRange
<1>4. c = [head |-> h, tail |-> b.tail, buf |-> b.buf] /\ c \in Buffers(bytes)
  BY <1>3 DEF MoveHead, Buffers
<1>5. Count(c, c.tail) = IF h <= b.tail THEN b.tail - h ELSE b.tail - h + Size
  BY <1>1, <1>3, <1>4, Counts DEF Indexed
<1> HIDE DEF n, h, c
<1>6. Count(c, c.tail) = n - k
  BY <1>1, <1>2, <1>3, <1>5
<1>7. Front(b, n) = Front(b, k) \o Front(c, n - k)
  <2>1. n - k \in Nat /\ k + (n - k) = n /\ k + (n - k) <= Size
    BY <1>1, <1>2
  <2>2. Front(b, k + (n - k)) = Front(b, k) \o Front(MoveHead(b, k), n - k)
    BY <1>2, <2>1, FrontMoves, ZenonT(40)
  <2> QED BY <2>1, <2>2 DEF c
<1>8. Contents(b) = Front(b, n) /\ Contents(c) = Front(c, n - k)
  BY <1>6, ContentsFront DEF n
<1> QED BY <1>4, <1>6, <1>7, <1>8 DEF n, c

\* The place of a byte, seen from the head and from the tail.
LEMMA PlaceFromTail ==
  ASSUME NEW h \in Places, NEW t \in Places, NEW n \in Nat,
         n = IF h <= t THEN t - h ELSE t - h + Size, NEW i \in 1 .. n
  PROVE  Masked(h + i - 1) = Masked(t + (Size - n + i) - 1)
<1>1. h \in Nat /\ t \in Nat /\ h < Size /\ t < Size /\ Size \in Nat
  BY SizeAssumption DEF Places
<1>2. CASE h <= t
  <2>1. n = t - h
    BY <1>1, <1>2
  <2>2. /\ t + (Size - n + i) - 1 = h + i - 1 + Size
        /\ h + i - 1 \in Nat /\ h + i - 1 < Size
    BY <1>1, <2>1
  <2>3. Masked(h + i - 1) = h + i - 1 /\ Masked(h + i - 1 + Size) = h + i - 1
    BY <1>1, <2>2, MaskedNear
  <2> QED BY <2>2, <2>3
<1>3. CASE h > t
  <2>1. n = t - h + Size
    BY <1>1, <1>3
  <2>2. t + (Size - n + i) - 1 = h + i - 1
    BY <1>1, <2>1
  <2> QED BY <2>2
<1> QED BY <1>1, <1>2, <1>3

\* Moving the tail over new bytes appends them; what counts is what the array
\* holds from the old tail on.
LEMMA TailMoves ==
  ASSUME NEW bytes, NEW b \in Buffers(bytes), NEW c \in Buffers(bytes),
         NEW s \in Seq(bytes), Len(s) <= Space(b, b.head),
         c.head = b.head, c.tail = Masked(b.tail + Len(s)),
         \A i \in 1 .. Len(s) : c.buf[Masked(b.tail + i - 1)] = s[i],
         \A i \in Len(s) + 1 .. Size :
           c.buf[Masked(b.tail + i - 1)] = b.buf[Masked(b.tail + i - 1)]
  PROVE  /\ Count(c, c.tail) = Count(b, b.tail) + Len(s)
         /\ Contents(c) = Contents(b) \o s
<1> DEFINE n == Count(b, b.tail)
           k == Len(s)
<1>1. /\ b.head \in Nat /\ b.tail \in Nat /\ b.head < Size /\ b.tail < Size
      /\ Size \in Nat /\ Size > 1 /\ b.head \in Places /\ b.tail \in Places
  BY SizeAssumption DEF Buffers, Places
<1>2. /\ n \in Nat /\ n < Size /\ k \in Nat /\ k + n < Size
      /\ n = IF b.head <= b.tail THEN b.tail - b.head ELSE b.tail - b.head + Size
  BY <1>1, Counts, LenProperties DEF Indexed
<1>3. c.tail = IF b.tail + k < Size THEN b.tail + k ELSE b.tail + k - Size
  BY <1>1, <1>2, MaskedNear, SMTT(30)
<1>4. /\ c.tail \in Places
      /\ Count(c, c.tail) = IF c.head <= c.tail THEN c.tail - c.head
                            ELSE c.tail - c.head + Size
  BY Counts DEF Indexed, Buffers
<1> HIDE DEF n, k
<1>5. Count(c, c.tail) = n + k
  BY <1>1, <1>2, <1>3, <1>4, SMTT(30)
<1>6. \A i \in 1 .. n :
        \E j \in k + 1 .. Size : Masked(b.head + i - 1) = Masked(b.tail + j - 1)
  <2> TAKE i \in 1 .. n
  <2>1. Size - n + i \in k + 1 .. Size
    BY <1>1, <1>2, SMTT(30)
  <2>2. Masked(b.head + i - 1) = Masked(b.tail + (Size - n + i) - 1)
    BY <1>1, <1>2, PlaceFromTail, ZenonT(40)
  <2> QED BY <2>1, <2>2
<1>7. \A i \in 1 .. k : Masked(b.head + (n + i) - 1) = Masked(b.tail + i - 1)
  <2> TAKE i \in 1 .. k
  <2>1. b.tail = Masked(b.head + n)
    BY <1>1, <1>2, MaskedNear, SMTT(30)
  <2>2. i - 1 \in Nat /\ n + (i - 1) <= Size
    BY <1>1, <1>2
  <2>3. Masked(Masked(b.head + n) + (i - 1)) = Masked(b.head + n + (i - 1))
    BY ZenonT(40), <1>1, <1>2, <2>2, MaskedTwice
  <2>4. b.tail + i - 1 = b.tail + (i - 1) /\ b.head + (n + i) - 1 = b.head + n + (i - 1)
    BY <1>1, <1>2, SMTT(30)
  <2> QED BY <2>1, <2>3, <2>4
<1> DEFINE v == Contents(b)
           u == Contents(c)
<1>8. /\ v \in Seq(bytes) /\ Len(v) = n
      /\ \A i \in 1 .. n : v[i] = b.buf[Masked(b.head + i - 1)]
  BY <1>2, FrontType, ContentsFront DEF n
<1>9. /\ u \in Seq(bytes) /\ Len(u) = n + k
      /\ \A i \in 1 .. n + k : u[i] = c.buf[Masked(b.head + i - 1)]
  <2>1. n + k \in Nat
    BY <1>2
  <2>2. u = Front(c, n + k)
    BY <1>5, ContentsFront
  <2>3. /\ Front(c, n + k) \in Seq(bytes) /\ Len(Front(c, n + k)) = n + k
        /\ \A i \in 1 .. n + k : Front(c, n + k)[i] = c.buf[Masked(c.head + i - 1)]
    BY <2>1, FrontType
  <2> HIDE DEF u
  <2> QED BY <2>2, <2>3
<1> HIDE DEF u, v
<1>10. \A i \in 1 .. n : u[i] = v[i]
  <2> TAKE i \in 1 .. n
  <2>1. i \in 1 .. n + k
    BY <1>2
  <2>2. PICK j \in k + 1 .. Size : Masked(b.head + i - 1) = Masked(b.tail + j - 1)
    BY <1>6
  <2>3. c.buf[Masked(b.tail + j - 1)] = b.buf[Masked(b.tail + j - 1)]
    BY <2>2 DEF k
  <2> QED BY <1>8, <1>9, <2>1, <2>2, <2>3
<1>11. \A i \in 1 .. k : u[n + i] = s[i]
  <2> TAKE i \in 1 .. k
  <2>1. n + i \in 1 .. n + k
    BY <1>2
  <2>2. u[n + i] = c.buf[Masked(b.head + (n + i) - 1)]
    BY <1>9, <2>1
  <2>3. c.buf[Masked(b.tail + i - 1)] = s[i]
    BY DEF k
  <2> QED BY <1>7, <2>2, <2>3
<1>12. u = v \o s
  BY <1>8, <1>9, <1>10, <1>11, Joined DEF k
<1> QED BY <1>5, <1>12 DEF n, k, u, v

LEMMA StoredAt ==
  ASSUME NEW bytes, NEW buf \in [Places -> bytes], NEW at \in Nat, NEW s \in Seq(bytes)
  PROVE  /\ Stored(buf, at, s) \in [Places -> bytes]
         /\ \A p \in Places :
              Stored(buf, at, s)[p] = IF at <= p /\ p < at + Len(s) THEN s[p - at + 1]
                                      ELSE buf[p]
<1>1. Len(s) \in Nat /\ \A p \in Places : p \in Nat
  BY LenProperties DEF Places
<1>2. \A p \in Places : p \in at .. (at + Len(s) - 1) <=> at <= p /\ p < at + Len(s)
  BY <1>1
<1>3. \A p \in Places : p \in at .. (at + Len(s) - 1) => s[p - at + 1] \in bytes
  <2> SUFFICES ASSUME NEW p \in Places, p \in at .. (at + Len(s) - 1)
               PROVE  p - at + 1 \in 1 .. Len(s)
    BY ElementOfSeq
  <2> QED BY <1>1
<1> QED BY <1>2, <1>3 DEF Stored

\* Bytes that are copied in two parts, to the end of the array and from its
\* beginning, are in the places that follow the tail, and only there.
Around(buf, tail, s, f, n) ==
  Stored(Stored(buf, tail, SubSeq(s, 1, f)), 0, SubSeq(s, f + 1, n))

LEMMA StoredAround ==
  ASSUME NEW bytes, NEW buf \in [Places -> bytes], NEW tail \in Places,
         NEW s \in Seq(bytes), NEW n \in 0 .. Len(s), n <= Size,
         NEW f \in 0 .. n, tail + f <= Size, f < n => tail + f = Size
  PROVE  /\ Around(buf, tail, s, f, n) \in [Places -> bytes]
         /\ \A i \in 1 .. n : Around(buf, tail, s, f, n)[Masked(tail + i - 1)] = s[i]
         /\ \A i \in n + 1 .. Size :
              Around(buf, tail, s, f, n)[Masked(tail + i - 1)] = buf[Masked(tail + i - 1)]
<1> DEFINE x == SubSeq(s, 1, f)
           y == SubSeq(s, f + 1, n)
           one == Stored(buf, tail, x)
           two == Stored(one, 0, y)
<1>1. /\ tail \in Nat /\ tail < Size /\ Size \in Nat /\ Size > 1
      /\ Len(s) \in Nat /\ n \in Nat /\ n <= Len(s) /\ f \in Nat /\ f <= n
  BY SizeAssumption, LenProperties DEF Places
<1>2. /\ x \in Seq(bytes) /\ Len(x) = f
      /\ \A i \in 1 .. f : x[i] = s[i]
  <2>1. \A i \in 1 .. f : s[i] \in bytes
    BY <1>1, ElementOfSeq
  <2> QED BY <1>1, <2>1, SubSeqProperties
<1>3. /\ y \in Seq(bytes) /\ Len(y) = n - f
      /\ \A i \in 1 .. n - f : y[i] = s[f + i]
  <2>1. \A i \in f + 1 .. n : s[i] \in bytes
    BY <1>1, ElementOfSeq
  <2>2. \A i \in 1 .. n - f : f + 1 + i - 1 = f + i /\ n - (f + 1) + 1 = n - f
    BY <1>1
  <2> QED BY <1>1, <2>1, <2>2, SubSeqProperties
<1> HIDE DEF x, y
<1>4. /\ one \in [Places -> bytes]
      /\ \A p \in Places : one[p] = IF tail <= p /\ p < tail + f THEN x[p - tail + 1]
                                    ELSE buf[p]
  BY <1>1, <1>2, StoredAt
<1> HIDE DEF one
<1>5. /\ two \in [Places -> bytes]
      /\ \A p \in Places : two[p] = IF 0 <= p /\ p < 0 + Len(y) THEN y[p - 0 + 1]
                                    ELSE one[p]
  <2> DEFINE at == 0
  <2>1. at \in Nat
    OBVIOUS
  <2> HIDE DEF at
  <2>2. /\ Stored(one, at, y) \in [Places -> bytes]
        /\ \A p \in Places : Stored(one, at, y)[p] =
             IF at <= p /\ p < at + Len(y) THEN y[p - at + 1] ELSE one[p]
    <3>1. one \in [Places -> bytes] /\ y \in Seq(bytes)
      BY <1>3, <1>4
    <3> QED BY <2>1, <3>1, StoredAt
  <2> QED BY <2>2 DEF at
<1> HIDE DEF two
<1>6. \A p \in Places : p \in Nat /\ two[p] =
        IF p < n - f THEN s[f + p + 1]
        ELSE IF tail <= p /\ p < tail + f THEN s[p - tail + 1] ELSE buf[p]
  <2> TAKE p \in Places
  <2>1. p \in Nat /\ p < Size
    BY SizeAssumption DEF Places
  <2>2. CASE p < n - f
    <3>1. p - 0 + 1 \in 1 .. n - f /\ f + (p - 0 + 1) = f + p + 1
      BY <1>1, <2>1, <2>2
    <3>2. y[p - 0 + 1] = s[f + p + 1]
      BY <1>3, <3>1
    <3>3. two[p] = y[p - 0 + 1]
      BY <1>1, <1>3, <1>5, <2>1, <2>2
    <3> QED BY <2>1, <2>2, <3>2, <3>3
  <2>3. CASE ~(p < n - f) /\ tail <= p /\ p < tail + f
    <3>1. p - tail + 1 \in 1 .. f
      BY <1>1, <2>1, <2>3
    <3>2. two[p] = x[p - tail + 1]
      BY <1>1, <1>3, <1>4, <1>5, <2>1, <2>3
    <3> QED BY <1>2, <2>1, <2>3, <3>1, <3>2
  <2>4. CASE ~(p < n - f) /\ ~(tail <= p /\ p < tail + f)
    BY <1>1, <1>3, <1>4, <1>5, <2>1, <2>4
  <2> QED BY <2>2, <2>3, <2>4
<1>7. \A i \in 1 .. Size : /\ Masked(tail + i - 1) \in Places
                           /\ Masked(tail + i - 1) = IF tail + i - 1 < Size THEN tail + i - 1
                                                     ELSE tail + i - 1 - Size
  BY <1>1, MaskedRange, MaskedNear
<1>8. \A i \in 1 .. n : two[Masked(tail + i - 1)] = s[i]
  <2> TAKE i \in 1 .. n
  <2> DEFINE p == Masked(tail + i - 1)
  <2>1. /\ i \in 1 .. Size /\ p \in Places
        /\ p = IF tail + i - 1 < Size THEN tail + i - 1 ELSE tail + i - 1 - Size
    BY <1>1, <1>7
  <2> HIDE DEF p
  <2>2. CASE tail + i - 1 < Size
    <3>1. ~(p < n - f) /\ tail <= p /\ p < tail + f /\ p - tail + 1 = i
      BY <1>1, <2>1, <2>2
    <3>2. two[p] = s[p - tail + 1]
      BY <1>6, <2>1, <3>1
    <3> QED BY <3>1, <3>2 DEF p
  <2>3. CASE ~(tail + i - 1 < Size)
    <3>1. p < n - f /\ f + p + 1 = i
      BY <1>1, <2>1, <2>3
    <3>2. two[p] = s[f + p + 1]
      BY <1>6, <2>1, <3>1
    <3> QED BY <3>1, <3>2 DEF p
  <2> QED BY <2>2, <2>3
<1>9. \A i \in n + 1 .. Size : two[Masked(tail + i - 1)] = buf[Masked(tail + i - 1)]
  <2> TAKE i \in n + 1 .. Size
  <2> DEFINE p == Masked(tail + i - 1)
  <2>1. /\ i \in 1 .. Size /\ p \in Places
        /\ p = IF tail + i - 1 < Size THEN tail + i - 1 ELSE tail + i - 1 - Size
    BY <1>1, <1>7
  <2> HIDE DEF p
  <2>2. ~(p < n - f) /\ ~(tail <= p /\ p < tail + f)
    BY <1>1, <2>1
  <2> QED BY <1>6, <2>1, <2>2 DEF p
<1> QED BY <1>5, <1>8, <1>9 DEF Around, x, y, one, two

\* Where the bytes end before the array does, nothing goes around.
LEMMA AroundAll ==
  ASSUME NEW bytes, NEW buf \in [Places -> bytes], NEW tail \in Places, NEW s \in Seq(bytes)
  PROVE  Around(buf, tail, s, Len(s), Len(s)) = Stored(buf, tail, s)
<1>1. tail \in Nat /\ Len(s) \in Nat
  BY LenProperties, SizeAssumption DEF Places
<1>2. SubSeq(s, 1, Len(s)) = s /\ SubSeq(s, Len(s) + 1, Len(s)) = <<>>
  BY <1>1, SubSeqFull, SubSeqEmpty
<1> DEFINE one == Stored(buf, tail, s)
           at == 0
           none == <<>>
<1>3. one \in [Places -> bytes] /\ at \in Nat /\ none \in Seq(bytes) /\ Len(none) = 0
  BY <1>1, StoredAt, EmptySeq
<1> HIDE DEF one, at, none
<1>4. /\ Stored(one, at, none) \in [Places -> bytes]
      /\ \A p \in Places : Stored(one, at, none)[p] =
           IF at <= p /\ p < at + Len(none) THEN none[p - at + 1] ELSE one[p]
  <2>1. one \in [Places -> bytes] /\ at \in Nat /\ none \in Seq(bytes)
    BY <1>3
  <2> QED BY <2>1, StoredAt
<1>5. \A p \in Places : ~(at <= p /\ p < at + Len(none))
  BY <1>3, SizeAssumption DEF Places, at
<1>6. Stored(one, at, none) = one
  BY <1>3, <1>4, <1>5
<1> QED BY <1>2, <1>6 DEF Around, one, at, none

\* The bytes of circBufPut are in the places that follow the tail.
LEMMA FilledAround ==
  ASSUME NEW bytes, NEW b \in Buffers(bytes), NEW s \in Seq(bytes),
         Len(s) <= Space(b, b.head)
  PROVE  /\ Filled(b, b.head, s) \in [Places -> bytes]
         /\ \A i \in 1 .. Len(s) : Filled(b, b.head, s)[Masked(b.tail + i - 1)] = s[i]
         /\ \A i \in Len(s) + 1 .. Size :
              Filled(b, b.head, s)[Masked(b.tail + i - 1)] = b.buf[Masked(b.tail + i - 1)]
<1> DEFINE raw == RawSpace(b, b.head)
           f == IF raw >= Len(s) THEN Len(s) ELSE raw
<1>1. Indexed(b) /\ b.tail \in Places /\ b.buf \in [Places -> bytes]
  BY DEF Indexed, Buffers
<1>2. /\ Space(b, b.head) \in Nat /\ Space(b, b.head) < Size /\ Len(s) \in Nat
      /\ b.tail \in Nat /\ Size \in Nat
  BY <1>1, Counts, SizeAssumption, LenProperties DEF Places
<1>3. /\ raw \in Nat /\ raw <= Space(b, b.head) /\ b.tail + raw <= Size
      /\ raw < Space(b, b.head) => b.tail + raw = Size
  BY <1>1, <1>2, RawCounts
<1>4. Filled(b, b.head, s) = Around(b.buf, b.tail, s, f, Len(s))
  BY <1>1, AroundAll DEF Filled, Around
<1> HIDE DEF raw
<1>5. /\ f \in 0 .. Len(s) /\ b.tail + f <= Size /\ Len(s) <= Size
      /\ f < Len(s) => b.tail + f = Size
  BY <1>2, <1>3
<1> HIDE DEF f
<1> QED BY <1>1, <1>4, <1>5, StoredAround

LEMMA LoadedType ==
  ASSUME NEW bytes, NEW buf \in [Places -> bytes], NEW at \in Nat, NEW n \in Nat,
         at + n <= Size
  PROVE  /\ Loaded(buf, at, n) \in Seq(bytes) /\ Len(Loaded(buf, at, n)) = n
         /\ \A i \in 1 .. n : Loaded(buf, at, n)[i] = buf[at + i - 1]
<1>1. \A i \in 1 .. n : at + i - 1 \in Places
  BY SizeAssumption DEF Places
<1>2. \A i \in 1 .. n : buf[at + i - 1] \in bytes
  BY <1>1
<1> QED BY <1>2 DEF Loaded

\* Bytes that do not go around are the front of the buffer.
LEMMA LoadedFront ==
  ASSUME NEW bytes, NEW b \in Buffers(bytes), NEW n \in Nat, b.head + n <= Size
  PROVE  Loaded(b.buf, b.head, n) = Front(b, n)
<1>1. /\ b.head \in Nat /\ b.head < Size /\ Size \in Nat
      /\ b.buf \in [Places -> bytes]
  BY SizeAssumption DEF Buffers, Places
<1> DEFINE u == Loaded(b.buf, b.head, n)
           v == Front(b, n)
<1>2. /\ u \in Seq(bytes) /\ Len(u) = n
      /\ \A i \in 1 .. n : u[i] = b.buf[b.head + i - 1]
  <2> DEFINE buf == b.buf
             at == b.head
  <2>1. buf \in [Places -> bytes] /\ at \in Nat /\ at + n <= Size
    BY <1>1
  <2> HIDE DEF buf, at
  <2>2. /\ Loaded(buf, at, n) \in Seq(bytes) /\ Len(Loaded(buf, at, n)) = n
        /\ \A i \in 1 .. n : Loaded(buf, at, n)[i] = buf[at + i - 1]
    BY <2>1, LoadedType, ZenonT(40)
  <2> QED BY <2>2 DEF buf, at
<1>3. /\ v \in Seq(bytes) /\ Len(v) = n
      /\ \A i \in 1 .. n : v[i] = b.buf[Masked(b.head + i - 1)]
  BY FrontType
<1>4. \A i \in 1 .. n : Masked(b.head + i - 1) = b.head + i - 1
  BY <1>1, MaskedNear
<1> HIDE DEF u, v
<1>5. u = v
  BY <1>2, <1>3, <1>4, SeqEqual
<1> QED BY <1>5 DEF u, v

\* What circBufGet copies is the front of the buffer, if there is so much.
LEMMA TakenFront ==
  ASSUME NEW bytes, NEW b \in Buffers(bytes), NEW tail \in Places, NEW n \in Nat,
         n <= Count(b, tail)
  PROVE  Taken(b, tail, n) = Front(b, n)
<1>1. /\ b.head \in Nat /\ b.head < Size /\ Size \in Nat /\ b.head \in Places
      /\ tail \in Nat /\ tail < Size /\ b.buf \in [Places -> bytes]
  BY SizeAssumption DEF Buffers, Places
<1> DEFINE c == [b EXCEPT !.tail = tail]
           raw == RawCount(b, tail)
<1>2. /\ Indexed(c) /\ c.tail = tail /\ c.head = b.head
      /\ RawCount(c, c.tail) = raw /\ Count(c, c.tail) = Count(b, tail)
  BY DEF Indexed, Buffers, RawCount, Count
<1> HIDE DEF c, raw
<1>3. /\ raw \in Nat /\ raw <= Count(b, tail) /\ Count(b, tail) \in Nat
      /\ Count(b, tail) < Size /\ b.head + raw <= Size
      /\ raw < Count(b, tail) => b.head + raw = Size
  BY <1>1, <1>2, Counts, RawCounts
<1>4. CASE n <= raw
  <2>1. b.head + n <= Size
    BY <1>1, <1>3, <1>4
  <2> QED BY <1>4, <2>1, LoadedFront DEF Taken, raw
<1>5. CASE n > raw
  <2> DEFINE d == MoveHead(b, raw)
  <2>1. b.head + raw = Size /\ n - raw \in Nat /\ n - raw <= Size /\ raw + (n - raw) = n
    BY <1>1, <1>3, <1>5
  <2>2. Masked(b.head + raw) = 0 /\ 0 \in Places
    BY <1>1, <1>3, <2>1, MaskedNear DEF Places
  <2>3. d = [head |-> 0, tail |-> b.tail, buf |-> b.buf] /\ d \in Buffers(bytes)
    BY <2>2 DEF MoveHead, Buffers
  <2>4. Loaded(b.buf, b.head, raw) = Front(b, raw)
    BY <1>3, LoadedFront
  <2> HIDE DEF d
  <2>5. Loaded(b.buf, 0, n - raw) = Front(d, n - raw)
    <3>1. d.head + (n - raw) <= Size /\ d.head = 0 /\ d.buf = b.buf
      BY <2>1, <2>3
    <3>2. Loaded(d.buf, d.head, n - raw) = Front(d, n - raw)
      BY <2>1, <2>3, <3>1, LoadedFront
    <3> QED BY <3>1, <3>2
  <2>6. Front(b, n) = Front(b, raw) \o Front(d, n - raw)
    <3>1. raw + (n - raw) <= Size
      BY <1>1, <1>3, <2>1
    <3>2. Front(b, raw + (n - raw)) = Front(b, raw) \o Front(MoveHead(b, raw), n - raw)
      BY <1>3, <2>1, <3>1, FrontMoves
    <3> QED BY <2>1, <3>2 DEF d
  <2>7. ~(n <= raw)
    BY <1>3, <1>5
  <2> QED BY <2>4, <2>5, <2>6, <2>7 DEF Taken, raw
<1> QED BY <1>3, <1>4, <1>5

-----------------------------------------------------------------------------
(* What the interrupt moves.                                               *)

\* The room in the receive buffer, and how many bytes of a sequence go there.
Room == Space(rx, rx.head)
Fits(s) == IF Room <= Len(s) THEN Room ELSE Len(s)

\* rxIndication appends to the buffer as many of the bytes as there is room
\* for; in a full buffer it moves the tail back.
LEMMA RxStores ==
  ASSUME rx \in Buffers(RxByte), NEW s \in Seq(RxByte)
  PROVE  /\ RxIndication(s).rx \in Buffers(RxByte) /\ RxIndication(s).rx.head = rx.head
         /\ RxIndication(s).rest \in Seq(RxByte) /\ RxIndication(s).read \in BOOLEAN
         /\ Room = 0 => RxIndication(s).rest = s /\ RxIndication(s).read = TRUE
         /\ Room > 0 =>
              /\ RxIndication(s).read = (Len(s) > 0)
              /\ RxIndication(s).rest = SubSeq(s, Fits(s) + 1, Len(s))
              /\ Count(RxIndication(s).rx, RxIndication(s).rx.tail) = Count(rx, rx.tail) + Fits(s)
              /\ Contents(RxIndication(s).rx) = Contents(rx) \o SubSeq(s, 1, Fits(s))
<1> DEFINE raw == RawSpace(rx, rx.head)
           first == DeviceRead(raw, Len(s))
           second == IF first = raw /\ Room > raw
                     THEN DeviceRead(Room - raw, Len(s) - first) ELSE 0
           read == first + second
           stored == Around(rx.buf, rx.tail, s, first, read)
           ind == RxIndication(s)
           k == Fits(s)
<1>1. /\ ind.rx = MoveTail([rx EXCEPT !.buf = stored], read)
      /\ ind.rest = SubSeq(s, Max({read, 0}) + 1, Len(s))
      /\ ind.read = (read # 0)
  BY DEF RxIndication, Around, Room
<1>2. /\ rx.head \in Places /\ rx.tail \in Places /\ rx.buf \in [Places -> RxByte]
      /\ Indexed(rx)
  BY DEF Buffers, Indexed
<1>3. /\ Len(s) \in Nat /\ Size \in Nat /\ Size > 1 /\ rx.tail \in Nat /\ rx.tail < Size
      /\ rx.head \in Nat /\ Room \in Nat /\ Room < Size
  BY <1>2, Counts, LenProperties, SizeAssumption DEF Places, Room
<1>4. /\ raw \in Nat /\ raw <= Room /\ (raw = 0 <=> Room = 0)
      /\ rx.tail + raw <= Size /\ (raw < Room => rx.tail + raw = Size)
  BY <1>2, <1>3, RawCounts DEF Room
<1>7. k = IF Room <= Len(s) THEN Room ELSE Len(s)
  BY DEF Fits
<1> HIDE DEF raw, ind, k
<1>5. CASE Room = 0
  <2>1. first = -1 /\ second = 0 /\ read = -1
    BY <1>4, <1>5 DEF DeviceRead
  <2>2. Max({read, 0}) + 1 = 1
    BY <2>1, MaxOfTwo
  <2>3. ind.rest = s
    BY <1>1, <2>2, SubSeqFull
  <2> DEFINE none == <<>>
             one == Stored(rx.buf, rx.tail, none)
  <2>4. stored = Stored(one, 0, none)
    <3>1. SubSeq(s, 1, -1) = <<>> /\ SubSeq(s, 0, -1) = <<>>
      BY SubSeqEmpty
    <3>2. -1 + 1 = 0
      OBVIOUS
    <3> QED BY <2>1, <3>1, <3>2 DEF Around
  <2>5. none \in Seq(RxByte)
    BY EmptySeq
  <2> HIDE DEF none
  <2>6. one \in [Places -> RxByte]
    BY <1>2, <1>3, <2>5, StoredAt
  <2> HIDE DEF one
  <2>7. Stored(one, 0, none) \in [Places -> RxByte]
    <3>1. 0 \in Nat
      OBVIOUS
    <3> QED BY <2>5, <2>6, <3>1, StoredAt
  <2> HIDE DEF stored
  <2>8. Masked(rx.tail + read) \in Places
    BY <1>3, <2>1, MaskedRange
  <2>9. /\ ind.rx \in Buffers(RxByte) /\ ind.rx.head = rx.head
    BY <1>1, <1>2, <2>4, <2>7, <2>8 DEF MoveTail, Buffers
  <2>10. ind.read = TRUE
    <3>1. read # 0
      BY <2>1
    <3> HIDE DEF read
    <3> QED BY <1>1, <3>1, Zenon
  <2>11. ~(Room > 0)
    BY <1>5
  <2> QED BY <2>3, <2>9, <2>10, <2>11 DEF ind
<1>6. CASE Room > 0
  <2>1. raw > 0 /\ first = IF raw <= Len(s) THEN raw ELSE Len(s)
    BY <1>3, <1>4, <1>6, MinOfTwo DEF DeviceRead
  <2> HIDE DEF first
  <2>2. second = IF raw <= Len(s) THEN k - raw ELSE 0
    <3>1. CASE raw < Room /\ raw <= Len(s)
      <4>1. first = raw /\ Room - raw > 0
        BY <1>3, <1>4, <2>1, <3>1
      <4>2. second = Min({Room - raw, Len(s) - raw})
        BY <1>3, <1>4, <3>1, <4>1 DEF DeviceRead
      <4>3. Min({Room - raw, Len(s) - raw}) =
              IF Room - raw <= Len(s) - raw THEN Room - raw ELSE Len(s) - raw
        BY <1>3, <1>4, MinOfTwo
      <4> HIDE DEF second
      <4> QED BY <1>3, <1>4, <1>7, <3>1, <4>2, <4>3
    <3>2. CASE ~(raw < Room /\ raw <= Len(s))
      BY <1>3, <1>4, <1>7, <2>1, <3>2
    <3> QED BY <3>1, <3>2
  <2> HIDE DEF second
  <2>3. /\ read = k /\ first \in 0 .. k /\ k \in 0 .. Len(s) /\ k <= Room /\ k <= Size
        /\ rx.tail + first <= Size /\ (first < k => rx.tail + first = Size)
        /\ k \in Nat /\ (k = 0 <=> Len(s) = 0)
    BY <1>3, <1>4, <1>6, <1>7, <2>1, <2>2
  <2> HIDE DEF read
  <2>4. /\ stored \in [Places -> RxByte]
        /\ \A i \in 1 .. k : stored[Masked(rx.tail + i - 1)] = s[i]
        /\ \A i \in k + 1 .. Size :
             stored[Masked(rx.tail + i - 1)] = rx.buf[Masked(rx.tail + i - 1)]
    <3>1. stored = Around(rx.buf, rx.tail, s, first, k)
      BY <2>3
    <3> HIDE DEF stored
    <3> QED BY <1>2, <2>3, <3>1, StoredAround
  <2> HIDE DEF stored
  <2>5. Masked(rx.tail + k) \in Places
    BY <1>3, <2>3, MaskedRange
  <2>6. /\ ind.rx = [head |-> rx.head, tail |-> Masked(rx.tail + k), buf |-> stored]
        /\ ind.rx \in Buffers(RxByte)
    BY <1>1, <1>2, <2>3, <2>4, <2>5 DEF MoveTail, Buffers
  <2>7. /\ SubSeq(s, 1, k) \in Seq(RxByte) /\ Len(SubSeq(s, 1, k)) = k
        /\ \A i \in 1 .. k : SubSeq(s, 1, k)[i] = s[i]
    <3>1. \A i \in 1 .. k : s[i] \in RxByte
      BY <1>3, <2>3, ElementOfSeq
    <3> QED BY <2>3, <3>1, SubSeqProperties
  <2>8. /\ Count(ind.rx, ind.rx.tail) = Count(rx, rx.tail) + k
        /\ Contents(ind.rx) = Contents(rx) \o SubSeq(s, 1, k)
    <3> DEFINE b == ind.rx
               u == SubSeq(s, 1, k)
    <3>1. /\ b \in Buffers(RxByte) /\ b.head = rx.head /\ b.tail = Masked(rx.tail + Len(u))
          /\ u \in Seq(RxByte) /\ Len(u) <= Space(rx, rx.head)
          /\ \A i \in 1 .. Len(u) : b.buf[Masked(rx.tail + i - 1)] = u[i]
          /\ \A i \in Len(u) + 1 .. Size :
               b.buf[Masked(rx.tail + i - 1)] = rx.buf[Masked(rx.tail + i - 1)]
      <4> HIDE DEF u
      <4>1. b.head = rx.head /\ b.tail = Masked(rx.tail + k) /\ b.buf = stored
        BY <2>6
      <4> HIDE DEF b
      <4> QED BY <2>3, <2>4, <2>6, <2>7, <4>1 DEF u, b, Room
    <3>2. Len(u) = k
      BY <2>7
    <3> HIDE DEF b, u
    <3>3. /\ Count(b, b.tail) = Count(rx, rx.tail) + Len(u)
          /\ Contents(b) = Contents(rx) \o u
      BY <3>1, TailMoves
    <3> QED BY <3>2, <3>3 DEF b, u
  <2>9. Max({read, 0}) = k
    BY <2>3, MaxOfTwo
  <2>10. ind.rest = SubSeq(s, k + 1, Len(s)) /\ ind.rest \in Seq(RxByte)
    <3>1. \A i \in k + 1 .. Len(s) : s[i] \in RxByte
      BY <1>3, <2>3, ElementOfSeq
    <3>2. SubSeq(s, k + 1, Len(s)) \in Seq(RxByte)
      BY <1>3, <2>3, <3>1, SubSeqProperties
    <3> QED BY <1>1, <2>9, <3>2
  <2>11. ind.read = (Len(s) > 0)
    <3>1. read # 0 <=> Len(s) > 0
      BY <1>3, <2>3
    <3>2. (read # 0) = (Len(s) > 0)
      BY <3>1
    <3> QED BY <1>1, <3>2
  <2>12. ~(Room = 0)
    BY <1>6
  <2>13. /\ ind.rx \in Buffers(RxByte) /\ ind.rx.head = rx.head
         /\ ind.rest \in Seq(RxByte) /\ ind.read \in BOOLEAN
    BY <2>6, <2>10, <2>11
  <2> QED BY <2>8, <2>10, <2>11, <2>12, <2>13, Zenon DEF ind, k
<1>8. Room = 0 \/ Room > 0
  BY <1>3
<1> QED BY <1>5, <1>6, <1>8

\* The driver takes some of the bytes it is given, all if it still has room.
LEMMA DeviceTakes ==
  ASSUME NEW size \in Nat, NEW empty \in BOOLEAN, NEW w \in DeviceWrite(size, empty)
  PROVE  w.n \in 0 .. size /\ w.thre \in BOOLEAN /\ (w.thre => w.n = size)
<1>1. CASE empty /\ size > 0
  BY <1>1 DEF DeviceWrite
<1>2. CASE ~(empty /\ size > 0)
  <2>1. w = [n |-> 0, thre |-> empty]
    BY <1>2 DEF DeviceWrite
  <2> QED BY <1>2, <2>1
<1> QED BY <1>1, <1>2

\* txConfirmation takes bytes off the front of the buffer, in one or two parts;
\* the register stays empty only when all of them have gone.
LEMMA TxTakes ==
  ASSUME tx \in Buffers(TxByte), thre \in BOOLEAN, NEW c \in TxConfirmation
  PROVE  /\ c.thre \in BOOLEAN
         /\ \E k \in 0 .. Count(tx, tx.tail) :
              /\ c.tx = MoveHead(tx, k) /\ c.sent = Front(tx, k)
              /\ c.thre => k = Count(tx, tx.tail)
<1> DEFINE raw == RawCount(tx, tx.tail)
           count == Count(tx, tx.tail)
<1>1. /\ tx.head \in Nat /\ tx.tail \in Nat /\ tx.head < Size /\ tx.tail < Size
      /\ Size \in Nat /\ Size > 1 /\ tx.head \in Places /\ tx.tail \in Places
      /\ Indexed(tx)
  BY SizeAssumption DEF Buffers, Places, Indexed
<1>2. /\ count \in Nat /\ count < Size /\ raw \in Nat /\ raw <= count
      /\ tx.head + raw <= Size /\ (raw < count => tx.head + raw = Size)
      /\ (raw = 0 <=> count = 0)
  BY <1>1, Counts, RawCounts
<1>3. PICK w \in DeviceWrite(raw, thre) :
        c \in IF w.n = raw /\ count > raw
              THEN {[tx |-> MoveHead(MoveHead(tx, w.n), v.n), thre |-> v.thre,
                     sent |-> Loaded(tx.buf, tx.head, w.n)
                              \o Loaded(MoveHead(tx, w.n).buf, MoveHead(tx, w.n).head, v.n)] :
                      v \in DeviceWrite(RawCount(MoveHead(tx, w.n), tx.tail), w.thre)}
              ELSE {[tx |-> MoveHead(tx, w.n), thre |-> w.thre,
                     sent |-> Loaded(tx.buf, tx.head, w.n)]}
  BY DEF TxConfirmation
<1> HIDE DEF raw, count
<1>4. w.n \in 0 .. raw /\ w.thre \in BOOLEAN /\ (w.thre => w.n = raw)
  BY <1>2, DeviceTakes
<1>5. Loaded(tx.buf, tx.head, w.n) = Front(tx, w.n)
  <2>1. w.n \in Nat /\ tx.head + w.n <= Size
    BY <1>1, <1>2, <1>4
  <2> QED BY <2>1, LoadedFront
<1>6. CASE w.n = raw /\ count > raw
  <2> DEFINE b == MoveHead(tx, raw)
  <2>1. PICK v \in DeviceWrite(RawCount(b, tx.tail), w.thre) :
          c = [tx |-> MoveHead(b, v.n), thre |-> v.thre,
               sent |-> Loaded(tx.buf, tx.head, raw) \o Loaded(b.buf, b.head, v.n)]
    BY <1>3, <1>6
  <2>2. tx.head + raw = Size /\ raw \in 0 .. count
    BY <1>2, <1>6
  <2>3. Masked(tx.head + raw) = 0
    BY <1>1, <1>2, <2>2, MaskedNear
  <2>4. b = [head |-> 0, tail |-> tx.tail, buf |-> tx.buf] /\ b \in Buffers(TxByte)
    BY <1>1, <2>3 DEF MoveHead, Buffers, Places
  <2>5. Count(b, tx.tail) = count - raw
    BY <2>2, HeadMoves DEF count
  <2> HIDE DEF b
  <2>6. RawCount(b, tx.tail) = tx.tail /\ Count(b, tx.tail) = tx.tail
    <3>1. RawCount(b, tx.tail) = tx.tail
      BY <1>1, <2>4 DEF RawCount
    <3>2. b.head <= b.tail /\ b.tail - b.head = tx.tail /\ Indexed(b) /\ b.tail = tx.tail
      BY <1>1, <2>4 DEF Indexed, Places
    <3> QED BY <3>1, <3>2, Counts
  <2>7. v.n \in 0 .. tx.tail /\ v.thre \in BOOLEAN /\ (v.thre => v.n = tx.tail)
    BY <1>1, <1>4, <2>6, DeviceTakes
  <2> DEFINE k == raw + v.n
  <2>8. /\ k \in 0 .. count /\ (v.thre => k = count) /\ v.n \in Nat
        /\ raw + v.n <= Size /\ b.head + v.n <= Size
    BY <1>1, <1>2, <2>2, <2>4, <2>5, <2>6, <2>7
  <2>9. MoveHead(b, v.n) = MoveHead(tx, k)
    <3>1. Masked(Masked(tx.head + raw) + v.n) = Masked(tx.head + raw + v.n)
      BY <1>1, <1>2, <2>8, MaskedTwice
    <3>2. tx.head + raw + v.n = tx.head + (raw + v.n)
      BY <1>1, <1>2, <2>8
    <3>3. tx = [head |-> tx.head, tail |-> tx.tail, buf |-> tx.buf]
      BY DEF Buffers
    <3> QED BY <2>3, <2>4, <3>1, <3>2, <3>3 DEF MoveHead
  <2>10. Loaded(b.buf, b.head, v.n) = Front(b, v.n)
    BY <2>4, <2>8, LoadedFront
  <2>11. Front(tx, k) = Front(tx, raw) \o Front(b, v.n)
    BY <1>2, <2>8, FrontMoves DEF b
  <2>12. c.tx = MoveHead(tx, k) /\ c.sent = Front(tx, k) /\ c.thre = v.thre
    BY <1>5, <1>6, <2>1, <2>9, <2>10, <2>11
  <2> HIDE DEF k
  <2> QED BY <2>7, <2>8, <2>12 DEF count
<1>7. CASE ~(w.n = raw /\ count > raw)
  <2>1. c = [tx |-> MoveHead(tx, w.n), thre |-> w.thre,
             sent |-> Loaded(tx.buf, tx.head, w.n)]
    BY <1>3, <1>7
  <2>2. w.n \in 0 .. count /\ (w.thre => w.n = count)
    BY <1>2, <1>4, <1>7
  <2> QED BY <1>4, <1>5, <2>1, <2>2 DEF count
<1> QED BY <1>6, <1>7

\* What circBufGet copies are bytes of the array, however little is in it.
LEMMA TakenType ==
  ASSUME NEW bytes, NEW b \in Buffers(bytes), NEW tail \in Places, NEW n \in Nat, n < Size
  PROVE  Taken(b, tail, n) \in Seq(bytes)
<1> DEFINE raw == RawCount(b, tail)
<1>1. /\ b.head \in Nat /\ b.head < Size /\ tail \in Nat /\ tail < Size /\ Size \in Nat
      /\ b.buf \in [Places -> bytes]
  BY SizeAssumption DEF Buffers, Places
<1>2. raw \in Nat /\ b.head + raw <= Size
  BY <1>1 DEF RawCount
<1> HIDE DEF raw
<1>3. CASE n <= raw
  <2>1. b.head + n <= Size
    BY <1>1, <1>2, <1>3
  <2>2. Loaded(b.buf, b.head, n) \in Seq(bytes)
    BY <1>1, <2>1, LoadedType
  <2> QED BY <1>3, <2>2 DEF Taken, raw
<1>4. CASE n > raw
  <2>1. n - raw \in Nat /\ 0 + (n - raw) <= Size /\ 0 \in Nat /\ ~(n <= raw)
    BY <1>1, <1>2, <1>4
  <2>2. Loaded(b.buf, b.head, raw) \in Seq(bytes)
    BY <1>1, <1>2, LoadedType
  <2>3. Loaded(b.buf, 0, n - raw) \in Seq(bytes)
    BY <1>1, <2>1, LoadedType
  <2>4. Loaded(b.buf, b.head, raw) \o Loaded(b.buf, 0, n - raw) \in Seq(bytes)
    BY <2>2, <2>3, ConcatProperties
  <2> QED BY <2>1, <2>4 DEF Taken, raw
<1> QED BY <1>2, <1>3, <1>4

-----------------------------------------------------------------------------
(* Types.                                                                  *)

Calls == [fct : {"none", "read", "write"}, left : Nat, mark : Nat, data : Seq(RxByte)]

\* The variables that the tasks and the handler share keep their types.
Device ==
  /\ rx \in Buffers(RxByte) /\ tx \in Buffers(TxByte)
  /\ blocked \in [taskID : Tasks \cup {INVALID_TASK}, fct : {"none", "read", "write"}]
  /\ thre \in BOOLEAN /\ rxInt \in BOOLEAN /\ txInt \in BOOLEAN
  /\ event \in [Tasks -> BOOLEAN]
  /\ hwbuf \in Seq(RxByte) /\ rxFifo \in Seq(RxByte)
  /\ arrived \in RxByte /\ written \in TxByte

\* A call is where its function may be; what it copies out of the buffer is
\* less than the array, and what it puts in is not more than is left.
Suited(step, c) ==
  /\ step \in {"get", "head"} => c.fct = "read"
  /\ step \in {"space", "tail", "start"} => c.fct = "write"
  /\ step \in {"copy", "off", "who", "fct", "on", "wait"} => c.fct \in {"read", "write"}
  /\ step = "copy" /\ c.fct = "read" => c.left < Size /\ c.mark \in Places
  /\ step \in {"copy", "tail"} /\ c.fct = "write" => c.mark <= c.left

Callers ==
  /\ pc \in [Tasks -> Steps] /\ call \in [Tasks -> Calls]
  /\ \A t \in Tasks : Suited(pc[t], call[t])

Typed == Device /\ Callers

LEMMA TypedTypes == Typed => SerialTypeOK
  BY DEF Typed, Device, Callers, SerialTypeOK, Calls

LEMMA Numbers ==
  /\ Size \in Nat /\ Size > 1 /\ 0 \in Places /\ \A p \in Places : p \in Nat /\ p < Size
  /\ RxNumbers \in Nat /\ RxNumbers > 1 /\ TxNumbers \in Nat /\ TxNumbers > 1
  /\ 0 \in RxByte /\ 0 \in TxByte
  /\ INVALID_TASK \notin Tasks /\ Readers \subseteq Tasks /\ Writers \subseteq Tasks
  BY SizeAssumption, SerialAssumption DEF Places, RxByte, TxByte

LEMMA InitTyped == Init => Typed
<1> SUFFICES ASSUME Init PROVE Typed
  OBVIOUS
<1>1. rx \in Buffers(RxByte) /\ tx \in Buffers(TxByte)
  BY Numbers DEF Init, CircBufInit, Buffers
<1>2. NoCall \in Calls /\ Nobody.fct = "none" /\ Nobody.taskID = INVALID_TASK
  BY EmptySeq DEF NoCall, Nobody, Calls
<1>3. blocked \in [taskID : Tasks \cup {INVALID_TASK}, fct : {"none", "read", "write"}]
  BY DEF Init, Nobody
<1>4. Device
  BY <1>1, <1>3, Numbers, EmptySeq DEF Init, Device
<1>5. Callers
  BY <1>2 DEF Init, Callers, Suited, Steps, NoCall
<1> QED BY <1>4, <1>5 DEF Typed

\* A step of one task, to a place and with a call that go together.
LEMMA CallMoves ==
  ASSUME Callers, NEW t \in Tasks, NEW step \in Steps, NEW c \in Calls, Suited(step, c),
         pc' = [pc EXCEPT ![t] = step], call' = [call EXCEPT ![t] = c]
  PROVE  Callers'
<1>1. pc' \in [Tasks -> Steps] /\ call' \in [Tasks -> Calls]
  BY DEF Callers
<1>2. \A u \in Tasks : Suited(pc'[u], call'[u])
  <2> TAKE u \in Tasks
  <2>1. CASE u = t
    BY <2>1 DEF Callers
  <2>2. CASE u # t
    BY <2>2 DEF Callers
  <2> QED BY <2>1, <2>2
<1> QED BY <1>1, <1>2 DEF Callers

LEMMA StillBlockedTyped ==
  ASSUME Device, NEW f, NEW b \in [taskID : Tasks \cup {INVALID_TASK},
                                   fct : {"none", "read", "write"}]
  PROVE  StillBlocked(b, f) \in [taskID : Tasks \cup {INVALID_TASK},
                                 fct : {"none", "read", "write"}]
  BY DEF StillBlocked, Nobody

LEMMA SendsTyped ==
  ASSUME Device, NEW c \in TxConfirmation, Sends(c)
  PROVE  tx' \in Buffers(TxByte) /\ c.thre \in BOOLEAN
<1>1. tx \in Buffers(TxByte) /\ thre \in BOOLEAN
  BY DEF Device
<1>2. /\ c.thre \in BOOLEAN
      /\ \E k \in 0 .. Count(tx, tx.tail) : c.tx = MoveHead(tx, k)
  BY <1>1, TxTakes
<1> QED BY <1>1, <1>2, HeadMoves DEF Sends

LEMMA HandlerTyped ==
  ASSUME Typed, Handler
  PROVE  Typed'
<1> DEFINE blocks == [taskID : Tasks \cup {INVALID_TASK}, fct : {"none", "read", "write"}]
<1>1. Device /\ Callers
  BY DEF Typed
<1>2. rx' \in Buffers(RxByte) /\ hwbuf' \in Seq(RxByte) /\ rxFifo' \in Seq(RxByte)
  <2>1. CASE rxFifo = <<>>
    BY <1>1, <2>1 DEF Handler, Device
  <2>2. CASE rxFifo # <<>>
    <3> DEFINE s == hwbuf \o rxFifo
    <3>1. s \in Seq(RxByte)
      BY <1>1, ConcatProperties DEF Device
    <3>2. rx \in Buffers(RxByte)
      BY <1>1 DEF Device
    <3>3. Receives(RxIndication(s))
      BY <2>2 DEF Handler
    <3> HIDE DEF s
    <3>4. RxIndication(s).rx \in Buffers(RxByte) /\ RxIndication(s).rest \in Seq(RxByte)
      BY <3>1, <3>2, RxStores
    <3> QED BY <3>3, <3>4, EmptySeq DEF Receives
  <2> QED BY <2>1, <2>2
<1>3. tx' \in Buffers(TxByte) /\ thre' \in BOOLEAN /\ txInt' \in BOOLEAN
  <2>1. CASE thre /\ txInt
    <3>1. PICK c \in TxConfirmation, late \in (IF HandlerInTime THEN {FALSE} ELSE BOOLEAN) :
            Sends(c) /\ thre' = (c.thre \/ late) /\ txInt' = SwitchesOff(thre')
      BY <2>1 DEF Handler
    <3>2. tx' \in Buffers(TxByte)
      BY <1>1, <3>1, SendsTyped
    <3>3. thre' \in BOOLEAN /\ txInt' \in BOOLEAN
      BY <1>1, <3>1 DEF SwitchesOff, Device
    <3> QED BY <3>2, <3>3
  <2>2. CASE ~(thre /\ txInt)
    BY <1>1, <2>2 DEF Handler, Device
  <2> QED BY <2>1, <2>2
<1>4. blocked' \in blocks
  <2>1. blocked \in blocks
    BY <1>1 DEF Device
  <2> DEFINE b == IF ReceivedSome THEN StillBlocked(blocked, "read") ELSE blocked
  <2>2. b \in blocks
    BY <1>1, <2>1, StillBlockedTyped
  <2>3. blocked' = IF thre /\ txInt /\ ~Empty(tx) THEN StillBlocked(b, "write") ELSE b
    BY DEF Handler
  <2> HIDE DEF b
  <2> QED BY <1>1, <2>2, <2>3, StillBlockedTyped
<1>5. event' \in [Tasks -> BOOLEAN]
  BY <1>1 DEF Handler, SetEvents, Device
<1>6. UNCHANGED <<rxInt, pc, call, arrived, written>>
  BY DEF Handler
<1>7. Device'
  BY <1>1, <1>2, <1>3, <1>4, <1>5, <1>6 DEF Device
<1>8. Callers'
  BY <1>1, <1>6 DEF Callers
<1> QED BY <1>7, <1>8 DEF Typed

\* What a step of a task leaves alone keeps its type.
LEMMA QuietTyped ==
  ASSUME Device, Quiet, UNCHANGED <<buffers, blocked, uart, event>>
  PROVE  Device'
  BY DEF Device, Quiet, buffers, uart

\* The steps of read and of CLEAR_RX_BUFFER.
LEMMA ReadTyped ==
  ASSUME Typed, NEW t \in Tasks,
         Read(t) \/ GetTail(t) \/ GetCopy(t) \/ GetHead(t) \/ ClearHead(t) \/ ClearTail(t)
  PROVE  Typed'
<1>1. /\ Device /\ Callers /\ rx \in Buffers(RxByte)
      /\ call[t] \in Calls /\ Suited(pc[t], call[t]) /\ pc[t] \in Steps
      /\ call \in [Tasks -> Calls]
  BY DEF Typed, Callers, Device
<1>2. CASE Read(t)
  <2>1. PICK n \in ReadSizes : call' = [call EXCEPT ![t].fct = "read", ![t].left = n]
    BY <1>2 DEF Read
  <2> DEFINE c == [call[t] EXCEPT !.fct = "read", !.left = n]
             step == IF Empty(rx) THEN "off" ELSE "get"
  <2>2. c \in Calls /\ c.fct = "read"
    BY <1>1, SerialAssumption DEF Calls
  <2>3. call' = [call EXCEPT ![t] = c] /\ pc' = [pc EXCEPT ![t] = step] /\ step \in Steps
    BY <1>1, <1>2, <2>1 DEF Read, Goes, Steps
  <2>4. Suited(step, c)
    BY <2>2 DEF Suited
  <2> HIDE DEF c, step
  <2>5. Callers'
    BY <1>1, <2>2, <2>3, <2>4, CallMoves
  <2>6. Device'
    BY <1>1, <1>2, QuietTyped DEF Read
  <2> QED BY <2>5, <2>6 DEF Typed
<1>3. CASE GetTail(t)
  <2> DEFINE m == Min({call[t].left, Count(rx, rx.tail)})
             c == [call[t] EXCEPT !.mark = rx.tail, !.left = m]
             step == "copy"
  <2>1. m \in Nat /\ m < Size
    <3>1. Indexed(rx) /\ call[t].left \in Nat
      BY <1>1 DEF Buffers, Indexed, Calls
    <3>2. Count(rx, rx.tail) \in Nat /\ Count(rx, rx.tail) < Size
      BY <3>1, Counts, Numbers
    <3> QED BY <3>1, <3>2, MinOfTwo, Numbers
  <2>2. rx.tail \in Places /\ rx.tail \in Nat /\ call[t].fct = "read"
    BY <1>1, <1>3, Numbers DEF Buffers, GetTail, At, Suited
  <2> HIDE DEF m
  <2>3. c \in Calls /\ c.fct = "read" /\ c.left = m /\ c.mark = rx.tail
    BY <1>1, <2>1, <2>2 DEF Calls
  <2>4. call' = [call EXCEPT ![t] = c] /\ pc' = [pc EXCEPT ![t] = step] /\ step \in Steps
    BY <1>1, <1>3 DEF GetTail, Goes, Steps, m
  <2>5. Suited(step, c)
    BY <2>1, <2>2, <2>3 DEF Suited
  <2> HIDE DEF c, step
  <2>6. Callers'
    BY <1>1, <2>3, <2>4, <2>5, CallMoves
  <2>7. Device'
    BY <1>1, <1>3, QuietTyped DEF GetTail
  <2> QED BY <2>6, <2>7 DEF Typed
<1>4. CASE GetCopy(t)
  <2> DEFINE d == Taken(rx, call[t].mark, call[t].left)
             c == [call[t] EXCEPT !.data = d]
             step == "head"
  <2>1. /\ call[t].fct = "read" /\ call[t].mark \in Places
        /\ call[t].left \in Nat /\ call[t].left < Size
    BY <1>1, <1>4 DEF GetCopy, At, Suited, Calls
  <2>2. d \in Seq(RxByte)
    BY <1>1, <2>1, TakenType
  <2> HIDE DEF d
  <2>3. c \in Calls /\ c.fct = "read"
    BY <1>1, <2>1, <2>2 DEF Calls
  <2>4. call' = [call EXCEPT ![t] = c] /\ pc' = [pc EXCEPT ![t] = step] /\ step \in Steps
    BY <1>1, <1>4 DEF GetCopy, Goes, Steps, d
  <2>5. Suited(step, c)
    BY <2>3 DEF Suited
  <2> HIDE DEF c, step
  <2>6. Callers'
    BY <1>1, <2>3, <2>4, <2>5, CallMoves
  <2>7. Device'
    BY <1>1, <1>4, QuietTyped DEF GetCopy
  <2> QED BY <2>6, <2>7 DEF Typed
<1>5. CASE GetHead(t)
  <2> DEFINE step == "idle"
             c == NoCall
  <2>1. call[t].left \in Nat /\ rx.head \in Nat
    BY <1>1, Numbers DEF Calls, Buffers
  <2>2. Masked(rx.head + call[t].left) \in Places
    BY <2>1, MaskedRange
  <2>3. rx' \in Buffers(RxByte)
    BY <1>1, <1>5, <2>2 DEF GetHead, MoveHead, Buffers
  <2>4. Device'
    BY <1>1, <1>5, <2>3 DEF GetHead, Device, uart
  <2>5. c \in Calls /\ Suited(step, c) /\ step \in Steps
    BY EmptySeq DEF Calls, Suited, NoCall, Steps
  <2>6. call' = [call EXCEPT ![t] = c] /\ pc' = [pc EXCEPT ![t] = step]
    BY <1>5 DEF GetHead, Returns, Goes
  <2> HIDE DEF c, step
  <2>7. Callers'
    BY <1>1, <2>5, <2>6, CallMoves
  <2> QED BY <2>4, <2>7 DEF Typed
<1>6. CASE ClearHead(t) \/ ClearTail(t)
  <2> DEFINE step == pc'[t]
             c == call[t]
  <2>1. rx' \in Buffers(RxByte)
    BY <1>1, <1>6, Numbers DEF ClearHead, ClearTail, Buffers
  <2>2. Device'
    BY <1>1, <1>6, <2>1 DEF ClearHead, ClearTail, Device, uart, Quiet
  <2>3. step \in {"idle", "clear"} /\ pc' = [pc EXCEPT ![t] = step]
    BY <1>1, <1>6 DEF ClearHead, ClearTail, Goes, Callers
  <2>4. c \in Calls /\ Suited(step, c) /\ step \in Steps
    BY <1>1, <2>3 DEF Suited, Steps
  <2>5. call' = [call EXCEPT ![t] = c]
    BY <1>1, <1>6 DEF ClearHead, ClearTail
  <2> HIDE DEF c, step
  <2>6. Callers'
    BY <1>1, <2>3, <2>4, <2>5, CallMoves
  <2> QED BY <2>2, <2>6 DEF Typed
<1> QED BY <1>2, <1>3, <1>4, <1>5, <1>6

LEMMA NextBytesTyped ==
  ASSUME NEW n \in Nat, written \in TxByte
  PROVE  NextBytes(n) \in Seq(TxByte) /\ Len(NextBytes(n)) = n
<1>1. \A i \in 1 .. n : (written + i) % TxNumbers \in TxByte
  BY Numbers DEF TxByte
<1> QED BY <1>1 DEF NextBytes

\* The steps of write.
LEMMA WriteTyped ==
  ASSUME Typed, NEW t \in Tasks,
         Write(t) \/ WriteSpace(t) \/ PutCopy(t) \/ PutTail(t) \/ StartTx(t)
  PROVE  Typed'
<1>1. /\ Device /\ Callers /\ tx \in Buffers(TxByte) /\ written \in TxByte
      /\ call[t] \in Calls /\ Suited(pc[t], call[t]) /\ pc[t] \in Steps
      /\ call \in [Tasks -> Calls] /\ thre \in BOOLEAN
  BY DEF Typed, Callers, Device
<1>2. CASE Write(t)
  <2>1. PICK n \in WriteSizes : call' = [call EXCEPT ![t].fct = "write", ![t].left = n]
    BY <1>2 DEF Write
  <2> DEFINE c == [call[t] EXCEPT !.fct = "write", !.left = n]
             step == "space"
  <2>2. c \in Calls /\ c.fct = "write"
    BY <1>1, SerialAssumption DEF Calls
  <2>3. call' = [call EXCEPT ![t] = c] /\ pc' = [pc EXCEPT ![t] = step] /\ step \in Steps
    BY <1>1, <1>2, <2>1 DEF Write, Goes, Steps
  <2>4. Suited(step, c)
    BY <2>2 DEF Suited
  <2> HIDE DEF c, step
  <2>5. Callers'
    BY <1>1, <2>2, <2>3, <2>4, CallMoves
  <2>6. Device'
    BY <1>1, <1>2, QuietTyped DEF Write
  <2> QED BY <2>5, <2>6 DEF Typed
<1>3. CASE WriteSpace(t)
  <2> DEFINE m == Min({call[t].left, Space(tx, tx.head)})
             c == [call[t] EXCEPT !.mark = m]
             step == "copy"
  <2>1. m \in Nat /\ m <= call[t].left
    <3>1. Indexed(tx) /\ call[t].left \in Nat
      BY <1>1 DEF Buffers, Indexed, Calls
    <3>2. Space(tx, tx.head) \in Nat
      BY <3>1, Counts, Numbers
    <3> QED BY <3>1, <3>2, MinOfTwo
  <2>2. call[t].fct = "write"
    BY <1>1, <1>3 DEF WriteSpace, At, Suited
  <2> HIDE DEF m
  <2>3. c \in Calls /\ c.fct = "write" /\ c.left = call[t].left /\ c.mark = m
    BY <1>1, <2>1, <2>2 DEF Calls
  <2>4. call' = [call EXCEPT ![t] = c] /\ pc' = [pc EXCEPT ![t] = step] /\ step \in Steps
    BY <1>1, <1>3 DEF WriteSpace, Goes, Steps, m
  <2>5. Suited(step, c)
    BY <2>1, <2>3 DEF Suited
  <2> HIDE DEF c, step
  <2>6. Callers'
    BY <1>1, <2>3, <2>4, <2>5, CallMoves
  <2>7. Device'
    BY <1>1, <1>3, QuietTyped DEF WriteSpace
  <2> QED BY <2>6, <2>7 DEF Typed
<1>4. CASE PutCopy(t)
  <2> DEFINE n == call[t].mark
             fits == Space(tx, tx.head) >= n
             m == IF fits THEN n ELSE 0
             c == [call[t] EXCEPT !.mark = m]
             step == "tail"
  <2>1. call[t].fct = "write" /\ n \in Nat /\ n <= call[t].left /\ call[t].left \in Nat
    BY <1>1, <1>4 DEF PutCopy, At, Suited, Calls
  <2>2. tx' \in Buffers(TxByte)
    <3>1. CASE fits
      <4>1. Len(NextBytes(n)) <= Space(tx, tx.head) /\ NextBytes(n) \in Seq(TxByte)
        <5> HIDE DEF n
        <5>1. NextBytes(n) \in Seq(TxByte) /\ Len(NextBytes(n)) = n
          BY <1>1, <2>1, NextBytesTyped
        <5>2. Indexed(tx)
          BY <1>1 DEF Buffers, Indexed
        <5>3. Space(tx, tx.head) \in Nat
          BY <5>2, Counts, Numbers
        <5> QED BY <2>1, <3>1, <5>1, <5>3
      <4>2. Filled(tx, tx.head, NextBytes(n)) \in [Places -> TxByte]
        <5> DEFINE s == NextBytes(n)
        <5> HIDE DEF s
        <5>1. Filled(tx, tx.head, s) \in [Places -> TxByte]
          BY <1>1, <4>1, FilledAround DEF s
        <5> QED BY <5>1 DEF s
      <4>3. tx' = [tx EXCEPT !.buf = Filled(tx, tx.head, NextBytes(n))]
        BY <1>4, <3>1 DEF PutCopy
      <4> QED BY <1>1, <4>2, <4>3 DEF Buffers
    <3>2. CASE ~fits
      BY <1>1, <1>4, <3>2 DEF PutCopy
    <3> QED BY <3>1, <3>2
  <2>3. Device'
    BY <1>1, <1>4, <2>2 DEF PutCopy, Device, Quiet, uart
  <2>4. m \in Nat /\ m <= call[t].left
    BY <2>1
  <2>5. m = IF Space(tx, tx.head) >= call[t].mark THEN call[t].mark ELSE 0
    OBVIOUS
  <2> HIDE DEF m
  <2>6. c \in Calls /\ c.fct = "write" /\ c.left = call[t].left /\ c.mark = m
    BY <1>1, <2>1, <2>4 DEF Calls
  <2>7. call' = [call EXCEPT ![t] = c] /\ pc' = [pc EXCEPT ![t] = step] /\ step \in Steps
    BY <1>1, <1>4, <2>5 DEF PutCopy, Goes, Steps
  <2>8. Suited(step, c)
    BY <2>4, <2>6 DEF Suited
  <2> HIDE DEF c, step
  <2>9. Callers'
    BY <1>1, <2>6, <2>7, <2>8, CallMoves
  <2> QED BY <2>3, <2>9 DEF Typed
<1>5. CASE PutTail(t)
  <2> DEFINE n == call[t].mark
             c == [call[t] EXCEPT !.left = @ - n, !.mark = 0]
             step == "start"
  <2>1. call[t].fct = "write" /\ n \in Nat /\ n <= call[t].left /\ call[t].left \in Nat
    BY <1>1, <1>5 DEF PutTail, At, Suited, Calls
  <2>2. Masked(tx.tail + n) \in Places
    <3>1. tx.tail \in Nat
      BY <1>1, Numbers DEF Buffers
    <3> QED BY <2>1, <3>1, MaskedRange
  <2>3. tx' \in Buffers(TxByte)
    BY <1>1, <1>5, <2>2 DEF PutTail, MoveTail, Buffers
  <2>4. written' \in TxByte
    BY <1>1, <1>5, <2>1, Numbers, SMTT(30) DEF PutTail, TxByte
  <2>5. Device'
    BY <1>1, <1>5, <2>3, <2>4 DEF PutTail, Device, uart
  <2>6. call[t].left - n \in Nat /\ 0 \in Nat
    BY <2>1
  <2>7. c \in Calls /\ c.fct = "write"
    BY <1>1, <2>1, <2>6 DEF Calls
  <2>8. call' = [call EXCEPT ![t] = c] /\ pc' = [pc EXCEPT ![t] = step] /\ step \in Steps
    BY <1>1, <1>5 DEF PutTail, Goes, Steps
  <2>9. Suited(step, c)
    BY <2>7 DEF Suited
  <2> HIDE DEF c, step
  <2>10. Callers'
    BY <1>1, <2>7, <2>8, <2>9, CallMoves
  <2> QED BY <2>5, <2>10 DEF Typed
<1>6. CASE StartTx(t)
  <2> DEFINE c == IF call[t].left > 0 THEN call[t] ELSE NoCall
             step == IF call[t].left > 0 THEN "off" ELSE "idle"
  <2>1. call[t].fct = "write"
    BY <1>1, <1>6 DEF StartTx, At, Suited
  <2>2. PICK d \in TxConfirmation : Sends(d) /\ thre' = d.thre
    BY <1>6 DEF StartTx
  <2>3. tx' \in Buffers(TxByte) /\ d.thre \in BOOLEAN
    BY <1>1, <2>2, SendsTyped
  <2>4. /\ blocked' \in [taskID : Tasks \cup {INVALID_TASK}, fct : {"none", "read", "write"}]
        /\ event' \in [Tasks -> BOOLEAN]
    <3>1. blocked' = IF Empty(tx) THEN blocked ELSE StillBlocked(blocked, "write")
      BY <1>6 DEF StartTx
    <3>2. blocked \in [taskID : Tasks \cup {INVALID_TASK}, fct : {"none", "read", "write"}]
      BY <1>1 DEF Device
    <3>3. event' \in [Tasks -> BOOLEAN]
      BY <1>6 DEF StartTx, SetEvents
    <3> QED BY <1>1, <3>1, <3>2, <3>3, StillBlockedTyped
  <2>5. UNCHANGED <<rx, hwbuf, rxFifo, rxInt, arrived, written>> /\ txInt' = TRUE
    BY <1>6 DEF StartTx
  <2>6. Device'
    BY <1>1, <2>2, <2>3, <2>4, <2>5 DEF Device
  <2>7. NoCall \in Calls
    BY EmptySeq DEF NoCall, Calls
  <2>8. c \in Calls /\ Suited(step, c) /\ step \in Steps
    BY <1>1, <2>1, <2>7 DEF Suited, Steps
  <2>9. call' = [call EXCEPT ![t] = c] /\ pc' = [pc EXCEPT ![t] = step]
    BY <1>1, <1>6 DEF StartTx, Goes, Returns
  <2> HIDE DEF c, step
  <2>10. Callers'
    BY <1>1, <2>8, <2>9, CallMoves
  <2> QED BY <2>6, <2>10 DEF Typed
<1> QED BY <1>2, <1>3, <1>4, <1>5, <1>6

\* The steps in which a task registers itself and waits.
LEMMA WaitTyped ==
  ASSUME Typed, NEW t \in Tasks,
         \/ InterruptOff(t) \/ RegisterTask(t) \/ RegisterFct(t)
         \/ InterruptOn(t) \/ WakeUp(t)
  PROVE  Typed'
<1>1. /\ Device /\ Callers
      /\ call[t] \in Calls /\ Suited(pc[t], call[t]) /\ pc[t] \in Steps
      /\ call \in [Tasks -> Calls]
      /\ blocked \in [taskID : Tasks \cup {INVALID_TASK}, fct : {"none", "read", "write"}]
  BY DEF Typed, Callers, Device
<1> DEFINE c == call[t]
<1>2. pc[t] \in {"off", "who", "fct", "on", "wait"} /\ c.fct \in {"read", "write"}
  BY <1>1 DEF InterruptOff, RegisterTask, RegisterFct, InterruptOn, WakeUp, At, Suited
<1>3. UNCHANGED <<rx, tx, hwbuf, rxFifo, thre, call, arrived, written>>
  BY DEF InterruptOff, RegisterTask, RegisterFct, InterruptOn, WakeUp, Quiet, buffers, uart
<1>4. rxInt' \in BOOLEAN /\ txInt' \in BOOLEAN
  BY <1>1 DEF InterruptOff, RegisterTask, RegisterFct, InterruptOn, WakeUp, uart, Device
<1>5. blocked' \in [taskID : Tasks \cup {INVALID_TASK}, fct : {"none", "read", "write"}]
  BY <1>1, <1>2 DEF InterruptOff, RegisterTask, RegisterFct, InterruptOn, WakeUp
<1>6. event' \in [Tasks -> BOOLEAN]
  BY <1>1 DEF InterruptOff, RegisterTask, RegisterFct, InterruptOn, WakeUp, Device
<1>7. Device'
  BY <1>1, <1>3, <1>4, <1>5, <1>6 DEF Device
<1>8. \E s \in {"who", "fct", "on", "wait", IF call[t].fct = "read" THEN "get" ELSE "space"} :
        pc' = [pc EXCEPT ![t] = s]
  BY DEF InterruptOff, RegisterTask, RegisterFct, InterruptOn, WakeUp, Goes
<1>9. PICK s \in {"who", "fct", "on", "wait", IF call[t].fct = "read" THEN "get" ELSE "space"} :
        pc' = [pc EXCEPT ![t] = s]
  BY <1>8
<1>10. s \in Steps /\ Suited(s, c)
  BY <1>2, <1>9 DEF Steps, Suited
<1>11. call' = [call EXCEPT ![t] = c]
  BY <1>1, <1>3
<1> HIDE DEF c
<1>12. c \in Calls
  BY <1>1 DEF c
<1>13. Callers'
  BY <1>1, <1>9, <1>10, <1>11, <1>12, CallMoves
<1> QED BY <1>7, <1>13 DEF Typed

\* The line.
LEMMA LineTyped ==
  ASSUME Typed, Arrive \/ Shift
  PROVE  Typed'
<1>1. Device /\ Callers
  BY DEF Typed
<1>2. UNCHANGED <<rx, tx, hwbuf, blocked, rxInt, txInt, pc, call, event, written>>
  BY DEF Arrive, Shift, buffers, tasks, Quiet
<1>3. arrived' \in RxByte /\ rxFifo' \in Seq(RxByte) /\ thre' \in BOOLEAN
  <2>1. CASE Arrive
    <3>1. arrived' \in RxByte
      BY <1>1, <2>1, Numbers DEF Arrive, RxByte, Device
    <3>2. rxFifo' \in Seq(RxByte)
      BY <1>1, <2>1, <3>1, AppendProperties DEF Arrive, Device
    <3> QED BY <1>1, <2>1, <3>1, <3>2 DEF Arrive, Device
  <2>2. CASE Shift
    BY <1>1, <2>2 DEF Shift, Quiet, Device
  <2> QED BY <2>1, <2>2
<1>4. Device'
  BY <1>1, <1>2, <1>3 DEF Device
<1>5. Callers'
  BY <1>1, <1>2 DEF Callers
<1> QED BY <1>4, <1>5 DEF Typed

LEMMA NextTyped ==
  ASSUME Typed, [Next]_vars
  PROVE  Typed'
<1>1. CASE Handler
  BY <1>1, HandlerTyped
<1>2. CASE Arrive \/ Shift
  BY <1>2, LineTyped
<1>3. CASE \E t \in Tasks : TaskStep(t)
  BY <1>3, ReadTyped, WriteTyped, WaitTyped DEF TaskStep
<1>4. CASE UNCHANGED vars
  BY <1>4 DEF vars, uart, tasks, Typed, Device, Callers
<1> QED BY <1>1, <1>2, <1>3, <1>4 DEF Next

\* Every index stays in its array and every byte, flag and call keeps its type,
\* for buffers and calls of any size and any number of tasks that read and write
\* while the handler comes between their steps, full buffers included.
THEOREM SerialTypes == Spec => []SerialTypeOK
<1>1. Init => Typed
  BY InitTyped
<1>2. Typed /\ [Next]_vars => Typed'
  BY NextTyped
<1>3. Typed => SerialTypeOK
  BY TypedTypes
<1> QED BY <1>1, <1>2, <1>3, PTL DEF Spec

-----------------------------------------------------------------------------
(* The transmit interrupt.  It is what makes a transmission go on, so it   *)
(* may be off only when there is nothing to send or somebody is about to   *)
(* start it.                                                               *)

Starts(t) == call[t].fct = "write" /\ pc[t] \in {"start", "who", "fct", "on"}

\* A step of a task that does not start, and leaves buffer and interrupt alone.
LEMMA OthersTransmit ==
  ASSUME Typed, TransmitOn, NEW t \in Tasks, ~Starts(t),
         Empty(tx') = Empty(tx), txInt' = txInt,
         \A u \in Tasks \ {t} : pc'[u] = pc[u] /\ call'[u] = call[u]
  PROVE  TransmitOn'
<1>1. CASE Empty(tx) \/ txInt
  BY <1>1 DEF TransmitOn
<1>2. CASE \E u \in Tasks : Starts(u)
  <2>1. PICK u \in Tasks : Starts(u)
    BY <1>2
  <2>2. u # t
    BY <2>1
  <2> QED BY <2>1, <2>2 DEF TransmitOn, Starts
<1> QED BY <1>1, <1>2 DEF TransmitOn, Starts

LEMMA HandlerTransmits ==
  ASSUME HandlerInTime, Typed, TransmitOn, Handler
  PROVE  TransmitOn'
<1>1. Device /\ pc' = pc /\ call' = call
  BY DEF Handler, Typed
<1>2. CASE thre /\ txInt
  <2>1. PICK c \in TxConfirmation, late \in (IF HandlerInTime THEN {FALSE} ELSE BOOLEAN) :
          Sends(c) /\ thre' = (c.thre \/ late) /\ txInt' = SwitchesOff(thre')
    BY <1>2 DEF Handler
  <2>2. tx \in Buffers(TxByte)
    BY <1>1 DEF Device
  <2>3. /\ c.thre \in BOOLEAN
        /\ \E k \in 0 .. Count(tx, tx.tail) :
             c.tx = MoveHead(tx, k) /\ (c.thre => k = Count(tx, tx.tail))
    BY <1>2, <2>2, TxTakes
  <2>4. thre' = c.thre
    BY <2>1, <2>3
  <2>5. PICK k \in 0 .. Count(tx, tx.tail) :
          tx' = MoveHead(tx, k) /\ (c.thre => k = Count(tx, tx.tail))
    BY <2>1, <2>3 DEF Sends
  <2>6. CASE c.thre
    <3>1. /\ MoveHead(tx, k) \in Buffers(TxByte)
          /\ Count(MoveHead(tx, k), tx.tail) = Count(tx, tx.tail) - k
      BY <2>2, HeadMoves
    <3>2. k = Count(tx, tx.tail) /\ Count(tx, tx.tail) \in Nat
      BY <2>2, <2>5, <2>6, ContentsType
    <3>3. Count(tx', tx'.tail) = 0 /\ tx' \in Buffers(TxByte)
      <4>1. MoveHead(tx, k).tail = tx.tail
        BY <2>2 DEF MoveHead, Buffers
      <4> QED BY <2>5, <3>1, <3>2, <4>1
    <3>4. Indexed(tx')
      BY <3>3 DEF Buffers, Indexed
    <3>5. Empty(tx')
      BY <3>3, <3>4, Counts
    <3> QED BY <3>5 DEF TransmitOn
  <2>7. CASE ~c.thre
    BY <1>2, <2>1, <2>7, <2>4 DEF SwitchesOff, TransmitOn
  <2> QED BY <2>6, <2>7
<1>3. CASE ~(thre /\ txInt)
  BY <1>1, <1>3 DEF Handler, TransmitOn
<1> QED BY <1>2, <1>3

LEMMA TaskTransmits ==
  ASSUME Typed, TransmitOn, NEW t \in Tasks, TaskStep(t)
  PROVE  TransmitOn'
<1>1. /\ Device /\ Callers /\ tx \in Buffers(TxByte) /\ call[t] \in Calls
      /\ Suited(pc[t], call[t]) /\ call \in [Tasks -> Calls] /\ pc \in [Tasks -> Steps]
      /\ txInt \in BOOLEAN
  BY DEF Typed, Callers, Device
<1>2. CASE \/ Read(t) \/ GetTail(t) \/ GetCopy(t) \/ GetHead(t)
           \/ Write(t) \/ WriteSpace(t) \/ WakeUp(t) \/ ClearHead(t) \/ ClearTail(t)
  <2>1. ~Starts(t)
    BY <1>2 DEF Starts, Read, GetTail, GetCopy, GetHead, Write, WriteSpace, WakeUp,
                ClearHead, ClearTail, At
  <2>2. tx' = tx /\ txInt' = txInt
    BY <1>2 DEF Read, GetTail, GetCopy, GetHead, Write, WriteSpace, WakeUp, ClearHead,
                ClearTail, buffers, uart
  <2>3. \A u \in Tasks \ {t} : pc'[u] = pc[u] /\ call'[u] = call[u]
    BY <1>1, <1>2 DEF Read, GetTail, GetCopy, GetHead, Write, WriteSpace, WakeUp,
                ClearHead, ClearTail, Goes, Returns
  <2> QED BY <2>1, <2>2, <2>3, OthersTransmit
<1>3. CASE PutCopy(t)
  <2>1. ~Starts(t)
    BY <1>3 DEF Starts, PutCopy, At
  <2>2. Empty(tx') = Empty(tx) /\ txInt' = txInt
    BY <1>1, <1>3 DEF PutCopy, Empty, Buffers, uart
  <2>3. \A u \in Tasks \ {t} : pc'[u] = pc[u] /\ call'[u] = call[u]
    BY <1>1, <1>3 DEF PutCopy, Goes
  <2> QED BY <2>1, <2>2, <2>3, OthersTransmit
<1>4. CASE PutTail(t)
  <2>1. pc'[t] = "start" /\ call'[t].fct = call[t].fct
    BY <1>1, <1>4 DEF PutTail, Goes, Calls
  <2>2. call[t].fct = "write"
    BY <1>1, <1>4 DEF PutTail, At, Suited
  <2> QED BY <2>1, <2>2 DEF TransmitOn
<1>5. CASE StartTx(t)
  BY <1>5 DEF StartTx, TransmitOn
<1>6. CASE InterruptOff(t) \/ RegisterTask(t) \/ RegisterFct(t)
  <2>1. pc'[t] \in {"who", "fct", "on"} /\ call' = call /\ tx' = tx
    BY <1>1, <1>6 DEF InterruptOff, RegisterTask, RegisterFct, Goes, buffers
  <2>2. CASE call[t].fct = "write"
    BY <2>1, <2>2 DEF TransmitOn
  <2>3. CASE call[t].fct # "write"
    <3>1. txInt' = txInt
      BY <1>1, <1>6, <2>3 DEF InterruptOff, RegisterTask, RegisterFct, uart
    <3>2. \A u \in Tasks \ {t} : pc'[u] = pc[u] /\ call'[u] = call[u]
      BY <1>1, <1>6 DEF InterruptOff, RegisterTask, RegisterFct, Goes
    <3> QED BY <2>1, <2>3, <3>1, <3>2, OthersTransmit DEF Starts
  <2> QED BY <2>2, <2>3
<1>7. CASE InterruptOn(t)
  <2>1. call' = call /\ tx' = tx /\ pc[t] = "on"
    BY <1>7 DEF InterruptOn, At, buffers
  <2>2. CASE call[t].fct = "write"
    BY <1>7, <2>2 DEF InterruptOn, TransmitOn
  <2>3. CASE call[t].fct # "write"
    <3>1. txInt' = txInt
      BY <1>1, <1>7, <2>3 DEF InterruptOn
    <3>2. \A u \in Tasks \ {t} : pc'[u] = pc[u] /\ call'[u] = call[u]
      BY <1>1, <1>7 DEF InterruptOn, Goes
    <3> QED BY <2>1, <2>3, <3>1, <3>2, OthersTransmit DEF Starts
  <2> QED BY <2>2, <2>3
<1> QED BY <1>2, <1>3, <1>4, <1>5, <1>6, <1>7 DEF TaskStep

\* While there are bytes to send the transmit interrupt is on, or a write is
\* about to turn it on, for any number of readers and writers, if no character
\* ends between the last write of the handler and its test of THRE.
THEOREM TransmissionGoesOn ==
  ASSUME HandlerInTime
  PROVE  Spec => []TransmitOn
<1>1. Init => Typed /\ TransmitOn
  BY InitTyped DEF Init, TransmitOn, Empty, CircBufInit
<1>2. Typed /\ TransmitOn /\ [Next]_vars => (Typed /\ TransmitOn)'
  <2> SUFFICES ASSUME Typed, TransmitOn, [Next]_vars
               PROVE  Typed' /\ TransmitOn'
    OBVIOUS
  <2>1. CASE Handler
    BY <2>1, HandlerTransmits, NextTyped
  <2>2. CASE Arrive \/ Shift
    BY <2>2, NextTyped DEF Arrive, Shift, buffers, tasks, TransmitOn
  <2>3. CASE \E t \in Tasks : TaskStep(t)
    BY <2>3, TaskTransmits, NextTyped
  <2>4. CASE UNCHANGED vars
    BY <2>4, NextTyped DEF vars, uart, tasks, TransmitOn
  <2> QED BY <2>1, <2>2, <2>3, <2>4 DEF Next
<1> QED BY <1>1, <1>2, PTL DEF Spec

-----------------------------------------------------------------------------
(* Sleeping and waking.  A device has one slot for a task that waits, so    *)
(* what follows is about executions in which calls of two tasks do not      *)
(* overlap, in whatever direction.                                          *)

CallsApart == \A t, u \in Tasks : pc[t] # "idle" /\ pc[u] # "idle" => t = u

\* How far a task is with its registration, and what the slot and its event
\* say: nothing before it has begun and after it has been woken.
Registered(t, step, f, b, e) ==
  /\ step \notin {"on", "wait"} => e = FALSE
  /\ step \notin {"fct", "on", "wait"} => b = Nobody
  /\ step = "fct" => b = [taskID |-> t, fct |-> "none"]
  /\ step \in {"on", "wait"} => b = IF e = TRUE THEN Nobody ELSE [taskID |-> t, fct |-> f]

Slots ==
  /\ \A t \in Tasks :
       IF pc[t] = "idle" THEN event[t] = FALSE
       ELSE /\ Registered(t, pc[t], call[t].fct, blocked, event[t])
            /\ pc[t] = "wait" /\ call[t].fct = "read" => rxInt = TRUE
  /\ (\A t \in Tasks : pc[t] = "idle") => blocked = Nobody

LEMMA InitSlots == Init => Slots
  BY DEF Init, Slots

LEMMA NobodyWaits == \A f : ~Waits(Nobody, f) /\ Nobody.fct = "none"
  BY DEF Waits, Nobody

\* While a task takes a step all the others are outside of calls.
LEMMA OthersIdle ==
  ASSUME CallsApart, CallsApart', Typed, NEW t \in Tasks, TaskStep(t)
  PROVE  \A u \in Tasks \ {t} : pc[u] = "idle" /\ pc'[u] = "idle"
<1>1. pc \in [Tasks -> Steps] /\ call \in [Tasks -> Calls] /\ Suited(pc[t], call[t])
  BY DEF Typed, Device, Callers
<1>2. \E s \in Steps : pc' = [pc EXCEPT ![t] = s] /\ (pc[t] = "idle" => s # "idle")
  BY DEF TaskStep, Read, GetTail, GetCopy, GetHead, Write, WriteSpace, PutCopy, PutTail, StartTx,
         InterruptOff, RegisterTask, RegisterFct, InterruptOn, WakeUp, ClearHead, ClearTail,
         At, Goes, Returns, Steps
<1>3. \A u \in Tasks \ {t} : pc'[u] = pc[u]
  BY <1>1, <1>2
<1>4. pc[t] # "idle" \/ pc'[t] # "idle"
  BY <1>1, <1>2
<1> QED BY <1>3, <1>4 DEF CallsApart

\* A task that is alone, in a call or not, has the slot.
LEMMA SlotOf ==
  ASSUME Slots, NEW t \in Tasks, \A u \in Tasks \ {t} : pc[u] = "idle"
  PROVE  Registered(t, pc[t], call[t].fct, blocked, event[t])
  BY DEF Slots, Registered

LEMMA SlotsMove ==
  ASSUME Slots, NEW t \in Tasks,
         \A u \in Tasks \ {t} : pc[u] = "idle" /\ pc'[u] = "idle" /\ event'[u] = event[u],
         Registered(t, pc'[t], call'[t].fct, blocked', event'[t]),
         pc'[t] = "wait" /\ call'[t].fct = "read" => rxInt' = TRUE
  PROVE  Slots'
<1>1. \A u \in Tasks \ {t} : event'[u] = FALSE
  BY DEF Slots
<1>2. pc'[t] = "idle" => event'[t] = FALSE /\ blocked' = Nobody
  BY DEF Registered
<1> QED BY <1>1, <1>2 DEF Slots

LEMMA TaskSlots ==
  ASSUME CallsApart, CallsApart', Typed, Slots, NEW t \in Tasks, TaskStep(t)
  PROVE  Slots'
<1>1. /\ Device /\ Callers /\ call[t] \in Calls /\ Suited(pc[t], call[t])
      /\ call \in [Tasks -> Calls] /\ pc \in [Tasks -> Steps] /\ event \in [Tasks -> BOOLEAN]
      /\ blocked \in [taskID : Tasks \cup {INVALID_TASK}, fct : {"none", "read", "write"}]
  BY DEF Typed, Callers, Device
<1>2. \A u \in Tasks \ {t} : pc[u] = "idle" /\ pc'[u] = "idle"
  BY OthersIdle
<1>3. Registered(t, pc[t], call[t].fct, blocked, event[t])
  BY <1>2, SlotOf
<1>4. CASE \/ Read(t) \/ GetTail(t) \/ GetCopy(t) \/ GetHead(t)
           \/ Write(t) \/ WriteSpace(t) \/ PutCopy(t) \/ PutTail(t)
           \/ InterruptOff(t) \/ ClearHead(t) \/ ClearTail(t)
  <2>1. pc[t] \notin {"fct", "on", "wait"}
    BY <1>4 DEF Read, GetTail, GetCopy, GetHead, Write, WriteSpace, PutCopy, PutTail,
                InterruptOff, ClearHead, ClearTail, At
  <2>2. blocked' = blocked /\ event' = event
    BY <1>4 DEF Read, GetTail, GetCopy, GetHead, Write, WriteSpace, PutCopy, PutTail,
                InterruptOff, ClearHead, ClearTail
  <2>3. \E s \in {"off", "get", "copy", "head", "idle", "space", "tail", "start", "who",
                  "clear"} : pc' = [pc EXCEPT ![t] = s]
    BY <1>4 DEF Read, GetTail, GetCopy, GetHead, Write, WriteSpace, PutCopy, PutTail,
                InterruptOff, ClearHead, ClearTail, Goes, Returns
  <2>4. pc'[t] \notin {"fct", "on", "wait"} /\ \A u \in Tasks \ {t} : pc'[u] = pc[u]
    BY <1>1, <2>3
  <2>5. Registered(t, pc'[t], call'[t].fct, blocked', event'[t])
    BY <1>3, <2>1, <2>2, <2>4 DEF Registered
  <2> QED BY <1>2, <2>2, <2>4, <2>5, SlotsMove
<1>5. CASE StartTx(t)
  <2>1. event[t] = FALSE /\ blocked = Nobody
    BY <1>3, <1>5 DEF StartTx, At, Registered
  <2>2. blocked' = Nobody
    BY <1>5, <2>1, NobodyWaits DEF StartTx, StillBlocked
  <2>3. Woken(blocked, "write") = {}
    BY <2>1, NobodyWaits DEF Woken
  <2>4. \A u \in Tasks : event'[u] = event[u]
    <3>1. SetEvents({})
      BY <1>5, <2>3 DEF StartTx
    <3> QED BY <1>1, <3>1 DEF SetEvents
  <2>5. pc'[t] \in {"off", "idle"} /\ \A u \in Tasks \ {t} : pc'[u] = pc[u]
    BY <1>1, <1>5 DEF StartTx, Goes, Returns
  <2>6. Registered(t, pc'[t], call'[t].fct, blocked', event'[t])
    BY <2>1, <2>2, <2>4, <2>5 DEF Registered
  <2> QED BY <1>2, <2>4, <2>5, <2>6, SlotsMove
<1>6. CASE RegisterTask(t)
  <2>1. event[t] = FALSE /\ blocked = Nobody
    BY <1>3, <1>6 DEF RegisterTask, At, Registered
  <2>2. blocked' = [taskID |-> t, fct |-> "none"] /\ event' = event
    BY <1>6, <2>1 DEF RegisterTask, Nobody
  <2>3. pc'[t] = "fct" /\ \A u \in Tasks \ {t} : pc'[u] = pc[u]
    BY <1>1, <1>6 DEF RegisterTask, Goes
  <2>4. Registered(t, pc'[t], call'[t].fct, blocked', event'[t])
    BY <2>1, <2>2, <2>3 DEF Registered
  <2> QED BY <1>2, <2>2, <2>3, <2>4, SlotsMove
<1>7. CASE RegisterFct(t)
  <2>1. event[t] = FALSE /\ blocked = [taskID |-> t, fct |-> "none"]
    BY <1>3, <1>7 DEF RegisterFct, At, Registered
  <2>2. blocked' = [taskID |-> t, fct |-> call[t].fct] /\ event' = event /\ call' = call
    BY <1>7, <2>1 DEF RegisterFct
  <2>3. pc'[t] = "on" /\ \A u \in Tasks \ {t} : pc'[u] = pc[u]
    BY <1>1, <1>7 DEF RegisterFct, Goes
  <2>4. Registered(t, pc'[t], call'[t].fct, blocked', event'[t])
    BY <2>1, <2>2, <2>3 DEF Registered
  <2> QED BY <1>2, <2>2, <2>3, <2>4, SlotsMove
<1>8. CASE InterruptOn(t)
  <2>1. /\ blocked' = blocked /\ event' = event /\ call' = call /\ pc[t] = "on"
        /\ call[t].fct = "read" => rxInt' = TRUE
    BY <1>8 DEF InterruptOn, At
  <2>2. pc'[t] = "wait" /\ \A u \in Tasks \ {t} : pc'[u] = pc[u]
    BY <1>1, <1>8 DEF InterruptOn, Goes
  <2>3. Registered(t, pc'[t], call'[t].fct, blocked', event'[t])
    BY <1>3, <2>1, <2>2 DEF Registered
  <2> QED BY <1>2, <2>1, <2>2, <2>3, SlotsMove
<1>9. CASE WakeUp(t)
  <2>1. event[t] = TRUE /\ pc[t] = "wait"
    BY <1>1, <1>9 DEF WakeUp, At
  <2>2. blocked' = Nobody
    BY <1>3, <1>9, <2>1 DEF WakeUp, Registered
  <2>3. event'[t] = FALSE /\ \A u \in Tasks \ {t} : event'[u] = event[u]
    BY <1>1, <1>9 DEF WakeUp
  <2>4. pc'[t] \in {"get", "space"} /\ \A u \in Tasks \ {t} : pc'[u] = pc[u]
    BY <1>1, <1>9 DEF WakeUp, Goes
  <2>5. Registered(t, pc'[t], call'[t].fct, blocked', event'[t])
    BY <2>2, <2>3, <2>4 DEF Registered
  <2> QED BY <1>2, <2>3, <2>4, <2>5, SlotsMove
<1> QED BY <1>4, <1>5, <1>6, <1>7, <1>8, <1>9 DEF TaskStep

\* What the handler does to the slot: nothing, or it frees it and wakes the task
\* that it names.
LEMMA HandlerWakes ==
  ASSUME Device, Handler
  PROVE  \/ blocked' = blocked /\ \A u \in Tasks : event'[u] = event[u]
         \/ \E f \in {"read", "write"} :
              /\ Waits(blocked, f) /\ (f = "read" => ReceivedSome)
              /\ blocked' = Nobody
              /\ \A u \in Tasks : event'[u] = (event[u] \/ u = blocked.taskID)
<1> DEFINE b == IF ReceivedSome THEN StillBlocked(blocked, "read") ELSE blocked
           reader == IF ReceivedSome THEN Woken(blocked, "read") ELSE {}
           confirms == (thre /\ txInt) /\ ~Empty(tx)
           writer == IF confirms THEN Woken(b, "write") ELSE {}
<1>1. /\ blocked' = IF confirms THEN StillBlocked(b, "write") ELSE b
      /\ event' = [u \in Tasks |-> event[u] \/ u \in reader \cup writer]
  <2>1. blocked' = IF confirms THEN StillBlocked(b, "write") ELSE b
    BY DEF Handler
  <2>2. SetEvents(reader \cup writer)
    BY DEF Handler
  <2> QED BY <2>1, <2>2 DEF SetEvents
<1>2. event \in [Tasks -> BOOLEAN]
  BY DEF Device
<1>3. CASE ReceivedSome /\ Waits(blocked, "read")
  <2>1. b = Nobody /\ reader = {blocked.taskID}
    BY <1>3 DEF StillBlocked, Woken
  <2>2. writer = {} /\ StillBlocked(Nobody, "write") = Nobody
    BY <2>1, NobodyWaits DEF Woken, StillBlocked
  <2> HIDE DEF b, reader, writer, confirms
  <2>3. blocked' = Nobody /\ \A u \in Tasks : event'[u] = (event[u] \/ u = blocked.taskID)
    BY <1>1, <2>1, <2>2
  <2> QED BY <1>3, <2>3
<1>4. CASE ~(ReceivedSome /\ Waits(blocked, "read"))
  <2>1. b = blocked /\ reader = {} /\ writer = IF confirms THEN Woken(blocked, "write") ELSE {}
    BY <1>4 DEF StillBlocked, Woken
  <2>2. CASE confirms /\ Waits(blocked, "write")
    <3>1. writer = {blocked.taskID} /\ StillBlocked(blocked, "write") = Nobody
      BY <2>1, <2>2 DEF Woken, StillBlocked
    <3> HIDE DEF b, reader, writer
    <3>2. blocked' = Nobody /\ \A u \in Tasks : event'[u] = (event[u] \/ u = blocked.taskID)
      BY <1>1, <2>1, <2>2, <3>1
    <3> QED BY <2>2, <3>2
  <2>3. CASE ~(confirms /\ Waits(blocked, "write"))
    <3>1. writer = {} /\ (confirms => StillBlocked(blocked, "write") = blocked)
      BY <2>1, <2>3 DEF Woken, StillBlocked
    <3> HIDE DEF b, reader, writer, confirms
    <3>2. blocked' = blocked /\ \A u \in Tasks : event'[u] = event[u]
      BY <1>1, <1>2, <2>1, <3>1
    <3> QED BY <3>2
  <2> QED BY <2>2, <2>3
<1> QED BY <1>3, <1>4

LEMMA HandlerSlots ==
  ASSUME CallsApart, Typed, Slots, Handler
  PROVE  Slots'
<1>1. Device /\ UNCHANGED <<pc, call, rxInt>> /\ event \in [Tasks -> BOOLEAN]
  BY DEF Handler, Typed, Device
<1>2. CASE blocked' = blocked /\ \A u \in Tasks : event'[u] = event[u]
  BY <1>1, <1>2 DEF Slots
<1>3. ASSUME NEW f \in {"read", "write"}, Waits(blocked, f), blocked' = Nobody,
             \A u \in Tasks : event'[u] = (event[u] \/ u = blocked.taskID)
      PROVE  Slots'
  <2>1. blocked # Nobody /\ blocked.fct = f
    BY <1>3, NobodyWaits DEF Waits
  <2>2. PICK t \in Tasks : pc[t] # "idle"
    BY <2>1 DEF Slots
  <2>3. Registered(t, pc[t], call[t].fct, blocked, event[t])
    BY <2>2 DEF Slots
  <2>4. \A u \in Tasks \ {t} : pc[u] = "idle" /\ pc'[u] = "idle"
    BY <1>1, <2>2 DEF CallsApart
  <2>5. pc[t] \in {"on", "wait"} /\ blocked.taskID = t
    BY <2>1, <2>3 DEF Registered
  <2>6. event'[t] = TRUE /\ \A u \in Tasks \ {t} : event'[u] = event[u]
    <3>1. \A u \in Tasks \ {t} : (event[u] \/ u = blocked.taskID) = event[u]
      BY <1>1, <2>5
    <3> QED BY <1>1, <1>3, <2>5, <3>1
  <2>7. Registered(t, pc'[t], call'[t].fct, blocked', event'[t])
    BY <1>1, <1>3, <2>5, <2>6 DEF Registered
  <2>8. pc'[t] = "wait" /\ call'[t].fct = "read" => rxInt' = TRUE
    BY <1>1, <2>2 DEF Slots
  <2> QED BY <2>4, <2>6, <2>7, <2>8, SlotsMove
<1>4. \/ blocked' = blocked /\ \A u \in Tasks : event'[u] = event[u]
      \/ \E f \in {"read", "write"} :
           /\ Waits(blocked, f) /\ blocked' = Nobody
           /\ \A u \in Tasks : event'[u] = (event[u] \/ u = blocked.taskID)
  BY <1>1, HandlerWakes
<1> QED BY <1>2, <1>3, <1>4

LEMMA NextSlots ==
  ASSUME CallsApart, CallsApart', Typed, Slots, [Next]_vars
  PROVE  Slots'
<1>1. CASE Arrive \/ Shift
  BY <1>1 DEF Arrive, Shift, buffers, tasks, Slots
<1>2. CASE UNCHANGED vars
  BY <1>2 DEF vars, uart, tasks, Slots
<1> QED BY <1>1, <1>2, HandlerSlots, TaskSlots DEF Next

\* A task that sleeps is registered, for what it waits for, and the interrupt
\* that will wake it is enabled if there is something to happen: if calls do not
\* overlap, with calls and buffers of any size, and THRE is tested in time.
THEOREM SleepersRemembered ==
  ASSUME HandlerInTime
  PROVE  Spec /\ []CallsApart => []Remembered
<1>1. Init => Typed /\ Slots
  BY InitTyped, InitSlots
<1>2. CallsApart /\ CallsApart' /\ Typed /\ Slots /\ [Next]_vars => (Typed /\ Slots)'
  BY NextTyped, NextSlots
<1>3. CallsApart /\ Typed /\ Slots /\ TransmitOn => Remembered
  <2> SUFFICES ASSUME CallsApart, Typed, Slots, TransmitOn, NEW t \in Tasks, Asleep(t)
               PROVE  /\ blocked = [taskID |-> t, fct |-> call[t].fct]
                      /\ IF call[t].fct = "read" THEN rxInt ELSE txInt \/ Empty(tx)
    BY DEF Remembered
  <2>1. pc[t] = "wait" /\ ~event[t] /\ event[t] \in BOOLEAN
    BY DEF Asleep, Typed, Device
  <2>2. \A u \in Tasks \ {t} : pc[u] = "idle"
    BY <2>1 DEF CallsApart
  <2>3. blocked = [taskID |-> t, fct |-> call[t].fct]
    BY <2>1 DEF Slots, Registered
  <2>4. call[t].fct = "read" => rxInt
    BY <2>1 DEF Slots
  <2>5. txInt \/ Empty(tx)
    BY <2>1, <2>2 DEF TransmitOn
  <2> QED BY <2>3, <2>4, <2>5
<1>4. Spec => []TransmitOn
  BY TransmissionGoesOn
<1> QED BY <1>1, <1>2, <1>3, <1>4, PTL DEF Spec

-----------------------------------------------------------------------------
(* Waking for data.                                                        *)

\* The bytes that have been received and not read.
Held == Count(rx, rx.tail) + Len(hwbuf) + Len(rxFifo)

\* If there is room for all bytes that wait, the handler takes them into the
\* buffer, in order and behind those that are in it.
LEMMA HandlerReceives ==
  ASSUME Device, Handler, Held <= Size - 1
  PROVE  /\ Contents(rx') \o hwbuf' \o rxFifo' = Contents(rx) \o hwbuf \o rxFifo
         /\ Held' = Held
         /\ Count(rx', rx'.tail) >= Count(rx, rx.tail)
         /\ ReceivedSome => Count(rx', rx'.tail) > 0
<1>1. /\ rx \in Buffers(RxByte) /\ hwbuf \in Seq(RxByte) /\ rxFifo \in Seq(RxByte)
      /\ Indexed(rx) /\ Len(hwbuf) \in Nat /\ Len(rxFifo) \in Nat
  BY LenProperties DEF Device, Buffers, Indexed
<1>2. /\ Count(rx, rx.tail) \in Nat /\ Room = Size - 1 - Count(rx, rx.tail)
      /\ Size \in Nat /\ Contents(rx) \in Seq(RxByte)
  BY <1>1, Counts, Numbers, ContentsType DEF Room
<1>3. CASE rxFifo = <<>>
  <2>1. UNCHANGED <<rx, hwbuf, rxFifo>> /\ ~ReceivedSome
    BY <1>3 DEF Handler, ReceivedSome
  <2> QED BY <1>2, <2>1 DEF Held
<1>4. CASE rxFifo # <<>>
  <2> DEFINE s == hwbuf \o rxFifo
             ind == RxIndication(s)
             u == Contents(rx)
             w == Contents(rx')
  <2>1. s \in Seq(RxByte) /\ Len(s) = Len(hwbuf) + Len(rxFifo) /\ Len(rxFifo) > 0
    <3>1. Len(rxFifo) # 0
      BY <1>1, <1>4, EmptySeq
    <3> QED BY <1>1, <3>1, ConcatProperties
  <2>2. rx' = ind.rx /\ hwbuf' = ind.rest /\ rxFifo' = <<>>
    BY <1>4 DEF Handler, Receives
  <2> HIDE DEF s
  <2>3. Len(s) \in Nat /\ Len(s) > 0 /\ Room \in Nat /\ Len(s) <= Room
    BY <1>1, <1>2, <2>1 DEF Held
  <2>4. Fits(s) = Len(s) /\ Room > 0
    BY <2>3 DEF Fits
  <2>5. /\ ind.rest = SubSeq(s, Fits(s) + 1, Len(s))
        /\ Count(ind.rx, ind.rx.tail) = Count(rx, rx.tail) + Fits(s)
        /\ Contents(ind.rx) = Contents(rx) \o SubSeq(s, 1, Fits(s))
    BY <1>1, <2>1, <2>4, RxStores
  <2>6. SubSeq(s, 1, Len(s)) = s /\ SubSeq(s, Len(s) + 1, Len(s)) = <<>>
    BY <2>1, <2>3, SubSeqFull, SubSeqEmpty
  <2> HIDE DEF ind
  <2>7. /\ hwbuf' = <<>> /\ rxFifo' = <<>> /\ w = u \o s
        /\ Count(rx', rx'.tail) = Count(rx, rx.tail) + Len(s)
    BY <2>2, <2>4, <2>5, <2>6
  <2> HIDE DEF u, w
  <2>8. w \o hwbuf' \o rxFifo' = u \o hwbuf \o rxFifo
    <3>1. u \in Seq(RxByte) /\ u \o s \in Seq(RxByte)
      BY <1>2, <2>1, ConcatProperties DEF u
    <3>2. (u \o s) \o <<>> = u \o s
      BY <3>1, ConcatEmptySeq
    <3>3. u \o s = (u \o hwbuf) \o rxFifo
      BY <1>1, <3>1, ConcatAssociative, SMTT(30) DEF s
    <3> QED BY <2>7, <3>2, <3>3
  <2>9. Held' = Held
    <3>1. Len(hwbuf') = 0 /\ Len(rxFifo') = 0
      BY <2>7, EmptySeq
    <3> QED BY <1>1, <1>2, <2>1, <2>7, <3>1 DEF Held
  <2>10. Count(rx', rx'.tail) >= Count(rx, rx.tail) /\ Count(rx', rx'.tail) > 0
    BY <1>2, <2>3, <2>7
  <2> QED BY <2>8, <2>9, <2>10 DEF u, w
<1> QED BY <1>3, <1>4

\* What the user of the device may count on in a call to read: where it takes
\* bytes there are some, and when it is woken too.
Supplied(step, c, b, e) ==
  c.fct = "read" /\ step \notin {"idle", "clear"} =>
    /\ c.left > 0
    /\ step \in {"copy", "head"} => c.left <= Count(b, b.tail)
    /\ step = "get" => Count(b, b.tail) > 0
    /\ step \in {"on", "wait"} /\ e = TRUE => Count(b, b.tail) > 0

\* The partner does not send more than there is room for.
Fed ==
  /\ IF Clearing THEN Len(hwbuf) + Len(rxFifo) <= Size - 1 ELSE Held <= Size - 1
  /\ \A t \in Tasks : /\ pc[t] = "clear" => rx.head = 0
                      /\ Supplied(pc[t], call[t], rx, event[t])

LEMMA HeldTypes ==
  ASSUME Device
  PROVE  /\ Count(rx, rx.tail) \in 0 .. Size - 1 /\ Count(rx, rx.tail) \in Nat
         /\ Empty(rx) <=> Count(rx, rx.tail) = 0
         /\ Len(hwbuf) \in Nat /\ Len(rxFifo) \in Nat /\ Held \in Nat
<1>1. Indexed(rx) /\ hwbuf \in Seq(RxByte) /\ rxFifo \in Seq(RxByte)
  BY DEF Device, Buffers, Indexed
<1>2. /\ Count(rx, rx.tail) \in 0 .. Size - 1 /\ Count(rx, rx.tail) \in Nat
      /\ Empty(rx) <=> Count(rx, rx.tail) = 0
  BY <1>1, Counts, Numbers
<1>3. Len(hwbuf) \in Nat /\ Len(rxFifo) \in Nat
  BY <1>1, LenProperties
<1> QED BY <1>2, <1>3 DEF Held

LEMMA LengthIsHeld ==
  ASSUME Device
  PROVE  Len(RxBytes) = IF Clearing THEN Len(hwbuf) + Len(rxFifo) ELSE Held
<1>1. /\ hwbuf \in Seq(RxByte) /\ rxFifo \in Seq(RxByte) /\ Contents(rx) \in Seq(RxByte)
      /\ Len(Contents(rx)) = Count(rx, rx.tail)
      /\ Len(hwbuf) \in Nat /\ Len(rxFifo) \in Nat /\ Count(rx, rx.tail) \in Nat
  BY ContentsType, HeldTypes DEF Device
<1>2. CASE Clearing
  <2>1. <<>> \o hwbuf = hwbuf
    BY <1>1, ConcatEmptySeq
  <2>2. RxBytes = hwbuf \o rxFifo
    BY <1>2, <2>1 DEF RxBytes
  <2> QED BY <1>1, <1>2, <2>2, ConcatProperties
<1>3. CASE ~Clearing
  <2> DEFINE u == Contents(rx) \o hwbuf
  <2>1. u \in Seq(RxByte) /\ Len(u) = Count(rx, rx.tail) + Len(hwbuf)
    BY <1>1, ConcatProperties
  <2>2. RxBytes = u \o rxFifo
    BY <1>3 DEF RxBytes
  <2> HIDE DEF u
  <2>3. Len(u \o rxFifo) = Len(u) + Len(rxFifo)
    BY <1>1, <2>1, ConcatProperties
  <2> QED BY <1>1, <1>3, <2>1, <2>2, <2>3 DEF Held
<1> QED BY <1>2, <1>3

LEMMA InitFed == Init => Fed
<1> SUFFICES ASSUME Init PROVE Fed
  OBVIOUS
<1>1. Typed
  BY InitTyped
<1>2. Count(rx, rx.tail) = 0 /\ Len(hwbuf) = 0 /\ Len(rxFifo) = 0 /\ ~Clearing
  <2>1. Empty(rx)
    BY DEF Init, CircBufInit, Empty
  <2> QED BY <1>1, <2>1, HeldTypes, EmptySeq DEF Init, Clearing, Typed
<1>3. Held = 0
  BY <1>2 DEF Held
<1> QED BY <1>2, <1>3, Numbers DEF Fed, Init, Supplied

\* The only task in a call is the one that clears the buffer, if one does.
LEMMA AloneClears ==
  ASSUME NEW t \in Tasks, \A u \in Tasks \ {t} : pc[u] = "idle"
  PROVE  Clearing <=> pc[t] = "clear"
  BY DEF Clearing

\* However full the buffer is, the handler leaves the head to the reader, and
\* takes bytes only from the front of those that are not yet in the buffer.
LEMMA HandlerTakes ==
  ASSUME Device, Handler
  PROVE  /\ rx'.head = rx.head
         /\ Len(hwbuf') + Len(rxFifo') <= Len(hwbuf) + Len(rxFifo)
         /\ \E n \in 0 .. Len(hwbuf \o rxFifo) :
              hwbuf' \o rxFifo' = SubSeq(hwbuf \o rxFifo, n + 1, Len(hwbuf \o rxFifo))
<1> DEFINE s == hwbuf \o rxFifo
<1>1. /\ hwbuf \in Seq(RxByte) /\ rxFifo \in Seq(RxByte) /\ rx \in Buffers(RxByte)
      /\ s \in Seq(RxByte) /\ Len(s) = Len(hwbuf) + Len(rxFifo) /\ Len(s) \in Nat
      /\ Len(hwbuf) \in Nat /\ Len(rxFifo) \in Nat
  BY ConcatProperties, LenProperties DEF Device
<1>2. SubSeq(s, 0 + 1, Len(s)) = s
  BY <1>1, SubSeqFull
<1>3. CASE rxFifo = <<>>
  <2>1. UNCHANGED <<rx, hwbuf, rxFifo>>
    BY <1>3 DEF Handler
  <2> DEFINE none == 0
  <2>2. none \in 0 .. Len(s) /\ hwbuf' \o rxFifo' = SubSeq(s, none + 1, Len(s))
    BY <1>1, <1>2, <2>1
  <2>3. Len(hwbuf') + Len(rxFifo') <= Len(hwbuf) + Len(rxFifo)
    BY <1>1, <2>1
  <2> HIDE DEF none
  <2> QED BY <2>1, <2>2, <2>3
<1>4. CASE rxFifo # <<>>
  <2>1. rx' = RxIndication(s).rx /\ hwbuf' = RxIndication(s).rest /\ rxFifo' = <<>>
    BY <1>4 DEF Handler, Receives
  <2> DEFINE k == IF Room = 0 THEN 0 ELSE Fits(s)
  <2> HIDE DEF s
  <2>2. Room \in Nat /\ k \in 0 .. Len(s) /\ k \in Nat /\ (Room > 0 => k = Fits(s))
    <3>1. Indexed(rx)
      BY <1>1 DEF Buffers, Indexed
    <3>2. Room \in Nat
      BY <3>1, Counts, Numbers DEF Room
    <3> QED BY <1>1, <3>2 DEF Fits
  <2>3. /\ RxIndication(s).rx.head = rx.head
        /\ Room = 0 => RxIndication(s).rest = s
        /\ Room > 0 => RxIndication(s).rest = SubSeq(s, Fits(s) + 1, Len(s))
    BY <1>1, RxStores
  <2>4. hwbuf' = SubSeq(s, k + 1, Len(s))
    BY <1>2, <2>1, <2>2, <2>3
  <2> HIDE DEF k
  <2>5. /\ SubSeq(s, k + 1, Len(s)) \in Seq(RxByte)
        /\ Len(SubSeq(s, k + 1, Len(s))) = IF k + 1 <= Len(s) THEN Len(s) - (k + 1) + 1 ELSE 0
    <3>1. \A i \in k + 1 .. Len(s) : s[i] \in RxByte
      BY <1>1, <2>2, ElementOfSeq
    <3> QED BY <1>1, <2>2, <3>1, SubSeqProperties
  <2>6. Len(hwbuf') <= Len(s) /\ Len(rxFifo') = 0 /\ Len(hwbuf') \in Nat
    BY <1>1, <2>1, <2>2, <2>4, <2>5, EmptySeq
  <2>7. hwbuf' \o rxFifo' = SubSeq(s, k + 1, Len(s))
    BY <2>1, <2>4, <2>5, ConcatEmptySeq
  <2>8. \E n \in 0 .. Len(s) : hwbuf' \o rxFifo' = SubSeq(s, n + 1, Len(s))
    BY <2>2, <2>7
  <2>9. Len(hwbuf') + Len(rxFifo') <= Len(hwbuf) + Len(rxFifo) /\ rx'.head = rx.head
    BY <1>1, <2>1, <2>3, <2>6
  <2> QED BY <2>8, <2>9 DEF s
<1> QED BY <1>3, <1>4

LEMMA HandlerFed ==
  ASSUME CallsApart, Typed, Slots, Fed, Handler
  PROVE  Fed'
<1>1. Device /\ UNCHANGED <<pc, call>> /\ rx \in Buffers(RxByte)
  BY DEF Handler, Typed, Device
<1>2. Clearing' = Clearing
  BY <1>1 DEF Clearing
<1>3. Device' /\ Slots'
  BY NextTyped, HandlerSlots DEF Next, Typed
<1>4. CASE Clearing
  <2>1. PICK t \in Tasks : pc[t] = "clear"
    BY <1>4 DEF Clearing
  <2>2. rx'.head = rx.head /\ Len(hwbuf') + Len(rxFifo') <= Size - 1
    <3>1. Len(hwbuf') + Len(rxFifo') <= Len(hwbuf) + Len(rxFifo)
      BY <1>1, HandlerTakes
    <3>2. /\ Len(hwbuf') + Len(rxFifo') \in Nat /\ Len(hwbuf) + Len(rxFifo) \in Nat
          /\ Len(hwbuf) + Len(rxFifo) <= Size - 1
      BY <1>1, <1>3, <1>4, LenProperties DEF Device, Fed
    <3> QED BY <1>1, <3>1, <3>2, HandlerTakes, Numbers
  <2>3. \A u \in Tasks \ {t} : pc[u] = "idle"
    BY <2>1 DEF CallsApart
  <2>4. rx.head = 0
    BY <2>1 DEF Fed
  <2> QED BY <1>1, <1>2, <1>4, <2>1, <2>2, <2>3, <2>4 DEF Fed, Supplied
<1>5. CASE ~Clearing
  <2>1. Held <= Size - 1
    BY <1>5 DEF Fed
  <2>2. /\ Held' = Held /\ Count(rx', rx'.tail) >= Count(rx, rx.tail)
        /\ ReceivedSome => Count(rx', rx'.tail) > 0
    BY <1>1, <2>1, HandlerReceives
  <2>3. Count(rx, rx.tail) \in Nat /\ Count(rx', rx'.tail) \in Nat
    <3>1. Count(rx, rx.tail) \in Nat
      BY <1>1, HeldTypes
    <3>2. rx' \in Buffers(RxByte)
      BY <1>3 DEF Device
    <3> QED BY <3>1, <3>2, ContentsType
  <2>4. ASSUME NEW t \in Tasks PROVE Supplied(pc'[t], call'[t], rx', event'[t])
    <3>1. Supplied(pc[t], call[t], rx, event[t]) /\ call[t].left \in Nat
      BY DEF Fed, Typed, Callers, Calls
    <3>2. ASSUME pc[t] \in {"on", "wait"}, call[t].fct = "read", event'[t] = TRUE
          PROVE  Count(rx', rx'.tail) > 0
      <4>1. CASE event[t] = TRUE
        BY <2>2, <2>3, <3>1, <3>2, <4>1 DEF Supplied
      <4>2. CASE event[t] # TRUE
        <5>1. blocked.fct = "read"
          <6>1. Registered(t, pc[t], call[t].fct, blocked, event[t])
            BY <3>2 DEF Slots
          <6>2. blocked = [taskID |-> t, fct |-> call[t].fct]
            BY <3>2, <4>2, <6>1 DEF Registered
          <6> QED BY <3>2, <6>2
        <5>2. PICK f \in {"read", "write"} : Waits(blocked, f) /\ (f = "read" => ReceivedSome)
          BY <1>1, <3>1, <3>2, <4>2, HandlerWakes
        <5> QED BY <2>2, <5>1, <5>2 DEF Waits
      <4> QED BY <4>1, <4>2
    <3>3. call[t].fct = "read" /\ pc[t] = "get" => Count(rx', rx'.tail) > 0
      BY <2>2, <2>3, <3>1 DEF Supplied
    <3>4. call[t].fct = "read" /\ pc[t] \in {"copy", "head"} =>
            call[t].left <= Count(rx', rx'.tail)
      BY <2>2, <2>3, <3>1 DEF Supplied
    <3> QED BY <1>1, <3>1, <3>2, <3>3, <3>4 DEF Supplied
  <2>5. \A t \in Tasks : pc'[t] # "clear"
    BY <1>1, <1>5 DEF Clearing
  <2> QED BY <1>2, <1>5, <2>1, <2>2, <2>4, <2>5 DEF Fed
<1> QED BY <1>4, <1>5

LEMMA ArriveFed ==
  ASSUME Typed, Fed, Arrive
  PROVE  Fed'
<1>1. /\ Device /\ rxFifo \in Seq(RxByte)
      /\ Len(hwbuf) \in Nat /\ Len(rxFifo) \in Nat /\ Count(rx, rx.tail) \in Nat
  BY HeldTypes DEF Typed, Device
<1>2. UNCHANGED <<rx, hwbuf, pc, call, event>>
  BY DEF Arrive, buffers, tasks
<1>3. Len(rxFifo') = Len(rxFifo) + 1
  <2>1. arrived' \in RxByte
    BY NextTyped DEF Next, Typed, Device
  <2> QED BY <1>1, <2>1, AppendProperties DEF Arrive
<1>4. IF Clearing THEN Len(hwbuf) + Len(rxFifo) < Size - 1 ELSE Held < Size - 1
  BY <1>1, LengthIsHeld DEF Arrive
<1>5. Clearing' = Clearing
  BY <1>2 DEF Clearing
<1>6. IF Clearing' THEN Len(hwbuf') + Len(rxFifo') <= Size - 1 ELSE Held' <= Size - 1
  BY <1>1, <1>2, <1>3, <1>4, <1>5, Numbers DEF Held
<1> QED BY <1>2, <1>6 DEF Fed

LEMMA FedMove ==
  ASSUME NEW t \in Tasks, \A u \in Tasks \ {t} : pc[u] = "idle" /\ pc'[u] = "idle",
         IF pc'[t] = "clear" THEN Len(hwbuf') + Len(rxFifo') <= Size - 1
                             ELSE Held' <= Size - 1,
         pc'[t] = "clear" => rx'.head = 0,
         Supplied(pc'[t], call'[t], rx', event'[t])
  PROVE  Fed'
<1>1. Clearing' <=> pc'[t] = "clear"
  BY DEF Clearing
<1>2. \A u \in Tasks \ {t} : Supplied(pc'[u], call'[u], rx', event'[u]) /\ pc'[u] # "clear"
  BY DEF Supplied
<1> QED BY <1>1, <1>2 DEF Fed

\* The steps of write, and those of read that leave the bytes where they are.
LEMMA CallFed ==
  ASSUME CallsApart, CallsApart', Typed, Slots, Fed, NEW t \in Tasks,
         \/ Read(t) \/ GetTail(t) \/ GetCopy(t)
         \/ Write(t) \/ WriteSpace(t) \/ PutCopy(t) \/ PutTail(t) \/ StartTx(t)
         \/ InterruptOff(t) \/ RegisterTask(t) \/ RegisterFct(t)
         \/ InterruptOn(t) \/ WakeUp(t)
  PROVE  Fed'
<1>1. \A u \in Tasks \ {t} : pc[u] = "idle" /\ pc'[u] = "idle"
  BY OthersIdle DEF TaskStep
<1>2. /\ Device /\ call[t] \in Calls /\ Suited(pc[t], call[t])
      /\ call \in [Tasks -> Calls] /\ pc \in [Tasks -> Steps] /\ event \in [Tasks -> BOOLEAN]
      /\ Count(rx, rx.tail) \in Nat /\ call[t].left \in Nat
      /\ Empty(rx) <=> Count(rx, rx.tail) = 0
  BY HeldTypes DEF Typed, Callers, Device, Calls
<1>3. UNCHANGED <<rx, hwbuf, rxFifo>>
  BY DEF Read, GetTail, GetCopy, Write, WriteSpace, PutCopy, PutTail, StartTx, InterruptOff,
         RegisterTask, RegisterFct, InterruptOn, WakeUp, buffers, uart
<1>4. pc[t] # "clear"
  BY DEF Read, GetTail, GetCopy, Write, WriteSpace, PutCopy, PutTail, StartTx, InterruptOff,
         RegisterTask, RegisterFct, InterruptOn, WakeUp, At
<1>5. Held' <= Size - 1
  <2>1. ~Clearing
    BY <1>1, <1>4, AloneClears
  <2> QED BY <1>3, <2>1 DEF Fed, Held
<1>6. Supplied(pc[t], call[t], rx, event[t])
  BY <1>1 DEF Fed
<1>7. pc'[t] # "clear" /\ Supplied(pc'[t], call'[t], rx, event'[t])
  <2>1. CASE Read(t)
    <3>1. PICK n \in ReadSizes : call'[t].left = n
      BY <1>2, <2>1 DEF Read, Calls
    <3>2. n > 0
      BY SerialAssumption
    <3>3. pc'[t] = IF Empty(rx) THEN "off" ELSE "get"
      BY <1>2, <2>1 DEF Read, Goes
    <3> QED BY <1>2, <3>1, <3>2, <3>3 DEF Supplied
  <2>2. CASE GetTail(t)
    <3> DEFINE m == Min({call[t].left, Count(rx, rx.tail)})
    <3>1. pc'[t] = "copy" /\ call'[t].left = m
      BY <1>2, <2>2 DEF GetTail, Goes, Calls
    <3>2. call[t].left > 0 /\ Count(rx, rx.tail) > 0
      BY <1>2, <1>6, <2>2 DEF GetTail, At, Suited, Supplied
    <3>3. m > 0 /\ m <= Count(rx, rx.tail)
      BY <1>2, <3>2, MinOfTwo
    <3> QED BY <3>1, <3>3 DEF Supplied
  <2>3. CASE GetCopy(t)
    <3>1. pc[t] = "copy" /\ pc'[t] = "head" /\ call'[t].left = call[t].left
          /\ call[t].fct = "read"
      BY <1>2, <2>3 DEF GetCopy, Goes, At, Calls
    <3> QED BY <1>6, <3>1 DEF Supplied
  <2>4. CASE Write(t) \/ WriteSpace(t) \/ PutCopy(t) \/ PutTail(t)
    <3>1. Write(t) \/ call[t].fct = "write"
      BY <1>2, <2>4 DEF WriteSpace, PutCopy, PutTail, At, Suited
    <3>2. call'[t].fct = "write"
      BY <1>2, <2>4, <3>1 DEF Write, WriteSpace, PutCopy, PutTail, Calls
    <3>3. pc'[t] # "clear"
      BY <1>2, <2>4 DEF Write, WriteSpace, PutCopy, PutTail, Goes
    <3> QED BY <3>2, <3>3 DEF Supplied
  <2>5. CASE StartTx(t)
    <3>1. call[t].fct = "write"
      BY <1>2, <2>5 DEF StartTx, At, Suited
    <3>2. call'[t].fct # "read" /\ pc'[t] # "clear"
      BY <1>2, <2>5, <3>1 DEF StartTx, Goes, Returns, NoCall
    <3> QED BY <3>2 DEF Supplied
  <2>6. CASE InterruptOff(t) \/ RegisterTask(t)
    <3>1. /\ pc[t] \in {"off", "who"} /\ pc'[t] \in {"who", "fct"}
          /\ call'[t] = call[t]
      BY <1>2, <2>6 DEF InterruptOff, RegisterTask, Goes, At
    <3> QED BY <1>6, <3>1 DEF Supplied
  <2>7. CASE RegisterFct(t)
    <3>1. pc[t] = "fct" /\ pc'[t] = "on" /\ call'[t] = call[t] /\ event'[t] = event[t]
      BY <1>2, <2>7 DEF RegisterFct, Goes, At
    <3>2. event[t] = FALSE
      BY <3>1 DEF Slots, Registered
    <3> QED BY <1>6, <3>1, <3>2 DEF Supplied
  <2>8. CASE InterruptOn(t)
    <3>1. pc[t] = "on" /\ pc'[t] = "wait" /\ call'[t] = call[t] /\ event'[t] = event[t]
      BY <1>2, <2>8 DEF InterruptOn, Goes, At
    <3> QED BY <1>6, <3>1 DEF Supplied
  <2>9. CASE WakeUp(t)
    <3>1. /\ pc[t] = "wait" /\ event[t] = TRUE /\ call'[t] = call[t]
          /\ pc'[t] = IF call[t].fct = "read" THEN "get" ELSE "space"
      BY <1>2, <2>9 DEF WakeUp, Goes, At
    <3> QED BY <1>6, <3>1 DEF Supplied
  <2> QED BY <2>1, <2>2, <2>3, <2>4, <2>5, <2>6, <2>7, <2>8, <2>9
<1> QED BY <1>1, <1>3, <1>5, <1>7, FedMove

\* The steps that take the bytes out of the buffer.
LEMMA TakingFed ==
  ASSUME CallsApart, CallsApart', Typed, Slots, Fed, NEW t \in Tasks,
         GetHead(t) \/ ClearHead(t) \/ ClearTail(t)
  PROVE  Fed'
<1>1. \A u \in Tasks \ {t} : pc[u] = "idle" /\ pc'[u] = "idle"
  BY OthersIdle DEF TaskStep
<1>2. /\ Device /\ Device' /\ call[t] \in Calls /\ Suited(pc[t], call[t])
      /\ call \in [Tasks -> Calls] /\ pc \in [Tasks -> Steps] /\ rx \in Buffers(RxByte)
      /\ Count(rx, rx.tail) \in Nat /\ call[t].left \in Nat
      /\ Len(hwbuf) \in Nat /\ Len(rxFifo) \in Nat
  BY HeldTypes, ReadTyped DEF Typed, Callers, Device, Calls
<1>3. UNCHANGED <<hwbuf, rxFifo>>
  BY DEF GetHead, ClearHead, ClearTail, uart
<1>4. CASE GetHead(t)
  <2>1. /\ pc[t] = "head" /\ pc'[t] = "idle" /\ rx' = MoveHead(rx, call[t].left)
        /\ call[t].fct = "read"
    BY <1>2, <1>4 DEF GetHead, At, Returns, Goes, Suited
  <2>2. call[t].left \in 0 .. Count(rx, rx.tail)
    BY <1>1, <1>2, <2>1 DEF Fed, Supplied
  <2>3. Count(rx', rx.tail) = Count(rx, rx.tail) - call[t].left /\ rx'.tail = rx.tail
    <3> DEFINE k == call[t].left
    <3>1. k \in 0 .. Count(rx, rx.tail) /\ rx' = MoveHead(rx, k)
      BY <2>1, <2>2
    <3> HIDE DEF k
    <3>2. Count(MoveHead(rx, k), rx.tail) = Count(rx, rx.tail) - k
      BY <1>2, <3>1, HeadMoves
    <3>3. MoveHead(rx, k).tail = rx.tail
      BY <1>2 DEF MoveHead, Buffers
    <3> QED BY <3>1, <3>2, <3>3 DEF k
  <2>4. ~Clearing
    BY <1>1, <2>1, AloneClears
  <2>5. Held <= Size - 1
    BY <2>4 DEF Fed
  <2>6. Held' <= Size - 1
    BY <1>2, <1>3, <2>3, <2>5, Numbers DEF Held
  <2> QED BY <1>1, <2>1, <2>6, FedMove DEF Supplied
<1>5. CASE ClearHead(t)
  <2>1. pc[t] = "idle" /\ pc'[t] = "clear" /\ rx'.head = 0
    BY <1>2, <1>5 DEF ClearHead, At, Goes, Buffers
  <2>2. ~Clearing
    BY <1>1, <2>1, AloneClears
  <2>3. Len(hwbuf') + Len(rxFifo') <= Size - 1
    BY <1>2, <1>3, <2>2, Numbers DEF Fed, Held
  <2> QED BY <1>1, <2>1, <2>3, FedMove DEF Supplied
<1>6. CASE ClearTail(t)
  <2>1. pc[t] = "clear" /\ pc'[t] = "idle" /\ rx'.tail = 0 /\ rx'.head = rx.head
    BY <1>2, <1>6 DEF ClearTail, At, Goes, Buffers
  <2>2. Clearing /\ rx.head = 0
    BY <1>1, <2>1, AloneClears DEF Fed
  <2>3. Count(rx', rx'.tail) = 0
    <3>1. Empty(rx')
      BY <2>1, <2>2 DEF Empty
    <3>2. Indexed(rx')
      BY <1>2 DEF Device, Buffers, Indexed
    <3> QED BY <3>1, <3>2, Counts
  <2>4. Held' <= Size - 1
    BY <1>2, <1>3, <2>2, <2>3, Numbers DEF Fed, Held
  <2> QED BY <1>1, <2>1, <2>4, FedMove DEF Supplied
<1> QED BY <1>4, <1>5, <1>6

LEMMA NextFed ==
  ASSUME CallsApart, CallsApart', Typed, Slots, Fed, [Next]_vars
  PROVE  Fed'
<1>1. CASE Handler
  BY <1>1, HandlerFed
<1>2. CASE Arrive
  BY <1>2, ArriveFed
<1>3. CASE \E t \in Tasks : TaskStep(t)
  BY <1>3, CallFed, TakingFed DEF TaskStep
<1>4. CASE Shift
  BY <1>4 DEF Shift, buffers, tasks, Fed, Held, Clearing
<1>5. CASE UNCHANGED vars
  BY <1>5 DEF vars, uart, tasks, Fed, Held, Clearing
<1> QED BY <1>1, <1>2, <1>3, <1>4, <1>5 DEF Next

\* A read that has been woken finds a byte, and so does one that did not have to
\* wait: if calls do not overlap, and the partner does not send more than there is
\* room for.
THEOREM WokenForData ==
  Spec /\ []CallsApart => []NeverEmptyHanded
<1>1. Init => Typed /\ Slots /\ Fed
  BY InitTyped, InitSlots, InitFed
<1>2. CallsApart /\ CallsApart' /\ Typed /\ Slots /\ Fed /\ [Next]_vars =>
        (Typed /\ Slots /\ Fed)'
  BY NextTyped, NextSlots, NextFed
<1>3. Slots /\ Fed => NeverEmptyHanded
  BY DEF Slots, Fed, Supplied, NeverEmptyHanded
<1> QED BY <1>1, <1>2, <1>3, PTL DEF Spec

-----------------------------------------------------------------------------
(* Receiving is a queue, if no two tasks read at a time, whoever writes.     *)

Takes(t) == pc[t] = "clear" \/ (pc[t] # "idle" /\ call[t].fct = "read")
ReadsApart == \A t, u \in Tasks : Takes(t) /\ Takes(u) => t = u

\* What the reader has seen and copied holds good while the handler adds bytes:
\* what it takes next are the oldest that are held.
Reading(t) ==
  /\ pc[t] = "clear" => rx.head = 0
  /\ pc[t] = "copy" /\ call[t].fct = "read" =>
       /\ call[t].left <= Count(rx, call[t].mark)
       /\ Count(rx, call[t].mark) <= Count(rx, rx.tail)
  /\ pc[t] = "head" =>
       /\ call[t].left <= Count(rx, rx.tail) /\ Len(call[t].data) = call[t].left
       /\ \A i \in 1 .. call[t].left : call[t].data[i] = RxBytes[i]

Roomy == IF Clearing THEN Len(hwbuf) + Len(rxFifo) <= Size - 1 ELSE Held <= Size - 1
Reads == Roomy /\ \A t \in Tasks : Reading(t)

LEMMA InitReads == Init => Reads
<1> SUFFICES ASSUME Init PROVE Reads
  OBVIOUS
<1>1. Typed
  BY InitTyped
<1>2. Count(rx, rx.tail) = 0 /\ Len(hwbuf) = 0 /\ Len(rxFifo) = 0 /\ ~Clearing
  <2>1. Empty(rx)
    BY DEF Init, CircBufInit, Empty
  <2> QED BY <1>1, <2>1, HeldTypes, EmptySeq DEF Init, Clearing, Typed
<1>3. Held = 0
  BY <1>2 DEF Held
<1> QED BY <1>2, <1>3, Numbers DEF Reads, Roomy, Reading, Init

\* All that is held, in three parts.
LEMMA RxSequences ==
  ASSUME Device
  PROVE  /\ hwbuf \in Seq(RxByte) /\ rxFifo \in Seq(RxByte) /\ Contents(rx) \in Seq(RxByte)
         /\ hwbuf \o rxFifo \in Seq(RxByte) /\ RxBytes \in Seq(RxByte)
         /\ RxBytes = IF Clearing THEN hwbuf \o rxFifo
                      ELSE Contents(rx) \o (hwbuf \o rxFifo)
         /\ Len(Contents(rx)) = Count(rx, rx.tail)
<1>1. /\ hwbuf \in Seq(RxByte) /\ rxFifo \in Seq(RxByte) /\ Contents(rx) \in Seq(RxByte)
      /\ Len(Contents(rx)) = Count(rx, rx.tail)
  BY ContentsType DEF Device
<1>2. <<>> \o hwbuf = hwbuf
  BY <1>1, ConcatEmptySeq
<1> DEFINE u == Contents(rx)
<1>3. u \in Seq(RxByte)
  BY <1>1
<1>4. RxBytes = (IF Clearing THEN <<>> ELSE u) \o hwbuf \o rxFifo
  BY DEF RxBytes
<1> HIDE DEF u
<1>5. (u \o hwbuf) \o rxFifo = u \o (hwbuf \o rxFifo)
  BY <1>1, <1>3, ConcatAssociative, SMTT(30)
<1>6. hwbuf \o rxFifo \in Seq(RxByte) /\ u \o (hwbuf \o rxFifo) \in Seq(RxByte)
  BY <1>1, <1>3, ConcatProperties
<1>7. RxBytes = IF Clearing THEN hwbuf \o rxFifo ELSE u \o (hwbuf \o rxFifo)
  BY <1>2, <1>4, <1>5
<1> QED BY <1>1, <1>6, <1>7 DEF u

\* The bytes in the buffer are the oldest.
LEMMA RxFront ==
  ASSUME Device, ~Clearing, NEW k \in 0 .. Count(rx, rx.tail)
  PROVE  /\ Front(rx, k) \in Seq(RxByte) /\ Len(Front(rx, k)) = k
         /\ \A i \in 1 .. k : RxBytes[i] = Front(rx, k)[i]
<1> DEFINE n == Count(rx, rx.tail)
           u == Contents(rx)
           w == hwbuf \o rxFifo
<1>1. rx \in Buffers(RxByte) /\ n \in Nat /\ k \in Nat /\ k <= n
  BY HeldTypes DEF Device
<1>2. /\ Front(rx, k) \in Seq(RxByte) /\ Len(Front(rx, k)) = k
      /\ \A i \in 1 .. k : Front(rx, k)[i] = rx.buf[Masked(rx.head + i - 1)]
  BY <1>1, FrontType
<1>3. /\ u \in Seq(RxByte) /\ Len(u) = n
      /\ \A i \in 1 .. n : u[i] = rx.buf[Masked(rx.head + i - 1)]
  <2>1. /\ Front(rx, n) \in Seq(RxByte) /\ Len(Front(rx, n)) = n
        /\ \A i \in 1 .. n : Front(rx, n)[i] = rx.buf[Masked(rx.head + i - 1)]
    BY <1>1, FrontType
  <2>2. u = Front(rx, n)
    BY ContentsFront
  <2> HIDE DEF u, n
  <2> QED BY <2>1, <2>2
<1>4. w \in Seq(RxByte) /\ RxBytes = u \o w
  BY RxSequences
<1> HIDE DEF n, u, w
<1>5. \A i \in 1 .. Len(u) + Len(w) : (u \o w)[i] = IF i <= Len(u) THEN u[i] ELSE w[i - Len(u)]
  BY <1>3, <1>4, ConcatProperties
<1>6. ASSUME NEW i \in 1 .. k PROVE RxBytes[i] = Front(rx, k)[i]
  <2>1. i \in 1 .. n /\ i <= Len(u) /\ i \in 1 .. Len(u) + Len(w)
    BY <1>1, <1>3, <1>4, LenProperties
  <2> QED BY <1>2, <1>3, <1>4, <1>5, <2>1
<1> QED BY <1>2, <1>6

\* Other tasks read nothing while one of them is in a call.
LEMMA ReaderClears ==
  ASSUME ReadsApart, NEW t \in Tasks, Takes(t)
  PROVE  Clearing <=> pc[t] = "clear"
  BY DEF Clearing, ReadsApart, Takes

LEMMA HandlerReads ==
  ASSUME ReadsApart, Typed, Reads, Handler
  PROVE  Reads' /\ Received!Next
<1>1. Device /\ Device' /\ UNCHANGED <<pc, call>> /\ rx \in Buffers(RxByte)
  BY NextTyped DEF Next, Handler, Typed, Device
<1>2. Clearing' = Clearing
  BY <1>1 DEF Clearing
<1>3. Through("arrived")' = <<>> /\ Through("read")' = <<>>
  <2>1. moved'.at \in {"sent", "none"}
    <3>1. CASE thre /\ txInt
      <4>1. \E c \in TxConfirmation : Sends(c)
        BY <3>1 DEF Handler
      <4> QED BY <4>1 DEF Sends, Moved
    <3>2. CASE ~(thre /\ txInt)
      <4>1. moved' = Nothing
        BY <3>2 DEF Handler
      <4> QED BY <4>1 DEF Nothing, Moved
    <3> QED BY <3>1, <3>2
  <2> QED BY <2>1 DEF Through
<1>4. rx'.head = rx.head /\ \A m : Count(rx', m) = Count(rx, m)
  BY <1>1, HandlerTakes DEF Count
<1>5. CASE Clearing
  <2>1. Roomy'
    <3>1. Len(hwbuf') + Len(rxFifo') <= Len(hwbuf) + Len(rxFifo)
      BY <1>1, HandlerTakes
    <3>2. /\ Len(hwbuf') + Len(rxFifo') \in Nat /\ Len(hwbuf) + Len(rxFifo) \in Nat
          /\ Len(hwbuf) + Len(rxFifo) <= Size - 1
      BY <1>1, <1>5, LenProperties DEF Device, Reads, Roomy
    <3> QED BY <1>2, <1>5, <3>1, <3>2, Numbers DEF Roomy
  <2>2. ASSUME NEW t \in Tasks PROVE Reading(t)'
    <3>1. Reading(t)
      BY DEF Reads
    <3>2. PICK u \in Tasks : pc[u] = "clear"
      BY <1>5 DEF Clearing
    <3>3. pc[t] \in {"idle", "clear"} \/ call[t].fct # "read"
      BY <3>2 DEF ReadsApart, Takes
    <3>4. pc[t] # "head"
      BY <3>3 DEF Typed, Callers, Suited
    <3> QED BY <1>1, <1>4, <3>1, <3>3, <3>4 DEF Reading
  <2>3. RxBytes = hwbuf \o rxFifo /\ RxBytes' = hwbuf' \o rxFifo'
    <3>1. <<>> \o hwbuf = hwbuf /\ <<>> \o hwbuf' = hwbuf'
      BY <1>1, ConcatEmptySeq DEF Device
    <3>2. RxBytes = <<>> \o hwbuf \o rxFifo /\ RxBytes' = <<>> \o hwbuf' \o rxFifo'
      BY <1>2, <1>5 DEF RxBytes
    <3> QED BY <3>1, <3>2
  <2>4. Received!Clear
    BY <1>1, <1>3, <1>5, <2>3, HandlerTakes DEF Received!Clear
  <2> QED BY <2>1, <2>2, <2>4 DEF Reads, Received!Next
<1>6. CASE ~Clearing
  <2>1. Held <= Size - 1
    BY <1>6 DEF Reads, Roomy
  <2>2. /\ Contents(rx') \o hwbuf' \o rxFifo' = Contents(rx) \o hwbuf \o rxFifo
        /\ Held' = Held
        /\ Count(rx', rx'.tail) >= Count(rx, rx.tail)
    BY <1>1, <2>1, HandlerReceives
  <2>3. RxBytes' = RxBytes
    BY <1>2, <1>6, <2>2 DEF RxBytes
  <2>4. Roomy'
    BY <1>2, <1>6, <2>1, <2>2 DEF Roomy
  <2>5. ASSUME NEW t \in Tasks PROVE Reading(t)'
    <3>1. Reading(t) /\ call[t].left \in Nat
      BY DEF Reads, Typed, Callers, Calls
    <3>2. Count(rx, rx.tail) \in Nat /\ Count(rx', rx'.tail) \in Nat
      <4>1. rx' \in Buffers(RxByte)
        BY <1>1 DEF Device
      <4> QED BY <1>1, <4>1, ContentsType
    <3>3. /\ call'[t] = call[t] /\ pc'[t] = pc[t]
      BY <1>1
    <3>4. pc[t] = "copy" /\ call[t].fct = "read" =>
            /\ call[t].left <= Count(rx', call[t].mark)
            /\ Count(rx', call[t].mark) <= Count(rx', rx'.tail)
      <4> SUFFICES ASSUME pc[t] = "copy", call[t].fct = "read"
                   PROVE  /\ call[t].left <= Count(rx', call[t].mark)
                          /\ Count(rx', call[t].mark) <= Count(rx', rx'.tail)
        OBVIOUS
      <4>1. /\ call[t].left <= Count(rx, call[t].mark)
            /\ Count(rx, call[t].mark) <= Count(rx, rx.tail)
        BY <3>1 DEF Reading
      <4>2. Count(rx, call[t].mark) \in Nat /\ Count(rx', call[t].mark) = Count(rx, call[t].mark)
        <5>1. call[t].mark \in Places /\ call[t].mark \in Int /\ rx.head \in Int
          BY <1>1, Numbers DEF Typed, Callers, Suited, Buffers
        <5>2. Masked(call[t].mark - rx.head) \in Places
          BY <5>1, MaskedRange
        <5> QED BY <1>4, <5>2, Numbers DEF Count
      <4> QED BY <2>2, <3>2, <4>1, <4>2
    <3>5. pc[t] = "head" => call[t].left <= Count(rx', rx'.tail)
      BY <2>2, <3>1, <3>2 DEF Reading
    <3> QED BY <1>4, <2>3, <3>1, <3>3, <3>4, <3>5 DEF Reading
  <2>6. Received!Quiet
    BY <1>2, <1>3, <2>3 DEF Received!Quiet
  <2> QED BY <2>4, <2>5, <2>6 DEF Reads, Received!Next
<1> QED BY <1>5, <1>6

\* A step of one task that moves no byte of what has been received.
LEMMA ReadsStay ==
  ASSUME Reads, NEW t \in Tasks, UNCHANGED <<rx, hwbuf, rxFifo>>,
         pc[t] # "clear", pc'[t] # "clear", Reading(t)',
         \A u \in Tasks \ {t} : pc'[u] = pc[u] /\ call'[u] = call[u],
         moved'.at \notin {"arrived", "read"}
  PROVE  Reads' /\ Received!Next
<1>1. Clearing' = Clearing
  BY DEF Clearing
<1>2. RxBytes' = RxBytes
  BY <1>1 DEF RxBytes
<1>3. \A u \in Tasks : Reading(u)'
  <2> SUFFICES ASSUME NEW u \in Tasks, u # t PROVE Reading(u)'
    OBVIOUS
  <2>1. Reading(u) /\ pc'[u] = pc[u] /\ call'[u] = call[u]
    BY DEF Reads
  <2> QED BY <1>2, <2>1 DEF Reading
<1>4. Reads'
  BY <1>1, <1>3 DEF Reads, Roomy, Held
<1>5. Received!Quiet
  BY <1>1, <1>2 DEF Received!Quiet, Through
<1> QED BY <1>4, <1>5 DEF Received!Next

\* The steps of write, and those of read that leave the bytes where they are.
LEMMA CallReads ==
  ASSUME ReadsApart, Typed, Reads, NEW t \in Tasks,
         \/ Read(t) \/ GetTail(t) \/ GetCopy(t)
         \/ Write(t) \/ WriteSpace(t) \/ PutCopy(t) \/ PutTail(t) \/ StartTx(t)
         \/ InterruptOff(t) \/ RegisterTask(t) \/ RegisterFct(t)
         \/ InterruptOn(t) \/ WakeUp(t)
  PROVE  Reads' /\ Received!Next
<1>1. /\ Device /\ call[t] \in Calls /\ Suited(pc[t], call[t]) /\ rx \in Buffers(RxByte)
      /\ call \in [Tasks -> Calls] /\ pc \in [Tasks -> Steps] /\ Reading(t)
      /\ Count(rx, rx.tail) \in Nat /\ call[t].left \in Nat
  BY HeldTypes DEF Typed, Callers, Device, Calls, Reads
<1>2. UNCHANGED <<rx, hwbuf, rxFifo>>
  BY DEF Read, GetTail, GetCopy, Write, WriteSpace, PutCopy, PutTail, StartTx, InterruptOff,
         RegisterTask, RegisterFct, InterruptOn, WakeUp, buffers, uart
<1>3. pc[t] # "clear"
  BY DEF Read, GetTail, GetCopy, Write, WriteSpace, PutCopy, PutTail, StartTx, InterruptOff,
         RegisterTask, RegisterFct, InterruptOn, WakeUp, At
<1>4. moved'.at \notin {"arrived", "read"}
  <2>1. CASE StartTx(t)
    <3>1. \E c \in TxConfirmation : Sends(c)
      BY <2>1 DEF StartTx
    <3> QED BY <3>1 DEF Sends, Moved
  <2>2. CASE PutTail(t)
    BY <2>2 DEF PutTail, Moved
  <2>3. CASE ~StartTx(t) /\ ~PutTail(t)
    <3>1. Quiet
      BY <2>3 DEF Read, GetTail, GetCopy, Write, WriteSpace, PutCopy, InterruptOff,
             RegisterTask, RegisterFct, InterruptOn, WakeUp
    <3> QED BY <3>1 DEF Quiet, Nothing, Moved
  <2> QED BY <2>1, <2>2, <2>3
<1>5. \A u \in Tasks \ {t} : pc'[u] = pc[u] /\ call'[u] = call[u]
  BY <1>1 DEF Read, GetTail, GetCopy, Write, WriteSpace, PutCopy, PutTail, StartTx,
         InterruptOff, RegisterTask, RegisterFct, InterruptOn, WakeUp, Goes, Returns
<1>6. pc'[t] # "clear" /\ Reading(t)'
  <2>1. CASE Read(t)
    <3>1. pc'[t] \in {"off", "get"}
      BY <1>1, <2>1 DEF Read, Goes
    <3> QED BY <3>1 DEF Reading
  <2>2. CASE GetTail(t)
    <3> DEFINE m == Min({call[t].left, Count(rx, rx.tail)})
    <3>1. pc'[t] = "copy" /\ call'[t].left = m /\ call'[t].mark = rx.tail
      BY <1>1, <2>2 DEF GetTail, Goes, Calls
    <3>2. m <= Count(rx, rx.tail)
      BY <1>1, MinOfTwo
    <3>3. Count(rx, rx.tail) <= Count(rx, rx.tail) /\ rx' = rx
      BY <1>1, <1>2
    <3> HIDE DEF m
    <3> QED BY <3>1, <3>2, <3>3 DEF Reading
  <2>3. CASE GetCopy(t)
    <3> DEFINE k == call[t].left
    <3>1. /\ pc[t] = "copy" /\ pc'[t] = "head" /\ call[t].fct = "read"
          /\ call'[t].left = k /\ call'[t].data = Taken(rx, call[t].mark, k)
      BY <1>1, <2>3 DEF GetCopy, Goes, At, Calls
    <3>2. /\ k <= Count(rx, call[t].mark) /\ Count(rx, call[t].mark) <= Count(rx, rx.tail)
          /\ call[t].mark \in Places /\ k \in Nat
      BY <1>1, <3>1 DEF Reading, Suited
    <3>3. Taken(rx, call[t].mark, k) = Front(rx, k)
      BY <1>1, <3>2, TakenFront
    <3>4. k \in 0 .. Count(rx, rx.tail)
      <4>1. Count(rx, call[t].mark) \in Nat
        <5>1. call[t].mark \in Int /\ rx.head \in Int
          BY <1>1, <3>2, Numbers DEF Buffers
        <5>2. Masked(call[t].mark - rx.head) \in Places
          BY <5>1, MaskedRange
        <5> QED BY <5>2, Numbers DEF Count
      <4> QED BY <1>1, <3>2, <4>1
    <3>5. ~Clearing
      BY <3>1, ReaderClears DEF Takes
    <3> HIDE DEF k
    <3>6. /\ Len(Front(rx, k)) = k
          /\ \A i \in 1 .. k : RxBytes[i] = Front(rx, k)[i]
      BY <1>1, <3>4, <3>5, RxFront
    <3>7. RxBytes' = RxBytes
      <4>1. Clearing' = Clearing
        BY <1>5, <3>1 DEF Clearing
      <4> QED BY <1>2, <4>1 DEF RxBytes
    <3>8. call'[t].data = Front(rx, k) /\ rx' = rx
      BY <1>2, <3>1, <3>3
    <3>9. /\ call'[t].left <= Count(rx', rx'.tail) /\ Len(call'[t].data) = call'[t].left
          /\ \A i \in 1 .. call'[t].left : call'[t].data[i] = RxBytes'[i]
      BY <3>1, <3>4, <3>6, <3>7, <3>8
    <3> QED BY <3>1, <3>2, <3>9 DEF Reading
  <2>4. CASE Write(t) \/ WriteSpace(t) \/ PutCopy(t) \/ PutTail(t)
    <3>1. Write(t) \/ call[t].fct = "write"
      BY <1>1, <2>4 DEF WriteSpace, PutCopy, PutTail, At, Suited
    <3>2. call'[t].fct = "write"
      BY <1>1, <2>4, <3>1 DEF Write, WriteSpace, PutCopy, PutTail, Calls
    <3>3. pc'[t] \notin {"clear", "head"}
      BY <1>1, <2>4 DEF Write, WriteSpace, PutCopy, PutTail, Goes
    <3> QED BY <3>2, <3>3 DEF Reading
  <2>5. CASE StartTx(t)
    <3>1. call[t].fct = "write"
      BY <1>1, <2>5 DEF StartTx, At, Suited
    <3>2. call'[t].fct # "read" /\ pc'[t] \in {"off", "idle"}
      BY <1>1, <2>5, <3>1 DEF StartTx, Goes, Returns, NoCall
    <3> QED BY <3>2 DEF Reading
  <2>6. CASE \/ InterruptOff(t) \/ RegisterTask(t) \/ RegisterFct(t)
             \/ InterruptOn(t) \/ WakeUp(t)
    <3>1. pc[t] # "idle" /\ call'[t] = call[t]
      BY <2>6 DEF InterruptOff, RegisterTask, RegisterFct, InterruptOn, WakeUp, At
    <3>2. pc'[t] \in {"who", "fct", "on", "wait", "get", "space"}
      BY <1>1, <2>6 DEF InterruptOff, RegisterTask, RegisterFct, InterruptOn, WakeUp, Goes
    <3> QED BY <1>1, <3>1, <3>2 DEF Reading
  <2> QED BY <2>1, <2>2, <2>3, <2>4, <2>5, <2>6
<1> QED BY <1>2, <1>3, <1>4, <1>5, <1>6, ReadsStay

\* A reader that has taken bytes out has nobody to disturb.
LEMMA ReadersStay ==
  ASSUME Typed, Reads, NEW t \in Tasks, Reading(t)',
         \A u \in Tasks \ {t} : ~Takes(u) /\ pc'[u] = pc[u] /\ call'[u] = call[u]
  PROVE  \A u \in Tasks : Reading(u)'
<1> SUFFICES ASSUME NEW u \in Tasks, u # t PROVE Reading(u)'
  OBVIOUS
<1>1. Reading(u) /\ Suited(pc[u], call[u]) /\ pc'[u] = pc[u] /\ call'[u] = call[u]
  BY DEF Reads, Typed, Callers
<1>2. pc[u] # "clear" /\ pc[u] # "head" /\ ~(call[u].fct = "read" /\ pc[u] # "idle")
  BY <1>1 DEF Takes, Suited
<1> QED BY <1>1, <1>2 DEF Reading

LEMMA Dropped ==
  ASSUME NEW S, NEW s \in Seq(S), NEW t \in Seq(S)
  PROVE  SubSeq(s \o t, Len(s) + 1, Len(s \o t)) = t
<1>1. Len(s) \in Nat /\ Len(t) \in Nat /\ Len(s \o t) = Len(s) + Len(t)
  BY LenProperties, ConcatProperties
<1>2. CASE Len(t) = 0
  <2>1. t = <<>>
    BY <1>2, EmptySeq
  <2> QED BY <1>1, <1>2, <2>1, SubSeqEmpty
<1>3. CASE Len(t) > 0
  <2> DEFINE m == Len(s) + 1
             n == Len(s) + Len(t)
  <2>1. m \in Len(s) + 1 .. Len(s) + Len(t) /\ n \in Len(s) + 1 .. Len(s) + Len(t)
    BY <1>1, <1>3
  <2>2. m - Len(s) = 1 /\ n - Len(s) = Len(t)
    BY <1>1
  <2> HIDE DEF m, n
  <2>3. SubSeq(s \o t, m, n) = SubSeq(t, m - Len(s), n - Len(s))
    BY <2>1, SubSeqOfConcat2
  <2>4. SubSeq(t, 1, Len(t)) = t
    BY SubSeqFull
  <2> QED BY <1>1, <2>2, <2>3, <2>4 DEF m, n
<1> QED BY <1>1, <1>2, <1>3

\* read takes the oldest bytes out.
LEMMA GetHeadReads ==
  ASSUME ReadsApart, Typed, Reads, NEW t \in Tasks, GetHead(t)
  PROVE  Reads' /\ Received!Next
<1> DEFINE k == call[t].left
           d == call[t].data
           s == hwbuf \o rxFifo
<1>1. /\ Device /\ Device' /\ call[t] \in Calls /\ Suited(pc[t], call[t])
      /\ call \in [Tasks -> Calls] /\ pc \in [Tasks -> Steps] /\ rx \in Buffers(RxByte)
      /\ Count(rx, rx.tail) \in Nat /\ k \in Nat /\ d \in Seq(RxByte)
      /\ Len(hwbuf) \in Nat /\ Len(rxFifo) \in Nat
  BY HeldTypes, ReadTyped DEF Typed, Callers, Device, Calls
<1>2. /\ pc[t] = "head" /\ rx' = MoveHead(rx, k) /\ moved'.at = "read" /\ moved'.bytes = d
      /\ UNCHANGED <<hwbuf, rxFifo>>
      /\ pc' = [pc EXCEPT ![t] = "idle"] /\ call' = [call EXCEPT ![t] = NoCall]
  BY DEF GetHead, At, Returns, Goes, Moved, uart
<1>3. /\ Takes(t) /\ k \in 0 .. Count(rx, rx.tail) /\ Len(d) = k
      /\ \A i \in 1 .. k : d[i] = RxBytes[i]
  BY <1>1, <1>2 DEF Reads, Reading, Suited, Takes
<1>4. ~Clearing
  BY <1>2, <1>3, ReaderClears
<1>5. ~Clearing'
  BY <1>1, <1>2, <1>4 DEF Clearing
<1> HIDE DEF k, d, s
<1>6. d = Front(rx, k)
  <2>1. /\ Front(rx, k) \in Seq(RxByte) /\ Len(Front(rx, k)) = k
        /\ \A i \in 1 .. k : RxBytes[i] = Front(rx, k)[i]
    BY <1>1, <1>3, <1>4, RxFront
  <2>2. \A i \in 1 .. Len(d) : d[i] = Front(rx, k)[i]
    BY <1>3, <2>1
  <2> QED BY <1>1, <1>3, <2>1, <2>2, SeqEqual
<1>7. /\ Contents(rx) = d \o Contents(rx') /\ rx'.tail = rx.tail
      /\ Count(rx', rx'.tail) = Count(rx, rx.tail) - k
  <2>1. /\ Count(MoveHead(rx, k), rx.tail) = Count(rx, rx.tail) - k
        /\ Contents(rx) = Front(rx, k) \o Contents(MoveHead(rx, k))
    BY <1>1, <1>3, HeadMoves
  <2>2. MoveHead(rx, k).tail = rx.tail
    BY <1>1 DEF MoveHead, Buffers
  <2> QED BY <1>2, <1>6, <2>1, <2>2
<1>8. RxBytes = d \o RxBytes' /\ RxBytes' \in Seq(RxByte)
  <2> DEFINE u == Contents(rx)
             v == Contents(rx')
  <2>1. u = d \o v /\ hwbuf \in Seq(RxByte) /\ rxFifo \in Seq(RxByte)
    BY <1>1, <1>7 DEF Device
  <2>2. v \in Seq(RxByte)
    <3>1. rx' \in Buffers(RxByte)
      BY <1>1 DEF Device
    <3> QED BY <3>1, ContentsType
  <2>3. RxBytes = u \o hwbuf \o rxFifo /\ RxBytes' = v \o hwbuf \o rxFifo
    BY <1>2, <1>4, <1>5 DEF RxBytes
  <2> HIDE DEF u, v
  <2>4. /\ (d \o v) \o hwbuf = d \o (v \o hwbuf)
        /\ v \o hwbuf \in Seq(RxByte)
    BY <1>1, <2>1, <2>2, ConcatAssociative, ConcatProperties, SMTT(30)
  <2>5. /\ (d \o (v \o hwbuf)) \o rxFifo = d \o ((v \o hwbuf) \o rxFifo)
        /\ (v \o hwbuf) \o rxFifo \in Seq(RxByte)
    <3> DEFINE w == v \o hwbuf
    <3>1. w \in Seq(RxByte)
      BY <2>4
    <3> HIDE DEF w
    <3>2. d \in Seq(RxByte) /\ rxFifo \in Seq(RxByte)
      BY <1>1, <2>1
    <3>3. (d \o w) \o rxFifo = d \o (w \o rxFifo)
      BY <3>1, <3>2, ConcatAssociative, SMTT(30)
    <3>4. w \o rxFifo \in Seq(RxByte)
      BY <3>1, <3>2, ConcatProperties
    <3> QED BY <3>3, <3>4 DEF w
  <2> QED BY <2>1, <2>3, <2>4, <2>5
<1>9. Roomy'
  <2>1. Held <= Size - 1
    BY <1>4 DEF Reads, Roomy
  <2>2. Held' <= Size - 1
    BY <1>1, <1>2, <1>3, <1>7, <2>1, Numbers DEF Held
  <2> QED BY <1>5, <2>2 DEF Roomy
<1>10. Reading(t)'
  BY <1>1, <1>2 DEF Reading
<1>11. \A u \in Tasks : Reading(u)'
  BY <1>1, <1>2, <1>3, <1>10, ReadersStay DEF ReadsApart
<1>12. Through("arrived")' = <<>> /\ Through("read")' = d
  BY <1>2 DEF Through
<1>13. Reads' /\ Clearing' = Clearing
  BY <1>4, <1>5, <1>9, <1>11 DEF Reads, Clearing
<1>14. CASE d = <<>>
  <2>1. RxBytes' = RxBytes
    BY <1>8, <1>14, ConcatEmptySeq
  <2>2. Received!Quiet
    BY <1>12, <1>13, <1>14, <2>1 DEF Received!Quiet
  <2> QED BY <1>13, <2>2 DEF Received!Next
<1>15. CASE d # <<>>
  <2>1. Received!Get
    BY <1>8, <1>12, <1>13, <1>15 DEF Received!Get
  <2> QED BY <1>13, <2>1 DEF Received!Next
<1> QED BY <1>14, <1>15

\* CLEAR_RX_BUFFER drops the oldest bytes: those that are in the buffer.
LEMMA ClearReads ==
  ASSUME ReadsApart, ReadsApart', Typed, Reads, NEW t \in Tasks, ClearHead(t) \/ ClearTail(t)
  PROVE  Reads' /\ Received!Next
<1> DEFINE s == hwbuf \o rxFifo
<1>1. /\ Device /\ Device' /\ call \in [Tasks -> Calls] /\ pc \in [Tasks -> Steps]
      /\ rx \in Buffers(RxByte) /\ Count(rx, rx.tail) \in Nat
      /\ Len(hwbuf) \in Nat /\ Len(rxFifo) \in Nat
      /\ s \in Seq(RxByte) /\ Contents(rx) \in Seq(RxByte)
      /\ Len(Contents(rx)) = Count(rx, rx.tail)
  BY HeldTypes, ReadTyped, RxSequences DEF Typed, Callers, Device
<1>2. UNCHANGED <<hwbuf, rxFifo, call>> /\ moved' = Nothing
  BY DEF ClearHead, ClearTail, uart, Quiet
<1>3. \A u \in Tasks \ {t} : ~Takes(u) /\ pc'[u] = pc[u] /\ call'[u] = call[u]
  <2>1. pc[t] = "clear" \/ pc'[t] = "clear"
    BY <1>1 DEF ClearHead, ClearTail, At, Goes
  <2>2. \A u \in Tasks \ {t} : pc'[u] = pc[u] /\ call'[u] = call[u]
    BY <1>1, <1>2 DEF ClearHead, ClearTail, Goes
  <2> QED BY <2>1, <2>2 DEF ReadsApart, Takes
<1>4. Through("arrived")' = <<>> /\ Through("read")' = <<>>
  BY <1>2 DEF Through, Nothing, Moved
<1>5. CASE ClearHead(t)
  <2>1. pc[t] = "idle" /\ pc' = [pc EXCEPT ![t] = "clear"] /\ rx'.head = 0
    BY <1>1, <1>5 DEF ClearHead, At, Goes, Buffers
  <2>2. ~Clearing /\ Clearing'
    <3>1. ~Clearing
      BY <1>3, <2>1 DEF Clearing, Takes
    <3>2. pc'[t] = "clear"
      BY <1>1, <2>1
    <3> QED BY <3>1, <3>2 DEF Clearing
  <2>3. RxBytes = Contents(rx) \o s
    BY <1>1, <2>2, RxSequences
  <2>4. RxBytes' = s
    <3>1. <<>> \o hwbuf = hwbuf
      BY <1>1, ConcatEmptySeq DEF Device
    <3>2. RxBytes' = <<>> \o hwbuf' \o rxFifo'
      BY <2>2 DEF RxBytes
    <3> QED BY <1>2, <3>1, <3>2
  <2>5. Roomy'
    <3>1. Held <= Size - 1
      BY <2>2 DEF Reads, Roomy
    <3>2. Len(hwbuf') + Len(rxFifo') <= Size - 1
      BY <1>1, <1>2, <3>1, Numbers DEF Held
    <3> QED BY <2>2, <3>2 DEF Roomy
  <2>6. Reading(t)'
    BY <1>1, <2>1 DEF Reading
  <2>7. \A u \in Tasks : Reading(u)'
    BY <1>3, <2>6, ReadersStay
  <2> HIDE DEF s
  <2>8. RxBytes' = SubSeq(RxBytes, Count(rx, rx.tail) + 1, Len(RxBytes))
    <3> DEFINE u == Contents(rx)
    <3>1. u \in Seq(RxByte) /\ Len(u) = Count(rx, rx.tail) /\ RxBytes = u \o s
      BY <1>1, <2>3
    <3> HIDE DEF u
    <3>2. SubSeq(u \o s, Len(u) + 1, Len(u \o s)) = s
      BY <1>1, <3>1, Dropped
    <3> QED BY <2>4, <3>1, <3>2
  <2>9. Count(rx, rx.tail) \in 0 .. Len(RxBytes)
    <3>1. Len(Contents(rx) \o s) = Len(Contents(rx)) + Len(s) /\ Len(s) \in Nat
      BY <1>1, ConcatProperties, LenProperties
    <3> QED BY <1>1, <2>3, <3>1
  <2>10. Received!Clear
    BY <1>4, <2>2, <2>8, <2>9 DEF Received!Clear
  <2> QED BY <2>5, <2>7, <2>10 DEF Reads, Received!Next
<1>6. CASE ClearTail(t)
  <2>1. /\ pc[t] = "clear" /\ pc' = [pc EXCEPT ![t] = "idle"]
        /\ rx'.tail = 0 /\ rx'.head = rx.head
    BY <1>1, <1>6 DEF ClearTail, At, Goes, Buffers
  <2>2. Clearing /\ rx.head = 0
    BY <2>1 DEF Clearing, Reads, Reading
  <2>3. ~Clearing'
    BY <1>1, <1>3, <2>1 DEF Clearing, Takes
  <2>4. Count(rx', rx'.tail) = 0
    <3>1. Empty(rx')
      BY <2>1, <2>2 DEF Empty
    <3>2. Indexed(rx')
      BY <1>1 DEF Device, Buffers, Indexed
    <3> QED BY <3>1, <3>2, Counts
  <2>5. RxBytes' = RxBytes
    <3>1. Contents(rx') = <<>>
      <4>1. rx' \in Buffers(RxByte)
        BY <1>1 DEF Device
      <4>2. Contents(rx') \in Seq(RxByte) /\ Len(Contents(rx')) = 0
        BY <2>4, <4>1, ContentsType
      <4> QED BY <4>2, EmptySeq
    <3> QED BY <1>2, <2>2, <2>3, <3>1 DEF RxBytes
  <2>6. Roomy'
    <3>1. Held' <= Size - 1
      BY <1>1, <1>2, <2>2, <2>4, Numbers DEF Held, Reads, Roomy
    <3> QED BY <2>3, <3>1 DEF Roomy
  <2>7. Reading(t)'
    BY <1>1, <2>1 DEF Reading
  <2>8. \A u \in Tasks : Reading(u)'
    BY <1>3, <2>7, ReadersStay
  <2>9. RxBytes \in Seq(RxByte) /\ SubSeq(RxBytes, 1, Len(RxBytes)) = RxBytes
        /\ Len(RxBytes) \in Nat
    <3>1. RxBytes \in Seq(RxByte)
      BY <1>1, RxSequences
    <3> QED BY <3>1, SubSeqFull, LenProperties
  <2>10. Received!Clear
    <3> DEFINE n == 0
    <3>1. n \in 0 .. Len(RxBytes) /\ RxBytes' = SubSeq(RxBytes, n + 1, Len(RxBytes))
      BY <2>5, <2>9
    <3> HIDE DEF n
    <3> QED BY <1>4, <2>2, <3>1 DEF Received!Clear
  <2> QED BY <2>6, <2>8, <2>10 DEF Reads, Received!Next
<1> QED BY <1>5, <1>6

\* A byte that arrives is the youngest.
LEMMA ArriveReads ==
  ASSUME ReadsApart, Typed, Reads, Arrive
  PROVE  Reads' /\ Received!Next
<1> DEFINE q == RxBytes
           a == <<arrived'>>
<1>1. /\ Device /\ Device' /\ q \in Seq(RxByte) /\ hwbuf \in Seq(RxByte)
      /\ rxFifo \in Seq(RxByte) /\ arrived' \in RxByte /\ a \in Seq(RxByte)
      /\ Len(hwbuf) \in Nat /\ Len(rxFifo) \in Nat /\ Count(rx, rx.tail) \in Nat
  <2>1. Device /\ Device'
    BY NextTyped DEF Next, Typed
  <2> QED BY <2>1, HeldTypes, RxSequences DEF Device
<1>2. /\ UNCHANGED <<rx, hwbuf, pc, call>> /\ moved'.at = "arrived" /\ moved'.bytes = a
      /\ rxFifo' = Append(rxFifo, arrived')
  BY DEF Arrive, buffers, tasks, Moved
<1>3. Clearing' = Clearing
  BY <1>2 DEF Clearing
<1>4. rxFifo' = rxFifo \o a /\ Len(rxFifo') = Len(rxFifo) + 1
  BY <1>1, <1>2, AppendIsConcat, AppendProperties
<1>5. RxBytes' = q \o a
  <2> DEFINE u == IF Clearing THEN <<>> ELSE Contents(rx)
  <2>1. u \in Seq(RxByte)
    BY <1>1, EmptySeq, RxSequences
  <2>2. q = u \o hwbuf \o rxFifo /\ RxBytes' = u \o hwbuf \o rxFifo'
    BY <1>2, <1>3 DEF RxBytes
  <2> HIDE DEF u, q, a
  <2> DEFINE w == u \o hwbuf
  <2>3. w \in Seq(RxByte)
    BY <1>1, <2>1, ConcatProperties
  <2> HIDE DEF w
  <2>4. (w \o rxFifo) \o a = w \o (rxFifo \o a)
    <3>1. rxFifo \in Seq(RxByte) /\ a \in Seq(RxByte)
      BY <1>1
    <3> QED BY <2>3, <3>1, ConcatAssociative
  <2> QED BY <1>4, <2>2, <2>4 DEF w
<1>6. Roomy'
  <2>1. IF Clearing THEN Len(hwbuf) + Len(rxFifo) < Size - 1 ELSE Held < Size - 1
    BY <1>1, LengthIsHeld DEF Arrive
  <2>2. IF Clearing' THEN Len(hwbuf') + Len(rxFifo') <= Size - 1 ELSE Held' <= Size - 1
    BY <1>1, <1>2, <1>3, <1>4, <2>1, Numbers DEF Held
  <2> QED BY <2>2 DEF Roomy
<1>7. ASSUME NEW t \in Tasks PROVE Reading(t)'
  <2>1. Reading(t) /\ pc'[t] = pc[t] /\ call'[t] = call[t] /\ rx' = rx /\ call[t].left \in Nat
    BY <1>2 DEF Reads, Typed, Callers, Calls
  <2>2. ASSUME pc[t] = "head", NEW i \in 1 .. call[t].left
        PROVE  call[t].data[i] = RxBytes'[i]
    <3>1. Takes(t)
      BY <2>2 DEF Takes, Typed, Callers, Suited
    <3>2. ~Clearing
      BY <2>2, <3>1, ReaderClears
    <3>3. Len(q) = Held
      BY <1>1, <3>2, LengthIsHeld
    <3>4. i \in Nat /\ i > 0 /\ i <= Len(q) /\ Len(q) \in Nat
      BY <1>1, <2>1, <2>2, <3>3 DEF Reading, Held
    <3> HIDE DEF q, a
    <3>5. (q \o a)[i] = q[i]
      <4>1. i \in 1 .. Len(q) + Len(a)
        BY <1>1, <3>4, LenProperties
      <4> QED BY <1>1, <3>4, <4>1, ConcatProperties
    <3> QED BY <1>5, <2>1, <2>2, <3>5 DEF Reading, q
  <2> QED BY <2>1, <2>2 DEF Reading
<1>8. Received!Put
  <2>1. Through("arrived")' = a /\ Through("read")' = <<>>
    BY <1>2 DEF Through
  <2>2. a # <<>>
    BY EmptySeq
  <2> QED BY <1>3, <1>5, <2>1, <2>2 DEF Received!Put
<1> QED BY <1>6, <1>7, <1>8 DEF Reads, Received!Next

\* What is read is what has arrived, each byte once and in order, and only
\* CLEAR_RX_BUFFER drops the oldest: for buffers, calls and FIFOs of any size, any
\* number of tasks that do not read at the same time, whatever they write, and the
\* handler between any two steps of read.
THEOREM ReceivingIsQueue ==
  Spec /\ []ReadsApart => RxIsFifo
<1>1. Init => Typed /\ Reads /\ Received!Init
  <2> SUFFICES ASSUME Init PROVE Typed /\ Reads /\ Received!Init
    OBVIOUS
  <2>1. Typed /\ Reads /\ Device
    BY InitTyped, InitReads DEF Typed
  <2>2. ~Clearing
    BY DEF Init, Clearing
  <2>3. RxBytes = <<>>
    <3>1. Empty(rx)
      BY DEF Init, CircBufInit, Empty
    <3>2. Contents(rx) \in Seq(RxByte) /\ Len(Contents(rx)) = 0
      BY <2>1, <3>1, HeldTypes, RxSequences
    <3>3. Contents(rx) = <<>> /\ <<>> \in Seq(RxByte)
      BY <3>2, EmptySeq
    <3>4. <<>> \o <<>> = <<>>
      BY <3>3, ConcatEmptySeq
    <3>5. hwbuf = <<>> /\ rxFifo = <<>>
      BY DEF Init
    <3> QED BY <2>2, <3>3, <3>4, <3>5 DEF RxBytes
  <2>4. Through("arrived") = <<>> /\ Through("read") = <<>>
    BY DEF Init, Through, Nothing, Moved
  <2> QED BY <2>1, <2>2, <2>3, <2>4 DEF Received!Init
<1>2. ReadsApart /\ ReadsApart' /\ Typed /\ Reads /\ [Next]_vars
        => (Typed /\ Reads)' /\ [Received!Next]_(Received!vars)
  <2> SUFFICES ASSUME ReadsApart, ReadsApart', Typed, Reads, [Next]_vars
               PROVE  Typed' /\ Reads' /\ [Received!Next]_(Received!vars)
    OBVIOUS
  <2>1. Typed'
    BY NextTyped
  <2>2. CASE Handler
    BY <2>1, <2>2, HandlerReads
  <2>3. CASE Arrive
    BY <2>1, <2>3, ArriveReads
  <2>4. CASE \E t \in Tasks : TaskStep(t)
    BY <2>1, <2>4, CallReads, GetHeadReads, ClearReads DEF TaskStep
  <2>5. CASE Shift
    <3>1. UNCHANGED <<rx, hwbuf, rxFifo, pc, call>> /\ moved' = Nothing
      BY <2>5 DEF Shift, buffers, tasks, Quiet
    <3>2. Clearing' = Clearing
      BY <3>1 DEF Clearing
    <3>3. RxBytes' = RxBytes /\ Roomy'
      BY <3>1, <3>2 DEF RxBytes, Reads, Roomy, Held
    <3>4. Reads'
      BY <3>1, <3>3 DEF Reads, Reading
    <3>5. Received!Quiet
      BY <3>1, <3>2, <3>3 DEF Received!Quiet, Through, Nothing, Moved
    <3> QED BY <2>1, <3>4, <3>5 DEF Received!Next
  <2>6. CASE UNCHANGED vars
    <3>1. UNCHANGED <<rx, hwbuf, rxFifo, pc, call, moved>>
      BY <2>6 DEF vars, uart, tasks
    <3>2. Clearing' = Clearing
      BY <3>1 DEF Clearing
    <3>3. RxBytes' = RxBytes /\ Roomy'
      BY <3>1, <3>2 DEF RxBytes, Reads, Roomy, Held
    <3>4. Reads'
      BY <3>1, <3>3 DEF Reads, Reading
    <3> QED BY <2>1, <3>1, <3>2, <3>3, <3>4 DEF Received!vars, Through
  <2> QED BY <2>2, <2>3, <2>4, <2>5, <2>6 DEF Next
<1> QED BY <1>1, <1>2, PTL DEF Spec, RxIsFifo, Received!Spec

-----------------------------------------------------------------------------
(* Transmitting is a queue, if no two tasks write at a time, whoever reads.  *)

Puts(t) == pc[t] \notin {"idle", "clear"} /\ call[t].fct = "write"
WritesApart == \A t, u \in Tasks : Puts(t) /\ Puts(u) => t = u

\* The bytes that a writer has copied, behind the tail, stay there until it
\* moves the tail, and there is still room for them.
Writing(t) ==
  pc[t] = "tail" =>
    /\ call[t].mark <= Space(tx, tx.head)
    /\ \A i \in 1 .. call[t].mark :
         tx.buf[Masked(tx.tail + i - 1)] = NextBytes(call[t].mark)[i]

Writes == \A t \in Tasks : Writing(t)

\* New bytes behind the tail do not change those before it.
LEMMA FilledBehind ==
  ASSUME NEW bytes, NEW b \in Buffers(bytes), NEW s \in Seq(bytes),
         Len(s) <= Space(b, b.head)
  PROVE  Contents([b EXCEPT !.buf = Filled(b, b.head, s)]) = Contents(b)
<1> DEFINE new == Filled(b, b.head, s)
           c == [b EXCEPT !.buf = new]
           n == Count(b, b.tail)
           k == Len(s)
<1>1. /\ b.head \in Places /\ b.tail \in Places /\ Indexed(b)
      /\ b.head \in Nat /\ b.tail \in Nat /\ b.head < Size /\ b.tail < Size
      /\ Size \in Nat
  BY SizeAssumption DEF Buffers, Places, Indexed
<1>2. /\ n \in Nat /\ k \in Nat /\ k + n < Size
      /\ n = IF b.head <= b.tail THEN b.tail - b.head ELSE b.tail - b.head + Size
  BY <1>1, Counts, LenProperties
<1>3. \A i \in k + 1 .. Size :
        new[Masked(b.tail + i - 1)] = b.buf[Masked(b.tail + i - 1)]
  BY FilledAround
<1>4. c.head = b.head /\ c.tail = b.tail /\ c.buf = new /\ Count(c, c.tail) = n
  BY DEF Buffers, Count
<1> HIDE DEF new, n, k, c
<1>5. \A i \in 1 .. n : new[Masked(b.head + i - 1)] = b.buf[Masked(b.head + i - 1)]
  <2> TAKE i \in 1 .. n
  <2>1. Size - n + i \in k + 1 .. Size
    BY <1>1, <1>2, SMTT(30)
  <2>2. Masked(b.head + i - 1) = Masked(b.tail + (Size - n + i) - 1)
    BY <1>1, <1>2, PlaceFromTail, ZenonT(40)
  <2> QED BY <1>3, <2>1, <2>2
<1>6. Contents(c) = Contents(b)
  BY <1>4, <1>5 DEF Contents, n
<1> QED BY <1>6 DEF c, new

\* What is sent is what was the front of the buffer.
LEMMA SendsFront ==
  ASSUME Device, NEW c \in TxConfirmation, Sends(c)
  PROVE  /\ Contents(tx) = moved'.bytes \o Contents(tx') /\ moved'.at = "sent"
         /\ moved'.bytes \in Seq(TxByte) /\ Contents(tx') \in Seq(TxByte)
         /\ tx'.tail = tx.tail /\ tx'.buf = tx.buf
         /\ Space(tx', tx'.head) >= Space(tx, tx.head)
         /\ Space(tx', tx'.head) \in Nat /\ Space(tx, tx.head) \in Nat
<1>1. tx \in Buffers(TxByte) /\ thre \in BOOLEAN
  BY DEF Device
<1>2. PICK k \in 0 .. Count(tx, tx.tail) : c.tx = MoveHead(tx, k) /\ c.sent = Front(tx, k)
  BY <1>1, TxTakes
<1>3. tx' = MoveHead(tx, k) /\ moved'.at = "sent" /\ moved'.bytes = Front(tx, k)
  BY <1>2 DEF Sends, Moved
<1>4. /\ tx' \in Buffers(TxByte) /\ Count(tx', tx.tail) = Count(tx, tx.tail) - k
      /\ Contents(tx) = Front(tx, k) \o Contents(tx')
  BY <1>1, <1>3, HeadMoves
<1>5. tx'.tail = tx.tail /\ tx'.buf = tx.buf
  BY <1>1, <1>3 DEF MoveHead, Buffers
<1>6. k \in Nat /\ Front(tx, k) \in Seq(TxByte) /\ Contents(tx') \in Seq(TxByte)
  <2>1. k \in Nat
    BY <1>1, ContentsType
  <2> QED BY <1>1, <1>4, <2>1, FrontType, ContentsType
<1>7. /\ Space(tx, tx.head) = Size - 1 - Count(tx, tx.tail)
      /\ Space(tx', tx'.head) = Size - 1 - Count(tx', tx'.tail)
      /\ Count(tx, tx.tail) \in 0 .. Size - 1 /\ Count(tx', tx'.tail) \in 0 .. Size - 1
  <2>1. Indexed(tx) /\ Indexed(tx')
    BY <1>1, <1>4 DEF Buffers, Indexed
  <2> QED BY <2>1, Counts
<1>8. /\ Space(tx', tx'.head) >= Space(tx, tx.head)
      /\ Space(tx', tx'.head) \in Nat /\ Space(tx, tx.head) \in Nat
  BY <1>4, <1>5, <1>6, <1>7, Numbers
<1> QED BY <1>3, <1>4, <1>5, <1>6, <1>8

\* Bytes that leave are the oldest, also if there are none.
LEMMA SendsGet ==
  ASSUME Device, NEW c \in TxConfirmation, Sends(c)
  PROVE  Transmitted!Next
<1>1. /\ Contents(tx) = moved'.bytes \o Contents(tx') /\ moved'.at = "sent"
      /\ Contents(tx') \in Seq(TxByte)
  BY SendsFront
<1>2. Through("written")' = <<>> /\ Through("sent")' = moved'.bytes
  BY <1>1 DEF Through
<1>3. CASE moved'.bytes = <<>>
  <2>1. Contents(tx') = Contents(tx)
    BY <1>1, <1>3, ConcatEmptySeq
  <2>2. Transmitted!Quiet
    BY <1>2, <1>3, <2>1 DEF Transmitted!Quiet
  <2> QED BY <2>2 DEF Transmitted!Next
<1>4. CASE moved'.bytes # <<>>
  BY <1>1, <1>2, <1>4 DEF Transmitted!Next, Transmitted!Get
<1> QED BY <1>3, <1>4

LEMMA HandlerWrites ==
  ASSUME Typed, Writes, Handler
  PROVE  Writes' /\ Transmitted!Next
<1>1. Device /\ UNCHANGED <<pc, call, written>>
  BY DEF Handler, Typed
<1>2. CASE thre /\ txInt
  <2>1. PICK c \in TxConfirmation : Sends(c)
    BY <1>2 DEF Handler
  <2>2. /\ tx'.tail = tx.tail /\ tx'.buf = tx.buf
        /\ Space(tx', tx'.head) >= Space(tx, tx.head)
        /\ Space(tx', tx'.head) \in Nat /\ Space(tx, tx.head) \in Nat
    BY <1>1, <2>1, SendsFront
  <2>3. ASSUME NEW t \in Tasks PROVE Writing(t)'
    <3>1. Writing(t) /\ call[t].mark \in Nat
      BY DEF Writes, Typed, Callers, Calls
    <3>2. pc[t] = "tail" => call[t].mark <= Space(tx', tx'.head)
      BY <2>2, <3>1 DEF Writing
    <3>3. NextBytes(call[t].mark)' = NextBytes(call[t].mark)
      BY <1>1 DEF NextBytes
    <3> QED BY <1>1, <2>2, <3>1, <3>2, <3>3 DEF Writing
  <2>4. Transmitted!Next
    BY <1>1, <2>1, SendsGet
  <2> QED BY <2>3, <2>4 DEF Writes
<1>3. CASE ~(thre /\ txInt)
  <2>1. tx' = tx /\ moved' = Nothing
    BY <1>3 DEF Handler
  <2>2. Writes'
    BY <1>1, <2>1 DEF Writes, Writing, NextBytes
  <2>3. Transmitted!Quiet
    BY <2>1 DEF Transmitted!Quiet, Through, Nothing, Moved
  <2> QED BY <2>2, <2>3 DEF Transmitted!Next
<1> QED BY <1>2, <1>3

\* A writer has no other to disturb.
LEMMA WritersStay ==
  ASSUME WritesApart, Typed, Writes, NEW t \in Tasks, Puts(t), Writing(t)',
         \A u \in Tasks \ {t} : pc'[u] = pc[u] /\ call'[u] = call[u]
  PROVE  Writes'
<1> SUFFICES ASSUME NEW u \in Tasks, u # t PROVE Writing(u)'
  BY DEF Writes
<1>1. Writing(u) /\ Suited(pc[u], call[u]) /\ pc'[u] = pc[u] /\ call'[u] = call[u]
  BY DEF Writes, Typed, Callers
<1>2. pc[u] # "tail"
  BY <1>1 DEF WritesApart, Puts, Suited
<1> QED BY <1>1, <1>2 DEF Writing

\* The steps that leave the transmit buffer alone.
LEMMA CallWrites ==
  ASSUME Typed, Writes, NEW t \in Tasks,
         \/ Read(t) \/ GetTail(t) \/ GetCopy(t) \/ GetHead(t) \/ ClearHead(t) \/ ClearTail(t)
         \/ Write(t) \/ WriteSpace(t)
         \/ InterruptOff(t) \/ RegisterTask(t) \/ RegisterFct(t)
         \/ InterruptOn(t) \/ WakeUp(t)
  PROVE  Writes' /\ Transmitted!Next
<1>1. /\ call[t] \in Calls /\ Suited(pc[t], call[t]) /\ Writing(t)
      /\ call \in [Tasks -> Calls] /\ pc \in [Tasks -> Steps]
  BY DEF Typed, Callers, Calls, Writes
<1>2. UNCHANGED <<tx, written>>
  BY DEF Read, GetTail, GetCopy, GetHead, ClearHead, ClearTail, Write, WriteSpace,
         InterruptOff, RegisterTask, RegisterFct, InterruptOn, WakeUp, buffers, Quiet
<1>3. moved'.at \notin {"sent", "written"}
  <2>1. CASE GetHead(t)
    BY <2>1 DEF GetHead, Moved
  <2>2. CASE ~GetHead(t)
    <3>1. Quiet
      BY <2>2 DEF Read, GetTail, GetCopy, ClearHead, ClearTail, Write, WriteSpace,
             InterruptOff, RegisterTask, RegisterFct, InterruptOn, WakeUp
    <3> QED BY <3>1 DEF Quiet, Nothing, Moved
  <2> QED BY <2>1, <2>2
<1>4. \A u \in Tasks \ {t} : pc'[u] = pc[u] /\ call'[u] = call[u]
  BY <1>1 DEF Read, GetTail, GetCopy, GetHead, ClearHead, ClearTail, Write, WriteSpace,
         InterruptOff, RegisterTask, RegisterFct, InterruptOn, WakeUp, Goes, Returns
<1>5. pc'[t] # "tail"
  BY <1>1 DEF Read, GetTail, GetCopy, GetHead, ClearHead, ClearTail, Write, WriteSpace,
         InterruptOff, RegisterTask, RegisterFct, InterruptOn, WakeUp, Goes, Returns
<1>6. Writes'
  <2>1. ASSUME NEW u \in Tasks PROVE Writing(u)'
    <3>1. CASE u = t
      BY <1>5, <3>1 DEF Writing
    <3>2. CASE u # t
      <4>1. Writing(u) /\ pc'[u] = pc[u] /\ call'[u] = call[u]
        BY <1>4, <3>2 DEF Writes
      <4> QED BY <1>2, <4>1 DEF Writing, NextBytes
    <3> QED BY <3>1, <3>2
  <2> QED BY <2>1 DEF Writes
<1>7. Transmitted!Quiet
  BY <1>2, <1>3 DEF Transmitted!Quiet, Through
<1> QED BY <1>6, <1>7 DEF Transmitted!Next

\* write copies behind the tail, which changes nothing yet.
LEMMA PutCopyWrites ==
  ASSUME WritesApart, Typed, Writes, NEW t \in Tasks, PutCopy(t)
  PROVE  Writes' /\ Transmitted!Next
<1> DEFINE n == call[t].mark
           fits == Space(tx, tx.head) >= n
           s == NextBytes(n)
<1>1. /\ call[t] \in Calls /\ Suited(pc[t], call[t]) /\ Writing(t)
      /\ call \in [Tasks -> Calls] /\ pc \in [Tasks -> Steps]
      /\ tx \in Buffers(TxByte) /\ written \in TxByte /\ n \in Nat
  BY DEF Typed, Device, Callers, Calls, Writes
<1>2. /\ pc[t] = "copy" /\ call[t].fct = "write"
      /\ tx' = IF fits THEN [tx EXCEPT !.buf = Filled(tx, tx.head, s)] ELSE tx
      /\ call'[t].mark = (IF fits THEN n ELSE 0) /\ call'[t].fct = "write"
      /\ pc'[t] = "tail" /\ moved' = Nothing /\ UNCHANGED written
  BY <1>1 DEF PutCopy, At, Goes, Quiet, Calls
<1>3. Puts(t)
  BY <1>2 DEF Puts
<1>4. \A u \in Tasks \ {t} : pc'[u] = pc[u] /\ call'[u] = call[u]
  BY <1>1 DEF PutCopy, Goes
<1>5. Space(tx, tx.head) \in Nat
  <2>1. Indexed(tx)
    BY <1>1 DEF Buffers, Indexed
  <2> QED BY <2>1, Counts, Numbers
<1>6. s \in Seq(TxByte) /\ Len(s) = n
  <2> HIDE DEF n
  <2> QED BY <1>1, NextBytesTyped
<1>7. Space(tx', tx'.head) = Space(tx, tx.head) /\ tx'.tail = tx.tail
  BY <1>1, <1>2 DEF Buffers, Space
<1>8. CASE fits
  <2>1. Len(s) <= Space(tx, tx.head)
    BY <1>1, <1>5, <1>6, <1>8
  <2> HIDE DEF s
  <2>2. /\ \A i \in 1 .. Len(s) : Filled(tx, tx.head, s)[Masked(tx.tail + i - 1)] = s[i]
        /\ Contents([tx EXCEPT !.buf = Filled(tx, tx.head, s)]) = Contents(tx)
    BY <1>1, <1>6, <2>1, FilledAround, FilledBehind
  <2>3. Contents(tx') = Contents(tx) /\ tx'.buf = Filled(tx, tx.head, s)
    BY <1>1, <1>2, <1>8, <2>2 DEF Buffers
  <2>4. call'[t].mark = n
    BY <1>2, <1>8
  <2>5. NextBytes(call[t].mark)' = s
    BY <1>2, <2>4 DEF NextBytes, s
  <2> HIDE DEF n
  <2>6. \A i \in 1 .. n : tx'.buf[Masked(tx'.tail + i - 1)] = s[i]
    BY <1>6, <1>7, <2>2, <2>3
  <2>7. Writing(t)'
    BY <1>2, <1>6, <1>7, <2>1, <2>4, <2>5, <2>6 DEF Writing
  <2>8. Writes'
    BY <1>3, <1>4, <2>7, WritersStay
  <2>9. Transmitted!Quiet
    BY <1>2, <2>3 DEF Transmitted!Quiet, Through, Nothing, Moved
  <2> QED BY <2>8, <2>9 DEF Transmitted!Next
<1>9. CASE ~fits
  <2>1. tx' = tx /\ call'[t].mark = 0
    BY <1>2, <1>9
  <2>2. Writing(t)'
    BY <1>2, <1>5, <2>1 DEF Writing
  <2>3. Writes'
    BY <1>3, <1>4, <2>2, WritersStay
  <2>4. Transmitted!Quiet
    BY <1>2, <2>1 DEF Transmitted!Quiet, Through, Nothing, Moved
  <2> QED BY <2>3, <2>4 DEF Transmitted!Next
<1> QED BY <1>8, <1>9

\* When the tail moves, the bytes are in the queue.
LEMMA PutTailWrites ==
  ASSUME WritesApart, Typed, Writes, NEW t \in Tasks, PutTail(t)
  PROVE  Writes' /\ Transmitted!Next
<1> DEFINE n == call[t].mark
           s == NextBytes(n)
<1>1. /\ call[t] \in Calls /\ Suited(pc[t], call[t]) /\ Writing(t)
      /\ call \in [Tasks -> Calls] /\ pc \in [Tasks -> Steps]
      /\ tx \in Buffers(TxByte) /\ written \in TxByte /\ n \in Nat
  BY DEF Typed, Device, Callers, Calls, Writes
<1>2. /\ pc[t] = "tail" /\ call[t].fct = "write" /\ pc'[t] = "start"
      /\ tx' = MoveTail(tx, n) /\ moved'.at = "written" /\ moved'.bytes = s
  BY <1>1 DEF PutTail, At, Goes, Moved, Suited
<1>3. Puts(t) /\ n <= Space(tx, tx.head)
      /\ \A i \in 1 .. n : tx.buf[Masked(tx.tail + i - 1)] = s[i]
  BY <1>1, <1>2 DEF Writing, Puts
<1>4. \A u \in Tasks \ {t} : pc'[u] = pc[u] /\ call'[u] = call[u]
  BY <1>1 DEF PutTail, Goes
<1>5. s \in Seq(TxByte) /\ Len(s) = n
  <2> HIDE DEF n
  <2> QED BY <1>1, NextBytesTyped
<1>6. Contents(tx') = Contents(tx) \o s
  <2>1. /\ tx'.head = tx.head /\ tx'.tail = Masked(tx.tail + n) /\ tx'.buf = tx.buf
        /\ tx' \in Buffers(TxByte)
    <3>1. tx.tail \in Nat
      BY <1>1, Numbers DEF Buffers
    <3>2. Masked(tx.tail + n) \in Places
      BY <1>1, <3>1, MaskedRange
    <3> QED BY <1>1, <1>2, <3>2 DEF MoveTail, Buffers
  <2> HIDE DEF n, s
  <2> DEFINE c == tx'
  <2>2. /\ c \in Buffers(TxByte) /\ Len(s) <= Space(tx, tx.head)
        /\ c.head = tx.head /\ c.tail = Masked(tx.tail + Len(s))
        /\ \A i \in 1 .. Len(s) : c.buf[Masked(tx.tail + i - 1)] = s[i]
        /\ \A i \in Len(s) + 1 .. Size :
             c.buf[Masked(tx.tail + i - 1)] = tx.buf[Masked(tx.tail + i - 1)]
    BY <1>3, <1>5, <2>1
  <2> HIDE DEF c
  <2>3. Contents(c) = Contents(tx) \o s
    BY <1>1, <1>5, <2>2, TailMoves
  <2> QED BY <2>3 DEF c
<1> HIDE DEF n, s
<1>7. Writing(t)'
  BY <1>2 DEF Writing
<1>8. Writes'
  BY <1>3, <1>4, <1>7, WritersStay
<1>9. Through("written")' = s /\ Through("sent")' = <<>>
  BY <1>2 DEF Through
<1>10. CASE s = <<>>
  <2>1. Contents(tx) \in Seq(TxByte)
    BY <1>1, ContentsType
  <2>2. Contents(tx') = Contents(tx)
    BY <1>6, <1>10, <2>1, ConcatEmptySeq
  <2>3. Transmitted!Quiet
    BY <1>9, <1>10, <2>2 DEF Transmitted!Quiet
  <2> QED BY <1>8, <2>3 DEF Transmitted!Next
<1>11. CASE s # <<>>
  BY <1>6, <1>8, <1>9, <1>11 DEF Transmitted!Next, Transmitted!Put
<1> QED BY <1>10, <1>11

\* The writer itself sends the first bytes.
LEMMA StartTxWrites ==
  ASSUME WritesApart, Typed, Writes, NEW t \in Tasks, StartTx(t)
  PROVE  Writes' /\ Transmitted!Next
<1>1. /\ Device /\ Suited(pc[t], call[t]) /\ Writing(t)
      /\ call \in [Tasks -> Calls] /\ pc \in [Tasks -> Steps]
  BY DEF Typed, Callers, Writes
<1>2. PICK c \in TxConfirmation : Sends(c)
  BY DEF StartTx
<1>3. Puts(t)
  BY <1>1 DEF StartTx, At, Suited, Puts
<1>4. \A u \in Tasks \ {t} : pc'[u] = pc[u] /\ call'[u] = call[u]
  BY <1>1 DEF StartTx, Goes, Returns
<1>5. pc'[t] \in {"off", "idle"}
  BY <1>1 DEF StartTx, Goes, Returns
<1>6. Writing(t)'
  BY <1>5 DEF Writing
<1>7. Writes'
  BY <1>3, <1>4, <1>6, WritersStay
<1> QED BY <1>1, <1>2, <1>7, SendsGet

\* What is sent is what was written, each byte once and in order: for buffers and
\* calls of any size, any number of tasks that do not write at the same time,
\* whatever they read, and the handler and the writer both taking bytes out.
THEOREM TransmittingIsQueue ==
  Spec /\ []WritesApart => TxIsFifo
<1>1. Init => Typed /\ Writes /\ Transmitted!Init
  <2> SUFFICES ASSUME Init PROVE Typed /\ Writes /\ Transmitted!Init
    OBVIOUS
  <2>1. Typed /\ tx \in Buffers(TxByte)
    BY InitTyped DEF Typed, Device
  <2>2. Writes
    BY DEF Init, Writes, Writing
  <2>3. Contents(tx) = <<>>
    <3>1. Empty(tx) /\ Indexed(tx)
      BY <2>1 DEF Init, CircBufInit, Empty, Buffers, Indexed
    <3>2. Contents(tx) \in Seq(TxByte) /\ Len(Contents(tx)) = 0
      BY <2>1, <3>1, Counts, ContentsType
    <3> QED BY <3>2, EmptySeq
  <2>4. Through("written") = <<>> /\ Through("sent") = <<>>
    BY DEF Init, Through, Nothing, Moved
  <2> QED BY <2>1, <2>2, <2>3, <2>4 DEF Transmitted!Init
<1>2. WritesApart /\ Typed /\ Writes /\ [Next]_vars
        => (Typed /\ Writes)' /\ [Transmitted!Next]_(Transmitted!vars)
  <2> SUFFICES ASSUME WritesApart, Typed, Writes, [Next]_vars
               PROVE  Typed' /\ Writes' /\ [Transmitted!Next]_(Transmitted!vars)
    OBVIOUS
  <2>1. Typed'
    BY NextTyped
  <2>2. CASE Handler
    BY <2>1, <2>2, HandlerWrites
  <2>3. CASE \E t \in Tasks : TaskStep(t)
    BY <2>1, <2>3, CallWrites, PutCopyWrites, PutTailWrites, StartTxWrites DEF TaskStep
  <2>4. CASE Arrive \/ Shift
    <3>1. UNCHANGED <<tx, pc, call, written>> /\ moved'.at \in {"arrived", "none"}
      BY <2>4 DEF Arrive, Shift, buffers, tasks, Quiet, Nothing, Moved
    <3>2. Writes'
      BY <3>1 DEF Writes, Writing, NextBytes
    <3>3. Transmitted!Quiet
      BY <3>1 DEF Transmitted!Quiet, Through
    <3> QED BY <2>1, <3>2, <3>3 DEF Transmitted!Next
  <2>5. CASE UNCHANGED vars
    <3>1. UNCHANGED <<tx, pc, call, written, moved>>
      BY <2>5 DEF vars, uart, tasks
    <3>2. Writes'
      BY <3>1 DEF Writes, Writing, NextBytes
    <3> QED BY <2>1, <3>1, <3>2 DEF Transmitted!vars, Through
  <2> QED BY <2>2, <2>3, <2>4, <2>5 DEF Next
<1> QED BY <1>1, <1>2, PTL DEF Spec, TxIsFifo, Transmitted!Spec
=============================================================================
