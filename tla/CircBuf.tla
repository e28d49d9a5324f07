------------------------------- MODULE CircBuf -------------------------------
(***************************************************************************)
(* The circular buffer of ciaaLibs_CircBuf: a record of head, tail and the *)
(* bytes, with Size - 1 places that can be used.  The operators take the   *)
(* head or the tail as an argument where the macros do: the reader and the *)
(* writer work at the same time, and each reads the other's index once.    *)
(***************************************************************************)
EXTENDS Integers, Sequences

CONSTANT Size    \* a power of two; the code keeps Size - 1 as a mask

ASSUME SizeAssumption == Size \in Nat /\ Size > 1

Places == 0 .. (Size - 1)

\* An index is masked with Size - 1; size_t differences are not negative, but
\* the mask gives the same as the remainder.
Masked(n) == n % Size

CircBufInit == [head |-> 0, tail |-> 0, buf |-> [i \in Places |-> 0]]

Empty(b) == b.tail = b.head

Space(b, head) == Masked(head - b.tail - 1)
Count(b, tail) == Masked(tail - b.head)

\* What can be written, and read, without going around.
RawSpaceShort(b, head) ==              \* mutant: never the last place
  IF b.tail >= head THEN Size - 1 - b.tail ELSE head - b.tail - 1
RawSpace(b, head) ==
  IF b.tail >= head THEN Size - 1 - b.tail + (IF head > 0 THEN 1 ELSE 0)
                    ELSE head - b.tail - 1
RawCount(b, tail) == IF b.head <= tail THEN tail - b.head ELSE Size - b.head

MoveHead(b, n) == [b EXCEPT !.head = Masked(@ + n)]
MoveTailUnmasked(b, n) == [b EXCEPT !.tail = @ + n]       \* mutant
MoveTail(b, n) == [b EXCEPT !.tail = Masked(@ + n)]

\* memcpy into and out of the array.
Stored(buf, at, bytes) ==
  [i \in Places |-> IF i \in at .. (at + Len(bytes) - 1) THEN bytes[i - at + 1]
                                                         ELSE buf[i]]
Loaded(buf, at, n) == [i \in 1 .. n |-> buf[at + i - 1]]

\* The array after circBufPut has copied the bytes, before it moves the tail.
FilledAgain(b, head, bytes) ==         \* mutant: the second part starts anew
  LET n == Len(bytes)  raw == RawSpace(b, head)
  IN IF raw >= n THEN Stored(b.buf, b.tail, bytes)
     ELSE Stored(Stored(b.buf, b.tail, SubSeq(bytes, 1, raw)), 0,
                 SubSeq(bytes, 1, n - raw))
Filled(b, head, bytes) ==
  LET n == Len(bytes)  raw == RawSpace(b, head)
  IN IF raw >= n THEN Stored(b.buf, b.tail, bytes)
     ELSE Stored(Stored(b.buf, b.tail, SubSeq(bytes, 1, raw)), 0,
                 SubSeq(bytes, raw + 1, n))

\* What circBufGet copies to the user, before it moves the head.
Taken(b, tail, n) ==
  LET raw == RawCount(b, tail)
  IN IF n <= raw THEN Loaded(b.buf, b.head, n)
     ELSE Loaded(b.buf, b.head, raw) \o Loaded(b.buf, 0, n - raw)

\* The bytes that are in the buffer, the oldest first.
Contents(b) == [i \in 1 .. Count(b, b.tail) |-> b.buf[Masked(b.head + i - 1)]]
==============================================================================
