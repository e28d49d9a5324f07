---------------------------- MODULE ILReference -----------------------------
(***************************************************************************)
(* What the instructions of IL mean, on values: the typed result of an     *)
(* instruction depends on the value a of the current result and the value  *)
(* b of the operand, not on bytes, lengths or what was there before.       *)
(***************************************************************************)
EXTENDS PLCTypes

\* A date, and anything else, is compared by the first part that differs.
Less(a, b) ==
  \E i \in DOMAIN a : a[i] < b[i] /\ \A j \in 1 .. i - 1 : a[j] = b[j]

Truth(holds) == <<IF holds THEN 1 ELSE 0>>
Compared(op, a, b) ==
  Truth(CASE op = "EQ" -> a = b [] op = "LT" -> Less(a, b) [] op = "GT" -> Less(b, a)
          [] op = "NE" -> a # b [] op = "GE" -> ~Less(a, b) [] op = "LE" -> ~Less(b, a))

\* A result a type has no room for keeps its low bits.
Fitted(type, x) ==
  <<CHOOSE y \in PartRange(type, 1) : (y - x) % Numbers(Parts(type)[1]) = 0>>

\* Division rounds towards zero, so that a remainder has the sign of x.
Magnitude(x) == IF x < 0 THEN -x ELSE x
Quotient(x, y) ==
  CHOOSE q \in -Magnitude(x) .. Magnitude(x) :
    Magnitude(x - q * y) < Magnitude(y) /\ (x - q * y) * x >= 0

Calculated(op, type, a, b) ==
  Fitted(type, CASE op = "ADD" -> a[1] + b[1]
                 [] op = "SUB" -> a[1] - b[1]
                 [] op = "MUL" -> a[1] * b[1]
                 [] op = "DIV" -> Quotient(a[1], b[1])
                 [] op = "MOD" -> a[1] - b[1] * Quotient(a[1], b[1]))

\* The places of the bits that are 1 in a BOOL or a bit string.
Places(type) == 0 .. (IF type = "BOOL" THEN 0 ELSE Parts(type)[1] * ByteBits - 1)
Ones(type, a) == {i \in Places(type) : Bit(a[1], i) = 1}
CombinedOnes(op, type, a, b) ==
  LET x == Ones(type, a)  y == Ones(type, b)
  IN CASE op = "AND" -> x \cap y [] op = "OR" -> x \cup y
       [] op = "XOR" -> (x \cup y) \ (x \cap y)

\* The value with all bits inverted; a date has no such value and stays.
Complement(type, a) ==
  IF type \in Dates THEN a
  ELSE [i \in DOMAIN a |-> IF type = "BOOL" THEN 1 - a[i]
                           ELSE IF type \in SignedTypes THEN -a[i] - 1
                           ELSE Numbers(Parts(type)[i]) - 1 - a[i]]
=============================================================================
