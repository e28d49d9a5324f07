------------------------------ MODULE PLCProofs -----------------------------
(***************************************************************************)
(* Proofs about the IL instructions: the register and the variables keep   *)
(* bytes of their types, and every instruction gives the value that        *)
(* ILReference says.  The first half is arithmetic: powers of two, the     *)
(* bits of bytes, and the numbers that several bytes are.                  *)
(***************************************************************************)
EXTENDS PLCInstructions, TLAPS, WellFoundedInduction

-----------------------------------------------------------------------------
(* Induction, for a set of numbers, and what is defined by recursion.      *)

\* What is true of 0 and of a successor is true of every number up to m.
LEMMA Induction ==
  ASSUME NEW m \in Nat, NEW S, 0 \in S,
         \A n \in 0 .. m - 1 : n \in S => n + 1 \in S
  PROVE  \A n \in 0 .. m : n \in S
<1> DEFINE T == (0 .. m) \ S
<1> SUFFICES ASSUME T # {} PROVE FALSE
  OBVIOUS
<1>1. T \subseteq Nat
  OBVIOUS
<1>2. PICK n \in T : \A k \in T : ~ (<<k, n>> \in OpToRel(<, Nat))
  BY <1>1, NatLessThanWellFounded, WFMin
<1>3. \A k \in T : ~ (k < n)
  BY <1>1, <1>2 DEF OpToRel
<1>4. n - 1 \in 0 .. m - 1 /\ n - 1 \notin T
  BY <1>3
<1> QED BY <1>4

LEMMA BitsAre == MaxBits \in Nat \ {0} /\ ByteBits \in Nat \ {0}
BY PLCAssumption DEF MaxBits

\* The recursive definitions have functions that satisfy them: a prefix of one
\* exists for every length, as it does for the length before.
LEMMA PowerIs == Power = [n \in 0 .. MaxBits |-> IF n = 0 THEN 1 ELSE 2 * Power[n - 1]]
<1> DEFINE Fits(f, m) == f = [n \in 0 .. m |-> IF n = 0 THEN 1 ELSE 2 * f[n - 1]]
           S == {m \in 0 .. MaxBits : \E f : Fits(f, m)}
<1>1. 0 \in S
  <2>1. Fits([n \in 0 .. 0 |-> 1], 0)
    OBVIOUS
  <2>2. \E f : Fits(f, 0)
    BY <2>1
  <2> HIDE DEF Fits
  <2> QED BY <2>2, BitsAre
<1>2. ASSUME NEW m \in 0 .. MaxBits - 1, m \in S
      PROVE  m + 1 \in S
  <2>1. PICK f : Fits(f, m)
    BY <1>2
  <2> DEFINE g == [n \in 0 .. m + 1 |-> IF n = m + 1 THEN 2 * f[m] ELSE f[n]]
  <2>2. ASSUME NEW n \in 0 .. m + 1
        PROVE  g[n] = IF n = 0 THEN 1 ELSE 2 * g[n - 1]
    BY <2>1
  <2>3. Fits(g, m + 1)
    BY <2>2
  <2>4. \E h : Fits(h, m + 1)
    BY <2>3
  <2> HIDE DEF Fits
  <2> QED BY <2>4, BitsAre
<1> HIDE DEF S
<1>3. MaxBits \in S
  BY <1>1, <1>2, BitsAre, Induction
<1> QED BY <1>3 DEF S, Power

LEMMA SumsIs ==
  ASSUME NEW term
  PROVE  Sums(term) =
           [n \in 0 .. MaxBits |-> IF n = 0 THEN 0 ELSE Sums(term)[n - 1] + term[n - 1]]
<1> DEFINE Fits(f, m) == f = [n \in 0 .. m |-> IF n = 0 THEN 0 ELSE f[n - 1] + term[n - 1]]
           S == {m \in 0 .. MaxBits : \E f : Fits(f, m)}
<1>1. 0 \in S
  <2>1. Fits([n \in 0 .. 0 |-> 0], 0)
    OBVIOUS
  <2>2. \E f : Fits(f, 0)
    BY <2>1
  <2> HIDE DEF Fits
  <2> QED BY <2>2, BitsAre
<1>2. ASSUME NEW m \in 0 .. MaxBits - 1, m \in S
      PROVE  m + 1 \in S
  <2>1. PICK f : Fits(f, m)
    BY <1>2
  <2> DEFINE g == [n \in 0 .. m + 1 |-> IF n = m + 1 THEN f[m] + term[m] ELSE f[n]]
  <2>2. ASSUME NEW n \in 0 .. m + 1
        PROVE  g[n] = IF n = 0 THEN 0 ELSE g[n - 1] + term[n - 1]
    BY <2>1
  <2>3. Fits(g, m + 1)
    BY <2>2
  <2>4. \E h : Fits(h, m + 1)
    BY <2>3
  <2> HIDE DEF Fits
  <2> QED BY <2>4, BitsAre
<1> HIDE DEF S
<1>3. MaxBits \in S
  BY <1>1, <1>2, BitsAre, Induction
<1> QED BY <1>3 DEF S, Sums

LEMMA SumsStep ==
  ASSUME NEW term
  PROVE  /\ Sums(term)[0] = 0
         /\ \A n \in 0 .. MaxBits - 1 : Sums(term)[n + 1] = Sums(term)[n] + term[n]
<1>1. /\ 0 \in 0 .. MaxBits
      /\ \A n \in 0 .. MaxBits - 1 : n + 1 \in 0 .. MaxBits /\ n + 1 # 0 /\ (n + 1) - 1 = n
  BY BitsAre
<1> DEFINE s == Sums(term)
<1>2. s = [n \in 0 .. MaxBits |-> IF n = 0 THEN 0 ELSE s[n - 1] + term[n - 1]]
  BY SumsIs
<1> HIDE DEF s
<1>3. s[0] = 0 /\ \A n \in 0 .. MaxBits - 1 : s[n + 1] = s[n] + term[n]
  BY <1>1, <1>2
<1> QED BY <1>3 DEF s

LEMMA PowerStep ==
  /\ Power[0] = 1
  /\ \A n \in 0 .. MaxBits - 1 : Power[n + 1] = 2 * Power[n]
<1>1. /\ 0 \in 0 .. MaxBits
      /\ \A n \in 0 .. MaxBits - 1 : n + 1 \in 0 .. MaxBits /\ n + 1 # 0 /\ (n + 1) - 1 = n
  BY BitsAre
<1> QED BY <1>1, PowerIs

LEMMA PowerType == \A n \in 0 .. MaxBits : Power[n] \in Nat \ {0}
<1> DEFINE S == {n \in 0 .. MaxBits : Power[n] \in Nat \ {0}}
<1>1. 0 \in S
  BY PowerStep, BitsAre
<1>2. ASSUME NEW n \in 0 .. MaxBits - 1, n \in S
      PROVE  n + 1 \in S
  <2>1. Power[n + 1] = 2 * Power[n] /\ Power[n] \in Nat \ {0} /\ n + 1 \in 0 .. MaxBits
    BY <1>2, PowerStep, BitsAre
  <2> QED BY <2>1
<1> HIDE DEF S
<1>3. \A n \in 0 .. MaxBits : n \in S
  BY <1>1, <1>2, BitsAre, Induction
<1> QED BY <1>3 DEF S

LEMMA PowersMultiply ==
  ASSUME NEW m \in Nat, NEW n \in Nat, m + n <= MaxBits
  PROVE  Power[m + n] = Power[m] * Power[n]
<1> DEFINE S == {k \in 0 .. MaxBits - m : Power[m + k] = Power[m] * Power[k]}
<1>1. 0 \in S
  BY PowerStep, PowerType, BitsAre
<1>2. ASSUME NEW k \in 0 .. (MaxBits - m) - 1, k \in S
      PROVE  k + 1 \in S
  <2>1. k \in 0 .. MaxBits - 1 /\ m + k \in 0 .. MaxBits - 1 /\ k + 1 \in 0 .. MaxBits - m
    BY BitsAre
  <2>2. Power[k + 1] = 2 * Power[k] /\ Power[(m + k) + 1] = 2 * Power[m + k]
    BY <2>1, PowerStep
  <2>3. Power[m + k] = Power[m] * Power[k]
    BY <1>2
  <2>4. Power[m] \in Int /\ Power[k] \in Int
    BY <2>1, PowerType, BitsAre
  <2>5. Power[m + (k + 1)] = Power[m] * Power[k + 1]
    BY <2>2, <2>3, <2>4
  <2> QED BY <2>1, <2>5
<1> HIDE DEF S
<1>3. MaxBits - m \in Nat /\ n \in 0 .. MaxBits - m
  BY BitsAre
<1>4. n \in S
  BY <1>1, <1>2, <1>3, Induction
<1> QED BY <1>4 DEF S

\* What a byte and several bytes can tell apart.
LEMMA BaseIs ==
  /\ Numbers(0) = 1 /\ Base \in Nat /\ Base >= 2 /\ Base % 2 = 0
  /\ \A k \in 0 .. 8 : /\ Numbers(k) \in Nat \ {0}
                      /\ k * ByteBits \in 0 .. MaxBits
                      /\ k # 0 => Numbers(k) % 2 = 0 /\ Numbers(k) >= 2
  /\ \A k \in 0 .. 7 : Numbers(k + 1) = Numbers(k) * Base
<1>1. \A k \in 0 .. 8 : k * ByteBits \in 0 .. MaxBits /\ (k # 0 => k * ByteBits # 0)
  BY BitsAre DEF MaxBits
<1>2. \A n \in 1 .. MaxBits : Power[n] % 2 = 0 /\ Power[n] >= 2
  <2> TAKE n \in 1 .. MaxBits
  <2>1. n - 1 \in 0 .. MaxBits - 1 /\ n - 1 \in 0 .. MaxBits
    BY BitsAre
  <2>2. Power[n] = 2 * Power[n - 1] /\ Power[n - 1] \in Nat \ {0}
    BY <2>1, PowerStep, PowerType
  <2> QED BY <2>2
<1>3. ASSUME NEW k \in 0 .. 7
      PROVE  Numbers(k + 1) = Numbers(k) * Base
  <2>1. (k + 1) * ByteBits = k * ByteBits + ByteBits /\ k * ByteBits \in Nat
        /\ k * ByteBits + ByteBits <= MaxBits /\ 1 * ByteBits = ByteBits
    BY BitsAre DEF MaxBits
  <2>2. Power[k * ByteBits + ByteBits] = Power[k * ByteBits] * Power[ByteBits]
    BY <2>1, BitsAre, PowersMultiply
  <2> QED BY <2>1, <2>2 DEF Numbers, Base
<1>4. \A k \in 0 .. 8 : Numbers(k) \in Nat \ {0} /\ (k # 0 => Numbers(k) % 2 = 0 /\ Numbers(k) >= 2)
  <2> TAKE k \in 0 .. 8
  <2>1. k * ByteBits \in 0 .. MaxBits /\ (k # 0 => k * ByteBits \in 1 .. MaxBits)
    BY <1>1, BitsAre
  <2> QED BY <1>2, <2>1, PowerType DEF Numbers
<1>5. Numbers(0) = 1
  BY PowerStep, BitsAre DEF Numbers
<1> QED BY <1>1, <1>3, <1>4, <1>5 DEF Base

-----------------------------------------------------------------------------
(* Division.                                                               *)

\* The quotient and the remainder of a number that is written as r + b * q, and
\* what follows for sums, for quotients of quotients and for remainders.
LEMMA DivMod ==
  ASSUME NEW b \in Nat \ {0}, NEW q \in Int, NEW r \in 0 .. b - 1
  PROVE  (r + b * q) \div b = q /\ (r + b * q) % b = r
OBVIOUS

LEMMA DivAdd ==
  ASSUME NEW b \in Nat \ {0}, NEW x \in Int, NEW y \in Int
  PROVE  (x + b * y) \div b = (x \div b) + y /\ (x + b * y) % b = x % b
<1> DEFINE q == x \div b
           r == x % b
<1>1. x = r + b * q /\ r \in 0 .. b - 1 /\ q \in Int
  OBVIOUS
<1> HIDE DEF q, r
<1>2. x + b * y = r + b * (q + y)
  BY <1>1
<1>3. (x + b * y) \div b = q + y /\ (x + b * y) % b = r
  BY <1>1, <1>2, DivMod
<1> QED BY <1>3 DEF q, r

LEMMA DivDiv ==
  ASSUME NEW b \in Nat \ {0}, NEW c \in Nat \ {0}, NEW x \in Int
  PROVE  (x \div b) \div c = x \div (b * c)
OBVIOUS

\* Numbers that are less than N apart and have one residue are equal.
LEMMA SameResidue ==
  ASSUME NEW N \in Nat \ {0}, NEW x \in Int, NEW y \in Int, NEW z \in Int,
         z - y < N, y - z < N, (z - x) % N = 0, (y - x) % N = 0
  PROVE  z = y
<1> DEFINE p == (z - x) \div N
           r == (y - x) \div N
<1>1. z - x = N * p /\ y - x = N * r /\ p \in Int /\ r \in Int
  OBVIOUS
<1> HIDE DEF p, r
<1>2. z - y = N * (p - r) /\ N * (p - r) \in Int
  BY <1>1
<1>3. p - r >= 1 => N * (p - r) >= N
  BY <1>1
<1>4. p - r <= -1 => N * (p - r) <= -N
  BY <1>1
<1>5. p - r = 0
  BY <1>1, <1>2, <1>3, <1>4
<1>6. N * 0 = 0
  OBVIOUS
<1> QED BY <1>2, <1>5, <1>6

LEMMA ModProduct ==
  ASSUME NEW b \in Nat \ {0}, NEW c \in Nat \ {0}, NEW x \in Int
  PROVE  x % (b * c) = (x % b) + b * ((x \div b) % c)
<1> DEFINE q == x \div b
           r == x % b
           p == q \div c
           d == q % c
<1>1. x = r + b * q /\ r \in 0 .. b - 1 /\ q \in Int
  OBVIOUS
<1>2. q = d + c * p /\ d \in 0 .. c - 1 /\ p \in Int
  BY <1>1
<1> HIDE DEF q, r, p, d
<1>3. x = (r + b * d) + (b * c) * p
  BY <1>1, <1>2
<1>4. r + b * d \in 0 .. b * c - 1 /\ b * c \in Nat \ {0}
  <2>1. b * d <= b * (c - 1) /\ b * d >= 0 /\ b * d \in Int
    BY <1>2
  <2>2. b * (c - 1) = b * c - b /\ b * c >= 1 /\ b * c \in Int
    OBVIOUS
  <2> QED BY <1>1, <2>1, <2>2
<1>5. x % (b * c) = r + b * d
  BY <1>2, <1>3, <1>4, DivMod
<1> QED BY <1>5 DEF r, d, q

-----------------------------------------------------------------------------
(* Bits.                                                                   *)

LEMMA BitIs ==
  ASSUME NEW x \in Int, NEW i \in 0 .. MaxBits
  PROVE  Bit(x, i) \in {0, 1}
<1>1. Power[i] \in Nat \ {0}
  BY PowerType
<1>2. x \div Power[i] \in Int
  BY <1>1
<1> QED BY <1>2 DEF Bit

\* The bits of a number with a low and a high part.
LEMMA BitsOfParts ==
  ASSUME NEW n \in 0 .. MaxBits, NEW low \in 0 .. Power[n] - 1, NEW high \in Nat,
         NEW i \in 0 .. MaxBits
  PROVE  /\ i < n => Bit(low + Power[n] * high, i) = Bit(low, i)
         /\ i >= n => Bit(low + Power[n] * high, i) = Bit(high, i - n)
<1>1. Power[n] \in Nat \ {0} /\ Power[i] \in Nat \ {0} /\ low \in Int /\ n \in Nat /\ i \in Nat
  BY PowerType, BitsAre
<1>2. CASE i < n
  <2>1. n - i \in 1 .. MaxBits /\ (n - i) - 1 \in 0 .. MaxBits - 1 /\ n = i + (n - i)
    BY <1>1, <1>2, BitsAre
  <2>2. PICK half \in Nat : Power[n - i] = 2 * half
    <3> DEFINE m == (n - i) - 1
    <3>1. m \in 0 .. MaxBits - 1 /\ m \in 0 .. MaxBits /\ m + 1 = n - i
      BY <2>1, BitsAre
    <3> HIDE DEF m
    <3>2. Power[n - i] = 2 * Power[m] /\ Power[m] \in Nat
      BY <3>1, PowerStep, PowerType
    <3> QED BY <3>2
  <2>3. Power[n] = Power[i] * Power[n - i]
    BY <1>1, <2>1, BitsAre, PowersMultiply
  <2>4. Power[n] * high = Power[i] * (2 * (half * high)) /\ half * high \in Int
    BY <1>1, <2>2, <2>3
  <2>5. (low + Power[n] * high) \div Power[i] = (low \div Power[i]) + 2 * (half * high)
    <3>1. 2 * (half * high) \in Int
      BY <2>4
    <3> QED BY <1>1, <2>4, <3>1, DivAdd
  <2>6. low \div Power[i] \in Int
    BY <1>1
  <2> QED BY <1>2, <2>4, <2>5, <2>6 DEF Bit
<1>3. CASE i >= n
  <2>1. i - n \in 0 .. MaxBits /\ i = n + (i - n) /\ Power[i - n] \in Nat \ {0}
    BY <1>1, <1>3, BitsAre, PowerType
  <2>2. Power[i] = Power[n] * Power[i - n]
    BY <1>1, <2>1, BitsAre, PowersMultiply
  <2> DEFINE x == low + Power[n] * high
  <2>3. x \in Int /\ x \div Power[n] = high
    <3>1. Power[n] * high \in Int
      BY <1>1
    <3>2. (low + Power[n] * high) \div Power[n] = high
      BY <1>1, DivMod
    <3> QED BY <1>1, <3>1, <3>2
  <2> HIDE DEF x
  <2>4. x \div Power[i] = high \div Power[i - n]
    BY <1>1, <2>1, <2>2, <2>3, DivDiv
  <2> QED BY <1>3, <2>4 DEF Bit, x
<1> QED BY <1>1, <1>2, <1>3

\* The byte with some bits has these.
LEMMA ByteOfIs ==
  ASSUME NEW bits \in SUBSET (0 .. ByteBits - 1)
  PROVE  /\ ByteOf(bits) \in 0 .. Base - 1
         /\ \A i \in 0 .. ByteBits - 1 : Bit(ByteOf(bits), i) = IF i \in bits THEN 1 ELSE 0
         /\ BitsOf(ByteOf(bits)) = bits
<1> DEFINE term == [i \in 0 .. ByteBits - 1 |-> IF i \in bits THEN Power[i] ELSE 0]
           s == Sums(term)
           S == {n \in 0 .. ByteBits : /\ s[n] \in 0 .. Power[n] - 1
                                      /\ \A i \in 0 .. n - 1 :
                                           Bit(s[n], i) = IF i \in bits THEN 1 ELSE 0}
<1>1. /\ s[0] = 0
      /\ \A n \in 0 .. ByteBits - 1 : s[n + 1] = s[n] + term[n]
      /\ \A n \in 0 .. ByteBits : n \in 0 .. MaxBits
      /\ \A n \in 0 .. ByteBits - 1 : n \in 0 .. MaxBits - 1
  <2>1. s[0] = 0 /\ \A n \in 0 .. MaxBits - 1 : s[n + 1] = s[n] + term[n]
    BY SumsStep
  <2>2. /\ \A n \in 0 .. ByteBits : n \in 0 .. MaxBits
        /\ \A n \in 0 .. ByteBits - 1 : n \in 0 .. MaxBits - 1
    BY BitsAre DEF MaxBits
  <2> HIDE DEF s, term
  <2> QED BY <2>1, <2>2
<1> HIDE DEF s
<1>2. 0 \in S
  BY <1>1, BitsAre, PowerStep
<1>3. ASSUME NEW n \in 0 .. ByteBits - 1, n \in S
      PROVE  n + 1 \in S
  <2> DEFINE high == IF n \in bits THEN 1 ELSE 0
  <2>1. /\ n \in 0 .. MaxBits - 1 /\ n \in 0 .. MaxBits /\ n + 1 \in 0 .. ByteBits
        /\ Power[n] \in Nat \ {0} /\ Power[n + 1] = 2 * Power[n]
    BY <1>1, BitsAre, PowerType, PowerStep
  <2>2. s[n + 1] = s[n] + Power[n] * high /\ high \in {0, 1}
    BY <1>1, <2>1
  <2>3. s[n] \in 0 .. Power[n] - 1
    BY <1>3
  <2>4. s[n + 1] \in 0 .. Power[n + 1] - 1
    BY <2>1, <2>2, <2>3
  <2>5. ASSUME NEW i \in 0 .. n
        PROVE  Bit(s[n + 1], i) = IF i \in bits THEN 1 ELSE 0
    <3>1. i \in 0 .. MaxBits /\ n \in Nat /\ i \in Nat
      BY <2>1, BitsAre
    <3>2. /\ i < n => Bit(s[n + 1], i) = Bit(s[n], i)
          /\ i >= n => Bit(s[n + 1], i) = Bit(high, i - n)
      BY <2>1, <2>2, <2>3, <3>1, BitsOfParts
    <3>3. CASE i < n
      BY <1>3, <3>1, <3>2, <3>3
    <3>4. CASE i = n
      <4>1. i - n = 0 /\ Power[0] = 1
        BY <3>1, <3>4, PowerStep
      <4>2. Bit(high, 0) = high
        BY <2>2, <4>1 DEF Bit
      <4> QED BY <3>1, <3>2, <3>4, <4>1, <4>2
    <3> QED BY <3>1, <3>3, <3>4
  <2>6. \A i \in 0 .. (n + 1) - 1 : Bit(s[n + 1], i) = IF i \in bits THEN 1 ELSE 0
    BY <2>1, <2>5
  <2> QED BY <2>1, <2>4, <2>6
<1> HIDE DEF S
<1>4. ByteBits \in S
  BY <1>2, <1>3, BitsAre, Induction
<1>5. ByteOf(bits) = s[ByteBits] /\ Power[ByteBits] = Base
  BY BitsAre DEF ByteOf, s, Base, Numbers
<1>6. \A i \in 0 .. ByteBits - 1 : Bit(ByteOf(bits), i) = IF i \in bits THEN 1 ELSE 0
  BY <1>4, <1>5 DEF S
<1>7. ByteOf(bits) \in 0 .. Base - 1
  BY <1>4, <1>5 DEF S
<1>8. BitsOf(ByteOf(bits)) = bits
  <2> DEFINE y == ByteOf(bits)
  <2>1. \A i \in 0 .. ByteBits - 1 : Bit(y, i) = 1 <=> i \in bits
    BY <1>6
  <2> HIDE DEF y
  <2>2. BitsOf(y) = bits
    BY <2>1 DEF BitsOf
  <2> QED BY <2>2 DEF y
<1> QED BY <1>6, <1>7, <1>8

\* A byte is known by its bits.
LEMMA ByteOfBits ==
  ASSUME NEW x \in 0 .. Base - 1
  PROVE  ByteOf(BitsOf(x)) = x
<1> DEFINE bits == BitsOf(x)
           term == [i \in 0 .. ByteBits - 1 |-> IF i \in bits THEN Power[i] ELSE 0]
           s == Sums(term)
           S == {n \in 0 .. ByteBits : s[n] = x % Power[n]}
<1>1. /\ s[0] = 0
      /\ \A n \in 0 .. ByteBits - 1 : s[n + 1] = s[n] + term[n]
      /\ \A n \in 0 .. ByteBits - 1 : n \in 0 .. MaxBits - 1 /\ n \in 0 .. MaxBits
  <2>1. s[0] = 0 /\ \A n \in 0 .. MaxBits - 1 : s[n + 1] = s[n] + term[n]
    BY SumsStep
  <2>2. \A n \in 0 .. ByteBits - 1 : n \in 0 .. MaxBits - 1 /\ n \in 0 .. MaxBits
    BY BitsAre DEF MaxBits
  <2> HIDE DEF s, term
  <2> QED BY <2>1, <2>2
<1> HIDE DEF s
<1>2. x \in Nat
  BY BaseIs
<1>3. 0 \in S
  BY <1>1, <1>2, BitsAre, PowerStep
<1>4. ASSUME NEW n \in 0 .. ByteBits - 1, n \in S
      PROVE  n + 1 \in S
  <2>1. /\ n \in 0 .. MaxBits /\ n + 1 \in 0 .. ByteBits
        /\ Power[n] \in Nat \ {0} /\ Power[n + 1] = Power[n] * 2
    BY <1>1, BitsAre, PowerType, PowerStep
  <2>2. x % (Power[n] * 2) = (x % Power[n]) + Power[n] * Bit(x, n)
    <3>1. x \in Int /\ 2 \in Nat \ {0}
      BY <1>2
    <3>2. x % (Power[n] * 2) = (x % Power[n]) + Power[n] * ((x \div Power[n]) % 2)
      BY <2>1, <3>1, ModProduct
    <3> QED BY <3>2 DEF Bit
  <2>3. Bit(x, n) \in {0, 1}
    BY <1>2, <2>1, BitIs
  <2>4. n \in bits <=> Bit(x, n) = 1
    BY DEF BitsOf
  <2>5. term[n] = Power[n] * Bit(x, n)
    BY <2>1, <2>3, <2>4
  <2>6. s[n + 1] = x % Power[n + 1]
    BY <1>1, <1>4, <2>1, <2>2, <2>5
  <2> QED BY <2>1, <2>6
<1> HIDE DEF S
<1>5. s[ByteBits] = x % Power[ByteBits]
  <2>1. ByteBits \in S
    BY <1>3, <1>4, BitsAre, Induction
  <2> QED BY <2>1 DEF S
<1>6. Power[ByteBits] = Base
  BY BitsAre DEF Base, Numbers
<1>7. x % Base = x
  BY BaseIs
<1> QED BY <1>5, <1>6, <1>7 DEF ByteOf, s

\* The bits of 0 and of 1.
LEMMA BitsOfBool ==
  /\ BitsOf(0) = {} /\ BitsOf(1) = {0}
  /\ ByteOf({}) = 0 /\ ByteOf({0}) = 1
<1>1. \A i \in 0 .. ByteBits - 1 : Bit(0, i) = 0
  <2> TAKE i \in 0 .. ByteBits - 1
  <2>1. i \in 0 .. MaxBits
    BY BitsAre DEF MaxBits
  <2> QED BY <2>1, PowerType DEF Bit
<1>2. \A i \in 0 .. ByteBits - 1 : Bit(1, i) = IF i = 0 THEN 1 ELSE 0
  <2> TAKE i \in 0 .. ByteBits - 1
  <2>1. i = 0 \/ i - 1 \in 0 .. MaxBits - 1
    BY BitsAre DEF MaxBits
  <2>2. CASE i = 0
    BY <2>2, PowerStep DEF Bit
  <2>3. CASE i # 0
    <3> DEFINE m == i - 1
    <3>1. m \in 0 .. MaxBits - 1 /\ m \in 0 .. MaxBits /\ m + 1 = i
      BY <2>1, <2>3, BitsAre
    <3> HIDE DEF m
    <3>2. Power[i] = 2 * Power[m] /\ Power[m] \in Nat \ {0}
      BY <3>1, PowerStep, PowerType
    <3>3. 1 \div Power[i] = 0
      BY <3>2
    <3> QED BY <2>3, <3>3 DEF Bit
  <2> QED BY <2>2, <2>3
<1>3. BitsOf(0) = {}
  BY <1>1 DEF BitsOf
<1>4. BitsOf(1) = {0}
  BY <1>2, BitsAre DEF BitsOf
<1>5. 0 \in 0 .. Base - 1 /\ 1 \in 0 .. Base - 1
  BY BaseIs
<1> QED BY <1>3, <1>4, <1>5, ByteOfBits

\* What C's operators make of two bytes, and of two BOOLs that are 0 or 1.
Combination(op, x, y) ==
  CASE op = "AND" -> And(x, y) [] op = "OR" -> Or(x, y) [] op = "XOR" -> Xor(x, y)
Combines(op, p, q) ==
  CASE op = "AND" -> p /\ q [] op = "OR" -> p \/ q [] op = "XOR" -> p # q

\* A combination of bytes has the bits that the operator makes of theirs.
LEMMA CombinationIs ==
  ASSUME NEW x, NEW y, NEW op \in {"AND", "OR", "XOR"}
  PROVE  /\ Combination(op, x, y) \in 0 .. Base - 1
         /\ \A i \in 0 .. ByteBits - 1 :
              Bit(Combination(op, x, y), i) = 1 <=> Combines(op, Bit(x, i) = 1, Bit(y, i) = 1)
<1> DEFINE bits ==
      CASE op = "AND" -> BitsOf(x) \cap BitsOf(y) [] op = "OR" -> BitsOf(x) \cup BitsOf(y)
        [] op = "XOR" -> (BitsOf(x) \cup BitsOf(y)) \ (BitsOf(x) \cap BitsOf(y))
<1>1. bits \in SUBSET (0 .. ByteBits - 1)
  BY DEF BitsOf
<1>2. Combination(op, x, y) = ByteOf(bits)
  BY DEF Combination, And, Or, Xor
<1>3. \A i \in 0 .. ByteBits - 1 : i \in bits <=> Combines(op, Bit(x, i) = 1, Bit(y, i) = 1)
  BY DEF Combines, BitsOf
<1> HIDE DEF bits
<1>4. /\ ByteOf(bits) \in 0 .. Base - 1
      /\ \A i \in 0 .. ByteBits - 1 : Bit(ByteOf(bits), i) = IF i \in bits THEN 1 ELSE 0
  BY <1>1, ByteOfIs
<1> HIDE DEF Combination
<1> QED BY <1>2, <1>3, <1>4

\* And, Or and Xor of BOOLs that are 0 or 1 are 0 or 1.
LEMMA CombinationOfBools ==
  ASSUME NEW x \in {0, 1}, NEW y \in {0, 1}, NEW op \in {"AND", "OR", "XOR"}
  PROVE  /\ Combination(op, x, y) \in {0, 1}
         /\ Combination(op, x, y) = 1 <=> Combines(op, x = 1, y = 1)
<1>1. /\ {} \cap {} = {} /\ {0} \cap {} = {} /\ {} \cap {0} = {} /\ {0} \cap {0} = {0}
      /\ {} \cup {} = {} /\ {0} \cup {} = {0} /\ {} \cup {0} = {0} /\ {0} \cup {0} = {0}
      /\ {} \ {} = {} /\ {0} \ {} = {0} /\ {0} \ {0} = {}
  OBVIOUS
<1>2. (x = 0 \/ x = 1) /\ (y = 0 \/ y = 1) /\ 0 # 1
  OBVIOUS
<1>3. CASE op = "AND"
  BY <1>1, <1>2, <1>3, BitsOfBool DEF Combination, Combines, And
<1>4. CASE op = "OR"
  BY <1>1, <1>2, <1>4, BitsOfBool DEF Combination, Combines, Or
<1>5. CASE op = "XOR"
  BY <1>1, <1>2, <1>5, BitsOfBool DEF Combination, Combines, Xor
<1> QED BY <1>3, <1>4, <1>5

-----------------------------------------------------------------------------
(* Numbers of several bytes.                                               *)

\* The bytes from an offset on.
AreBytes(data, at, bytes) == \A k \in 0 .. bytes - 1 : data[at + k] \in 0 .. Base - 1

Terms(data, at, bytes) == [k \in 0 .. bytes - 1 |-> data[at + k] * Numbers(k)]

AddsUp(s, data, at, bytes) ==
  /\ s[0] = 0 /\ Decoded(data, at, bytes) = s[bytes]
  /\ \A k \in 0 .. bytes - 1 : s[k + 1] = s[k] + data[at + k] * Numbers(k)

\* The number in some bytes is the last of a sequence of sums, one for each byte.
LEMMA DecodedSteps ==
  ASSUME NEW data, NEW at, NEW bytes \in 0 .. 8
  PROVE  \E s : AddsUp(s, data, at, bytes)
<1> DEFINE s == Sums(Terms(data, at, bytes))
<1>1. s[0] = 0 /\ \A k \in 0 .. MaxBits - 1 : s[k + 1] = s[k] + Terms(data, at, bytes)[k]
  BY SumsStep
<1>2. \A k \in 0 .. bytes - 1 : Terms(data, at, bytes)[k] = data[at + k] * Numbers(k)
  BY DEF Terms
<1>3. \A k \in 0 .. bytes - 1 : k \in 0 .. MaxBits - 1
  BY BitsAre DEF MaxBits
<1>4. Decoded(data, at, bytes) = s[bytes]
  BY DEF Decoded, Terms
<1> HIDE DEF s
<1>5. \A k \in 0 .. bytes - 1 : s[k + 1] = s[k] + data[at + k] * Numbers(k)
  BY <1>1, <1>2, <1>3
<1> QED BY <1>1, <1>4, <1>5 DEF AddsUp

\* Only these bytes matter.
LEMMA DecodedSame ==
  ASSUME NEW data, NEW other, NEW at, NEW bytes,
         \A k \in 0 .. bytes - 1 : data[at + k] = other[at + k]
  PROVE  Decoded(data, at, bytes) = Decoded(other, at, bytes)
<1>1. Terms(data, at, bytes) = Terms(other, at, bytes)
  BY DEF Terms
<1> QED BY <1>1 DEF Decoded, Terms

\* The number is in the range of so many bytes, and has their bits.
LEMMA DecodedIs ==
  ASSUME NEW data, NEW at, NEW bytes \in 0 .. 8, AreBytes(data, at, bytes)
  PROVE  /\ Decoded(data, at, bytes) \in 0 .. Numbers(bytes) - 1
         /\ \A k \in 0 .. bytes - 1, i \in 0 .. ByteBits - 1 :
              Bit(Decoded(data, at, bytes), k * ByteBits + i) = Bit(data[at + k], i)
<1>1. PICK s : AddsUp(s, data, at, bytes)
  BY DecodedSteps
<1> DEFINE S == {n \in 0 .. bytes :
                   /\ s[n] \in 0 .. Numbers(n) - 1
                   /\ \A k \in 0 .. n - 1, i \in 0 .. ByteBits - 1 :
                        Bit(s[n], k * ByteBits + i) = Bit(data[at + k], i)}
<1>2. 0 \in S
  BY <1>1, BaseIs DEF AddsUp
<1>3. ASSUME NEW n \in 0 .. bytes - 1, n \in S
      PROVE  n + 1 \in S
  <2> DEFINE high == data[at + n]
             place == n * ByteBits
  <2>0. high \in 0 .. Base - 1
    BY DEF AreBytes
  <2>1. /\ high \in Nat /\ Base \in Nat
        /\ n \in 0 .. 7 /\ n + 1 \in 0 .. bytes
        /\ place \in 0 .. MaxBits /\ Power[place] = Numbers(n) /\ Numbers(n) \in Nat \ {0}
        /\ Numbers(n + 1) = Numbers(n) * Base
    <3>1. n \in 0 .. 7 /\ n \in 0 .. 8 /\ n + 1 \in 0 .. bytes
      OBVIOUS
    <3>2. place \in 0 .. MaxBits /\ Numbers(n) \in Nat \ {0} /\ Numbers(n + 1) = Numbers(n) * Base
      <4>1. \A k \in 0 .. 8 : Numbers(k) \in Nat \ {0}
        BY BaseIs
      <4>2. \A k \in 0 .. 7 : Numbers(k + 1) = Numbers(k) * Base
        BY BaseIs
      <4>3. place \in 0 .. MaxBits
        BY <3>1, BitsAre DEF MaxBits
      <4> QED BY <3>1, <4>1, <4>2, <4>3
    <3> QED BY <2>0, <3>1, <3>2, BaseIs DEF Numbers
  <2>2. s[n] \in 0 .. Power[place] - 1
    BY <1>3, <2>1
  <2> HIDE DEF high
  <2>3. s[n + 1] = s[n] + Power[place] * high
    <3>1. s[n + 1] = s[n] + high * Numbers(n)
      BY <1>1 DEF AddsUp, high
    <3> QED BY <2>1, <3>1
  <2>4. s[n + 1] \in 0 .. Numbers(n + 1) - 1
    <3>1. Numbers(n) * high <= Numbers(n) * (Base - 1) /\ Numbers(n) * high \in Nat
      BY <2>0, <2>1
    <3>2. Numbers(n) * (Base - 1) = Numbers(n) * Base - Numbers(n) /\ Numbers(n) * Base \in Nat
      BY <2>1
    <3> QED BY <2>1, <2>2, <2>3, <3>1, <3>2
  <2>5. ASSUME NEW k \in 0 .. n, NEW i \in 0 .. ByteBits - 1
        PROVE  Bit(s[n + 1], k * ByteBits + i) = Bit(data[at + k], i)
    <3> DEFINE spot == k * ByteBits + i
    <3>1. /\ spot \in 0 .. MaxBits /\ k \in Nat /\ n \in Nat /\ spot \in Nat /\ place \in Nat
          /\ k < n => spot < place
          /\ k = n => spot >= place /\ spot - place = i
      <4>1. k <= n /\ n <= 7 /\ i < ByteBits /\ i \in Nat /\ k \in Nat /\ n \in Nat
        BY <2>1, BitsAre
      <4>2. k * ByteBits <= 7 * ByteBits
        BY <4>1, BitsAre
      <4>3. k < n => k * ByteBits + ByteBits <= n * ByteBits
        <5>1. (k + 1) * ByteBits = k * ByteBits + ByteBits
          BY <4>1, BitsAre
        <5> QED BY <4>1, <5>1, BitsAre
      <4> QED BY <4>1, <4>2, <4>3, BitsAre DEF MaxBits
    <3>2. /\ spot < place => Bit(s[n + 1], spot) = Bit(s[n], spot)
          /\ spot >= place => Bit(s[n + 1], spot) = Bit(high, spot - place)
      <4> HIDE DEF spot, place
      <4> QED BY <2>1, <2>2, <2>3, <3>1, BitsOfParts
    <3>3. CASE k < n
      BY <1>3, <3>1, <3>2, <3>3
    <3>4. CASE k = n
      BY <3>1, <3>2, <3>4 DEF high
    <3> QED BY <3>1, <3>3, <3>4
  <2>6. \A k \in 0 .. (n + 1) - 1, i \in 0 .. ByteBits - 1 :
          Bit(s[n + 1], k * ByteBits + i) = Bit(data[at + k], i)
    BY <2>1, <2>5
  <2> QED BY <2>1, <2>4, <2>6
<1> HIDE DEF S
<1>4. bytes \in S
  BY <1>2, <1>3, Induction
<1> QED BY <1>1, <1>4 DEF AddsUp, S

\* What a number becomes that is stored in bytes and read again.
LEMMA DecodedEncoded ==
  ASSUME NEW data, NEW at, NEW bytes \in 0 .. 8, NEW x \in Int,
         \A k \in 0 .. bytes - 1 : data[at + k] = (x \div Numbers(k)) % Base
  PROVE  Decoded(data, at, bytes) = x % Numbers(bytes)
<1>1. PICK s : AddsUp(s, data, at, bytes)
  BY DecodedSteps
<1> DEFINE S == {n \in 0 .. bytes : s[n] = x % Numbers(n)}
<1>2. 0 \in S
  BY <1>1, BaseIs DEF AddsUp
<1>3. ASSUME NEW n \in 0 .. bytes - 1, n \in S
      PROVE  n + 1 \in S
  <2>1. /\ n \in 0 .. 7 /\ n + 1 \in 0 .. bytes /\ Numbers(n) \in Nat \ {0}
        /\ Base \in Nat \ {0} /\ Numbers(n + 1) = Numbers(n) * Base
    BY BaseIs
  <2> DEFINE digit == (x \div Numbers(n)) % Base
  <2>2. x % (Numbers(n) * Base) = (x % Numbers(n)) + Numbers(n) * digit
    BY <2>1, ModProduct
  <2>3. digit \in Int
    BY <2>1
  <2> HIDE DEF digit
  <2>4. s[n + 1] = s[n] + digit * Numbers(n)
    BY <1>1 DEF AddsUp, digit
  <2> QED BY <1>3, <2>1, <2>2, <2>3, <2>4
<1> HIDE DEF S
<1>4. bytes \in S
  BY <1>2, <1>3, Induction
<1> QED BY <1>1, <1>4 DEF AddsUp, S

\* What it becomes when all bits of the bytes are inverted.
AreInverted(other, data, at, bytes) ==
  \A k \in 0 .. bytes - 1 : other[at + k] = Base - 1 - data[at + k]

LEMMA DecodedInverted ==
  ASSUME NEW data, NEW at, NEW other, NEW bytes \in 0 .. 8, AreBytes(data, at, bytes),
         AreInverted(other, data, at, bytes)
  PROVE  Decoded(other, at, bytes) = Numbers(bytes) - 1 - Decoded(data, at, bytes)
<1>1. PICK s : AddsUp(s, data, at, bytes)
  BY DecodedSteps
<1>2. PICK t : AddsUp(t, other, at, bytes)
  BY DecodedSteps
<1> DEFINE S == {n \in 0 .. bytes : s[n] \in Int /\ t[n] = Numbers(n) - 1 - s[n]}
<1>3. 0 \in S
  <2>1. Numbers(0) = 1
    BY BaseIs
  <2> QED BY <1>1, <1>2, <2>1 DEF AddsUp
<1>4. ASSUME NEW n \in 0 .. bytes - 1, n \in S
      PROVE  n + 1 \in S
  <2> DEFINE d == data[at + n]
  <2>1. /\ n \in 0 .. 7 /\ n + 1 \in 0 .. bytes /\ Numbers(n) \in Nat \ {0}
        /\ Base \in Nat /\ Numbers(n + 1) = Numbers(n) * Base
    BY BaseIs
  <2>0. d \in 0 .. Base - 1 /\ other[at + n] = Base - 1 - d
    BY DEF AreBytes, AreInverted
  <2>2. s[n + 1] = s[n] + d * Numbers(n) /\ t[n + 1] = t[n] + (Base - 1 - d) * Numbers(n)
    BY <1>2, <1>1, <2>0, <2>1 DEF AddsUp
  <2> HIDE DEF d
  <2>3. (Base - 1 - d) * Numbers(n) = Numbers(n) * Base - Numbers(n) - d * Numbers(n)
        /\ d * Numbers(n) \in Int /\ Numbers(n) * Base \in Int
    BY <2>0, <2>1
  <2> QED BY <1>4, <2>1, <2>2, <2>3
<1> HIDE DEF S
<1>5. bytes \in S
  BY <1>3, <1>4, Induction
<1> QED BY <1>2, <1>1, <1>5 DEF AddsUp, S

-----------------------------------------------------------------------------
(* The layout of the types.                                                *)

\* The parts of a value lie inside of it.
LEMMA PartsAre ==
  ASSUME NEW type \in Types
  PROVE  /\ SizeOf(type) \in {1, 2, 3, 4, 6, 8, 12}
         /\ DOMAIN Offsets(type) = DOMAIN Parts(type)
         /\ \A i \in DOMAIN Parts(type) :
              /\ Parts(type)[i] \in {1, 2, 4, 8} /\ Offsets(type)[i] \in Nat
              /\ Offsets(type)[i] + Parts(type)[i] <= SizeOf(type)
<1> USE DEF Types, BitStrings, SignedInts, UnsignedInts, Dates, SignedTypes,
            Parts, Offsets, SizeOf
<1>1. CASE type \in {"BOOL", "BYTE", "SINT", "USINT"}
  BY <1>1
<1>2. CASE type \in {"WORD", "INT", "UINT", "BCD16"}
  BY <1>2
<1>3. CASE type \in {"DWORD", "DINT", "UDINT", "TIME", "BCD32"}
  BY <1>3
<1>4. CASE type \in {"LWORD", "LINT", "ULINT"}
  BY <1>4
<1>5. CASE type = "D"
  BY <1>5
<1>6. CASE type = "TOD"
  BY <1>6
<1>7. CASE type = "DT"
  BY <1>7
<1>8. CASE type = "OTHER"
  BY <1>8
<1> QED BY <1>1, <1>2, <1>3, <1>4, <1>5, <1>6, <1>7, <1>8

\* All types but dates and structures have one part.
LEMMA OnePart ==
  ASSUME NEW type \in Types \ (Dates \cup {"OTHER"})
  PROVE  /\ Parts(type) = <<SizeOf(type)>> /\ Offsets(type) = <<0>>
         /\ DOMAIN Parts(type) = {1} /\ Parts(type)[1] = SizeOf(type) /\ Offsets(type)[1] = 0
         /\ SizeOf(type) \in {1, 2, 4, 8}
         /\ type = "BOOL" => SizeOf(type) = 1
<1>1. /\ Offsets(type) = <<0>> /\ SizeOf(type) = Parts(type)[1]
      /\ Parts(type) \in {<<1>>, <<2>>, <<4>>, <<8>>}
      /\ type = "BOOL" => Parts(type) = <<1>>
  BY DEF Types, BitStrings, SignedInts, UnsignedInts, Dates, SignedTypes, Parts, Offsets, SizeOf
<1>2. PICK n \in {1, 2, 4, 8} : Parts(type) = <<n>>
  BY <1>1
<1>3. <<n>>[1] = n /\ DOMAIN <<n>> = {1} /\ <<0>>[1] = 0
  OBVIOUS
<1>4. type = "BOOL" => n = 1
  BY <1>1, <1>2
<1> QED BY <1>1, <1>2, <1>3, <1>4

\* The register has room for every type in use.
LEMMA RegisterHolds ==
  /\ RegisterSize \in Nat /\ RegisterSize >= 4
  /\ \A v \in Variables : TypeOf[v] \in Types /\ SizeOf(TypeOf[v]) \in 1 .. RegisterSize
<1> DEFINE sizes == {SizeOf(TypeOf[v]) : v \in Variables} \cup {SizeOf("TIME")}
<1>1. \A v \in Variables : TypeOf[v] \in Types /\ SizeOf(TypeOf[v]) \in {1, 2, 3, 4, 6, 8, 12}
  BY PLCAssumption, PartsAre
<1>2. SizeOf("TIME") = 4
  BY DEF SizeOf, Parts
<1>3. sizes \subseteq {1, 2, 3, 4, 6, 8, 12} /\ 4 \in sizes
  BY <1>1, <1>2
<1>4. \A v \in Variables : SizeOf(TypeOf[v]) \in sizes
  OBVIOUS
<1> HIDE DEF sizes
<1>5. \E n \in sizes : \A m \in sizes : m <= n
  BY <1>3
<1>6. RegisterSize \in sizes /\ \A m \in sizes : m <= RegisterSize
  BY <1>5 DEF RegisterSize, sizes
<1> QED BY <1>1, <1>3, <1>4, <1>6

-----------------------------------------------------------------------------
(* Types.                                                                  *)

Bytes(n) == [0 .. n - 1 -> 0 .. Base - 1]

\* A register and a variable of a type as they should be.
Fine(cr) ==
  /\ cr \in [TYPE : Types, VALUE : Bytes(RegisterSize)]
  /\ cr.TYPE = "BOOL" => cr.VALUE[0] \in {0, 1}
FineData(type, data) ==
  /\ data \in Bytes(SizeOf(type))
  /\ type = "BOOL" => data[0] \in {0, 1}

LEMMA RegisterOKIs ==
  RegisterOK <=> Fine(CR) /\ \A v \in Variables : FineData(TypeOf[v], memory[v])
BY DEF RegisterOK, Fine, FineData, Bytes

\* A number in bytes.
LEMMA EncodedIs ==
  ASSUME NEW x \in Int, NEW n \in 0 .. 8
  PROVE  /\ Encoded(x, n) \in Bytes(n)
         /\ n # 0 => Encoded(x, n)[0] = x % Base
<1>1. \A k \in 0 .. n - 1 : (x \div Numbers(k)) % Base \in 0 .. Base - 1
  <2> TAKE k \in 0 .. n - 1
  <2>1. k \in 0 .. 8
    OBVIOUS
  <2>2. Numbers(k) \in Nat \ {0} /\ Base \in Nat \ {0}
    BY <2>1, BaseIs
  <2> QED BY <2>2
<1>2. Numbers(0) = 1 /\ x \div 1 = x
  BY BaseIs
<1> QED BY <1>1, <1>2 DEF Encoded, Bytes

LEMMA BoolsEncoded ==
  /\ Encoded(0, 1) \in Bytes(1) /\ Encoded(1, 1) \in Bytes(1)
  /\ Encoded(0, 1)[0] = 0 /\ Encoded(1, 1)[0] = 1
<1>1. 0 % Base = 0 /\ 1 % Base = 1
  BY BaseIs
<1>2. 0 \in Int /\ 1 \in Int /\ 1 \in 0 .. 8 /\ 1 # 0
  OBVIOUS
<1>3. Encoded(0, 1) \in Bytes(1) /\ Encoded(0, 1)[0] = 0 % Base
  BY <1>2, EncodedIs
<1>4. Encoded(1, 1) \in Bytes(1) /\ Encoded(1, 1)[0] = 1 % Base
  BY <1>2, EncodedIs
<1> QED BY <1>1, <1>3, <1>4

\* An assignment writes the bytes of its type, and leaves the others.
LEMMA WrittenIs ==
  ASSUME NEW cr \in [TYPE : Types, VALUE : Bytes(RegisterSize)],
         NEW n \in 1 .. RegisterSize, NEW data \in Bytes(n)
  PROVE  /\ Written(cr, data) \in [TYPE : Types, VALUE : Bytes(RegisterSize)]
         /\ Written(cr, data).TYPE = cr.TYPE
         /\ \A k \in 0 .. n - 1 : Written(cr, data).VALUE[k] = data[k]
<1> DEFINE value == [k \in DOMAIN cr.VALUE |-> IF k \in DOMAIN data THEN data[k] ELSE cr.VALUE[k]]
<1>1. /\ DOMAIN cr.VALUE = 0 .. RegisterSize - 1 /\ DOMAIN data = 0 .. n - 1
      /\ \A k \in 0 .. RegisterSize - 1 : cr.VALUE[k] \in 0 .. Base - 1
      /\ \A k \in 0 .. n - 1 : data[k] \in 0 .. Base - 1
  BY DEF Bytes
<1>2. value \in Bytes(RegisterSize)
  BY <1>1 DEF Bytes
<1>3. \A k \in 0 .. n - 1 : value[k] = data[k]
  BY <1>1, RegisterHolds
<1> HIDE DEF value
<1>4. Written(cr, data) = [cr EXCEPT !.VALUE = value]
  BY DEF Written, value
<1> QED BY <1>2, <1>3, <1>4

\* The modifier N gives data of the same type.
LEMMA ModifiedIs ==
  ASSUME NEW type \in Types, NEW data, FineData(type, data), NEW m
  PROVE  FineData(type, Modified(type, data, m))
<1>1. SizeOf("BOOL") = 1 /\ "BOOL" \notin Dates
  BY DEF SizeOf, Parts, Dates
<1>2. CASE Modified(type, data, m) = data
  BY <1>2
<1>3. CASE type = "BOOL" /\ Modified(type, data, m) = Negated(data)
  <2>1. /\ Encoded(0, 1) \in Bytes(1) /\ Encoded(1, 1) \in Bytes(1)
        /\ Encoded(0, 1)[0] = 0 /\ Encoded(1, 1)[0] = 1
    BY BoolsEncoded
  <2> QED BY <1>1, <1>3, <2>1 DEF FineData, Negated
<1>4. CASE type # "BOOL" /\ Modified(type, data, m) = Inverted(data)
  <2>1. \A x \in 0 .. Base - 1 : Base - 1 - x \in 0 .. Base - 1
    BY BaseIs
  <2> QED BY <1>4, <2>1 DEF FineData, Inverted, Bytes
<1> QED BY <1>2, <1>3, <1>4 DEF Modified

\* The number in one byte is the byte.
LEMMA DecodedByte ==
  ASSUME NEW data, NEW at \in Int, data[at] \in Int
  PROVE  Decoded(data, at, 1) = data[at]
<1>1. PICK s : AddsUp(s, data, at, 1)
  BY DecodedSteps
<1>2. s[0] = 0 /\ Decoded(data, at, 1) = s[1] /\ s[0 + 1] = s[0] + data[at + 0] * Numbers(0)
  BY <1>1 DEF AddsUp
<1>3. Numbers(0) = 1 /\ at + 0 = at /\ 0 + 1 = 1
  BY BaseIs
<1> QED BY <1>2, <1>3

HasBytes(type, data) == \A k \in 0 .. SizeOf(type) - 1 : data[k] \in 0 .. Base - 1

\* The bytes of a part are bytes of the value.
LEMMA PartBytes ==
  ASSUME NEW type \in Types, NEW data, HasBytes(type, data), NEW i \in DOMAIN Parts(type)
  PROVE  /\ AreBytes(data, Offsets(type)[i], Parts(type)[i])
         /\ Parts(type)[i] \in 1 .. 8 /\ Offsets(type)[i] \in Nat
         /\ \A k \in 0 .. Parts(type)[i] - 1 : Offsets(type)[i] + k \in 0 .. SizeOf(type) - 1
<1> DEFINE n == Parts(type)[i]
           at == Offsets(type)[i]
<1>1. n \in {1, 2, 4, 8} /\ at \in Nat /\ at + n <= SizeOf(type) /\ SizeOf(type) \in Nat
  BY PartsAre
<1> HIDE DEF n, at
<1>2. \A k \in 0 .. n - 1 : at + k \in 0 .. SizeOf(type) - 1
  BY <1>1
<1>3. AreBytes(data, at, n)
  BY <1>2 DEF AreBytes, HasBytes
<1> QED BY <1>1, <1>2, <1>3 DEF n, at

\* A part is a number of its range; that of a BOOL is its byte.
LEMMA PartIs ==
  ASSUME NEW type \in Types, NEW data, HasBytes(type, data), NEW i \in DOMAIN Parts(type)
  PROVE  /\ Part(type, data, i) \in Int
         /\ type # "BOOL" => Part(type, data, i) \in PartRange(type, i)
         /\ type = "BOOL" => Part(type, data, i) = data[0]
<1> DEFINE bytes == Parts(type)[i]
           n == Decoded(data, Offsets(type)[i], bytes)
           N == Numbers(bytes)
<1>1. AreBytes(data, Offsets(type)[i], bytes) /\ bytes \in 1 .. 8
  BY PartBytes
<1>2. n \in 0 .. N - 1
  BY <1>1, DecodedIs
<1>3. N \in Nat \ {0} /\ N % 2 = 0
  BY <1>1, BaseIs
<1>4. Part(type, data, i) = IF type \in SignedTypes /\ n >= N \div 2 THEN n - N ELSE n
  BY DEF Part
<1>5. type # "BOOL" => PartRange(type, i) = IF type \in SignedTypes
                                          THEN -(N \div 2) .. (N \div 2) - 1 ELSE 0 .. N - 1
  BY DEF PartRange
<1>6. CASE type = "BOOL"
  <2>1. i = 1 /\ bytes = 1 /\ Offsets(type)[i] = 0 /\ "BOOL" \notin SignedTypes
        /\ SizeOf(type) = 1
    BY <1>6, OnePart DEF Dates, SignedTypes, SignedInts
  <2>2. data[0] \in Int
    BY <2>1, BaseIs DEF HasBytes
  <2>3. n = data[0]
    BY <2>1, <2>2, DecodedByte
  <2> QED BY <1>4, <1>6, <2>1, <2>2, <2>3
<1>7. CASE type # "BOOL"
  <2> HIDE DEF n, N
  <2> QED BY <1>2, <1>3, <1>4, <1>5, <1>7
<1> QED BY <1>6, <1>7

LEMMA RangeIs ==
  ASSUME NEW type \in Types, NEW i \in DOMAIN Parts(type)
  PROVE  PartRange(type, i) \subseteq Int
<1>1. Parts(type)[i] \in 1 .. 8
  BY PartsAre
<1>2. Numbers(Parts(type)[i]) \in Nat \ {0}
  BY <1>1, BaseIs
<1> QED BY <1>2 DEF PartRange

\* The variables start with bytes of their types.
LEMMA BytesOfIs ==
  ASSUME NEW type \in Types, NEW value, IsValue(type, value)
  PROVE  FineData(type, BytesOf(type, value))
<1> DEFINE in(k, i) == k - Offsets(type)[i] \in 0 .. Parts(type)[i] - 1
<1>1. ASSUME NEW k \in 0 .. SizeOf(type) - 1, NEW i \in DOMAIN value, in(k, i)
      PROVE  Encoded(value[i], Parts(type)[i])[k - Offsets(type)[i]] \in 0 .. Base - 1
  <2>1. i \in DOMAIN Parts(type) /\ value[i] \in Int /\ Parts(type)[i] \in 0 .. 8
    BY RangeIs, PartsAre DEF IsValue
  <2>2. Encoded(value[i], Parts(type)[i]) \in Bytes(Parts(type)[i])
    BY <2>1, EncodedIs
  <2> QED BY <1>1, <2>2 DEF Bytes
<1>2. 0 \in 0 .. Base - 1
  BY BaseIs
<1>3. ASSUME NEW k \in 0 .. SizeOf(type) - 1
      PROVE  BytesOf(type, value)[k] \in 0 .. Base - 1
  <2>1. CASE \E i \in DOMAIN value : in(k, i)
    <3>1. PICK i \in DOMAIN value :
             in(k, i) /\ BytesOf(type, value)[k] =
                           Encoded(value[i], Parts(type)[i])[k - Offsets(type)[i]]
      BY <2>1 DEF BytesOf
    <3> QED BY <1>1, <3>1
  <2>2. CASE ~ \E i \in DOMAIN value : in(k, i)
    BY <1>2, <2>2 DEF BytesOf
  <2> QED BY <2>1, <2>2
<1>4. BytesOf(type, value) \in Bytes(SizeOf(type))
  BY <1>3 DEF BytesOf, Bytes
<1>5. ASSUME type = "BOOL"
      PROVE  BytesOf(type, value)[0] \in {0, 1}
  <2>1. DOMAIN value = {1} /\ SizeOf(type) = 1 /\ Offsets(type)[1] = 0 /\ Parts(type)[1] = 1
    BY <1>5, OnePart DEF IsValue, Dates
  <2>2. value[1] \in {0, 1}
    <3>1. value[1] \in PartRange(type, 1)
      BY <2>1 DEF IsValue
    <3>2. PartRange("BOOL", 1) = {0, 1}
      BY DEF PartRange, SignedTypes, SignedInts
    <3> QED BY <1>5, <3>1, <3>2
  <2>3. in(0, 1) /\ 0 - Offsets(type)[1] = 0
    BY <2>1
  <2>4. BytesOf(type, value)[0] = Encoded(value[1], 1)[0]
    BY <2>1, <2>3 DEF BytesOf
  <2> QED BY <2>2, <2>4, BoolsEncoded
<1> QED BY <1>4, <1>5 DEF FineData

LEMMA InitFine == Init => RegisterOK
<1> SUFFICES ASSUME Init
             PROVE  Fine(CR) /\ \A v \in Variables : FineData(TypeOf[v], memory[v])
  BY RegisterOKIs
<1>1. Fine(CR)
  <2>1. 0 \in 0 .. Base - 1 /\ "BOOL" \in Types /\ 0 \in 0 .. RegisterSize - 1
    BY BaseIs, RegisterHolds DEF Types
  <2> QED BY <2>1 DEF Init, Fine, Bytes
<1>2. ASSUME NEW v \in Variables
      PROVE  FineData(TypeOf[v], memory[v])
  <2>1. PICK values \in Start : memory = [u \in Variables |-> BytesOf(TypeOf[u], values[u])]
    BY DEF Init
  <2>2. memory[v] = BytesOf(TypeOf[v], values[v]) /\ IsValue(TypeOf[v], values[v])
        /\ TypeOf[v] \in Types
    BY <2>1, PLCAssumption
  <2> QED BY <2>2, BytesOfIs
<1> QED BY <1>1, <1>2

\* What is written over a register that has the type already, or will have it.
LEMMA WrittenFine ==
  ASSUME NEW cr \in [TYPE : Types, VALUE : Bytes(RegisterSize)], NEW data,
         SizeOf(cr.TYPE) \in 1 .. RegisterSize, FineData(cr.TYPE, data)
  PROVE  /\ Fine(Written(cr, data)) /\ Written(cr, data).TYPE = cr.TYPE
         /\ \A k \in 0 .. SizeOf(cr.TYPE) - 1 : Written(cr, data).VALUE[k] = data[k]
<1> DEFINE n == SizeOf(cr.TYPE)
<1>1. n \in 1 .. RegisterSize /\ data \in Bytes(n)
  BY DEF FineData
<1> HIDE DEF n
<1>2. /\ Written(cr, data) \in [TYPE : Types, VALUE : Bytes(RegisterSize)]
      /\ Written(cr, data).TYPE = cr.TYPE
      /\ \A k \in 0 .. n - 1 : Written(cr, data).VALUE[k] = data[k]
  BY <1>1, WrittenIs
<1>3. cr.TYPE = "BOOL" => Written(cr, data).VALUE[0] \in {0, 1}
  <2>1. 0 \in 0 .. n - 1
    BY <1>1, RegisterHolds
  <2> QED BY <1>2, <2>1 DEF FineData
<1> QED BY <1>2, <1>3 DEF Fine, n

\* A comparison leaves a BOOL.
LEMMA BoolWritten ==
  ASSUME NEW cr, Fine(cr), NEW holds \in BOOLEAN
  PROVE  LET result == WrittenBool([cr EXCEPT !.TYPE = "BOOL"], holds)
         IN  Fine(result) /\ result.TYPE = "BOOL" /\ result.VALUE[0] = IF holds THEN 1 ELSE 0
<1> DEFINE new == [cr EXCEPT !.TYPE = "BOOL"]
           data == Encoded(IF holds THEN 1 ELSE 0, 1)
<1>1. SizeOf("BOOL") = 1 /\ "BOOL" \in Types /\ 1 \in 1 .. RegisterSize
  <2>1. SizeOf("BOOL") = 1 /\ "BOOL" \in Types
    BY DEF SizeOf, Parts, Types
  <2> QED BY <2>1, RegisterHolds
<1>2. new \in [TYPE : Types, VALUE : Bytes(RegisterSize)] /\ new.TYPE = "BOOL"
  BY <1>1 DEF Fine
<1>3. FineData("BOOL", data) /\ data[0] = IF holds THEN 1 ELSE 0
  BY <1>1, BoolsEncoded DEF FineData
<1> HIDE DEF new, data
<1>4. /\ Fine(Written(new, data)) /\ Written(new, data).TYPE = "BOOL"
      /\ \A k \in 0 .. 0 : Written(new, data).VALUE[k] = data[k]
  BY <1>1, <1>2, <1>3, WrittenFine
<1>5. WrittenBool([cr EXCEPT !.TYPE = "BOOL"], holds) = Written(new, data)
  BY DEF WrittenBool, new, data
<1> QED BY <1>3, <1>4, <1>5

\* Hence comparisons keep the register as it should be.
LEMMA ComparisonFine ==
  ASSUME NEW cr, Fine(cr), NEW type, type # "OTHER", NEW holds \in BOOLEAN
  PROVE  Fine(Comparison(cr, type, holds))
<1>1. CASE cr.TYPE # type
  BY <1>1 DEF Comparison
<1>2. CASE cr.TYPE = type
  <2>1. Fine(WrittenBool([cr EXCEPT !.TYPE = "BOOL"], holds))
    BY BoolWritten
  <2> QED BY <1>2, <2>1 DEF Comparison
<1> QED BY <1>1, <1>2

\* An operand of an instruction.
LEMMA OperandIs ==
  ASSUME RegisterOK, NEW v \in Variables
  PROVE  /\ TypeOf[v] \in Types /\ SizeOf(TypeOf[v]) \in 1 .. RegisterSize
         /\ FineData(TypeOf[v], memory[v]) /\ Fine(CR)
         /\ HasBytes(TypeOf[v], memory[v]) /\ HasBytes(TypeOf[v], CR.VALUE)
<1>1. /\ TypeOf[v] \in Types /\ SizeOf(TypeOf[v]) \in 1 .. RegisterSize
      /\ FineData(TypeOf[v], memory[v]) /\ Fine(CR)
  BY RegisterOKIs, RegisterHolds
<1>2. HasBytes(TypeOf[v], memory[v])
  BY <1>1 DEF FineData, HasBytes, Bytes
<1>3. HasBytes(TypeOf[v], CR.VALUE)
  BY <1>1, RegisterHolds DEF Fine, HasBytes, Bytes
<1> QED BY <1>1, <1>2, <1>3

\* LD, and the literals where the register has their type.
LEMMA LoadFine ==
  ASSUME NEW cr, Fine(cr), NEW type \in Types, SizeOf(type) \in 1 .. RegisterSize,
         NEW data, FineData(type, data), NEW m
  PROVE  /\ Fine(PLC_IL_LD(cr, type, data, m)) /\ PLC_IL_LD(cr, type, data, m).TYPE = type
         /\ \A k \in 0 .. SizeOf(type) - 1 :
              PLC_IL_LD(cr, type, data, m).VALUE[k] = Modified(type, data, m)[k]
<1> DEFINE new == [cr EXCEPT !.TYPE = type]
<1>1. new \in [TYPE : Types, VALUE : Bytes(RegisterSize)] /\ new.TYPE = type
  BY DEF Fine
<1>2. FineData(type, Modified(type, data, m))
  BY ModifiedIs
<1>3. PLC_IL_LD(cr, type, data, m) = Written(new, Modified(type, data, m))
  BY DEF PLC_IL_LD
<1> HIDE DEF new
<1> QED BY <1>1, <1>2, <1>3, WrittenFine

LEMMA LiteralFine ==
  ASSUME NEW cr, Fine(cr), NEW m
  PROVE  /\ \A x \in {0, 1} : cr.TYPE = "BOOL" =>
              Fine(PLC_IL_LD_BOOL_Literal(cr, Encoded(x, 1), m))
         /\ \A x \in Numerals : cr.TYPE = "INT" =>
              Fine(PLC_IL_LD_INT_Literal(cr, Encoded(x, 2), m))
         /\ \A x \in Numerals : cr.TYPE = "TIME" =>
              Fine(PLC_IL_LD_TIME_Literal(cr, Encoded(x, 4), m))
<1>1. /\ SizeOf("BOOL") = 1 /\ SizeOf("INT") = 2 /\ SizeOf("TIME") = 4
      /\ "BOOL" \in Types /\ "INT" \in Types /\ "TIME" \in Types
  BY DEF SizeOf, Parts, Types, SignedTypes, SignedInts
<1>2. ASSUME NEW type \in {"BOOL", "INT", "TIME"}, NEW data, FineData(type, data), cr.TYPE = type
      PROVE  Fine(Written(cr, Modified(type, data, m)))
  <2>1. FineData(type, Modified(type, data, m))
    BY <1>1, <1>2, ModifiedIs
  <2>2. SizeOf(type) \in 1 .. RegisterSize
    BY <1>1, RegisterHolds
  <2> QED BY <1>2, <2>1, <2>2, WrittenFine DEF Fine
<1>3. ASSUME NEW x \in {0, 1}
      PROVE  FineData("BOOL", Encoded(x, 1))
  BY <1>1, BoolsEncoded DEF FineData
<1>4. ASSUME NEW x \in Numerals
      PROVE  FineData("INT", Encoded(x, 2)) /\ FineData("TIME", Encoded(x, 4))
  <2>1. x \in Int /\ 2 \in 0 .. 8 /\ 4 \in 0 .. 8
    BY DEF Numerals
  <2> QED BY <1>1, <2>1, EncodedIs DEF FineData
<1> QED BY <1>2, <1>3, <1>4
        DEF PLC_IL_LD_BOOL_Literal, PLC_IL_LD_INT_Literal, PLC_IL_LD_TIME_Literal

\* ST, S and R.
LEMMA StoreFine ==
  ASSUME NEW cr, Fine(cr), NEW type \in Types, SizeOf(type) \in 1 .. RegisterSize,
         cr.TYPE = type, NEW m, m = "N" => type # "BOOL"
  PROVE  FineData(type, PLC_IL_ST(cr, SizeOf(type), m))
<1> DEFINE n == SizeOf(type)
           data == [k \in 0 .. n - 1 |-> cr.VALUE[k]]
<1>1. n \in 1 .. RegisterSize /\ \A k \in 0 .. n - 1 : cr.VALUE[k] \in 0 .. Base - 1
  BY RegisterHolds DEF Fine, Bytes
<1> HIDE DEF n
<1>2. data \in Bytes(n) /\ Inverted(data) \in Bytes(n)
  <2>1. \A x \in 0 .. Base - 1 : Base - 1 - x \in 0 .. Base - 1
    BY BaseIs
  <2> QED BY <1>1, <2>1 DEF Inverted, Bytes
<1>3. 0 \in 0 .. n - 1 /\ data[0] = cr.VALUE[0]
  BY <1>1, RegisterHolds
<1>4. PLC_IL_ST(cr, SizeOf(type), m) = IF m = "N" THEN Inverted(data) ELSE data
  BY DEF PLC_IL_ST, n
<1> HIDE DEF data
<1> QED BY <1>2, <1>3, <1>4 DEF FineData, Fine, n

LEMMA SetFine ==
  ASSUME NEW cr, NEW data, FineData("BOOL", data)
  PROVE  FineData("BOOL", PLC_IL_S(cr, data)) /\ FineData("BOOL", PLC_IL_R(cr, data))
<1>1. SizeOf("BOOL") = 1
  BY DEF SizeOf, Parts
<1> QED BY <1>1, BoolsEncoded DEF FineData, PLC_IL_S, PLC_IL_R

\* The arithmetic instructions.
LEMMA ArithmeticFine ==
  ASSUME NEW cr, Fine(cr), NEW type \in IntegerTypes \cup {"TIME"},
         SizeOf(type) \in 1 .. RegisterSize, cr.TYPE = type, NEW x \in Int
  PROVE  LET result == Written(cr, Encoded(x, SizeOf(type)))
         IN  /\ Fine(result) /\ result.TYPE = type
             /\ \A k \in 0 .. SizeOf(type) - 1 : result.VALUE[k] = (x \div Numbers(k)) % Base
<1>1. type \in Types \ (Dates \cup {"OTHER"}) /\ type # "BOOL"
  BY DEF IntegerTypes, Types, SignedTypes, SignedInts, UnsignedInts, Dates
<1>2. SizeOf(type) \in 0 .. 8
  BY <1>1, OnePart
<1>3. Encoded(x, SizeOf(type)) \in Bytes(SizeOf(type))
  BY <1>2, EncodedIs
<1>4. FineData(type, Encoded(x, SizeOf(type)))
  BY <1>1, <1>3 DEF FineData
<1>5. \A k \in 0 .. SizeOf(type) - 1 :
        Encoded(x, SizeOf(type))[k] = (x \div Numbers(k)) % Base
  BY DEF Encoded
<1>6. cr \in [TYPE : Types, VALUE : Bytes(RegisterSize)]
  BY DEF Fine
<1> QED BY <1>4, <1>5, <1>6, WrittenFine

LEMMA DividedIs ==
  ASSUME NEW x \in Int, NEW y \in Int, y # 0
  PROVE  Divided(x, y) \in Int
BY DEF Divided, Magnitude

\* The logical instructions, with data for the operand as the modifier leaves it.
Combined(cr, op, data) ==
  Written(cr, [k \in DOMAIN data |-> Combination(op, cr.VALUE[k], data[k])])

LEMMA LogicFine ==
  ASSUME NEW cr, Fine(cr), NEW type \in Types, SizeOf(type) \in 1 .. RegisterSize,
         cr.TYPE = type, NEW data, FineData(type, data), NEW op \in {"AND", "OR", "XOR"}
  PROVE  /\ Fine(Combined(cr, op, data)) /\ Combined(cr, op, data).TYPE = type
         /\ \A k \in 0 .. SizeOf(type) - 1 :
              Combined(cr, op, data).VALUE[k] = Combination(op, cr.VALUE[k], data[k])
<1> DEFINE new == [k \in DOMAIN data |-> Combination(op, cr.VALUE[k], data[k])]
<1>1. DOMAIN data = 0 .. SizeOf(type) - 1
  BY DEF FineData, Bytes
<1>2. \A x, y : Combination(op, x, y) \in 0 .. Base - 1
  BY CombinationIs
<1>3. new \in Bytes(SizeOf(type))
  BY <1>1, <1>2 DEF Bytes
<1>4. type = "BOOL" => new[0] \in {0, 1}
  <2>1. 0 \in 0 .. SizeOf(type) - 1
    BY RegisterHolds
  <2>2. type = "BOOL" => cr.VALUE[0] \in {0, 1} /\ data[0] \in {0, 1}
    BY DEF Fine, FineData
  <2>3. new[0] = Combination(op, cr.VALUE[0], data[0])
    BY <1>1, <2>1
  <2> QED BY <2>2, <2>3, CombinationOfBools
<1>5. FineData(type, new) /\ cr \in [TYPE : Types, VALUE : Bytes(RegisterSize)]
  BY <1>3, <1>4 DEF FineData, Fine
<1>6. \A k \in 0 .. SizeOf(type) - 1 : new[k] = Combination(op, cr.VALUE[k], data[k])
  BY <1>1
<1> HIDE DEF new
<1>7. /\ Fine(Written(cr, new)) /\ Written(cr, new).TYPE = type
      /\ \A k \in 0 .. SizeOf(type) - 1 : Written(cr, new).VALUE[k] = new[k]
  BY <1>5, WrittenFine
<1>8. Combined(cr, op, data) = Written(cr, new)
  BY DEF Combined, new
<1> QED BY <1>6, <1>7, <1>8

\* Every instruction, on variable v.
LEMMA CompareStep ==
  ASSUME RegisterOK, NEW v \in Variables, Compare(TypeOf[v], memory[v])
  PROVE  Fine(CR') /\ UNCHANGED memory
<1>1. Fine(CR)
  BY OperandIs
<1>2. \A type, holds : type # "OTHER" /\ holds \in BOOLEAN => Fine(Comparison(CR, type, holds))
  BY <1>1, ComparisonFine
<1>3. ASSUME NEW type, NEW data, type # "OTHER"
      PROVE  /\ Fine(PLC_IL_EQ(CR, type, data)) /\ Fine(PLC_IL_NE(CR, type, data))
             /\ Fine(PLC_IL_GT(CR, type, data)) /\ Fine(PLC_IL_GE(CR, type, data))
             /\ Fine(PLC_IL_LT(CR, type, data)) /\ Fine(PLC_IL_LE(CR, type, data))
  BY <1>2, <1>3 DEF PLC_IL_EQ, PLC_IL_NE, PLC_IL_GT, PLC_IL_GE, PLC_IL_LT, PLC_IL_LE
<1> QED BY <1>3 DEF Compare, Comparable, Ordered, Execute

\* Division by zero leaves any number of the type.
LEMMA CalculateStep ==
  ASSUME RegisterOK, NEW v \in Variables, Calculate(TypeOf[v], memory[v])
  PROVE  Fine(CR') /\ UNCHANGED memory
<1> DEFINE type == TypeOf[v]
           x == Part(type, CR.VALUE, 1)
           y == Part(type, memory[v], 1)
<1>1. /\ type \in Types /\ SizeOf(type) \in 1 .. RegisterSize /\ Fine(CR)
      /\ HasBytes(type, memory[v]) /\ HasBytes(type, CR.VALUE)
  BY OperandIs
<1>2. type \in IntegerTypes \cup {"TIME"} =>
        /\ x \in Int /\ y \in Int /\ PartRange(type, 1) \subseteq Int
  <2> SUFFICES ASSUME type \in IntegerTypes \cup {"TIME"}
               PROVE  x \in Int /\ y \in Int /\ PartRange(type, 1) \subseteq Int
    OBVIOUS
  <2>1. type \in Types \ (Dates \cup {"OTHER"})
    BY DEF IntegerTypes, Types, SignedTypes, SignedInts, UnsignedInts, Dates
  <2>2. 1 \in DOMAIN Parts(type)
    BY <2>1, OnePart
  <2> HIDE DEF type
  <2> QED BY <1>1, <2>2, PartIs, RangeIs
<1> HIDE DEF type, x, y
<1>3. ASSUME NEW types, types \subseteq IntegerTypes \cup {"TIME"}, NEW result,
             type \in types => result \in Int
      PROVE  Fine(Arithmetic(CR, type, types, result))
  <2>1. CASE CR.TYPE # type \/ type \notin types
    BY <1>1, <2>1 DEF Arithmetic
  <2>2. CASE CR.TYPE = type /\ type \in types
    <3>1. Fine(Written(CR, Encoded(result, SizeOf(type))))
      BY <1>1, <1>3, <2>2, ArithmeticFine
    <3> QED BY <2>2, <3>1 DEF Arithmetic
  <2> QED BY <2>1, <2>2
<1>4. /\ IntegerTypes \cup {"TIME"} \subseteq IntegerTypes \cup {"TIME"}
      /\ IntegerTypes \subseteq IntegerTypes \cup {"TIME"}
  OBVIOUS
<1>5. CASE \/ Execute(PLC_IL_ADD(CR, type, memory[v]))
           \/ Execute(PLC_IL_SUB(CR, type, memory[v]))
           \/ Execute(PLC_IL_MUL(CR, type, memory[v]))
  <2>1. type \in IntegerTypes \cup {"TIME"} => x + y \in Int /\ x - y \in Int /\ x * y \in Int
    BY <1>2
  <2> QED BY <1>3, <1>4, <1>5, <2>1 DEF PLC_IL_ADD, PLC_IL_SUB, PLC_IL_MUL, x, y, Execute
<1>6. CASE y # 0 /\ Execute(PLC_IL_DIV(CR, type, memory[v]))
  <2>1. type \in IntegerTypes \cup {"TIME"} => Divided(x, y) \in Int
    BY <1>2, <1>6, DividedIs
  <2> QED BY <1>3, <1>4, <1>6, <2>1 DEF PLC_IL_DIV, x, y, Execute
<1>7. CASE y # 0 /\ Execute(PLC_IL_MOD(CR, type, memory[v]))
  <2>1. type \in IntegerTypes => x - Divided(x, y) * y \in Int
    BY <1>2, <1>7, DividedIs
  <2> QED BY <1>3, <1>4, <1>7, <2>1 DEF PLC_IL_MOD, x, y, Execute
<1>8. CASE DivideByZero(type, memory[v])
  <2>1. PICK n \in PartRange(type, 1) : Execute(Written(CR, Encoded(n, SizeOf(type))))
    BY <1>8 DEF DivideByZero
  <2>2. type \in IntegerTypes \cup {"TIME"} /\ CR.TYPE = type
    BY <1>8 DEF DivideByZero
  <2>3. n \in Int
    BY <1>2, <2>2
  <2>4. Fine(Written(CR, Encoded(n, SizeOf(type))))
    BY <1>1, <2>2, <2>3, ArithmeticFine
  <2> QED BY <2>1, <2>4 DEF Execute
<1> QED BY <1>5, <1>6, <1>7, <1>8 DEF Calculate, type, y

\* NOT is called with the register's type.
LEMMA CombineStep ==
  ASSUME RegisterOK, NEW v \in Variables, Combine(TypeOf[v], memory[v])
  PROVE  Fine(CR') /\ UNCHANGED memory
<1> DEFINE type == TypeOf[v]
<1>1. /\ type \in Types /\ SizeOf(type) \in 1 .. RegisterSize /\ Fine(CR)
      /\ FineData(type, memory[v])
  BY OperandIs
<1> HIDE DEF type
<1>2. ASSUME NEW m, NEW op \in {"AND", "OR", "XOR"}
      PROVE  LET data == Modified(type, memory[v], m)
             IN  Fine(Logic(CR, type,
                            [k \in DOMAIN data |-> Combination(op, CR.VALUE[k], data[k])]))
  <2> DEFINE data == Modified(type, memory[v], m)
             new == [k \in DOMAIN data |-> Combination(op, CR.VALUE[k], data[k])]
  <2>1. FineData(type, data)
    BY <1>1, ModifiedIs
  <2>2. CR.TYPE = type => Fine(Written(CR, new))
    <3> HIDE DEF data
    <3>1. CR.TYPE = type => Fine(Combined(CR, op, data))
      BY <1>1, <2>1, LogicFine
    <3> QED BY <3>1 DEF Combined
  <2> HIDE DEF new
  <2>3. Fine(Logic(CR, type, new))
    BY <1>1, <2>2 DEF Logic
  <2> QED BY <2>3 DEF new
<1>3. ASSUME NEW m
      PROVE  /\ Fine(PLC_IL_AND(CR, type, memory[v], m))
             /\ Fine(PLC_IL_OR(CR, type, memory[v], m))
             /\ Fine(PLC_IL_XOR(CR, type, memory[v], m))
  <2>1. \A x, y : /\ And(x, y) = Combination("AND", x, y) /\ Or(x, y) = Combination("OR", x, y)
                 /\ Xor(x, y) = Combination("XOR", x, y)
    BY DEF Combination
  <2> QED BY <1>2, <2>1 DEF PLC_IL_AND, PLC_IL_OR, PLC_IL_XOR
<1>4. ASSUME CR.TYPE = type
      PROVE  Fine(PLC_IL_NOT(CR, type))
  <2> DEFINE data == [k \in 0 .. SizeOf(type) - 1 |-> CR.VALUE[k]]
  <2>1. FineData(type, data)
    BY <1>1, <1>4, RegisterHolds DEF Fine, FineData, Bytes
  <2>2. FineData(type, Modified(type, data, "N"))
    BY <1>1, <2>1, ModifiedIs
  <2>3. Fine(Written(CR, Modified(type, data, "N")))
    BY <1>1, <1>4, <2>2, WrittenFine DEF Fine
  <2> QED BY <1>1, <2>3 DEF PLC_IL_NOT
<1> QED BY <1>3, <1>4 DEF Combine, Execute, type

\* A step of a program keeps the register and the variables as they should be.
LEMMA StepFine ==
  ASSUME RegisterOK, "literal" \notin Pitfalls, "notBool" \notin Pitfalls, [Next]_vars
  PROVE  RegisterOK'
<1> SUFFICES Fine(CR') /\ \A u \in Variables : FineData(TypeOf[u], memory'[u])
  BY RegisterOKIs DEF RegisterOK, Fine, FineData, Bytes
<1>1. Fine(CR) /\ \A u \in Variables : FineData(TypeOf[u], memory[u])
  BY RegisterOKIs
<1>2. CASE UNCHANGED vars
  BY <1>1, <1>2 DEF vars
<1>3. CASE LoadLiteral
  BY <1>1, <1>3, LiteralFine DEF LoadLiteral, Literal, Execute
<1>4. ASSUME NEW v \in Variables, Load(TypeOf[v], memory[v])
      PROVE  Fine(CR') /\ UNCHANGED memory
  <2>1. TypeOf[v] \in Types /\ SizeOf(TypeOf[v]) \in 1 .. RegisterSize
    BY RegisterHolds
  <2> QED BY <1>1, <1>4, <2>1, LoadFine DEF Load, Execute
<1>5. ASSUME NEW v \in Variables, Store(v, TypeOf[v])
      PROVE  UNCHANGED CR /\ \A u \in Variables : FineData(TypeOf[u], memory'[u])
  <2>1. TypeOf[v] \in Types /\ SizeOf(TypeOf[v]) \in 1 .. RegisterSize
    BY RegisterHolds
  <2>2. ASSUME NEW data, Stored(v, data), FineData(TypeOf[v], data)
        PROVE  UNCHANGED CR /\ \A u \in Variables : FineData(TypeOf[u], memory'[u])
    BY <1>1, <2>2 DEF Stored
  <2>3. ASSUME NEW m \in Modifiers, CR.TYPE = TypeOf[v], Storable(TypeOf[v], m)
        PROVE  FineData(TypeOf[v], PLC_IL_ST(CR, SizeOf(TypeOf[v]), m))
    BY <1>1, <2>1, <2>3, StoreFine DEF Storable
  <2>4. TypeOf[v] = "BOOL" => /\ FineData(TypeOf[v], PLC_IL_S(CR, memory[v]))
                             /\ FineData(TypeOf[v], PLC_IL_R(CR, memory[v]))
    BY <1>1, SetFine
  <2> QED BY <1>5, <2>2, <2>3, <2>4 DEF Store
<1>6. ASSUME NEW v \in Variables,
             \/ Compare(TypeOf[v], memory[v]) \/ Calculate(TypeOf[v], memory[v])
             \/ Combine(TypeOf[v], memory[v])
      PROVE  Fine(CR') /\ UNCHANGED memory
  BY <1>6, CompareStep, CalculateStep, CombineStep
<1> QED BY <1>1, <1>2, <1>3, <1>4, <1>5, <1>6 DEF Next

\* The register is bytes of a type, a BOOL in it or in a variable is 0 or 1, and a
\* variable has as many bytes as its type: whatever the program, as long as it uses
\* neither literals of another type than the register's nor STN of a BOOL.
THEOREM RegisterTypes ==
  ASSUME "literal" \notin Pitfalls, "notBool" \notin Pitfalls
  PROVE  Spec => []RegisterOK
<1>1. RegisterOK /\ [Next]_vars => RegisterOK'
  BY StepFine
<1> QED BY InitFine, <1>1, PTL DEF Spec

-----------------------------------------------------------------------------
(* Values.                                                                 *)

\* A value depends on the bytes of its type only.
LEMMA ValueSame ==
  ASSUME NEW type \in Types, NEW data, NEW other,
         \A k \in 0 .. SizeOf(type) - 1 : data[k] = other[k]
  PROVE  ValueOf(type, data) = ValueOf(type, other)
<1>1. ASSUME NEW i \in DOMAIN Parts(type)
      PROVE  Part(type, data, i) = Part(type, other, i)
  <2> DEFINE n == Parts(type)[i]
             at == Offsets(type)[i]
  <2>1. n \in {1, 2, 4, 8} /\ at \in Nat /\ at + n <= SizeOf(type) /\ SizeOf(type) \in Nat
    BY PartsAre
  <2> HIDE DEF n, at
  <2>2. \A k \in 0 .. n - 1 : data[at + k] = other[at + k]
    BY <2>1
  <2>3. Decoded(data, at, n) = Decoded(other, at, n)
    BY <2>2, DecodedSame
  <2> QED BY <2>3 DEF Part, n, at
<1>2. PartsOf(type, data) = PartsOf(type, other)
  BY <1>1 DEF PartsOf
<1>3. data[0] = other[0]
  <2>1. SizeOf(type) \in {1, 2, 3, 4, 6, 8, 12}
    BY PartsAre
  <2>2. 0 \in 0 .. SizeOf(type) - 1
    BY <2>1
  <2> QED BY <2>2
<1> QED BY <1>2, <1>3 DEF ValueOf

\* A value of a type with one part.
LEMMA PartsOfOne ==
  ASSUME NEW type \in Types \ (Dates \cup {"OTHER"}), NEW data
  PROVE  PartsOf(type, data) = <<Part(type, data, 1)>>
<1>1. DOMAIN Parts(type) = {1}
  BY OnePart
<1>2. PartsOf(type, data) = [i \in {1} |-> Part(type, data, 1)]
  BY <1>1 DEF PartsOf
<1>3. ASSUME NEW x
      PROVE  [i \in {1} |-> x] = <<x>>
  OBVIOUS
<1> QED BY <1>2, <1>3

\* The value of a BOOL that is 0 or 1 is its byte, as those of other types are.
LEMMA ValueIsParts ==
  ASSUME NEW type \in Types, NEW data, HasBytes(type, data),
         type = "BOOL" => data[0] \in {0, 1}
  PROVE  ValueOf(type, data) = PartsOf(type, data)
<1>1. CASE type # "BOOL"
  BY <1>1 DEF ValueOf
<1>2. CASE type = "BOOL"
  <2>1. PartsOf(type, data) = <<Part(type, data, 1)>> /\ 1 \in DOMAIN Parts(type)
    BY <1>2, PartsOfOne, OnePart DEF Dates
  <2>2. Part(type, data, 1) = data[0]
    BY <1>2, <2>1, PartIs
  <2>3. ValueOf(type, data) = <<IF data[0] # 0 THEN 1 ELSE 0>>
    BY <1>2 DEF ValueOf, Truth
  <2>4. (IF data[0] # 0 THEN 1 ELSE 0) = data[0]
    BY <1>2
  <2> QED BY <2>1, <2>2, <2>3, <2>4
<1> QED BY <1>1, <1>2

\* The modifier N takes the complement.
LEMMA PartInverted ==
  ASSUME NEW type \in Types, type # "BOOL", NEW data, HasBytes(type, data),
         NEW other, \A k \in 0 .. SizeOf(type) - 1 : other[k] = Base - 1 - data[k],
         NEW i \in DOMAIN Parts(type)
  PROVE  Part(type, other, i) =
           IF type \in SignedTypes THEN -Part(type, data, i) - 1
           ELSE Numbers(Parts(type)[i]) - 1 - Part(type, data, i)
<1> DEFINE bytes == Parts(type)[i]
           at == Offsets(type)[i]
           n == Decoded(data, at, bytes)
           m == Decoded(other, at, bytes)
           N == Numbers(bytes)
<1>1. /\ AreBytes(data, at, bytes) /\ bytes \in 1 .. 8
      /\ \A k \in 0 .. bytes - 1 : at + k \in 0 .. SizeOf(type) - 1
  BY PartBytes
<1>2. \A k \in 0 .. bytes - 1 : other[at + k] = Base - 1 - data[at + k]
  BY <1>1
<1>3. N \in Nat \ {0} /\ N % 2 = 0
  BY <1>1, BaseIs
<1>4. /\ Part(type, data, i) = IF type \in SignedTypes /\ n >= N \div 2 THEN n - N ELSE n
      /\ Part(type, other, i) = IF type \in SignedTypes /\ m >= N \div 2 THEN m - N ELSE m
  BY DEF Part
<1> HIDE DEF at, bytes
<1>5. n \in 0 .. N - 1 /\ m = N - 1 - n
  <2>1. bytes \in 0 .. 8
    BY <1>1
  <2>2. n \in 0 .. N - 1
    BY <1>1, <2>1, DecodedIs
  <2> HIDE DEF n, m, N
  <2>3. Decoded(other, at, bytes) = Numbers(bytes) - 1 - Decoded(data, at, bytes)
    <3>1. AreInverted(other, data, at, bytes)
      BY <1>2 DEF AreInverted
    <3> QED BY <1>1, <2>1, <3>1, DecodedInverted
  <2> QED BY <2>2, <2>3 DEF n, m, N
<1>6. Numbers(Parts(type)[i]) = N
  BY DEF bytes
<1> HIDE DEF n, m, N
<1> QED BY <1>3, <1>4, <1>5, <1>6

\* For a BOOL that is !, for the others ~ of every byte, and a date is left alone.
LEMMA ValueComplement ==
  ASSUME NEW type \in Types, NEW data, FineData(type, data),
         NEW other, \A k \in 0 .. SizeOf(type) - 1 : other[k] = Modified(type, data, "N")[k]
  PROVE  ValueOf(type, other) = Complement(type, ValueOf(type, data))
<1>1. HasBytes(type, data) /\ DOMAIN data = 0 .. SizeOf(type) - 1
  BY DEF FineData, HasBytes, Bytes
<1>2. CASE type \in Dates
  <2>1. ValueOf(type, other) = ValueOf(type, data)
    BY <1>2, ValueSame DEF Modified
  <2> QED BY <1>2, <2>1 DEF Complement
<1>3. CASE type = "BOOL"
  <2>1. "BOOL" \notin Dates /\ SizeOf(type) = 1 /\ data[0] \in {0, 1}
    BY <1>3 DEF Dates, SizeOf, Parts, FineData
  <2>2. other[0] = Encoded(IF data[0] = 0 THEN 1 ELSE 0, 1)[0]
    BY <1>3, <2>1 DEF Modified, Negated
  <2>3. other[0] = 1 - data[0]
    BY <2>1, <2>2, BoolsEncoded
  <2>4. /\ ValueOf(type, other) = <<IF other[0] # 0 THEN 1 ELSE 0>>
        /\ ValueOf(type, data) = <<IF data[0] # 0 THEN 1 ELSE 0>>
    BY <1>3 DEF ValueOf, Truth
  <2>5. ValueOf(type, other) = <<1 - data[0]>> /\ ValueOf(type, data) = <<data[0]>>
    BY <2>1, <2>3, <2>4
  <2>6. Complement(type, <<data[0]>>) = [i \in {1} |-> 1 - data[0]]
    BY <1>3, <2>1 DEF Complement
  <2>7. [i \in {1} |-> 1 - data[0]] = <<1 - data[0]>>
    OBVIOUS
  <2> QED BY <2>5, <2>6, <2>7
<1>4. CASE type # "BOOL" /\ type \notin Dates
  <2>1. \A k \in 0 .. SizeOf(type) - 1 : other[k] = Base - 1 - data[k]
    BY <1>1, <1>4 DEF Modified, Inverted
  <2>2. ValueOf(type, data) = PartsOf(type, data) /\ ValueOf(type, other) = PartsOf(type, other)
    BY <1>4 DEF ValueOf
  <2>3. DOMAIN PartsOf(type, data) = DOMAIN Parts(type)
        /\ \A i \in DOMAIN Parts(type) : PartsOf(type, data)[i] = Part(type, data, i)
    BY DEF PartsOf
  <2>4. ASSUME NEW i \in DOMAIN Parts(type)
        PROVE  Part(type, other, i) =
                 IF type \in SignedTypes THEN -PartsOf(type, data)[i] - 1
                 ELSE Numbers(Parts(type)[i]) - 1 - PartsOf(type, data)[i]
    <3>1. Part(type, other, i) =
            IF type \in SignedTypes THEN -Part(type, data, i) - 1
            ELSE Numbers(Parts(type)[i]) - 1 - Part(type, data, i)
      BY <1>1, <1>4, <2>1, PartInverted
    <3> QED BY <2>3, <3>1
  <2>5. PartsOf(type, other) = Complement(type, PartsOf(type, data))
    <3> DEFINE a == PartsOf(type, data)
    <3>1. Complement(type, a) = [i \in DOMAIN Parts(type) |->
                                  IF type \in SignedTypes THEN -a[i] - 1
                                  ELSE Numbers(Parts(type)[i]) - 1 - a[i]]
      BY <1>4, <2>3 DEF Complement
    <3> QED BY <2>4, <3>1 DEF PartsOf
  <2> QED BY <2>2, <2>5
<1> QED BY <1>2, <1>3, <1>4

-----------------------------------------------------------------------------
(* Comparisons.                                                            *)

\* A comparison gives 0 or 1, whatever is left of a longer value.
LEMMA ComparisonGives ==
  ASSUME NEW cr, Fine(cr), NEW type, type # "OTHER", cr.TYPE = type, NEW holds \in BOOLEAN
  PROVE  Gives(Comparison(cr, type, holds), "BOOL", Truth(holds))
<1> DEFINE result == WrittenBool([cr EXCEPT !.TYPE = "BOOL"], holds)
<1>1. result.TYPE = "BOOL" /\ result.VALUE[0] = IF holds THEN 1 ELSE 0
  BY BoolWritten
<1>2. Comparison(cr, type, holds) = result
  BY DEF Comparison
<1> HIDE DEF result
<1>3. (result.VALUE[0] # 0) <=> holds
  BY <1>1
<1>4. Truth(result.VALUE[0] # 0) = Truth(holds)
  BY <1>3 DEF Truth
<1> QED BY <1>1, <1>2, <1>4 DEF Gives, ValueOf

\* The conditions of the code on the parts, and the order of the values.  With a
\* date, GE and LE would look at the first part alone.
LEMMA ComparisonsRight ==
  ASSUME NEW cr, Fine(cr), NEW type \in Types, Comparable(type), cr.TYPE = type,
         HasBytes(type, cr.VALUE), NEW data, HasBytes(type, data), FineData(type, data)
  PROVE  LET a == ValueOf(type, cr.VALUE)
             b == ValueOf(type, data)
         IN  /\ Gives(PLC_IL_EQ(cr, type, data), "BOOL", Compared("EQ", a, b))
             /\ Gives(PLC_IL_NE(cr, type, data), "BOOL", Compared("NE", a, b))
             /\ Gives(PLC_IL_GT(cr, type, data), "BOOL", Compared("GT", a, b))
             /\ Gives(PLC_IL_LT(cr, type, data), "BOOL", Compared("LT", a, b))
             /\ type \notin Dates =>
                  /\ Gives(PLC_IL_GE(cr, type, data), "BOOL", Compared("GE", a, b))
                  /\ Gives(PLC_IL_LE(cr, type, data), "BOOL", Compared("LE", a, b))
<1> DEFINE a == PartsOf(type, cr.VALUE)
           b == PartsOf(type, data)
<1>1. ValueOf(type, cr.VALUE) = a /\ ValueOf(type, data) = b
  BY ValueIsParts DEF Fine, FineData
<1>2. /\ a = [i \in DOMAIN Parts(type) |-> Part(type, cr.VALUE, i)]
      /\ b = [i \in DOMAIN Parts(type) |-> Part(type, data, i)]
      /\ \A i \in DOMAIN Parts(type) :
           Part(type, cr.VALUE, i) \in Int /\ Part(type, data, i) \in Int
  BY PartIs DEF PartsOf
<1>3. type # "OTHER"
  BY DEF Comparable
<1>4. DOMAIN a = DOMAIN Parts(type) /\ DOMAIN b = DOMAIN Parts(type)
      /\ \A i \in DOMAIN Parts(type) : a[i] \in Int /\ b[i] \in Int
  BY <1>2
<1>5. (\A i \in DOMAIN a : a[i] = b[i]) <=> a = b
  BY <1>2
<1>6. (\E i \in DOMAIN a : a[i] # b[i]) <=> a # b
  BY <1>5
<1> HIDE DEF a, b
<1>7. ASSUME NEW holds \in BOOLEAN, NEW op, Compared(op, a, b) = Truth(holds)
      PROVE  Gives(Comparison(cr, type, holds), "BOOL", Compared(op, a, b))
  BY <1>3, <1>7, ComparisonGives
<1>8. Gives(PLC_IL_EQ(cr, type, data), "BOOL", Compared("EQ", a, b))
  <2>1. Compared("EQ", a, b) = Truth(\A i \in DOMAIN a : a[i] = b[i])
    BY <1>5 DEF Compared, Truth
  <2> QED BY <1>7, <2>1 DEF PLC_IL_EQ, a, b
<1>9. Gives(PLC_IL_NE(cr, type, data), "BOOL", Compared("NE", a, b))
  <2>1. Compared("NE", a, b) = Truth(\E i \in DOMAIN a : a[i] # b[i])
    BY <1>6 DEF Compared, Truth
  <2> QED BY <1>7, <2>1 DEF PLC_IL_NE, a, b
<1>10. Gives(PLC_IL_GT(cr, type, data), "BOOL", Compared("GT", a, b))
  <2>1. (\E i \in DOMAIN a : a[i] > b[i] /\ EqualBefore(a, b, i)) <=> Less(b, a)
    <3>1. \A i \in DOMAIN Parts(type) : a[i] > b[i] <=> b[i] < a[i]
      BY <1>4
    <3>2. \A i : EqualBefore(a, b, i) <=> \A j \in 1 .. i - 1 : b[j] = a[j]
      BY DEF EqualBefore
    <3> QED BY <1>4, <3>1, <3>2 DEF Less
  <2>2. Compared("GT", a, b) = Truth(\E i \in DOMAIN a : a[i] > b[i] /\ EqualBefore(a, b, i))
    BY <2>1 DEF Compared, Truth
  <2> QED BY <1>7, <2>2 DEF PLC_IL_GT, a, b
<1>11. Gives(PLC_IL_LT(cr, type, data), "BOOL", Compared("LT", a, b))
  <2>1. (\E i \in DOMAIN a : a[i] < b[i] /\ EqualBefore(a, b, i)) <=> Less(a, b)
    BY DEF Less, EqualBefore
  <2>2. Compared("LT", a, b) = Truth(\E i \in DOMAIN a : a[i] < b[i] /\ EqualBefore(a, b, i))
    BY <2>1 DEF Compared, Truth
  <2> QED BY <1>7, <2>2 DEF PLC_IL_LT, a, b
<1>12. ASSUME type \notin Dates
       PROVE  /\ Gives(PLC_IL_GE(cr, type, data), "BOOL", Compared("GE", a, b))
              /\ Gives(PLC_IL_LE(cr, type, data), "BOOL", Compared("LE", a, b))
  <2>1. DOMAIN a = {1} /\ DOMAIN b = {1} /\ a[1] \in Int /\ b[1] \in Int
    BY <1>3, <1>4, <1>12, OnePart
  <2>2. \A p, q : EqualBefore(p, q, 1) /\ \A j \in 1 .. 1 - 1 : p[j] = q[j]
    BY DEF EqualBefore
  <2>3. (\E i \in DOMAIN a : a[i] >= b[i] /\ EqualBefore(a, b, i)) <=> ~Less(a, b)
    BY <2>1, <2>2 DEF Less
  <2>4. (\E i \in DOMAIN a : a[i] <= b[i] /\ EqualBefore(a, b, i)) <=> ~Less(b, a)
    BY <2>1, <2>2 DEF Less
  <2>5. Compared("GE", a, b) = Truth(\E i \in DOMAIN a : a[i] >= b[i] /\ EqualBefore(a, b, i))
    BY <2>3 DEF Compared, Truth
  <2>6. Compared("LE", a, b) = Truth(\E i \in DOMAIN a : a[i] <= b[i] /\ EqualBefore(a, b, i))
    BY <2>4 DEF Compared, Truth
  <2> QED BY <1>7, <2>5, <2>6 DEF PLC_IL_GE, PLC_IL_LE, a, b
<1> QED BY <1>1, <1>8, <1>9, <1>10, <1>11, <1>12

-----------------------------------------------------------------------------
(* Arithmetic.                                                             *)

\* A result is stored in the bytes of its type; what it has then is the number of
\* the type's range that has the same low bits.
LEMMA FittedGives ==
  ASSUME NEW cr, Fine(cr), NEW type \in IntegerTypes \cup {"TIME"},
         SizeOf(type) \in 1 .. RegisterSize, cr.TYPE = type, NEW x \in Int
  PROVE  Gives(Written(cr, Encoded(x, SizeOf(type))), type, Fitted(type, x))
<1> DEFINE result == Written(cr, Encoded(x, SizeOf(type)))
           bytes == SizeOf(type)
           N == Numbers(bytes)
           n == x % N
           y == Part(type, result.VALUE, 1)
<1>1. /\ Fine(result) /\ result.TYPE = type
      /\ \A k \in 0 .. bytes - 1 : result.VALUE[k] = (x \div Numbers(k)) % Base
  <2>1. type \in IntegerTypes \cup {"TIME"} /\ SizeOf(type) \in 1 .. RegisterSize /\ x \in Int
    OBVIOUS
  <2>2. Fine(result) /\ result.TYPE = type
    BY <2>1, ArithmeticFine
  <2>3. \A k \in 0 .. bytes - 1 : result.VALUE[k] = (x \div Numbers(k)) % Base
    BY <2>1, ArithmeticFine
  <2> QED BY <2>2, <2>3
<1>2. type \in Types \ (Dates \cup {"OTHER"}) /\ type # "BOOL"
  BY DEF IntegerTypes, Types, SignedTypes, SignedInts, UnsignedInts, Dates
<1>3. Parts(type)[1] = bytes /\ Offsets(type)[1] = 0 /\ bytes \in 1 .. 8
  BY <1>2, OnePart
<1> HIDE DEF result, bytes
<1>4. Decoded(result.VALUE, 0, bytes) = n
  <2>1. \A k \in 0 .. bytes - 1 : result.VALUE[0 + k] = (x \div Numbers(k)) % Base
    BY <1>1
  <2>2. bytes \in 0 .. 8
    BY <1>3
  <2> QED BY <2>1, <2>2, DecodedEncoded
<1>5. N \in Nat \ {0} /\ N % 2 = 0
  BY <1>3, BaseIs
<1>6. y = IF type \in SignedTypes /\ n >= N \div 2 THEN n - N ELSE n
  BY <1>3, <1>4 DEF Part
<1>7. PartRange(type, 1) = IF type \in SignedTypes
                           THEN -(N \div 2) .. (N \div 2) - 1 ELSE 0 .. N - 1
  BY <1>2, <1>3 DEF PartRange
<1> HIDE DEF N, y
<1>8. /\ x = n + N * (x \div N) /\ n \in 0 .. N - 1 /\ x \div N \in Int
  BY <1>5 DEF n
<1> DEFINE q == x \div N
<1> HIDE DEF n, q
<1>9. y \in PartRange(type, 1) /\ (y - x) % N = 0
  <2>1. y \in PartRange(type, 1) /\ y \in Int
    BY <1>5, <1>6, <1>7, <1>8
  <2>2. q \in Int /\ x = n + N * q
    BY <1>8 DEF q
  <2>3. N * (-q) = -(N * q) /\ N * (-q - 1) = -(N * q) - N /\ N * q \in Int
    BY <1>5, <2>2
  <2>4. y - x = 0 + N * (-q) \/ y - x = 0 + N * (-q - 1)
    BY <1>5, <1>6, <1>8, <2>2, <2>3
  <2>5. /\ -q \in Int /\ -q - 1 \in Int /\ 0 \in 0 .. N - 1
    BY <1>5, <2>2
  <2>6. (0 + N * (-q)) % N = 0 /\ (0 + N * (-q - 1)) % N = 0
    BY <1>5, <2>5, DivMod
  <2> QED BY <2>1, <2>4, <2>6
<1>10. ASSUME NEW z \in PartRange(type, 1), (z - x) % N = 0
       PROVE  z = y
  <2> DEFINE half == N \div 2
  <2>2. half \in Nat /\ N = half + half
    BY <1>5
  <2> HIDE DEF half
  <2>3. PartRange(type, 1) = IF type \in SignedTypes THEN -half .. half - 1 ELSE 0 .. N - 1
    BY <1>7 DEF half
  <2>4. \/ y \in -half .. half - 1 /\ z \in -half .. half - 1
        \/ y \in 0 .. N - 1 /\ z \in 0 .. N - 1
    BY <1>9, <1>10, <2>3
  <2>1. y \in Int /\ z \in Int /\ z - y < N /\ y - z < N
    BY <1>5, <2>2, <2>4
  <2> QED BY <1>5, <1>9, <1>10, <2>1, SameResidue
<1>11. Fitted(type, x) = <<y>>
  <2>1. (CHOOSE z \in PartRange(type, 1) : (z - x) % N = 0) = y
    BY <1>9, <1>10
  <2> QED BY <1>3, <2>1 DEF Fitted, N
<1>12. ValueOf(type, result.VALUE) = <<y>>
  BY <1>2, PartsOfOne DEF ValueOf, y
<1> QED BY <1>1, <1>11, <1>12 DEF Gives, result, bytes

\* C's division is the one of IL.
LEMMA QuotientIs ==
  ASSUME NEW x \in Int, NEW y \in Int, y # 0
  PROVE  Quotient(x, y) = Divided(x, y)
<1> DEFINE X == Magnitude(x)
           Y == Magnitude(y)
           d == X \div Y
           r == X % Y
           q == Divided(x, y)
           right(p) == Magnitude(x - p * y) < Y /\ (x - p * y) * x >= 0
<1>1. X \in Nat /\ Y \in Nat \ {0} /\ X = (IF x < 0 THEN -x ELSE x) /\ Y = (IF y < 0 THEN -y ELSE y)
  BY DEF Magnitude
<1>2. X = r + Y * d /\ r \in 0 .. Y - 1 /\ d \in Int
  <2>1. X \in Nat /\ Y \in Nat \ {0}
    BY <1>1
  <2> HIDE DEF X, Y
  <2>2. d \in Int /\ r \in 0 .. Y - 1
    BY <2>1
  <2>3. X = r + Y * d
    BY <2>1
  <2> QED BY <2>2, <2>3
<1>3. q = IF (x < 0) = (y < 0) THEN d ELSE -d
  BY DEF Divided
<1> HIDE DEF X, Y, d, r, q
<1>4. d >= 0 /\ d <= X
  <2>1. d <= -1 => Y * d <= -Y
    BY <1>1, <1>2
  <2>2. d >= 0
    BY <1>1, <1>2, <2>1
  <2>3. Y * d >= d /\ Y * d \in Int
    BY <1>1, <1>2, <2>2
  <2> QED BY <1>1, <1>2, <2>2, <2>3
<1>5. q \in -X .. X
  BY <1>1, <1>2, <1>3, <1>4
<1>6. x - q * y = IF x < 0 THEN -r ELSE r
  <2>1. CASE y < 0
    <3>1. y = -Y /\ (-d) * y = Y * d /\ d * y = -(Y * d) /\ Y * d \in Int
      BY <1>1, <1>2, <2>1
    <3> QED BY <1>1, <1>2, <1>3, <2>1, <3>1
  <2>2. CASE y > 0
    <3>1. y = Y /\ d * y = Y * d /\ (-d) * y = -(Y * d) /\ Y * d \in Int
      BY <1>1, <1>2, <2>2
    <3> QED BY <1>1, <1>2, <1>3, <2>2, <3>1
  <2> QED BY <2>1, <2>2
<1>7. right(q)
  <2>1. Magnitude(x - q * y) = r
    BY <1>2, <1>6 DEF Magnitude
  <2>2. x >= 0 => r * x >= 0
    BY <1>2
  <2>3. x < 0 => (-r) * x >= 0
    BY <1>2
  <2> QED BY <1>1, <1>2, <1>6, <2>1, <2>2, <2>3
<1>8. ASSUME NEW p \in -X .. X, right(p)
      PROVE  p = q
  <2> DEFINE t == x - p * y
             s == Magnitude(t)
  <2>1. p \in Int /\ t \in Int /\ x = t + p * y /\ s \in 0 .. Y - 1 /\ t * x >= 0
        /\ s = (IF t < 0 THEN -t ELSE t) /\ p * y \in Int
    <3>1. p \in Int
      BY <1>1
    <3>2. p * y \in Int
      BY <3>1
    <3>3. t \in Int /\ x = t + p * y
      BY <3>2
    <3> QED BY <1>1, <1>8, <3>1, <3>2, <3>3 DEF Magnitude
  <2> HIDE DEF t, s
  <2>2. CASE x = 0
    BY <1>1, <1>5, <2>2
  <2>3. CASE x # 0
    <3>1. x > 0 => t >= 0
      <4>1. x > 0 /\ t <= -1 => t * x < 0
        BY <2>1
      <4> QED BY <2>1, <4>1
    <3>2. x < 0 => t <= 0
      <4>1. x < 0 /\ t >= 1 => t * x < 0
        BY <2>1
      <4> QED BY <2>1, <4>1
    <3> DEFINE m == IF (x < 0) = (y < 0) THEN p ELSE -p
    <3>3. X = s + Y * m /\ m \in Int
      <4>1. CASE y < 0
        <5>1. y = -Y /\ p * y = -(Y * p) /\ Y * (-p) = -(Y * p) /\ Y * p \in Int
          BY <1>1, <2>1, <4>1
        <5> QED BY <1>1, <2>1, <2>3, <3>1, <3>2, <4>1, <5>1
      <4>2. CASE y > 0
        <5>1. y = Y /\ p * y = Y * p /\ Y * (-p) = -(Y * p) /\ Y * p \in Int
          BY <1>1, <2>1, <4>2
        <5> QED BY <1>1, <2>1, <2>3, <3>1, <3>2, <4>2, <5>1
      <4> QED BY <4>1, <4>2
    <3>4. X \div Y = m
      <4> HIDE DEF m
      <4> QED BY <1>1, <2>1, <3>3, DivMod
    <3> QED BY <1>3, <2>1, <3>4 DEF d
  <2> QED BY <2>2, <2>3
<1>9. Quotient(x, y) = CHOOSE p \in -X .. X : right(p)
  BY DEF Quotient, X, Y
<1>10. (CHOOSE p \in -X .. X : right(p)) = q
  BY <1>5, <1>7, <1>8
<1> QED BY <1>9, <1>10 DEF q

\* The arithmetic instructions.
LEMMA ArithmeticRight ==
  ASSUME NEW cr, Fine(cr), NEW type \in IntegerTypes \cup {"TIME"}, cr.TYPE = type,
         SizeOf(type) \in 1 .. RegisterSize, HasBytes(type, cr.VALUE),
         NEW data, HasBytes(type, data)
  PROVE  LET a == ValueOf(type, cr.VALUE)
             b == ValueOf(type, data)
         IN  /\ Gives(PLC_IL_ADD(cr, type, data), type, Calculated("ADD", type, a, b))
             /\ Gives(PLC_IL_SUB(cr, type, data), type, Calculated("SUB", type, a, b))
             /\ Gives(PLC_IL_MUL(cr, type, data), type, Calculated("MUL", type, a, b))
             /\ b[1] # 0 =>
                  Gives(PLC_IL_DIV(cr, type, data), type, Calculated("DIV", type, a, b))
             /\ type \in IntegerTypes /\ b[1] # 0 =>
                  Gives(PLC_IL_MOD(cr, type, data), type, Calculated("MOD", type, a, b))
<1> DEFINE x == Part(type, cr.VALUE, 1)
           y == Part(type, data, 1)
<1>1. type \in Types \ (Dates \cup {"OTHER"}) /\ type # "BOOL"
  BY DEF IntegerTypes, Types, SignedTypes, SignedInts, UnsignedInts, Dates
<1>2. 1 \in DOMAIN Parts(type)
  BY <1>1, OnePart
<1>3. x \in Int /\ y \in Int
  BY <1>1, <1>2, PartIs
<1>4. ValueOf(type, cr.VALUE) = <<x>> /\ ValueOf(type, data) = <<y>>
  BY <1>1, PartsOfOne DEF ValueOf
<1> HIDE DEF x, y
<1>5. <<x>>[1] = x /\ <<y>>[1] = y
  OBVIOUS
<1>6. ASSUME NEW types, type \in types, NEW n \in Int
      PROVE  Gives(Arithmetic(cr, type, types, n), type, Fitted(type, n))
  <2>1. Gives(Written(cr, Encoded(n, SizeOf(type))), type, Fitted(type, n))
    BY FittedGives
  <2> QED BY <1>6, <2>1 DEF Arithmetic
<1>7. x + y \in Int /\ x - y \in Int /\ x * y \in Int
  BY <1>3
<1>8. ASSUME y # 0
      PROVE  /\ Divided(x, y) = Quotient(x, y) /\ Quotient(x, y) \in Int
             /\ x - Divided(x, y) * y = x - y * Quotient(x, y)
             /\ x - y * Quotient(x, y) \in Int
  <2>1. Divided(x, y) = Quotient(x, y)
    BY <1>3, <1>8, QuotientIs
  <2>2. Divided(x, y) \in Int
    BY <1>3, <1>8, DividedIs
  <2> QED BY <1>3, <2>1, <2>2
<1>9. Gives(PLC_IL_ADD(cr, type, data), type, Calculated("ADD", type, <<x>>, <<y>>))
  BY <1>5, <1>6, <1>7 DEF PLC_IL_ADD, Calculated, x, y
<1>10. Gives(PLC_IL_SUB(cr, type, data), type, Calculated("SUB", type, <<x>>, <<y>>))
  BY <1>5, <1>6, <1>7 DEF PLC_IL_SUB, Calculated, x, y
<1>11. Gives(PLC_IL_MUL(cr, type, data), type, Calculated("MUL", type, <<x>>, <<y>>))
  BY <1>5, <1>6, <1>7 DEF PLC_IL_MUL, Calculated, x, y
<1>12. ASSUME y # 0
       PROVE  Gives(PLC_IL_DIV(cr, type, data), type, Calculated("DIV", type, <<x>>, <<y>>))
  BY <1>5, <1>6, <1>8, <1>12 DEF PLC_IL_DIV, Calculated, x, y
<1>13. ASSUME y # 0, type \in IntegerTypes
       PROVE  Gives(PLC_IL_MOD(cr, type, data), type, Calculated("MOD", type, <<x>>, <<y>>))
  BY <1>5, <1>6, <1>8, <1>13 DEF PLC_IL_MOD, Calculated, x, y
<1> QED BY <1>4, <1>5, <1>9, <1>10, <1>11, <1>12, <1>13

-----------------------------------------------------------------------------
(* Logic.                                                                  *)

\* Whether the bit at a place is 1.
HasOne(type, data, place) ==
  IF type = "BOOL" THEN data[0] = 1
  ELSE Bit(data[place \div ByteBits], place % ByteBits) = 1

\* The bits of a value are those of its bytes.
LEMMA OnesAre ==
  ASSUME NEW type \in BitStrings \cup {"BOOL"}, NEW data, HasBytes(type, data),
         type = "BOOL" => data[0] \in {0, 1}
  PROVE  Ones(type, ValueOf(type, data)) = {p \in Places(type) : HasOne(type, data, p)}
<1>1. /\ type \in Types \ (Dates \cup {"OTHER"}) /\ type \notin SignedTypes
      /\ type # "BOOL" => type \in BitStrings
  BY DEF BitStrings, Types, SignedTypes, SignedInts, UnsignedInts, Dates
<1>2. CASE type = "BOOL"
  <2> DEFINE x == data[0]
  <2>1. x = 0 \/ x = 1
    BY <1>2
  <2>2. ValueOf(type, data) = <<x>> /\ Places(type) = {0}
    BY <1>2, <2>1 DEF ValueOf, Truth, Places
  <2>3. Bit(0, 0) = 0 /\ Bit(1, 0) = 1
    <3>1. Power[0] = 1
      BY PowerStep
    <3> QED BY <3>1 DEF Bit
  <2>4. \A p \in {0} : Bit(<<x>>[1], p) = 1 <=> x = 1
    BY <2>1, <2>3
  <2> QED BY <1>2, <2>2, <2>4 DEF Ones, HasOne
<1>3. CASE type # "BOOL"
  <2> DEFINE size == SizeOf(type)
             n == Decoded(data, 0, size)
  <2>1. Parts(type)[1] = size /\ Offsets(type)[1] = 0 /\ size \in 0 .. 8 /\ size \in Nat
    BY <1>1, OnePart
  <2>2. ValueOf(type, data) = <<n>>
    <3>1. Part(type, data, 1) = n
      BY <1>1, <2>1 DEF Part
    <3> QED BY <1>1, <1>3, <3>1, PartsOfOne DEF ValueOf
  <2>3. Places(type) = 0 .. size * ByteBits - 1
    BY <1>3, <2>1 DEF Places
  <2>4. AreBytes(data, 0, size)
    BY <2>1 DEF AreBytes, HasBytes
  <2> HIDE DEF size
  <2>5. \A k \in 0 .. size - 1, i \in 0 .. ByteBits - 1 :
          Bit(n, k * ByteBits + i) = Bit(data[0 + k], i)
    BY <2>1, <2>4, DecodedIs
  <2> HIDE DEF n
  <2>6. ASSUME NEW p \in 0 .. size * ByteBits - 1
        PROVE  Bit(n, p) = 1 <=> HasOne(type, data, p)
    <3> DEFINE k == p \div ByteBits
               i == p % ByteBits
    <3>1. p = i + ByteBits * k /\ i \in 0 .. ByteBits - 1 /\ k \in Int
      BY <2>1, BitsAre
    <3> HIDE DEF k, i
    <3>2. k \in 0 .. size - 1
      <4>1. k <= -1 => ByteBits * k <= -ByteBits
        BY <3>1, BitsAre
      <4>2. k >= size => ByteBits * k >= ByteBits * size
        BY <2>1, <3>1, BitsAre
      <4>3. ByteBits * size = size * ByteBits /\ ByteBits * k \in Int /\ size * ByteBits \in Int
        BY <2>1, <3>1, BitsAre
      <4> QED BY <2>1, <3>1, <4>1, <4>2, <4>3, BitsAre
    <3>3. p = k * ByteBits + i
      BY <3>1, BitsAre
    <3>4. Bit(n, p) = Bit(data[k], i)
      BY <2>5, <3>1, <3>2, <3>3
    <3> QED BY <1>3, <3>4 DEF HasOne, k, i
  <2>7. <<n>>[1] = n
    OBVIOUS
  <2> QED BY <2>2, <2>3, <2>6, <2>7 DEF Ones
<1> QED BY <1>2, <1>3

\* The combination of two bytes at every offset is that of the values.
LEMMA OnesCombined ==
  ASSUME NEW cr, Fine(cr), NEW type \in BitStrings \cup {"BOOL"}, cr.TYPE = type,
         SizeOf(type) \in 1 .. RegisterSize, HasBytes(type, cr.VALUE),
         NEW data, FineData(type, data), HasBytes(type, data),
         NEW op \in {"AND", "OR", "XOR"}, NEW result, HasBytes(type, result),
         \A k \in 0 .. SizeOf(type) - 1 : result[k] = Combination(op, cr.VALUE[k], data[k])
  PROVE  Ones(type, ValueOf(type, result)) =
           CombinedOnes(op, type, ValueOf(type, cr.VALUE), ValueOf(type, data))
<1> DEFINE x == Ones(type, ValueOf(type, cr.VALUE))
           y == Ones(type, ValueOf(type, data))
<1>1. 0 \in 0 .. SizeOf(type) - 1 /\ SizeOf(type) \in Nat
  BY RegisterHolds
<1>2. type = "BOOL" => cr.VALUE[0] \in {0, 1} /\ data[0] \in {0, 1} /\ result[0] \in {0, 1}
  BY <1>1, CombinationOfBools DEF Fine, FineData
<1>3. /\ x = {p \in Places(type) : HasOne(type, cr.VALUE, p)}
      /\ y = {p \in Places(type) : HasOne(type, data, p)}
      /\ Ones(type, ValueOf(type, result)) = {p \in Places(type) : HasOne(type, result, p)}
  BY <1>2, OnesAre
<1>4. ASSUME NEW p \in Places(type)
      PROVE  HasOne(type, result, p) <=>
               Combines(op, HasOne(type, cr.VALUE, p), HasOne(type, data, p))
  <2>1. CASE type = "BOOL"
    BY <1>1, <1>2, <2>1, CombinationOfBools DEF HasOne
  <2>2. CASE type # "BOOL"
    <3> DEFINE k == p \div ByteBits
               i == p % ByteBits
    <3>1. k \in 0 .. SizeOf(type) - 1 /\ i \in 0 .. ByteBits - 1
      <4>1. type \in Types \ (Dates \cup {"OTHER"})
        BY DEF BitStrings, Types, SignedTypes, SignedInts, UnsignedInts, Dates
      <4>2. p \in 0 .. SizeOf(type) * ByteBits - 1
        BY <2>2, <4>1, OnePart DEF Places
      <4> DEFINE size == SizeOf(type)
      <4>3. size \in Nat /\ p \in Int /\ p >= 0 /\ p < ByteBits * size
        BY <1>1, <4>2, BitsAre
      <4>4. p = i + ByteBits * k /\ i \in 0 .. ByteBits - 1 /\ k \in Int
        BY <4>3, BitsAre
      <4> HIDE DEF k, i, size
      <4>5. k <= -1 => ByteBits * k <= -ByteBits
        BY <4>4, BitsAre
      <4>6. k >= size => ByteBits * k >= ByteBits * size
        BY <4>3, <4>4, BitsAre
      <4>7. ByteBits * k \in Int /\ ByteBits * size \in Int
        BY <4>3, <4>4, BitsAre
      <4>8. k \in 0 .. size - 1
        BY <4>3, <4>4, <4>5, <4>6, <4>7, BitsAre
      <4> QED BY <4>4, <4>8 DEF size
    <3> HIDE DEF k, i
    <3>2. Bit(result[k], i) = 1 <=> Combines(op, Bit(cr.VALUE[k], i) = 1, Bit(data[k], i) = 1)
      BY <3>1, CombinationIs
    <3> QED BY <2>2, <3>2 DEF HasOne, k, i
  <2> QED BY <2>1, <2>2
<1>5. CombinedOnes(op, type, ValueOf(type, cr.VALUE), ValueOf(type, data)) =
        {p \in Places(type) : Combines(op, HasOne(type, cr.VALUE, p), HasOne(type, data, p))}
  <2> HIDE DEF HasOne
  <2>1. CASE op = "AND"
    BY <1>3, <2>1 DEF CombinedOnes, Combines
  <2>2. CASE op = "OR"
    BY <1>3, <2>2 DEF CombinedOnes, Combines
  <2>3. CASE op = "XOR"
    <3>1. \A p : /\ HasOne(type, cr.VALUE, p) \in BOOLEAN
                 /\ HasOne(type, data, p) \in BOOLEAN
      BY DEF HasOne
    <3>2. \A p \in Places(type) :
            p \in (x \cup y) \ (x \cap y) <=>
              Combines(op, HasOne(type, cr.VALUE, p), HasOne(type, data, p))
      BY <1>3, <2>3, <3>1 DEF Combines
    <3>3. (x \cup y) \ (x \cap y) \subseteq Places(type)
      BY <1>3
    <3>4. CombinedOnes(op, type, ValueOf(type, cr.VALUE), ValueOf(type, data)) =
            (x \cup y) \ (x \cap y)
      BY <2>3 DEF CombinedOnes
    <3> QED BY <3>2, <3>3, <3>4
  <2> QED BY <2>1, <2>2, <2>3
<1> QED BY <1>3, <1>4, <1>5

\* What InstructionsRight says of AND, OR and XOR, by name.
LogicGives(cr, type, op, a, b) ==
  cr.TYPE = type /\ Ones(type, ValueOf(type, cr.VALUE)) = CombinedOnes(op, type, a, b)

\* The value of an operand as the modifier leaves it.
LEMMA OperandValue ==
  ASSUME NEW type \in Types, NEW data, FineData(type, data), NEW m
  PROVE  ValueOf(type, Modified(type, data, m)) =
           IF m = "N" THEN Complement(type, ValueOf(type, data)) ELSE ValueOf(type, data)
<1>1. CASE m = "N"
  BY <1>1, ValueComplement
<1>2. CASE m # "N"
  BY <1>2 DEF Modified
<1> QED BY <1>1, <1>2

\* AND, OR and XOR, with either modifier.
LEMMA LogicRight ==
  ASSUME NEW cr, Fine(cr), NEW type \in BitStrings \cup {"BOOL"}, cr.TYPE = type,
         SizeOf(type) \in 1 .. RegisterSize, HasBytes(type, cr.VALUE),
         NEW data, FineData(type, data), NEW m
  PROVE  LET a == ValueOf(type, cr.VALUE)
             b == ValueOf(type, Modified(type, data, m))
         IN  /\ LogicGives(PLC_IL_AND(cr, type, data, m), type, "AND", a, b)
             /\ LogicGives(PLC_IL_OR(cr, type, data, m), type, "OR", a, b)
             /\ LogicGives(PLC_IL_XOR(cr, type, data, m), type, "XOR", a, b)
<1> DEFINE other == Modified(type, data, m)
           new(op) == Combined(cr, op, other)
<1>1. type \in Types
  BY DEF Types
<1>2. FineData(type, other)
  BY <1>1, ModifiedIs
<1> HIDE DEF other
<1>3. HasBytes(type, other)
  BY <1>2 DEF FineData, HasBytes, Bytes
<1>4. ASSUME NEW op \in {"AND", "OR", "XOR"}
      PROVE  LogicGives(new(op), type, op, ValueOf(type, cr.VALUE), ValueOf(type, other))
  <2>1. /\ Fine(new(op)) /\ new(op).TYPE = type
        /\ \A k \in 0 .. SizeOf(type) - 1 :
             new(op).VALUE[k] = Combination(op, cr.VALUE[k], other[k])
    BY <1>1, <1>2, LogicFine
  <2> HIDE DEF new
  <2>2. HasBytes(type, new(op).VALUE)
    BY <2>1, CombinationIs DEF HasBytes
  <2> QED BY <1>2, <1>3, <2>1, <2>2, OnesCombined DEF LogicGives
<1>5. /\ PLC_IL_AND(cr, type, data, m) = new("AND")
      /\ PLC_IL_OR(cr, type, data, m) = new("OR")
      /\ PLC_IL_XOR(cr, type, data, m) = new("XOR")
  <2>1. \A x, y : /\ And(x, y) = Combination("AND", x, y) /\ Or(x, y) = Combination("OR", x, y)
                 /\ Xor(x, y) = Combination("XOR", x, y)
    BY DEF Combination
  <2> QED BY <2>1 DEF PLC_IL_AND, PLC_IL_OR, PLC_IL_XOR, Logic, Combined, other
<1> HIDE DEF new
<1> QED BY <1>4, <1>5 DEF other

\* NOT, and the instructions that move values.
LEMMA NotRight ==
  ASSUME NEW cr, Fine(cr), NEW type \in BitStrings \cup {"BOOL"}, cr.TYPE = type,
         SizeOf(type) \in 1 .. RegisterSize
  PROVE  Gives(PLC_IL_NOT(cr, type), type, Complement(type, ValueOf(type, cr.VALUE)))
<1> DEFINE data == [k \in 0 .. SizeOf(type) - 1 |-> cr.VALUE[k]]
           new == Modified(type, data, "N")
<1>1. type \in Types
  BY DEF Types
<1>2. FineData(type, data)
  BY RegisterHolds DEF Fine, FineData, Bytes
<1>3. \A k \in 0 .. SizeOf(type) - 1 : data[k] = cr.VALUE[k]
  OBVIOUS
<1> HIDE DEF data
<1>4. FineData(type, new)
  BY <1>1, <1>2, ModifiedIs
<1>5. PLC_IL_NOT(cr, type) = Written(cr, new)
  BY DEF PLC_IL_NOT, data
<1>6. /\ Written(cr, new).TYPE = type
      /\ \A k \in 0 .. SizeOf(type) - 1 : Written(cr, new).VALUE[k] = new[k]
  <2> HIDE DEF new
  <2> QED BY <1>4, WrittenFine DEF Fine
<1>7. ValueOf(type, Written(cr, new).VALUE) = Complement(type, ValueOf(type, data))
  BY <1>1, <1>2, <1>6, ValueComplement
<1>8. ValueOf(type, data) = ValueOf(type, cr.VALUE)
  BY <1>1, <1>3, ValueSame
<1> QED BY <1>5, <1>6, <1>7, <1>8 DEF Gives

\* LD gives the operand, whatever the register had before.
LEMMA LoadRight ==
  ASSUME NEW cr, Fine(cr), NEW type \in Types, SizeOf(type) \in 1 .. RegisterSize,
         NEW data, FineData(type, data), NEW m
  PROVE  Gives(PLC_IL_LD(cr, type, data, m), type,
               IF m = "N" THEN Complement(type, ValueOf(type, data)) ELSE ValueOf(type, data))
<1> DEFINE result == PLC_IL_LD(cr, type, data, m)
<1>1. /\ result.TYPE = type
      /\ \A k \in 0 .. SizeOf(type) - 1 : result.VALUE[k] = Modified(type, data, m)[k]
  BY LoadFine
<1> HIDE DEF result
<1>2. ValueOf(type, result.VALUE) = ValueOf(type, Modified(type, data, m))
  BY <1>1, ValueSame
<1> QED BY <1>1, <1>2, OperandValue DEF Gives, result

\* ST stores the value; inverted, where the program may ask for that.
LEMMA StoreRight ==
  ASSUME NEW cr, Fine(cr), NEW type \in Types, SizeOf(type) \in 1 .. RegisterSize,
         cr.TYPE = type, NEW m, m = "N" => type \notin Dates \cup {"BOOL"}
  PROVE  ValueOf(type, PLC_IL_ST(cr, SizeOf(type), m)) =
           IF m = "N" THEN Complement(type, ValueOf(type, cr.VALUE))
                      ELSE ValueOf(type, cr.VALUE)
<1> DEFINE data == [k \in 0 .. SizeOf(type) - 1 |-> cr.VALUE[k]]
<1>1. FineData(type, data)
  BY RegisterHolds DEF Fine, FineData, Bytes
<1>2. ValueOf(type, data) = ValueOf(type, cr.VALUE)
  BY ValueSame
<1>3. PLC_IL_ST(cr, SizeOf(type), m) = Modified(type, data, m)
  BY DEF PLC_IL_ST, Modified
<1> HIDE DEF data
<1> QED BY <1>1, <1>2, <1>3, OperandValue

-----------------------------------------------------------------------------
(* All instructions.                                                       *)

\* All of them, at any place of a program.
LEMMA AllRight ==
  ASSUME RegisterOK, "notBool" \notin Pitfalls, "orEqual" \notin Pitfalls
  PROVE  InstructionsRight
<1> SUFFICES ASSUME NEW v \in Variables
    PROVE
      LET type == TypeOf[v]
          data == memory[v]
          b == ValueOf(type, data)
          a == ValueOf(type, CR.VALUE)
          operand(modifier) == IF modifier = "N" THEN Complement(type, b) ELSE b
      IN /\ \A m \in Modifiers : Gives(PLC_IL_LD(CR, type, data, m), type, operand(m))
         /\ CR.TYPE = type =>
           /\ \A m \in Modifiers : Storable(type, m) =>
                ValueOf(type, PLC_IL_ST(CR, SizeOf(type), m)) =
                  IF m = "N" THEN Complement(type, a) ELSE a
           /\ Comparable(type) =>
                /\ Gives(PLC_IL_EQ(CR, type, data), "BOOL", Compared("EQ", a, b))
                /\ Gives(PLC_IL_NE(CR, type, data), "BOOL", Compared("NE", a, b))
                /\ Gives(PLC_IL_GT(CR, type, data), "BOOL", Compared("GT", a, b))
                /\ Gives(PLC_IL_LT(CR, type, data), "BOOL", Compared("LT", a, b))
           /\ Ordered(type) =>
                /\ Gives(PLC_IL_GE(CR, type, data), "BOOL", Compared("GE", a, b))
                /\ Gives(PLC_IL_LE(CR, type, data), "BOOL", Compared("LE", a, b))
           /\ type \in IntegerTypes \cup {"TIME"} =>
                /\ Gives(PLC_IL_ADD(CR, type, data), type, Calculated("ADD", type, a, b))
                /\ Gives(PLC_IL_SUB(CR, type, data), type, Calculated("SUB", type, a, b))
           /\ type \in IntegerTypes =>
                /\ Gives(PLC_IL_MUL(CR, type, data), type, Calculated("MUL", type, a, b))
                /\ b[1] # 0 =>
                     /\ Gives(PLC_IL_DIV(CR, type, data), type, Calculated("DIV", type, a, b))
                     /\ Gives(PLC_IL_MOD(CR, type, data), type, Calculated("MOD", type, a, b))
           /\ type \in BitStrings \cup {"BOOL"} =>
                /\ Gives(PLC_IL_NOT(CR, type), type, Complement(type, a))
                /\ \A m \in Modifiers :
                     /\ LogicGives(PLC_IL_AND(CR, type, data, m), type, "AND", a, operand(m))
                     /\ LogicGives(PLC_IL_OR(CR, type, data, m), type, "OR", a, operand(m))
                     /\ LogicGives(PLC_IL_XOR(CR, type, data, m), type, "XOR", a, operand(m))
  BY Zenon DEF InstructionsRight, LogicGives
<1> DEFINE type == TypeOf[v]
           data == memory[v]
           b == ValueOf(type, data)
           a == ValueOf(type, CR.VALUE)
           operand(m) == IF m = "N" THEN Complement(type, b) ELSE b
<1>1. /\ type \in Types /\ SizeOf(type) \in 1 .. RegisterSize
      /\ FineData(type, data) /\ Fine(CR)
      /\ HasBytes(type, data) /\ HasBytes(type, CR.VALUE)
  BY OperandIs
<1> HIDE DEF type, data
<1>2. ASSUME NEW m \in Modifiers
      PROVE  Gives(PLC_IL_LD(CR, type, data, m), type, operand(m))
  BY <1>1, LoadRight
<1>3. ASSUME CR.TYPE = type, NEW m \in Modifiers, Storable(type, m)
      PROVE  ValueOf(type, PLC_IL_ST(CR, SizeOf(type), m)) =
               IF m = "N" THEN Complement(type, a) ELSE a
  <2>1. m = "N" => type \notin Dates \cup {"BOOL"}
    BY <1>3 DEF Storable
  <2> QED BY <1>1, <1>3, <2>1, StoreRight
<1>4. ASSUME CR.TYPE = type, Comparable(type)
      PROVE  /\ Gives(PLC_IL_EQ(CR, type, data), "BOOL", Compared("EQ", a, b))
             /\ Gives(PLC_IL_NE(CR, type, data), "BOOL", Compared("NE", a, b))
             /\ Gives(PLC_IL_GT(CR, type, data), "BOOL", Compared("GT", a, b))
             /\ Gives(PLC_IL_LT(CR, type, data), "BOOL", Compared("LT", a, b))
  BY <1>1, <1>4, ComparisonsRight
<1>5. ASSUME CR.TYPE = type, Ordered(type)
      PROVE  /\ Gives(PLC_IL_GE(CR, type, data), "BOOL", Compared("GE", a, b))
             /\ Gives(PLC_IL_LE(CR, type, data), "BOOL", Compared("LE", a, b))
  <2>1. Comparable(type) /\ type \notin Dates
    BY <1>5 DEF Ordered
  <2> QED BY <1>1, <1>5, <2>1, ComparisonsRight
<1>6. ASSUME CR.TYPE = type, type \in IntegerTypes \cup {"TIME"}
      PROVE  /\ Gives(PLC_IL_ADD(CR, type, data), type, Calculated("ADD", type, a, b))
             /\ Gives(PLC_IL_SUB(CR, type, data), type, Calculated("SUB", type, a, b))
             /\ Gives(PLC_IL_MUL(CR, type, data), type, Calculated("MUL", type, a, b))
             /\ type \in IntegerTypes /\ b[1] # 0 =>
                  /\ Gives(PLC_IL_DIV(CR, type, data), type, Calculated("DIV", type, a, b))
                  /\ Gives(PLC_IL_MOD(CR, type, data), type, Calculated("MOD", type, a, b))
  BY <1>1, <1>6, ArithmeticRight
<1>7. ASSUME CR.TYPE = type, type \in BitStrings \cup {"BOOL"}
      PROVE  Gives(PLC_IL_NOT(CR, type), type, Complement(type, a))
  BY <1>1, <1>7, NotRight
<1>8. ASSUME CR.TYPE = type, type \in BitStrings \cup {"BOOL"}, NEW m \in Modifiers
      PROVE  /\ LogicGives(PLC_IL_AND(CR, type, data, m), type, "AND", a, operand(m))
             /\ LogicGives(PLC_IL_OR(CR, type, data, m), type, "OR", a, operand(m))
             /\ LogicGives(PLC_IL_XOR(CR, type, data, m), type, "XOR", a, operand(m))
  <2>1. ValueOf(type, Modified(type, data, m)) = operand(m)
    BY <1>1, OperandValue
  <2> HIDE DEF operand, a, b
  <2>2. LET c == ValueOf(type, Modified(type, data, m))
        IN  /\ LogicGives(PLC_IL_AND(CR, type, data, m), type, "AND", a, c)
            /\ LogicGives(PLC_IL_OR(CR, type, data, m), type, "OR", a, c)
            /\ LogicGives(PLC_IL_XOR(CR, type, data, m), type, "XOR", a, c)
    BY <1>1, <1>8, LogicRight DEF a
  <2> QED BY <2>1, <2>2
<1>9. IntegerTypes \subseteq IntegerTypes \cup {"TIME"}
  OBVIOUS
<1> QED BY <1>2, <1>3, <1>4, <1>5, <1>6, <1>7, <1>8, <1>9, Zenon DEF type, data

\* Every instruction on an operand of the register's type gives the value, and
\* the type, that IL says, whatever the programs, the variables and the bits of a
\* byte: as long as no program uses the instructions that Pitfalls may name, the
\* literals of another type, STN of a BOOL and "or equal" of dates.
THEOREM InstructionsGiveIL ==
  ASSUME "literal" \notin Pitfalls, "notBool" \notin Pitfalls, "orEqual" \notin Pitfalls
  PROVE  Spec => []InstructionsRight
<1>1. RegisterOK => InstructionsRight
  BY AllRight
<1> QED BY RegisterTypes, <1>1, PTL
=============================================================================
