--------------------------- MODULE PLCInstructions ---------------------------
(***************************************************************************)
(* The instructions of a PLC program in IL, as PLC_IL_Instructions.c has   *)
(* them: C functions that work on one register CR, the union of all types  *)
(* and a tag for the type it holds, and on variables given by address.     *)
(* A POU is a sequence of calls of these functions.                        *)
(***************************************************************************)
EXTENDS ILReference

CONSTANT Pitfalls   \* the instructions that programs use although they fail, named
                    \* in Ordered, Storable and Literal

VARIABLES
  CR,        \* the register: TYPE, and VALUE as the bytes of the union
  memory     \* the bytes of each variable

vars == <<CR, memory>>

-----------------------------------------------------------------------------
(* Data in bytes, the lowest first.                                        *)

Base == Numbers(1)

\* The sums of the first terms, from none on.
Sums(term) ==
  LET sum[n \in 0 .. MaxBits] == IF n = 0 THEN 0 ELSE sum[n - 1] + term[n - 1]
  IN sum

\* Where the parts of a value start, with the padding of the structures, and
\* its length with the parts that are not compared.
Offsets(type) ==
  CASE type = "D" -> <<0, 2, 3>>
    [] type = "TOD" -> <<0, 1, 2, 4>>
    [] type = "DT" -> <<0, 2, 3, 5, 6, 7, 8>>
    [] type = "OTHER" -> <<0, 1, 2>>
    [] OTHER -> <<0>>
SizeOf(type) ==
  CASE type = "D" -> 6 [] type = "TOD" -> 8 [] type = "DT" -> 12
    [] type = "OTHER" -> 3 [] OTHER -> Parts(type)[1]

\* The bytes of the register that the types in use can write.
RegisterSize ==
  LET sizes == {SizeOf(TypeOf[v]) : v \in Variables} \cup {SizeOf("TIME")}
  IN CHOOSE n \in sizes : \A m \in sizes : m <= n

\* x in that many bytes, modulo their range.
Encoded(x, bytes) == [k \in 0 .. bytes - 1 |-> (x \div Numbers(k)) % Base]

\* The number in some bytes from an offset on, and a part of a value.
Decoded(data, at, bytes) ==
  Sums([k \in 0 .. bytes - 1 |-> data[at + k] * Numbers(k)])[bytes]
Part(type, data, i) ==
  LET bytes == Parts(type)[i]  n == Decoded(data, Offsets(type)[i], bytes)
  IN IF type \in SignedTypes /\ n >= Numbers(bytes) \div 2 THEN n - Numbers(bytes) ELSE n
PartsOf(type, data) == [i \in DOMAIN Parts(type) |-> Part(type, data, i)]

\* "0 = false, !0 = true"
ValueOf(type, data) ==
  IF type = "BOOL" THEN Truth(data[0] # 0) ELSE PartsOf(type, data)

\* The bytes of a value; what is not a part of it is 0.
BytesOf(type, value) ==
  [k \in 0 .. SizeOf(type) - 1 |->
     IF \E i \in DOMAIN value : k - Offsets(type)[i] \in 0 .. Parts(type)[i] - 1
     THEN LET i == CHOOSE i \in DOMAIN value :
                     k - Offsets(type)[i] \in 0 .. Parts(type)[i] - 1
          IN Encoded(value[i], Parts(type)[i])[k - Offsets(type)[i]]
     ELSE 0]

\* An assignment to a member of the union leaves the bytes beyond it.
Written(cr, data) ==
  [cr EXCEPT !.VALUE = [k \in DOMAIN @ |-> IF k \in DOMAIN data THEN data[k] ELSE @[k]]]
WrittenBool(cr, holds) == Written(cr, Encoded(IF holds THEN 1 ELSE 0, 1))

-----------------------------------------------------------------------------
(* The functions: the register after a call with an operand of a type.     *)

\* C's ! and ~.
Negated(data) == Encoded(IF data[0] = 0 THEN 1 ELSE 0, 1)
Inverted(data) == [k \in DOMAIN data |-> Base - 1 - data[k]]
\* mutant: a BOOL is inverted as a byte is
ModifiedBitwise(type, data, modifier) ==
  IF modifier # "N" \/ type \in Dates THEN data ELSE Inverted(data)
Modified(type, data, modifier) ==
  IF modifier # "N" \/ type \in Dates THEN data
  ELSE IF type = "BOOL" THEN Negated(data) ELSE Inverted(data)

PLC_IL_LD(cr, type, operand, modifier) ==
  Written([cr EXCEPT !.TYPE = type], Modified(type, operand, modifier))

\* The type of the register stays what it was.
PLC_IL_LD_BOOL_Literal(cr, newValue, modifier) ==
  Written(cr, Modified("BOOL", newValue, modifier))
PLC_IL_LD_INT_Literal(cr, newValue, modifier) ==
  Written(cr, Modified("INT", newValue, modifier))
PLC_IL_LD_TIME_Literal(cr, newValue, modifier) ==
  Written(cr, Modified("TIME", newValue, modifier))

\* ST gives the variable its lenght of bytes, inverted byte by byte.
PLC_IL_ST(cr, lenght, modifier) ==
  LET data == [k \in 0 .. lenght - 1 |-> cr.VALUE[k]]
  IN IF modifier = "N" THEN Inverted(data) ELSE data

\* S and R give a BOOL, or leave it.
Sets(cr) == cr.TYPE = "BOOL" /\ cr.VALUE[0] # 0
PLC_IL_S(cr, operand) == IF Sets(cr) THEN Encoded(1, 1) ELSE operand
PLC_IL_R(cr, operand) == IF Sets(cr) THEN Encoded(0, 1) ELSE operand

\* A comparison of operands of one type leaves a BOOL; there is no case for OTHER.
Comparison(cr, type, holds) ==
  IF cr.TYPE # type THEN cr
  ELSE IF type = "OTHER" THEN [cr EXCEPT !.TYPE = "BOOL"]
  ELSE WrittenBool([cr EXCEPT !.TYPE = "BOOL"], holds)

\* The conditions of GT, GE, LT and LE take a part after equal ones.
EqualBefore(a, b, i) == \A j \in 1 .. i - 1 : a[j] = b[j]

PLC_IL_EQ(cr, type, operand) ==
  LET a == PartsOf(type, cr.VALUE)  b == PartsOf(type, operand)
  IN Comparison(cr, type, \A i \in DOMAIN a : a[i] = b[i])
PLC_IL_NE(cr, type, operand) ==
  LET a == PartsOf(type, cr.VALUE)  b == PartsOf(type, operand)
  IN Comparison(cr, type, \E i \in DOMAIN a : a[i] # b[i])
\* mutant: the parts before need not be equal
PLC_IL_GT_AnyPart(cr, type, operand) ==
  LET a == PartsOf(type, cr.VALUE)  b == PartsOf(type, operand)
  IN Comparison(cr, type, \E i \in DOMAIN a : a[i] > b[i])
PLC_IL_GT(cr, type, operand) ==
  LET a == PartsOf(type, cr.VALUE)  b == PartsOf(type, operand)
  IN Comparison(cr, type, \E i \in DOMAIN a : a[i] > b[i] /\ EqualBefore(a, b, i))
PLC_IL_GE(cr, type, operand) ==
  LET a == PartsOf(type, cr.VALUE)  b == PartsOf(type, operand)
  IN Comparison(cr, type, \E i \in DOMAIN a : a[i] >= b[i] /\ EqualBefore(a, b, i))
PLC_IL_LT(cr, type, operand) ==
  LET a == PartsOf(type, cr.VALUE)  b == PartsOf(type, operand)
  IN Comparison(cr, type, \E i \in DOMAIN a : a[i] < b[i] /\ EqualBefore(a, b, i))
PLC_IL_LE(cr, type, operand) ==
  LET a == PartsOf(type, cr.VALUE)  b == PartsOf(type, operand)
  IN Comparison(cr, type, \E i \in DOMAIN a : a[i] <= b[i] /\ EqualBefore(a, b, i))

\* Arithmetic on types it is overloaded for; a sum of a width goes around, as
\* the processor's instructions and the conversions of C have it.
Arithmetic(cr, type, types, result) ==
  IF cr.TYPE # type \/ type \notin types THEN cr
  ELSE Written(cr, Encoded(result, SizeOf(type)))
IntegerTypes == SignedInts \cup UnsignedInts

\* C rounds towards zero.
Divided(x, y) ==
  IF (x < 0) = (y < 0) THEN Magnitude(x) \div Magnitude(y)
                       ELSE -(Magnitude(x) \div Magnitude(y))

PLC_IL_ADD(cr, type, operand) ==
  Arithmetic(cr, type, IntegerTypes \cup {"TIME"},
             Part(type, cr.VALUE, 1) + Part(type, operand, 1))
PLC_IL_SUB(cr, type, operand) ==
  Arithmetic(cr, type, IntegerTypes \cup {"TIME"},
             Part(type, cr.VALUE, 1) - Part(type, operand, 1))
PLC_IL_MUL(cr, type, operand) ==
  Arithmetic(cr, type, IntegerTypes \cup {"TIME"},
             Part(type, cr.VALUE, 1) * Part(type, operand, 1))
PLC_IL_DIV(cr, type, operand) ==
  Arithmetic(cr, type, IntegerTypes \cup {"TIME"},
             Divided(Part(type, cr.VALUE, 1), Part(type, operand, 1)))
PLC_IL_MOD(cr, type, operand) ==
  LET x == Part(type, cr.VALUE, 1)  y == Part(type, operand, 1)
  IN Arithmetic(cr, type, IntegerTypes, x - Divided(x, y) * y)

\* C's &, | and ^ of two bytes.
BitsOf(x) == {i \in 0 .. ByteBits - 1 : Bit(x, i) = 1}
ByteOf(bits) ==
  Sums([i \in 0 .. ByteBits - 1 |-> IF i \in bits THEN Power[i] ELSE 0])[ByteBits]
And(x, y) == ByteOf(BitsOf(x) \cap BitsOf(y))
Or(x, y) == ByteOf(BitsOf(x) \cup BitsOf(y))
Xor(x, y) == ByteOf((BitsOf(x) \cup BitsOf(y)) \ (BitsOf(x) \cap BitsOf(y)))

\* Logic is byte by byte, also on a BOOL.
Logic(cr, type, data) ==
  IF cr.TYPE # type \/ type \notin BitStrings \cup {"BOOL"} THEN cr ELSE Written(cr, data)

PLC_IL_AND(cr, type, operand, modifier) ==
  LET data == Modified(type, operand, modifier)
  IN Logic(cr, type, [k \in DOMAIN data |-> And(cr.VALUE[k], data[k])])
PLC_IL_OR(cr, type, operand, modifier) ==
  LET data == Modified(type, operand, modifier)
  IN Logic(cr, type, [k \in DOMAIN data |-> Or(cr.VALUE[k], data[k])])
PLC_IL_XOR(cr, type, operand, modifier) ==
  LET data == Modified(type, operand, modifier)
  IN Logic(cr, type, [k \in DOMAIN data |-> Xor(cr.VALUE[k], data[k])])

\* NOT does not compare its type with the register's.
PLC_IL_NOT(cr, type) ==
  IF type \notin BitStrings \cup {"BOOL"} THEN cr
  ELSE Written(cr, Modified(type, [k \in 0 .. SizeOf(type) - 1 |-> cr.VALUE[k]], "N"))

-----------------------------------------------------------------------------
(* A POU calls any of them, with the type of its variable.                 *)

Init ==
  /\ CR = [TYPE |-> "BOOL", VALUE |-> [k \in 0 .. RegisterSize - 1 |-> 0]]
  /\ \E values \in Start : memory = [v \in Variables |-> BytesOf(TypeOf[v], values[v])]

Modifiers == {"NullModifier", "N"}

\* What a program leaves alone because it fails: comparisons with "or equal" of
\* dates, STN of a BOOL, literals of a type the register does not have.  There
\* is no meaning for the bits of a stored date and for comparing structures.
Comparable(type) == type # "OTHER"
Ordered(type) == Comparable(type) /\ (type \in Dates => "orEqual" \in Pitfalls)
Storable(type, modifier) ==
  modifier = "N" => /\ type \notin Dates
                    /\ type = "BOOL" => "notBool" \in Pitfalls
Literal(type) == CR.TYPE = type \/ "literal" \in Pitfalls

Numerals == {-1, 1, 2}

Execute(cr) == CR' = cr /\ UNCHANGED memory
Stored(v, data) == v \in Outputs /\ memory' = [memory EXCEPT ![v] = data] /\ UNCHANGED CR

\* Division by zero: whatever the processor leaves in the register.
DivideByZero(type, operand) ==
  /\ type \in IntegerTypes \cup {"TIME"} /\ CR.TYPE = type /\ Part(type, operand, 1) = 0
  /\ \E x \in PartRange(type, 1) : Execute(Written(CR, Encoded(x, SizeOf(type))))

Load(type, operand) ==
  \E modifier \in Modifiers : Execute(PLC_IL_LD(CR, type, operand, modifier))
LoadLiteral ==
  \E modifier \in Modifiers :
    \/ \E x \in {0, 1} :
         Literal("BOOL") /\ Execute(PLC_IL_LD_BOOL_Literal(CR, Encoded(x, 1), modifier))
    \/ \E x \in Numerals :
         \/ Literal("INT") /\ Execute(PLC_IL_LD_INT_Literal(CR, Encoded(x, 2), modifier))
         \/ Literal("TIME") /\ Execute(PLC_IL_LD_TIME_Literal(CR, Encoded(x, 4), modifier))
Store(v, type) ==
  \/ \E modifier \in Modifiers :
       /\ CR.TYPE = type /\ Storable(type, modifier)
       /\ Stored(v, PLC_IL_ST(CR, SizeOf(type), modifier))
  \/ type = "BOOL" /\ Stored(v, PLC_IL_S(CR, memory[v]))
  \/ type = "BOOL" /\ Stored(v, PLC_IL_R(CR, memory[v]))
Compare(type, operand) ==
  \/ Comparable(type) /\ Execute(PLC_IL_EQ(CR, type, operand))
  \/ Comparable(type) /\ Execute(PLC_IL_NE(CR, type, operand))
  \/ Comparable(type) /\ Execute(PLC_IL_GT(CR, type, operand))
  \/ Comparable(type) /\ Execute(PLC_IL_LT(CR, type, operand))
  \/ Ordered(type) /\ Execute(PLC_IL_GE(CR, type, operand))
  \/ Ordered(type) /\ Execute(PLC_IL_LE(CR, type, operand))
Calculate(type, operand) ==
  \/ Execute(PLC_IL_ADD(CR, type, operand))
  \/ Execute(PLC_IL_SUB(CR, type, operand))
  \/ Execute(PLC_IL_MUL(CR, type, operand))
  \/ Part(type, operand, 1) # 0 /\ Execute(PLC_IL_DIV(CR, type, operand))
  \/ Part(type, operand, 1) # 0 /\ Execute(PLC_IL_MOD(CR, type, operand))
  \/ DivideByZero(type, operand)
Combine(type, operand) ==
  \/ \E modifier \in Modifiers :
       \/ Execute(PLC_IL_AND(CR, type, operand, modifier))
       \/ Execute(PLC_IL_OR(CR, type, operand, modifier))
       \/ Execute(PLC_IL_XOR(CR, type, operand, modifier))
  \/ CR.TYPE = type /\ Execute(PLC_IL_NOT(CR, type))

Next ==
  \/ LoadLiteral
  \/ \E v \in Variables :
       \/ Load(TypeOf[v], memory[v])
       \/ Store(v, TypeOf[v])
       \/ Compare(TypeOf[v], memory[v])
       \/ Calculate(TypeOf[v], memory[v])
       \/ Combine(TypeOf[v], memory[v])

Spec == Init /\ [][Next]_vars

-----------------------------------------------------------------------------
(* Properties.                                                             *)

\* The value of the register is that value of that type.
Gives(cr, type, value) == cr.TYPE = type /\ ValueOf(type, cr.VALUE) = value

\* The register and the variables are bytes of their types.  A BOOL is 0 or 1:
\* AND is by bit, so that of two BOOLs that are true, as any byte but 0 is, it
\* could otherwise be false.  With "literal" or "notBool" in Pitfalls it fails.
RegisterOK ==
  /\ CR \in [TYPE : Types, VALUE : [0 .. RegisterSize - 1 -> 0 .. Base - 1]]
  /\ CR.TYPE = "BOOL" => CR.VALUE[0] \in {0, 1}
  /\ \A v \in Variables :
       /\ memory[v] \in [0 .. SizeOf(TypeOf[v]) - 1 -> 0 .. Base - 1]
       /\ TypeOf[v] = "BOOL" => memory[v][0] \in {0, 1}

\* Whatever is left in the register by instructions on other, longer types, and
\* whatever has been stored, every instruction on an operand of the register's
\* type gives the value that IL says, in the type that IL says.  With "orEqual"
\* in Pitfalls it fails: GE and LE take the first part alone.
InstructionsRight ==
  \A v \in Variables :
    LET type == TypeOf[v]
        data == memory[v]
        b == ValueOf(type, data)
        a == ValueOf(type, CR.VALUE)
        operand(modifier) == IF modifier = "N" THEN Complement(type, b) ELSE b
    IN /\ \A m \in Modifiers : Gives(PLC_IL_LD(CR, type, data, m), type, operand(m))
       /\ CR.TYPE = type =>
         /\ \A m \in Modifiers : Storable(type, m) =>
              ValueOf(type, PLC_IL_ST(CR, SizeOf(type), m)) =
                IF m = "N" THEN Complement(type, a) ELSE a
         /\ Comparable(type) =>
              /\ Gives(PLC_IL_EQ(CR, type, data), "BOOL", Compared("EQ", a, b))
              /\ Gives(PLC_IL_NE(CR, type, data), "BOOL", Compared("NE", a, b))
              /\ Gives(PLC_IL_GT(CR, type, data), "BOOL", Compared("GT", a, b))
              /\ Gives(PLC_IL_LT(CR, type, data), "BOOL", Compared("LT", a, b))
         /\ Ordered(type) =>
              /\ Gives(PLC_IL_GE(CR, type, data), "BOOL", Compared("GE", a, b))
              /\ Gives(PLC_IL_LE(CR, type, data), "BOOL", Compared("LE", a, b))
         /\ type \in IntegerTypes \cup {"TIME"} =>
              /\ Gives(PLC_IL_ADD(CR, type, data), type, Calculated("ADD", type, a, b))
              /\ Gives(PLC_IL_SUB(CR, type, data), type, Calculated("SUB", type, a, b))
         /\ type \in IntegerTypes =>
              /\ Gives(PLC_IL_MUL(CR, type, data), type, Calculated("MUL", type, a, b))
              /\ b[1] # 0 =>
                   /\ Gives(PLC_IL_DIV(CR, type, data), type, Calculated("DIV", type, a, b))
                   /\ Gives(PLC_IL_MOD(CR, type, data), type, Calculated("MOD", type, a, b))
         /\ type \in BitStrings \cup {"BOOL"} =>
              /\ Gives(PLC_IL_NOT(CR, type), type, Complement(type, a))
              /\ \A m \in Modifiers :
                   LET gives(cr, op) ==
                         /\ cr.TYPE = type
                         /\ Ones(type, ValueOf(type, cr.VALUE)) =
                              CombinedOnes(op, type, a, operand(m))
                   IN /\ gives(PLC_IL_AND(CR, type, data, m), "AND")
                      /\ gives(PLC_IL_OR(CR, type, data, m), "OR")
                      /\ gives(PLC_IL_XOR(CR, type, data, m), "XOR")
=============================================================================
