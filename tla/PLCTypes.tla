------------------------------ MODULE PLCTypes ------------------------------
(***************************************************************************)
(* The data types of PLC_ElementaryDataTypes.h that the instructions of IL *)
(* work on.  REAL, LREAL and the strings are left out.                     *)
(***************************************************************************)
EXTENDS Integers, Sequences

CONSTANTS
  ByteBits,    \* the bits of a byte, 8
  Variables,   \* the variables of a POU
  TypeOf,      \* [Variables -> Types]
  Start,       \* the values the variables may start with, as functions
  Outputs      \* the variables the POU stores into

BitStrings == {"BYTE", "WORD", "DWORD", "LWORD"}
SignedInts == {"SINT", "INT", "DINT", "LINT"}
UnsignedInts == {"USINT", "UINT", "UDINT", "ULINT"}
Dates == {"D", "TOD", "DT"}
SignedTypes == SignedInts \cup {"TIME", "BCD16", "BCD32"}
Types == {"BOOL", "OTHER"} \cup BitStrings \cup UnsignedInts \cup SignedTypes \cup Dates

\* The bytes of the parts of a value: a date is its year, month and day (the day
\* of the week is not compared), OTHER is any structure, here of three bytes.
Parts(type) ==
  CASE type \in {"BOOL", "BYTE", "SINT", "USINT"} -> <<1>>
    [] type \in {"WORD", "INT", "UINT", "BCD16"} -> <<2>>
    [] type \in {"DWORD", "DINT", "UDINT", "TIME", "BCD32"} -> <<4>>
    [] type \in {"LWORD", "LINT", "ULINT"} -> <<8>>
    [] type = "D" -> <<2, 1, 1>>
    [] type = "TOD" -> <<1, 1, 1, 4>>
    [] type = "DT" -> <<2, 1, 1, 1, 1, 1, 4>>
    [] type = "OTHER" -> <<1, 1, 1>>

\* The powers of two, up to the number of bits of the longest part.
MaxBits == 8 * ByteBits
Power[n \in 0 .. MaxBits] == IF n = 0 THEN 1 ELSE 2 * Power[n - 1]

\* A bit of a number.
Bit(x, i) == (x \div Power[i]) % 2

\* How many numbers a part of that many bytes can tell apart.
Numbers(bytes) == Power[bytes * ByteBits]

\* The numbers a part of a value may be.
PartRange(type, i) ==
  LET n == Numbers(Parts(type)[i])
  IN CASE type = "BOOL" -> {0, 1}
       [] type \in SignedTypes -> -(n \div 2) .. (n \div 2) - 1
       [] OTHER -> 0 .. n - 1

\* A value is the sequence of its parts.
IsValue(type, value) ==
  /\ DOMAIN value = DOMAIN Parts(type)
  /\ \A i \in DOMAIN value : value[i] \in PartRange(type, i)

ASSUME PLCAssumption ==
  /\ ByteBits \in Nat \ {0}
  /\ TypeOf \in [Variables -> Types]
  /\ Outputs \subseteq Variables
  /\ \A values \in Start : \A v \in Variables : IsValue(TypeOf[v], values[v])
=============================================================================
