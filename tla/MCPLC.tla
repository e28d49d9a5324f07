------------------------------- MODULE MCPLC --------------------------------
(***************************************************************************)
(* An instance of PLCInstructions for TLC: bytes of two bits, and types of *)
(* 1 to 12 bytes, so that short results are left over longer values.       *)
(***************************************************************************)
EXTENDS PLCInstructions, TLC

VariableTypes ==
  "b" :> "BOOL" @@ "c" :> "BOOL" @@ "w" :> "WORD" @@ "i" :> "INT" @@ "s" :> "SINT"
  @@ "u" :> "UINT" @@ "t" :> "TIME" @@ "d" :> "D" @@ "e" :> "D"
  @@ "x" :> "DT" @@ "y" :> "DT" @@ "o" :> "OTHER"
VariableNames == DOMAIN VariableTypes

\* Two dates of one year, and two times of one day that differ in the last part.
StartValues ==
  {"b" :> <<0>> @@ "c" :> <<1>> @@ "w" :> <<6>> @@ "i" :> <<-3>> @@ "s" :> <<1>>
   @@ "u" :> <<13>> @@ "t" :> <<7>> @@ "d" :> <<3, 1, 2>> @@ "e" :> <<3, 2, 1>>
   @@ "x" :> <<3, 1, 2, 1, 1, 1, 9>> @@ "y" :> <<3, 1, 2, 1, 1, 1, 8>>
   @@ "o" :> <<3, 0, 2>>}
=============================================================================
