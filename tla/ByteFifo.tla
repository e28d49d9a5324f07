------------------------------ MODULE ByteFifo -------------------------------
(***************************************************************************)
(* What one direction of a serial device promises: bytes come out in the   *)
(* order in which they went in, each once.  Only while the reader clears   *)
(* the buffer may the oldest bytes disappear.                              *)
(***************************************************************************)
EXTENDS Naturals, Sequences

VARIABLES
  in,         \* the bytes that went in with the last step
  q,          \* the bytes that are inside
  out,        \* the bytes that came out with the last step
  clearing    \* the reader is clearing the buffer

vars == <<in, q, out, clearing>>

Init == in = <<>> /\ q = <<>> /\ out = <<>> /\ ~clearing

Put ==
  /\ in' # <<>> /\ q' = q \o in'
  /\ out' = <<>> /\ UNCHANGED clearing

Get ==
  /\ out' # <<>> /\ q = out' \o q'
  /\ in' = <<>> /\ UNCHANGED clearing

Clear ==
  /\ clearing \/ clearing'
  /\ \E n \in 0 .. Len(q) : q' = SubSeq(q, n + 1, Len(q))
  /\ in' = <<>> /\ out' = <<>>

Quiet ==
  /\ in' = <<>> /\ out' = <<>>
  /\ UNCHANGED <<q, clearing>>

Next == Put \/ Get \/ Clear \/ Quiet

Spec == Init /\ [][Next]_vars
==============================================================================
