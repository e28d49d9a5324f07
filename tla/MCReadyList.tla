---------------------------- MODULE MCReadyList -----------------------------
(* A ready list for TLC.                                                   *)
EXTENDS ReadyList

ThreeTasks == 0 .. 2
=============================================================================
