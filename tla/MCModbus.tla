------------------------------ MODULE MCModbus ------------------------------
(* Configurations of ModbusGateway for TLC. *)
EXTENDS ModbusGateway, TLC

\* Slave 1 is on the line, slave 2 in this program.  The master cannot tell the
\* answers to the two reads apart.
ReadA == [id |-> 1, fct |-> "read", addr |-> 1]
ReadB == [id |-> 1, fct |-> "read", addr |-> 2]
WriteHere == [id |-> 2, fct |-> "write", addr |-> 1]
TwoServers == <<2, 0>>

\* Two masters that share the line, with users below and above the gateway.
OneEach == ("a" :> 1) @@ ("b" :> 2)
TwoReads == ("a" :> {ReadA}) @@ ("b" :> {ReadB})
AboveAndBelow == ("a" :> 0) @@ ("gw" :> 1) @@ ("b" :> 2)

\* One master with both kinds of server.
Alone == "a" :> 1
ReadAndWrite == "a" :> {ReadA, WriteHere}
Below == ("a" :> 0) @@ ("gw" :> 1)

\* Both configurations satisfy what the theorems ask for.
ASSUME TheoremsApply == LineSuits
=============================================================================
