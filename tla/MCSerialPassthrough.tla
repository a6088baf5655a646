-------------------------- MODULE MCSerialPassthrough --------------------------
(* Configurations of the fan-out for TLC: two addresses of which the second   *)
(* comes with room for one client only, and the fan-out switched off.         *)
EXTENDS SerialPassthrough

Cfg(e, a, m) == [enabled |-> e, addr |-> a, max |-> m, allow |-> Client]

MCPayloads == {Cfg(TRUE, "a", 2), Cfg(TRUE, "b", 1), Cfg(FALSE, "b", 2)}
==============================================================================
