----------------------------- MODULE MCGateway -----------------------------
(***************************************************************************)
(* Three sockets, three machines, two ids, room for two: a machine can     *)
(* reconnect while its old socket lingers, the pool can be full, an id can *)
(* be used a second time.  Two broadcasts and channels with room for one   *)
(* frame: the second finds a channel full when the first has not been      *)
(* written, and the listener waits.  Machines are interchangeable, so the  *)
(* first socket is m1's and the second m1's or m2's.                       *)
(***************************************************************************)
EXTENDS GatewayProps

CONSTANTS m1, m2, m3

MCMachines == {m1, m2, m3}

InOrderOfNames ==
  /\ machine[1] \in {m1, NoMachine}
  /\ machine[2] \in {m1, m2, NoMachine}
MCSpec == Init /\ [][Next /\ InOrderOfNames']_vars /\ Fairness
=============================================================================
