----------------------------- MODULE MCStation -----------------------------
(* Open contacts, a trickle, a load and the voltage of a robot.            *)
EXTENDS StationProps

MCLevels == {0, 100, 300, 600}
=============================================================================
