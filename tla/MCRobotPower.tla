---------------------------- MODULE MCRobotPower ----------------------------
(***************************************************************************)
(* Four charge levels, one on each side of each threshold.  Sleep timeouts *)
(* of one, two and four polls: light sleep is reached by way of idle, and  *)
(* deep sleep would be if anything let a robot wait for it.                *)
(***************************************************************************)
EXTENDS RobotPowerProps
=============================================================================
