-------------------------- MODULE MCDeviceManager --------------------------
(***************************************************************************)
(* One robot, which starts and stops as it likes, and three faults.         *)
(***************************************************************************)
EXTENDS DeviceManagerProps

CONSTANT r1

MCRobots == {r1}
=============================================================================
