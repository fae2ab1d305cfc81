--------------------------- MODULE MCRobotUplink ---------------------------
(***************************************************************************)
(* Short periods and a queue of one frame: enough to go from direct mode   *)
(* to bridge mode and send a frame there.                                  *)
(***************************************************************************)
EXTENDS RobotUplink
=============================================================================
