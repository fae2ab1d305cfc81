--------------------------- MODULE MCRobotMotion ---------------------------
(***************************************************************************)
(* Two distances.  One is within 10 cm, where the robot stops; the other   *)
(* is in the slow zone up to 30 cm or, for the refuted run, beyond all of  *)
(* them.  A sensor whose address is lost reads 0, nothing in range.  Moves *)
(* without end and of one turn.                                            *)
(***************************************************************************)
EXTENDS RobotMotionProps
=============================================================================
