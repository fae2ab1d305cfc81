-------------------------- MODULE RobotMotionProps --------------------------
(***************************************************************************)
(* What keeps a driving robot off obstacles, and what does not.            *)
(***************************************************************************)
EXTENDS RobotMotion

Modes == {"idle", "move", "goto"}

(* The type invariant.                                                     *)
TypeOK ==
  /\ queue \in Seq(Commands) /\ Len(queue) <= QueueDepth
  /\ mot \in [mode : Modes, dir : Dirs \cup {"stop"}, left : Int, estop : BOOLEAN, wound : SUBSET Motors]
  /\ wheels \in {"coast", "drive", "brake"} /\ shared \in {"low", "pulse", "head"}
  /\ hyst \in [stop : [Zones -> 0..HysteresisCount], slow : [Zones -> 0..HysteresisCount]]
  /\ sight \in {"none", "blind", "clear", "near"} /\ sensors \subseteq Sensors
  /\ loc \in [odom : BOOLEAN, vel : BOOLEAN, moved : BOOLEAN, cycle : 0..(TofTurns - 1)]
  /\ online \in BOOLEAN
  /\ offline \in [active : BOOLEAN, turns : 0..ExploreTurns, step : {"look", "stop", "explore", "leave"}]

(* The three wheels with channels of their own, all but L1, are braked     *)
(* exactly in an emergency: whatever commands arrive in the meantime and   *)
(* whichever task takes them, the motor task gives those wheels nothing    *)
(* else until the obstacle check lets go.  (The brake of a stop command or *)
(* an arrival is overwritten by the same turn's PID output.)               *)
BrakedInEmergency == wheels = "brake" <=> mot.estop

(* An emergency is the end of what the robot was doing: when it is over,   *)
(* be it that a look failed, the three wheels are driven only for a        *)
(* command taken since it began; neither the move it cut short nor what    *)
(* the controllers had wound up by then goes on.                           *)
NothingResumes ==
  [][mot.estop /\ ~mot'.estop /\ mot'.mode = "idle" => wheels' = "coast"]_vars

(* Refuted.  "EMERGENCY STOP - obstacle within %d cm" (obstacle.c:136):    *)
(* an emergency begins only with something within the stop distance.       *)
(* obstacle.c:56 puts the rear, which has no sensor, at 51 and reads it as *)
(* millimetres, 5 cm, so that the second look brakes a robot with nothing  *)
(* around it.                                                              *)
OnlyForObstacles ==
  [][MotorTurn /\ ~mot.estop /\ mot'.estop => sight' = "near"]_vars

(* The extent of it: two looks of the motor task one after the other brake *)
(* whatever there is; the robot drives only while every second look fails. *)
Sees == {"clear", "near"}
SecondLookBrakes ==
  [][MotorTurn /\ sight \in Sees /\ sight' \in Sees => wheels' = "brake"]_vars

(* tof.c:156-158 puts the sensors already set up back into reset: only the *)
(* last one keeps its address.  The others read as 0, the nearest of the   *)
(* three is 0, and nothing straight ahead or on the left ever counts.      *)
BlindAhead == \A z \in {"front", "frontLeft"} : hyst.stop[z] = 0 /\ hyst.slow[z] = 0
=============================================================================
