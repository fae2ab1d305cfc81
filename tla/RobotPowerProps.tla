-------------------------- MODULE RobotPowerProps --------------------------
(***************************************************************************)
(* What power management and behaviour owe each other and the robot.       *)
(***************************************************************************)
EXTENDS RobotPower

(* The type invariant.                                                     *)
TypeOK ==
  /\ soc \in 0..Full /\ bat \in 0..Full /\ onDock \in BOOLEAN /\ gaugeOk \in BOOLEAN
  /\ charge \in Charges /\ docked \in BOOLEAN
  /\ pc \in {"wait", "measured", "looked", "ready", "asleep", "awake", "bits"}
  /\ power \in Powers /\ evg \subseteq {"low", "emergency"}
  /\ level \in {"active", "idle", "light", "deep"} /\ idle \in Nat
  /\ level \in {"light", "deep"} <=> pc = "asleep"
  /\ docked => pc \in {"ready", "awake", "bits"}
  /\ behavior \in {"idle", "interacting", "charging", "alert"} /\ ran \in BOOLEAN
  /\ quiet \in 0..(InteractionTimeout + 1)

(* However docking, commands, readings and state changes interleave with   *)
(* the polls, a robot that is awake has not been idle for longer than the  *)
(* light sleep timeout ("30min idle -> Light Sleep", config.h), and the    *)
(* poll that finds more puts it to sleep: each way through a poll sleeps   *)
(* or counts as activity.                                                  *)
IdleBounded ==
  /\ idle <= LightTimeout + 1
  /\ pc \in {"wait", "awake", "bits"} => idle <= LightTimeout

(* The emergency bit stands for a critical battery, but for the window of  *)
(* the poll between g_power_state and the bits.  The alert behaviour is    *)
(* the face of that window and of nothing else: it is entered only between *)
(* the state that left critical and its bits.                              *)
AlertIsAWindow ==
  [][behavior # "alert" /\ behavior' = "alert" => pc = "bits" /\ power # "critical"]_vars

(* Off the dock with a critical battery for good, a robot with a gauge     *)
(* settles in the behaviour that seeks the charger, whatever alerts,       *)
(* touches and sleeps came before.                                         *)
CriticalSeeksDock ==
  <>[](gaugeOk /\ ~onDock /\ IsCritical(soc)) =>
    <>[](power = "critical" /\ behavior = "charging")

(* On the dock and charged for good, it is released from that behaviour.   *)
ChargedReleases ==
  <>[](gaugeOk /\ onDock /\ soc >= ExitPct) =>
    <>[](power = "charged" /\ behavior \notin {"charging", "alert"})
-----------------------------------------------------------------------------
(* What the code does against its comments: power_mgr.c:15 has "60min idle *)
(* -> Deep Sleep if battery < 20%", config.h:137 says the same, and        *)
(* docs/robot-firmware.md:259 goes from light to deep sleep.  No robot is  *)
(* ever in deep sleep: light sleep comes first, and to wake from it counts *)
(* as activity.                                                            *)
NeverDeep == level # "deep"
=============================================================================
