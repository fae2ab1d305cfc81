----------------------------- MODULE RobotPower -----------------------------
(***************************************************************************)
(* Power management and behaviour on the robot: task_power_mgr (2 Hz) and  *)
(* task_behavior (50 Hz), which share g_power_state and the bits of        *)
(* evg_system.                                                             *)
(*                                                                         *)
(* Both tasks are pinned to core 1 and the behaviour has the higher        *)
(* priority: an iteration of it is one step, and it may run between any    *)
(* two steps of the power task, whose locals are the battery reading and   *)
(* docked.  The dock switch is read twice per poll, and may change between *)
(* the two.  The battery, the dock and the charging station are external.  *)
(*                                                                         *)
(* Left out: POWER_FAULT, which nothing assigns; the exploring, playing    *)
(* and error behaviours, which nothing enters; servos, lights and faces.   *)
(* Deep sleep is followed to the decision to enter it, which no state      *)
(* takes: no restart from it is modelled.                                  *)
(***************************************************************************)
EXTENDS Naturals

CONSTANTS
  Full,                  (* the charge levels are 0..Full                  *)
  CriticalPct, LowPct,   (* BATTERY_CRITICAL_PCT and BATTERY_LOW_PCT       *)
  ExitPct,               (* BATTERY_EXIT_CHARGE_PCT                        *)
  IdleTimeout, LightTimeout, DeepTimeout,  (* in polls of the power task   *)
  InteractionTimeout     (* in iterations of the behaviour                 *)

ASSUME PowerAssumption ==
  /\ Full \in Nat /\ CriticalPct \in Nat /\ LowPct \in Nat /\ ExitPct \in Nat
  /\ CriticalPct <= LowPct /\ LowPct <= ExitPct /\ ExitPct <= Full
  /\ IdleTimeout \in Nat /\ LightTimeout \in Nat /\ DeepTimeout \in Nat
  /\ IdleTimeout < LightTimeout /\ LightTimeout < DeepTimeout
  /\ InteractionTimeout \in Nat

VARIABLES
  soc, onDock,    (* the real charge, and the level of the dock switch     *)
  gaugeOk,        (* g_fuel_gauge_ok                                       *)
  bat,            (* g_battery.soc_pct and its copy in the poll            *)
  charge,         (* g_charge_state                                        *)
  pc, docked,     (* the poll                                              *)
  power,          (* g_power_state                                         *)
  level,          (* g_sleep_level                                         *)
  idle,           (* polls since g_last_activity_ms                        *)
  evg,            (* EVG_EMERGENCY and EVG_LOW_BATTERY                     *)
  behavior,       (* g_state of behavior.c                                 *)
  ran,            (* the behaviour ran since the last poll                 *)
  quiet           (* iterations since g_last_interaction_ms                *)

world == <<soc, onDock, gaugeOk>>
sleep == <<level, idle>>
conduct == <<behavior, ran, quiet>>
vars == <<soc, onDock, gaugeOk, bat, charge, pc, docked, power, level, idle, evg,
          behavior, ran, quiet>>

Powers == {"normal", "low", "critical", "charging", "charged"}
Charges == {"not_connected", "docked_idle", "cc"}

IsLow(b) == b < LowPct
IsCritical(b) == b < CriticalPct

-----------------------------------------------------------------------------
(* Start-up.                                                               *)

(* charging_get_state: one handshake when the robot is found on the dock,  *)
(* answered or not.                                                        *)
ChargeStates(before) ==
  IF ~onDock THEN {"not_connected"}
  ELSE IF before = "not_connected" THEN {"docked_idle", "cc"} ELSE {before}

(* The state power_mgr_init chooses; task_power_mgr has another order.     *)
BootPower(b, dock) ==
  IF IsCritical(b) THEN "critical"
  ELSE IF IsLow(b) THEN "low"
  ELSE IF ~dock THEN "normal"
  ELSE IF b >= ExitPct THEN "charged" ELSE "charging"

(* With no gauge the reading is 85 for good; one that answers, but not to  *)
(* its first read, leaves the zero of static memory.                       *)
Init ==
  /\ soc \in 0..Full /\ onDock \in BOOLEAN /\ gaugeOk \in BOOLEAN
  /\ bat \in IF gaugeOk THEN {soc, 0} ELSE {Full}
  /\ charge \in ChargeStates("not_connected")
  /\ docked = FALSE /\ pc = "wait"
  /\ power = BootPower(bat, onDock)
  /\ level = "active" /\ idle = 0 /\ evg = {}
  /\ behavior = "idle" /\ ran = FALSE /\ quiet = 0

-----------------------------------------------------------------------------
(* The world.                                                              *)

Drain ==
  /\ soc > 0 /\ soc' = soc - 1
  /\ UNCHANGED <<onDock, gaugeOk, bat, charge, pc, docked, power, sleep, evg, conduct>>

Recharge ==
  /\ onDock /\ soc < Full /\ soc' = soc + 1
  /\ UNCHANGED <<onDock, gaugeOk, bat, charge, pc, docked, power, sleep, evg, conduct>>

DockOrLeave ==
  /\ onDock' = ~onDock
  /\ UNCHANGED <<soc, gaugeOk, bat, charge, pc, docked, power, sleep, evg, conduct>>

-----------------------------------------------------------------------------
(* task_power_mgr.                                                         *)

(* battery_get_status: a read that fails leaves the last reading.  A poll  *)
(* is a period: the idle time grows by one.  It takes at most two          *)
(* handshakes and three reads, 230 ms of 500, so that the behaviour, of    *)
(* 20 ms and the higher priority, runs between two polls.                  *)
Measure(answers) ==
  /\ pc = "wait" /\ ran /\ pc' = "measured"
  /\ bat' = IF gaugeOk /\ answers THEN soc ELSE bat
  /\ idle' = idle + 1
  /\ UNCHANGED <<world, charge, docked, power, level, evg, conduct>>

FirstLook ==
  /\ pc = "measured" /\ pc' = "looked"
  /\ charge' \in ChargeStates(charge)
  /\ UNCHANGED <<world, bat, docked, power, sleep, evg, conduct>>

(* charging_is_docked asks the switch again.                               *)
SecondLook ==
  /\ pc = "looked" /\ pc' = "ready"
  /\ charge' \in ChargeStates(charge)
  /\ docked' = (charge' # "not_connected")
  /\ UNCHANGED <<world, bat, power, sleep, evg, conduct>>

(* Mutant: the time is reset and the level is not.                         *)
ReportTimeOnly == UNCHANGED level /\ idle' = 0
ReportActivity == level' = "active" /\ idle' = 0

IsIdle(n, timeout) == n > timeout

(* The sleep level that the idle time calls for.                           *)
Due(n, lvl, b) ==
  IF IsIdle(n, DeepTimeout) /\ IsLow(b) THEN (IF lvl # "deep" THEN "deep" ELSE lvl)
  ELSE IF IsIdle(n, LightTimeout) THEN (IF lvl # "light" THEN "light" ELSE lvl)
  ELSE IF IsIdle(n, IdleTimeout) /\ lvl = "active" THEN "idle"
  ELSE lvl

(* A waiting command is activity; so is anything but an undocked, normal   *)
(* robot.                                                                  *)
StayAwake ==
  /\ pc = "ready" /\ (docked \/ power # "normal")
  /\ ReportActivity /\ pc' = "awake"
  /\ UNCHANGED <<world, bat, charge, docked, power, evg, conduct>>

Escalate(commandWaits) ==
  /\ pc = "ready" /\ ~docked /\ power = "normal"
  /\ IF commandWaits THEN ReportActivity
     ELSE level' = Due(idle, level, bat) /\ UNCHANGED idle
  /\ pc' = IF level' \in {"light", "deep"} THEN "asleep" ELSE "awake"
  /\ UNCHANGED <<world, bat, charge, docked, power, evg, conduct>>

(* Mutant: the sleep does not count as activity.                           *)
WakeStale ==
  /\ pc = "asleep" /\ pc' = "awake"
  /\ level' = "active"
  /\ UNCHANGED <<world, bat, charge, docked, power, idle, evg, conduct>>

(* esp_light_sleep_start returns, whether it slept or failed.              *)
Wake ==
  /\ pc = "asleep" /\ pc' = "awake"
  /\ ReportActivity
  /\ UNCHANGED <<world, bat, charge, docked, power, evg, conduct>>

(* Mutant: a low battery is looked at first.                               *)
LowFirst(b, dock) ==
  IF IsLow(b) /\ ~dock THEN "low"
  ELSE IF IsCritical(b) /\ ~dock THEN "critical"
  ELSE IF ~dock THEN "normal"
  ELSE IF b >= ExitPct THEN "charged" ELSE "charging"

NextPower(b, dock) ==
  IF IsCritical(b) /\ ~dock THEN "critical"
  ELSE IF IsLow(b) /\ ~dock THEN "low"
  ELSE IF ~dock THEN "normal"
  ELSE IF b >= ExitPct THEN "charged" ELSE "charging"

(* The reading and docked may be those of before a light sleep.            *)
Transit ==
  /\ pc = "awake" /\ pc' = "bits"
  /\ power' = NextPower(bat, docked)
  /\ IF power' # power THEN ReportActivity ELSE UNCHANGED sleep
  /\ UNCHANGED <<world, bat, charge, docked, evg, conduct>>

(* Mutant: on the dock only the low battery is cleared.                    *)
BitsKeptOnDock(p) ==
  CASE p = "low" -> {"low"}
    [] p = "critical" -> {"low", "emergency"}
    [] p = "charging" -> evg \ {"low"}
    [] OTHER -> {}

BitsOf(p) ==
  CASE p = "low" -> {"low"}
    [] p = "critical" -> {"low", "emergency"}
    [] OTHER -> {}

(* In the low state two calls, of which the behaviour sees one.            *)
Publish ==
  /\ pc = "bits" /\ pc' = "wait"
  /\ evg' = BitsOf(power)
  /\ docked' = FALSE   (* not used again *)
  /\ ran' = FALSE
  /\ UNCHANGED <<world, bat, charge, power, sleep, behavior, quiet>>

Poll ==
  \/ \E answers \in BOOLEAN : Measure(answers)
  \/ FirstLook \/ SecondLook \/ StayAwake
  \/ \E commandWaits \in BOOLEAN : Escalate(commandWaits)
  \/ Wake \/ Transit \/ Publish

-----------------------------------------------------------------------------
(* task_behavior.                                                          *)

(* The global overrides, the second after the first.                       *)
Overridden(b) ==
  IF power = "critical" THEN "charging"
  ELSE IF "emergency" \in evg THEN "alert" ELSE b

(* Mutant: a robot on the dock leaves for nothing but a normal state.      *)
LeavesWhenNormal == power = "normal"
LeavesDock == power = "charged"
Calm == "emergency" \notin evg /\ power # "critical"

(* The behaviour of one state: touched, or silent for too long.            *)
Reaction(b, touched, silent) ==
  CASE b = "idle" /\ touched -> "interacting"
    [] b = "interacting" /\ silent -> "idle"
    [] b = "charging" /\ LeavesDock -> "idle"
    [] b = "alert" /\ Calm -> "idle"
    [] OTHER -> b

Behave(touched) ==
  LET b == Overridden(behavior)
      n == IF touched /\ b \in {"idle", "interacting"} THEN 0
           ELSE IF quiet > InteractionTimeout THEN quiet ELSE quiet + 1
  IN  /\ behavior' = Reaction(b, touched, n > InteractionTimeout)
      /\ quiet' = n /\ ran' = TRUE
      /\ UNCHANGED <<world, bat, charge, pc, docked, power, sleep, evg>>

-----------------------------------------------------------------------------
Next ==
  \/ Drain \/ Recharge \/ DockOrLeave
  \/ Poll
  \/ \E touched \in BOOLEAN : Behave(touched)

Spec == Init /\ [][Next]_vars

(* Both tasks are periodic and the lower one is not starved; a gauge that  *)
(* is there answers now and then.                                          *)
FairSpec ==
  /\ Spec
  /\ WF_vars(Poll) /\ SF_vars(Measure(TRUE))
  /\ WF_vars(\E touched \in BOOLEAN : Behave(touched))
=============================================================================
