---------------------------- MODULE StationProps ----------------------------
(* What a charging station is to keep.                                     *)
EXTENDS Station

Parts == {0, 30, 64, 128, 200, 255}
Colours == [1..3 -> Parts]

(* Every variable has its type; no more reports wait than the queue holds. *)
TypeOK ==
  /\ level \in Levels /\ steady \in BOOLEAN
  /\ state \in ChargeStates /\ docked \in BOOLEAN /\ since \in 0..(Precharge + 1) /\ out \in BOOLEAN
  /\ loop \in {"wait", "red", "green", "blue", "end"} /\ colour \in Colours
  /\ turns \in 0..(ReportEvery - 1) /\ led \in Colours /\ blink \in BOOLEAN /\ beacon \in BOOLEAN
  /\ wifi \in BOOLEAN /\ gateway \in BOOLEAN /\ ev \in BOOLEAN
  /\ reporter \in {"starting", "receive", "send"}
  /\ sock \in {"none", "open", "dead", "reset"}
  /\ queue \in Seq(BOOLEAN) /\ Len(queue) <= QueueDepth

(* The contacts have power exactly in the state of charging, by whichever  *)
(* way it was entered or left, and the flag for a robot is there in every  *)
(* state but the idle one; power comes after the delay.                    *)
PowerFollowsState ==
  /\ out <=> state = "active"
  /\ docked <=> state # "idle"
  /\ out => since > Precharge

Ticks == loop = "wait" /\ loop' # "wait"

(* Contacts that are open or overloaded and stay so through a tick have no *)
(* power after it if they had it before: power on open contacts, which the *)
(* end of the delay may switch on, lasts one turn of the loop.             *)
BadContactsOff ==
  [][Ticks /\ out /\ level' = level /\ (Open(level) \/ Overload(level)) => ~out']_vars

(* What disagrees with "charging in progress" (charge_ctl.h:27) and the    *)
(* cutoff at 2.5 A (charge_ctl.h:10): a robot whose contacts keep the      *)
(* voltage at which it was found is not charged.  The same reading, taken  *)
(* for a current, is an overload at the first tick after the power is on.  *)
SteadyFaults ==
  [][Ticks /\ state = "active" /\ steady /\ steady' => state' = "fault"]_vars

(* While the loop waits the beacon is off exactly in the states of         *)
(* charging, and the light has the whole colour that the loop has set:     *)
(* the blink task, which may write between two channels, mixes with it in  *)
(* no state but the fault.                                                 *)
ShownWhileWaiting ==
  loop = "wait" =>
    /\ beacon <=> state \notin {"active", "complete"}
    /\ state = "idle" => led \in {IdleColour, Connecting}
    /\ state \in {"docked", "active"} => led = Charging

(* A fault that stays is all that the station sends in the end, once Wi-Fi *)
(* and gateway stay as well: old reports run out of the queue, and each    *)
(* connection that the gateway closes is made anew.  (The gateway, which   *)
(* takes no report without authentication, learns of none of it.)          *)
FaultIsSent ==
  <>[](state = "fault" /\ wifi /\ gateway) => <>[](reporter = "send" => ev) /\ []<>(sock = "open")
=============================================================================
