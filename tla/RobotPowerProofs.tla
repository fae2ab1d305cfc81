-------------------------- MODULE RobotPowerProofs --------------------------
(***************************************************************************)
(* Proofs, for charge levels, thresholds and timeouts of any size, of the  *)
(* safety properties of power management and behaviour.                    *)
(***************************************************************************)
EXTENDS RobotPowerProps, TLAPS

(* The emergency bit stands for a critical battery, except while the poll  *)
(* has left critical and not yet said so.                                  *)
AlarmIsReal == "emergency" \in evg /\ pc # "bits" => power = "critical"

IInv == TypeOK /\ IdleBounded /\ NeverDeep /\ AlarmIsReal

USE PowerAssumption DEF world, sleep, conduct, Powers, Charges

LEMMA ChargeStatesType ==
  ASSUME TypeOK, NEW c \in ChargeStates(charge) PROVE c \in Charges
  BY DEF ChargeStates, TypeOK

LEMMA InitIInv == Init => IInv
  <1> SUFFICES ASSUME Init PROVE IInv
    OBVIOUS
  <1>1. bat \in 0..Full /\ soc \in 0..Full
    <2>1. CASE gaugeOk
      BY <2>1 DEF Init
    <2>2. CASE ~gaugeOk
      BY <2>2 DEF Init
    <2> QED
      BY <2>1, <2>2
  <1>2. charge \in Charges
    BY DEF Init, ChargeStates
  <1>3. power \in Powers
    BY DEF Init, BootPower
  <1>4. TypeOK
    <2>1. 0 \in 0..(InteractionTimeout + 1)
      OBVIOUS
    <2> QED
      BY <1>1, <1>2, <1>3, <2>1 DEF Init, TypeOK
  <1>5. IdleBounded /\ NeverDeep /\ AlarmIsReal
    BY DEF Init, IdleBounded, NeverDeep, AlarmIsReal
  <1> QED
    BY <1>4, <1>5 DEF IInv

(* The world changes nothing that the tasks own.                           *)
LEMMA WorldStep ==
  ASSUME IInv, Drain \/ Recharge \/ DockOrLeave PROVE IInv'
  <1>1. TypeOK'
    <2>1. CASE Drain
      <3>1. soc' \in 0..Full
        BY <2>1 DEF IInv, TypeOK, Drain
      <3> QED
        BY <2>1, <3>1 DEF IInv, TypeOK, Drain
    <2>2. CASE Recharge
      <3>1. soc' \in 0..Full
        BY <2>2 DEF IInv, TypeOK, Recharge
      <3> QED
        BY <2>2, <3>1 DEF IInv, TypeOK, Recharge
    <2>3. CASE DockOrLeave
      BY <2>3 DEF IInv, TypeOK, DockOrLeave
    <2> QED
      BY <2>1, <2>2, <2>3
  <1>2. IdleBounded' /\ NeverDeep' /\ AlarmIsReal'
    BY DEF IInv, IdleBounded, NeverDeep, AlarmIsReal, Drain, Recharge, DockOrLeave
  <1> QED
    BY <1>1, <1>2 DEF IInv

(* The steps of a poll that only look.                                     *)
LEMMA LookStep ==
  ASSUME IInv, (\E answers \in BOOLEAN : Measure(answers)) \/ FirstLook \/ SecondLook
  PROVE IInv'
  <1>1. CASE \E answers \in BOOLEAN : Measure(answers)
    <2> PICK answers \in BOOLEAN : Measure(answers)
      BY <1>1
    <2>1. TypeOK'
      BY DEF IInv, TypeOK, Measure
    <2>2. IdleBounded'
      BY DEF IInv, TypeOK, IdleBounded, Measure
    <2>3. NeverDeep' /\ AlarmIsReal'
      BY DEF IInv, NeverDeep, AlarmIsReal, Measure
    <2> QED
      BY <2>1, <2>2, <2>3 DEF IInv
  <1>2. CASE FirstLook \/ SecondLook
    <2>1. charge' \in Charges
      BY <1>2, ChargeStatesType DEF IInv, FirstLook, SecondLook
    <2>2. TypeOK'
      <3>1. CASE FirstLook
        BY <2>1, <3>1 DEF IInv, TypeOK, FirstLook
      <3>2. CASE SecondLook
        <4>1. docked' \in BOOLEAN
          BY <3>2 DEF SecondLook
        <4>2. pc' = "ready" /\ level \notin {"light", "deep"}
          BY <3>2 DEF IInv, TypeOK, SecondLook
        <4> QED
          BY <2>1, <3>2, <4>1, <4>2 DEF IInv, TypeOK, SecondLook
      <3> QED
        BY <1>2, <3>1, <3>2
    <2>3. IdleBounded' /\ NeverDeep' /\ AlarmIsReal'
      BY <1>2 DEF IInv, IdleBounded, NeverDeep, AlarmIsReal, FirstLook, SecondLook
    <2> QED
      BY <2>2, <2>3 DEF IInv
  <1> QED
    BY <1>1, <1>2

(* A robot that was idle for longer than the light sleep timeout goes to   *)
(* light sleep, for it cannot have been idle for as long as deep sleep     *)
(* asks.                                                                   *)
LEMMA DueStep ==
  ASSUME TypeOK, idle <= LightTimeout + 1, level \notin {"light", "deep"}
  PROVE  /\ Due(idle, level, bat) \in {"active", "idle", "light"}
         /\ idle > LightTimeout => Due(idle, level, bat) = "light"
  <1>1. idle \in Nat /\ ~IsIdle(idle, DeepTimeout)
    BY DEF TypeOK, IsIdle
  <1> QED
    BY <1>1 DEF Due, IsIdle, TypeOK

LEMMA SleepStep ==
  ASSUME IInv,
         StayAwake \/ (\E commandWaits \in BOOLEAN : Escalate(commandWaits)) \/ Wake
  PROVE IInv'
  <1>1. CASE StayAwake \/ Wake
    <2>1. level' = "active" /\ idle' = 0 /\ pc' = "awake"
      BY <1>1 DEF StayAwake, Wake, ReportActivity
    <2>2. TypeOK'
      BY <1>1, <2>1 DEF IInv, TypeOK, StayAwake, Wake
    <2>3. IdleBounded' /\ NeverDeep'
      BY <2>1 DEF IdleBounded, NeverDeep
    <2>4. AlarmIsReal'
      BY <1>1 DEF IInv, AlarmIsReal, StayAwake, Wake
    <2> QED
      BY <2>2, <2>3, <2>4 DEF IInv
  <1>2. CASE \E commandWaits \in BOOLEAN : Escalate(commandWaits)
    <2> PICK commandWaits \in BOOLEAN : Escalate(commandWaits)
      BY <1>2
    <2>1. level \notin {"light", "deep"} /\ idle <= LightTimeout + 1 /\ idle \in Nat
      BY DEF IInv, TypeOK, IdleBounded, Escalate
    <2>2. /\ level' \in {"active", "idle", "light"}
          /\ idle' \in Nat /\ idle' <= LightTimeout + 1
          /\ level' # "light" => idle' <= LightTimeout
      <3>1. CASE commandWaits
        BY <3>1 DEF Escalate, ReportActivity
      <3>2. CASE ~commandWaits
        BY <2>1, <3>2, DueStep DEF Escalate, IInv
      <3> QED
        BY <3>1, <3>2
    <2>3. TypeOK'
      BY <2>2 DEF IInv, TypeOK, Escalate
    <2>4. IdleBounded' /\ NeverDeep'
      BY <2>2 DEF IdleBounded, NeverDeep, Escalate
    <2>5. AlarmIsReal'
      BY DEF IInv, AlarmIsReal, Escalate
    <2> QED
      BY <2>3, <2>4, <2>5 DEF IInv
  <1> QED
    BY <1>1, <1>2

LEMMA StateStep ==
  ASSUME IInv, Transit \/ Publish PROVE IInv'
  <1>1. CASE Transit
    <2>1. power' \in Powers
      BY <1>1 DEF Transit, NextPower
    <2>2. /\ level' \in {"active", "idle"}
          /\ idle' \in Nat /\ idle' <= LightTimeout
      BY <1>1 DEF IInv, TypeOK, IdleBounded, Transit, ReportActivity
    <2>3. TypeOK'
      BY <1>1, <2>1, <2>2 DEF IInv, TypeOK, Transit
    <2>4. IdleBounded' /\ NeverDeep'
      BY <2>2 DEF IdleBounded, NeverDeep
    <2>5. AlarmIsReal'
      BY <1>1 DEF AlarmIsReal, Transit
    <2> QED
      BY <2>3, <2>4, <2>5 DEF IInv
  <1>2. CASE Publish
    <2>1. /\ evg' \subseteq {"low", "emergency"}
          /\ "emergency" \in evg' => power = "critical"
      BY <1>2 DEF Publish, BitsOf
    <2>2. TypeOK'
      BY <1>2, <2>1 DEF IInv, TypeOK, Publish
    <2>3. IdleBounded' /\ NeverDeep'
      BY <1>2 DEF IInv, IdleBounded, NeverDeep, Publish
    <2>4. AlarmIsReal'
      BY <1>2, <2>1 DEF AlarmIsReal, Publish
    <2> QED
      BY <2>2, <2>3, <2>4 DEF IInv
  <1> QED
    BY <1>1, <1>2

LEMMA BehaveStep ==
  ASSUME IInv, NEW touched \in BOOLEAN, Behave(touched) PROVE IInv'
  <1>1. Overridden(behavior) \in {"idle", "interacting", "charging", "alert"}
    BY DEF IInv, TypeOK, Overridden
  <1>2. behavior' \in {"idle", "interacting", "charging", "alert"}
    BY <1>1 DEF Behave, Reaction
  <1>3. quiet' \in 0..(InteractionTimeout + 1)
    BY DEF IInv, TypeOK, Behave
  <1>4. TypeOK'
    BY <1>2, <1>3 DEF IInv, TypeOK, Behave
  <1>5. IdleBounded' /\ NeverDeep' /\ AlarmIsReal'
    BY DEF IInv, IdleBounded, NeverDeep, AlarmIsReal, Behave
  <1> QED
    BY <1>4, <1>5 DEF IInv

LEMMA NextIInv == IInv /\ [Next]_vars => IInv'
  <1> SUFFICES ASSUME IInv, [Next]_vars PROVE IInv'
    OBVIOUS
  <1>1. CASE Drain \/ Recharge \/ DockOrLeave
    BY <1>1, WorldStep
  <1>2. CASE Poll
    BY <1>2, LookStep, SleepStep, StateStep DEF Poll
  <1>3. CASE \E touched \in BOOLEAN : Behave(touched)
    BY <1>3, BehaveStep
  <1>4. CASE UNCHANGED vars
    BY <1>4 DEF vars, IInv, TypeOK, IdleBounded, NeverDeep, AlarmIsReal
  <1> QED
    BY <1>1, <1>2, <1>3, <1>4 DEF Next

THEOREM Invariance == Spec => []IInv
  BY InitIInv, NextIInv, PTL DEF Spec

(* The variables of power_mgr.c, battery.c, charging.c and behavior.c keep *)
(* their types; a poll is asleep exactly at the sleep levels.              *)
THEOREM TypeCorrect == Spec => []TypeOK
  BY Invariance, PTL DEF IInv

(* The deep sleep that power_mgr.c:15 and config.h:137 announce after 60   *)
(* minutes is out of reach, for any timeouts in the order of config.h:     *)
(* what IdleBounded says leaves no poll that finds a robot idle for longer *)
(* than the light sleep timeout by more than itself.                       *)
THEOREM DeepSleepUnreachable == Spec => []NeverDeep
  BY Invariance, PTL DEF IInv

(* A robot is put to light sleep by the first poll after its timeout,      *)
(* whatever it did before (the escalation of task_power_mgr).              *)
THEOREM SleepsInTime == Spec => []IdleBounded
  BY Invariance, PTL DEF IInv

(* The alert behaviour is entered only between the write of g_power_state  *)
(* that left critical and the update of the bits.                          *)
THEOREM AlertNeedsTheWindow == Spec => AlertIsAWindow
  <1> DEFINE Window ==
        behavior # "alert" /\ behavior' = "alert" => pc = "bits" /\ power # "critical"
  <1>1. IInv /\ [Next]_vars => [Window]_vars
    <2> SUFFICES ASSUME IInv, Next, behavior # "alert", behavior' = "alert"
                 PROVE pc = "bits" /\ power # "critical"
      OBVIOUS
    <2>1. PICK touched \in BOOLEAN : Behave(touched)
      BY DEF Next, Drain, Recharge, DockOrLeave, Poll, Measure, FirstLook, SecondLook,
             StayAwake, Escalate, Wake, Transit, Publish
    <2>2. Overridden(behavior) = "alert"
      BY <2>1 DEF Behave, Reaction
    <2>3. power # "critical" /\ "emergency" \in evg
      BY <2>2 DEF Overridden
    <2> QED
      BY <2>3 DEF IInv, AlarmIsReal
  <1> QED
    BY <1>1, Invariance, PTL DEF Spec, AlertIsAWindow
=============================================================================
