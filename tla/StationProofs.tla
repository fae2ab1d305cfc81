---------------------------- MODULE StationProofs ----------------------------
(***************************************************************************)
(* Proofs about the charging station, for any voltages, delays, intervals  *)
(* and depth of the queue.  The inductive invariant adds that contacts     *)
(* which count as steady have the voltage of a robot; one more, on top of  *)
(* it, says how far the light is painted at each place of the loop.        *)
(***************************************************************************)
EXTENDS StationProps, TLAPS

TypeCharge ==
  /\ level \in Levels /\ steady \in BOOLEAN
  /\ state \in ChargeStates /\ docked \in BOOLEAN /\ since \in 0..(Precharge + 1) /\ out \in BOOLEAN
TypeLoop ==
  /\ loop \in {"wait", "red", "green", "blue", "end"} /\ colour \in Colours
  /\ turns \in 0..(ReportEvery - 1) /\ led \in Colours /\ blink \in BOOLEAN /\ beacon \in BOOLEAN
TypeReporter ==
  /\ wifi \in BOOLEAN /\ gateway \in BOOLEAN /\ ev \in BOOLEAN
  /\ reporter \in {"starting", "receive", "send"}
  /\ sock \in {"none", "open", "dead", "reset"}
TypeQueue == queue \in Seq(BOOLEAN) /\ Len(queue) <= QueueDepth

LEMMA TypeParts == TypeOK <=> TypeCharge /\ TypeLoop /\ TypeReporter /\ TypeQueue
  BY DEF TypeOK, TypeCharge, TypeLoop, TypeReporter, TypeQueue

SteadyTouches == steady => state # "idle" /\ Touching(level)
IInv == TypeOK /\ PowerFollowsState /\ SteadyTouches

-----------------------------------------------------------------------------
(* Helpers.                                                                *)

(* What a tick does to the controller, whichever way it goes.              *)
Controlled(v, i) == Changes(v, i) \/ Stays(v, i)

LEMMA QueuedIn ==
  ASSUME NEW S, NEW q \in Seq(S), Len(q) <= QueueDepth, NEW r \in S
  PROVE  Queued(q, r) \in Seq(S) /\ Len(Queued(q, r)) <= QueueDepth
  BY StationAssumption DEF Queued

LEMMA ColoursIn ==
  /\ {IdleColour, Connecting, Charging, Faulty, Dark, Blinking["complete"], Blinking["fault"]} \subseteq Colours
  BY DEF IdleColour, Connecting, Charging, Faulty, Dark, Blinking, Colours, Parts

LEMMA ControlledTypes ==
  ASSUME TypeCharge, NEW v, NEW i, Controlled(v, i)
  PROVE  state' \in ChargeStates /\ docked' \in BOOLEAN /\ since' \in 0..(Precharge + 1) /\ out' \in BOOLEAN
  <1>1. CASE Found(v)
    BY <1>1, StationAssumption DEF Found, TypeCharge, ChargeStates
  <1>2. CASE Enable
    BY <1>2 DEF Enable, TypeCharge, ChargeStates
  <1>3. CASE Fault(i)
    BY <1>3 DEF Fault, TypeCharge, ChargeStates
  <1>4. CASE Complete(i)
    BY <1>4 DEF Complete, TypeCharge, ChargeStates
  <1>5. CASE Leave(v, i)
    BY <1>5 DEF Leave, TypeCharge, ChargeStates
  <1>6. CASE Stays(v, i)
    BY <1>6 DEF Stays, TypeCharge
  <1> QED BY <1>1, <1>2, <1>3, <1>4, <1>5, <1>6 DEF Controlled, Changes

LEMMA ControlledPower ==
  ASSUME TypeCharge, PowerFollowsState, NEW v, NEW i, Controlled(v, i)
  PROVE  PowerFollowsState'
  <1>1. CASE Found(v)
    BY <1>1 DEF Found, PowerFollowsState
  <1>2. CASE Enable
    BY <1>2 DEF Enable, PowerFollowsState
  <1>3. CASE Fault(i)
    BY <1>3 DEF Fault, PowerFollowsState
  <1>4. CASE Complete(i)
    BY <1>4 DEF Complete, PowerFollowsState
  <1>5. CASE Leave(v, i)
    BY <1>5 DEF Leave, PowerFollowsState
  <1>6. CASE Stays(v, i)
    BY <1>6 DEF Stays, PowerFollowsState
  <1> QED BY <1>1, <1>2, <1>3, <1>4, <1>5, <1>6 DEF Controlled, Changes

(* Only a robot that leaves, or none, brings the idle state; a robot that  *)
(* leaves has its contacts open, one that is found has them touch.         *)
LEMMA ControlledIdle ==
  ASSUME TypeCharge, NEW v, NEW i, Controlled(v, i)
  PROVE  /\ state = "idle" /\ state' = "docked" => Touching(v)
         /\ state # "idle" /\ state' = "idle" => Open(v)
  <1>1. CASE Found(v)
    BY <1>1 DEF Found
  <1>2. CASE Enable
    BY <1>2 DEF Enable
  <1>3. CASE Fault(i)
    BY <1>3 DEF Fault
  <1>4. CASE Complete(i)
    BY <1>4 DEF Complete
  <1>5. CASE Leave(v, i)
    BY <1>5 DEF Leave
  <1>6. CASE Stays(v, i)
    BY <1>6 DEF Stays
  <1> QED BY <1>1, <1>2, <1>3, <1>4, <1>5, <1>6 DEF Controlled, Changes

LEMMA TickIs ==
  ASSUME Tick
  PROVE  /\ level' \in Levels /\ Controlled(level, level')
         /\ steady' = (level' = level /\ (steady \/ (state = "idle" /\ state' = "docked")))
  BY DEF Tick, Controlled

-----------------------------------------------------------------------------
(* Type correctness and power.                                             *)

LEMMA InvInit == Init => IInv
  <1> SUFFICES ASSUME Init PROVE IInv
    OBVIOUS
  <1>1. TypeCharge
    <2>1. since \in 0..(Precharge + 1)
      BY StationAssumption DEF Init
    <2>2. level \in Levels /\ steady \in BOOLEAN /\ state \in ChargeStates /\ docked \in BOOLEAN /\ out \in BOOLEAN
      BY Zenon DEF Init, ChargeStates
    <2> QED BY <2>1, <2>2 DEF TypeCharge
  <1>2. TypeLoop
    <2>1. turns \in 0..(ReportEvery - 1)
      BY StationAssumption DEF Init
    <2>2. led \in Colours /\ colour \in Colours
      BY ColoursIn DEF Init
    <2>3. loop \in {"wait", "red", "green", "blue", "end"} /\ blink \in BOOLEAN /\ beacon \in BOOLEAN
      BY Zenon DEF Init
    <2> QED BY <2>1, <2>2, <2>3 DEF TypeLoop
  <1>3. TypeReporter /\ TypeQueue
    <2>1. queue = <<>> /\ wifi = FALSE /\ gateway \in BOOLEAN /\ ev \in BOOLEAN /\ reporter = "starting" /\ sock = "none"
      BY Zenon DEF Init
    <2>2. TypeReporter
      BY <2>1, Zenon DEF TypeReporter
    <2>3. TypeQueue
      BY <2>1, StationAssumption DEF TypeQueue
    <2> QED BY <2>2, <2>3
  <1>4. PowerFollowsState /\ SteadyTouches
    BY DEF Init, PowerFollowsState, SteadyTouches
  <1> QED BY <1>1, <1>2, <1>3, <1>4, TypeParts DEF IInv

LEMMA TickKeeps ==
  ASSUME TypeCharge, TypeLoop, PowerFollowsState, SteadyTouches, Tick
  PROVE  TypeCharge' /\ TypeLoop' /\ PowerFollowsState' /\ SteadyTouches'
  <1>1. /\ level' \in Levels /\ Controlled(level, level')
        /\ steady' = (level' = level /\ (steady \/ (state = "idle" /\ state' = "docked")))
    BY TickIs
  <1>2. TypeCharge'
    <2>1. steady' \in BOOLEAN
      BY <1>1
    <2> QED BY <1>1, <2>1, ControlledTypes DEF TypeCharge
  <1>3. PowerFollowsState'
    BY <1>1, ControlledPower
  <1>4. SteadyTouches'
    <2>1. CASE steady' /\ steady
      <3>1. Touching(level) /\ level' = level /\ state # "idle" /\ level \in Nat
        BY <1>1, <2>1, StationAssumption DEF SteadyTouches, TypeCharge
      <3>2. ~Open(level)
        BY <3>1 DEF Touching, Open
      <3> QED BY <1>1, <3>1, <3>2, ControlledIdle DEF SteadyTouches
    <2>2. CASE steady' /\ ~steady
      BY <1>1, <2>2, ControlledIdle DEF SteadyTouches
    <2> QED BY <2>1, <2>2 DEF SteadyTouches
  <1>5. Shown(state') \in Colours /\ Dark \in Colours
    BY ColoursIn DEF Shown
  <1>6. TypeLoop'
    BY <1>5 DEF Tick, TypeLoop
  <1> QED BY <1>2, <1>3, <1>4, <1>6

LEMMA PaintKeeps ==
  ASSUME TypeLoop, Paint
  PROVE  TypeLoop'
  <1>1. Channel[loop] \in 1..3 /\ After[loop] \in {"green", "blue", "end"}
    BY DEF Paint, Channel, After
  <1>2. colour[Channel[loop]] \in Parts
    BY <1>1 DEF TypeLoop, Colours
  <1>3. led' \in Colours
    BY <1>1, <1>2 DEF Paint, TypeLoop, Colours
  <1>4. colour' \in Colours
    BY ColoursIn DEF Paint, TypeLoop
  <1> QED BY <1>1, <1>3, <1>4 DEF Paint, TypeLoop

LEMMA FinishKeeps ==
  ASSUME TypeCharge, TypeLoop, TypeQueue, PowerFollowsState, Finish
  PROVE  TypeCharge' /\ TypeLoop' /\ TypeQueue' /\ PowerFollowsState'
  <1>1. \A d \in Late : Capped(since + d) \in 0..(Precharge + 1)
    BY StationAssumption DEF Capped, TypeCharge
  <1>2. since' \in 0..(Precharge + 1) /\ (state # "docked" => since' = since)
    BY <1>1 DEF Finish, Aged, TypeCharge
  <1>3. TypeCharge' /\ PowerFollowsState'
    BY <1>2 DEF Finish, TypeCharge, PowerFollowsState
  <1>4. turns' \in 0..(ReportEvery - 1)
    BY StationAssumption DEF Finish, TypeLoop
  <1>5. TypeLoop'
    BY <1>4 DEF Finish, TypeLoop
  <1>6. Queued(queue, state = "fault") \in Seq(BOOLEAN) /\ Len(Queued(queue, state = "fault")) <= QueueDepth
    <2>1. (state = "fault") \in BOOLEAN
      OBVIOUS
    <2> QED BY <2>1, QueuedIn DEF TypeQueue
  <1>7. TypeQueue'
    BY <1>6 DEF Finish, TypeQueue
  <1> QED BY <1>3, <1>5, <1>7

LEMMA ReporterKeeps ==
  ASSUME TypeReporter, TypeQueue, ReporterTurn
  PROVE  TypeReporter' /\ TypeQueue'
  <1>1. CASE Started
    BY <1>1 DEF Started, Report, Connected, TypeReporter, TypeQueue
  <1>2. CASE Receive
    <2>1. CASE queue = <<>>
      BY <1>2, <2>1 DEF Receive, Report, TypeReporter, TypeQueue
    <2>2. CASE queue # <<>>
      <3>1. Head(queue) \in BOOLEAN /\ Tail(queue) \in Seq(BOOLEAN) /\ Len(Tail(queue)) <= QueueDepth
        BY <2>2, StationAssumption DEF TypeQueue
      <3> QED BY <1>2, <2>2, <3>1 DEF Receive, Report, TypeReporter, TypeQueue
    <2> QED BY <2>1, <2>2
  <1>3. CASE Send
    BY <1>3 DEF Send, Report, Connected, AfterSend, TypeReporter, TypeQueue
  <1> QED BY <1>1, <1>2, <1>3 DEF ReporterTurn

LEMMA InvNext == IInv /\ [Next]_vars => IInv'
  <1> SUFFICES ASSUME IInv, [Next]_vars PROVE IInv'
    OBVIOUS
  <1>1. TypeCharge /\ TypeLoop /\ TypeReporter /\ TypeQueue /\ PowerFollowsState /\ SteadyTouches
    BY TypeParts DEF IInv
  <1>2. SUFFICES TypeCharge' /\ TypeLoop' /\ TypeReporter' /\ TypeQueue' /\ PowerFollowsState' /\ SteadyTouches'
    BY DEF IInv, TypeOK, TypeCharge, TypeLoop, TypeReporter, TypeQueue
  <1>3. UNCHANGED chargeVars => TypeCharge' /\ PowerFollowsState' /\ SteadyTouches'
    BY <1>1 DEF chargeVars, TypeCharge, PowerFollowsState, SteadyTouches, Touching
  <1>4. UNCHANGED loopVars => TypeLoop'
    BY <1>1 DEF loopVars, TypeLoop
  <1>5. UNCHANGED <<wifi, gateway, reportVars>> => TypeReporter'
    BY <1>1 DEF reportVars, TypeReporter
  <1>6. UNCHANGED queue => TypeQueue'
    BY <1>1 DEF TypeQueue
  <1>7. CASE Tick
    <2>1. UNCHANGED <<wifi, gateway, reportVars>> /\ UNCHANGED queue
      BY <1>7 DEF Tick
    <2> QED BY <1>1, <1>5, <1>6, <1>7, <2>1, TickKeeps
  <1>8. CASE Paint
    <2>1. UNCHANGED chargeVars /\ UNCHANGED <<wifi, gateway, reportVars>> /\ UNCHANGED queue
      BY <1>8 DEF Paint
    <2> QED BY <1>1, <1>3, <1>5, <1>6, <1>8, <2>1, PaintKeeps
  <1>9. CASE Finish
    <2>1. UNCHANGED <<wifi, gateway, reportVars>> /\ UNCHANGED <<level, steady, state>>
      BY <1>9 DEF Finish
    <2>2. SteadyTouches'
      BY <1>1, <2>1 DEF SteadyTouches, Touching
    <2> QED BY <1>1, <1>5, <1>9, <2>1, <2>2, FinishKeeps
  <1>10. CASE Blink
    <2>1. led' \in Colours /\ blink' \in BOOLEAN
      BY <1>10, ColoursIn DEF Blink, Blinking
    <2>2. TypeLoop'
      BY <1>1, <1>10, <2>1 DEF Blink, TypeLoop
    <2>3. UNCHANGED chargeVars /\ UNCHANGED <<wifi, gateway, reportVars>> /\ UNCHANGED queue
      BY <1>10 DEF Blink
    <2> QED BY <1>3, <1>5, <1>6, <2>2, <2>3
  <1>11. CASE WifiEvent
    <2>1. UNCHANGED chargeVars /\ UNCHANGED loopVars /\ UNCHANGED queue /\ UNCHANGED <<gateway, reportVars>> /\ wifi' \in BOOLEAN
      BY <1>11 DEF WifiEvent
    <2>2. TypeReporter'
      BY <1>1, <2>1 DEF TypeReporter, reportVars
    <2> QED BY <1>3, <1>4, <1>6, <2>1, <2>2
  <1>12. CASE ReporterTurn
    <2>1. UNCHANGED chargeVars /\ UNCHANGED loopVars
      BY <1>12 DEF ReporterTurn, Started, Receive, Send, Report
    <2> QED BY <1>1, <1>3, <1>4, <1>12, <2>1, ReporterKeeps
  <1>13. CASE Contact
    <2>1. UNCHANGED loopVars /\ UNCHANGED <<wifi, gateway, reportVars>> /\ UNCHANGED queue
      BY <1>13 DEF Contact
    <2>2. TypeCharge' /\ PowerFollowsState' /\ SteadyTouches'
      BY <1>1, <1>13 DEF Contact, TypeCharge, PowerFollowsState, SteadyTouches
    <2> QED BY <1>4, <1>5, <1>6, <2>1, <2>2
  <1>14. CASE Authenticate \/ Outage \/ PeerReset
    <2>1. UNCHANGED chargeVars /\ UNCHANGED loopVars /\ UNCHANGED queue
      BY <1>14 DEF Authenticate, Outage, PeerReset
    <2>2. TypeReporter'
      BY <1>1, <1>14 DEF Authenticate, Outage, PeerReset, TypeReporter
    <2> QED BY <1>3, <1>4, <1>6, <2>1, <2>2
  <1>15. CASE UNCHANGED vars
    BY <1>3, <1>4, <1>5, <1>6, <1>15 DEF vars, reportVars
  <1> QED BY <1>7, <1>8, <1>9, <1>10, <1>11, <1>12, <1>13, <1>14, <1>15 DEF Next, Loop

(* Every variable keeps its type; the queue of reports never overfills.    *)
THEOREM TypeCorrect == Spec => []TypeOK
  BY InvInit, InvNext, PTL DEF Spec, IInv

(* The contacts have power exactly while the controller charges, which it  *)
(* does not before the delay.                                              *)
THEOREM PowerIsState == Spec => []PowerFollowsState
  BY InvInit, InvNext, PTL DEF Spec, IInv

-----------------------------------------------------------------------------
(* What a tick does to bad and to steady contacts.                         *)

LEMMA TicksAreTicks ==
  ASSUME [Next]_vars, Ticks
  PROVE  Tick
  BY DEF Next, Loop, Ticks, Paint, Finish, Blink, WifiEvent, ReporterTurn, Started, Receive, Send,
         Report, Authenticate, Contact, Outage, PeerReset, vars, loopVars, Channel

(* What a tick of a charging controller does with two equal readings.      *)
LEMMA ActiveTick ==
  ASSUME state = "active", NEW v, Controlled(v, v)
  PROVE  /\ Overload(v) => state' = "fault" /\ out' = FALSE
         /\ Open(v) => out' = FALSE
  <1>1. ~Found(v) /\ ~Enable
    BY DEF Found, Enable
  <1>2. CASE Fault(v)
    BY <1>2 DEF Fault
  <1>3. CASE Complete(v)
    BY <1>3 DEF Complete
  <1>4. CASE Leave(v, v)
    BY <1>4 DEF Leave
  <1>5. CASE Stays(v, v)
    BY <1>5 DEF Stays
  <1> QED BY <1>1, <1>2, <1>3, <1>4, <1>5 DEF Controlled, Changes

LEMMA BadStep ==
  ASSUME IInv, [Next]_vars, Ticks, out, level' = level, Open(level) \/ Overload(level)
  PROVE  ~out'
  <1>1. Controlled(level, level)
    BY TicksAreTicks, TickIs
  <1>2. state = "active"
    BY DEF IInv, PowerFollowsState
  <1> QED BY <1>1, <1>2, ActiveTick

(* Contacts that are open or overloaded through a tick have no power after *)
(* it.                                                                     *)
THEOREM BadContactsLosePower == Spec => BadContactsOff
  <1>1. IInv /\ [Next]_vars =>
          [Ticks /\ out /\ level' = level /\ (Open(level) \/ Overload(level)) => ~out']_vars
    BY BadStep
  <1> QED BY <1>1, InvInit, InvNext, PTL DEF Spec, BadContactsOff

LEMMA SteadyStep ==
  ASSUME IInv, [Next]_vars, Ticks, state = "active", steady, steady'
  PROVE  state' = "fault"
  <1>1. Controlled(level, level') /\ level' = level
    BY TicksAreTicks, TickIs
  <1>2. Touching(level) /\ level \in Nat
    BY StationAssumption DEF IInv, SteadyTouches, TypeOK
  <1>3. Overload(level)
    BY <1>2 DEF Touching, Overload
  <1> QED BY <1>1, <1>3, ActiveTick

(* What disagrees with charge_ctl.h:27 and :10: a robot whose contacts     *)
(* keep the voltage at which it was found is never charged beyond the      *)
(* first tick: that voltage, read as a current, is too much.               *)
THEOREM SteadyNeverCharges == Spec => SteadyFaults
  <1>1. IInv /\ [Next]_vars =>
          [Ticks /\ state = "active" /\ steady /\ steady' => state' = "fault"]_vars
    BY SteadyStep
  <1> QED BY <1>1, InvInit, InvNext, PTL DEF Spec, SteadyFaults
-----------------------------------------------------------------------------
(* The light.                                                              *)

(* The colours that the loop may have set in a state in which the blink    *)
(* task does not write.                                                    *)
Steadily == {"idle", "docked", "active"}
ColoursOf(s) == IF s = "idle" THEN {IdleColour, Connecting} ELSE {Charging}

(* In those states, channel after channel takes the colour that the turn   *)
(* began with, and a light that is not being painted has all of it.        *)
Painted ==
  state \in Steadily =>
    /\ loop \in {"red", "green", "blue"} => colour \in ColoursOf(state)
    /\ loop \in {"green", "blue"} => led[1] = colour[1]
    /\ loop = "blue" => led[2] = colour[2]
    /\ loop \in {"end", "wait"} => led \in ColoursOf(state)
BeaconKept == loop = "wait" => (beacon <=> state \notin {"active", "complete"})
LInv == IInv /\ Painted /\ BeaconKept

(* Two colours with the same channels are the same.                        *)
LEMMA SameColour ==
  ASSUME NEW c \in Colours, NEW d \in Colours, c[1] = d[1], c[2] = d[2], c[3] = d[3]
  PROVE  c = d
  <1>1. \A i \in 1..3 : c[i] = d[i]
    <2>1. \A i \in 1..3 : i = 1 \/ i = 2 \/ i = 3
      OBVIOUS
    <2> QED BY <2>1
  <1> QED BY <1>1 DEF Colours

LEMMA TickPaints ==
  ASSUME TypeCharge, Tick
  PROVE  Painted' /\ BeaconKept'
  <1>1. loop' = IF state' = "complete" THEN "end" ELSE "red"
    BY DEF Tick
  <1>2. BeaconKept'
    BY <1>1 DEF BeaconKept
  <1>3. state' \in Steadily => loop' = "red" /\ colour' \in ColoursOf(state')
    BY <1>1 DEF Tick, Steadily, ColoursOf, Shown
  <1> QED BY <1>2, <1>3 DEF Painted

LEMMA PaintPaints ==
  ASSUME TypeLoop, Painted, Paint
  PROVE  Painted' /\ BeaconKept'
  <1>1. loop \in {"red", "green", "blue"} /\ loop' = After[loop] /\ UNCHANGED state
        /\ led' = [led EXCEPT ![Channel[loop]] = colour[Channel[loop]]]
        /\ colour' = IF loop = "blue" THEN Dark ELSE colour
    BY DEF Paint, Channel, chargeVars
  <1>2. led \in [1..3 -> Parts]
    BY DEF TypeLoop, Colours
  <1>3. BeaconKept'
    BY <1>1 DEF BeaconKept, After
  <1>4. CASE loop = "red"
    <2>1. loop' = "green" /\ colour' = colour /\ led'[1] = colour[1]
      BY <1>1, <1>2, <1>4 DEF After, Channel
    <2> QED BY <1>1, <1>3, <1>4, <2>1 DEF Painted
  <1>5. CASE loop = "green"
    <2>1. loop' = "blue" /\ colour' = colour /\ led'[1] = led[1] /\ led'[2] = colour[2]
      BY <1>1, <1>2, <1>5 DEF After, Channel
    <2> QED BY <1>1, <1>3, <1>5, <2>1 DEF Painted
  <1>6. CASE loop = "blue"
    <2>1. loop' = "end" /\ led'[1] = led[1] /\ led'[2] = led[2] /\ led'[3] = colour[3]
      BY <1>1, <1>2, <1>6 DEF After, Channel
    <2>2. led' \in Colours /\ colour \in Colours
      BY PaintKeeps DEF TypeLoop
    <2>3. state \in Steadily => led' = colour
      BY <1>6, <2>1, <2>2, SameColour DEF Painted
    <2> QED BY <1>1, <1>3, <1>6, <2>1, <2>3 DEF Painted
  <1> QED BY <1>1, <1>3, <1>4, <1>5, <1>6

LEMMA LightInit == Init => LInv
  <1> SUFFICES ASSUME Init PROVE LInv
    OBVIOUS
  <1>1. Painted /\ BeaconKept
    BY DEF Init, Painted, BeaconKept, ColoursOf
  <1> QED BY <1>1, InvInit DEF LInv

LEMMA LightNext == LInv /\ [Next]_vars => LInv'
  <1> SUFFICES ASSUME LInv, [Next]_vars PROVE LInv'
    OBVIOUS
  <1>1. TypeCharge /\ TypeLoop /\ Painted /\ BeaconKept /\ IInv'
    BY InvNext, TypeParts DEF LInv, IInv
  <1>2. SUFFICES Painted' /\ BeaconKept'
    BY <1>1 DEF LInv
  <1>3. CASE Tick
    BY <1>1, <1>3, TickPaints
  <1>4. CASE Paint
    BY <1>1, <1>4, PaintPaints
  <1>5. CASE Finish
    <2>1. loop = "end" /\ loop' = "wait" /\ UNCHANGED <<state, colour, led>>
          /\ beacon' = (state \notin {"active", "complete"})
      BY <1>5 DEF Finish
    <2> QED BY <1>1, <2>1 DEF Painted, BeaconKept
  <1>6. CASE Blink
    <2>1. state \notin Steadily /\ UNCHANGED <<state, loop, beacon>>
      BY <1>6 DEF Blink, Blinking, Steadily, chargeVars
    <2> QED BY <1>1, <2>1 DEF Painted, BeaconKept
  <1>7. CASE UNCHANGED <<state, loopVars>>
    BY <1>1, <1>7 DEF loopVars, Painted, BeaconKept
  <1>8. Tick \/ Paint \/ Finish \/ Blink \/ UNCHANGED <<state, loopVars>>
    BY DEF Next, Loop, WifiEvent, ReporterTurn, Started, Receive, Send, Report, Authenticate, Contact, Outage, PeerReset,
           vars, chargeVars
  <1> QED BY <1>3, <1>4, <1>5, <1>6, <1>7, <1>8

(* While the loop waits the beacon is off exactly in the states of         *)
(* charging, and outside the states that blink the light has one whole     *)
(* colour, the one of its state, whenever the blink task woke.             *)
THEOREM LightIsWhole == Spec => []ShownWhileWaiting
  <1>1. LInv => ShownWhileWaiting
    BY DEF LInv, Painted, BeaconKept, ShownWhileWaiting, Steadily, ColoursOf
  <1> QED BY <1>1, LightInit, LightNext, PTL DEF Spec
=============================================================================
