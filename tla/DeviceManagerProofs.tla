------------------------ MODULE DeviceManagerProofs ------------------------
(***************************************************************************)
(* Proofs, for any set of robots and any number of faults, that the device *)
(* manager keeps its types and forgets no announcement.                    *)
(***************************************************************************)
EXTENDS DeviceManagerProps, TLAPS

IInv == TypeOK /\ OfflineIsTold

USE DEF cache, subscriber, monitor

LEMMA InitIInv == Init => IInv
  BY DeviceAssumption DEF Init, IInv, TypeOK, OfflineIsTold

(* The world's steps. *)
LEMMA WorldStep ==
  ASSUME IInv, NEW r \in Robots,
         Switch(r) \/ Age(r) \/ Expire(r) \/ RegisterRobot(r) \/ DeleteRobot(r)
  PROVE  IInv'
  <1> USE DeviceAssumption DEF IInv, TypeOK, OfflineIsTold
  <1>1. CASE Switch(r)
    BY <1>1 DEF Switch
  <1>2. CASE Age(r)
    BY <1>2 DEF Age
  <1>3. CASE Expire(r)
    BY <1>3 DEF Expire
  <1>4. CASE RegisterRobot(r)
    BY <1>4 DEF RegisterRobot
  <1>5. CASE DeleteRobot(r)
    BY <1>5 DEF DeleteRobot
  <1> QED
    BY <1>1, <1>2, <1>3, <1>4, <1>5

LEMMA SubscriberStep ==
  ASSUME IInv,
         (\E r \in Robots : Receive(r)) \/ Subscriber
           \/ SetOnlineFault \/ UpdateHeartbeatFault
  PROVE  IInv'
  <1> USE DeviceAssumption DEF IInv, TypeOK, OfflineIsTold
  <1>1. ASSUME NEW r \in Robots, Receive(r) PROVE IInv'
    BY <1>1 DEF Receive
  <1>2. CASE SetKey
    BY <1>2 DEF SetKey
  <1>3. CASE AddOnline
    BY <1>3 DEF AddOnline
  <1>4. CASE ArmTtl
    BY <1>4 DEF ArmTtl
  <1>5. CASE UpdateHeartbeat
    BY <1>5 DEF UpdateHeartbeat, Refreshes, ToWaiting
  <1>6. CASE SetOnlineFault
    BY <1>6 DEF SetOnlineFault, Fault
  <1>7. CASE UpdateHeartbeatFault
    BY <1>7 DEF UpdateHeartbeatFault, Fault, ToWaiting
  <1> QED
    BY <1>1, <1>2, <1>3, <1>4, <1>5, <1>6, <1>7 DEF Subscriber

LEMMA MonitorStep ==
  ASSUME IInv, Monitor PROVE IInv'
  <1> USE DeviceAssumption DEF IInv, TypeOK, OfflineIsTold
  <1>1. CASE Scan
    BY <1>1 DEF Scan
  <1>2. ASSUME NEW r \in Robots, Check(r) PROVE IInv'
    BY <1>2 DEF Check
  <1>3. CASE RemoveOnline
    BY <1>3 DEF RemoveOnline, Goto
  <1>4. CASE DeleteKey
    BY <1>4 DEF DeleteKey, Goto
  <1>5. CASE MarkOffline
    BY <1>5 DEF MarkOffline, Goto
  <1>6. CASE Publish
    BY <1>6 DEF Publish, Announce, ToNextMember
  <1>7. CASE EndPass
    BY <1>7 DEF EndPass
  <1> QED
    BY <1>1, <1>2, <1>3, <1>4, <1>5, <1>6, <1>7 DEF Monitor

LEMMA MonitorFaultStep ==
  ASSUME IInv,
         SetOfflineFault \/ MarkOfflineFault \/ PublishFault \/ Crash
           \/ (\E r \in Robots : CheckFault(r))
  PROVE  IInv'
  <1> USE DeviceAssumption DEF IInv, TypeOK, OfflineIsTold, Fault
  <1>1. CASE SetOfflineFault
    BY <1>1 DEF SetOfflineFault, Goto
  <1>2. CASE MarkOfflineFault
    BY <1>2 DEF MarkOfflineFault, Goto
  <1>3. CASE PublishFault
    BY <1>3 DEF PublishFault, ToNextMember
  <1>4. CASE Crash
    BY <1>4 DEF Crash
  <1>5. ASSUME NEW r \in Robots, CheckFault(r) PROVE IInv'
    BY <1>5 DEF CheckFault
  <1> QED
    BY <1>1, <1>2, <1>3, <1>4, <1>5

LEMMA StepIInv == IInv /\ [Next]_vars => IInv'
  <1> SUFFICES ASSUME IInv, [Next]_vars PROVE IInv'
    OBVIOUS
  <1>1. CASE UNCHANGED vars
    BY <1>1 DEF vars, IInv, TypeOK, OfflineIsTold
  <1>2. CASE Next
    BY <1>2, WorldStep, SubscriberStep, MonitorStep, MonitorFaultStep DEF Next, Faulty
  <1> QED
    BY <1>1, <1>2

(* The strengthened invariant holds in every reachable state. *)
THEOREM Invariance == Spec => []IInv
  BY InitIInv, StepIInv, PTL DEF Spec

(* Every variable keeps its type, and only an existing key has a TTL. *)
THEOREM TypeCorrect == Spec => []TypeOK
  <1>1. IInv => TypeOK
    BY DEF IInv
  <1> QED
    BY <1>1, Invariance, PTL

(* A robot that stands offline was announced since it was last online.     *)
THEOREM OfflineStaysTold == Spec => []OfflineIsTold
  <1>1. IInv => OfflineIsTold
    BY DEF IInv
  <1> QED
    BY <1>1, Invariance, PTL
=============================================================================
