-------------------------- MODULE SchedulerProofs --------------------------
(***************************************************************************)
(* Proofs, for any number of tasks, robots, clients, faults and offline    *)
(* robots, of the safety properties of the scheduler.                      *)
(***************************************************************************)
EXTENDS SchedulerProps, TLAPS

(* Every task an activity has in hand was created. *)
Created(t) == status[t] # "absent"
HandsCreated ==
  /\ \A t \in batch : Created(t)
  /\ dTask # NoTask => Created(dTask)
  /\ sTask # NoTask => Created(sTask)
  /\ \A c \in Clients : cpc[c] # "idle" => Created(cTask[c])
  /\ \A e \in exec : Created(e[2])
  /\ \A m \in reports : Created(m[1])

(* Only the loop starts tasks, each once per pass: a task still in its list *)
(* is not running, nor is the one it just assigned, which has its robot.   *)
ListNotRunning ==
  /\ \A t \in batch : status[t] # "running"
  /\ dpc = "assigned" => /\ status[dTask] # "running"
                         /\ target[dTask] = dRobot
                         /\ dTask \notin batch

(* Only the subscriber changes retry: its decision is not stale. *)
DecisionFresh == spc = "decide" => (sCan <=> CanRetry(sTask))

IInv ==
  /\ TypeOK /\ HandsCreated /\ ListNotRunning /\ DecisionFresh
  /\ RunningHasRobot /\ FailedOnlyWhenSpent /\ RetryBounded /\ StartsAccounted

USE DEF NoTask, Status, RobotRow, Terminal, Verdicts, table, dispatcher, subscriber,
        requests, field, bounds

(* No task is the id 0. *)
LEMMA NoTaskIsNone == NoTask \notin Tasks
  BY DEF Tasks

LEMMA TypeStep == TypeOK /\ [Next]_vars => TypeOK'
  <1> SUFFICES ASSUME TypeOK, [Next]_vars PROVE TypeOK'
    OBVIOUS
  <1> USE SchedulerAssumption, NoTaskIsNone DEF TypeOK
  <1>1. ASSUME NEW t \in Tasks, CreateTask(t) PROVE TypeOK'
    BY <1>1 DEF CreateTask
  <1>2. ASSUME NEW c \in Clients, NEW t \in Tasks, CheckCancel(c, t) PROVE TypeOK'
    BY <1>2 DEF CheckCancel
  <1>3. ASSUME NEW c \in Clients, ApplyCancel(c) PROVE TypeOK'
    BY <1>3 DEF ApplyCancel
  <1>4. ASSUME NEW c \in Clients, NotifyCancel(c) PROVE TypeOK'
    BY <1>4 DEF NotifyCancel, EndRequest
  <1>5. ASSUME NEW c \in Clients, CancelFault(c) PROVE TypeOK'
    BY <1>5 DEF CancelFault, EndRequest, Fault
  <1>6. CASE ListPending
    BY <1>6 DEF ListPending, IsPending
  <1>7. CASE GetRobots
    BY <1>7 DEF GetRobots, ToIdle
  <1>8. CASE GetRobotsFault
    BY <1>8 DEF GetRobotsFault, ToIdle, Fault
  <1>9. ASSUME NEW t \in Tasks, NEW r \in Robots, AssignRobot(t, r) PROVE TypeOK'
    BY <1>9 DEF AssignRobot
  <1>10. ASSUME NEW t \in Tasks, SkipTask(t) PROVE TypeOK'
    BY <1>10 DEF SkipTask
  <1>11. ASSUME NEW t \in Tasks, AssignFault(t) PROVE TypeOK'
    BY <1>11 DEF AssignFault, Fault
  <1>12. CASE SetRunning
    BY <1>12 DEF SetRunning
  <1>13. CASE PublishTask
    BY <1>13 DEF PublishTask, NextTask
  <1>14. CASE DispatchFault
    BY <1>14 DEF DispatchFault, NextTask, Fault
  <1>15. CASE EndPass
    BY <1>15 DEF EndPass, ToIdle
  <1>16. ASSUME NEW m \in reports, ReceiveCompleted(m) PROVE TypeOK'
    BY <1>16 DEF ReceiveCompleted
  <1>17. ASSUME NEW m \in reports, ReceiveFailed(m) PROVE TypeOK'
    BY <1>17 DEF ReceiveFailed, CanRetry
  <1>18. CASE RetryTask
    <2>1. /\ sTask \in Tasks
          /\ retry' = [retry EXCEPT ![sTask] = @ + 1]
          /\ status' = [status EXCEPT ![sTask] = "pending"]
          /\ credit' = [credit EXCEPT ![sTask] = @ + 1]
          /\ spc' = "idle" /\ sTask' = NoTask /\ sCan' = FALSE
      BY <1>18 DEF RetryTask, ToWaiting
    <2>2. /\ retry' \in [Tasks -> Nat]
          /\ status' \in [Tasks -> Status]
          /\ credit' \in [Tasks -> Int]
      BY <2>1
    <2> QED
      BY <2>1, <2>2, <1>18 DEF RetryTask
  <1>19. CASE FailTask
    BY <1>19 DEF FailTask, ToWaiting
  <1>20. CASE DecideFault
    <2>1. faults' \in Nat /\ UNCHANGED offlines
      BY <1>20 DEF DecideFault, Fault
    <2> QED
      BY <2>1, <1>20 DEF DecideFault, ToWaiting
  <1>21. ASSUME NEW m \in reports, LoseReport(m) PROVE TypeOK'
    BY <1>21 DEF LoseReport, Fault
  <1>22. ASSUME NEW r \in Robots, HandleOffline(r) PROVE TypeOK'
    BY <1>22 DEF HandleOffline
  <1>23. ASSUME NEW r \in Robots, LoseOfflineEvent(r) PROVE TypeOK'
    BY <1>23 DEF LoseOfflineEvent, Fault
  <1>24. ASSUME NEW r \in Robots, MarkOffline(r) PROVE TypeOK'
    BY <1>24 DEF MarkOffline
  <1>25. ASSUME NEW r \in Robots, Heartbeat(r) PROVE TypeOK'
    BY <1>25 DEF Heartbeat
  <1>26. ASSUME NEW r \in Robots, NEW t \in Tasks, NEW v \in Verdicts, Report(r, t, v) PROVE TypeOK'
    BY <1>26 DEF Report
  <1>27. ASSUME NEW r \in Robots, RobotRestart(r) PROVE TypeOK'
    BY <1>27 DEF RobotRestart, Fault
  <1>28. CASE UNCHANGED vars
    BY <1>28 DEF vars
  <1> QED
    BY SMTT(60), <1>1, <1>2, <1>3, <1>4, <1>5, <1>6, <1>7, <1>8, <1>9, <1>10, <1>11, <1>12, <1>13, <1>14, <1>15, <1>16, <1>17, <1>18, <1>19, <1>20, <1>21, <1>22, <1>23, <1>24, <1>25, <1>26, <1>27, <1>28
    DEF Next, Dispatch, Cancel, Subscribe, Faulty

-----------------------------------------------------------------------------
(* What a step can do, by what it touches: the eight that write the table, *)
(* the rest of the loop, the subscriber's read and its failed write, and   *)
(* the steps aside.                                                        *)
TableStep ==
  \/ \E t \in Tasks : CreateTask(t)
  \/ \E c \in Clients : ApplyCancel(c)
  \/ \E t \in Tasks, r \in Robots : AssignRobot(t, r)
  \/ SetRunning
  \/ \E m \in reports : ReceiveCompleted(m)
  \/ RetryTask \/ FailTask
  \/ \E r \in Robots : HandleOffline(r)

LoopStep ==
  /\ UNCHANGED <<table, credit, subscriber>>
  /\ dpc' # "assigned"
  /\ \A t \in batch' : t \in batch \/ IsPending(t)

ReportStep ==
  /\ (\E m \in reports : ReceiveFailed(m)) \/ DecideFault
  /\ UNCHANGED <<table, credit, dispatcher>>

AsideStep == UNCHANGED <<table, credit, dispatcher, subscriber>>

LEMMA StepKinds ==
  TypeOK /\ [Next]_vars => TableStep \/ LoopStep \/ ReportStep \/ AsideStep
  <1> SUFFICES ASSUME TypeOK, [Next]_vars
               PROVE TableStep \/ LoopStep \/ ReportStep \/ AsideStep
    OBVIOUS
  <1>1. ASSUME NEW t \in Tasks, CreateTask(t) PROVE TableStep
    BY <1>1 DEF TableStep
  <1>2. ASSUME NEW c \in Clients, NEW t \in Tasks, CheckCancel(c, t) PROVE AsideStep
    BY <1>2 DEF AsideStep, CheckCancel, IsTerminal
  <1>3. ASSUME NEW c \in Clients, ApplyCancel(c) PROVE TableStep
    BY <1>3 DEF TableStep
  <1>4. ASSUME NEW c \in Clients, NotifyCancel(c) PROVE AsideStep
    BY <1>4 DEF AsideStep, NotifyCancel, EndRequest
  <1>5. ASSUME NEW c \in Clients, CancelFault(c) PROVE AsideStep
    BY <1>5 DEF AsideStep, CancelFault, EndRequest, Fault
  <1>6. CASE ListPending
    BY <1>6 DEF LoopStep, ListPending, IsPending
  <1>7. CASE GetRobots
    BY <1>7 DEF LoopStep, GetRobots, ToIdle, IsPending
  <1>8. CASE GetRobotsFault
    BY <1>8 DEF LoopStep, GetRobotsFault, ToIdle, Fault, IsPending
  <1>9. ASSUME NEW t \in Tasks, NEW r \in Robots, AssignRobot(t, r) PROVE TableStep
    BY <1>9 DEF TableStep
  <1>10. ASSUME NEW t \in Tasks, SkipTask(t) PROVE LoopStep
    BY <1>10 DEF LoopStep, SkipTask, IsNext, IsPending
  <1>11. ASSUME NEW t \in Tasks, AssignFault(t) PROVE LoopStep
    BY <1>11 DEF LoopStep, AssignFault, IsNext, Fault, IsPending
  <1>12. CASE SetRunning
    BY <1>12 DEF TableStep
  <1>13. CASE PublishTask
    BY <1>13 DEF LoopStep, PublishTask, NextTask, IsPending
  <1>14. CASE DispatchFault
    BY <1>14 DEF LoopStep, DispatchFault, NextTask, Fault, IsPending
  <1>15. CASE EndPass
    BY <1>15 DEF LoopStep, EndPass, ToIdle, IsPending
  <1>16. ASSUME NEW m \in reports, ReceiveCompleted(m) PROVE TableStep
    BY <1>16 DEF TableStep
  <1>17. ASSUME NEW m \in reports, ReceiveFailed(m) PROVE ReportStep
    BY <1>17 DEF ReportStep, ReceiveFailed, CanRetry
  <1>18. CASE RetryTask
    BY <1>18 DEF TableStep
  <1>19. CASE FailTask
    BY <1>19 DEF TableStep
  <1>20. CASE DecideFault
    BY <1>20 DEF ReportStep, DecideFault, ToWaiting, Fault
  <1>21. ASSUME NEW m \in reports, LoseReport(m) PROVE AsideStep
    BY <1>21 DEF AsideStep, LoseReport, Fault
  <1>22. ASSUME NEW r \in Robots, HandleOffline(r) PROVE TableStep
    BY <1>22 DEF TableStep
  <1>23. ASSUME NEW r \in Robots, LoseOfflineEvent(r) PROVE AsideStep
    BY <1>23 DEF AsideStep, LoseOfflineEvent, Fault
  <1>24. ASSUME NEW r \in Robots, MarkOffline(r) PROVE AsideStep
    BY <1>24 DEF AsideStep, MarkOffline
  <1>25. ASSUME NEW r \in Robots, Heartbeat(r) PROVE AsideStep
    BY <1>25 DEF AsideStep, Heartbeat
  <1>26. ASSUME NEW r \in Robots, NEW t \in Tasks, NEW v \in Verdicts, Report(r, t, v) PROVE AsideStep
    BY <1>26 DEF AsideStep, Report
  <1>27. ASSUME NEW r \in Robots, RobotRestart(r) PROVE AsideStep
    BY <1>27 DEF AsideStep, RobotRestart, Fault
  <1>28. CASE UNCHANGED vars
    BY <1>28 DEF AsideStep, vars
  <1> QED
    BY <1>1, <1>2, <1>3, <1>4, <1>5, <1>6, <1>7, <1>8, <1>9, <1>10, <1>11, <1>12, <1>13, <1>14, <1>15, <1>16, <1>17, <1>18, <1>19, <1>20, <1>21, <1>22, <1>23, <1>24, <1>25, <1>26, <1>27, <1>28
    DEF Next, Dispatch, Cancel, Subscribe, Faulty

-----------------------------------------------------------------------------

(* Nobody deletes a task, so what was picked up after its creation stays. *)
LEMMA HandsCreatedStep == IInv /\ [Next]_vars => HandsCreated'
  <1> SUFFICES ASSUME IInv, [Next]_vars PROVE HandsCreated'
    OBVIOUS
  <1>0. TypeOK'
    BY TypeStep DEF IInv
  <1> USE <1>0, SchedulerAssumption, NoTaskIsNone DEF IInv, TypeOK, HandsCreated, Created
  <1>1. ASSUME NEW t \in Tasks, CreateTask(t) PROVE HandsCreated'
    BY <1>1 DEF CreateTask
  <1>2. ASSUME NEW c \in Clients, NEW t \in Tasks, CheckCancel(c, t) PROVE HandsCreated'
    BY <1>2 DEF CheckCancel, IsTerminal
  <1>3. ASSUME NEW c \in Clients, ApplyCancel(c) PROVE HandsCreated'
    BY <1>3 DEF ApplyCancel
  <1>4. ASSUME NEW c \in Clients, NotifyCancel(c) PROVE HandsCreated'
    BY <1>4 DEF NotifyCancel, EndRequest
  <1>5. ASSUME NEW c \in Clients, CancelFault(c) PROVE HandsCreated'
    BY <1>5 DEF CancelFault, EndRequest, Fault
  <1>6. CASE ListPending
    BY <1>6 DEF ListPending, IsPending
  <1>7. CASE GetRobots
    BY <1>7 DEF GetRobots, ToIdle
  <1>8. CASE GetRobotsFault
    BY <1>8 DEF GetRobotsFault, ToIdle, Fault
  <1>9. ASSUME NEW t \in Tasks, NEW r \in Robots, AssignRobot(t, r) PROVE HandsCreated'
    BY <1>9 DEF AssignRobot, IsNext
  <1>10. ASSUME NEW t \in Tasks, SkipTask(t) PROVE HandsCreated'
    BY <1>10 DEF SkipTask, IsNext
  <1>11. ASSUME NEW t \in Tasks, AssignFault(t) PROVE HandsCreated'
    BY <1>11 DEF AssignFault, IsNext, Fault
  <1>12. CASE SetRunning
    BY <1>12 DEF SetRunning
  <1>13. CASE PublishTask
    BY <1>13 DEF PublishTask, NextTask
  <1>14. CASE DispatchFault
    BY <1>14 DEF DispatchFault, NextTask, Fault
  <1>15. CASE EndPass
    BY <1>15 DEF EndPass, ToIdle
  <1>16. ASSUME NEW m \in reports, ReceiveCompleted(m) PROVE HandsCreated'
    BY <1>16 DEF ReceiveCompleted
  <1>17. ASSUME NEW m \in reports, ReceiveFailed(m) PROVE HandsCreated'
    BY <1>17 DEF ReceiveFailed, CanRetry
  <1>18. CASE RetryTask
    BY <1>18 DEF RetryTask, ToWaiting, CanRetry
  <1>19. CASE FailTask
    BY <1>19 DEF FailTask, ToWaiting, CanRetry
  <1>20. CASE DecideFault
    BY <1>20 DEF DecideFault, ToWaiting, Fault
  <1>21. ASSUME NEW m \in reports, LoseReport(m) PROVE HandsCreated'
    BY <1>21 DEF LoseReport, Fault
  <1>22. ASSUME NEW r \in Robots, HandleOffline(r) PROVE HandsCreated'
    BY <1>22 DEF HandleOffline, IsStranded
  <1>23. ASSUME NEW r \in Robots, LoseOfflineEvent(r) PROVE HandsCreated'
    BY <1>23 DEF LoseOfflineEvent, Fault
  <1>24. ASSUME NEW r \in Robots, MarkOffline(r) PROVE HandsCreated'
    BY <1>24 DEF MarkOffline
  <1>25. ASSUME NEW r \in Robots, Heartbeat(r) PROVE HandsCreated'
    BY <1>25 DEF Heartbeat
  <1>26. ASSUME NEW r \in Robots, NEW t \in Tasks, NEW v \in Verdicts, Report(r, t, v) PROVE HandsCreated'
    BY <1>26 DEF Report
  <1>27. ASSUME NEW r \in Robots, RobotRestart(r) PROVE HandsCreated'
    BY <1>27 DEF RobotRestart, Fault
  <1>28. CASE UNCHANGED vars
    BY <1>28 DEF vars
  <1> QED
    BY <1>1, <1>2, <1>3, <1>4, <1>5, <1>6, <1>7, <1>8, <1>9, <1>10, <1>11, <1>12, <1>13, <1>14, <1>15, <1>16, <1>17, <1>18, <1>19, <1>20, <1>21, <1>22, <1>23, <1>24, <1>25, <1>26, <1>27, <1>28
    DEF Next, Dispatch, Cancel, Subscribe, Faulty

(* The loop starts the task it has in hand, which it took out of its list. *)
LEMMA ListNotRunningStep == IInv /\ [Next]_vars => ListNotRunning'
  <1> SUFFICES ASSUME IInv, [Next]_vars PROVE ListNotRunning'
    OBVIOUS
  <1>0. TypeOK'
    BY TypeStep DEF IInv
  <1> USE <1>0, SchedulerAssumption, NoTaskIsNone DEF IInv, TypeOK, ListNotRunning
  <1>1. ASSUME NEW t \in Tasks, CreateTask(t) PROVE ListNotRunning'
    BY <1>1 DEF CreateTask, HandsCreated, Created
  <1>2. ASSUME NEW c \in Clients, ApplyCancel(c) PROVE ListNotRunning'
    BY <1>2 DEF ApplyCancel
  <1>3. ASSUME NEW t \in Tasks, NEW r \in Robots, AssignRobot(t, r) PROVE ListNotRunning'
    BY <1>3 DEF AssignRobot, IsNext
  <1>4. CASE SetRunning
    BY <1>4 DEF SetRunning
  <1>5. ASSUME NEW m \in reports, ReceiveCompleted(m) PROVE ListNotRunning'
    BY <1>5 DEF ReceiveCompleted
  <1>6. CASE RetryTask
    BY <1>6 DEF RetryTask, ToWaiting, CanRetry
  <1>7. CASE FailTask
    BY <1>7 DEF FailTask, ToWaiting, CanRetry
  <1>8. ASSUME NEW r \in Robots, HandleOffline(r) PROVE ListNotRunning'
    BY <1>8 DEF HandleOffline, IsStranded
  <1>9. CASE LoopStep
    BY <1>9 DEF LoopStep, IsPending
  <1>10. CASE ReportStep
    BY <1>10 DEF ReportStep
  <1>11. CASE AsideStep
    BY <1>11 DEF AsideStep
  <1> QED
    BY StepKinds, <1>1, <1>2, <1>3, <1>4, <1>5, <1>6, <1>7, <1>8, <1>9, <1>10, <1>11 DEF TableStep

(* Between the read of set_task_failed and its write nobody retries.      *)
LEMMA DecisionFreshStep == IInv /\ [Next]_vars => DecisionFresh'
  <1> SUFFICES ASSUME IInv, [Next]_vars PROVE DecisionFresh'
    OBVIOUS
  <1>0. TypeOK'
    BY TypeStep DEF IInv
  <1> USE <1>0, SchedulerAssumption, NoTaskIsNone DEF IInv, TypeOK, DecisionFresh, CanRetry
  <1>1. ASSUME NEW t \in Tasks, CreateTask(t) PROVE DecisionFresh'
    BY <1>1 DEF CreateTask
  <1>2. ASSUME NEW c \in Clients, ApplyCancel(c) PROVE DecisionFresh'
    BY <1>2 DEF ApplyCancel
  <1>3. ASSUME NEW t \in Tasks, NEW r \in Robots, AssignRobot(t, r) PROVE DecisionFresh'
    BY <1>3 DEF AssignRobot, IsNext
  <1>4. CASE SetRunning
    BY <1>4 DEF SetRunning
  <1>5. ASSUME NEW m \in reports, ReceiveCompleted(m) PROVE DecisionFresh'
    BY <1>5 DEF ReceiveCompleted
  <1>6. CASE RetryTask
    BY <1>6 DEF RetryTask, ToWaiting, CanRetry
  <1>7. CASE FailTask
    BY <1>7 DEF FailTask, ToWaiting, CanRetry
  <1>8. ASSUME NEW r \in Robots, HandleOffline(r) PROVE DecisionFresh'
    BY <1>8 DEF HandleOffline, IsStranded
  <1>9. CASE LoopStep
    BY <1>9 DEF LoopStep, IsPending
  <1>10. CASE ReportStep
    BY <1>10 DEF ReportStep, ReceiveFailed, DecideFault, ToWaiting
  <1>11. CASE AsideStep
    BY <1>11 DEF AsideStep
  <1> QED
    BY StepKinds, <1>1, <1>2, <1>3, <1>4, <1>5, <1>6, <1>7, <1>8, <1>9, <1>10, <1>11 DEF TableStep

(* The robot is cleared only together with "running".                     *)
LEMMA RunningHasRobotStep == IInv /\ [Next]_vars => RunningHasRobot'
  <1> SUFFICES ASSUME IInv, [Next]_vars PROVE RunningHasRobot'
    OBVIOUS
  <1>0. TypeOK'
    BY TypeStep DEF IInv
  <1> USE <1>0, SchedulerAssumption, NoTaskIsNone DEF IInv, TypeOK, RunningHasRobot
  <1>1. ASSUME NEW t \in Tasks, CreateTask(t) PROVE RunningHasRobot'
    BY <1>1 DEF CreateTask
  <1>2. ASSUME NEW c \in Clients, ApplyCancel(c) PROVE RunningHasRobot'
    BY <1>2 DEF ApplyCancel
  <1>3. ASSUME NEW t \in Tasks, NEW r \in Robots, AssignRobot(t, r) PROVE RunningHasRobot'
    BY <1>3 DEF AssignRobot, IsNext
  <1>4. CASE SetRunning
    BY <1>4 DEF SetRunning, ListNotRunning
  <1>5. ASSUME NEW m \in reports, ReceiveCompleted(m) PROVE RunningHasRobot'
    BY <1>5 DEF ReceiveCompleted
  <1>6. CASE RetryTask
    BY <1>6 DEF RetryTask, ToWaiting, CanRetry
  <1>7. CASE FailTask
    BY <1>7 DEF FailTask, ToWaiting, CanRetry
  <1>8. ASSUME NEW r \in Robots, HandleOffline(r) PROVE RunningHasRobot'
    BY <1>8 DEF HandleOffline, IsStranded
  <1>9. CASE LoopStep
    BY <1>9 DEF LoopStep, IsPending
  <1>10. CASE ReportStep
    BY <1>10 DEF ReportStep
  <1>11. CASE AsideStep
    BY <1>11 DEF AsideStep
  <1> QED
    BY StepKinds, <1>1, <1>2, <1>3, <1>4, <1>5, <1>6, <1>7, <1>8, <1>9, <1>10, <1>11 DEF TableStep

(* A task fails on a fresh decision, and retries are never taken back.    *)
LEMMA FailedOnlyWhenSpentStep == IInv /\ [Next]_vars => FailedOnlyWhenSpent'
  <1> SUFFICES ASSUME IInv, [Next]_vars PROVE FailedOnlyWhenSpent'
    OBVIOUS
  <1>0. TypeOK'
    BY TypeStep DEF IInv
  <1> USE <1>0, SchedulerAssumption, NoTaskIsNone DEF IInv, TypeOK, FailedOnlyWhenSpent
  <1>1. ASSUME NEW t \in Tasks, CreateTask(t) PROVE FailedOnlyWhenSpent'
    BY <1>1 DEF CreateTask
  <1>2. ASSUME NEW c \in Clients, ApplyCancel(c) PROVE FailedOnlyWhenSpent'
    BY <1>2 DEF ApplyCancel
  <1>3. ASSUME NEW t \in Tasks, NEW r \in Robots, AssignRobot(t, r) PROVE FailedOnlyWhenSpent'
    BY <1>3 DEF AssignRobot, IsNext
  <1>4. CASE SetRunning
    BY <1>4 DEF SetRunning
  <1>5. ASSUME NEW m \in reports, ReceiveCompleted(m) PROVE FailedOnlyWhenSpent'
    BY <1>5 DEF ReceiveCompleted
  <1>6. CASE RetryTask
    <2>1. /\ sTask \in Tasks
          /\ retry' = [retry EXCEPT ![sTask] = @ + 1]
          /\ status' = [status EXCEPT ![sTask] = "pending"]
      BY <1>6 DEF RetryTask
    <2> QED
      BY <2>1
  <1>7. CASE FailTask
    BY <1>7 DEF FailTask, DecisionFresh, CanRetry
  <1>8. ASSUME NEW r \in Robots, HandleOffline(r) PROVE FailedOnlyWhenSpent'
    BY <1>8 DEF HandleOffline, IsStranded
  <1>9. CASE LoopStep
    BY <1>9 DEF LoopStep, IsPending
  <1>10. CASE ReportStep
    BY <1>10 DEF ReportStep
  <1>11. CASE AsideStep
    BY <1>11 DEF AsideStep
  <1> QED
    BY StepKinds, <1>1, <1>2, <1>3, <1>4, <1>5, <1>6, <1>7, <1>8, <1>9, <1>10, <1>11 DEF TableStep

(* A task is retried on a fresh decision only.                            *)
LEMMA RetryBoundedStep == IInv /\ [Next]_vars => RetryBounded'
  <1> SUFFICES ASSUME IInv, [Next]_vars PROVE RetryBounded'
    OBVIOUS
  <1>0. TypeOK'
    BY TypeStep DEF IInv
  <1> USE <1>0, SchedulerAssumption, NoTaskIsNone DEF IInv, TypeOK, RetryBounded
  <1>1. ASSUME NEW t \in Tasks, CreateTask(t) PROVE RetryBounded'
    BY <1>1 DEF CreateTask
  <1>2. ASSUME NEW c \in Clients, ApplyCancel(c) PROVE RetryBounded'
    BY <1>2 DEF ApplyCancel
  <1>3. ASSUME NEW t \in Tasks, NEW r \in Robots, AssignRobot(t, r) PROVE RetryBounded'
    BY <1>3 DEF AssignRobot, IsNext
  <1>4. CASE SetRunning
    BY <1>4 DEF SetRunning
  <1>5. ASSUME NEW m \in reports, ReceiveCompleted(m) PROVE RetryBounded'
    BY <1>5 DEF ReceiveCompleted
  <1>6. CASE RetryTask
    <2>1. /\ sTask \in Tasks /\ retry[sTask] < MaxRetries[sTask]
          /\ retry' = [retry EXCEPT ![sTask] = @ + 1]
      BY <1>6 DEF RetryTask, DecisionFresh, CanRetry
    <2> QED
      BY <2>1
  <1>7. CASE FailTask
    BY <1>7 DEF FailTask, ToWaiting, CanRetry
  <1>8. ASSUME NEW r \in Robots, HandleOffline(r) PROVE RetryBounded'
    BY <1>8 DEF HandleOffline, IsStranded
  <1>9. CASE LoopStep
    BY <1>9 DEF LoopStep, IsPending
  <1>10. CASE ReportStep
    BY <1>10 DEF ReportStep
  <1>11. CASE AsideStep
    BY <1>11 DEF AsideStep
  <1> QED
    BY StepKinds, <1>1, <1>2, <1>3, <1>4, <1>5, <1>6, <1>7, <1>8, <1>9, <1>10, <1>11 DEF TableStep

(* A start is paid for by what put the task in the loop's list.           *)
LEMMA StartsAccountedStep == IInv /\ [Next]_vars => StartsAccounted'
  <1> SUFFICES ASSUME IInv, [Next]_vars PROVE StartsAccounted'
    OBVIOUS
  <1>0. TypeOK'
    BY TypeStep DEF IInv
  <1> USE <1>0, SchedulerAssumption, NoTaskIsNone DEF IInv, TypeOK, StartsAccounted, AwaitsStart
  <1>1. ASSUME NEW t \in Tasks, CreateTask(t) PROVE StartsAccounted'
    BY <1>1 DEF CreateTask
  <1>2. ASSUME NEW c \in Clients, ApplyCancel(c) PROVE StartsAccounted'
    BY <1>2 DEF ApplyCancel
  <1>3. ASSUME NEW t \in Tasks, NEW r \in Robots, AssignRobot(t, r) PROVE StartsAccounted'
    BY <1>3 DEF AssignRobot, IsNext
  <1>4. CASE SetRunning
    <2>1. /\ dTask \in Tasks /\ dTask \notin batch' /\ dpc' = "started"
          /\ status' = [status EXCEPT ![dTask] = "running"]
          /\ credit' = [credit EXCEPT ![dTask] = @ - 1]
          /\ UNCHANGED batch
      BY <1>4 DEF SetRunning, ListNotRunning
    <2>2. AwaitsStart(dTask)
      BY <1>4 DEF SetRunning
    <2> QED
      BY <2>1, <2>2
  <1>5. ASSUME NEW m \in reports, ReceiveCompleted(m) PROVE StartsAccounted'
    BY <1>5 DEF ReceiveCompleted
  <1>6. CASE RetryTask
    BY <1>6 DEF RetryTask, ToWaiting, CanRetry
  <1>7. CASE FailTask
    BY <1>7 DEF FailTask, ToWaiting, CanRetry
  <1>8. ASSUME NEW r \in Robots, HandleOffline(r) PROVE StartsAccounted'
    BY <1>8 DEF HandleOffline, IsStranded
  <1>9. CASE LoopStep
    BY <1>9 DEF LoopStep, IsPending
  <1>10. CASE ReportStep
    BY <1>10 DEF ReportStep
  <1>11. CASE AsideStep
    BY <1>11 DEF AsideStep
  <1> QED
    BY StepKinds, <1>1, <1>2, <1>3, <1>4, <1>5, <1>6, <1>7, <1>8, <1>9, <1>10, <1>11 DEF TableStep

-----------------------------------------------------------------------------
LEMMA InitIInv == Init => IInv
  <1> SUFFICES ASSUME Init PROVE IInv
    OBVIOUS
  <1> USE SchedulerAssumption, NoTaskIsNone DEF Init
  <1>1. TypeOK
    <2>1. /\ status \in [Tasks -> Status] /\ target \in [Tasks -> Robots \cup {NoRobot}]
          /\ retry \in [Tasks -> Nat] /\ robots \in [Robots -> RobotRow]
          /\ view \in [Robots -> RobotRow] /\ bTarget \in [Tasks -> Robots \cup {NoRobot}]
          /\ credit \in [Tasks -> Int]
      OBVIOUS
    <2>2. /\ cpc \in [Clients -> {"idle", "checked", "notify"}]
          /\ cTask \in [Clients -> Tasks \cup {NoTask}]
          /\ cTarget \in [Clients -> Robots \cup {NoRobot}]
          /\ \A c \in Clients : cpc[c] # "idle" <=> cTask[c] # NoTask
      OBVIOUS
    <2> QED
      BY <2>1, <2>2 DEF TypeOK
  <1>2. HandsCreated /\ ListNotRunning /\ DecisionFresh
    BY DEF HandsCreated, ListNotRunning, DecisionFresh
  <1>3. RunningHasRobot /\ FailedOnlyWhenSpent
    BY DEF RunningHasRobot, FailedOnlyWhenSpent
  <1>4. RetryBounded /\ StartsAccounted
    BY DEF RetryBounded, StartsAccounted
  <1> QED
    BY <1>1, <1>2, <1>3, <1>4 DEF IInv

LEMMA StepIInv == IInv /\ [Next]_vars => IInv'
  BY TypeStep, HandsCreatedStep, ListNotRunningStep, DecisionFreshStep,
     RunningHasRobotStep, FailedOnlyWhenSpentStep, RetryBoundedStep,
     StartsAccountedStep DEF IInv

(* The inductive invariant holds in every reachable state. *)
THEOREM Invariance == Spec => []IInv
  BY InitIInv, StepIInv, PTL DEF Spec

(* Every variable keeps its type, and the loop has a task and a robot in   *)
(* hand exactly between assign_robot and the publish.                      *)
THEOREM TypeCorrect == Spec => []TypeOK
  <1>1. IInv => TypeOK
    BY DEF IInv
  <1> QED
    BY <1>1, Invariance, PTL

(* A running task always names its robot. *)
THEOREM RunningTasksHaveRobots == Spec => []RunningHasRobot
  <1>1. IInv => RunningHasRobot
    BY DEF IInv
  <1> QED
    BY <1>1, Invariance, PTL

(* A task is given up only when its retries are spent. *)
THEOREM RetriesAreSpent == Spec => []FailedOnlyWhenSpent
  <1>1. IInv => FailedOnlyWhenSpent
    BY DEF IInv
  <1> QED
    BY <1>1, Invariance, PTL

(* No task is retried more often than allowed. *)
THEOREM RetriesAreBounded == Spec => []RetryBounded
  <1>1. IInv => RetryBounded
    BY DEF IInv
  <1> QED
    BY <1>1, Invariance, PTL

(* No task is started without a creation, a retry or a re-queue to pay for it. *)
THEOREM StartsArePaidFor == Spec => []StartsAccounted
  <1>1. IInv => StartsAccounted
    BY DEF IInv
  <1> QED
    BY <1>1, Invariance, PTL

-----------------------------------------------------------------------------
LEMMA LedgerInit == Init => Ledger!Init
  BY DEF Init, Ledger!Init

LEMMA LedgerStep == IInv /\ [Next]_vars => [Ledger!Next]_(Ledger!ledger)
  <1> SUFFICES ASSUME IInv, [Next]_vars PROVE Ledger!Next \/ UNCHANGED table
    BY DEF Ledger!ledger
  <1> USE SchedulerAssumption, NoTaskIsNone DEF IInv, TypeOK
  <1>1. ASSUME NEW t \in Tasks, CreateTask(t) PROVE Ledger!Next
    <2>1. PICK r \in CreateTargets : target' = [target EXCEPT ![t] = r]
      BY <1>1 DEF CreateTask
    <2>2. Ledger!Create(t, r)
      BY <1>1, <2>1 DEF CreateTask, Ledger!Create
    <2> QED
      BY <2>2 DEF Ledger!Next
  <1>2. ASSUME NEW c \in Clients, ApplyCancel(c) PROVE Ledger!Next
    <2>1. cTask[c] \in Tasks /\ Ledger!Close(cTask[c], "cancelled")
      BY <1>2 DEF ApplyCancel, HandsCreated, Created, Ledger!Close
    <2> QED
      BY <2>1 DEF Ledger!Next
  <1>3. ASSUME NEW t \in Tasks, NEW r \in Robots, AssignRobot(t, r) PROVE Ledger!Next
    <2>1. Ledger!Assign(t, r)
      BY <1>3 DEF AssignRobot, IsNext, HandsCreated, Created, ListNotRunning, Ledger!Assign
    <2> QED
      BY <2>1 DEF Ledger!Next
  <1>4. CASE SetRunning
    <2>1. dTask \in Tasks /\ Ledger!Start(dTask)
      BY <1>4 DEF SetRunning, HandsCreated, Created, ListNotRunning, Ledger!Start
    <2> QED
      BY <2>1 DEF Ledger!Next
  <1>5. ASSUME NEW m \in reports, ReceiveCompleted(m) PROVE Ledger!Next
    <2>1. m[1] \in Tasks /\ Ledger!Close(m[1], "completed")
      BY <1>5 DEF ReceiveCompleted, HandsCreated, Created, Ledger!Close
    <2> QED
      BY <2>1 DEF Ledger!Next
  <1>6. CASE RetryTask
    <2>1. sTask \in Tasks /\ Ledger!Retry(sTask)
      BY <1>6 DEF RetryTask, DecisionFresh, CanRetry, HandsCreated, Created, Ledger!Retry
    <2> QED
      BY <2>1 DEF Ledger!Next
  <1>7. CASE FailTask
    <2>1. sTask \in Tasks /\ retry[sTask] >= MaxRetries[sTask]
      BY <1>7 DEF FailTask, DecisionFresh, CanRetry
    <2>2. Ledger!GiveUp(sTask)
      BY <1>7, <2>1 DEF FailTask, HandsCreated, Created, Ledger!GiveUp
    <2> QED
      BY <2>1, <2>2 DEF Ledger!Next
  <1>8. ASSUME NEW r \in Robots, HandleOffline(r) PROVE Ledger!Next
    <2>1. Ledger!Requeue(r)
      BY <1>8 DEF HandleOffline, IsStranded, Ledger!Requeue
    <2> QED
      BY <2>1 DEF Ledger!Next
  <1>9. CASE UNCHANGED table
    BY <1>9
  <1>10. TableStep \/ UNCHANGED table
    BY StepKinds DEF LoopStep, ReportStep, AsideStep
  <1> QED
    BY <1>1, <1>2, <1>3, <1>4, <1>5, <1>6, <1>7, <1>8, <1>9, <1>10 DEF TableStep

(* The scheduler, with its statements interleaved, changes the table only  *)
(* as the ledger, whose decisions are atomic, may.                         *)
THEOREM SchedulerImplementsLedger == Spec => ImplementsLedger
  BY LedgerInit, LedgerStep, Invariance, PTL
  DEF Spec, ImplementsLedger, Ledger!Spec
=============================================================================
