--------------------------- MODULE SchedulerProps ---------------------------
(***************************************************************************)
(* What the scheduler keeps, and what its comments claim and it does not.  *)
(***************************************************************************)
EXTENDS Scheduler

(* The type invariant; a task and a robot are in hand exactly while the    *)
(* loop is between assign_robot and the publish.                           *)
TypeOK ==
  /\ status \in [Tasks -> Status]
  /\ target \in [Tasks -> Robots \cup {NoRobot}]
  /\ retry \in [Tasks -> Nat]
  /\ robots \in [Robots -> RobotRow]
  /\ dpc \in {"idle", "listed", "loop", "assigned", "started"}
  /\ batch \subseteq Tasks
  /\ bTarget \in [Tasks -> Robots \cup {NoRobot}]
  /\ view \in [Robots -> RobotRow]
  /\ dTask \in Tasks \cup {NoTask}
  /\ dRobot \in Robots \cup {NoRobot}
  /\ dpc \in {"assigned", "started"} <=> dTask # NoTask
  /\ dTask # NoTask => dRobot # NoRobot
  /\ spc \in {"idle", "decide"}
  /\ sTask \in Tasks \cup {NoTask}
  /\ spc = "decide" <=> sTask # NoTask
  /\ sCan \in BOOLEAN
  /\ cpc \in [Clients -> {"idle", "checked", "notify"}]
  /\ cTask \in [Clients -> Tasks \cup {NoTask}]
  /\ cTarget \in [Clients -> Robots \cup {NoRobot}]
  /\ \A c \in Clients : cpc[c] # "idle" <=> cTask[c] # NoTask
  /\ offlineEvents \subseteq Robots
  /\ exec \subseteq Robots \X Tasks
  /\ reports \subseteq Tasks \X Verdicts
  /\ faults \in Nat /\ offlines \in Nat
  /\ credit \in [Tasks -> Int]

(* A running task names the robot it runs on, although the loop assigns    *)
(* the robot and sets the status in two statements and the device          *)
(* subscriber may clear the robot between them.                            *)
RunningHasRobot == \A t \in Tasks : status[t] = "running" => target[t] # NoRobot

(* A task is given up only after every retry its client allowed, although  *)
(* set_task_failed decides on a row it read one statement earlier and late *)
(* or repeated failure reports are never told from fresh ones.             *)
FailedOnlyWhenSpent ==
  \A t \in Tasks : status[t] = "failed" => retry[t] >= MaxRetries[t]

(* Whatever reports arrive, a task is never retried more often than its    *)
(* client allowed; a negative max_retries (an i32 cast to i16) means never.*)
RetryBounded ==
  \A t \in Tasks : retry[t] = 0 \/ retry[t] <= MaxRetries[t]

(* No task is started without a reason the table recorded: its creation, a *)
(* counted retry or a re-queue after its robot went offline.  Each of the  *)
(* three gives a task one start, and a task that is waiting to be started  *)
(* has one left, although the loop starts tasks from a list that the other *)
(* activities outrun.                                                      *)
AwaitsStart(t) ==
  status[t] \in {"absent", "pending"} \/ t \in batch \/ (dpc = "assigned" /\ dTask = t)
StartsAccounted ==
  \A t \in Tasks : credit[t] >= IF AwaitsStart(t) THEN 1 ELSE 0

(* A task without a robot is not starved by tasks ahead of it in priority  *)
(* order, such as one that needs a robot that is offline: once some robot  *)
(* fit for it is always available, it does not wait for ever.              *)
NotStarved ==
  \A t \in Tasks :
    <>[](\E r \in Capable[t] : robots[r] = "ready") =>
      ((status[t] = "pending" /\ target[t] = NoRobot) ~>
         (status[t] # "pending" \/ target[t] # NoRobot))

(* The table implements the ledger, in which decisions are atomic.         *)
Ledger ==
  INSTANCE TaskLedger WITH status <- status, target <- target, retry <- retry
ImplementsLedger == Ledger!Spec

-----------------------------------------------------------------------------
(* task.rs:3-6 draws the task's life: nothing leaves "completed" or        *)
(* "cancelled".  The dispatch loop's stale list and late failure reports   *)
(* reopen such tasks.                                                      *)
NoReopen ==
  [][\A t \in Tasks : status[t] \in {"completed", "cancelled"} =>
                        status'[t] \in Terminal]_status
=============================================================================
