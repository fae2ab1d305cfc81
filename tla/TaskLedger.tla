----------------------------- MODULE TaskLedger -----------------------------
(***************************************************************************)
(* What the scheduler promises about the rows of its table "tasks", with   *)
(* every decision taken in one step: no statement of another activity ever *)
(* comes between what a decision read and what it wrote.                   *)
(*                                                                         *)
(*  - a task is started only when it is not running and has a robot;       *)
(*  - a running task keeps its robot until it is re-queued without one;    *)
(*  - a failure costs a retry while one is left, and fails the task only   *)
(*    when none is.                                                        *)
(*                                                                         *)
(* The ledger does not promise that "completed", "failed" or "cancelled"   *)
(* is final: the code does not keep that (see NoReopen in SchedulerProps). *)
(***************************************************************************)
EXTENDS Integers

CONSTANTS Tasks, Robots, NoRobot, MaxRetries

VARIABLES status, target, retry

ledger == <<status, target, retry>>

Init ==
  /\ status = [t \in Tasks |-> "absent"]
  /\ target = [t \in Tasks |-> NoRobot]
  /\ retry = [t \in Tasks |-> 0]

Create(t, r) ==
  /\ status[t] = "absent"
  /\ status' = [status EXCEPT ![t] = "pending"]
  /\ target' = [target EXCEPT ![t] = r]
  /\ UNCHANGED retry

Assign(t, r) ==
  /\ status[t] \notin {"absent", "running"}
  /\ target' = [target EXCEPT ![t] = r]
  /\ UNCHANGED <<status, retry>>

Start(t) ==
  /\ status[t] \notin {"absent", "running"} /\ target[t] # NoRobot
  /\ status' = [status EXCEPT ![t] = "running"]
  /\ UNCHANGED <<target, retry>>

(* A report of completion, or a client's cancel.                           *)
Close(t, verdict) ==
  /\ status[t] # "absent"
  /\ status' = [status EXCEPT ![t] = verdict]
  /\ UNCHANGED <<target, retry>>

(* A report of failure.                                                    *)
Retry(t) ==
  /\ status[t] # "absent" /\ retry[t] < MaxRetries[t]
  /\ status' = [status EXCEPT ![t] = "pending"]
  /\ retry' = [retry EXCEPT ![t] = @ + 1]
  /\ UNCHANGED target

GiveUp(t) ==
  /\ status[t] # "absent" /\ retry[t] >= MaxRetries[t]
  /\ status' = [status EXCEPT ![t] = "failed"]
  /\ UNCHANGED <<target, retry>>

(* The robot went offline: its running tasks go back to the queue at once. *)
Requeue(r) ==
  /\ status' = [t \in Tasks |-> IF target[t] = r /\ status[t] = "running"
                                  THEN "pending" ELSE status[t]]
  /\ target' = [t \in Tasks |-> IF target[t] = r /\ status[t] = "running"
                                  THEN NoRobot ELSE target[t]]
  /\ UNCHANGED retry

Next ==
  \/ \E t \in Tasks, r \in Robots \cup {NoRobot} : Create(t, r)
  \/ \E t \in Tasks, r \in Robots : Assign(t, r)
  \/ \E t \in Tasks : Start(t) \/ Retry(t) \/ GiveUp(t)
  \/ \E t \in Tasks, v \in {"completed", "cancelled"} : Close(t, v)
  \/ \E r \in Robots : Requeue(r)

Spec == Init /\ [][Next]_ledger
=============================================================================
