----------------------------- MODULE Scheduler -----------------------------
(***************************************************************************)
(* The task scheduler of the main brain (services/scheduler).              *)
(*                                                                         *)
(* Four activities of one process share the PostgreSQL table "tasks" and   *)
(* take one SQL statement at a time: the dispatch loop, the subscriber to  *)
(* robot.*.task_status, the subscriber to internal.device.status and the   *)
(* REST handlers.  Every action below is one such statement, or one NATS   *)
(* publish; between two of them any other activity may run.                *)
(*                                                                         *)
(* Abstractions.  The columns robots.status and robots.battery are one     *)
(* value per robot: "offline", "low" (online, battery absent or <= 20) or  *)
(* "ready".  The weighted score is a choice among the eligible robots.  A  *)
(* message to a robot arrives when it is published or is lost: a late      *)
(* arrival cannot be told from a late report.  A failed SQL statement, a   *)
(* failed publish, a lost message and a restarted robot are faults.        *)
(***************************************************************************)
EXTENDS Integers, FiniteSets

CONSTANTS
  NumTasks,       (* bound: tasks created, ids are 1..NumTasks (BIGSERIAL) *)
  Robots,         (* the rows of the table "robots", by short_id           *)
  NoRobot,        (* SQL NULL in target_robot_short_id                     *)
  Clients,        (* concurrent DELETE /api/v1/tasks/{id} requests         *)
  Priority,       (* tasks.priority, 0 is the most urgent                  *)
  MaxRetries,     (* tasks.max_retries, an i16 the client chose            *)
  Rows,           (* bound: the rows a robot's heartbeats may write        *)
  Capable,        (* the robots with the capabilities a task's type needs  *)
  CreateTargets,  (* what a client may put in target_robot_short_id        *)
  MaxFaults,      (* bound: faults in a behaviour                          *)
  MaxOfflines     (* bound: robots marked offline in a behaviour           *)

Tasks == 1..NumTasks

ASSUME SchedulerAssumption ==
  /\ NumTasks \in Nat
  /\ NoRobot \notin Robots
  /\ Priority \in [Tasks -> Int]
  /\ MaxRetries \in [Tasks -> Int]
  /\ Rows \in [Robots -> SUBSET {"low", "ready"}]
  /\ Capable \in [Tasks -> SUBSET Robots]
  /\ CreateTargets \subseteq Robots \cup {NoRobot}
  /\ MaxFaults \in Nat
  /\ MaxOfflines \in Nat

NoTask == 0
Terminal == {"completed", "failed", "cancelled"}
Status == {"absent", "pending", "running"} \cup Terminal
RobotRow == {"offline", "low", "ready"}
Verdicts == {"completed", "failed"}

VARIABLES
  status, target, retry,          (* the table "tasks"                     *)
  robots,                         (* the table "robots"                    *)
  dpc, batch, bTarget, view,      (* dispatch loop: where it is, the tasks *)
  dTask, dRobot,                  (* and robots it fetched, the one it is at *)
  spc, sTask, sCan,               (* task_status subscriber                *)
  cpc, cTask, cTarget,            (* cancel requests                       *)
  offlineEvents,                  (* internal.device.status, not yet read  *)
  exec, reports,                  (* work on robots, their reports under way *)
  faults, offlines,               (* how much of the two bounds is used    *)
  credit                          (* history: starts a task has coming to it *)

table == <<status, target, retry>>
dispatcher == <<dpc, batch, bTarget, view, dTask, dRobot>>
subscriber == <<spc, sTask, sCan>>
requests == <<cpc, cTask, cTarget>>
field == <<exec, reports>>
bounds == <<faults, offlines>>
vars == <<status, target, retry, robots, dpc, batch, bTarget, view, dTask, dRobot,
          spc, sTask, sCan, cpc, cTask, cTarget, offlineEvents, exec, reports,
          faults, offlines, credit>>

Init ==
  /\ status = [t \in Tasks |-> "absent"]
  /\ target = [t \in Tasks |-> NoRobot]
  /\ retry = [t \in Tasks |-> 0]
  /\ robots = [r \in Robots |-> "offline"]
  /\ dpc = "idle" /\ batch = {} /\ dTask = NoTask /\ dRobot = NoRobot
  /\ bTarget = [t \in Tasks |-> NoRobot]
  /\ view = [r \in Robots |-> "offline"]
  /\ spc = "idle" /\ sTask = NoTask /\ sCan = FALSE
  /\ cpc = [c \in Clients |-> "idle"]
  /\ cTask = [c \in Clients |-> NoTask]
  /\ cTarget = [c \in Clients |-> NoRobot]
  /\ offlineEvents = {} /\ exec = {} /\ reports = {}
  /\ faults = 0 /\ offlines = 0
  /\ credit = [t \in Tasks |-> 1]

Fault == faults < MaxFaults /\ faults' = faults + 1 /\ UNCHANGED offlines

-----------------------------------------------------------------------------
(* REST API: POST /api/v1/tasks and DELETE /api/v1/tasks/{id}.             *)

CreateTask(t) ==
  /\ status[t] = "absent" /\ \A u \in 1..(t - 1) : status[u] # "absent"
  /\ status' = [status EXCEPT ![t] = "pending"]
  /\ \E r \in CreateTargets : target' = [target EXCEPT ![t] = r]
  /\ UNCHANGED <<retry, robots, dispatcher, subscriber, requests, offlineEvents,
                 field, bounds, credit>>

IsTerminal(t) == status[t] \in Terminal

(* get_task and the is_terminal check; a terminal task ends the request.   *)
CheckCancel(c, t) ==
  /\ cpc[c] = "idle" /\ status[t] # "absent" /\ ~IsTerminal(t)
  /\ cpc' = [cpc EXCEPT ![c] = "checked"]
  /\ cTask' = [cTask EXCEPT ![c] = t]
  /\ cTarget' = [cTarget EXCEPT ![c] = target[t]]
  /\ UNCHANGED <<table, robots, dispatcher, subscriber, offlineEvents, field,
                 bounds, credit>>

ApplyCancel(c) ==
  /\ cpc[c] = "checked"
  /\ status' = [status EXCEPT ![cTask[c]] = "cancelled"]
  /\ cpc' = [cpc EXCEPT ![c] = "notify"]
  /\ UNCHANGED <<target, retry, robots, dispatcher, subscriber, cTask, cTarget,
                 offlineEvents, field, bounds, credit>>

EndRequest(c) ==
  /\ cpc' = [cpc EXCEPT ![c] = "idle"]
  /\ cTask' = [cTask EXCEPT ![c] = NoTask]
  /\ cTarget' = [cTarget EXCEPT ![c] = NoRobot]

(* The notice goes to the robot read before the update, if there was one.  *)
NotifyCancel(c) ==
  /\ cpc[c] = "notify"
  /\ exec' = exec \ {<<cTarget[c], cTask[c]>>}
  /\ EndRequest(c)
  /\ UNCHANGED <<table, robots, dispatcher, subscriber, offlineEvents, reports,
                 bounds, credit>>

(* The update fails (the request answers 500), or the notice is lost.      *)
CancelFault(c) ==
  /\ cpc[c] \in {"checked", "notify"} /\ Fault
  /\ EndRequest(c)
  /\ UNCHANGED <<table, robots, dispatcher, subscriber, offlineEvents, field, credit>>

-----------------------------------------------------------------------------
(* The dispatch loop.                                                      *)

(* Mutant: tasks already handed out are fetched again. *)
IsPendingOrRunning(t) == status[t] \in {"pending", "running"}
IsPending(t) == status[t] = "pending"

ListPending ==
  LET pending == {t \in Tasks : IsPending(t)} IN
  /\ dpc = "idle" /\ pending # {}
  /\ batch' = pending
  /\ bTarget' = [t \in Tasks |-> IF t \in pending THEN target[t] ELSE NoRobot]
  /\ dpc' = "listed"
  /\ UNCHANGED <<table, robots, view, dTask, dRobot, subscriber, requests,
                 offlineEvents, field, bounds, credit>>

ToIdle ==
  /\ dpc' = "idle" /\ batch' = {}
  /\ bTarget' = [t \in Tasks |-> NoRobot]
  /\ view' = [r \in Robots |-> "offline"]
  /\ UNCHANGED <<dTask, dRobot>>

GetRobots ==
  /\ dpc = "listed"
  /\ IF \A r \in Robots : robots[r] = "offline"
       THEN ToIdle
       ELSE /\ view' = robots /\ dpc' = "loop"
            /\ UNCHANGED <<batch, bTarget, dTask, dRobot>>
  /\ UNCHANGED <<table, robots, subscriber, requests, offlineEvents, field,
                 bounds, credit>>

GetRobotsFault ==
  /\ dpc = "listed" /\ Fault /\ ToIdle
  /\ UNCHANGED <<table, robots, subscriber, requests, offlineEvents, field, credit>>

(* ORDER BY priority, created_at: ids are handed out in creation order.    *)
Precedes(t, u) == Priority[t] < Priority[u] \/ (Priority[t] = Priority[u] /\ t < u)
IsNext(t) == t \in batch /\ \A u \in batch \ {t} : Precedes(t, u)

(* A named robot is used when it is online; otherwise select_best_robot.   *)
Candidates(t) ==
  IF bTarget[t] # NoRobot
    THEN {r \in {bTarget[t]} : view[r] # "offline"}
    ELSE {r \in Capable[t] : view[r] = "ready"}

AssignRobot(t, r) ==
  /\ dpc = "loop" /\ IsNext(t) /\ r \in Candidates(t)
  /\ target' = [target EXCEPT ![t] = r]
  /\ batch' = batch \ {t}
  /\ dpc' = "assigned" /\ dTask' = t /\ dRobot' = r
  /\ UNCHANGED <<status, retry, robots, bTarget, view, subscriber, requests,
                 offlineEvents, field, bounds, credit>>

(* Mutant: a task that cannot be placed ends the pass. *)
SkipAll(t) ==
  /\ dpc = "loop" /\ IsNext(t) /\ Candidates(t) = {}
  /\ batch' = {}
  /\ UNCHANGED <<table, robots, dpc, bTarget, view, dTask, dRobot, subscriber,
                 requests, offlineEvents, field, bounds, credit>>

SkipTask(t) ==
  /\ dpc = "loop" /\ IsNext(t) /\ Candidates(t) = {}
  /\ batch' = batch \ {t}
  /\ UNCHANGED <<table, robots, dpc, bTarget, view, dTask, dRobot, subscriber,
                 requests, offlineEvents, field, bounds, credit>>

AssignFault(t) ==
  /\ dpc = "loop" /\ IsNext(t) /\ Fault
  /\ batch' = batch \ {t}
  /\ UNCHANGED <<table, robots, dpc, bTarget, view, dTask, dRobot, subscriber,
                 requests, offlineEvents, field, credit>>

SetRunning ==
  /\ dpc = "assigned"
  /\ status' = [status EXCEPT ![dTask] = "running"]
  /\ credit' = [credit EXCEPT ![dTask] = @ - 1]
  /\ dpc' = "started"
  /\ UNCHANGED <<target, retry, robots, batch, bTarget, view, dTask, dRobot,
                 subscriber, requests, offlineEvents, field, bounds>>

(* Mutant: the task in hand is not let go. *)
NextTaskKeepsHold == dpc' = "loop" /\ UNCHANGED <<dTask, dRobot>>
NextTask == dpc' = "loop" /\ dTask' = NoTask /\ dRobot' = NoRobot

PublishTask ==
  /\ dpc = "started"
  /\ exec' = exec \cup {<<dRobot, dTask>>}
  /\ NextTask
  /\ UNCHANGED <<table, robots, batch, bTarget, view, subscriber, requests,
                 offlineEvents, reports, bounds, credit>>

(* update_task_status fails, or the publish fails or reaches nobody.       *)
DispatchFault ==
  /\ dpc \in {"assigned", "started"} /\ Fault
  /\ NextTask
  /\ UNCHANGED <<table, robots, batch, bTarget, view, subscriber, requests,
                 offlineEvents, field, credit>>

EndPass ==
  /\ dpc = "loop" /\ batch = {}
  /\ ToIdle
  /\ UNCHANGED <<table, robots, subscriber, requests, offlineEvents, field,
                 bounds, credit>>

-----------------------------------------------------------------------------
(* The subscriber to robot.*.task_status: one message at a time.           *)

ReceiveCompleted(m) ==
  /\ spc = "idle" /\ m[2] = "completed"
  /\ reports' = reports \ {m}
  /\ status' = [status EXCEPT ![m[1]] = "completed"]
  /\ UNCHANGED <<target, retry, robots, dispatcher, subscriber, requests,
                 offlineEvents, exec, bounds, credit>>

CanRetry(t) == retry[t] < MaxRetries[t]

(* set_task_failed reads the row ...                                       *)
ReceiveFailed(m) ==
  /\ spc = "idle" /\ m[2] = "failed"
  /\ reports' = reports \ {m}
  /\ spc' = "decide" /\ sTask' = m[1] /\ sCan' = CanRetry(m[1])
  /\ UNCHANGED <<table, robots, dispatcher, requests, offlineEvents, exec,
                 bounds, credit>>

ToWaiting == spc' = "idle" /\ sTask' = NoTask /\ sCan' = FALSE

(* ... and then writes what it decided on that row.                        *)
RetryTask ==
  /\ spc = "decide" /\ sCan
  /\ retry' = [retry EXCEPT ![sTask] = @ + 1]
  /\ status' = [status EXCEPT ![sTask] = "pending"]
  /\ credit' = [credit EXCEPT ![sTask] = @ + 1]
  /\ ToWaiting
  /\ UNCHANGED <<target, robots, dispatcher, requests, offlineEvents, field,
                 bounds>>

FailTask ==
  /\ spc = "decide" /\ ~sCan
  /\ status' = [status EXCEPT ![sTask] = "failed"]
  /\ ToWaiting
  /\ UNCHANGED <<target, retry, robots, dispatcher, requests, offlineEvents, field,
                 bounds, credit>>

DecideFault ==
  /\ spc = "decide" /\ Fault /\ ToWaiting
  /\ UNCHANGED <<table, robots, dispatcher, requests, offlineEvents, field, credit>>

(* A report is lost under way or its first SQL statement fails.            *)
LoseReport(m) ==
  /\ Fault
  /\ reports' = reports \ {m}
  /\ UNCHANGED <<table, robots, dispatcher, subscriber, requests, offlineEvents,
                 exec, credit>>

-----------------------------------------------------------------------------
(* The subscriber to internal.device.status, and the device manager.       *)

(* One UPDATE re-queues every running task of the robot; its short_id was  *)
(* looked up before, and never changes.                                    *)
(* Mutant: the UPDATE without AND status=1, on tasks not yet finished. *)
IsBound(t, r) == target[t] = r /\ status[t] \in {"pending", "running"}
IsStranded(t, r) == target[t] = r /\ status[t] = "running"

HandleOffline(r) ==
  /\ r \in offlineEvents
  /\ offlineEvents' = offlineEvents \ {r}
  /\ status' = [t \in Tasks |-> IF IsStranded(t, r) THEN "pending" ELSE status[t]]
  /\ target' = [t \in Tasks |-> IF IsStranded(t, r) THEN NoRobot ELSE target[t]]
  /\ credit' = [t \in Tasks |-> credit[t] + (IF IsStranded(t, r) THEN 1 ELSE 0)]
  /\ UNCHANGED <<retry, robots, dispatcher, subscriber, requests, field, bounds>>

LoseOfflineEvent(r) ==
  /\ r \in offlineEvents /\ Fault
  /\ offlineEvents' = offlineEvents \ {r}
  /\ UNCHANGED <<table, robots, dispatcher, subscriber, requests, field, credit>>

(* mark_offline, then the event; an event still unread is not doubled.     *)
MarkOffline(r) ==
  /\ robots[r] # "offline" /\ offlines < MaxOfflines
  /\ offlines' = offlines + 1 /\ UNCHANGED faults
  /\ robots' = [robots EXCEPT ![r] = "offline"]
  /\ offlineEvents' = offlineEvents \cup {r}
  /\ UNCHANGED <<table, dispatcher, subscriber, requests, field, credit>>

Heartbeat(r) ==
  /\ \E row \in Rows[r] : robots' = [robots EXCEPT ![r] = row]
  /\ UNCHANGED <<table, dispatcher, subscriber, requests, offlineEvents, field,
                 bounds, credit>>

-----------------------------------------------------------------------------
(* The robots.  A report names the task, not the robot or the attempt; one *)
(* like it that is still unread is waited for.                             *)

Report(r, t, v) ==
  /\ <<r, t>> \in exec /\ <<t, v>> \notin reports
  /\ exec' = exec \ {<<r, t>>}
  /\ reports' = reports \cup {<<t, v>>}
  /\ UNCHANGED <<table, robots, dispatcher, subscriber, requests, offlineEvents,
                 bounds, credit>>

RobotRestart(r) ==
  /\ Fault
  /\ exec' = {e \in exec : e[1] # r}
  /\ UNCHANGED <<table, robots, dispatcher, subscriber, requests, offlineEvents,
                 reports, credit>>

-----------------------------------------------------------------------------
Dispatch ==
  \/ ListPending \/ GetRobots \/ SetRunning \/ PublishTask \/ EndPass
  \/ \E t \in Tasks : SkipTask(t) \/ (\E r \in Robots : AssignRobot(t, r))

Cancel(c) == (\E t \in Tasks : CheckCancel(c, t)) \/ ApplyCancel(c) \/ NotifyCancel(c)

Subscribe ==
  \/ \E m \in reports : ReceiveCompleted(m) \/ ReceiveFailed(m)
  \/ RetryTask \/ FailTask

Faulty ==
  \/ GetRobotsFault \/ DispatchFault \/ DecideFault
  \/ \E t \in Tasks : AssignFault(t)
  \/ \E c \in Clients : CancelFault(c)
  \/ \E m \in reports : LoseReport(m)
  \/ \E r \in Robots : LoseOfflineEvent(r) \/ RobotRestart(r)

Next ==
  \/ \E t \in Tasks : CreateTask(t)
  \/ \E c \in Clients : Cancel(c)
  \/ Dispatch
  \/ Subscribe
  \/ \E r \in Robots : HandleOffline(r) \/ MarkOffline(r) \/ Heartbeat(r)
  \/ \E r \in Robots, t \in Tasks, v \in Verdicts : Report(r, t, v)
  \/ Faulty

Spec == Init /\ [][Next]_vars

(* The spawned tokio tasks keep running and NATS keeps delivering; clients *)
(* and robots owe nothing.                                                 *)
Fairness ==
  /\ WF_vars(Dispatch) /\ WF_vars(Subscribe)
  /\ \A r \in Robots : WF_vars(HandleOffline(r))

FairSpec == Spec /\ Fairness
=============================================================================
