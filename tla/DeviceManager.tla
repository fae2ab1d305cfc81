--------------------------- MODULE DeviceManager ---------------------------
(***************************************************************************)
(* The device manager (services/device-manager): the subscriber to         *)
(* robot.*.heartbeat and the heartbeat monitor.                            *)
(*                                                                         *)
(* Each holds a mutex of its own around its clone of the Redis connection, *)
(* so nothing keeps them apart: they interleave at every Redis command,    *)
(* SQL statement and publish, each of which is one action here and may     *)
(* fail.  A status key is "fresh" until its last_heartbeat is older than   *)
(* heartbeat_timeout_secs, then "stale"; the TTL of 30 s is longer than    *)
(* the timeout (15 s unless configured), so only a stale key expires.      *)
(* Battery, signal strength, positions and sensor data are left out.       *)
(***************************************************************************)
EXTENDS Naturals

CONSTANTS
  Robots,          (* the machine_ids that send heartbeats                 *)
  NoRobot,
  MaxFaults        (* bound: failed commands and crashes in a behaviour    *)

ASSUME DeviceAssumption == NoRobot \notin Robots /\ MaxFaults \in Nat

VARIABLES
  row,                  (* robots.status in PostgreSQL                     *)
  key, ttl, online,     (* Redis: status keys, are they to expire, the set *)
  up,                   (* does the robot send heartbeats                  *)
  spc, sRobot,          (* the subscriber and the robot it is at           *)
  mpc, mRobot,          (* the monitor and the robot it marks              *)
  todo, overdue,        (* members left to check, those stale at its "now" *)
  told,                 (* was the scheduler told since the row was online *)
  faults                (* how much of the bound is used                   *)

cache == <<key, ttl, online>>
subscriber == <<spc, sRobot>>
monitor == <<mpc, mRobot, todo, overdue>>
vars == <<row, key, ttl, online, up, spc, sRobot, mpc, mRobot, todo, overdue,
          told, faults>>

Init ==
  /\ row = [r \in Robots |-> "absent"]
  /\ key = [r \in Robots |-> "none"]
  /\ ttl = [r \in Robots |-> FALSE]
  /\ online = {}
  /\ up = [r \in Robots |-> FALSE]
  /\ spc = "idle" /\ sRobot = NoRobot
  /\ mpc = "idle" /\ mRobot = NoRobot /\ todo = {} /\ overdue = {}
  /\ told = [r \in Robots |-> "yes"]
  /\ faults = 0

Fault == faults < MaxFaults /\ faults' = faults + 1

-----------------------------------------------------------------------------
(* The world: robots start and stop, time passes, clients use the API.     *)

Switch(r) ==
  /\ up' = [up EXCEPT ![r] = ~@]
  /\ UNCHANGED <<row, cache, subscriber, monitor, told, faults>>

Age(r) ==
  /\ key[r] = "fresh"
  /\ key' = [key EXCEPT ![r] = "stale"]
  /\ UNCHANGED <<row, ttl, online, up, subscriber, monitor, told, faults>>

Expire(r) ==
  /\ key[r] = "stale" /\ ttl[r]
  /\ key' = [key EXCEPT ![r] = "none"]
  /\ ttl' = [ttl EXCEPT ![r] = FALSE]
  /\ UNCHANGED <<row, online, up, subscriber, monitor, told, faults>>

(* The look before the INSERT can only refuse; UNIQUE decides.             *)
RegisterRobot(r) ==
  /\ row[r] = "absent"
  /\ row' = [row EXCEPT ![r] = "offline"]
  /\ told' = [told EXCEPT ![r] = "yes"]
  /\ UNCHANGED <<cache, up, subscriber, monitor, faults>>

(* The cache is not told of it.                                            *)
DeleteRobot(r) ==
  /\ row[r] # "absent"
  /\ row' = [row EXCEPT ![r] = "absent"]
  /\ UNCHANGED <<cache, up, subscriber, monitor, told, faults>>

-----------------------------------------------------------------------------
(* The heartbeat subscriber: one message at a time.                        *)

Receive(r) ==
  /\ spc = "idle" /\ up[r]
  /\ spc' = "set" /\ sRobot' = r
  /\ UNCHANGED <<row, cache, up, monitor, told, faults>>

(* SET drops the TTL; the heartbeat is younger than the monitor's "now".   *)
SetKey ==
  /\ spc = "set"
  /\ key' = [key EXCEPT ![sRobot] = "fresh"]
  /\ ttl' = [ttl EXCEPT ![sRobot] = FALSE]
  /\ overdue' = overdue \ {sRobot}
  /\ spc' = "sadd"
  /\ UNCHANGED <<row, online, up, sRobot, mpc, mRobot, todo, told, faults>>

AddOnline ==
  /\ spc = "sadd"
  /\ online' = online \cup {sRobot}
  /\ spc' = "expire"
  /\ UNCHANGED <<row, key, ttl, up, sRobot, monitor, told, faults>>

ArmTtl ==
  /\ spc = "expire"
  /\ ttl' = [ttl EXCEPT ![sRobot] = (key[sRobot] # "none")]
  /\ spc' = "db"
  /\ UNCHANGED <<row, key, online, up, sRobot, monitor, told, faults>>

(* set_online returns at the first error, and is only logged.              *)
SetOnlineFault ==
  /\ spc \in {"set", "sadd", "expire"} /\ Fault
  /\ spc' = "db"
  /\ UNCHANGED <<row, cache, up, sRobot, monitor, told>>

ToWaiting == spc' = "idle" /\ sRobot' = NoRobot

(* Mutant: the UPDATE only of rows that are online already.                *)
RefreshesOnline(r) == row[r] = "online"
Refreshes(r) == row[r] # "absent"

UpdateHeartbeat ==
  /\ spc = "db"
  /\ IF Refreshes(sRobot)
       THEN /\ row' = [row EXCEPT ![sRobot] = "online"]
            /\ told' = [told EXCEPT ![sRobot] = "no"]
       ELSE UNCHANGED <<row, told>>
  /\ ToWaiting
  /\ UNCHANGED <<cache, up, monitor, faults>>

UpdateHeartbeatFault ==
  /\ spc = "db" /\ Fault /\ ToWaiting
  /\ UNCHANGED <<row, cache, up, monitor, told>>

-----------------------------------------------------------------------------
(* The monitor.                                                            *)

Scan ==
  /\ mpc = "idle"
  /\ todo' = online
  /\ overdue' = {r \in online : key[r] = "stale"}
  /\ mpc' = "check"
  /\ UNCHANGED <<row, cache, up, subscriber, mRobot, told, faults>>

(* Mutant: a key that is gone is no reason to mark its robot.              *)
IsOverdue(r) == key[r] = "stale" /\ r \in overdue
IsSilent(r) == key[r] = "none" \/ (key[r] = "stale" /\ r \in overdue)

Check(r) ==
  /\ mpc = "check" /\ r \in todo
  /\ todo' = todo \ {r}
  /\ IF IsSilent(r) THEN mpc' = "srem" /\ mRobot' = r ELSE UNCHANGED <<mpc, mRobot>>
  /\ UNCHANGED <<row, cache, up, subscriber, overdue, told, faults>>

CheckFault(r) ==
  /\ mpc = "check" /\ r \in todo /\ Fault
  /\ todo' = todo \ {r}
  /\ UNCHANGED <<row, cache, up, subscriber, mpc, mRobot, overdue, told>>

Goto(p) == mpc' = p /\ UNCHANGED <<mRobot, todo, overdue>>

RemoveOnline ==
  /\ mpc = "srem"
  /\ online' = online \ {mRobot}
  /\ Goto("del")
  /\ UNCHANGED <<row, key, ttl, up, subscriber, told, faults>>

DeleteKey ==
  /\ mpc = "del"
  /\ key' = [key EXCEPT ![mRobot] = "none"]
  /\ ttl' = [ttl EXCEPT ![mRobot] = FALSE]
  /\ Goto("db")
  /\ UNCHANGED <<row, online, up, subscriber, told, faults>>

SetOfflineFault ==
  /\ mpc \in {"srem", "del"} /\ Fault
  /\ Goto("db")
  /\ UNCHANGED <<row, cache, up, subscriber, told>>

MarkOffline ==
  /\ mpc = "db"
  /\ row' = [row EXCEPT ![mRobot] = IF @ = "online" THEN "offline" ELSE @]
  /\ Goto("publish")
  /\ UNCHANGED <<cache, up, subscriber, told, faults>>

MarkOfflineFault ==
  /\ mpc = "db" /\ Fault /\ Goto("publish")
  /\ UNCHANGED <<row, cache, up, subscriber, told>>

(* Mutant: a robot that is in the online set again is not announced.       *)
AnnounceIfGone(r) == told' = IF r \in online THEN told ELSE [told EXCEPT ![r] = "yes"]
Announce(r) == told' = [told EXCEPT ![r] = "yes"]

(* Mutant: the robot just marked is not let go.                            *)
ToNextMemberKeepsHold == mpc' = "check" /\ UNCHANGED <<mRobot, todo, overdue>>
ToNextMember == mpc' = "check" /\ mRobot' = NoRobot /\ UNCHANGED <<todo, overdue>>

Publish ==
  /\ mpc = "publish"
  /\ Announce(mRobot)
  /\ ToNextMember
  /\ UNCHANGED <<row, cache, up, subscriber, faults>>

PublishFault ==
  /\ mpc = "publish" /\ Fault
  /\ told' = [told EXCEPT ![mRobot] = "lost"]
  /\ ToNextMember
  /\ UNCHANGED <<row, cache, up, subscriber>>

EndPass ==
  /\ mpc = "check" /\ todo = {}
  /\ mpc' = "idle" /\ overdue' = {}
  /\ UNCHANGED <<row, cache, up, subscriber, mRobot, todo, told, faults>>

-----------------------------------------------------------------------------
(* The process dies and is started again: PostgreSQL and Redis remain, a   *)
(* heartbeat in hand and an event not yet published are lost.              *)
Crash ==
  /\ Fault
  /\ told' = IF mpc = "publish" THEN [told EXCEPT ![mRobot] = "lost"] ELSE told
  /\ spc' = "idle" /\ sRobot' = NoRobot
  /\ mpc' = "idle" /\ mRobot' = NoRobot /\ todo' = {} /\ overdue' = {}
  /\ UNCHANGED <<row, cache, up>>

-----------------------------------------------------------------------------
Subscriber == SetKey \/ AddOnline \/ ArmTtl \/ UpdateHeartbeat

Monitor ==
  \/ Scan \/ RemoveOnline \/ DeleteKey \/ MarkOffline \/ Publish \/ EndPass
  \/ \E r \in Robots : Check(r)

Faulty ==
  \/ SetOnlineFault \/ UpdateHeartbeatFault
  \/ SetOfflineFault \/ MarkOfflineFault \/ PublishFault
  \/ (\E r \in Robots : CheckFault(r))
  \/ Crash

Next ==
  \/ \E r \in Robots : Switch(r) \/ Age(r) \/ Expire(r) \/ RegisterRobot(r) \/ DeleteRobot(r)
  \/ \E r \in Robots : Receive(r)
  \/ Subscriber \/ Monitor \/ Faulty

Spec == Init /\ [][Next]_vars

(* Both loops keep running and time passes.  Heartbeats queue up in the    *)
(* subscription, so each robot that keeps sending them has its turn again  *)
(* and again, although the subscriber is busy with others in between.      *)
FairSpec ==
  /\ Spec
  /\ WF_vars(Subscriber) /\ WF_vars(Monitor)
  /\ \A r \in Robots : WF_vars(Age(r)) /\ WF_vars(Expire(r)) /\ SF_vars(Receive(r))
=============================================================================
