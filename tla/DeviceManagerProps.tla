------------------------- MODULE DeviceManagerProps -------------------------
(***************************************************************************)
(* What the device manager keeps.                                          *)
(***************************************************************************)
EXTENDS DeviceManager

(* The type invariant; a robot is in hand exactly while it is worked on.   *)
TypeOK ==
  /\ row \in [Robots -> {"absent", "offline", "online"}]
  /\ key \in [Robots -> {"none", "fresh", "stale"}]
  /\ ttl \in [Robots -> BOOLEAN] /\ \A r \in Robots : ttl[r] => key[r] # "none"
  /\ online \subseteq Robots
  /\ up \in [Robots -> BOOLEAN]
  /\ spc \in {"idle", "set", "sadd", "expire", "db"}
  /\ sRobot \in Robots \cup {NoRobot} /\ (spc = "idle" <=> sRobot = NoRobot)
  /\ mpc \in {"idle", "check", "srem", "del", "db", "publish"}
  /\ mRobot \in Robots \cup {NoRobot}
  /\ (mpc \in {"srem", "del", "db", "publish"} <=> mRobot # NoRobot)
  /\ todo \subseteq Robots /\ overdue \subseteq Robots
  /\ told \in [Robots -> {"no", "yes", "lost"}]
  /\ faults \in Nat

(* A robot that stands offline in the table was announced as offline since *)
(* it was last online, or is about to be, or the announcement was lost on  *)
(* its way: heartbeats that come while the monitor marks the robot, failed *)
(* Redis commands and failed statements do not make it forget one.         *)
OfflineIsTold ==
  \A r \in Robots :
    row[r] = "offline" => told[r] # "no" \/ (mpc = "publish" /\ mRobot = r)

(* A robot that falls silent leaves the set of online robots, whatever     *)
(* the monitor and the subscriber were doing and whichever commands fail.  *)
SilentLeavesSet ==
  \A r \in Robots : <>[](~up[r]) => <>[](r \notin online)

(* A robot that keeps sending heartbeats is online in the table again and  *)
(* again, whatever false alarm took it offline.                            *)
LiveComesBack ==
  \A r \in Robots : <>[](up[r] /\ row[r] # "absent") => []<>(row[r] = "online")
=============================================================================
