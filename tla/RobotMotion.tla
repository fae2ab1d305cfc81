---------------------------- MODULE RobotMotion ----------------------------
(***************************************************************************)
(* Driving: the motor, localization, comm_rx and offline tasks of the      *)
(* firmware, the queue q_cmd_incoming from which three of them read, the   *)
(* obstacle check with its hysteresis and the distance sensors behind it.  *)
(*                                                                         *)
(* One action is one turn of a task's loop; the motor task preempts the    *)
(* others on its core, so that its turn is not interrupted by another.     *)
(* The offline task may be preempted between a look and what it sends.     *)
(***************************************************************************)
EXTENDS Integers, Sequences, FiniteSetsExt

CONSTANTS
  Ranges,        \* millimetres that a sensor in reach can report; 0: nothing in range
  Durations,     \* turns of the motor task that a move may be asked for; 0: no end
  Dirs,          \* directions that commands ask for
  QueueDepth,    \* Q_CMD_INCOMING_DEPTH
  ExploreTurns,  \* turns of the offline task from one rotation to the next
  TofTurns,      \* turns of localization from one ToF correction to the next
  StopCm, SlowCm, SafeCm

(* config.h:147-149 *)
ASSUME ThresholdsAssumption ==
  StopCm \in Nat /\ SlowCm \in Nat /\ SafeCm \in Nat /\ 0 < StopCm /\ StopCm < SlowCm /\ SlowCm < SafeCm
(* The distance given for the rear in centimetres is read as millimetres.  *)
ASSUME RearAssumption == (SafeCm + 1) \div 10 \in 1..StopCm
ASSUME RangesAssumption == Ranges \subseteq Nat
ASSUME MovesAssumption == Durations \subseteq Nat /\ QueueDepth \in Nat /\ ExploreTurns \in Nat /\ TofTurns \in Nat \ {0}

VARIABLES
  queue,     \* q_cmd_incoming
  mot,       \* what the motor task keeps: mode, dir, left, estop, wound
  wheels,    \* what it last wrote to L2, R1 and R2: "brake" all, "drive" some, or all "coast"
  shared,    \* what the channels of L1, which are those of the head, were last given
  hyst,      \* g_hyst: consecutive near and slow readings, saturated at HYSTERESIS_COUNT
  sight,     \* what the motor task's last obstacle_check had before it
  sensors,   \* the sensors that answer at the address they are read at
  loc,       \* localization: whether the last command taken is a move, whether there is a
             \* velocity, whether the pose has left the origin, the ToF cycle
  online,    \* whether the connection state is other than OFFLINE
  offline    \* g_offline_active, the turns since the last rotation, where the task is

vars == <<queue, mot, wheels, shared, hyst, sight, sensors, loc, online, offline>>

Motors == {"L1", "L2", "R1", "R2"}
Sensors == 1..3
Zones == {"front", "frontLeft", "frontRight", "rear"}

-----------------------------------------------------------------------------
(* Kinematics: forward, left and counterclockwise speed of each direction. *)
Twist ==
  [forward |-> <<1, 0, 0>>, backward |-> <<-1, 0, 0>>, left |-> <<0, 1, 0>>, right |-> <<0, -1, 0>>,
   forwardLeft |-> <<1, 1, 0>>, forwardRight |-> <<1, -1, 0>>,
   backwardLeft |-> <<-1, 1, 0>>, backwardRight |-> <<-1, -1, 0>>,
   rotateLeft |-> <<0, 0, 1>>, rotateRight |-> <<0, 0, -1>>, stop |-> <<0, 0, 0>>]
ASSUME DirsAssumption == Dirs \subseteq DOMAIN Twist /\ {"forward", "rotateLeft"} \subseteq Dirs

Wheel(d) ==
  LET x == Twist[d][1]  y == Twist[d][2]  w == Twist[d][3]
  IN  [L1 |-> x - y - w, L2 |-> x + y - w, R1 |-> x + y + w, R2 |-> x - y + w]
(* The wheels that turn, whatever the speed is scaled to.                  *)
Turning(d) == {m \in Motors : Wheel(d)[m] # 0}

(* command_to_velocity: only directional moves count as motion.            *)
Moves(c) == c.type = "move" /\ Twist[c.dir] # <<0, 0, 0>>

Move(d, n) == [type |-> "move", dir |-> d, ticks |-> n]
GoTo == [type |-> "goto", dir |-> "stop", ticks |-> 0]
Stop == [type |-> "stop", dir |-> "stop", ticks |-> 0]
Commands == {Move(d, n) : d \in Dirs, n \in Durations \cup {0, 1}} \cup {GoTo, Stop, Move("stop", 0)}

(* Mutant: a queue without an end.                                         *)
SentUnchecked(q, c) == Append(q, c)
(* xQueueSend(..., 0): a command that finds the queue full is lost.        *)
Sent(q, c) == IF Len(q) < QueueDepth THEN Append(q, c) ELSE q

-----------------------------------------------------------------------------
(* Distance sensors.  Holding a sensor in reset, as tof_init does with all *)
(* others while it sets one up, takes its new address from it again.       *)
ResetDuring(i) == Sensors \ {i}
Addressed(found) == {i \in found : \A j \in Sensors : j > i => i \notin ResetDuring(j)}
SensorsStart == {Addressed(found) : found \in SUBSET Sensors}

(* A sensor may fail to answer, be between measurements, or have one.      *)
NoRead == -1
Readings == [sensors -> Ranges \cup {NoRead}]
Mm(r, i) == IF i \in sensors /\ r[i] # NoRead THEN r[i] ELSE 0
Seen(r) == \E i \in sensors : r[i] # NoRead

(* map_tof_to_directions, in millimetres.                                  *)
Distance(r) ==
  [front |-> Min({Mm(r, i) : i \in Sensors}), frontLeft |-> Mm(r, 2), frontRight |-> Mm(r, 3),
   rear |-> SafeCm + 1]
Near(cm) == 0 < cm /\ cm <= StopCm
Slow(cm) == StopCm < cm /\ cm <= SlowCm

(* What there is before the sensors that can be read.                      *)
Sight(r) ==
  IF ~Seen(r) THEN "blind"
  ELSE IF \E i \in Sensors : Near(Mm(r, i) \div 10) THEN "near" ELSE "clear"

HysteresisCount == 2
Counted(n, hit) == IF ~hit THEN 0 ELSE IF n < HysteresisCount THEN n + 1 ELSE n

(* obstacle_check: counters are left as they are when no sensor was read,  *)
(* and nothing counts as an obstacle then.                                 *)
Checked(h, r) ==
  IF ~Seen(r) THEN h
  ELSE LET d == Distance(r)
       IN  [stop |-> [z \in Zones |-> Counted(h.stop[z], Near(d[z] \div 10))],
            slow |-> [z \in Zones |-> Counted(h.slow[z], Slow(d[z] \div 10))]]
Emergency(h, r) == Seen(r) /\ \E z \in Zones : h.stop[z] = HysteresisCount

-----------------------------------------------------------------------------
(* Start: all channels are set up by motor_init, the first two once more   *)
(* by servo_init, which comes later in app_main and gives them pulses for  *)
(* a head that looks ahead.                                                *)
MotorStart == [mode |-> "idle", dir |-> "stop", left |-> 0, estop |-> FALSE, wound |-> {}]
LocStart == [odom |-> FALSE, vel |-> FALSE, moved |-> FALSE, cycle |-> 0]
HystStart == [stop |-> [z \in Zones |-> 0], slow |-> [z \in Zones |-> 0]]
OfflineStart == [active |-> FALSE, turns |-> 0, step |-> "look"]

Init ==
  /\ queue = <<>>
  /\ mot = MotorStart /\ wheels = "coast" /\ shared = "head"
  /\ loc = LocStart
  /\ sensors \in SensorsStart
  /\ hyst = HystStart
  /\ sight = "none"
  /\ online = TRUE /\ offline = OfflineStart

-----------------------------------------------------------------------------
(* The motor task: a command, the obstacle check, emergency or motion.     *)

Elapsed(m) == IF m.left > 1 THEN [m EXCEPT !.left = @ - 1]
              ELSE IF m.left = 1 THEN [m EXCEPT !.left = -1] ELSE m

(* A direction command replaces a target, a target a direction command.    *)
(* left is 0 for a move without end and -1 for one whose time is up.       *)
Quiet(m) == [m EXCEPT !.mode = "idle", !.dir = "stop", !.left = 0]
Received(m, c) ==
  CASE c.type = "stop" -> [Quiet(m) EXCEPT !.wound = {}]
    [] c.type = "goto" -> [Quiet(m) EXCEPT !.mode = "goto"]
    [] c.type = "move" -> [m EXCEPT !.mode = "move", !.dir = c.dir, !.left = c.ticks]

(* Mutant: the brake leaves the controllers as they are.                   *)
HaltedWound(m) == [Quiet(m) EXCEPT !.estop = TRUE]
Halted(m) == [Quiet(m) EXCEPT !.estop = TRUE, !.wound = {}]
Alerted(m, danger) ==
  IF danger /\ ~m.estop THEN Halted(m) ELSE [m EXCEPT !.estop = danger]

Expired(m) == IF m.mode = "move" /\ m.left = -1 THEN Quiet(m) ELSE m

(* A target is reached when the pose is within 3 cm of it, which the       *)
(* origin is not; without a pose the wheels are given nothing this turn.   *)
Navigated(m) ==
  IF m.mode = "goto" /\ loc.moved THEN {m, [Quiet(m) EXCEPT !.wound = {}]} ELSE {m}
Targets(m) ==
  IF m.mode = "goto" THEN {{}, Motors}
  ELSE IF m.mode = "move" THEN {Turning(m.dir)} ELSE {{}}

(* The controllers keep their integral and last error until a brake: a     *)
(* wheel that was driven may go on turning with its target back at zero,   *)
(* and one with a small target may not turn.                               *)
PidOutput(wound) == IF wound = {} THEN {0} ELSE {0, 1}
(* set_motor_pwm: one pin pulsed, or both low.  What is full duty for the  *)
(* timer of the other wheels, 1023, is a short pulse for the timer that    *)
(* servo_init gave the channels of L1: it can be pulsed, but not braked.   *)
Pwm(duty) == IF duty = 0 THEN "coast" ELSE "drive"
PwmL1(duty) == IF duty = 0 THEN "low" ELSE "pulse"

Motion(m) ==
  \E n \in Navigated(m) : \E t \in Targets(n) :
    LET w == n.wound \cup t
    IN  /\ mot' = [n EXCEPT !.wound = w]
        /\ \E duty \in PidOutput(w \ {"L1"}) : wheels' = Pwm(duty)
        /\ \E duty \in PidOutput(w \cap {"L1"}) : shared' = PwmL1(duty)

(* Mutant: a turn of an emergency that goes on writes zero to the wheels.  *)
StandstillCoasts(m, braked) ==
  mot' = m /\ wheels' = (IF braked THEN "brake" ELSE "coast") /\ UNCHANGED shared
(* brake_all writes all channels, when emergency begins or a stop comes in *)
(* the middle of one.  The rest of such a turn is skipped.                 *)
Standstill(m, braked) ==
  /\ mot' = m
  /\ IF braked THEN wheels' = "brake" /\ shared' = "pulse" ELSE UNCHANGED <<wheels, shared>>

MotorTurn ==
  /\ \E r \in Readings :
       LET came == queue # <<>>
           c    == IF came THEN Head(queue) ELSE Stop
           m    == IF came THEN Received(Elapsed(mot), c) ELSE Elapsed(mot)
           h    == Checked(hyst, r)
           a    == Alerted(m, Emergency(h, r))
       IN  /\ queue' = IF came THEN Tail(queue) ELSE queue
           /\ hyst' = h
           /\ sight' = Sight(r)
           /\ IF a.estop
              THEN Standstill(a, ~m.estop \/ (came /\ c.type = "stop"))
              ELSE Motion(Expired(a))
  /\ UNCHANGED <<sensors, loc, online, offline>>

-----------------------------------------------------------------------------
(* task_servo_ctrl pulses the channels of the head while it moves, which   *)
(* the idle animation and touches have it do at any time.                  *)
HeadTurn ==
  /\ shared' = "head"
  /\ UNCHANGED <<queue, mot, wheels, hyst, sight, sensors, loc, online, offline>>

-----------------------------------------------------------------------------
(* Localization takes commands from the queue as the motor task does, and  *)
(* integrates the velocity of the last one for ever.                       *)

(* ekf_predict: the position integrates the velocity; the commanded one    *)
(* blends into it and fades, but never to zero.                            *)
Predicted(p) == [p EXCEPT !.moved = @ \/ p.vel, !.vel = @ \/ p.odom]
(* apply_tof_correction may nudge the position, every TofTurns turns.      *)
Corrected(p) ==
  IF p.cycle + 1 < TofTurns THEN {[p EXCEPT !.cycle = @ + 1]}
  ELSE {[p EXCEPT !.cycle = 0], [p EXCEPT !.cycle = 0, !.moved = TRUE]}

LocalizationTurn ==
  LET came == queue # <<>>
      p    == IF came THEN [loc EXCEPT !.odom = Moves(Head(queue))] ELSE loc
  IN  /\ queue' = IF came THEN Tail(queue) ELSE queue
      /\ \E e \in {Predicted(p), p} : \E f \in Corrected(e) : loc' = f
      /\ UNCHANGED <<mot, wheels, shared, hyst, sight, sensors, online, offline>>

-----------------------------------------------------------------------------
(* A restart forgets everything.                                           *)
Restart ==
  /\ queue' = <<>>
  /\ mot' = MotorStart /\ wheels' = "coast" /\ shared' = "head"
  /\ loc' = LocStart
  /\ sensors' \in SensorsStart
  /\ hyst' = HystStart
  /\ sight' = "none"
  /\ offline' = OfflineStart
  /\ UNCHANGED online

(* The queue's items are bcp_command_t, which do not fit the motor_cmd_t   *)
(* that the motor task and localization receive into: the copy runs over   *)
(* what follows on the stack.  That is harmless, or the task crashes or no *)
(* longer comes back to its watchdog.                                      *)
Overrun == queue # <<>> /\ Restart

(* comm_rx takes a command for a frame: what it reads as the number of     *)
(* commands is the low byte of a direction or of a target, and what        *)
(* follows is left over memory, a RESET if it comes to that.               *)
CommandsIn(c) == c.type = "goto" \/ (c.type = "move" /\ c.dir # "forward")

CommRxTurn ==
  /\ queue # <<>>
  /\ \/ /\ queue' = Tail(queue)
        /\ UNCHANGED <<mot, wheels, shared, hyst, sight, sensors, loc, online, offline>>
     \/ CommandsIn(Head(queue)) /\ Restart

-----------------------------------------------------------------------------
(* The offline task explores while there is no connection, and stops the   *)
(* robot when there is one again.  It checks for obstacles on its own,     *)
(* decides, and then sends; a second check, for the log, goes with that.   *)

OfflineLook ==
  /\ offline.step = "look"
  /\ \/ /\ ~online
        /\ \E r \in Readings :
             /\ hyst' = Checked(hyst, r)
             /\ offline' = [offline EXCEPT !.active = TRUE,
                                           !.step = IF Emergency(hyst', r) THEN "stop" ELSE "explore"]
     \/ /\ online /\ offline.active
        /\ offline' = [offline EXCEPT !.active = FALSE, !.step = "leave"]
        /\ UNCHANGED hyst
  /\ UNCHANGED <<queue, mot, wheels, shared, sight, sensors, loc, online>>

Logged == {hyst} \cup {Checked(hyst, r) : r \in Readings}
Rotations == Dirs \cap {"rotateLeft", "rotateRight"}

OfflineSend ==
  /\ \/ /\ offline.step \in {"stop", "leave"}
        /\ queue' = Sent(queue, Stop)
        /\ offline' = [offline EXCEPT !.step = "look"]
     \/ /\ offline.step = "explore" /\ offline.turns < ExploreTurns
        /\ queue' = Sent(queue, Move("forward", 0))
        /\ offline' = [offline EXCEPT !.step = "look", !.turns = @ + 1]
     \/ /\ offline.step = "explore" /\ offline.turns = ExploreTurns
        /\ \E d \in Rotations : queue' = Sent(queue, Move(d, 1))
        /\ offline' = [offline EXCEPT !.step = "look", !.turns = 0]
  /\ IF offline.step = "leave" THEN UNCHANGED hyst ELSE hyst' \in Logged
  /\ UNCHANGED <<mot, wheels, shared, sight, sensors, loc, online>>

(* Words for an offline robot, by command, direction and speed.  What is   *)
(* looked up is the command alone, so that every movement is the first of  *)
(* the table, and lights and status leave the motors alone.                *)
Keywords ==
  <<[id |-> 1, dir |-> "stop", speed |-> 0], [id |-> 1, dir |-> "forward", speed |-> 60],
    [id |-> 1, dir |-> "forward", speed |-> 60], [id |-> 1, dir |-> "rotateLeft", speed |-> 80],
    [id |-> 1, dir |-> "forward", speed |-> 30], [id |-> 1, dir |-> "forward", speed |-> 20],
    [id |-> 2, dir |-> "stop", speed |-> 255], [id |-> 2, dir |-> "stop", speed |-> 0],
    [id |-> 255, dir |-> "stop", speed |-> 0]>>
Executed(k, q) == IF k.id = 1 THEN Sent(q, Move(k.dir, IF k.speed = 0 THEN 0 ELSE 1)) ELSE q

OfflineCommand ==
  /\ \E n \in 1..Len(Keywords) :
       /\ \A i \in 1..(n - 1) : Keywords[i].id # Keywords[n].id
       /\ queue' = Executed(Keywords[n], queue)
  /\ UNCHANGED <<mot, wheels, shared, hyst, sight, sensors, loc, online, offline>>

(* What a connected robot is told to do.                                   *)
Command ==
  /\ online
  /\ \E c \in Commands : Len(queue) < QueueDepth /\ queue' = Sent(queue, c)
  /\ UNCHANGED <<mot, wheels, shared, hyst, sight, sensors, loc, online, offline>>

Connection ==
  /\ online' = ~online
  /\ UNCHANGED <<queue, mot, wheels, shared, hyst, sight, sensors, loc, offline>>

Next ==
  \/ MotorTurn \/ HeadTurn \/ LocalizationTurn \/ Overrun \/ CommRxTurn
  \/ OfflineLook \/ OfflineSend \/ OfflineCommand \/ Command \/ Connection

Spec == Init /\ [][Next]_vars
=============================================================================
