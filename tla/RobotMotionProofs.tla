------------------------- MODULE RobotMotionProofs -------------------------
(***************************************************************************)
(* Proofs about driving, for any ranges, moves, queue and thresholds.      *)
(***************************************************************************)
EXTENDS RobotMotionProps, TLAPS

Blocks == {"front", "frontLeft"}

(* What only the last sensor answering comes to.                           *)
OnlyLast == sensors \subseteq {3}
(* A robot that saw has counted the rear at least once.                    *)
SeenCounts == sight \in Sees => hyst.stop["rear"] >= 1
(* The brake leaves the controllers nothing to go on with.                 *)
Unwound == mot.estop => mot.wound = {}
IInv == TypeOK /\ OnlyLast /\ BrakedInEmergency /\ BlindAhead /\ SeenCounts /\ Unwound

-----------------------------------------------------------------------------
(* Helpers.                                                                *)

(* A sensor that comes up keeps its address only if none comes up later.   *)
LEMMA LastKeepsAddress == ASSUME NEW s \in SensorsStart PROVE s \subseteq {3}
  <1>1. PICK found \in SUBSET Sensors : s = Addressed(found)
    BY DEF SensorsStart
  <1>2. ASSUME NEW i \in s PROVE i = 3
    <2>1. i \in 1..3 /\ \A j \in Sensors : j > i => i \notin ResetDuring(j)
      BY <1>1 DEF Addressed, Sensors
    <2>2. 3 > i => i \notin Sensors \ {3}
      BY <2>1 DEF Sensors, ResetDuring
    <2> QED BY <2>1, <2>2 DEF Sensors
  <1> QED BY <1>2

(* The commands that tasks send are commands of the queue.                 *)
LEMMA SentTypes ==
  /\ Stop \in Commands /\ GoTo \in Commands /\ Move("stop", 0) \in Commands
  /\ \A d \in Dirs : Move(d, 0) \in Commands /\ Move(d, 1) \in Commands
  BY DEF Commands, Move, GoTo, Stop

(* What a command looks like.                                              *)
LEMMA CommandTypes ==
  ASSUME NEW c \in Commands
  PROVE  c.type \in {"move", "goto", "stop"} /\ (c.type = "move" => c.dir \in Dirs \cup {"stop"}) /\ c.ticks \in Int
  <1>1. CASE c \in {GoTo, Stop, Move("stop", 0)}
    BY <1>1 DEF GoTo, Stop, Move
  <1>2. CASE \E d \in Dirs, n \in Durations \cup {0, 1} : c = Move(d, n)
    BY <1>2, MovesAssumption DEF Move
  <1> QED BY <1>1, <1>2 DEF Commands

LEMMA SentIn ==
  ASSUME NEW q \in Seq(Commands), Len(q) <= QueueDepth, NEW c \in Commands
  PROVE  Sent(q, c) \in Seq(Commands) /\ Len(Sent(q, c)) <= QueueDepth
  BY MovesAssumption DEF Sent

LEMMA HeadTailIn ==
  ASSUME NEW q \in Seq(Commands), Len(q) <= QueueDepth, q # <<>>
  PROVE  Head(q) \in Commands /\ Tail(q) \in Seq(Commands) /\ Len(Tail(q)) <= QueueDepth
  BY MovesAssumption

Hysts == [stop : [Zones -> 0..HysteresisCount], slow : [Zones -> 0..HysteresisCount]]
Blind(h) == \A z \in Blocks : h.stop[z] = 0 /\ h.slow[z] = 0

(* Whatever is measured, the counters stay in their range, and with at     *)
(* most the last sensor those for ahead and the left stay at zero.         *)
LEMMA CheckedTypes ==
  ASSUME NEW h \in Hysts, NEW r
  PROVE  Checked(h, r) \in Hysts
  <1>1. ASSUME NEW n \in 0..HysteresisCount, NEW b PROVE Counted(n, b) \in 0..HysteresisCount
    BY DEF Counted, HysteresisCount
  <1> QED BY <1>1 DEF Checked, Hysts

(* Every check that sees counts the rear.                                  *)
LEMMA RearGrows ==
  ASSUME NEW h \in Hysts, NEW r
  PROVE  /\ Checked(h, r).stop["rear"] >= h.stop["rear"]
         /\ Seen(r) => Checked(h, r).stop["rear"] >= 1
         /\ Seen(r) /\ h.stop["rear"] >= 1 => Checked(h, r).stop["rear"] = HysteresisCount
  <1>1. Near(Distance(r)["rear"] \div 10)
    <2>1. Distance(r)["rear"] = SafeCm + 1
      BY DEF Distance
    <2> QED BY <2>1, RearAssumption, ThresholdsAssumption DEF Near
  <1>2. h.stop["rear"] \in 0..2
    BY DEF Hysts, Zones, HysteresisCount
  <1>3. CASE Seen(r)
    <2>1. Checked(h, r).stop["rear"] = Counted(h.stop["rear"], Near(Distance(r)["rear"] \div 10))
      BY <1>3 DEF Checked, Zones
    <2>2. Checked(h, r).stop["rear"] = IF h.stop["rear"] < 2 THEN h.stop["rear"] + 1 ELSE h.stop["rear"]
      BY <1>1, <2>1 DEF Counted, HysteresisCount
    <2> QED BY <1>2, <2>2 DEF HysteresisCount
  <1>4. CASE ~Seen(r)
    BY <1>2, <1>4 DEF Checked
  <1> QED BY <1>3, <1>4

LEMMA NothingAhead ==
  ASSUME sensors \subseteq {3}, NEW r \in Readings, NEW h \in Hysts, Blind(h)
  PROVE  Blind(Checked(h, r))
  <1> DEFINE S == {Mm(r, i) : i \in Sensors}
  <1>1. \A i \in Sensors : Mm(r, i) \in Nat
    BY RangesAssumption DEF Mm, Readings, NoRead, Sensors
  <1>2. Mm(r, 2) = 0
    BY DEF Mm
  <1>3. 0 \in S /\ \A x \in S : x \in Nat /\ 0 <= x
    BY <1>1, <1>2 DEF Sensors
  <1>4. Min(S) = 0
    <2>1. Min(S) \in S /\ \A y \in S : Min(S) <= y
      BY <1>3 DEF Min
    <2> HIDE DEF S
    <2> QED BY <2>1, <1>3
  <1>5. \A z \in Blocks : Distance(r)[z] = 0
    BY <1>2, <1>4 DEF Distance, Blocks
  <1>6. ~Near(0 \div 10) /\ ~Slow(0 \div 10)
    BY ThresholdsAssumption DEF Near, Slow
  <1>7. \A z \in Blocks : /\ Counted(h.stop[z], Near(Distance(r)[z] \div 10)) = 0
                          /\ Counted(h.slow[z], Slow(Distance(r)[z] \div 10)) = 0
    BY <1>5, <1>6 DEF Counted
  <1>8. Blocks \subseteq Zones
    BY DEF Blocks, Zones
  <1> QED BY <1>7, <1>8 DEF Checked, Blind

LEMMA SightIs ==
  ASSUME NEW r
  PROVE  Sight(r) \in {"none", "blind", "clear", "near"} /\ (Sight(r) \in Sees <=> Seen(r))
  BY DEF Sight, Sees

LEMMA BlindIs == BlindAhead <=> Blind(hyst)
  BY DEF BlindAhead, Blind, Blocks

-----------------------------------------------------------------------------
(* The state of the motor task.                                            *)

Mots == [mode : Modes, dir : Dirs \cup {"stop"}, left : Int, estop : BOOLEAN, wound : SUBSET Motors]

LEMMA QuietTypes ==
  ASSUME NEW m \in Mots
  PROVE  Quiet(m) \in Mots /\ Quiet(m).estop = m.estop /\ Quiet(m).wound = m.wound
  <1>1. [m EXCEPT !.mode = "idle"] \in Mots
    BY DEF Mots, Modes
  <1>2. [m EXCEPT !.mode = "idle", !.dir = "stop"] \in Mots
    BY DEF Mots, Modes
  <1>3. 0 \in Int
    OBVIOUS
  <1>4. Quiet(m) = [[[m EXCEPT !.mode = "idle"] EXCEPT !.dir = "stop"] EXCEPT !.left = 0]
    BY DEF Quiet, Mots
  <1> QED BY <1>1, <1>2, <1>3, <1>4 DEF Mots, Modes

LEMMA ElapsedTypes ==
  ASSUME NEW m \in Mots
  PROVE  Elapsed(m) \in Mots /\ Elapsed(m).estop = m.estop /\ Elapsed(m).wound = m.wound
  BY DEF Mots, Elapsed

LEMMA ReceivedTypes ==
  ASSUME NEW m \in Mots, NEW c \in Commands
  PROVE  /\ Received(m, c) \in Mots /\ Received(m, c).estop = m.estop
         /\ m.wound = {} => Received(m, c).wound = {}
  <1>1. Quiet(m) \in Mots /\ Quiet(m).estop = m.estop /\ Quiet(m).wound = m.wound
    BY QuietTypes
  <1>2. CASE c.type = "stop"
    BY <1>1, <1>2 DEF Received, Mots
  <1>3. CASE c.type = "goto"
    BY <1>1, <1>3 DEF Received, Mots, Modes
  <1>4. CASE c.type = "move"
    BY <1>4, CommandTypes DEF Received, Mots, Modes
  <1> QED BY <1>2, <1>3, <1>4, CommandTypes

LEMMA AlertedTypes ==
  ASSUME NEW m \in Mots, NEW danger \in BOOLEAN
  PROVE  /\ Alerted(m, danger) \in Mots /\ Alerted(m, danger).estop = danger
         /\ m.wound = {} \/ (danger /\ ~m.estop) => Alerted(m, danger).wound = {}
  BY QuietTypes DEF Alerted, Halted, Mots

LEMMA ExpiredTypes ==
  ASSUME NEW m \in Mots
  PROVE  Expired(m) \in Mots /\ Expired(m).estop = m.estop /\ Expired(m).wound = m.wound
  BY QuietTypes DEF Expired

LEMMA MotionTypes ==
  ASSUME NEW m \in Mots, Motion(m)
  PROVE  /\ mot' \in Mots /\ mot'.estop = m.estop
         /\ wheels' \in {"coast", "drive"} /\ shared' \in {"low", "pulse"}
         /\ m.wound = {} /\ mot'.mode = "idle" => wheels' = "coast"
  <1>1. PICK n \in Navigated(m) : \E t \in Targets(n) :
          LET w == n.wound \cup t
          IN  /\ mot' = [n EXCEPT !.wound = w]
              /\ \E duty \in PidOutput(w \ {"L1"}) : wheels' = Pwm(duty)
              /\ \E duty \in PidOutput(w \cap {"L1"}) : shared' = PwmL1(duty)
    BY DEF Motion
  <1>2. PICK t \in Targets(n) :
          /\ mot' = [n EXCEPT !.wound = n.wound \cup t]
          /\ \E duty \in PidOutput((n.wound \cup t) \ {"L1"}) : wheels' = Pwm(duty)
          /\ \E duty \in PidOutput((n.wound \cup t) \cap {"L1"}) : shared' = PwmL1(duty)
    BY <1>1
  <1>3. n \in Mots /\ n.estop = m.estop /\ (m.wound = {} => n.wound = {})
    BY QuietTypes DEF Navigated, Mots
  <1>4. t \subseteq Motors
    BY DEF Targets, Turning
  <1>5. mot' \in Mots /\ mot'.estop = m.estop /\ mot'.mode = n.mode
    BY <1>2, <1>3, <1>4 DEF Mots
  <1>6. wheels' \in {"coast", "drive"} /\ shared' \in {"low", "pulse"}
    BY <1>2 DEF Pwm, PwmL1
  <1>7. ASSUME m.wound = {}, mot'.mode = "idle" PROVE wheels' = "coast"
    <2>1. t = {}
      BY <1>5, <1>7 DEF Targets
    <2>2. (n.wound \cup t) \ {"L1"} = {}
      BY <1>3, <1>7, <2>1
    <2>3. PICK duty \in PidOutput({}) : wheels' = Pwm(duty)
      BY <1>2, <2>2
    <2> QED BY <2>3 DEF PidOutput, Pwm
  <1> QED BY <1>5, <1>6, <1>7

-----------------------------------------------------------------------------
(* A turn of the motor task, taken apart.                                  *)
LEMMA TurnIs ==
  ASSUME IInv, MotorTurn
  PROVE  \E r \in Readings :
           /\ hyst' = Checked(hyst, r) /\ sight' = Sight(r)
           /\ queue' \in Seq(Commands) /\ Len(queue') <= QueueDepth
           /\ mot' \in Mots /\ mot'.estop = Emergency(hyst', r)
           /\ shared' \in {"low", "pulse", "head"}
           /\ IF mot'.estop THEN wheels' = "brake" /\ mot'.wound = {} ELSE wheels' \in {"coast", "drive"}
           /\ mot.estop /\ ~mot'.estop /\ mot'.mode = "idle" => wheels' = "coast"
  <1>1. mot \in Mots /\ queue \in Seq(Commands) /\ Len(queue) <= QueueDepth
    BY DEF IInv, TypeOK, Mots
  <1> DEFINE came == queue # <<>>
             c == IF came THEN Head(queue) ELSE Stop
             m == IF came THEN Received(Elapsed(mot), c) ELSE Elapsed(mot)
  <1>2. PICK r \in Readings :
          LET h == Checked(hyst, r)
              a == Alerted(m, Emergency(h, r))
          IN  /\ queue' = IF came THEN Tail(queue) ELSE queue
              /\ hyst' = h
              /\ sight' = Sight(r)
              /\ IF a.estop
                 THEN Standstill(a, ~m.estop \/ (came /\ c.type = "stop"))
                 ELSE Motion(Expired(a))
    BY DEF MotorTurn
  <1> DEFINE a == Alerted(m, Emergency(hyst', r))
  <1>3. m \in Mots /\ m.estop = mot.estop /\ (mot.wound = {} => m.wound = {})
    BY <1>1, HeadTailIn, ElapsedTypes, ReceivedTypes
  <1>4. queue' \in Seq(Commands) /\ Len(queue') <= QueueDepth
    BY <1>1, <1>2, HeadTailIn
  <1>5. Emergency(hyst', r) \in BOOLEAN
    BY DEF Emergency
  <1> HIDE DEF m
  <1>6. a \in Mots /\ a.estop = Emergency(hyst', r)
    BY <1>3, <1>5, AlertedTypes
  <1>7. m.wound = {} \/ (a.estop /\ ~m.estop) => a.wound = {}
    BY <1>3, <1>5, <1>6, AlertedTypes
  <1>8. mot.estop => m.wound = {}
    BY <1>3 DEF IInv, Unwound
  <1> HIDE DEF a, c, came
  <1>9. CASE a.estop
    <2>1. /\ mot' = a
          /\ IF ~m.estop \/ (came /\ c.type = "stop")
             THEN wheels' = "brake" /\ shared' = "pulse" ELSE wheels' = wheels /\ shared' = shared
      BY <1>2, <1>9 DEF Standstill, a
    <2>2. wheels' = "brake" /\ shared' \in {"low", "pulse", "head"}
      BY <2>1, <1>3 DEF IInv, BrakedInEmergency, TypeOK
    <2>3. a.wound = {}
      BY <1>3, <1>7, <1>8, <1>9
    <2> QED BY <1>2, <1>4, <1>6, <1>9, <2>1, <2>2, <2>3
  <1>10. CASE ~a.estop
    <2>1. Motion(Expired(a))
      BY <1>2, <1>10 DEF a
    <2>2. Expired(a) \in Mots /\ Expired(a).estop = a.estop /\ Expired(a).wound = a.wound
      BY <1>6, ExpiredTypes
    <2>3. /\ mot' \in Mots /\ mot'.estop = a.estop
          /\ wheels' \in {"coast", "drive"} /\ shared' \in {"low", "pulse"}
          /\ a.wound = {} /\ mot'.mode = "idle" => wheels' = "coast"
      BY <2>1, <2>2, MotionTypes
    <2> QED BY <1>2, <1>4, <1>6, <1>7, <1>8, <1>10, <2>3
  <1> QED BY <1>9, <1>10

-----------------------------------------------------------------------------
(* Every command that is queued is one, so that the queue keeps its type.  *)
OfflineType == [active : BOOLEAN, turns : 0..ExploreTurns, step : {"look", "stop", "explore", "leave"}]

LEMMA OfflineLooks ==
  ASSUME IInv, OfflineLook
  PROVE  /\ offline' \in OfflineType
         /\ hyst' \in Hysts /\ Blind(hyst') /\ hyst'.stop["rear"] >= hyst.stop["rear"]
  <1>1. offline \in OfflineType /\ hyst \in Hysts /\ sensors \subseteq {3} /\ Blind(hyst)
    BY BlindIs DEF IInv, TypeOK, OnlyLast, Hysts, OfflineType
  <1>2. hyst.stop["rear"] \in Int
    BY <1>1 DEF Hysts, Zones, HysteresisCount
  <1>3. CASE online /\ offline' = [offline EXCEPT !.active = FALSE, !.step = "leave"] /\ UNCHANGED hyst
    <2>1. offline' \in OfflineType
      BY <1>1, <1>3 DEF OfflineType
    <2>2. hyst' = hyst
      BY <1>3
    <2> QED BY <1>1, <1>2, <2>1, <2>2
  <1>4. ASSUME NEW r \in Readings, hyst' = Checked(hyst, r),
               offline' = [offline EXCEPT !.active = TRUE,
                                          !.step = IF Emergency(hyst', r) THEN "stop" ELSE "explore"]
        PROVE  /\ offline' \in OfflineType
               /\ hyst' \in Hysts /\ Blind(hyst') /\ hyst'.stop["rear"] >= hyst.stop["rear"]
    <2>1. offline' \in OfflineType
      BY <1>1, <1>4 DEF OfflineType
    <2> QED BY <1>1, <1>4, <2>1, CheckedTypes, NothingAhead, RearGrows
  <1> QED BY <1>3, <1>4 DEF OfflineLook

LEMMA OfflineSends ==
  ASSUME IInv, OfflineSend
  PROVE  /\ queue' \in Seq(Commands) /\ Len(queue') <= QueueDepth /\ offline' \in OfflineType
         /\ hyst' \in Hysts /\ Blind(hyst') /\ hyst'.stop["rear"] >= hyst.stop["rear"]
  <1>1. /\ offline \in OfflineType /\ hyst \in Hysts /\ sensors \subseteq {3} /\ Blind(hyst)
        /\ queue \in Seq(Commands) /\ Len(queue) <= QueueDepth
    BY BlindIs DEF IInv, TypeOK, OnlyLast, Hysts, OfflineType
  <1>2. hyst.stop["rear"] \in Int
    BY <1>1 DEF Hysts, Zones, HysteresisCount
  <1>3. hyst' \in Hysts /\ Blind(hyst') /\ hyst'.stop["rear"] >= hyst.stop["rear"]
    <2>1. hyst' = hyst \/ \E r \in Readings : hyst' = Checked(hyst, r)
      BY DEF OfflineSend, Logged
    <2> QED BY <1>1, <1>2, <2>1, CheckedTypes, NothingAhead, RearGrows
  <1>4. CASE queue' = Sent(queue, Stop) /\ offline' = [offline EXCEPT !.step = "look"]
    BY <1>1, <1>3, <1>4, SentIn, SentTypes DEF OfflineType
  <1>5. CASE /\ offline.turns < ExploreTurns /\ queue' = Sent(queue, Move("forward", 0))
             /\ offline' = [offline EXCEPT !.step = "look", !.turns = @ + 1]
    <2>1. offline.turns + 1 \in 0..ExploreTurns
      BY <1>1, <1>5, MovesAssumption DEF OfflineType
    <2>2. offline' \in OfflineType
      BY <1>1, <1>5, <2>1 DEF OfflineType
    <2>3. Move("forward", 0) \in Commands
      BY SentTypes, DirsAssumption
    <2> QED BY <1>1, <1>3, <1>5, <2>2, <2>3, SentIn
  <1>6. CASE /\ \E d \in Rotations : queue' = Sent(queue, Move(d, 1))
             /\ offline' = [offline EXCEPT !.step = "look", !.turns = 0]
    <2>1. 0 \in 0..ExploreTurns
      BY MovesAssumption
    <2>2. offline' \in OfflineType
      BY <1>1, <1>6, <2>1 DEF OfflineType
    <2>3. PICK d \in Dirs : queue' = Sent(queue, Move(d, 1))
      BY <1>6 DEF Rotations
    <2>4. Move(d, 1) \in Commands
      BY SentTypes
    <2> QED BY <1>1, <1>3, <2>2, <2>3, <2>4, SentIn
  <1> QED BY <1>4, <1>5, <1>6 DEF OfflineSend

(* Only the first entry of a command is found, and of the first of each    *)
(* command only the movement sends one.                                    *)
LEMMA KeywordSends ==
  ASSUME IInv, OfflineCommand
  PROVE  queue' \in Seq(Commands) /\ Len(queue') <= QueueDepth
  <1>1. PICK n \in 1..Len(Keywords) :
          /\ \A i \in 1..(n - 1) : Keywords[i].id # Keywords[n].id
          /\ queue' = Executed(Keywords[n], queue)
    BY DEF OfflineCommand
  <1>2. Len(Keywords) = 9 /\ Keywords[1] = [id |-> 1, dir |-> "stop", speed |-> 0]
    BY DEF Keywords
  <1>3. n > 1 => Keywords[n].id # 1
    <2> SUFFICES ASSUME n > 1 PROVE Keywords[n].id # 1
      OBVIOUS
    <2>1. 1 \in 1..(n - 1)
      OBVIOUS
    <2>2. Keywords[1].id # Keywords[n].id
      BY <1>1, <2>1
    <2> QED BY <1>2, <2>2
  <1>4. queue' \in {queue, Sent(queue, Move("stop", 0))}
    <2>1. CASE n = 1
      BY <1>1, <1>2, <2>1 DEF Executed
    <2>2. CASE n > 1
      BY <1>1, <1>3, <2>2 DEF Executed
    <2>3. n = 1 \/ n > 1
      OBVIOUS
    <2> QED BY <2>1, <2>2, <2>3
  <1>5. queue \in Seq(Commands) /\ Len(queue) <= QueueDepth
    BY DEF IInv, TypeOK
  <1>6. Sent(queue, Move("stop", 0)) \in Seq(Commands) /\ Len(Sent(queue, Move("stop", 0))) <= QueueDepth
    BY <1>5, SentIn, SentTypes
  <1> QED BY <1>4, <1>5, <1>6

LEMMA LocTypes ==
  ASSUME IInv, LocalizationTurn
  PROVE  loc' \in [odom : BOOLEAN, vel : BOOLEAN, moved : BOOLEAN, cycle : 0..(TofTurns - 1)]
  <1> DEFINE L == [odom : BOOLEAN, vel : BOOLEAN, moved : BOOLEAN, cycle : 0..(TofTurns - 1)]
             p == IF queue # <<>> THEN [loc EXCEPT !.odom = Moves(Head(queue))] ELSE loc
  <1>1. p \in L
    BY DEF IInv, TypeOK, Moves
  <1>2. PICK e \in {Predicted(p), p} : \E f \in Corrected(e) : loc' = f
    BY DEF LocalizationTurn
  <1> HIDE DEF p
  <1>3. e \in L
    BY <1>1, <1>2 DEF Predicted
  <1>4. e.cycle \in 0..(TofTurns - 1) /\ TofTurns \in Nat /\ TofTurns > 0
    BY <1>3, MovesAssumption
  <1>5. [e EXCEPT !.cycle = 0] \in L /\ [e EXCEPT !.cycle = 0, !.moved = TRUE] \in L
    <2>1. 0 \in 0..(TofTurns - 1)
      BY <1>4
    <2>2. [e EXCEPT !.cycle = 0] \in L
      BY <1>3, <2>1
    <2>3. [e EXCEPT !.cycle = 0, !.moved = TRUE] = [[e EXCEPT !.cycle = 0] EXCEPT !.moved = TRUE]
      BY <1>3
    <2> QED BY <2>2, <2>3
  <1>6. e.cycle + 1 < TofTurns => [e EXCEPT !.cycle = @ + 1] \in L
    BY <1>3, <1>4
  <1> QED BY <1>2, <1>5, <1>6 DEF Corrected

-----------------------------------------------------------------------------
LEMMA Starts ==
  /\ MotorStart \in Mots /\ MotorStart.estop = FALSE /\ MotorStart.wound = {}
  /\ LocStart \in [odom : BOOLEAN, vel : BOOLEAN, moved : BOOLEAN, cycle : 0..(TofTurns - 1)]
  /\ HystStart \in Hysts /\ Blind(HystStart)
  /\ OfflineStart \in OfflineType
  /\ <<>> \in Seq(Commands) /\ Len(<<>>) <= QueueDepth
  BY MovesAssumption DEF MotorStart, Mots, Modes, LocStart, HystStart, Hysts, HysteresisCount,
     Blind, Blocks, Zones, OfflineStart, OfflineType

LEMMA InitInv == Init => IInv
  <1> SUFFICES ASSUME Init PROVE IInv
    OBVIOUS
  <1>1. sensors \subseteq {3} /\ sensors \subseteq Sensors
    BY LastKeepsAddress DEF Init, Sensors
  <1>2. BlindAhead
    BY Starts, BlindIs DEF Init
  <1>3. TypeOK
    BY <1>1, Starts DEF Init, TypeOK, Mots, Hysts, OfflineType
  <1> QED BY <1>1, <1>2, <1>3, Starts DEF Init, IInv, OnlyLast, BrakedInEmergency, SeenCounts, Sees, Unwound

LEMMA RestartInv == IInv /\ Restart => IInv'
  <1> SUFFICES ASSUME IInv, Restart PROVE IInv'
    OBVIOUS
  <1>1. sensors' \subseteq {3} /\ sensors' \subseteq Sensors
    BY LastKeepsAddress DEF Restart, Sensors
  <1>2. BlindAhead'
    BY Starts DEF Restart, BlindAhead, Blind, Blocks
  <1>3. TypeOK'
    BY <1>1, Starts DEF Restart, IInv, TypeOK, Mots, Hysts, OfflineType
  <1> QED BY <1>1, <1>2, <1>3, Starts DEF Restart, IInv, OnlyLast, BrakedInEmergency, SeenCounts, Sees, Unwound

LEMMA NextInv == IInv /\ [Next]_vars => IInv'
  <1> SUFFICES ASSUME IInv, [Next]_vars PROVE IInv'
    OBVIOUS
  <1> USE DEF IInv
  <1>1. hyst \in Hysts /\ sensors \subseteq {3} /\ Blind(hyst)
    BY BlindIs DEF TypeOK, OnlyLast, Hysts
  <1>2. CASE MotorTurn
    <2>1. PICK r \in Readings :
            /\ hyst' = Checked(hyst, r) /\ sight' = Sight(r)
            /\ queue' \in Seq(Commands) /\ Len(queue') <= QueueDepth
            /\ mot' \in Mots /\ mot'.estop = Emergency(hyst', r)
            /\ shared' \in {"low", "pulse", "head"}
            /\ IF mot'.estop THEN wheels' = "brake" /\ mot'.wound = {} ELSE wheels' \in {"coast", "drive"}
      BY <1>2, TurnIs
    <2>2. hyst' \in Hysts /\ Blind(hyst')
      BY <1>1, <2>1, CheckedTypes, NothingAhead
    <2>3. TypeOK'
      BY <1>2, <2>1, <2>2, SightIs DEF TypeOK, MotorTurn, Mots, Hysts
    <2>4. BrakedInEmergency' /\ Unwound'
      BY <2>1 DEF BrakedInEmergency, Unwound
    <2>5. SeenCounts'
      BY <1>1, <2>1, RearGrows, SightIs DEF SeenCounts
    <2> QED BY <1>2, <2>2, <2>3, <2>4, <2>5 DEF MotorTurn, OnlyLast, BlindAhead, Blind, Blocks
  <1>3. CASE HeadTurn
    BY <1>3 DEF HeadTurn, TypeOK, OnlyLast, BrakedInEmergency, BlindAhead, SeenCounts, Unwound
  <1>4. CASE LocalizationTurn
    <2>1. queue' \in Seq(Commands) /\ Len(queue') <= QueueDepth
      BY <1>4, HeadTailIn DEF LocalizationTurn, TypeOK
    <2>2. UNCHANGED <<mot, wheels, shared, hyst, sight, sensors, online, offline>>
      BY <1>4 DEF LocalizationTurn
    <2>3. loc' \in [odom : BOOLEAN, vel : BOOLEAN, moved : BOOLEAN, cycle : 0..(TofTurns - 1)]
      BY <1>4, LocTypes
    <2> QED BY <2>1, <2>2, <2>3 DEF TypeOK, OnlyLast, BrakedInEmergency, BlindAhead, SeenCounts, Unwound
  <1>5. CASE Overrun
    BY <1>5, RestartInv DEF Overrun
  <1>6. CASE CommRxTurn
    <2>1. CASE queue' = Tail(queue) /\ UNCHANGED <<mot, wheels, shared, hyst, sight, sensors, loc, online, offline>>
      BY <1>6, <2>1, HeadTailIn DEF CommRxTurn, TypeOK, OnlyLast, BrakedInEmergency, BlindAhead, SeenCounts, Unwound
    <2> QED BY <1>6, <2>1, RestartInv DEF CommRxTurn
  <1>7. CASE OfflineLook
    <2>1. /\ offline' \in OfflineType /\ hyst' \in Hysts /\ Blind(hyst')
          /\ hyst'.stop["rear"] >= hyst.stop["rear"]
      BY <1>7, OfflineLooks
    <2>2. SeenCounts'
      <3>1. hyst.stop["rear"] \in Int /\ hyst'.stop["rear"] \in Int
        BY <1>1, <2>1 DEF Hysts, Zones, HysteresisCount
      <3>2. sight' = sight
        BY <1>7 DEF OfflineLook
      <3> QED BY <2>1, <3>1, <3>2 DEF SeenCounts
    <2> QED BY <1>7, <2>1, <2>2 DEF OfflineLook, OfflineType, Hysts, Blind, Blocks, TypeOK, OnlyLast, BrakedInEmergency, BlindAhead, SeenCounts, Unwound
  <1>8. CASE OfflineSend
    <2>1. /\ queue' \in Seq(Commands) /\ Len(queue') <= QueueDepth /\ offline' \in OfflineType
          /\ hyst' \in Hysts /\ Blind(hyst') /\ hyst'.stop["rear"] >= hyst.stop["rear"]
      BY <1>8, OfflineSends
    <2>2. SeenCounts'
      <3>1. hyst.stop["rear"] \in Int /\ hyst'.stop["rear"] \in Int
        BY <1>1, <2>1 DEF Hysts, Zones, HysteresisCount
      <3>2. sight' = sight
        BY <1>8 DEF OfflineSend
      <3> QED BY <2>1, <3>1, <3>2 DEF SeenCounts
    <2> QED BY <1>8, <2>1, <2>2 DEF OfflineSend, OfflineType, Hysts, Blind, Blocks, TypeOK, OnlyLast, BrakedInEmergency, BlindAhead, SeenCounts, Unwound
  <1>9. CASE OfflineCommand
    BY <1>9, KeywordSends DEF OfflineCommand, TypeOK, OnlyLast, BrakedInEmergency, BlindAhead, SeenCounts, Unwound
  <1>10. CASE Command
    <2>1. queue' \in Seq(Commands) /\ Len(queue') <= QueueDepth
      BY <1>10, SentIn DEF Command, TypeOK
    <2> QED BY <1>10, <2>1 DEF Command, TypeOK, OnlyLast, BrakedInEmergency, BlindAhead, SeenCounts, Unwound
  <1>11. CASE Connection
    BY <1>11 DEF Connection, TypeOK, OnlyLast, BrakedInEmergency, BlindAhead, SeenCounts, Unwound
  <1>12. CASE UNCHANGED vars
    BY <1>12 DEF vars, TypeOK, OnlyLast, BrakedInEmergency, BlindAhead, SeenCounts, Unwound
  <1> QED BY <1>2, <1>3, <1>4, <1>5, <1>6, <1>7, <1>8, <1>9, <1>10, <1>11, <1>12 DEF Next

(* A second look finds the rear counted once, and counts it again.         *)
LEMMA LookStep ==
  IInv /\ [Next]_vars =>
    [MotorTurn /\ sight \in Sees /\ sight' \in Sees => wheels' = "brake"]_vars
  <1> SUFFICES ASSUME IInv, MotorTurn, sight \in Sees, sight' \in Sees
               PROVE  wheels' = "brake"
    OBVIOUS
  <1>1. PICK r \in Readings :
          /\ hyst' = Checked(hyst, r) /\ sight' = Sight(r)
          /\ mot'.estop = Emergency(hyst', r)
          /\ IF mot'.estop THEN wheels' = "brake" /\ mot'.wound = {} ELSE wheels' \in {"coast", "drive"}
    BY TurnIs
  <1>2. Seen(r)
    BY <1>1, SightIs
  <1>3. hyst \in Hysts /\ hyst.stop["rear"] >= 1
    BY DEF IInv, TypeOK, Hysts, SeenCounts
  <1>4. hyst'.stop["rear"] = HysteresisCount
    BY <1>1, <1>2, <1>3, RearGrows
  <1>5. Emergency(hyst', r)
    BY <1>2, <1>4 DEF Emergency, Zones
  <1> QED BY <1>1, <1>5

(* Only the motor task ends an emergency, with its controllers unwound,    *)
(* or a restart does, which has the wheels coast.                          *)
LEMMA ResumeStep ==
  IInv /\ [Next]_vars => [mot.estop /\ ~mot'.estop /\ mot'.mode = "idle" => wheels' = "coast"]_vars
  <1> SUFFICES ASSUME IInv, Next, mot.estop, ~mot'.estop, mot'.mode = "idle"
               PROVE  wheels' = "coast"
    OBVIOUS
  <1>1. CASE MotorTurn
    BY <1>1, TurnIs
  <1>2. CASE Restart
    BY <1>2 DEF Restart
  <1>3. CASE UNCHANGED mot
    BY <1>3
  <1> QED BY <1>1, <1>2, <1>3 DEF Next, HeadTurn, LocalizationTurn, Overrun, CommRxTurn, OfflineLook, OfflineSend,
             OfflineCommand, Command, Connection

-----------------------------------------------------------------------------
LEMMA Invariance == Spec => []IInv
  BY InitInv, NextInv, PTL DEF Spec

(* Every variable keeps its type: the queue holds no more commands than    *)
(* its depth, and the counters stay in their range.                        *)
THEOREM TypeCorrect == Spec => []TypeOK
  BY Invariance, PTL DEF IInv

(* The three wheels with channels of their own are braked exactly in an    *)
(* emergency, for queues, moves and thresholds of any size.                *)
THEOREM EmergencyBrakes == Spec => []BrakedInEmergency
  BY Invariance, PTL DEF IInv

(* After an emergency those wheels are driven only for a command taken     *)
(* since it began.                                                         *)
THEOREM EmergencyEndsMove == Spec => NothingResumes
  BY Invariance, ResumeStep, PTL DEF Spec, NothingResumes

(* What disagrees with tof.c:4-5: for any sensors found and any ranges     *)
(* measured, nothing straight ahead or on the left is ever taken for an    *)
(* obstacle.                                                               *)
THEOREM NothingIsAhead == Spec => []BlindAhead
  BY Invariance, PTL DEF IInv

(* The extent of what OnlyForObstacles is refuted by: a robot that sees in *)
(* two turns one after the other brakes, for any ranges, thresholds and    *)
(* commands, whatever is around it.                                        *)
THEOREM SecondLook == Spec => SecondLookBrakes
  BY Invariance, LookStep, PTL DEF Spec, SecondLookBrakes
=============================================================================
