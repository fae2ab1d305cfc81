--------------------------- MODULE RobotTelemetry ---------------------------
(***************************************************************************)
(* What a robot tells of itself: heartbeats as differences to the last     *)
(* one, log entries kept in a ring until they are asked for, errors at     *)
(* once, diagnostics, the queue of outgoing frames, and the log buffer     *)
(* beside them.                                                            *)
(*                                                                         *)
(* The operations are library calls without a lock; a caller is taken to   *)
(* finish one before the next begins.                                      *)
(***************************************************************************)
EXTENDS LogBuffer

CONSTANTS
  RingSize,    \* LOG_RING_SIZE
  MaxCmds,     \* BCP_MAX_CMDS_PER_FRAME
  QueueDepth,  \* Q_CMD_OUTGOING_DEPTH
  States,      \* status, battery, rssi and task of the robot
  DiagTypes,
  MaxEvents    \* bound: entries, heartbeats and frames together

(* A state has the four fields that are compared and no others.            *)
ASSUME StatesAssumption ==
  \A s \in States : s = [status |-> s.status, battery |-> s.battery, rssi |-> s.rssi, task |-> s.task]
ASSUME RingAssumption ==
  /\ RingSize \in Nat \ {0} /\ MaxCmds \in Nat \ {0} /\ QueueDepth \in Nat
  /\ MaxEvents \in Words  \* which are times, kept in two bytes

VARIABLES
  ring,    \* g_log_ring by index, g_log_head, g_log_tail, g_log_count
  frame,   \* the commands of the frame that a caller fills
  queue,   \* q_cmd_outgoing
  differ,  \* the heartbeat_differ_t: has_last and the last state
  shown,   \* the state that a receiver has made of the heartbeats
  missed,  \* whether one of them was lost since the last full one was made
  logged,  \* entries logged so far, which are numbered
  events

teleVars == <<ring, frame, queue, differ, shown, missed, logged, events>>
vars == <<bufVars, teleVars>>

-----------------------------------------------------------------------------
(* Commands: a log entry, a diagnosis, or a heartbeat.                     *)
LogCmd(n) == [kind |-> "log", entry |-> n]
DiagCmd(t) == [kind |-> "diag", about |-> t]
BeatCmd(d) == [kind |-> "beat", delta |-> d]

(* Mutant: a full frame takes another command.                            *)
PushedUnchecked(f, c) == Append(f, c)
Pushed(f, c) == IF Len(f) < MaxCmds THEN Append(f, c) ELSE f
Beats(f) == \E i \in DOMAIN f : f[i].kind = "beat"

-----------------------------------------------------------------------------
NoState == [has |-> FALSE]
Has(s) == [has |-> TRUE, last |-> s]
Full(s) == [type |-> "full", state |-> s]

(* Mutant: the strength of the signal is not compared.                     *)
DiffedDeaf(d, s) ==
  IF ~d.has \/ d.last.status # s.status \/ d.last.task # s.task THEN Full(s)
  ELSE IF d.last.battery = s.battery THEN [type |-> "noChange"]
  ELSE [type |-> "batteryOnly", battery |-> s.battery]

(* heartbeat_differ_diff                                                   *)
Diffed(d, s) ==
  IF ~d.has \/ d.last.status # s.status \/ d.last.rssi # s.rssi \/ d.last.task # s.task THEN Full(s)
  ELSE IF d.last.battery = s.battery THEN [type |-> "noChange"]
  ELSE [type |-> "batteryOnly", battery |-> s.battery]

(* What a receiver makes of one that is not the first.                     *)
Applied(s, d) ==
  IF d.type = "full" THEN Has(d.state)
  ELSE IF d.type = "batteryOnly" /\ s.has THEN [s EXCEPT !.last.battery = d.battery] ELSE s
AppliedCmd(s, c) == IF c.kind = "beat" THEN Applied(s, c.delta) ELSE s
AllApplied(s, f) ==
  LET after[n \in 0..Len(f)] == IF n = 0 THEN s ELSE AppliedCmd(after[n - 1], f[n])
  IN  after[Len(f)]

-----------------------------------------------------------------------------
Init ==
  /\ BufferInit
  /\ ring = [slots |-> [i \in 0..(RingSize - 1) |-> 0], head |-> 0, tail |-> 0, count |-> 0]
  /\ frame = <<>> /\ queue = <<>>
  /\ differ = NoState /\ shown = NoState /\ missed = FALSE
  /\ logged = 0 /\ events = 0

(* Indices that run around the ring.                                       *)
Wrap(i) == IF i < RingSize THEN i ELSE i - RingSize

(* A heartbeat that finds the frame full is lost, and the differ believes  *)
(* it sent.                                                                *)
Heartbeat ==
  \E s \in States :
    LET d == Diffed(differ, s)
    IN  /\ frame' = Pushed(frame, BeatCmd(d))
        /\ missed' = (Len(frame) >= MaxCmds \/ (missed /\ d.type # "full"))
        /\ differ' = Has(s)
        /\ UNCHANGED <<bufVars, ring, queue, shown, logged>>

(* log_event: an error is sent at once besides.                            *)
(* Mutant: the oldest entry stays the first when it is overwritten.        *)
StoredUnmoved(r, n) ==
  [slots |-> [r.slots EXCEPT ![r.head] = n], head |-> Wrap(r.head + 1), tail |-> r.tail,
   count |-> IF r.count < RingSize THEN r.count + 1 ELSE r.count]
Stored(r, n) ==
  [slots |-> [r.slots EXCEPT ![r.head] = n], head |-> Wrap(r.head + 1),
   tail |-> IF r.count < RingSize THEN r.tail ELSE Wrap(r.tail + 1),
   count |-> IF r.count < RingSize THEN r.count + 1 ELSE r.count]

LogEvent ==
  /\ logged' = logged + 1
  /\ ring' = Stored(ring, logged + 1)
  /\ queue' \in {queue, IF Len(queue) < QueueDepth THEN Append(queue, <<LogCmd(logged + 1)>>) ELSE queue}
  /\ UNCHANGED <<bufVars, frame, differ, shown, missed>>

-----------------------------------------------------------------------------
(* log_upload_response takes an entry before it looks whether the frame    *)
(* has had its number of them.                                             *)
Lesser(a, b) == IF a < b THEN a ELSE b
(* Mutant: all entries are taken.                                          *)
TakenAll == ring.count
Taken == Lesser(ring.count, MaxCmds + 1)
Told == Lesser(Lesser(ring.count, MaxCmds), MaxCmds - Len(frame))
Oldest(i) == ring.slots[Wrap(ring.tail + i)]

LogResponse ==
  /\ frame' = frame \o [i \in 1..Told |-> LogCmd(Oldest(i - 1))]
  /\ ring' = [ring EXCEPT !.tail = Wrap(@ + Taken), !.count = @ - Taken]
  /\ UNCHANGED <<bufVars, queue, differ, shown, missed, logged>>

DiagResponse ==
  /\ \E t \in DiagTypes : frame' = Pushed(frame, DiagCmd(t))
  /\ UNCHANGED <<bufVars, ring, queue, differ, shown, missed, logged>>

(* The caller hands the frame over; a full queue drops it.                 *)
Post ==
  /\ frame # <<>>
  /\ queue' = IF Len(queue) < QueueDepth THEN Append(queue, frame) ELSE queue
  /\ missed' = (missed \/ (Len(queue) >= QueueDepth /\ Beats(frame)))
  /\ frame' = <<>>
  /\ UNCHANGED <<bufVars, ring, differ, shown, logged>>

(* comm_tx: the frame arrives or does not.                                 *)
Transmit ==
  /\ queue # <<>>
  /\ queue' = Tail(queue)
  /\ \/ shown' = AllApplied(shown, Head(queue)) /\ UNCHANGED missed
     \/ missed' = (missed \/ Beats(Head(queue))) /\ UNCHANGED shown
  /\ UNCHANGED <<bufVars, ring, frame, differ, logged, events>>

(* The log buffer, with which the others have nothing to do.               *)
Buffer ==
  /\ \/ \E m \in Messages : LogAppend(events + 1, m)
     \/ LogClear
  /\ UNCHANGED <<ring, frame, queue, differ, shown, missed, logged>>

Next ==
  \/ /\ events < MaxEvents /\ events' = events + 1
     /\ Heartbeat \/ LogEvent \/ LogResponse \/ DiagResponse \/ Post \/ Buffer
  \/ Transmit

Spec == Init /\ [][Next]_vars
=============================================================================
