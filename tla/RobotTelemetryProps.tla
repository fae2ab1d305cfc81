------------------------ MODULE RobotTelemetryProps ------------------------
(* What the telemetry of a robot is to keep: log entries in their order,   *)
(* heartbeats that add up, and a log buffer that gives back what is in it. *)
EXTENDS RobotTelemetry

Commands ==
  [kind : {"log"}, entry : Nat] \cup [kind : {"diag"}, about : DiagTypes]
    \cup [kind : {"beat"},
          delta : [type : {"full"}, state : States] \cup [type : {"noChange"}]
                    \cup [type : {"batteryOnly"}, battery : {s.battery : s \in States}]]
Frames == {f \in Seq(Commands) : Len(f) <= MaxCmds}

(* What a receiver may know, and what the log buffer's readers find.       *)
Views ==
  {NoState} \cup
  [has : {TRUE}, last : [status : {s.status : s \in States}, battery : {s.battery : s \in States},
                         rssi : {s.rssi : s \in States}, task : {s.task : s \in States}]]
Entries == [time : Words, level : Bytes, tag : Seq(Bytes \ {0}), msg : Seq(Bytes \ {0})]

(* The indices stay in the ring, no frame grows beyond its commands, the   *)
(* queue beyond its depth, nor the place to write beyond the buffer.       *)
TypeOK ==
  /\ buf \in [0..(BufSize - 1) -> Bytes] /\ writePos \in 0..BufSize /\ entries \in Nat
  /\ fresh \in Seq(Entries)
  /\ ring \in [slots : [0..(RingSize - 1) -> Nat], head : 0..(RingSize - 1),
               tail : 0..(RingSize - 1), count : 0..RingSize]
  /\ frame \in Frames
  /\ queue \in Seq(Frames) /\ Len(queue) <= QueueDepth
  /\ differ \in {NoState} \cup {Has(s) : s \in States}
  /\ shown \in Views /\ missed \in BOOLEAN /\ logged \in Nat /\ events \in 0..MaxEvents

(* The ring holds the newest entries in the order they were logged, up to  *)
(* the last one, however often it has gone round and been emptied: what is *)
(* lost is the oldest, never one between two that are kept.                *)
RingIsNewest ==
  /\ ring.head = Wrap(ring.tail + ring.count)
  /\ ring.count <= logged
  /\ \A i \in 0..(ring.count - 1) : Oldest(i) = logged - ring.count + 1 + i

(* An answer to a request for logs tells the oldest entries first and each *)
(* once.  Those it takes and does not tell number at most the commands     *)
(* that were in the frame and the one taken before the count is looked at, *)
(* and only a frame that is full loses any.                                *)
ResponseSkips ==
  [][ring'.count < ring.count =>
       LET told == Len(frame') - Len(frame)
           lost == ring.count - ring'.count - told
       IN  /\ told >= 0
           /\ \A i \in 1..told : frame'[Len(frame) + i] = LogCmd(logged - ring.count + i)
           /\ lost \in 0..(Len(frame) + 1)
           /\ lost > 0 => Len(frame') = MaxCmds]_vars

(* What a receiver makes of the frames of a queue, in their order.         *)
AllReceived(s, q) ==
  LET after[n \in 0..Len(q)] == IF n = 0 THEN s ELSE AllApplied(after[n - 1], q[n])
  IN  after[Len(q)]

(* A receiver that applies what is under way, frame after frame, comes to  *)
(* the state that the robot compares with, unless a heartbeat was lost     *)
(* since the last that told everything: each difference leaves out only    *)
(* what those before it, sent or still waiting, have told.                 *)
HeartbeatRebuilds ==
  ~missed => AllApplied(AllReceived(shown, queue), frame) = differ

(* Those logged since the buffer was begun anew that a reader asks for.    *)
Wanted(level) ==
  LET after[n \in 0..Len(fresh)] ==
        IF n = 0 THEN <<>>
        ELSE IF fresh[n].level <= level THEN Append(after[n - 1], fresh[n]) ELSE after[n - 1]
  IN  after[Len(fresh)]
Comparable(s, t) == IsPrefix(s, t) \/ IsPrefix(t, s)

(* A query gives the entries logged since the buffer was begun anew, each  *)
(* as it was logged and up to the limit, before whatever is left of older  *)
(* ones: an entry is never refused, torn or hidden by one written later.   *)
(* What an upload or a heartbeat carries agrees with those entries for as  *)
(* long as either lasts; with a heartbeat go warnings and errors only.     *)
FreshIsFound ==
  /\ \A level \in {m.level : m \in Messages} :
       /\ \A limit \in 1..UploadLimit :
            IsPrefix(SubSeq(Wanted(level), 1, Lesser(limit, Len(Wanted(level)))), Query(level, limit))
       /\ Comparable(Wanted(level), EncodedUpload(level))
  /\ Comparable(Wanted(Warn), EncodedRecent)
=============================================================================
