------------------------------ MODULE Gateway ------------------------------
(***************************************************************************)
(* The robot gateway (services/gateway): the connection pool, the task     *)
(* that serves each WebSocket, and the listener that fans an emergency     *)
(* broadcast out to all robots.                                            *)
(*                                                                         *)
(* The pool sits behind one RwLock: register, unregister, short_ids and    *)
(* sender are one step each, and a task may lose the CPU at every await    *)
(* between them.  Authentication and the upgrade touch nothing shared and  *)
(* come before Register.  Uplink frames and rate limits change no state    *)
(* here, and nothing that arrives on a robot's NATS subscription is read   *)
(* (_nats_rx), so neither is modelled.                                     *)
(***************************************************************************)
EXTENDS Integers, Sequences, FiniteSets

CONSTANTS
  NumConns,        (* bound: sockets accepted, 1..NumConns as they register *)
  Machines,        (* machine_ids                                           *)
  NoMachine,
  MaxId,           (* short ids are 1..MaxId; 65535 in the code             *)
  MaxConnections,  (* the pool's limit                                      *)
  Capacity,        (* of a connection's channel cmd_tx, 64 in the code, and *)
                   (* the one frame it has taken out and is writing         *)
  MaxFrames        (* bound: broadcasts, frames are 1..MaxFrames            *)

(* With at most as many connections as ids, allocate_id never panics.      *)
ASSUME GatewayAssumption ==
  /\ NumConns \in Nat /\ NoMachine \notin Machines
  /\ MaxId \in Nat \ {0}
  /\ MaxConnections \in 1..MaxId
  /\ Capacity \in Nat \ {0}
  /\ MaxFrames \in Nat

Conns == 1..NumConns
NoConn == 0
Ids == 1..MaxId
NoId == 0
Frames == 1..MaxFrames
NoFrame == 0
Phases == {"new", "registered", "subscribed", "relay", "closing", "ended", "failed"}
Returned == {"ended", "failed"}

VARIABLES
  nextId, byShortId, byMachineId, senders,   (* the pool                   *)
  phase, shortId, machine,                   (* handle_connection, by socket *)
  queue,                                     (* cmd_rx of the connection   *)
  sent,                                      (* frames written to the socket *)
  lpc, frame, todo, held,                    (* the broadcast listener     *)
  frames,                                    (* how much of the bound is used *)
  allocated                                  (* history: ids handed out so far *)

pool == <<nextId, byShortId, byMachineId, senders, allocated>>
conn == <<phase, shortId, machine>>
channels == <<queue, sent>>
listener == <<lpc, frame, todo, held, frames>>
vars == <<nextId, byShortId, byMachineId, senders, phase, shortId, machine, queue,
          sent, lpc, frame, todo, held, frames, allocated>>

Init ==
  /\ nextId = 1 /\ allocated = 0
  /\ byShortId = [i \in Ids |-> NoMachine]
  /\ byMachineId = [m \in Machines |-> NoId]
  /\ senders = [i \in Ids |-> NoConn]
  /\ phase = [c \in Conns |-> "new"]
  /\ shortId = [c \in Conns |-> NoId]
  /\ machine = [c \in Conns |-> NoMachine]
  /\ queue = [c \in Conns |-> <<>>]
  /\ sent = [c \in Conns |-> {}]
  /\ lpc = "idle" /\ frame = NoFrame /\ todo = {} /\ held = NoConn
  /\ frames = 0

-----------------------------------------------------------------------------
(* The pool.                                                               *)

Registered == {i \in Ids : byShortId[i] # NoMachine}

(* What is left of the pool when m's earlier entry, if any, is removed.    *)
IsEarlier(i, m) == i = byMachineId[m]

Others(m) == {i \in Registered : ~IsEarlier(i, m)}

(* How far the scan from next_id is from id i.                             *)
Distance(i) == IF i >= nextId THEN i - nextId ELSE i + MaxId - nextId

(* allocate_id: the first unused id from next_id on, wrapping, never 0.    *)
IsFirstFree(i, m) ==
  /\ i \in Ids \ Others(m)
  /\ \A j \in Ids \ Others(m) : Distance(i) <= Distance(j)

(* Mutant: wrapping around reaches 0, the broadcast id.                    *)
FollowingOrZero(i) == (i + 1) % (MaxId + 1)
Following(i) == IF i = MaxId THEN 1 ELSE i + 1

HasRoom(m) == Cardinality(Others(m)) < MaxConnections

(* The next socket to come to the pool.                                    *)
IsNew(c) == phase[c] = "new" /\ \A d \in 1..(c - 1) : phase[d] # "new"

Register(c, m, i) ==
  /\ IsNew(c) /\ HasRoom(m) /\ IsFirstFree(i, m)
  /\ nextId' = Following(i)
  /\ byShortId' = [j \in Ids |-> IF j = i THEN m
                                 ELSE IF IsEarlier(j, m) THEN NoMachine ELSE byShortId[j]]
  /\ byMachineId' = [byMachineId EXCEPT ![m] = i]
  /\ senders' = [j \in Ids |-> IF j = i THEN c
                               ELSE IF IsEarlier(j, m) THEN NoConn ELSE senders[j]]
  /\ allocated' = allocated + 1
  /\ phase' = [phase EXCEPT ![c] = "registered"]
  /\ shortId' = [shortId EXCEPT ![c] = i]
  /\ machine' = [machine EXCEPT ![c] = m]
  /\ UNCHANGED <<channels, listener>>

(* Err(ConnectionLimit); nothing was removed, or the limit is not reached. *)
RegisterRefused(c, m) ==
  /\ IsNew(c) /\ ~HasRoom(m)
  /\ phase' = [phase EXCEPT ![c] = "ended"]
  /\ UNCHANGED <<pool, shortId, machine, channels, listener>>

(* Mutant: unregister leaves the machine's entry behind.                   *)
ForgetNone(m) == byMachineId' = byMachineId
ForgetMachine(m) == byMachineId' = [byMachineId EXCEPT ![m] = NoId]

DropSender(i) == senders' = [senders EXCEPT ![i] = NoConn]

Unregister(i) ==
  IF byShortId[i] # NoMachine
    THEN /\ byShortId' = [byShortId EXCEPT ![i] = NoMachine]
         /\ ForgetMachine(byShortId[i])
         /\ DropSender(i)
         /\ UNCHANGED <<nextId, allocated>>
    ELSE UNCHANGED pool

-----------------------------------------------------------------------------
(* One connection, from its registration to its clean-up.                  *)

SetPhase(c, p) == phase' = [phase EXCEPT ![c] = p] /\ UNCHANGED <<shortId, machine>>

Subscribe(c) ==
  /\ phase[c] = "registered" /\ SetPhase(c, "subscribed")
  /\ UNCHANGED <<pool, channels, listener>>

SendRegAck(c) ==
  /\ phase[c] = "subscribed" /\ SetPhase(c, "relay")
  /\ UNCHANGED <<pool, channels, listener>>

(* subscribe_robot or send_frame fails: "?" returns before the clean-up.   *)
SetupFails(c) ==
  /\ phase[c] \in {"registered", "subscribed"} /\ SetPhase(c, "failed")
  /\ queue' = [queue EXCEPT ![c] = <<>>]
  /\ UNCHANGED <<pool, sent, listener>>

(* send_frame returns; until it does, the task does nothing else.          *)
SendDown(c) ==
  /\ phase[c] = "relay" /\ queue[c] # <<>>
  /\ queue' = [queue EXCEPT ![c] = Tail(@)]
  /\ sent' = [sent EXCEPT ![c] = @ \cup {Head(queue[c])}]
  /\ UNCHANGED <<pool, conn, listener>>

(* The socket is broken: the frame at hand is lost.                        *)
SendDownFails(c) ==
  /\ phase[c] = "relay" /\ queue[c] # <<>> /\ SetPhase(c, "closing")
  /\ queue' = [queue EXCEPT ![c] = Tail(@)]
  /\ UNCHANGED <<pool, sent, listener>>

(* The robot closes the socket, or reading from it fails.                  *)
Close(c) ==
  /\ phase[c] = "relay" /\ SetPhase(c, "closing")
  /\ UNCHANGED <<pool, channels, listener>>

(* Mutant: the entry of the machine, which may be a later connection's.    *)
EntryOfMachine(c) ==
  IF byMachineId[machine[c]] = NoId THEN shortId[c] ELSE byMachineId[machine[c]]
OwnEntry(c) == shortId[c]

(* unregister, and the return that drops cmd_rx.                           *)
CleanUp(c) ==
  /\ phase[c] = "closing"
  /\ Unregister(OwnEntry(c))
  /\ SetPhase(c, "ended")
  /\ queue' = [queue EXCEPT ![c] = <<>>]
  /\ UNCHANGED <<sent, listener>>

-----------------------------------------------------------------------------
(* The broadcast listener: it copies the ids, then looks each sender up    *)
(* and waits for room in its channel.                                      *)

Receive ==
  /\ lpc = "idle" /\ frames < MaxFrames
  /\ frames' = frames + 1 /\ frame' = frames + 1
  /\ lpc' = "received"
  /\ UNCHANGED <<pool, conn, channels, todo, held>>

CopyIds ==
  /\ lpc = "received"
  /\ todo' = Registered /\ lpc' = "loop"
  /\ UNCHANGED <<pool, conn, channels, frame, held, frames>>

(* Mutant: an id that is gone ends the fan-out.                            *)
GiveUpOn(i) == todo' = {}
PassOver(i) == todo' = todo \ {i}

Lookup(i) ==
  /\ lpc = "loop" /\ i \in todo
  /\ IF senders[i] = NoConn
       THEN PassOver(i) /\ UNCHANGED <<lpc, held>>
       ELSE todo' = todo \ {i} /\ held' = senders[i] /\ lpc' = "send"
  /\ UNCHANGED <<pool, conn, channels, frame, frames>>

(* A send to a connection that returned is an error nobody looks at.       *)
Send ==
  /\ lpc = "send"
  /\ \/ /\ phase[held] \in Returned /\ UNCHANGED queue
     \/ /\ phase[held] \notin Returned /\ Len(queue[held]) < Capacity
        /\ queue' = [queue EXCEPT ![held] = Append(@, frame)]
  /\ held' = NoConn /\ lpc' = "loop"
  /\ UNCHANGED <<pool, conn, sent, frame, todo, frames>>

EndFanOut ==
  /\ lpc = "loop" /\ todo = {}
  /\ lpc' = "idle" /\ frame' = NoFrame
  /\ UNCHANGED <<pool, conn, channels, todo, held, frames>>

-----------------------------------------------------------------------------
FanOut == CopyIds \/ (\E i \in Ids : Lookup(i)) \/ Send \/ EndFanOut

SetUp(c) == Subscribe(c) \/ SendRegAck(c) \/ SetupFails(c)

Next ==
  \/ \E c \in Conns, m \in Machines : RegisterRefused(c, m) \/ \E i \in Ids : Register(c, m, i)
  \/ \E c \in Conns :
       SetUp(c) \/ SendDown(c) \/ SendDownFails(c) \/ Close(c) \/ CleanUp(c)
  \/ Receive \/ FanOut

Spec == Init /\ [][Next]_vars

(* Spawned tasks keep running, and a fresh socket's buffer takes the       *)
(* acknowledgement.  Nobody has to connect, close or broadcast, and nobody *)
(* has to read: send_frame has no timeout, and a peer with a full window   *)
(* leaves it pending for as long as the peer likes.                        *)
Fairness ==
  /\ WF_vars(FanOut)
  /\ \A c \in Conns : WF_vars(SetUp(c)) /\ WF_vars(CleanUp(c))

FairSpec == Spec /\ Fairness
=============================================================================
