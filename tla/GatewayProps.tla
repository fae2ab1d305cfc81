---------------------------- MODULE GatewayProps ----------------------------
(***************************************************************************)
(* What the gateway keeps.                                                 *)
(***************************************************************************)
EXTENDS Gateway

(* The type invariant; an id is held from the registration on, and the     *)
(* listener holds a sender exactly while it waits for room.                *)
TypeOK ==
  /\ nextId \in Ids /\ allocated \in Nat
  /\ byShortId \in [Ids -> Machines \cup {NoMachine}]
  /\ byMachineId \in [Machines -> Ids \cup {NoId}]
  /\ senders \in [Ids -> Conns \cup {NoConn}]
  /\ phase \in [Conns -> Phases]
  /\ shortId \in [Conns -> Ids \cup {NoId}]
  /\ machine \in [Conns -> Machines \cup {NoMachine}]
  /\ \A c \in Conns : /\ shortId[c] # NoId <=> machine[c] # NoMachine
                      /\ phase[c] \notin {"new", "ended"} => shortId[c] # NoId
  /\ queue \in [Conns -> Seq(Frames)]
  /\ sent \in [Conns -> SUBSET Frames]
  /\ lpc \in {"idle", "received", "loop", "send"}
  /\ frame \in Frames \cup {NoFrame} /\ (lpc = "idle" <=> frame = NoFrame)
  /\ todo \subseteq Ids
  /\ held \in Conns \cup {NoConn} /\ (lpc = "send" <=> held # NoConn)
  /\ frames \in Nat

(* The three maps of the pool agree, although a machine may register again *)
(* before its old connection has cleaned up and that clean-up then runs    *)
(* against the new entry: what is found by id is found by machine and has  *)
(* a sender, and the sender is that of the connection given this id.       *)
PoolConsistent ==
  /\ \A i \in Ids : byShortId[i] = NoMachine <=> senders[i] = NoConn
  /\ \A i \in Registered : byMachineId[byShortId[i]] = i
  /\ \A m \in Machines : byMachineId[m] # NoId => byShortId[byMachineId[m]] = m
  /\ \A i \in Registered : shortId[senders[i]] = i /\ machine[senders[i]] = byShortId[i]

(* The limit holds, with replaced entries removed before it is checked.    *)
PoolBounded == Cardinality(Registered) <= MaxConnections

(* Until ids are used a second time, a robot that is being served can be   *)
(* reached through the pool, unless its machine registered again: no other *)
(* connection's clean-up takes its entry away.                             *)
LiveIsRegistered ==
  allocated <= MaxId =>
    \A c \in Conns :
      phase[c] \in {"registered", "subscribed", "relay"} =>
        \/ senders[shortId[c]] = c
        \/ \E d \in Conns : d > c /\ machine[d] = machine[c]

(* A connection that ran its clean-up is no longer in the pool, ids used   *)
(* twice or not.                                                           *)
CleanedUpIsGone == \A c \in Conns, i \in Ids : phase[c] = "ended" => senders[i] # c

(* The three together.                                                     *)
PoolSound == PoolConsistent /\ PoolBounded /\ CleanedUpIsGone

(* An emergency broadcast gets to every robot whose id the listener copied *)
(* and whose connection stays: others whose channel is full when their     *)
(* turn comes, whose socket fails or closes, or that never finished their  *)
(* set-up do not hold it up for ever, as long as no socket stops taking    *)
(* what is queued for it.  One that does holds up everybody behind it, for *)
(* the listener waits for room in its channel.                             *)
Takes(c) == []<>(phase[c] # "relay" \/ queue[c] = <<>>)
Awaits(c, f) ==
  /\ lpc = "loop" /\ frame = f /\ shortId[c] \in todo
  /\ senders[shortId[c]] = c /\ phase[c] = "relay"
EmergencyDelivered ==
  (\A c \in Conns : Takes(c)) =>
    \A c \in Conns, f \in Frames :
      Awaits(c, f) ~> \/ f \in sent[c]
                      \/ phase[c] # "relay"
                      \/ senders[shortId[c]] # c
=============================================================================
