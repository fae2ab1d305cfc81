--------------------------- MODULE GatewayProofs ---------------------------
(***************************************************************************)
(* Proofs, for any number of sockets, machines, ids and frames, of the     *)
(* safety properties of the gateway's connection pool.                     *)
(***************************************************************************)
EXTENDS GatewayProps, FiniteSetTheorems, SequenceTheorems, TLAPS

(* Sockets come to the pool in the order of their numbers. *)
InOrder == \A c \in Conns : phase[c] # "new" => \A d \in 1..(c - 1) : phase[d] # "new"

(* A new socket has no id yet, and nothing in the pool is a new socket's.  *)
NewHasNoId == \A c \in Conns : phase[c] = "new" => shortId[c] = NoId

(* Until the ids are used up they are handed out one after the other.      *)
IdsInOrder ==
  allocated <= MaxId =>
    /\ allocated < MaxId => nextId = allocated + 1
    /\ \A c \in Conns : shortId[c] <= allocated
    /\ \A c, d \in Conns : shortId[c] # NoId /\ shortId[c] = shortId[d] => c = d

IInv ==
  /\ TypeOK /\ PoolConsistent /\ PoolBounded /\ CleanedUpIsGone
  /\ InOrder /\ NewHasNoId /\ IdsInOrder /\ LiveIsRegistered

USE DEF Conns, NoConn, Ids, NoId, Frames, NoFrame, Phases, Returned, pool, conn, channels,
        listener

-----------------------------------------------------------------------------
(* Steps by what they touch: the pool, the phase of a connection, or only  *)
(* the channels and the listener.                                          *)
PoolStep ==
  \/ \E c \in Conns, m \in Machines, i \in Ids : Register(c, m, i)
  \/ \E c \in Conns : CleanUp(c)

PhaseStep ==
  \E c \in Conns :
    /\ phase[c] # "ended"
    /\ \E p \in Phases \ {"new"} :
         /\ phase' = [phase EXCEPT ![c] = p]
         /\ p \in {"registered", "subscribed", "relay"} =>
              phase[c] \in {"registered", "subscribed", "relay"}
         /\ p = "ended" => IsNew(c)
         /\ p # "ended" => phase[c] # "new"
    /\ UNCHANGED <<pool, shortId, machine>>

QuietStep == UNCHANGED <<pool, conn>>

LEMMA StepKinds == TypeOK /\ [Next]_vars => PoolStep \/ PhaseStep \/ QuietStep
  <1> SUFFICES ASSUME TypeOK, [Next]_vars PROVE PoolStep \/ PhaseStep \/ QuietStep
    OBVIOUS
  <1>1. ASSUME NEW c \in Conns, NEW m \in Machines, NEW i \in Ids, Register(c, m, i)
        PROVE PoolStep
    BY <1>1 DEF PoolStep
  <1>2. ASSUME NEW c \in Conns, NEW m \in Machines, RegisterRefused(c, m)
        PROVE PhaseStep
    BY <1>2 DEF RegisterRefused, PhaseStep, IsNew
  <1>3. ASSUME NEW c \in Conns, SetUp(c) PROVE PhaseStep
    BY <1>3 DEF SetUp, Subscribe, SendRegAck, SetupFails, SetPhase, PhaseStep
  <1>4. ASSUME NEW c \in Conns, SendDown(c) PROVE QuietStep
    BY <1>4 DEF SendDown, QuietStep
  <1>5. ASSUME NEW c \in Conns, SendDownFails(c) PROVE PhaseStep
    BY <1>5 DEF SendDownFails, SetPhase, PhaseStep
  <1>6. ASSUME NEW c \in Conns, Close(c) PROVE PhaseStep
    BY <1>6 DEF Close, SetPhase, PhaseStep
  <1>7. ASSUME NEW c \in Conns, CleanUp(c) PROVE PoolStep
    BY <1>7 DEF PoolStep
  <1>8. CASE Receive
    BY <1>8 DEF Receive, QuietStep
  <1>9. CASE FanOut
    BY <1>9 DEF FanOut, CopyIds, Lookup, Send, EndFanOut, QuietStep
  <1>10. CASE UNCHANGED vars
    BY <1>10 DEF vars, QuietStep
  <1> QED
    BY <1>1, <1>2, <1>3, <1>4, <1>5, <1>6, <1>7, <1>8, <1>9, <1>10 DEF Next

-----------------------------------------------------------------------------
(* Types. *)
LEMMA TypeStep == TypeOK /\ PoolConsistent /\ [Next]_vars => TypeOK'
  <1> SUFFICES ASSUME TypeOK, PoolConsistent, [Next]_vars PROVE TypeOK'
    OBVIOUS
  <1> USE GatewayAssumption DEF TypeOK
  <1>1. ASSUME NEW c \in Conns, NEW m \in Machines, NEW i \in Ids, Register(c, m, i)
        PROVE TypeOK'
    BY <1>1 DEF Register, Following
  <1>2. ASSUME NEW c \in Conns, NEW m \in Machines, RegisterRefused(c, m)
        PROVE TypeOK'
    BY <1>2 DEF RegisterRefused
  <1>3. ASSUME NEW c \in Conns, SetUp(c) PROVE TypeOK'
    <2>1. CASE Subscribe(c)
      BY <2>1 DEF Subscribe, SetPhase
    <2>2. CASE SendRegAck(c)
      BY <2>2 DEF SendRegAck, SetPhase
    <2>3. CASE SetupFails(c)
      <3>1. queue' = [queue EXCEPT ![c] = <<>>] /\ queue' \in [Conns -> Seq(Frames)]
        BY <2>3 DEF SetupFails
      <3> QED
        BY <2>3, <3>1 DEF SetupFails, SetPhase
    <2> QED
      BY <1>3, <2>1, <2>2, <2>3 DEF SetUp
  <1>4. ASSUME NEW c \in Conns, SendDown(c) PROVE TypeOK'
    <2>1. queue[c] \in Seq(Frames) /\ queue[c] # <<>>
      BY <1>4 DEF SendDown
    <2>2. Head(queue[c]) \in Frames /\ Tail(queue[c]) \in Seq(Frames)
      BY <2>1, HeadTailProperties
    <2>3. /\ queue' \in [Conns -> Seq(Frames)]
          /\ sent' \in [Conns -> SUBSET Frames]
      BY <1>4, <2>2 DEF SendDown
    <2> QED
      BY <1>4, <2>3 DEF SendDown
  <1>5. ASSUME NEW c \in Conns, SendDownFails(c) PROVE TypeOK'
    <2>1. queue[c] \in Seq(Frames) /\ queue[c] # <<>>
      BY <1>5 DEF SendDownFails
    <2>2. Tail(queue[c]) \in Seq(Frames)
      BY <2>1, HeadTailProperties
    <2>3. queue' \in [Conns -> Seq(Frames)]
      BY <1>5, <2>2 DEF SendDownFails
    <2> QED
      BY <1>5, <2>3 DEF SendDownFails, SetPhase
  <1>6. ASSUME NEW c \in Conns, Close(c) PROVE TypeOK'
    BY <1>6 DEF Close, SetPhase
  <1>7. ASSUME NEW c \in Conns, CleanUp(c) PROVE TypeOK'
    <2>1. /\ nextId' = nextId /\ allocated' = allocated
          /\ byShortId' \in [Ids -> Machines \cup {NoMachine}]
          /\ byMachineId' \in [Machines -> Ids \cup {NoId}]
          /\ senders' \in [Ids -> Conns \cup {NoConn}]
      BY <1>7 DEF CleanUp, Unregister, ForgetMachine, DropSender, OwnEntry
    <2>2. /\ phase' = [phase EXCEPT ![c] = "ended"]
          /\ UNCHANGED <<shortId, machine, sent, listener>>
          /\ queue' = [queue EXCEPT ![c] = <<>>]
      BY <1>7 DEF CleanUp, SetPhase
    <2>3. queue' \in [Conns -> Seq(Frames)]
      BY <2>2
    <2>4. /\ phase' \in [Conns -> Phases]
          /\ \A d \in Conns : phase'[d] \notin {"new", "ended"} => shortId'[d] # NoId
      BY <2>2
    <2> QED
      BY <2>1, <2>2, <2>3, <2>4
  <1>8. CASE Receive
    BY <1>8 DEF Receive
  <1>9. CASE CopyIds
    BY <1>9 DEF CopyIds, Registered
  <1>10. ASSUME NEW i \in Ids, Lookup(i) PROVE TypeOK'
    BY <1>10 DEF Lookup, PassOver
  <1>11. CASE Send
    <2>1. held \in Conns /\ frame \in Frames
      BY <1>11 DEF Send
    <2>2. queue' \in [Conns -> Seq(Frames)]
      <3>1. Append(queue[held], frame) \in Seq(Frames)
        BY <2>1, AppendProperties
      <3> QED
        BY <1>11, <2>1, <3>1 DEF Send
    <2> QED
      BY <1>11, <2>2 DEF Send
  <1>12. CASE EndFanOut
    BY <1>12 DEF EndFanOut
  <1>13. CASE UNCHANGED vars
    BY <1>13 DEF vars
  <1> QED
    BY <1>1, <1>2, <1>3, <1>4, <1>5, <1>6, <1>7, <1>8, <1>9, <1>10, <1>11, <1>12, <1>13
    DEF Next, FanOut

-----------------------------------------------------------------------------
(* A registration and a clean-up, by what they make of the pool.           *)
Enters(c, m, i) ==
  /\ i \notin Others(m)
  /\ \A j \in Ids : byShortId'[j] = IF j = i THEN m
                      ELSE IF j = byMachineId[m] THEN NoMachine ELSE byShortId[j]
  /\ \A j \in Ids : senders'[j] = IF j = i THEN c
                      ELSE IF j = byMachineId[m] THEN NoConn ELSE senders[j]
  /\ byMachineId' = [byMachineId EXCEPT ![m] = i]
  /\ phase' = [phase EXCEPT ![c] = "registered"]
  /\ shortId' = [shortId EXCEPT ![c] = i]
  /\ machine' = [machine EXCEPT ![c] = m]
  /\ allocated' = allocated + 1
  /\ IsNew(c) /\ phase[c] = "new" /\ shortId[c] = NoId
  /\ \A j \in Ids : senders[j] # c

Leaves(c) ==
  /\ phase[c] = "closing" /\ shortId[c] \in Ids
  /\ phase' = [phase EXCEPT ![c] = "ended"]
  /\ UNCHANGED <<shortId, machine, nextId, allocated>>
  /\ byShortId' = [byShortId EXCEPT ![shortId[c]] = NoMachine]
  /\ senders' = [senders EXCEPT ![shortId[c]] = NoConn]
  /\ IF byShortId[shortId[c]] # NoMachine
       THEN byMachineId' = [byMachineId EXCEPT ![byShortId[shortId[c]]] = NoId]
       ELSE byMachineId' = byMachineId

LEMMA RegisterEnters ==
  ASSUME IInv, NEW c \in Conns, NEW m \in Machines, NEW i \in Ids, Register(c, m, i)
  PROVE  Enters(c, m, i)
  <1>1. phase[c] = "new" /\ shortId[c] = NoId
    BY DEF Register, IsNew, IInv, NewHasNoId
  <1>2. ASSUME NEW j \in Ids, senders[j] = c PROVE FALSE
    <2>1. byShortId[j] # NoMachine
      BY <1>2 DEF IInv, PoolConsistent
    <2>2. shortId[c] = j
      BY <1>2, <2>1 DEF IInv, PoolConsistent, Registered
    <2> QED
      BY <1>1, <2>2
  <1> QED
    BY <1>1, <1>2 DEF Register, IsFirstFree, IsEarlier, Following, Enters

LEMMA CleanUpLeaves ==
  ASSUME IInv, NEW c \in Conns, CleanUp(c)
  PROVE  Leaves(c)
  <1> USE DEF IInv, TypeOK
  <1>1. phase[c] = "closing" /\ shortId[c] \in Ids
    BY DEF CleanUp
  <1>2. /\ phase' = [phase EXCEPT ![c] = "ended"]
        /\ UNCHANGED <<shortId, machine>>
    BY DEF CleanUp, SetPhase
  <1>3. CASE byShortId[shortId[c]] # NoMachine
    BY <1>1, <1>2, <1>3 DEF CleanUp, Unregister, ForgetMachine, DropSender, OwnEntry, Leaves
  <1>4. CASE byShortId[shortId[c]] = NoMachine
    <2>1. senders[shortId[c]] = NoConn
      BY <1>1, <1>4 DEF PoolConsistent
    <2>2. UNCHANGED pool
      BY <1>4 DEF CleanUp, Unregister, OwnEntry
    <2> QED
      BY <1>1, <1>2, <1>4, <2>1, <2>2 DEF Leaves
  <1> QED
    BY <1>3, <1>4

LEMMA PoolConsistentStep == IInv /\ [Next]_vars => PoolConsistent'
  <1> SUFFICES ASSUME IInv, [Next]_vars PROVE PoolConsistent'
    OBVIOUS
  <1>0. TypeOK /\ PoolConsistent
    BY DEF IInv
  <1>1. ASSUME NEW c \in Conns, NEW m \in Machines, NEW i \in Ids, Register(c, m, i)
        PROVE PoolConsistent'
    <2>1. Enters(c, m, i)
      BY <1>1, RegisterEnters
    <2> USE <1>0, <2>1, GatewayAssumption DEF TypeOK, PoolConsistent, Registered, Enters
    <2>2. \A j \in Ids : byShortId'[j] = NoMachine <=> senders'[j] = NoConn
      OBVIOUS
    <2>3. ASSUME NEW j \in Ids, byShortId'[j] # NoMachine, j # i
          PROVE  /\ j # byMachineId[m] /\ byShortId[j] # NoMachine /\ byShortId[j] # m
                 /\ byShortId'[j] = byShortId[j] /\ senders'[j] = senders[j]
                 /\ senders[j] # c
      BY <2>3
    <2>4. \A j \in Ids : byShortId'[j] # NoMachine => byMachineId'[byShortId'[j]] = j
      BY <2>3
    <2>5. ASSUME NEW n \in Machines, byMachineId'[n] # NoId
          PROVE byShortId'[byMachineId'[n]] = n
      <3>1. CASE n = m
        BY <3>1
      <3>2. CASE n # m
        <4>1. byMachineId'[n] = byMachineId[n] /\ byMachineId[n] \in Ids
          BY <2>5, <3>2
        <4>2. byShortId[byMachineId[n]] = n
          BY <4>1
        <4>3. byMachineId[n] # byMachineId[m]
          BY <3>2, <4>1, <4>2
        <4>4. byMachineId[n] # i
          BY <3>2, <4>1, <4>2, <4>3 DEF Others, IsEarlier
        <4>5. byShortId'[byMachineId[n]] = byShortId[byMachineId[n]]
          BY <4>1, <4>3, <4>4
        <4> QED
          BY ONLY <4>1, <4>2, <4>5
      <3> QED
        BY <3>1, <3>2
    <2>6. \A j \in Ids : byShortId'[j] # NoMachine =>
            shortId'[senders'[j]] = j /\ machine'[senders'[j]] = byShortId'[j]
      BY <2>3
    <2> QED
      BY <2>2, <2>4, <2>5, <2>6
  <1>2. ASSUME NEW c \in Conns, CleanUp(c) PROVE PoolConsistent'
    <2>1. Leaves(c)
      BY <1>2, CleanUpLeaves
    <2> DEFINE k == shortId[c]
    <2> USE <1>0, GatewayAssumption DEF TypeOK, PoolConsistent, Registered
    <2>2. /\ k \in Ids /\ shortId' = shortId /\ machine' = machine
          /\ \A j \in Ids : byShortId'[j] = IF j = k THEN NoMachine ELSE byShortId[j]
          /\ \A j \in Ids : senders'[j] = IF j = k THEN NoConn ELSE senders[j]
      BY <2>1 DEF Leaves
    <2>3. /\ \A j \in Ids : byShortId'[j] = NoMachine <=> senders'[j] = NoConn
          /\ \A j \in Ids : byShortId'[j] # NoMachine =>
               shortId'[senders'[j]] = j /\ machine'[senders'[j]] = byShortId'[j]
      BY <2>2
    <2>4. \A n \in Machines : byMachineId'[n] =
            IF byShortId[k] # NoMachine /\ n = byShortId[k] THEN NoId ELSE byMachineId[n]
      BY <2>1, <2>2 DEF Leaves
    <2>5. \A j \in Ids : byShortId'[j] # NoMachine => byMachineId'[byShortId'[j]] = j
      BY <2>2, <2>4
    <2>6. \A n \in Machines : byMachineId'[n] # NoId => byShortId'[byMachineId'[n]] = n
      BY <2>2, <2>4
    <2> QED
      BY <2>3, <2>5, <2>6
  <1>3. CASE PhaseStep
    BY <1>0, <1>3 DEF PhaseStep, PoolConsistent, Registered
  <1>4. CASE QuietStep
    BY <1>0, <1>4 DEF QuietStep, PoolConsistent, Registered
  <1> QED
    BY <1>0, StepKinds, <1>1, <1>2, <1>3, <1>4 DEF PoolStep

(* The limit is checked on what is left once the earlier entry is removed. *)
LEMMA PoolBoundedStep == IInv /\ [Next]_vars => PoolBounded'
  <1> SUFFICES ASSUME IInv, [Next]_vars PROVE PoolBounded'
    OBVIOUS
  <1>0. IsFiniteSet(Ids) /\ TypeOK /\ PoolBounded
    BY GatewayAssumption, FS_Interval DEF IInv
  <1>1. ASSUME NEW c \in Conns, NEW m \in Machines, NEW i \in Ids, Register(c, m, i)
        PROVE PoolBounded'
    <2>1. IsFiniteSet(Others(m)) /\ Cardinality(Others(m)) \in Nat
      <3>1. Others(m) \in SUBSET Ids
        BY DEF Others, Registered
      <3> QED
        BY <1>0, <3>1, FS_Subset, FS_CardinalityType
    <2>2. Registered' = Others(m) \cup {i}
      <3>1. Enters(c, m, i)
        BY <1>1, RegisterEnters
      <3> QED
        BY <3>1, GatewayAssumption DEF Enters, Registered, Others, IsEarlier
    <2>3. Cardinality(Others(m)) < MaxConnections /\ i \notin Others(m)
      BY <1>1 DEF Register, HasRoom, IsFirstFree
    <2>4. Cardinality(Others(m) \cup {i}) = Cardinality(Others(m)) + 1
      BY <2>1, <2>3, FS_AddElement
    <2> QED
      BY <2>1, <2>2, <2>3, <2>4, GatewayAssumption DEF PoolBounded
  <1>2. ASSUME NEW c \in Conns, CleanUp(c) PROVE PoolBounded'
    <2>1. Leaves(c)
      BY <1>2, CleanUpLeaves
    <2>2. Registered' \in SUBSET Registered /\ Registered \in SUBSET Ids
      BY <1>0, <2>1 DEF Leaves, TypeOK, Registered
    <2>3. /\ Cardinality(Registered') <= Cardinality(Registered)
          /\ Cardinality(Registered') \in Nat /\ Cardinality(Registered) \in Nat
      BY <1>0, <2>2, FS_Subset, FS_CardinalityType
    <2> QED
      BY <1>0, <2>3, GatewayAssumption DEF PoolBounded
  <1>3. CASE PhaseStep
    BY <1>0, <1>3 DEF PhaseStep, PoolBounded, Registered
  <1>4. CASE QuietStep
    BY <1>0, <1>4 DEF QuietStep, PoolBounded, Registered
  <1> QED
    BY <1>0, StepKinds, <1>1, <1>2, <1>3, <1>4 DEF PoolStep

LEMMA CleanedUpIsGoneStep == IInv /\ [Next]_vars => CleanedUpIsGone'
  <1> SUFFICES ASSUME IInv, [Next]_vars PROVE CleanedUpIsGone'
    OBVIOUS
  <1>0. TypeOK /\ PoolConsistent /\ CleanedUpIsGone /\ NewHasNoId
    BY DEF IInv
  <1>1. ASSUME NEW c \in Conns, NEW m \in Machines, NEW i \in Ids, Register(c, m, i)
        PROVE CleanedUpIsGone'
    <2>1. Enters(c, m, i)
      BY <1>1, RegisterEnters
    <2> QED
      BY <1>0, <2>1 DEF Enters, TypeOK, CleanedUpIsGone
  <1>2. ASSUME NEW c \in Conns, CleanUp(c) PROVE CleanedUpIsGone'
    <2>1. Leaves(c)
      BY <1>2, CleanUpLeaves
    <2>2. ASSUME NEW j \in Ids, senders[j] = c PROVE j = shortId[c]
      BY <1>0, <2>2 DEF TypeOK, PoolConsistent, Registered
    <2> QED
      BY <1>0, <2>1, <2>2 DEF Leaves, TypeOK, CleanedUpIsGone
  <1>3. CASE PhaseStep
    <2>1. ASSUME NEW c \in Conns, phase[c] = "new", NEW j \in Ids PROVE senders[j] # c
      BY <1>0, <2>1 DEF TypeOK, PoolConsistent, Registered, NewHasNoId
    <2> QED
      BY <1>0, <1>3, <2>1 DEF PhaseStep, IsNew, TypeOK, CleanedUpIsGone
  <1>4. CASE QuietStep
    BY <1>0, <1>4 DEF QuietStep, CleanedUpIsGone
  <1> QED
    BY <1>0, StepKinds, <1>1, <1>2, <1>3, <1>4 DEF PoolStep

LEMMA InOrderStep == IInv /\ [Next]_vars => InOrder' /\ NewHasNoId'
  <1> SUFFICES ASSUME IInv, [Next]_vars PROVE InOrder' /\ NewHasNoId'
    OBVIOUS
  <1>0. TypeOK /\ InOrder /\ NewHasNoId
    BY DEF IInv
  <1> USE <1>0, GatewayAssumption DEF TypeOK, InOrder, NewHasNoId
  <1>1. ASSUME NEW c \in Conns, NEW m \in Machines, NEW i \in Ids, Register(c, m, i)
        PROVE InOrder' /\ NewHasNoId'
    BY <1>1 DEF Register, IsNew
  <1>2. ASSUME NEW c \in Conns, CleanUp(c) PROVE InOrder' /\ NewHasNoId'
    BY <1>2 DEF CleanUp, SetPhase
  <1>3. CASE PhaseStep
    BY <1>3 DEF PhaseStep, IsNew
  <1>4. CASE QuietStep
    BY <1>4 DEF QuietStep
  <1> QED
    BY StepKinds, <1>1, <1>2, <1>3, <1>4 DEF PoolStep

(* While ids are handed out in order, none above allocated is in use.      *)
LEMMA NextIdIsFree ==
  ASSUME IInv, NEW c \in Conns, NEW m \in Machines, NEW i \in Ids, Register(c, m, i),
         allocated < MaxId
  PROVE  i = allocated + 1
  <1>0. TypeOK /\ PoolConsistent /\ IdsInOrder
    BY DEF IInv
  <1>1. nextId = allocated + 1 /\ nextId \in Ids /\ allocated \in Nat /\ i \in 1..MaxId
    BY <1>0, GatewayAssumption DEF TypeOK, IdsInOrder
  <1>2. nextId \notin Others(m)
    <2>1. ASSUME byShortId[nextId] # NoMachine PROVE FALSE
      <3>1. senders[nextId] \in Conns /\ shortId[senders[nextId]] = nextId
        BY <1>0, <1>1, <2>1 DEF TypeOK, PoolConsistent, Registered
      <3>2. shortId[senders[nextId]] <= allocated
        BY <1>0, <3>1, GatewayAssumption DEF TypeOK, IdsInOrder
      <3> QED
        BY <1>1, <3>1, <3>2
    <2> QED
      BY <2>1 DEF Others, Registered
  <1>3. Distance(i) <= Distance(nextId)
    BY <1>1, <1>2 DEF Register, IsFirstFree
  <1> QED
    BY <1>1, <1>3, GatewayAssumption DEF Distance

LEMMA IdsInOrderStep == IInv /\ [Next]_vars => IdsInOrder'
  <1> SUFFICES ASSUME IInv, [Next]_vars PROVE IdsInOrder'
    OBVIOUS
  <1>0. TypeOK /\ IdsInOrder
    BY DEF IInv
  <1>1. ASSUME NEW c \in Conns, NEW m \in Machines, NEW i \in Ids, Register(c, m, i)
        PROVE IdsInOrder'
    <2>1. /\ allocated' = allocated + 1 /\ allocated \in Nat
          /\ nextId' = IF i = MaxId THEN 1 ELSE i + 1
          /\ shortId' = [shortId EXCEPT ![c] = i]
      BY <1>0, <1>1 DEF TypeOK, Register, Following
    <2>2. CASE allocated < MaxId
      <3>1. i = allocated + 1
        BY <1>1, <2>2, NextIdIsFree
      <3>2. /\ \A d \in Conns : shortId[d] \in Int /\ shortId[d] <= allocated
            /\ \A d, e \in Conns : shortId[d] # NoId /\ shortId[d] = shortId[e] => d = e
        BY <1>0, <2>2, GatewayAssumption DEF TypeOK, IdsInOrder
      <3>3. /\ \A d \in Conns : shortId'[d] = IF d = c THEN allocated + 1 ELSE shortId[d]
            /\ MaxId \in Nat
        BY <1>0, <2>1, <3>1, GatewayAssumption DEF TypeOK
      <3>4. \A d \in Conns : shortId'[d] <= allocated'
        BY <2>1, <3>2, <3>3
      <3>5. \A d, e \in Conns : shortId'[d] # NoId /\ shortId'[d] = shortId'[e] => d = e
        BY <2>1, <3>2, <3>3
      <3>6. allocated' < MaxId => nextId' = allocated' + 1
        BY <2>1, <3>1, <3>3
      <3> QED
        BY <3>4, <3>5, <3>6 DEF IdsInOrder
    <2> QED
      BY <2>1, <2>2, GatewayAssumption DEF IdsInOrder
  <1>2. ASSUME NEW c \in Conns, CleanUp(c) PROVE IdsInOrder'
    <2>1. Leaves(c)
      BY <1>2, CleanUpLeaves
    <2> QED
      BY <1>0, <2>1 DEF Leaves, IdsInOrder
  <1>3. CASE PhaseStep
    BY <1>0, <1>3 DEF PhaseStep, IdsInOrder
  <1>4. CASE QuietStep
    BY <1>0, <1>4 DEF QuietStep, IdsInOrder
  <1> QED
    BY <1>0, StepKinds, <1>1, <1>2, <1>3, <1>4 DEF PoolStep

(* A registration replaces only its own machine's entry, and a clean-up    *)
(* only removes the id of its own connection.                              *)
Served == {"registered", "subscribed", "relay"}
Reachable(d) == senders[shortId[d]] = d \/ \E e \in Conns : e > d /\ machine[e] = machine[d]

LEMMA LiveIsRegisteredStep == IInv /\ [Next]_vars => LiveIsRegistered'
  <1> SUFFICES ASSUME IInv, [Next]_vars, allocated' <= MaxId, NEW d \in Conns,
                      phase'[d] \in Served
               PROVE  Reachable(d)'
    BY DEF LiveIsRegistered, Served, Reachable
  <1>0. /\ TypeOK /\ PoolConsistent /\ InOrder /\ IdsInOrder
        /\ allocated <= MaxId /\ phase[d] \in Served => Reachable(d)
    BY DEF IInv, LiveIsRegistered, Served, Reachable
  <1>1. ASSUME NEW c \in Conns, NEW m \in Machines, NEW i \in Ids, Register(c, m, i)
        PROVE Reachable(d)'
    <2>1. Enters(c, m, i)
      BY <1>1, RegisterEnters
    <2>2. CASE d = c
      <3>1. shortId'[d] = i /\ senders'[i] = d
        BY <1>0, <2>1, <2>2 DEF Enters, TypeOK
      <3> QED
        BY <3>1 DEF Reachable
    <2>3. CASE d # c
      <3>1. /\ phase[d] \in Served /\ shortId[d] \in Ids
            /\ shortId'[d] = shortId[d] /\ machine'[d] = machine[d] /\ machine'[c] = m
        BY <1>0, <2>1, <2>3 DEF Enters, TypeOK, Served
      <3>2. c > d
        <4>1. \A e \in 1..(d - 1) : phase[e] # "new"
          BY <1>0, <3>1 DEF InOrder, Served
        <4>2. phase[c] = "new"
          BY <2>1 DEF Enters
        <4> QED
          BY <2>3, <4>1, <4>2, GatewayAssumption
      <3>3. allocated \in Nat /\ allocated < MaxId /\ i = allocated + 1
        BY <1>0, <1>1, <2>1, NextIdIsFree, GatewayAssumption DEF Enters, TypeOK
      <3>4. CASE \E e \in Conns : e > d /\ machine[e] = machine[d]
        <4>1. PICK e \in Conns : e > d /\ machine[e] = machine[d]
          BY <3>4
        <4>2. machine[d] # NoMachine /\ machine[c] = NoMachine
          BY <1>0, <2>1, <3>1, GatewayAssumption DEF Enters, TypeOK
        <4>3. machine'[e] = machine[e]
          BY <1>0, <2>1, <4>1, <4>2 DEF Enters, TypeOK
        <4> QED
          BY <3>1, <4>1, <4>3 DEF Reachable
      <3>5. CASE senders[shortId[d]] = d
        <4>1. byShortId[shortId[d]] = machine[d] /\ machine[d] \in Machines
          BY <1>0, <3>1, <3>5, GatewayAssumption DEF TypeOK, PoolConsistent, Registered
        <4>2. CASE byMachineId[m] = shortId[d]
          <5>1. machine[d] = m
            BY <1>0, <3>1, <4>1, <4>2, GatewayAssumption DEF TypeOK, PoolConsistent
          <5> QED
            BY <3>1, <3>2, <5>1 DEF Reachable
        <4>3. CASE byMachineId[m] # shortId[d]
          <5>1. shortId[d] <= allocated
            BY <1>0, <3>3, GatewayAssumption DEF IdsInOrder
          <5>2. shortId[d] # i
            BY <3>1, <3>3, <5>1
          <5> QED
            BY <2>1, <3>1, <3>5, <4>3, <5>2 DEF Enters, Reachable
        <4> QED
          BY <4>2, <4>3
      <3>6. Reachable(d)
        BY <1>0, <3>1, <3>3, GatewayAssumption
      <3> QED
        BY <3>4, <3>5, <3>6 DEF Reachable
    <2> QED
      BY <2>2, <2>3
  <1>2. ASSUME NEW c \in Conns, CleanUp(c) PROVE Reachable(d)'
    <2>1. Leaves(c)
      BY <1>2, CleanUpLeaves
    <2>2. /\ d # c /\ phase[d] \in Served /\ shortId[d] \in Ids
          /\ UNCHANGED <<shortId, machine, allocated>>
      BY <1>0, <2>1 DEF Leaves, TypeOK, Served
    <2>3. shortId[d] # shortId[c] /\ Reachable(d)
      BY <1>0, <2>2 DEF IdsInOrder
    <2> QED
      BY <1>0, <2>1, <2>2, <2>3 DEF Leaves, TypeOK, Reachable
  <1>3. CASE PhaseStep
    <2>1. phase[d] \in Served /\ UNCHANGED <<pool, shortId, machine>>
      BY <1>0, <1>3 DEF PhaseStep, TypeOK, Served
    <2> QED
      BY <1>0, <2>1 DEF Reachable
  <1>4. CASE QuietStep
    BY <1>0, <1>4 DEF QuietStep, Reachable
  <1> QED
    BY <1>0, StepKinds, <1>1, <1>2, <1>3, <1>4 DEF PoolStep

-----------------------------------------------------------------------------
LEMMA InitIInv == Init => IInv
  <1> SUFFICES ASSUME Init PROVE IInv
    OBVIOUS
  <1> USE GatewayAssumption DEF Init
  <1>1. TypeOK
    <2>1. queue \in [Conns -> Seq(Frames)] /\ sent \in [Conns -> SUBSET Frames]
      OBVIOUS
    <2> QED
      BY <2>1 DEF TypeOK
  <1>2. Registered = {}
    BY DEF Registered
  <1>3. PoolConsistent
    BY <1>2 DEF PoolConsistent
  <1>4. PoolBounded
    BY <1>2, FS_EmptySet DEF PoolBounded
  <1>5. CleanedUpIsGone /\ InOrder /\ NewHasNoId
    BY DEF CleanedUpIsGone, InOrder, NewHasNoId
  <1>6. IdsInOrder /\ LiveIsRegistered
    BY DEF IdsInOrder, LiveIsRegistered
  <1> QED
    BY <1>1, <1>3, <1>4, <1>5, <1>6 DEF IInv

LEMMA StepIInv == IInv /\ [Next]_vars => IInv'
  BY TypeStep, PoolConsistentStep, PoolBoundedStep, CleanedUpIsGoneStep, InOrderStep,
     IdsInOrderStep, LiveIsRegisteredStep DEF IInv

(* The inductive invariant holds in every reachable state. *)
THEOREM Invariance == Spec => []IInv
  BY InitIInv, StepIInv, PTL DEF Spec

(* The maps of the pool agree with each other and with the connections,    *)
(* never hold more of them than the limit, and keep nothing of one that    *)
(* has cleaned up.                                                         *)
THEOREM PoolStaysSound == Spec => []PoolSound
  <1>1. IInv => PoolSound
    BY DEF IInv, PoolSound
  <1> QED
    BY <1>1, Invariance, PTL

(* Until ids repeat, a served robot is in the pool unless it reconnected.  *)
THEOREM LiveStaysRegistered == Spec => []LiveIsRegistered
  <1>1. IInv => LiveIsRegistered
    BY DEF IInv
  <1> QED
    BY <1>1, Invariance, PTL

(* Every variable keeps its type. *)
THEOREM TypeCorrect == Spec => []TypeOK
  <1>1. IInv => TypeOK
    BY DEF IInv
  <1> QED
    BY <1>1, Invariance, PTL
=============================================================================
