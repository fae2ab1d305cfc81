------------------------ MODULE RobotTelemetryProofs ------------------------
(***************************************************************************)
(* Proofs about telemetry, for a ring, frames, queue and log buffer of any *)
(* size, and messages and states of any values.                            *)
(*                                                                         *)
(* What a receiver makes of frames, what a query finds and what is packed  *)
(* are folds: each is shown to be where a walk along a sequence leads, and *)
(* what holds along a walk is shown by the least place where it would not. *)
(***************************************************************************)
EXTENDS RobotTelemetryProps, SequenceTheorems, WellFoundedInduction, TLAPS

Rings == [slots : [0..(RingSize - 1) -> Nat], head : 0..(RingSize - 1),
          tail : 0..(RingSize - 1), count : 0..RingSize]

(* The parts of the type invariant, one per variable or two.               *)
TypeBuffer ==
  /\ buf \in [0..(BufSize - 1) -> Bytes] /\ writePos \in 0..BufSize /\ entries \in Nat
  /\ fresh \in Seq(Entries)
TypeRing == ring \in Rings
TypeFrame == frame \in Frames
TypeQueue == queue \in Seq(Frames) /\ Len(queue) <= QueueDepth
TypeBeats == differ \in {NoState} \cup {Has(s) : s \in States} /\ shown \in Views /\ missed \in BOOLEAN
TypeCounts == logged \in Nat /\ events \in 0..MaxEvents

LEMMA TypeParts == TypeOK <=> TypeBuffer /\ TypeRing /\ TypeFrame /\ TypeQueue /\ TypeBeats /\ TypeCounts
  BY DEF TypeOK, TypeBuffer, TypeRing, TypeFrame, TypeQueue, TypeBeats, TypeCounts, Rings

-----------------------------------------------------------------------------
(* Helpers.                                                                *)

(* The ring's arithmetic: walks stay in it, two walks in one, and places   *)
(* less than a round apart differ.                                         *)
LEMMA WrapIn ==
  ASSUME NEW i \in Nat, i < RingSize + RingSize
  PROVE  Wrap(i) \in 0..(RingSize - 1)
  BY RingAssumption DEF Wrap

LEMMA WrapTwice ==
  ASSUME NEW t \in 0..(RingSize - 1), NEW a \in Nat, NEW b \in Nat, a + b <= RingSize
  PROVE  Wrap(Wrap(t + a) + b) = Wrap(t + (a + b))
  BY RingAssumption DEF Wrap

LEMMA WrapApart ==
  ASSUME NEW t \in 0..(RingSize - 1), NEW a \in 0..RingSize, NEW b \in 0..RingSize,
         a < b, b - a < RingSize
  PROVE  Wrap(t + a) # Wrap(t + b)
  BY RingAssumption DEF Wrap

LEMMA PushedIn ==
  ASSUME NEW f \in Frames, NEW c \in Commands
  PROVE  Pushed(f, c) \in Frames
  BY RingAssumption DEF Frames, Pushed

LEMMA QueuedIn ==
  ASSUME NEW q \in Seq(Frames), Len(q) <= QueueDepth, NEW f \in Frames
  PROVE  LET r == IF Len(q) < QueueDepth THEN Append(q, f) ELSE q
         IN  r \in Seq(Frames) /\ Len(r) <= QueueDepth
  BY RingAssumption

(* Cutting a string leaves one, shorter than there is room for.            *)
LEMMA CutIn ==
  ASSUME NEW S, NEW s \in Seq(S), NEW max \in Nat \ {0}
  PROVE  Cut(s, max) \in Seq(S) /\ Len(Cut(s, max)) < max
  BY DEF Cut

LEMMA StringsIn ==
  ASSUME NEW s \in Seq(Bytes \ {0})
  PROVE  s \in Seq(Bytes)
  BY SeqMonotonic, Bytes \ {0} \subseteq Bytes

LEMMA InBytes ==
  ASSUME NEW n \in Nat, n <= 255
  PROVE  n \in Bytes
  BY DEF Bytes

(* Two bytes hold a word.                                                  *)
LEMMA InWords ==
  ASSUME NEW n \in Nat, n < 256 * 256
  PROVE  n \in Words
  <1> DEFINE top == 256 * 256 - 1
  <1>1. top \in Nat /\ n <= top
    OBVIOUS
  <1>2. Words = 0..top
    BY DEF Words
  <1> HIDE DEF top
  <1> QED BY <1>1, <1>2

LEMMA Split ==
  ASSUME NEW n \in Words
  PROVE  n % 256 \in Bytes /\ n \div 256 \in Bytes /\ (n % 256) + 256 * (n \div 256) = n
  <1>1. n \in Nat /\ n < 256 * 256
    BY DEF Words
  <1>2. n % 256 \in 0..255 /\ n \div 256 \in Nat /\ (n % 256) + 256 * (n \div 256) = n
    BY <1>1
  <1>3. n \div 256 < 256
    BY <1>1, <1>2
  <1> QED BY <1>2, <1>3 DEF Bytes

(* What two sequences joined have where.                                   *)
LEMMA Joined ==
  ASSUME NEW S, NEW a \in Seq(S), NEW b \in Seq(S)
  PROVE  /\ a \o b \in Seq(S) /\ Len(a \o b) = Len(a) + Len(b) /\ Len(a) \in Nat /\ Len(b) \in Nat
         /\ \A i \in 1..Len(a) : (a \o b)[i] = a[i]
         /\ \A i \in 1..Len(b) : (a \o b)[Len(a) + i] = b[i]
  <1>1. /\ a \o b \in Seq(S) /\ Len(a \o b) = Len(a) + Len(b) /\ Len(a) \in Nat /\ Len(b) \in Nat
        /\ \A i \in 1..(Len(a) + Len(b)) : (a \o b)[i] = IF i <= Len(a) THEN a[i] ELSE b[i - Len(a)]
    BY ConcatProperties
  <1>2. ASSUME NEW i \in 1..Len(a) PROVE (a \o b)[i] = a[i]
    BY <1>1
  <1>3. ASSUME NEW i \in 1..Len(b) PROVE (a \o b)[Len(a) + i] = b[i]
    <2>1. Len(a) + i \in 1..(Len(a) + Len(b)) /\ ~(Len(a) + i <= Len(a)) /\ (Len(a) + i) - Len(a) = i
      BY <1>1
    <2> QED BY <1>1, <2>1
  <1> QED BY <1>1, <1>2, <1>3

-----------------------------------------------------------------------------
(* The log buffer.                                                         *)

(* What an entry is by the time it is in the buffer, and its length there. *)
Entry(time, m) == [time |-> time, level |-> m.level, tag |-> Cut(m.tag, TagMax), msg |-> Cut(m.msg, MsgMax)]
Size(e) == Overhead + Len(e.tag) + Len(e.msg)

LEMMA EntryIs ==
  ASSUME NEW time \in Words, NEW m \in Messages
  PROVE  /\ Entry(time, m) \in Entries
         /\ Len(Entry(time, m).tag) < TagMax /\ Len(Entry(time, m).msg) < MsgMax
  <1>1. /\ TagMax \in Nat \ {0} /\ MsgMax \in Nat \ {0} /\ m.level \in Bytes
        /\ m.tag \in Seq(Bytes \ {0}) /\ m.msg \in Seq(Bytes \ {0})
    BY BufferAssumption
  <1>2. /\ Cut(m.tag, TagMax) \in Seq(Bytes \ {0}) /\ Len(Cut(m.tag, TagMax)) < TagMax
        /\ Cut(m.msg, MsgMax) \in Seq(Bytes \ {0}) /\ Len(Cut(m.msg, MsgMax)) < MsgMax
    BY <1>1, CutIn
  <1> QED BY <1>1, <1>2 DEF Entry, Entries

(* The bytes of an entry, by their places.                                 *)
Encodes(bytes, e) ==
  /\ bytes \in Seq(Bytes) /\ Len(bytes) = Size(e)
  /\ bytes[1] + 256 * bytes[2] = e.time /\ bytes[5] = e.level /\ bytes[6] = Len(e.tag)
  /\ \A k \in 1..Len(e.tag) : bytes[6 + k] = e.tag[k]
  /\ bytes[7 + Len(e.tag)] + 256 * bytes[8 + Len(e.tag)] = Len(e.msg)
  /\ \A k \in 1..Len(e.msg) : bytes[8 + Len(e.tag) + k] = e.msg[k]

LEMMA EntryEncoded ==
  ASSUME NEW time \in Words, NEW m \in Messages
  PROVE  Encodes(EncodedEntry(time, m), Entry(time, m))
  <1> DEFINE e == Entry(time, m)
             t == e.tag
             g == e.msg
             first == <<time % 256, time \div 256, 0, 0, m.level, Len(t)>>
             second == <<Len(g) % 256, Len(g) \div 256>>
             bytes == first \o t \o second \o g
  <1>1. /\ t \in Seq(Bytes \ {0}) /\ g \in Seq(Bytes \ {0}) /\ Len(t) \in Bytes /\ Len(g) \in Words
        /\ e.time = time /\ e.level = m.level /\ m.level \in Bytes
    <2>1. TagMax <= 256 /\ MsgMax <= 256 * 256 /\ TagMax \in Nat /\ MsgMax \in Nat /\ m.level \in Bytes
      BY BufferAssumption
    <2>2. e.time = time /\ e.level = m.level
      BY DEF Entry
    <2>3. t \in Seq(Bytes \ {0}) /\ g \in Seq(Bytes \ {0})
      BY EntryIs DEF Entries
    <2>4. Len(t) < TagMax /\ Len(g) < MsgMax
      BY EntryIs
    <2> HIDE DEF t, g, e
    <2>5. Len(t) \in Nat /\ Len(g) \in Nat
      BY <2>3
    <2>6. Len(t) \in Bytes /\ Len(g) \in Words
      <3>1. Len(t) <= 255
        BY <2>1, <2>4, <2>5
      <3>2. Len(g) < 256 * 256
        BY <2>1, <2>4, <2>5
      <3>3. Len(t) \in Bytes
        BY <2>5, <3>1, InBytes
      <3>4. Len(g) \in Words
        BY <2>5, <3>2, InWords
      <3> QED BY <3>3, <3>4
    <2> QED BY <2>1, <2>2, <2>3, <2>6
  <1>2. EncodedEntry(time, m) = bytes
    BY DEF EncodedEntry, Entry
  <1> HIDE DEF e, t, g
  <1>3. time % 256 \in Bytes /\ time \div 256 \in Bytes /\ (time % 256) + 256 * (time \div 256) = time
    BY Split
  <1>4. Len(g) % 256 \in Bytes /\ Len(g) \div 256 \in Bytes /\ (Len(g) % 256) + 256 * (Len(g) \div 256) = Len(g)
    BY <1>1, Split
  <1>5. 0 \in Bytes
    BY DEF Bytes
  <1>6. first \in Seq(Bytes) /\ second \in Seq(Bytes) /\ t \in Seq(Bytes) /\ g \in Seq(Bytes)
    BY <1>1, <1>3, <1>4, <1>5, StringsIn
  <1>7. /\ first[1] = time % 256 /\ first[2] = time \div 256 /\ first[5] = m.level /\ first[6] = Len(t)
        /\ second[1] = Len(g) % 256 /\ second[2] = Len(g) \div 256
        /\ Len(first) = 6 /\ Len(second) = 2
    OBVIOUS
  <1> HIDE DEF first, second
  <1> DEFINE head == first \o t
             most == head \o second
  <1>8. head \in Seq(Bytes)
    BY <1>6, Joined
  <1>9. /\ Len(head) = 6 + Len(t) /\ Len(t) \in Nat /\ Len(g) \in Nat
        /\ \A i \in 1..6 : head[i] = first[i]
        /\ \A k \in 1..Len(t) : head[6 + k] = t[k]
    <2>1. /\ Len(head) = Len(first) + Len(t)
          /\ \A i \in 1..Len(first) : head[i] = first[i]
          /\ \A k \in 1..Len(t) : head[Len(first) + k] = t[k]
      BY <1>6, Joined
    <2> HIDE DEF head
    <2> QED BY <1>1, <1>7, <2>1
  <1> HIDE DEF head
  <1>10. most \in Seq(Bytes)
    BY <1>6, <1>8, Joined
  <1>11. /\ Len(most) = 8 + Len(t)
         /\ \A i \in 1..(6 + Len(t)) : most[i] = head[i]
         /\ \A j \in 1..2 : most[6 + Len(t) + j] = second[j]
    <2>1. /\ Len(most) = Len(head) + Len(second)
          /\ \A i \in 1..Len(head) : most[i] = head[i]
          /\ \A j \in 1..Len(second) : most[Len(head) + j] = second[j]
      BY <1>6, <1>8, Joined
    <2> HIDE DEF most
    <2> QED BY <1>7, <1>9, <2>1
  <1> HIDE DEF most
  <1>12. bytes \in Seq(Bytes)
    BY <1>6, <1>10, Joined DEF most, head
  <1>13. /\ Len(bytes) = 8 + Len(t) + Len(g)
         /\ \A i \in 1..(8 + Len(t)) : bytes[i] = most[i]
         /\ \A k \in 1..Len(g) : bytes[8 + Len(t) + k] = g[k]
    <2>1. bytes = most \o g
      BY DEF most, head
    <2> HIDE DEF bytes
    <2>2. /\ Len(most \o g) = Len(most) + Len(g)
          /\ \A i \in 1..Len(most) : (most \o g)[i] = most[i]
          /\ \A k \in 1..Len(g) : (most \o g)[Len(most) + k] = g[k]
      BY <1>6, <1>10, Joined
    <2> QED BY <1>9, <1>11, <2>1, <2>2
  <1> HIDE DEF bytes
  <1>14. \A k \in 1..Len(t) : bytes[6 + k] = t[k]
    <2> SUFFICES ASSUME NEW k \in 1..Len(t) PROVE bytes[6 + k] = t[k]
      OBVIOUS
    <2>1. 6 + k \in 1..(8 + Len(t)) /\ 6 + k \in 1..(6 + Len(t))
      BY <1>9
    <2> QED BY <1>9, <1>11, <1>13, <2>1
  <1>15. bytes[1] = time % 256 /\ bytes[2] = time \div 256 /\ bytes[5] = m.level /\ bytes[6] = Len(t)
    <2>1. \A i \in 1..6 : i \in 1..(8 + Len(t)) /\ i \in 1..(6 + Len(t))
      BY <1>9
    <2>2. \A i \in 1..6 : bytes[i] = first[i]
      BY <1>9, <1>11, <1>13, <2>1
    <2> QED BY <1>7, <2>2
  <1>16. bytes[7 + Len(t)] = Len(g) % 256 /\ bytes[8 + Len(t)] = Len(g) \div 256
    <2>1. \A j \in 1..2 : 6 + Len(t) + j \in 1..(8 + Len(t))
      BY <1>9
    <2>2. \A j \in 1..2 : bytes[6 + Len(t) + j] = second[j]
      BY <1>11, <1>13, <2>1
    <2>3. 6 + Len(t) + 1 = 7 + Len(t) /\ 6 + Len(t) + 2 = 8 + Len(t)
      BY <1>9
    <2> QED BY <1>7, <2>2, <2>3
  <1>17. Encodes(bytes, e)
    BY <1>1, <1>3, <1>4, <1>12, <1>13, <1>14, <1>15, <1>16 DEF Encodes, Size, Overhead, t, g
  <1> QED BY <1>2, <1>17 DEF e

LEMMA AppendTypes ==
  ASSUME TypeBuffer, NEW time \in Words, NEW m \in Messages, LogAppend(time, m)
  PROVE  TypeBuffer'
  <1> DEFINE bytes == EncodedEntry(time, m)
             start == Start(Len(bytes))
  <1>1. bytes \in Seq(Bytes)
    BY EntryEncoded DEF Encodes
  <1>2. start \in 0..BufSize
    BY <1>1, BufferAssumption DEF Start, TypeBuffer
  <1>3. \A i \in 0..(BufSize - 1) :
          i \in start..(start + Len(bytes) - 1) => bytes[i - start + 1] \in Bytes
    BY <1>1, <1>2
  <1>4. /\ buf' \in [0..(BufSize - 1) -> Bytes]
        /\ writePos' = IF Len(bytes) <= BufSize - start THEN start + Len(bytes) ELSE start
    BY <1>3 DEF LogAppend, TypeBuffer
  <1> HIDE DEF bytes, start
  <1>5. writePos' \in 0..BufSize
    BY <1>1, <1>2, <1>4, BufferAssumption
  <1>6. entries' \in Nat
    BY DEF LogAppend, TypeBuffer
  <1>7. fresh' \in Seq(Entries)
    <2>1. fresh' = IF start = 0 THEN <<Entry(time, m)>> ELSE Append(fresh, Entry(time, m))
      BY DEF LogAppend, Entry, start, bytes
    <2> QED BY <2>1, EntryIs DEF TypeBuffer
  <1> QED BY <1>4, <1>5, <1>6, <1>7 DEF TypeBuffer

LEMMA NextTime ==
  ASSUME events \in Nat, events < MaxEvents
  PROVE  events + 1 \in Words
  <1>1. MaxEvents \in Nat /\ MaxEvents < 256 * 256
    BY RingAssumption DEF Words
  <1> QED BY <1>1, InWords

LEMMA BufferTypes ==
  ASSUME TypeBuffer, events \in Nat, events < MaxEvents, Buffer
  PROVE  TypeBuffer'
  <1>1. CASE \E m \in Messages : LogAppend(events + 1, m)
    BY <1>1, NextTime, AppendTypes
  <1>2. CASE LogClear
    BY <1>2, BufferAssumption DEF LogClear, TypeBuffer, Bytes
  <1> QED BY <1>1, <1>2 DEF Buffer

-----------------------------------------------------------------------------
(* Walks along sequences, and induction along them.                        *)

Less == {ss \in Nat \X Nat : ss[1] < ss[2]}
LEMMA LessWellFounded == IsWellFoundedOn(Less, Nat)
  BY NatLessThanWellFounded DEF OpToRel, Less

LEMMA LeastOf ==
  ASSUME NEW T \in SUBSET Nat, T # {}
  PROVE  \E x \in T : \A y \in T : x <= y
  <1>1. PICK x \in T : \A y \in T : ~ (<<y, x>> \in Less)
    BY LessWellFounded, WFMin
  <1>2. ASSUME NEW y \in T PROVE x <= y
    <2>1. x \in Nat /\ y \in Nat /\ <<y, x>> \notin Less
      BY <1>1
    <2>2. ~ (y < x)
      BY <2>1 DEF Less
    <2> QED BY <2>1, <2>2
  <1> QED BY <1>2

LEMMA Induction ==
  ASSUME NEW T, 0 \in T, \A n \in Nat : n \in T => n + 1 \in T
  PROVE  \A n \in Nat : n \in T
  <1> DEFINE M == Nat \ T
  <1>1. SUFFICES ASSUME M # {} PROVE FALSE
    OBVIOUS
  <1>2. PICK x \in M : \A y \in M : x <= y
    BY <1>1, LeastOf
  <1>3. x # 0 /\ x \in Nat
    BY <1>2
  <1>4. x - 1 \in Nat /\ x - 1 \notin M
    BY <1>2, <1>3
  <1>5. x \in T
    <2>1. x - 1 \in T
      BY <1>4
    <2>2. (x - 1) + 1 \in T
      BY <2>1, <1>4
    <2> QED BY <2>2, <1>3
  <1> QED BY <1>2, <1>5

(* A walk along a sequence: from x, each step is taken from where the last *)
(* one led and with the next element.  A fold gives where its walk ends.   *)
IsWalk(w, X, C, step, x, s) ==
  /\ step \in [X \X C -> X] /\ x \in X /\ s \in Seq(C)
  /\ w[0] = x /\ \A n \in 1..Len(s) : w[n - 1] \in X => w[n] = step[<<w[n - 1], s[n]>>]
FullWalk(w, X, C, step, x, s) ==
  /\ w \in [0..Len(s) -> X] /\ w[0] = x
  /\ \A n \in 1..Len(s) : w[n - 1] \in X /\ w[n] = step[<<w[n - 1], s[n]>>]
LeadsTo(X, C, step, x, s, y) == \E w : IsWalk(w, X, C, step, x, s) /\ w[Len(s)] = y

(* One sequence is the beginning of another.                               *)
Begins(f, g) == Len(f) <= Len(g) /\ \A i \in 1..Len(f) : g[i] = f[i]

LEMMA WalkExists ==
  ASSUME NEW X, NEW C, NEW step \in [X \X C -> X], NEW x \in X, NEW s \in Seq(C)
  PROVE  \E w : FullWalk(w, X, C, step, x, s)
  <1> DEFINE Upto(m, w) == w[0] = x /\ \A n \in 1..m : w[n] = step[<<w[n - 1], s[n]>>]
             T == {m \in Nat : m <= Len(s) => \E w \in [0..m -> X] : Upto(m, w)}
  <1>1. Len(s) \in Nat /\ \A n \in 1..Len(s) : s[n] \in C
    OBVIOUS
  <1>2. 0 \in T
    <2>1. [i \in 0..0 |-> x] \in [0..0 -> X] /\ [i \in 0..0 |-> x][0] = x /\ 1..0 = {}
      OBVIOUS
    <2> QED BY <2>1
  <1>3. ASSUME NEW m \in Nat, m + 1 <= Len(s), \E w \in [0..m -> X] : Upto(m, w)
        PROVE  \E w \in [0..(m + 1) -> X] : Upto(m + 1, w)
    <2>1. PICK w \in [0..m -> X] : Upto(m, w)
      BY <1>3
    <2> DEFINE v == [i \in 0..(m + 1) |-> IF i <= m THEN w[i] ELSE step[<<w[m], s[m + 1]>>]]
    <2>2. step[<<w[m], s[m + 1]>>] \in X
      <3>1. w[m] \in X /\ m + 1 \in 1..Len(s)
        BY <1>1, <1>3
      <3>2. s[m + 1] \in C
        BY <1>1, <3>1
      <3> QED BY <3>1, <3>2
    <2>3. v \in [0..(m + 1) -> X] /\ v[0] = x
      BY <2>1, <2>2
    <2>4. ASSUME NEW n \in 1..(m + 1) PROVE v[n] = step[<<v[n - 1], s[n]>>]
      <3>1. CASE n = m + 1
        <4>1. v[m + 1] = step[<<w[m], s[m + 1]>>] /\ v[m] = w[m] /\ (m + 1) - 1 = m
          OBVIOUS
        <4> HIDE DEF v
        <4> QED BY <3>1, <4>1
      <3>2. CASE n <= m
        <4>1. n \in 1..m /\ n - 1 \in 0..m
          BY <3>2
        <4>2. v[n] = w[n] /\ v[n - 1] = w[n - 1]
          BY <4>1
        <4> QED BY <2>1, <4>1, <4>2
      <3> QED BY <3>1, <3>2
    <2> QED BY <2>3, <2>4
  <1> HIDE DEF Upto
  <1>4. \A m \in Nat : m \in T => m + 1 \in T
    BY <1>1, <1>3
  <1>5. \A m \in Nat : m \in T
    <2> HIDE DEF T
    <2> QED BY <1>2, <1>4, Induction
  <1>6. PICK w \in [0..Len(s) -> X] : Upto(Len(s), w)
    BY <1>1, <1>5
  <1>7. \A n \in 1..Len(s) : n - 1 \in 0..Len(s) /\ w[n - 1] \in X
    BY <1>1
  <1> QED BY <1>6, <1>7 DEF Upto, FullWalk

(* Two walks that begin alike agree for as long as their sequences do.     *)
LEMMA WalksAgree ==
  ASSUME NEW X, NEW C, NEW step, NEW x, NEW f, NEW g,
         NEW v, NEW w, IsWalk(v, X, C, step, x, f), IsWalk(w, X, C, step, x, g),
         Begins(f, g)
  PROVE  \A n \in 0..Len(f) : v[n] \in X /\ w[n] = v[n]
  <1> DEFINE T == {n \in Nat : n <= Len(f) => v[n] \in X /\ w[n] = v[n]}
  <1>1. /\ Len(f) \in Nat /\ Len(g) \in Nat /\ \A n \in 1..Len(f) : f[n] \in C
        /\ Len(f) <= Len(g) /\ \A i \in 1..Len(f) : g[i] = f[i]
        /\ step \in [X \X C -> X]
    BY DEF Begins, IsWalk
  <1>2. 0 \in T
    BY DEF IsWalk
  <1>3. ASSUME NEW n \in Nat, n + 1 <= Len(f), v[n] \in X, w[n] = v[n]
        PROVE  v[n + 1] \in X /\ w[n + 1] = v[n + 1]
    <2>1. n + 1 \in 1..Len(f) /\ n + 1 \in 1..Len(g) /\ (n + 1) - 1 = n
      BY <1>1, <1>3
    <2>2. v[n + 1] = step[<<v[n], f[n + 1]>>] /\ w[n + 1] = step[<<w[n], g[n + 1]>>]
      BY <1>3, <2>1 DEF IsWalk
    <2>3. g[n + 1] = f[n + 1] /\ f[n + 1] \in C
      BY <1>1, <2>1
    <2> QED BY <1>1, <1>3, <2>2, <2>3
  <1>4. \A n \in Nat : n \in T => n + 1 \in T
    BY <1>1, <1>3
  <1> HIDE DEF T
  <1>5. \A n \in Nat : n \in T
    BY <1>2, <1>4, Induction
  <1> QED BY <1>1, <1>5 DEF T

LEMMA LeadsToOne ==
  ASSUME NEW X, NEW C, NEW step, NEW x, NEW s, NEW y,
         LeadsTo(X, C, step, x, s, y)
  PROVE  y \in X /\ (s = <<>> => y = x)
  <1>1. PICK w : IsWalk(w, X, C, step, x, s) /\ w[Len(s)] = y
    BY DEF LeadsTo
  <1>2. Len(s) \in Nat /\ (s = <<>> => Len(s) = 0)
    OBVIOUS
  <1>3. w[Len(s)] \in X
    <2>1. Begins(s, s)
      BY <1>2 DEF Begins
    <2>2. \A n \in 0..Len(s) : w[n] \in X
      BY <1>1, <2>1, WalksAgree
    <2> QED BY <1>2, <2>2
  <1> QED BY <1>1, <1>2, <1>3 DEF IsWalk

(* One element more is one step more.                                      *)
LEMMA LeadsFurther ==
  ASSUME NEW X, NEW C, NEW step, NEW x, NEW s, NEW c \in C, NEW y, NEW z,
         LeadsTo(X, C, step, x, s, y), LeadsTo(X, C, step, x, Append(s, c), z)
  PROVE  y \in X /\ z = step[<<y, c>>]
  <1> DEFINE t == Append(s, c)
  <1>1. PICK v : IsWalk(v, X, C, step, x, s) /\ v[Len(s)] = y
    BY DEF LeadsTo
  <1>2. PICK w : IsWalk(w, X, C, step, x, t) /\ w[Len(t)] = z
    BY DEF LeadsTo
  <1>3. t \in Seq(C) /\ Len(t) = Len(s) + 1 /\ Len(s) \in Nat /\ t[Len(s) + 1] = c
        /\ \A i \in 1..Len(s) : t[i] = s[i]
    BY <1>1 DEF IsWalk
  <1> HIDE DEF t
  <1>4. v[Len(s)] \in X /\ w[Len(s)] = v[Len(s)]
    <2>1. Begins(s, t)
      BY <1>3 DEF Begins
    <2>2. \A n \in 0..Len(s) : v[n] \in X /\ w[n] = v[n]
      BY <1>1, <1>2, <1>3, <2>1, WalksAgree
    <2> QED BY <1>3, <2>2
  <1>5. Len(s) + 1 \in 1..Len(t) /\ (Len(s) + 1) - 1 = Len(s)
    BY <1>3
  <1>6. w[Len(s) + 1] = step[<<w[Len(s)], t[Len(s) + 1]>>]
    BY <1>2, <1>4, <1>5 DEF IsWalk
  <1> QED BY <1>1, <1>2, <1>3, <1>4, <1>6

(* Elements that change nothing may follow.                                *)
LEMMA LeadsNoFurther ==
  ASSUME NEW X, NEW C, NEW step, NEW x, NEW f, NEW g, NEW y, NEW z,
         LeadsTo(X, C, step, x, f, y), LeadsTo(X, C, step, x, g, z),
         Begins(f, g),
         \A i \in (Len(f) + 1)..Len(g) : \A a \in X : step[<<a, g[i]>>] = a
  PROVE  z = y
  <1>1. PICK v : IsWalk(v, X, C, step, x, f) /\ v[Len(f)] = y
    BY DEF LeadsTo
  <1>2. PICK w : IsWalk(w, X, C, step, x, g) /\ w[Len(g)] = z
    BY DEF LeadsTo
  <1> DEFINE T == {n \in Nat : Len(f) + n <= Len(g) => w[Len(f) + n] = y}
  <1>3. Len(f) \in Nat /\ Len(g) \in Nat /\ Len(f) <= Len(g)
    BY DEF Begins
  <1>4. v[Len(f)] \in X /\ w[Len(f)] = v[Len(f)]
    <2>1. \A n \in 0..Len(f) : v[n] \in X /\ w[n] = v[n]
      BY <1>1, <1>2, WalksAgree
    <2> QED BY <1>3, <2>1
  <1>5. 0 \in T
    BY <1>1, <1>3, <1>4
  <1>6. ASSUME NEW n \in Nat, Len(f) + (n + 1) <= Len(g), w[Len(f) + n] = y
        PROVE  w[Len(f) + (n + 1)] = y
    <2>1. Len(f) + (n + 1) \in (Len(f) + 1)..Len(g) /\ Len(f) + (n + 1) \in 1..Len(g)
          /\ (Len(f) + (n + 1)) - 1 = Len(f) + n
      BY <1>3, <1>6
    <2>2. y \in X
      BY <1>1, <1>4
    <2>3. w[Len(f) + (n + 1)] = step[<<w[Len(f) + n], g[Len(f) + (n + 1)]>>]
      BY <1>2, <1>6, <2>1, <2>2 DEF IsWalk
    <2> QED BY <1>6, <2>1, <2>2, <2>3
  <1>7. ASSUME NEW n \in Nat, n \in T PROVE n + 1 \in T
    <2>1. ASSUME Len(f) + (n + 1) <= Len(g) PROVE w[Len(f) + (n + 1)] = y
      <3>1. Len(f) + n <= Len(g)
        BY <1>3, <2>1
      <3> QED BY <1>6, <1>7, <2>1, <3>1
    <2> QED BY <2>1
  <1>8. \A n \in Nat : n \in T
    <2> HIDE DEF T
    <2> QED BY <1>5, <1>7, Induction
  <1> DEFINE d == Len(g) - Len(f)
  <1>9. d \in Nat /\ Len(f) + d = Len(g)
    BY <1>3
  <1>10. w[Len(f) + d] = y
    <2> HIDE DEF d
    <2>1. d \in T
      BY <1>8, <1>9
    <2> QED BY <1>3, <1>9, <2>1
  <1> QED BY <1>2, <1>9, <1>10

(* The first step may be taken by itself.                                  *)
LEMMA LeadsFromHead ==
  ASSUME NEW X, NEW C, NEW step, NEW x, NEW s, s # <<>>, NEW y, NEW z,
         LeadsTo(X, C, step, x, s, y), LeadsTo(X, C, step, step[<<x, Head(s)>>], Tail(s), z)
  PROVE  z = y
  <1> DEFINE x1 == step[<<x, Head(s)>>]
             t == Tail(s)
  <1>1. PICK v : IsWalk(v, X, C, step, x, s) /\ v[Len(s)] = y
    BY DEF LeadsTo
  <1>2. PICK w : IsWalk(w, X, C, step, x1, t) /\ w[Len(t)] = z
    BY DEF LeadsTo
  <1>3. Len(s) \in Nat \ {0} /\ Len(t) = Len(s) - 1 /\ Head(s) = s[1] /\ Head(s) \in C /\ t \in Seq(C)
        /\ \A i \in 1..Len(t) : t[i] = s[i + 1]
        /\ step \in [X \X C -> X] /\ x \in X
    BY <1>1 DEF IsWalk
  <1>4. x1 \in X /\ v[0] = x /\ v[1] = x1 /\ w[0] = x1
    <2>1. 1 \in 1..Len(s) /\ 1 - 1 = 0
      BY <1>3
    <2>2. v[0] = x
      BY <1>1 DEF IsWalk
    <2>3. v[1] = step[<<v[0], s[1]>>]
      BY <1>1, <2>1, <2>2 DEF IsWalk
    <2> QED BY <1>2, <1>3, <2>2, <2>3 DEF IsWalk
  <1> HIDE DEF x1, t
  <1> DEFINE T == {n \in Nat : n <= Len(t) => w[n] \in X /\ v[n + 1] = w[n]}
  <1>5. 0 \in T
    BY <1>4
  <1>6. ASSUME NEW n \in Nat, n + 1 <= Len(t), w[n] \in X, v[n + 1] = w[n]
        PROVE  w[n + 1] \in X /\ v[(n + 1) + 1] = w[n + 1]
    <2>1. n + 1 \in 1..Len(t) /\ (n + 1) - 1 = n /\ (n + 1) + 1 \in 1..Len(s) /\ ((n + 1) + 1) - 1 = n + 1
      BY <1>3, <1>6
    <2>2. w[n + 1] = step[<<w[n], t[n + 1]>>]
      BY <1>2, <1>6, <2>1 DEF IsWalk
    <2>3. v[(n + 1) + 1] = step[<<v[n + 1], s[(n + 1) + 1]>>]
      BY <1>1, <1>6, <2>1 DEF IsWalk
    <2>4. t[n + 1] = s[(n + 1) + 1] /\ t[n + 1] \in C
      BY <1>3, <2>1
    <2> QED BY <1>3, <1>6, <2>2, <2>3, <2>4
  <1>7. ASSUME NEW n \in Nat, n \in T PROVE n + 1 \in T
    <2>1. ASSUME n + 1 <= Len(t) PROVE w[n + 1] \in X /\ v[(n + 1) + 1] = w[n + 1]
      <3>1. n <= Len(t)
        BY <1>3, <2>1
      <3> QED BY <1>6, <1>7, <2>1, <3>1
    <2> QED BY <2>1
  <1>8. \A n \in Nat : n \in T
    <2> HIDE DEF T
    <2> QED BY <1>5, <1>7, Induction
  <1>9. Len(t) \in Nat /\ Len(t) + 1 = Len(s)
    BY <1>3
  <1> QED BY <1>1, <1>2, <1>8, <1>9

-----------------------------------------------------------------------------
(* What a receiver makes of heartbeats.                                    *)

Deltas ==
  [type : {"full"}, state : States] \cup [type : {"noChange"}]
    \cup [type : {"batteryOnly"}, battery : {s.battery : s \in States}]

LEMMA HasIn ==
  ASSUME NEW s \in States
  PROVE  Has(s) \in Views
  BY StatesAssumption DEF Has, Views

LEMMA AppliedIn ==
  ASSUME NEW v \in Views, NEW d \in Deltas
  PROVE  Applied(v, d) \in Views
  <1>1. CASE d.type = "full"
    <2>1. d.state \in States
      BY <1>1 DEF Deltas
    <2> QED BY <1>1, <2>1, HasIn DEF Applied
  <1>2. CASE d.type = "batteryOnly" /\ v.has
    <2>1. d.battery \in {s.battery : s \in States}
      BY <1>2 DEF Deltas
    <2>2. v # NoState
      BY <1>2 DEF NoState
    <2> QED BY <1>2, <2>1, <2>2 DEF Applied, Views
  <1>3. CASE d.type # "full" /\ ~(d.type = "batteryOnly" /\ v.has)
    BY <1>3 DEF Applied
  <1> QED BY <1>1, <1>2, <1>3

LEMMA AppliedCmdIn ==
  ASSUME NEW v \in Views, NEW c \in Commands
  PROVE  AppliedCmd(v, c) \in Views
  <1>1. CASE c.kind = "beat"
    <2>1. c.delta \in Deltas
      BY <1>1 DEF Commands, Deltas
    <2> QED BY <1>1, <2>1, AppliedIn DEF AppliedCmd
  <1>2. CASE c.kind # "beat"
    BY <1>2 DEF AppliedCmd
  <1> QED BY <1>1, <1>2

(* What a receiver makes of a frame, and of a queue, is where walks lead.  *)
CmdStep == [p \in Views \X Commands |-> AppliedCmd(p[1], p[2])]
FrameStep == [p \in Views \X Frames |-> AllApplied(p[1], p[2])]

LEMMA AppliedLeads ==
  ASSUME NEW v \in Views, NEW f \in Seq(Commands)
  PROVE  LeadsTo(Views, Commands, CmdStep, v, f, AllApplied(v, f))
  <1> DEFINE Body(g) == [n \in 0..Len(f) |-> IF n = 0 THEN v ELSE AppliedCmd(g[n - 1], f[n])]
             w == CHOOSE g : g = Body(g)
  <1>1. CmdStep \in [Views \X Commands -> Views]
    BY AppliedCmdIn DEF CmdStep
  <1>2. Len(f) \in Nat /\ \A n \in 1..Len(f) : f[n] \in Commands
    OBVIOUS
  <1>3. PICK g : FullWalk(g, Views, Commands, CmdStep, v, f)
    BY <1>1, WalkExists
  <1>4. \A n \in 1..Len(f) : g[n] = AppliedCmd(g[n - 1], f[n])
    BY <1>2, <1>3 DEF FullWalk, CmdStep
  <1>5. g = Body(g)
    BY <1>2, <1>3, <1>4 DEF FullWalk
  <1>6. w = Body(w)
    <2> HIDE DEF Body
    <2> QED BY <1>5
  <1>7. AllApplied(v, f) = w[Len(f)]
    BY DEF AllApplied
  <1> HIDE DEF w
  <1>8. w[0] = v /\ \A n \in 1..Len(f) : w[n] = AppliedCmd(w[n - 1], f[n])
    BY <1>2, <1>6
  <1>9. \A n \in 1..Len(f) : w[n - 1] \in Views => w[n] = CmdStep[<<w[n - 1], f[n]>>]
    BY <1>2, <1>8 DEF CmdStep
  <1>10. IsWalk(w, Views, Commands, CmdStep, v, f)
    BY <1>1, <1>8, <1>9 DEF IsWalk
  <1> QED BY <1>7, <1>10 DEF LeadsTo

LEMMA AppliedFrame ==
  ASSUME NEW v \in Views, NEW f \in Seq(Commands)
  PROVE  AllApplied(v, f) \in Views /\ (f = <<>> => AllApplied(v, f) = v)
  BY AppliedLeads, LeadsToOne

LEMMA AppliedPushed ==
  ASSUME NEW v \in Views, NEW f \in Seq(Commands), NEW c \in Commands
  PROVE  AllApplied(v, Append(f, c)) = AppliedCmd(AllApplied(v, f), c)
  <1>1. LeadsTo(Views, Commands, CmdStep, v, f, AllApplied(v, f))
    BY AppliedLeads
  <1>2. LeadsTo(Views, Commands, CmdStep, v, Append(f, c), AllApplied(v, Append(f, c)))
    <2>1. Append(f, c) \in Seq(Commands)
      OBVIOUS
    <2> QED BY <2>1, AppliedLeads
  <1>3. AllApplied(v, f) \in Views /\ AllApplied(v, Append(f, c)) = CmdStep[<<AllApplied(v, f), c>>]
    BY <1>1, <1>2, LeadsFurther
  <1> QED BY <1>3 DEF CmdStep

(* Commands that are no heartbeats tell a receiver nothing.                *)
LEMMA AppliedSilent ==
  ASSUME NEW v \in Views, NEW f \in Seq(Commands), NEW g \in Seq(Commands), Begins(f, g),
         \A i \in (Len(f) + 1)..Len(g) : g[i].kind # "beat"
  PROVE  AllApplied(v, g) = AllApplied(v, f)
  <1>1. LeadsTo(Views, Commands, CmdStep, v, f, AllApplied(v, f))
        /\ LeadsTo(Views, Commands, CmdStep, v, g, AllApplied(v, g))
    BY AppliedLeads
  <1>2. \A i \in (Len(f) + 1)..Len(g) : \A a \in Views : CmdStep[<<a, g[i]>>] = a
    <2> SUFFICES ASSUME NEW i \in (Len(f) + 1)..Len(g), NEW a \in Views
                 PROVE  CmdStep[<<a, g[i]>>] = a
      OBVIOUS
    <2>1. g[i] \in Commands /\ g[i].kind # "beat"
      OBVIOUS
    <2> QED BY <2>1 DEF CmdStep, AppliedCmd
  <1> QED BY <1>1, <1>2, LeadsNoFurther

LEMMA NoBeatsNothing ==
  ASSUME NEW v \in Views, NEW f \in Frames, ~Beats(f)
  PROVE  AllApplied(v, f) = v
  <1>1. <<>> \in Seq(Commands) /\ f \in Seq(Commands) /\ Begins(<<>>, f)
        /\ \A i \in (Len(<<>>) + 1)..Len(f) : f[i].kind # "beat"
    BY DEF Frames, Begins, Beats
  <1>2. AllApplied(v, f) = AllApplied(v, <<>>)
    BY <1>1, AppliedSilent
  <1> QED BY <1>1, <1>2, AppliedFrame

LEMMA ReceivedLeads ==
  ASSUME NEW v \in Views, NEW q \in Seq(Frames)
  PROVE  LeadsTo(Views, Frames, FrameStep, v, q, AllReceived(v, q))
  <1> DEFINE Body(g) == [n \in 0..Len(q) |-> IF n = 0 THEN v ELSE AllApplied(g[n - 1], q[n])]
             w == CHOOSE g : g = Body(g)
  <1>1. FrameStep \in [Views \X Frames -> Views]
    <2>1. \A u \in Views, f \in Frames : AllApplied(u, f) \in Views
      BY AppliedFrame DEF Frames
    <2> QED BY <2>1 DEF FrameStep
  <1>2. Len(q) \in Nat /\ \A n \in 1..Len(q) : q[n] \in Frames
    OBVIOUS
  <1>3. PICK g : FullWalk(g, Views, Frames, FrameStep, v, q)
    BY <1>1, WalkExists
  <1>4. \A n \in 1..Len(q) : g[n] = AllApplied(g[n - 1], q[n])
    BY <1>2, <1>3 DEF FullWalk, FrameStep
  <1>5. g = Body(g)
    BY <1>2, <1>3, <1>4 DEF FullWalk
  <1>6. w = Body(w)
    <2> HIDE DEF Body
    <2> QED BY <1>5
  <1>7. AllReceived(v, q) = w[Len(q)]
    BY DEF AllReceived
  <1> HIDE DEF w
  <1>8. w[0] = v /\ \A n \in 1..Len(q) : w[n] = AllApplied(w[n - 1], q[n])
    BY <1>2, <1>6
  <1>9. \A n \in 1..Len(q) : w[n - 1] \in Views => w[n] = FrameStep[<<w[n - 1], q[n]>>]
    BY <1>2, <1>8 DEF FrameStep
  <1>10. IsWalk(w, Views, Frames, FrameStep, v, q)
    BY <1>1, <1>8, <1>9 DEF IsWalk
  <1> QED BY <1>7, <1>10 DEF LeadsTo

LEMMA ReceivedQueue ==
  ASSUME NEW v \in Views, NEW q \in Seq(Frames)
  PROVE  AllReceived(v, q) \in Views /\ (q = <<>> => AllReceived(v, q) = v)
  BY ReceivedLeads, LeadsToOne

LEMMA ReceivedPosted ==
  ASSUME NEW v \in Views, NEW q \in Seq(Frames), NEW f \in Frames
  PROVE  AllReceived(v, Append(q, f)) = AllApplied(AllReceived(v, q), f)
  <1>1. LeadsTo(Views, Frames, FrameStep, v, q, AllReceived(v, q))
    BY ReceivedLeads
  <1>2. LeadsTo(Views, Frames, FrameStep, v, Append(q, f), AllReceived(v, Append(q, f)))
    <2>1. Append(q, f) \in Seq(Frames)
      OBVIOUS
    <2> QED BY <2>1, ReceivedLeads
  <1>3. AllReceived(v, q) \in Views /\ AllReceived(v, Append(q, f)) = FrameStep[<<AllReceived(v, q), f>>]
    BY <1>1, <1>2, LeadsFurther
  <1> QED BY <1>3 DEF FrameStep

LEMMA ReceivedFirst ==
  ASSUME NEW v \in Views, NEW q \in Seq(Frames), q # <<>>
  PROVE  AllReceived(AllApplied(v, Head(q)), Tail(q)) = AllReceived(v, q)
  <1>1. Head(q) \in Frames /\ Tail(q) \in Seq(Frames)
    OBVIOUS
  <1>2. AllApplied(v, Head(q)) \in Views
    BY <1>1, AppliedFrame DEF Frames
  <1>3. FrameStep[<<v, Head(q)>>] = AllApplied(v, Head(q))
    BY <1>1 DEF FrameStep
  <1>4. LeadsTo(Views, Frames, FrameStep, v, q, AllReceived(v, q))
    BY ReceivedLeads
  <1>5. LeadsTo(Views, Frames, FrameStep, FrameStep[<<v, Head(q)>>], Tail(q),
                AllReceived(AllApplied(v, Head(q)), Tail(q)))
    BY <1>1, <1>2, <1>3, ReceivedLeads
  <1> QED BY <1>4, <1>5, LeadsFromHead

-----------------------------------------------------------------------------
(* Type correctness.                                                       *)

LEMMA DiffedIn ==
  ASSUME differ \in {NoState} \cup {Has(s) : s \in States}, NEW s \in States
  PROVE  BeatCmd(Diffed(differ, s)) \in Commands
  <1>1. Diffed(differ, s) \in [type : {"full"}, state : States] \cup [type : {"noChange"}]
                    \cup [type : {"batteryOnly"}, battery : {t.battery : t \in States}]
    BY DEF Diffed, Full
  <1> QED BY <1>1 DEF BeatCmd, Commands

LEMMA StoredIn ==
  ASSUME NEW r \in Rings, NEW n \in Nat
  PROVE  Stored(r, n) \in Rings
  <1>1. r.head \in 0..(RingSize - 1) /\ r.tail \in 0..(RingSize - 1) /\ r.count \in 0..RingSize
        /\ r.slots \in [0..(RingSize - 1) -> Nat]
    BY DEF Rings
  <1>2. Wrap(r.head + 1) \in 0..(RingSize - 1) /\ Wrap(r.tail + 1) \in 0..(RingSize - 1)
    <2>1. r.head + 1 \in Nat /\ r.head + 1 < RingSize + RingSize
      BY <1>1, RingAssumption
    <2>2. r.tail + 1 \in Nat /\ r.tail + 1 < RingSize + RingSize
      BY <1>1, RingAssumption
    <2> QED BY <2>1, <2>2, WrapIn
  <1>3. r.count < RingSize => r.count + 1 \in 0..RingSize
    BY <1>1, RingAssumption
  <1>4. [r.slots EXCEPT ![r.head] = n] \in [0..(RingSize - 1) -> Nat]
    BY <1>1
  <1> QED BY <1>1, <1>2, <1>3, <1>4 DEF Stored, Rings

LEMMA TakenIs ==
  ASSUME TypeRing, TypeFrame
  PROVE  /\ Taken \in 0..ring.count /\ Told \in 0..Taken /\ Len(frame) + Told <= MaxCmds
         /\ Taken - Told \in 0..(Len(frame) + 1)
         /\ Taken > Told => Len(frame) + Told = MaxCmds
  <1> DEFINE n == ring.count
             f == Len(frame)
  <1>1. n \in Nat /\ f \in Nat /\ f <= MaxCmds /\ MaxCmds \in Nat
    BY RingAssumption DEF TypeRing, TypeFrame, Rings, Frames
  <1>2. Taken = (IF n < MaxCmds + 1 THEN n ELSE MaxCmds + 1)
    BY DEF Taken, Lesser
  <1>3. Told = IF n < MaxCmds THEN IF n < MaxCmds - f THEN n ELSE MaxCmds - f
                              ELSE IF MaxCmds < MaxCmds - f THEN MaxCmds ELSE MaxCmds - f
    BY DEF Told, Lesser
  <1> HIDE DEF n, f
  <1>4. /\ Taken \in 0..n /\ Told \in 0..Taken /\ f + Told <= MaxCmds
        /\ Taken - Told \in 0..(f + 1)
        /\ Taken > Told => f + Told = MaxCmds
    BY <1>1, <1>2, <1>3
  <1> QED BY <1>4 DEF n, f

LEMMA ResponseTypes ==
  ASSUME TypeRing, TypeFrame, LogResponse
  PROVE  TypeRing' /\ TypeFrame' /\ Len(frame') = Len(frame) + Told
         /\ \A i \in 1..Told : frame'[Len(frame) + i] = LogCmd(Oldest(i - 1))
  <1> DEFINE told == [i \in 1..Told |-> LogCmd(Oldest(i - 1))]
  <1>1. Told \in Nat /\ Taken \in Nat /\ Taken <= ring.count /\ Len(frame) + Told <= MaxCmds /\ Told <= Taken
    BY TakenIs DEF TypeRing, Rings
  <1>2. ASSUME NEW i \in 1..Told PROVE LogCmd(Oldest(i - 1)) \in Commands
    <2>1. ring.tail + (i - 1) \in Nat /\ ring.tail + (i - 1) < RingSize + RingSize
      BY <1>1, RingAssumption DEF TypeRing, Rings
    <2>2. Oldest(i - 1) \in Nat
      BY <2>1, WrapIn DEF Oldest, TypeRing, Rings
    <2> QED BY <2>2 DEF LogCmd, Commands
  <1>3. told \in Seq(Commands) /\ Len(told) = Told
    BY <1>1, <1>2
  <1>4. frame' = frame \o told
    BY DEF LogResponse
  <1>5. \A i \in 1..Told : told[i] = LogCmd(Oldest(i - 1))
    OBVIOUS
  <1> HIDE DEF told
  <1>6. frame' \in Seq(Commands) /\ Len(frame') = Len(frame) + Told
        /\ \A i \in 1..Told : frame'[Len(frame) + i] = told[i]
    <2>1. frame \in Seq(Commands)
      BY DEF TypeFrame, Frames
    <2>2. frame' \in Seq(Commands) /\ Len(frame') = Len(frame) + Len(told)
      BY <1>3, <1>4, <2>1
    <2>3. ASSUME NEW i \in 1..Told PROVE frame'[Len(frame) + i] = told[i]
      <3>1. Len(frame) \in Nat /\ i \in Nat /\ i >= 1 /\ i <= Len(told)
        BY <1>1, <1>3, <2>1
      <3>2. Len(frame) + i > Len(frame) /\ Len(frame) + i \in 1..(Len(frame) + Len(told))
        BY <3>1, <1>1, <1>3
      <3>3. (frame \o told)[Len(frame) + i] = told[(Len(frame) + i) - Len(frame)]
        BY <1>3, <2>1, <3>2
      <3> QED BY <1>4, <3>1, <3>3
    <2> QED BY <1>3, <2>2, <2>3
  <1>7. TypeRing'
    <2>1. ring' = [ring EXCEPT !.tail = Wrap(ring.tail + Taken), !.count = ring.count - Taken]
      BY DEF LogResponse
    <2>2. Wrap(ring.tail + Taken) \in 0..(RingSize - 1)
      <3>1. ring.tail + Taken \in Nat /\ ring.tail + Taken < RingSize + RingSize
        BY <1>1, RingAssumption DEF TypeRing, Rings
      <3> QED BY <3>1, WrapIn
    <2>3. ring.count - Taken \in 0..RingSize
      <3>1. ring.count \in 0..RingSize
        BY DEF TypeRing, Rings
      <3>2. Taken \in 0..ring.count
        BY TakenIs
      <3> QED BY <3>1, <3>2, RingAssumption
    <2> QED BY <2>1, <2>2, <2>3 DEF TypeRing, Rings
  <1> QED BY <1>1, <1>5, <1>6, <1>7 DEF TypeFrame, Frames

LEMMA ResponseBegins ==
  ASSUME TypeRing, TypeFrame, LogResponse
  PROVE  Begins(frame, frame')
  <1> DEFINE told == [i \in 1..Told |-> LogCmd(Oldest(i - 1))]
             all == Commands \cup {LogCmd(Oldest(i - 1)) : i \in 1..Told}
  <1>1. frame' = frame \o told
    BY DEF LogResponse
  <1>2. Told \in Nat
    BY TakenIs DEF TypeRing, Rings
  <1>3. frame \in Seq(Commands) /\ Commands \subseteq all
    BY DEF TypeFrame, Frames
  <1>4. told \in Seq(all)
    <2>1. \A i \in 1..Told : LogCmd(Oldest(i - 1)) \in all
      OBVIOUS
    <2> HIDE DEF all
    <2> QED BY <1>2, <2>1
  <1> HIDE DEF told, all
  <1>5. frame \in Seq(all)
    BY <1>3, SeqMonotonic
  <1>6. Len(frame \o told) = Len(frame) + Len(told) /\ Len(frame) \in Nat /\ Len(told) \in Nat
        /\ \A i \in 1..Len(frame) : (frame \o told)[i] = frame[i]
    BY <1>4, <1>5, Joined
  <1>7. Len(frame) <= Len(frame \o told)
    BY <1>6
  <1> QED BY <1>1, <1>6, <1>7 DEF Begins

LEMMA TypeInit == Init => TypeOK
  <1> SUFFICES ASSUME Init PROVE TypeOK
    OBVIOUS
  <1>1. TypeBuffer
    <2>1. 0 \in Bytes
      BY DEF Bytes
    <2> QED BY <2>1, BufferAssumption DEF Init, BufferInit, TypeBuffer
  <1>2. TypeRing
    BY RingAssumption DEF Init, TypeRing, Rings
  <1>3. TypeFrame
    BY RingAssumption DEF Init, TypeFrame, Frames
  <1>4. TypeQueue
    BY RingAssumption DEF Init, TypeQueue
  <1>5. TypeBeats
    BY DEF Init, TypeBeats, Views
  <1>6. TypeCounts
    <2>1. MaxEvents \in Nat
      BY RingAssumption DEF Words
    <2> QED BY <2>1 DEF Init, TypeCounts
  <1> QED BY <1>1, <1>2, <1>3, <1>4, <1>5, <1>6, TypeParts

(* What is counted, and the clock that the bound keeps to two bytes.       *)
LEMMA CountTypes ==
  ASSUME TypeCounts, [Next]_vars
  PROVE  TypeCounts'
  <1>1. MaxEvents \in Nat
    BY RingAssumption DEF Words
  <1>2. logged' \in Nat
    BY DEF TypeCounts, Next, Heartbeat, LogEvent, LogResponse, DiagResponse, Post, Buffer, Transmit, vars, teleVars
  <1>3. (events < MaxEvents /\ events' = events + 1) \/ events' = events
    BY DEF Next, Transmit, vars, teleVars
  <1>4. events' \in 0..MaxEvents
    BY <1>1, <1>3 DEF TypeCounts
  <1> QED BY <1>2, <1>4 DEF TypeCounts

LEMMA TypeNext == TypeOK /\ [Next]_vars => TypeOK'
  <1> SUFFICES ASSUME TypeOK, [Next]_vars PROVE TypeOK'
    OBVIOUS
  <1>1. TypeBuffer /\ TypeRing /\ TypeFrame /\ TypeQueue /\ TypeBeats /\ TypeCounts
    BY TypeParts
  <1>2. SUFFICES TypeBuffer' /\ TypeRing' /\ TypeFrame' /\ TypeQueue' /\ TypeBeats' /\ TypeCounts'
    BY DEF TypeOK, TypeBuffer, TypeRing, TypeFrame, TypeQueue, TypeBeats, TypeCounts, Rings
  <1> USE <1>1
  <1>3. TypeCounts'
    BY CountTypes
  <1>4. CASE Heartbeat
    <2>1. PICK s \in States :
            /\ frame' = Pushed(frame, BeatCmd(Diffed(differ, s)))
            /\ missed' = (Len(frame) >= MaxCmds \/ (missed /\ Diffed(differ, s).type # "full"))
            /\ differ' = Has(s)
      BY <1>4 DEF Heartbeat
    <2>2. TypeFrame'
      BY <2>1, DiffedIn, PushedIn DEF TypeFrame, TypeBeats
    <2>3. TypeBeats'
      BY <1>4, <2>1 DEF Heartbeat, TypeBeats
    <2>4. TypeBuffer' /\ TypeRing' /\ TypeQueue'
      BY <1>4 DEF Heartbeat, bufVars, TypeBuffer, TypeRing, TypeQueue
    <2> QED BY <1>3, <2>2, <2>3, <2>4
  <1>5. CASE LogEvent
    <2>1. TypeRing'
      BY <1>5, StoredIn DEF LogEvent, TypeRing, TypeCounts
    <2>2. <<LogCmd(logged + 1)>> \in Frames
      BY RingAssumption DEF TypeCounts, LogCmd, Commands, Frames
    <2>3. TypeQueue'
      BY <1>5, <2>2, QueuedIn DEF LogEvent, TypeQueue
    <2>4. TypeBuffer' /\ TypeFrame' /\ TypeBeats'
      BY <1>5 DEF LogEvent, bufVars, TypeBuffer, TypeFrame, TypeBeats
    <2> QED BY <1>3, <2>1, <2>3, <2>4
  <1>6. CASE LogResponse
    <2>1. TypeBuffer' /\ TypeQueue' /\ TypeBeats'
      BY <1>6 DEF LogResponse, bufVars, TypeBuffer, TypeQueue, TypeBeats
    <2> QED BY <1>3, <1>6, <2>1, ResponseTypes
  <1>7. CASE DiagResponse
    <2>1. TypeFrame'
      BY <1>7, PushedIn DEF DiagResponse, DiagCmd, Commands, TypeFrame
    <2>2. TypeBuffer' /\ TypeRing' /\ TypeQueue' /\ TypeBeats'
      BY <1>7 DEF DiagResponse, bufVars, TypeBuffer, TypeRing, TypeQueue, TypeBeats
    <2> QED BY <1>3, <2>1, <2>2
  <1>8. CASE Post
    <2>1. TypeQueue'
      BY <1>8, QueuedIn DEF Post, TypeQueue, TypeFrame
    <2>2. TypeFrame' /\ TypeBeats'
      BY <1>8, RingAssumption DEF Post, TypeFrame, Frames, TypeBeats
    <2>3. TypeBuffer' /\ TypeRing'
      BY <1>8 DEF Post, bufVars, TypeBuffer, TypeRing
    <2> QED BY <1>3, <2>1, <2>2, <2>3
  <1>9. CASE events < MaxEvents /\ Buffer
    <2>1. TypeRing' /\ TypeFrame' /\ TypeQueue' /\ TypeBeats'
      BY <1>9 DEF Buffer, TypeRing, TypeFrame, TypeQueue, TypeBeats
    <2>2. events \in Nat
      BY DEF TypeCounts
    <2> QED BY <1>3, <1>9, <2>1, <2>2, BufferTypes
  <1>10. CASE Transmit
    <2>1. TypeQueue'
      BY <1>10, RingAssumption DEF Transmit, TypeQueue
    <2>2. TypeBeats'
      <3>1. Head(queue) \in Seq(Commands)
        BY <1>10 DEF Transmit, TypeQueue, Frames
      <3>2. AllApplied(shown, Head(queue)) \in Views
        BY <3>1, AppliedFrame DEF TypeBeats
      <3> QED BY <1>10, <3>2 DEF Transmit, TypeBeats
    <2>3. TypeBuffer' /\ TypeRing' /\ TypeFrame'
      BY <1>10 DEF Transmit, bufVars, TypeBuffer, TypeRing, TypeFrame
    <2> QED BY <1>3, <2>1, <2>2, <2>3
  <1>11. CASE UNCHANGED vars
    BY <1>3, <1>11 DEF vars, teleVars, bufVars, TypeBuffer, TypeRing, TypeFrame, TypeQueue, TypeBeats
  <1> QED BY <1>4, <1>5, <1>6, <1>7, <1>8, <1>9, <1>10, <1>11 DEF Next

(* For any sizes: indices stay in the ring, a frame never grows beyond its *)
(* commands, nor the queue beyond its depth, nor the place to write beyond *)
(* the buffer, and nothing but bytes is written there.                     *)
THEOREM TypeCorrect == Spec => []TypeOK
  BY TypeInit, TypeNext, PTL DEF Spec

-----------------------------------------------------------------------------
(* The ring.                                                               *)

RInv == TypeOK /\ RingIsNewest

LEMMA StoredNewest ==
  ASSUME TypeRing, logged \in Nat, RingIsNewest, ring' = Stored(ring, logged + 1), logged' = logged + 1
  PROVE  RingIsNewest'
  <1> DEFINE n == ring.count
             t == ring.tail
  <1>1. n \in 0..RingSize /\ t \in 0..(RingSize - 1) /\ ring.head = Wrap(t + n) /\ ring.head \in 0..(RingSize - 1)
        /\ ring.slots \in [0..(RingSize - 1) -> Nat]
    BY DEF TypeRing, Rings, RingIsNewest
  <1>2. /\ ring'.slots = [ring.slots EXCEPT ![ring.head] = logged + 1]
        /\ ring'.head = Wrap(ring.head + 1)
        /\ ring'.tail = IF n < RingSize THEN t ELSE Wrap(t + 1)
        /\ ring'.count = IF n < RingSize THEN n + 1 ELSE n
    BY DEF Stored
  <1>3. \A i \in 0..(n - 1) : ring.slots[Wrap(t + i)] = logged - n + 1 + i
    BY DEF RingIsNewest, Oldest
  <1>4. n <= logged
    BY DEF RingIsNewest
  <1> HIDE DEF n, t
  <1>5. CASE n < RingSize
    <2>1. ring'.head = Wrap(t + (n + 1))
      <3>1. ring'.head = Wrap(Wrap(t + n) + 1)
        BY <1>1, <1>2
      <3>2. n \in Nat /\ n + 1 <= RingSize
        BY <1>1, <1>5, RingAssumption
      <3> QED BY <1>1, <3>1, <3>2, WrapTwice
    <2>2. ring'.tail = t /\ ring'.count = n + 1
      BY <1>2, <1>5
    <2>3. ASSUME NEW i \in 0..n
          PROVE  ring'.slots[Wrap(t + i)] = logged - n + 1 + i
      <3>1. t + i \in Nat /\ t + i < RingSize + RingSize
        BY <1>1, <1>5, RingAssumption
      <3>2. Wrap(t + i) \in 0..(RingSize - 1)
        BY <3>1, WrapIn
      <3>3. CASE i = n
        <4>1. ring'.slots[Wrap(t + n)] = logged + 1
          BY <1>1, <1>2
        <4> QED BY <1>1, <3>3, <4>1
      <3>4. CASE i < n
        <4>1. i \in 0..RingSize /\ n \in 0..RingSize /\ n - i < RingSize
          BY <1>1, <1>5, <3>4, RingAssumption
        <4>2. Wrap(t + i) # ring.head
          BY <1>1, <3>4, <4>1, WrapApart
        <4>3. ring'.slots[Wrap(t + i)] = ring.slots[Wrap(t + i)]
          BY <1>1, <1>2, <3>2, <4>2
        <4>4. i \in 0..(n - 1)
          BY <3>4, <4>1
        <4> QED BY <1>3, <4>3, <4>4
      <3> QED BY <1>1, <3>3, <3>4
    <2>4. ASSUME NEW i \in 0..((n + 1) - 1)
          PROVE  ring'.slots[Wrap(t + i)] = (logged + 1) - (n + 1) + 1 + i
      <3>1. n \in Nat
        BY <1>1
      <3>2. i \in 0..n /\ (logged + 1) - (n + 1) + 1 + i = logged - n + 1 + i
        BY <3>1
      <3> QED BY <2>3, <3>2
    <2>5. \A i \in 0..(ring'.count - 1) : Oldest(i)' = logged' - ring'.count + 1 + i
      BY <2>2, <2>4 DEF Oldest
    <2>6. ring'.head = Wrap(ring'.tail + ring'.count) /\ ring'.count <= logged'
      BY <1>1, <1>4, <2>1, <2>2
    <2> QED BY <2>5, <2>6 DEF RingIsNewest
  <1>6. CASE n = RingSize
    <2>1. ring.head = t
      BY <1>1, <1>6, RingAssumption DEF Wrap
    <2>2. ring'.head = Wrap(t + 1) /\ ring'.tail = Wrap(t + 1) /\ ring'.count = n
      BY <1>2, <1>6, <2>1, RingAssumption
    <2>3. Wrap(t + 1) \in 0..(RingSize - 1)
      BY <1>1, WrapIn, RingAssumption
    <2>4. Wrap(Wrap(t + 1) + n) = Wrap(t + 1)
      BY <1>6, <2>3, RingAssumption DEF Wrap
    <2>5. ASSUME NEW i \in 0..(n - 1)
          PROVE  ring'.slots[Wrap(Wrap(t + 1) + i)] = (logged + 1) - n + 1 + i
      <3>1. Wrap(Wrap(t + 1) + i) = Wrap(t + (i + 1))
        <4>1. i \in Nat /\ 1 + i <= RingSize /\ 1 + i = i + 1
          BY <1>6, RingAssumption
        <4> QED BY <1>1, <4>1, WrapTwice
      <3>2. CASE i = n - 1
        <4>1. Wrap(t + (i + 1)) = t
          BY <1>1, <1>6, <3>2, RingAssumption DEF Wrap
        <4>2. ring'.slots[t] = logged + 1
          BY <1>1, <1>2, <2>1
        <4>3. ring'.slots[Wrap(Wrap(t + 1) + i)] = logged + 1
          BY <3>1, <4>1, <4>2
        <4>4. (logged + 1) - n + 1 + i = logged + 1
          BY <1>1, <3>2
        <4> QED BY <4>3, <4>4
      <3>3. CASE i < n - 1
        <4>1. Wrap(t + (i + 1)) \in 0..(RingSize - 1) /\ Wrap(t + (i + 1)) # t
          BY <1>1, <1>6, <3>3, RingAssumption DEF Wrap
        <4>2. i + 1 \in 0..(n - 1)
          BY <1>1, <3>3
        <4>3. ring'.slots[Wrap(t + (i + 1))] = ring.slots[Wrap(t + (i + 1))]
          BY <1>1, <1>2, <2>1, <4>1
        <4>4. ring'.slots[Wrap(t + (i + 1))] = logged - n + 1 + (i + 1)
          BY <1>3, <4>2, <4>3
        <4> QED BY <1>1, <3>1, <4>4
      <3> QED BY <1>1, <3>2, <3>3
    <2>6. \A i \in 0..(ring'.count - 1) : Oldest(i)' = logged' - ring'.count + 1 + i
      BY <2>2, <2>5 DEF Oldest
    <2>7. ring'.head = Wrap(ring'.tail + ring'.count) /\ ring'.count <= logged'
      BY <1>1, <1>4, <2>2, <2>4
    <2> QED BY <2>6, <2>7 DEF RingIsNewest
  <1> QED BY <1>1, <1>5, <1>6, RingAssumption

LEMMA TakenNewest ==
  ASSUME TypeRing, TypeFrame, logged \in Nat, RingIsNewest, LogResponse
  PROVE  RingIsNewest'
  <1> DEFINE n == ring.count
             t == ring.tail
             k == Taken
  <1>1. n \in 0..RingSize /\ t \in 0..(RingSize - 1) /\ k \in 0..n /\ ring.head = Wrap(t + n) /\ n <= logged
    BY TakenIs DEF TypeRing, Rings, RingIsNewest
  <1>2. ring'.slots = ring.slots /\ ring'.head = ring.head /\ ring'.tail = Wrap(t + k)
        /\ ring'.count = n - k /\ logged' = logged
    BY DEF LogResponse, TypeRing, Rings
  <1> HIDE DEF n, t, k
  <1>3. Wrap(Wrap(t + k) + (n - k)) = Wrap(t + n)
    <2>1. k \in Nat /\ n - k \in Nat /\ k + (n - k) = n /\ n <= RingSize
      BY <1>1, RingAssumption
    <2> QED BY <1>1, <2>1, WrapTwice
  <1>4. ASSUME NEW i \in 0..((n - k) - 1)
        PROVE  ring'.slots[Wrap(Wrap(t + k) + i)] = logged - (n - k) + 1 + i
    <2>1. Wrap(Wrap(t + k) + i) = Wrap(t + (k + i))
      <3>1. k \in Nat /\ i \in Nat /\ k + i <= RingSize
        BY <1>1, RingAssumption
      <3> QED BY <1>1, <3>1, WrapTwice
    <2>2. k + i \in 0..(n - 1)
      BY <1>1
    <2>3. Oldest(k + i) = logged - n + 1 + (k + i)
      BY <2>2 DEF RingIsNewest, n
    <2> QED BY <1>1, <1>2, <2>1, <2>3 DEF Oldest, t
  <1> QED BY <1>1, <1>2, <1>3, <1>4 DEF RingIsNewest, Oldest

LEMMA RingStays ==
  ASSUME RingIsNewest, UNCHANGED <<ring, logged>>
  PROVE  RingIsNewest'
  BY DEF RingIsNewest, Oldest

LEMMA NewestInit == Init => RInv
  <1> SUFFICES ASSUME Init PROVE RInv
    OBVIOUS
  <1>1. RingIsNewest
    BY RingAssumption DEF Init, RingIsNewest, Wrap
  <1> QED BY <1>1, TypeInit DEF RInv

LEMMA NewestNext == RInv /\ [Next]_vars => RInv'
  <1> SUFFICES ASSUME RInv, [Next]_vars PROVE RInv'
    OBVIOUS
  <1>1. TypeRing /\ TypeFrame /\ logged \in Nat /\ RingIsNewest
    BY TypeParts DEF RInv, TypeCounts
  <1>2. TypeOK'
    BY TypeNext DEF RInv
  <1>3. CASE LogEvent
    BY <1>1, <1>2, <1>3, StoredNewest DEF LogEvent, RInv
  <1>4. CASE LogResponse
    BY <1>1, <1>2, <1>4, TakenNewest DEF RInv
  <1>5. CASE UNCHANGED <<ring, logged>>
    BY <1>1, <1>2, <1>5, RingStays DEF RInv
  <1>6. LogEvent \/ LogResponse \/ UNCHANGED <<ring, logged>>
    BY DEF Next, Heartbeat, DiagResponse, Post, Buffer, Transmit, vars, teleVars
  <1> QED BY <1>3, <1>4, <1>5, <1>6

(* However long the ring is and however often it was read or overwritten,  *)
(* it holds the newest entries in their order, without a gap.              *)
THEOREM NewestKept == Spec => []RingIsNewest
  BY NewestInit, NewestNext, PTL DEF Spec, RInv

LEMMA SkipsStep ==
  ASSUME RInv, [Next]_vars, ring'.count < ring.count
  PROVE  LET told == Len(frame') - Len(frame)
             lost == ring.count - ring'.count - told
         IN  /\ told >= 0
             /\ \A i \in 1..told : frame'[Len(frame) + i] = LogCmd(logged - ring.count + i)
             /\ lost \in 0..(Len(frame) + 1)
             /\ lost > 0 => Len(frame') = MaxCmds
  <1>1. TypeRing /\ TypeFrame /\ logged \in Nat /\ RingIsNewest
    BY TypeParts DEF RInv, TypeCounts
  <1>2. ring.count \in 0..RingSize
    BY <1>1 DEF TypeRing, Rings
  <1>3. LogResponse
    <2>1. LogEvent \/ LogResponse \/ UNCHANGED ring
      BY DEF Next, Heartbeat, DiagResponse, Post, Buffer, Transmit, vars, teleVars
    <2>2. CASE LogEvent
      BY <1>2, <2>2, RingAssumption DEF LogEvent, Stored
    <2>3. CASE UNCHANGED ring
      BY <1>2, <2>3
    <2> QED BY <2>1, <2>2, <2>3
  <1>4. Len(frame') = Len(frame) + Told /\ \A i \in 1..Told : frame'[Len(frame) + i] = LogCmd(Oldest(i - 1))
    BY <1>1, <1>3, ResponseTypes
  <1>5. ring'.count = ring.count - Taken
    BY <1>1, <1>3 DEF LogResponse, TypeRing, Rings
  <1>6. /\ Taken \in 0..ring.count /\ Told \in 0..Taken
        /\ Taken - Told \in 0..(Len(frame) + 1)
        /\ Taken > Told => Len(frame) + Told = MaxCmds
    BY <1>1, TakenIs
  <1>7. Len(frame) \in Nat
    BY <1>1 DEF TypeFrame, Frames
  <1>8. ASSUME NEW i \in 1..Told PROVE Oldest(i - 1) = logged - ring.count + i
    <2>1. i - 1 \in 0..(ring.count - 1)
      BY <1>2, <1>6
    <2>2. Oldest(i - 1) = logged - ring.count + 1 + (i - 1)
      BY <1>1, <2>1 DEF RingIsNewest
    <2> QED BY <1>1, <1>2, <2>1, <2>2
  <1>9. Len(frame') - Len(frame) = Told /\ ring.count - ring'.count - Told = Taken - Told
    BY <1>2, <1>4, <1>5, <1>6, <1>7
  <1> QED BY <1>4, <1>6, <1>8, <1>9

(* For any ring and frame: an answer tells the oldest entries in order and *)
(* loses at most one more than the frame held before, when it is full.     *)
THEOREM ResponsesInOrder == Spec => ResponseSkips
  <1>1. RInv /\ [Next]_vars =>
          [ring'.count < ring.count =>
             LET told == Len(frame') - Len(frame)
                 lost == ring.count - ring'.count - told
             IN  /\ told >= 0
                 /\ \A i \in 1..told : frame'[Len(frame) + i] = LogCmd(logged - ring.count + i)
                 /\ lost \in 0..(Len(frame) + 1)
                 /\ lost > 0 => Len(frame') = MaxCmds]_vars
    BY SkipsStep
  <1> QED BY <1>1, NewestInit, NewestNext, PTL DEF Spec, ResponseSkips

-----------------------------------------------------------------------------
(* Heartbeats.                                                             *)

(* What a heartbeat says, told to one who knows what the robot compares    *)
(* with, gives the state; and a full one gives it to anyone.               *)
LEMMA DiffTells ==
  ASSUME TypeBeats, NEW s \in States, NEW v \in Views,
         v = differ \/ Diffed(differ, s).type = "full"
  PROVE  Applied(v, Diffed(differ, s)) = Has(s)
  <1> DEFINE d == Diffed(differ, s)
  <1>1. CASE d.type = "full"
    <2>1. d = Full(s)
      BY <1>1 DEF Diffed
    <2> QED BY <2>1 DEF Applied, Full
  <1>2. CASE d.type # "full"
    <2>1. differ.has /\ differ.last.status = s.status /\ differ.last.rssi = s.rssi /\ differ.last.task = s.task
          /\ d = IF differ.last.battery = s.battery THEN [type |-> "noChange"]
                 ELSE [type |-> "batteryOnly", battery |-> s.battery]
      BY <1>2 DEF Diffed, Full
    <2>2. PICK t \in States : differ = Has(t)
      BY <2>1 DEF TypeBeats, NoState
    <2>3. /\ t = [status |-> t.status, battery |-> t.battery, rssi |-> t.rssi, task |-> t.task]
          /\ s = [status |-> s.status, battery |-> s.battery, rssi |-> s.rssi, task |-> s.task]
      BY StatesAssumption
    <2>4. t.status = s.status /\ t.rssi = s.rssi /\ t.task = s.task
      BY <2>1, <2>2 DEF Has
    <2>5. v = Has(t)
      BY <1>2, <2>2
    <2>6. CASE t.battery = s.battery
      <3>1. t = s
        BY <2>3, <2>4, <2>6
      <3>2. d = [type |-> "noChange"]
        BY <2>1, <2>2, <2>6 DEF Has
      <3> QED BY <2>5, <3>1, <3>2 DEF Applied
    <2>7. CASE t.battery # s.battery
      <3>1. d = [type |-> "batteryOnly", battery |-> s.battery]
        BY <2>1, <2>2, <2>7 DEF Has
      <3>2. Applied(v, d) = [v EXCEPT !.last.battery = s.battery]
        BY <2>5, <3>1 DEF Applied, Has
      <3>3. /\ v = [has |-> TRUE, last |-> [status |-> s.status, battery |-> t.battery, rssi |-> s.rssi, task |-> s.task]]
            /\ Has(s) = [has |-> TRUE, last |-> [status |-> s.status, battery |-> s.battery, rssi |-> s.rssi, task |-> s.task]]
        BY <2>3, <2>4, <2>5 DEF Has
      <3> DEFINE w == [v EXCEPT !.last.battery = s.battery]
      <3>4. v \in [has : {TRUE}, last : [status : {s.status}, battery : {t.battery, s.battery},
                                        rssi : {s.rssi}, task : {s.task}]]
        BY <3>3
      <3>5. /\ w \in [has : {TRUE}, last : [status : {s.status}, battery : {t.battery, s.battery},
                                           rssi : {s.rssi}, task : {s.task}]]
            /\ w.last.battery = s.battery
        BY <3>4
      <3> HIDE DEF w
      <3>6. w = Has(s)
        BY <3>3, <3>5
      <3> QED BY <3>2, <3>6 DEF w
    <2> QED BY <2>6, <2>7
  <1> QED BY <1>1, <1>2

HInv == TypeOK /\ HeartbeatRebuilds

LEMMA RebuildsInit == Init => HInv
  <1> SUFFICES ASSUME Init PROVE HeartbeatRebuilds
    BY TypeInit DEF HInv
  <1>1. NoState \in Views /\ <<>> \in Seq(Frames) /\ <<>> \in Seq(Commands)
    BY DEF Views
  <1>2. AllReceived(NoState, <<>>) = NoState /\ AllApplied(NoState, <<>>) = NoState
    BY <1>1, ReceivedQueue, AppliedFrame
  <1> QED BY <1>2 DEF Init, HeartbeatRebuilds

LEMMA RebuildsNext == HInv /\ [Next]_vars => HInv'
  <1> SUFFICES ASSUME TypeOK, HeartbeatRebuilds, [Next]_vars, TypeOK', ~missed'
               PROVE  AllApplied(AllReceived(shown', queue'), frame') = differ'
    BY TypeNext DEF HInv, HeartbeatRebuilds
  <1> DEFINE v == AllReceived(shown, queue)
  <1>1. /\ TypeBeats /\ shown \in Views /\ frame \in Frames /\ frame \in Seq(Commands) /\ queue \in Seq(Frames)
        /\ TypeFrame /\ TypeRing
    BY TypeParts DEF TypeBeats, TypeFrame, TypeQueue, Frames
  <1>2. frame' \in Seq(Commands)
    BY DEF TypeOK, Frames
  <1>3. v \in Views /\ AllApplied(v, frame) \in Views
    BY <1>1, ReceivedQueue, AppliedFrame
  <1>4. ~missed => AllApplied(v, frame) = differ
    BY DEF HeartbeatRebuilds
  <1> HIDE DEF v
  <1>5. CASE Heartbeat
    <2>1. PICK s \in States :
            /\ frame' = Pushed(frame, BeatCmd(Diffed(differ, s)))
            /\ missed' = (Len(frame) >= MaxCmds \/ (missed /\ Diffed(differ, s).type # "full"))
            /\ differ' = Has(s)
      BY <1>5 DEF Heartbeat
    <2> DEFINE d == Diffed(differ, s)
    <2>2. Len(frame) < MaxCmds /\ (missed => d.type = "full")
      <3>1. Len(frame) \in Nat /\ MaxCmds \in Nat
        BY <1>1, RingAssumption
      <3>2. ~(Len(frame) >= MaxCmds) /\ (missed => d.type = "full")
        BY <2>1, Zenon
      <3> QED BY <3>1, <3>2
    <2>3. frame' = Append(frame, BeatCmd(d)) /\ BeatCmd(d) \in Commands
      BY <1>1, <2>1, <2>2, DiffedIn DEF Pushed, TypeBeats
    <2>4. AllApplied(v, frame') = AppliedCmd(AllApplied(v, frame), BeatCmd(d))
      BY <1>1, <1>3, <2>3, AppliedPushed
    <2>5. AppliedCmd(AllApplied(v, frame), BeatCmd(d)) = Applied(AllApplied(v, frame), d)
      BY DEF AppliedCmd, BeatCmd
    <2>6. Applied(AllApplied(v, frame), d) = Has(s)
      BY <1>1, <1>3, <1>4, <2>2, DiffTells
    <2>7. AllReceived(shown', queue') = v
      BY <1>5 DEF Heartbeat, v
    <2> QED BY <2>1, <2>4, <2>5, <2>6, <2>7
  <1>6. CASE LogEvent
    <2>1. shown' = shown /\ frame' = frame /\ differ' = differ /\ missed' = missed
          /\ (queue' = queue \/ queue' = Append(queue, <<LogCmd(logged + 1)>>))
      BY <1>6 DEF LogEvent
    <2>2. <<LogCmd(logged + 1)>> \in Frames /\ ~Beats(<<LogCmd(logged + 1)>>)
      <3>1. logged \in Nat
        BY DEF TypeOK
      <3> QED BY <3>1, RingAssumption DEF LogCmd, Commands, Frames, Beats
    <2>3. AllReceived(shown, Append(queue, <<LogCmd(logged + 1)>>)) = v
      BY <1>1, <1>3, <2>2, ReceivedPosted, NoBeatsNothing DEF v
    <2>4. AllReceived(shown', queue') = v
      BY <2>1, <2>3 DEF v
    <2> QED BY <1>4, <2>1, <2>4
  <1>7. CASE LogResponse
    <2>1. /\ Len(frame') = Len(frame) + Told /\ Told \in Nat /\ Len(frame) \in Nat
          /\ \A i \in 1..Told : frame'[Len(frame) + i] = LogCmd(Oldest(i - 1))
      <3>1. Told \in Nat
        BY <1>1, TakenIs DEF TypeRing, Rings
      <3>2. Len(frame) \in Nat
        BY <1>1
      <3> QED BY <1>1, <1>7, <3>1, <3>2, ResponseTypes
    <2>2. Begins(frame, frame')
      BY <1>1, <1>7, ResponseBegins
    <2>3. \A i \in (Len(frame) + 1)..Len(frame') : frame'[i].kind # "beat"
      <3> SUFFICES ASSUME NEW i \in (Len(frame) + 1)..Len(frame') PROVE frame'[i].kind # "beat"
        OBVIOUS
      <3>1. i - Len(frame) \in 1..Told /\ Len(frame) + (i - Len(frame)) = i
        BY <2>1
      <3>2. frame'[i] = LogCmd(Oldest((i - Len(frame)) - 1))
        BY <2>1, <3>1
      <3> QED BY <3>2 DEF LogCmd
    <2>4. AllApplied(v, frame') = AllApplied(v, frame)
      BY <1>1, <1>2, <1>3, <2>2, <2>3, AppliedSilent
    <2> QED BY <1>4, <1>7, <2>4 DEF LogResponse, v
  <1>8. CASE DiagResponse
    <2>1. PICK t \in DiagTypes : frame' = Pushed(frame, DiagCmd(t))
      BY <1>8 DEF DiagResponse
    <2>2. AllApplied(v, frame') = AllApplied(v, frame)
      <3>1. CASE frame' = frame
        BY <3>1
      <3>2. CASE frame' = Append(frame, DiagCmd(t))
        <4>1. DiagCmd(t) \in Commands /\ DiagCmd(t).kind # "beat"
          BY DEF DiagCmd, Commands
        <4> QED BY <1>1, <1>3, <3>2, <4>1, AppliedPushed DEF AppliedCmd
      <3> QED BY <2>1, <3>1, <3>2 DEF Pushed
    <2> QED BY <1>4, <1>8, <2>2 DEF DiagResponse, v
  <1>9. CASE Post
    <2>1. /\ shown' = shown /\ differ' = differ /\ frame' = <<>>
          /\ queue' = IF Len(queue) < QueueDepth THEN Append(queue, frame) ELSE queue
          /\ missed' = (missed \/ (Len(queue) >= QueueDepth /\ Beats(frame)))
      BY <1>9 DEF Post
    <2>2. ~missed /\ (Len(queue) < QueueDepth \/ ~Beats(frame))
      <3>1. Len(queue) \in Nat /\ QueueDepth \in Nat
        BY <1>1, RingAssumption
      <3>2. ~missed /\ (~(Len(queue) >= QueueDepth) \/ ~Beats(frame))
        BY <2>1, Zenon
      <3> QED BY <3>1, <3>2
    <2>3. AllReceived(shown', queue') = AllApplied(v, frame)
      <3>1. CASE Len(queue) < QueueDepth
        BY <1>1, <2>1, <3>1, ReceivedPosted DEF v
      <3>2. CASE ~(Len(queue) < QueueDepth)
        BY <1>1, <1>3, <2>1, <2>2, <3>2, NoBeatsNothing DEF v
      <3> QED BY <3>1, <3>2
    <2>4. AllApplied(AllApplied(v, frame), <<>>) = AllApplied(v, frame)
      BY <1>2, <1>3, <2>1, AppliedFrame
    <2> QED BY <1>4, <2>1, <2>2, <2>3, <2>4
  <1>10. CASE Transmit
    <2>1. /\ queue # <<>> /\ queue' = Tail(queue) /\ frame' = frame /\ differ' = differ
          /\ \/ shown' = AllApplied(shown, Head(queue)) /\ missed' = missed
             \/ missed' = (missed \/ Beats(Head(queue))) /\ shown' = shown
      BY <1>10 DEF Transmit
    <2>2. shown' = AllApplied(shown, Head(queue)) /\ ~missed
      <3>1. Head(queue) \in Frames
        BY <1>1, <2>1
      <3>2. ~Beats(Head(queue)) => AllApplied(shown, Head(queue)) = shown
        BY <1>1, <3>1, NoBeatsNothing
      <3>3. CASE shown' = AllApplied(shown, Head(queue)) /\ missed' = missed
        BY <3>3
      <3>4. CASE missed' = (missed \/ Beats(Head(queue))) /\ shown' = shown
        <4>1. ~missed /\ ~Beats(Head(queue))
          BY <3>4, Zenon
        <4> QED BY <3>2, <3>4, <4>1
      <3> QED BY <2>1, <3>3, <3>4
    <2>3. AllReceived(shown', queue') = v
      BY <1>1, <2>1, <2>2, ReceivedFirst DEF v
    <2> QED BY <1>4, <2>1, <2>2, <2>3
  <1>11. CASE UNCHANGED <<frame, queue, differ, shown, missed>>
    BY <1>4, <1>11 DEF v
  <1>12. CASE Buffer
    BY <1>11, <1>12 DEF Buffer
  <1>13. CASE UNCHANGED vars
    BY <1>11, <1>13 DEF vars, teleVars
  <1> QED BY <1>5, <1>6, <1>7, <1>8, <1>9, <1>10, <1>12, <1>13 DEF Next

(* For any states, frames and queue: as long as no heartbeat was lost      *)
(* since the last full one was made, a receiver that applies what is under *)
(* way comes to the state the robot compares with.                         *)
THEOREM BeatsAddUp == Spec => []HeartbeatRebuilds
  BY RebuildsInit, RebuildsNext, PTL DEF Spec, HInv

-----------------------------------------------------------------------------
(* Where the entries of the log buffer are.                                *)

(* The bytes from p on are those of an entry.                              *)
HoldsIn(f, p, e) ==
  /\ f[p] + 256 * f[p + 1] = e.time /\ f[p + 4] = e.level /\ f[p + 5] = Len(e.tag)
  /\ \A k \in 1..Len(e.tag) : f[p + 5 + k] = e.tag[k]
  /\ f[p + 6 + Len(e.tag)] + 256 * f[p + 7 + Len(e.tag)] = Len(e.msg)
  /\ \A k \in 1..Len(e.msg) : f[p + 7 + Len(e.tag) + k] = e.msg[k]

(* Those logged since the buffer was begun lie one behind the other, from  *)
(* its beginning to the place to write.                                    *)
Places(at, s, f, end) ==
  /\ at \in [0..Len(s) -> 0..end] /\ at[0] = 0 /\ at[Len(s)] = end
  /\ \A n \in 1..Len(s) :
       /\ at[n] = at[n - 1] + Size(s[n]) /\ HoldsIn(f, at[n - 1], s[n])
       /\ Len(s[n].tag) < TagMax /\ Len(s[n].msg) < MsgMax
FreshPlaced == \E at : Places(at, fresh, buf, writePos)

LEMMA EntryParts ==
  ASSUME NEW e \in Entries
  PROVE  /\ e.tag \in Seq(Bytes \ {0}) /\ e.msg \in Seq(Bytes \ {0}) /\ Len(e.tag) \in Nat /\ Len(e.msg) \in Nat
         /\ Size(e) = 8 + Len(e.tag) + Len(e.msg) /\ Size(e) \in Nat
  <1>1. e.tag \in Seq(Bytes \ {0}) /\ e.msg \in Seq(Bytes \ {0})
    BY DEF Entries
  <1>2. Len(e.tag) \in Nat /\ Len(e.msg) \in Nat
    BY <1>1
  <1>3. Size(e) = 8 + Len(e.tag) + Len(e.msg)
    BY DEF Size, Overhead
  <1>4. Size(e) \in Nat
    <2> DEFINE t == Len(e.tag)
               g == Len(e.msg)
    <2>1. Size(e) = 8 + t + g /\ t \in Nat /\ g \in Nat
      BY <1>2, <1>3
    <2> HIDE DEF t, g
    <2> QED BY <2>1
  <1> QED BY <1>1, <1>2, <1>3, <1>4

LEMMA WrittenHolds ==
  ASSUME NEW f, NEW p \in Nat, NEW e \in Entries, NEW bytes, Encodes(bytes, e),
         \A i \in 1..Size(e) : f[p + i - 1] = bytes[i]
  PROVE  HoldsIn(f, p, e)
  <1> DEFINE t == Len(e.tag)
             g == Len(e.msg)
  <1>1. t \in Nat /\ g \in Nat /\ Size(e) = 8 + t + g
    BY EntryParts
  <1>2. /\ bytes[1] + 256 * bytes[2] = e.time /\ bytes[5] = e.level /\ bytes[6] = t
        /\ \A k \in 1..t : bytes[6 + k] = e.tag[k]
        /\ bytes[7 + t] + 256 * bytes[8 + t] = g
        /\ \A k \in 1..g : bytes[8 + t + k] = e.msg[k]
    BY DEF Encodes
  <1>3. \A i \in 1..(8 + t + g) : f[p + i - 1] = bytes[i]
    BY <1>1
  <1> HIDE DEF t, g
  <1>4. f[p] = bytes[1] /\ f[p + 1] = bytes[2] /\ f[p + 4] = bytes[5] /\ f[p + 5] = bytes[6]
        /\ f[p + 6 + t] = bytes[7 + t] /\ f[p + 7 + t] = bytes[8 + t]
    <2>1. 1 \in 1..(8 + t + g) /\ 2 \in 1..(8 + t + g) /\ 5 \in 1..(8 + t + g) /\ 6 \in 1..(8 + t + g)
          /\ 7 + t \in 1..(8 + t + g) /\ 8 + t \in 1..(8 + t + g)
      BY <1>1
    <2>2. p + 1 - 1 = p /\ p + 2 - 1 = p + 1 /\ p + 5 - 1 = p + 4 /\ p + 6 - 1 = p + 5
          /\ p + (7 + t) - 1 = p + 6 + t /\ p + (8 + t) - 1 = p + 7 + t
      BY <1>1
    <2> QED BY <1>3, <2>1, <2>2
  <1>5. ASSUME NEW k \in 1..t PROVE f[p + 5 + k] = e.tag[k]
    <2>1. 6 + k \in 1..(8 + t + g) /\ p + (6 + k) - 1 = p + 5 + k
      BY <1>1
    <2> QED BY <1>2, <1>3, <2>1
  <1>6. ASSUME NEW k \in 1..g PROVE f[p + 7 + t + k] = e.msg[k]
    <2>1. 8 + t + k \in 1..(8 + t + g) /\ p + (8 + t + k) - 1 = p + 7 + t + k
      BY <1>1
    <2> QED BY <1>2, <1>3, <2>1
  <1> QED BY <1>2, <1>4, <1>5, <1>6 DEF HoldsIn, t, g

LEMMA HoldsStays ==
  ASSUME NEW f, NEW h, NEW p \in Nat, NEW e \in Entries, HoldsIn(f, p, e),
         \A i \in p..(p + Size(e) - 1) : h[i] = f[i]
  PROVE  HoldsIn(h, p, e)
  <1> DEFINE t == Len(e.tag)
             g == Len(e.msg)
  <1>1. t \in Nat /\ g \in Nat /\ Size(e) = 8 + t + g
    BY EntryParts
  <1>2. /\ f[p] + 256 * f[p + 1] = e.time /\ f[p + 4] = e.level /\ f[p + 5] = t
        /\ \A k \in 1..t : f[p + 5 + k] = e.tag[k]
        /\ f[p + 6 + t] + 256 * f[p + 7 + t] = g
        /\ \A k \in 1..g : f[p + 7 + t + k] = e.msg[k]
    BY DEF HoldsIn
  <1> HIDE DEF t, g
  <1>3. \A i \in p..(p + 7 + t + g) : h[i] = f[i]
    <2>1. p + Size(e) - 1 = p + 7 + t + g
      BY <1>1
    <2> QED BY <2>1
  <1>4. h[p] = f[p] /\ h[p + 1] = f[p + 1] /\ h[p + 4] = f[p + 4] /\ h[p + 5] = f[p + 5]
        /\ h[p + 6 + t] = f[p + 6 + t] /\ h[p + 7 + t] = f[p + 7 + t]
    <2>1. p \in p..(p + 7 + t + g) /\ p + 1 \in p..(p + 7 + t + g) /\ p + 4 \in p..(p + 7 + t + g)
          /\ p + 5 \in p..(p + 7 + t + g) /\ p + 6 + t \in p..(p + 7 + t + g) /\ p + 7 + t \in p..(p + 7 + t + g)
      BY <1>1
    <2> QED BY <1>3, <2>1
  <1>5. ASSUME NEW k \in 1..t PROVE h[p + 5 + k] = e.tag[k]
    <2>1. p + 5 + k \in p..(p + 7 + t + g)
      BY <1>1
    <2> QED BY <1>2, <1>3, <2>1
  <1>6. ASSUME NEW k \in 1..g PROVE h[p + 7 + t + k] = e.msg[k]
    <2>1. p + 7 + t + k \in p..(p + 7 + t + g)
      BY <1>1
    <2> QED BY <1>2, <1>3, <2>1
  <1> QED BY <1>2, <1>4, <1>5, <1>6 DEF HoldsIn, t, g

(* An entry fits in an empty buffer, so it is written always.              *)
LEMMA PlacedAppend ==
  ASSUME TypeBuffer, FreshPlaced, NEW time \in Words, NEW m \in Messages, LogAppend(time, m)
  PROVE  FreshPlaced'
  <1> DEFINE e == Entry(time, m)
             bytes == EncodedEntry(time, m)
             start == Start(Len(bytes))
             n == Len(fresh)
  <1>1. PICK at : Places(at, fresh, buf, writePos)
    BY DEF FreshPlaced
  <1>2. e \in Entries /\ Encodes(bytes, e) /\ Len(bytes) = Size(e) /\ Size(e) \in Nat
        /\ Len(e.tag) < TagMax /\ Len(e.msg) < MsgMax
    BY EntryIs, EntryEncoded, EntryParts DEF Encodes
  <1>3. Size(e) <= BufSize
    <2>1. Size(e) = 8 + Len(e.tag) + Len(e.msg) /\ Len(e.tag) \in Nat /\ Len(e.msg) \in Nat
      BY <1>2, EntryParts
    <2>2. TagMax \in Nat /\ MsgMax \in Nat /\ BufSize \in Nat /\ 8 + TagMax + MsgMax <= BufSize
      BY BufferAssumption
    <2>3. Len(e.tag) < TagMax /\ Len(e.msg) < MsgMax
      BY <1>2
    <2> DEFINE t == Len(e.tag)
               g == Len(e.msg)
    <2> HIDE DEF t, g
    <2>4. Size(e) = 8 + t + g /\ t \in Nat /\ g \in Nat /\ t < TagMax /\ g < MsgMax
      BY <2>1, <2>3 DEF t, g
    <2> QED BY <2>2, <2>4
  <1>4. writePos \in 0..BufSize /\ BufSize \in Nat /\ n \in Nat /\ fresh \in Seq(Entries)
        /\ buf \in [0..(BufSize - 1) -> Bytes]
    BY BufferAssumption DEF TypeBuffer
  <1>5. start = IF writePos + Size(e) > BufSize THEN 0 ELSE writePos
    BY <1>2 DEF Start
  <1>6. start \in 0..BufSize /\ start + Size(e) <= BufSize
    BY <1>2, <1>3, <1>4, <1>5
  <1>7. /\ buf' = [i \in DOMAIN buf |-> IF i \in start..(start + Size(e) - 1) THEN bytes[i - start + 1] ELSE buf[i]]
        /\ writePos' = start + Size(e)
        /\ fresh' = IF start = 0 THEN <<e>> ELSE Append(fresh, e)
    <2>1. Len(bytes) <= BufSize - start
      BY <1>2, <1>4, <1>6
    <2> QED BY <1>2, <2>1 DEF LogAppend, Entry
  <1> HIDE DEF e, bytes, start, n
  <1>8. HoldsIn(buf', start, e)
    <2>1. ASSUME NEW i \in 1..Size(e) PROVE buf'[start + i - 1] = bytes[i]
      <3>1. start + i - 1 \in start..(start + Size(e) - 1) /\ start + i - 1 \in 0..(BufSize - 1)
            /\ (start + i - 1) - start + 1 = i
        BY <1>2, <1>4, <1>6
      <3> QED BY <1>4, <1>7, <3>1
    <2>2. start \in Nat
      BY <1>4, <1>6
    <2> QED BY <1>2, <2>1, <2>2, WrittenHolds
  <1>9. CASE start = 0
    <2> DEFINE to == [i \in 0..1 |-> IF i = 0 THEN 0 ELSE Size(e)]
    <2>1. fresh' = <<e>> /\ writePos' = Size(e)
      BY <1>2, <1>7, <1>9
    <2>2. Len(fresh') = 1 /\ fresh'[1] = e
      BY <2>1
    <2>3. to \in [0..1 -> 0..Size(e)] /\ to[0] = 0 /\ to[1] = Size(e)
      BY <1>2
    <2> HIDE DEF to
    <2>4. ASSUME NEW k \in 1..1
          PROVE  /\ to[k] = to[k - 1] + Size(fresh'[k]) /\ HoldsIn(buf', to[k - 1], fresh'[k])
                 /\ Len(fresh'[k].tag) < TagMax /\ Len(fresh'[k].msg) < MsgMax
      <3>1. k = 1 /\ k - 1 = 0
        OBVIOUS
      <3>2. to[k] = Size(e) /\ to[k - 1] = 0 /\ fresh'[k] = e /\ 0 + Size(e) = Size(e)
        BY <1>2, <2>2, <2>3, <3>1
      <3> QED BY <1>2, <1>8, <1>9, <3>2
    <2>5. Places(to, fresh', buf', writePos')
      BY <2>1, <2>2, <2>3, <2>4 DEF Places
    <2> QED BY <2>5 DEF FreshPlaced
  <1>10. CASE start # 0
    <2> DEFINE to == [i \in 0..(n + 1) |-> IF i <= n THEN at[i] ELSE start + Size(e)]
    <2>1. start = writePos /\ fresh' = Append(fresh, e) /\ writePos' = writePos + Size(e)
      BY <1>5, <1>7, <1>10
    <2>2. Len(fresh') = n + 1 /\ fresh'[n + 1] = e /\ \A k \in 1..n : fresh'[k] = fresh[k] /\ fresh[k] \in Entries
      BY <1>2, <1>4, <2>1 DEF n
    <2>3. /\ at \in [0..n -> 0..writePos] /\ at[0] = 0 /\ at[n] = writePos
          /\ \A k \in 1..n :
               /\ at[k] = at[k - 1] + Size(fresh[k]) /\ HoldsIn(buf, at[k - 1], fresh[k])
               /\ Len(fresh[k].tag) < TagMax /\ Len(fresh[k].msg) < MsgMax
      BY <1>1 DEF Places, n
    <2>4. /\ to[n + 1] = writePos + Size(e) /\ \A k \in 0..n : to[k] = at[k]
          /\ to \in [0..(n + 1) -> 0..(writePos + Size(e))]
      <3>1. writePos + Size(e) \in Nat /\ writePos <= writePos + Size(e)
        BY <1>2, <1>4
      <3>2. \A k \in 0..n : at[k] \in 0..(writePos + Size(e))
        BY <1>4, <2>3, <3>1
      <3>3. writePos + Size(e) \in 0..(writePos + Size(e))
        BY <3>1
      <3>4. n + 1 \in 0..(n + 1) /\ ~(n + 1 <= n) /\ \A k \in 0..n : k \in 0..(n + 1) /\ k <= n
        BY <1>4
      <3> QED BY <2>1, <3>2, <3>3, <3>4
    <2> HIDE DEF to
    <2>5. ASSUME NEW k \in 1..(n + 1)
          PROVE  /\ to[k] = to[k - 1] + Size(fresh'[k]) /\ HoldsIn(buf', to[k - 1], fresh'[k])
                 /\ Len(fresh'[k].tag) < TagMax /\ Len(fresh'[k].msg) < MsgMax
      <3>1. CASE k = n + 1
        <4>1. to[k] = writePos + Size(e) /\ to[k - 1] = writePos /\ fresh'[k] = e
          <5>1. k - 1 = n /\ n \in 0..n
            BY <1>4, <3>1
          <5> QED BY <2>2, <2>3, <2>4, <3>1, <5>1
        <4> QED BY <1>2, <1>8, <2>1, <4>1
      <3>2. CASE k # n + 1
        <4>1. k \in 1..n /\ k \in 0..n /\ k - 1 \in 0..n
          BY <1>4, <3>2
        <4>2. to[k] = at[k] /\ to[k - 1] = at[k - 1] /\ fresh'[k] = fresh[k] /\ fresh[k] \in Entries
          BY <2>2, <2>4, <4>1
        <4>3. /\ at[k] = at[k - 1] + Size(fresh[k]) /\ HoldsIn(buf, at[k - 1], fresh[k])
              /\ Len(fresh[k].tag) < TagMax /\ Len(fresh[k].msg) < MsgMax
          BY <2>3, <4>1
        <4>4. at[k - 1] \in Nat /\ at[k] \in Nat /\ at[k] <= writePos /\ Size(fresh[k]) \in Nat
          <5>1. Size(fresh[k]) \in Nat
            BY <4>2, EntryParts
          <5>2. at[k - 1] \in 0..writePos /\ at[k] \in 0..writePos
            BY <2>3, <4>1
          <5> QED BY <1>4, <5>1, <5>2
        <4>5. \A i \in at[k - 1]..(at[k - 1] + Size(fresh[k]) - 1) : buf'[i] = buf[i]
          <5> SUFFICES ASSUME NEW i \in at[k - 1]..(at[k - 1] + Size(fresh[k]) - 1) PROVE buf'[i] = buf[i]
            OBVIOUS
          <5>1. i \in 0..(BufSize - 1) /\ i < writePos
            BY <1>4, <4>3, <4>4
          <5>2. i \notin start..(start + Size(e) - 1)
            BY <1>2, <1>4, <2>1, <5>1
          <5> QED BY <1>4, <1>7, <5>1, <5>2
        <4>6. HoldsIn(buf', at[k - 1], fresh[k])
          BY <4>2, <4>3, <4>4, <4>5, HoldsStays
        <4> QED BY <4>2, <4>3, <4>6
      <3> QED BY <3>1, <3>2
    <2>6. to[0] = 0
      BY <1>4, <2>3, <2>4
    <2>7. Places(to, fresh', buf', writePos')
      BY <2>1, <2>2, <2>4, <2>5, <2>6 DEF Places
    <2> QED BY <2>7 DEF FreshPlaced
  <1> QED BY <1>9, <1>10

PInv == TypeOK /\ FreshPlaced

LEMMA PlacedEmpty ==
  ASSUME NEW f
  PROVE  \E at : Places(at, <<>>, f, 0)
  <1> DEFINE at == [i \in 0..0 |-> 0]
  <1>1. at \in [0..0 -> 0..0] /\ at[0] = 0 /\ Len(<<>>) = 0
    OBVIOUS
  <1> HIDE DEF at
  <1>2. Places(at, <<>>, f, 0)
    BY <1>1 DEF Places
  <1> QED BY <1>2

LEMMA PlacedInit == Init => PInv
  BY TypeInit, PlacedEmpty DEF Init, BufferInit, PInv, FreshPlaced

LEMMA PlacedNext == PInv /\ [Next]_vars => PInv'
  <1> SUFFICES ASSUME TypeOK, FreshPlaced, [Next]_vars PROVE FreshPlaced'
    BY TypeNext DEF PInv
  <1>1. TypeBuffer /\ events \in Nat
    BY TypeParts DEF TypeCounts
  <1>2. CASE events < MaxEvents /\ \E m \in Messages : LogAppend(events + 1, m)
    BY <1>1, <1>2, NextTime, PlacedAppend
  <1>3. CASE LogClear
    <2>1. fresh' = <<>> /\ writePos' = 0
      BY <1>3 DEF LogClear
    <2> QED BY <2>1, PlacedEmpty DEF FreshPlaced
  <1>4. CASE UNCHANGED bufVars
    BY <1>4 DEF bufVars, FreshPlaced
  <1> QED BY <1>2, <1>3, <1>4 DEF Next, Heartbeat, LogEvent, LogResponse, DiagResponse, Post, Buffer, Transmit, vars

-----------------------------------------------------------------------------
(* What a query finds.                                                     *)

Decoded == [time : Words, level : Bytes, tag : Seq(Bytes), msg : Seq(Bytes)]
Looks == [pos : Nat, found : Seq(Decoded), done : BOOLEAN]
Cells == BufSize \div Overhead

LEMMA TextWhole ==
  ASSUME NEW s \in Seq(Bytes \ {0})
  PROVE  Text(s) = s
  <1>1. {i \in DOMAIN s : s[i] = 0} = {}
    OBVIOUS
  <1> QED BY <1>1 DEF Text

LEMMA TextIn ==
  ASSUME NEW s \in Seq(Bytes)
  PROVE  Text(s) \in Seq(Bytes)
  <1> DEFINE zeros == {i \in DOMAIN s : s[i] = 0}
             first == CHOOSE i \in zeros : \A j \in zeros : i <= j
  <1>1. CASE zeros = {}
    BY <1>1 DEF Text
  <1>2. CASE zeros # {}
    <2>1. zeros \in SUBSET Nat
      OBVIOUS
    <2>2. \E i \in zeros : \A j \in zeros : i <= j
      <3> HIDE DEF zeros
      <3> QED BY <1>2, <2>1, LeastOf
    <2>3. first \in zeros
      <3> HIDE DEF zeros
      <3> QED BY <2>2
    <2>4. first \in 1..Len(s)
      BY <2>3
    <2>5. Text(s) = SubSeq(s, 1, first - 1)
      BY <1>2 DEF Text
    <2> HIDE DEF first
    <2>6. SubSeq(s, 1, first - 1) \in Seq(Bytes)
      BY <2>4
    <2> QED BY <2>5, <2>6
  <1> QED BY <1>1, <1>2

LEMMA AtMostIn ==
  ASSUME NEW n \in Nat, NEW max \in Nat \ {0}
  PROVE  AtMost(n, max) \in Nat /\ (n < max => AtMost(n, max) = n)
  BY DEF AtMost

LEMMA TwoBytes ==
  ASSUME NEW a \in Bytes, NEW b \in Bytes
  PROVE  a + 256 * b \in Words /\ a + 256 * b \in Nat
  <1>1. a \in Nat /\ b \in Nat /\ a <= 255 /\ b <= 255
    BY DEF Bytes
  <1>2. a + 256 * b \in Nat /\ a + 256 * b < 256 * 256
    BY <1>1
  <1> QED BY <1>2, InWords

LEMMA ByPlace ==
  ASSUME NEW S, NEW s \in Seq(S)
  PROVE  s = [k \in 1..Len(s) |-> s[k]]
  OBVIOUS

LEMMA DecodedIn ==
  ASSUME TypeBuffer, NEW p \in Nat, DecodedEntry(p).ok
  PROVE  DecodedEntry(p).entry \in Decoded /\ DecodedEntry(p).next \in Nat
  <1> DEFINE tagLen == AtMost(buf[p + 5], TagMax)
             at == p + 6 + tagLen
             msgLen == AtMost(buf[at] + 256 * buf[at + 1], MsgMax)
             tag == [k \in 1..tagLen |-> buf[p + 5 + k]]
             msg == [k \in 1..msgLen |-> buf[at + 1 + k]]
             e == [time |-> buf[p] + 256 * buf[p + 1], level |-> buf[p + 4], tag |-> Text(tag), msg |-> Text(msg)]
  <1>1. /\ ~(p + 8 > BufSize) /\ ~(at + 2 > BufSize) /\ ~(at + 2 + msgLen > BufSize)
        /\ DecodedEntry(p) = [ok |-> TRUE, next |-> p + 8 + tagLen + msgLen, entry |-> e]
    BY DEF DecodedEntry, Ends, Overhead
  <1>2. BufSize \in Nat /\ TagMax \in Nat \ {0} /\ MsgMax \in Nat \ {0} /\ buf \in [0..(BufSize - 1) -> Bytes]
    BY BufferAssumption DEF TypeBuffer
  <1> HIDE DEF e
  <1>3. buf[p] \in Bytes /\ buf[p + 1] \in Bytes /\ buf[p + 4] \in Bytes /\ buf[p + 5] \in Bytes
    <2>1. p \in 0..(BufSize - 1) /\ p + 1 \in 0..(BufSize - 1) /\ p + 4 \in 0..(BufSize - 1)
          /\ p + 5 \in 0..(BufSize - 1)
      BY <1>1, <1>2
    <2> QED BY <1>2, <2>1
  <1>4. tagLen \in Nat
    <2>1. buf[p + 5] \in Nat
      BY <1>3 DEF Bytes
    <2> QED BY <1>2, <2>1, AtMostIn
  <1> HIDE DEF tagLen
  <1>5. at \in Nat /\ at + 1 \in 0..(BufSize - 1) /\ at \in 0..(BufSize - 1)
    BY <1>1, <1>2, <1>4
  <1>6. msgLen \in Nat
    <2>1. buf[at] \in Bytes /\ buf[at + 1] \in Bytes
      BY <1>2, <1>5
    <2> HIDE DEF at
    <2>2. buf[at] + 256 * buf[at + 1] \in Nat
      BY <2>1, TwoBytes
    <2> QED BY <1>2, <2>2, AtMostIn
  <1>7. tag \in Seq(Bytes)
    <2>1. \A k \in 1..tagLen : p + 5 + k \in 0..(BufSize - 1)
      BY <1>1, <1>2, <1>4
    <2>2. \A k \in 1..tagLen : buf[p + 5 + k] \in Bytes
      BY <1>2, <2>1
    <2> QED BY <1>4, <2>2
  <1>8. msg \in Seq(Bytes)
    <2>1. ~(at + 2 + msgLen > BufSize)
      BY <1>1
    <2> HIDE DEF msgLen, at
    <2>2. \A k \in 1..msgLen : at + 1 + k \in 0..(BufSize - 1)
      BY <1>2, <1>5, <1>6, <2>1
    <2>3. \A k \in 1..msgLen : buf[at + 1 + k] \in Bytes
      BY <1>2, <2>2
    <2> QED BY <1>6, <2>3
  <1>9. buf[p] + 256 * buf[p + 1] \in Words
    BY <1>3, TwoBytes
  <1>10. Text(tag) \in Seq(Bytes) /\ Text(msg) \in Seq(Bytes)
    <2> HIDE DEF tag, msg
    <2> QED BY <1>7, <1>8, TextIn
  <1>11. e \in Decoded
    <2> HIDE DEF tag, msg
    <2> QED BY <1>3, <1>9, <1>10 DEF e, Decoded
  <1> HIDE DEF msgLen
  <1>12. p + 8 + tagLen + msgLen \in Nat
    BY <1>4, <1>6
  <1> QED BY <1>1, <1>11, <1>12

(* An entry that lies in the buffer is read as it is.                      *)
LEMMA HeldIsRead ==
  ASSUME TypeBuffer, NEW p \in Nat, NEW e \in Entries, HoldsIn(buf, p, e),
         Len(e.tag) < TagMax, Len(e.msg) < MsgMax, p + Size(e) <= BufSize
  PROVE  DecodedEntry(p) = [ok |-> TRUE, next |-> p + Size(e), entry |-> e]
  <1> DEFINE t == Len(e.tag)
             g == Len(e.msg)
             tagLen == AtMost(buf[p + 5], TagMax)
             at == p + 6 + tagLen
             msgLen == AtMost(buf[at] + 256 * buf[at + 1], MsgMax)
             tag == [k \in 1..tagLen |-> buf[p + 5 + k]]
             msg == [k \in 1..msgLen |-> buf[at + 1 + k]]
             d == [time |-> buf[p] + 256 * buf[p + 1], level |-> buf[p + 4], tag |-> Text(tag), msg |-> Text(msg)]
  <1>1. /\ t \in Nat /\ g \in Nat /\ Size(e) = 8 + t + g
        /\ e.tag \in Seq(Bytes \ {0}) /\ e.msg \in Seq(Bytes \ {0})
    BY EntryParts
  <1>2. /\ t < TagMax /\ g < MsgMax /\ BufSize \in Nat /\ TagMax \in Nat \ {0} /\ MsgMax \in Nat \ {0}
    BY BufferAssumption
  <1>3. /\ buf[p] + 256 * buf[p + 1] = e.time /\ buf[p + 4] = e.level /\ buf[p + 5] = t
        /\ \A k \in 1..t : buf[p + 5 + k] = e.tag[k]
        /\ buf[p + 6 + t] + 256 * buf[p + 7 + t] = g
        /\ \A k \in 1..g : buf[p + 7 + t + k] = e.msg[k]
    BY DEF HoldsIn
  <1>4. e = [time |-> e.time, level |-> e.level, tag |-> e.tag, msg |-> e.msg]
    BY DEF Entries
  <1>5. e.tag = [k \in 1..t |-> e.tag[k]] /\ e.msg = [k \in 1..g |-> e.msg[k]]
    BY <1>1, ByPlace
  <1>6. DecodedEntry(p) = IF p + 8 > BufSize THEN Ends(p)
                          ELSE IF at + 2 > BufSize THEN Ends(p)
                          ELSE IF at + 2 + msgLen > BufSize THEN Ends(p)
                          ELSE [ok |-> TRUE, next |-> p + 8 + tagLen + msgLen, entry |-> d]
    BY DEF DecodedEntry, Overhead
  <1> HIDE DEF t, g, d
  <1>7. tagLen = t
    BY <1>1, <1>2, <1>3, AtMostIn
  <1>8. tag = e.tag
    <2> HIDE DEF tagLen
    <2> QED BY <1>3, <1>5, <1>7
  <1> HIDE DEF tagLen, tag
  <1>9. at = p + 6 + t /\ at + 1 = p + 7 + t
    BY <1>1, <1>7
  <1> HIDE DEF at
  <1>10. msgLen = g
    BY <1>1, <1>2, <1>3, <1>9, AtMostIn
  <1> HIDE DEF msgLen
  <1>11. msg = e.msg
    <2>1. \A k \in 1..g : buf[at + 1 + k] = e.msg[k]
      BY <1>3, <1>9
    <2> QED BY <1>5, <1>10, <2>1
  <1> HIDE DEF msg
  <1>12. d = e
    BY <1>1, <1>3, <1>4, <1>8, <1>11, TextWhole DEF d
  <1>13. ~(p + 8 > BufSize) /\ ~(at + 2 > BufSize) /\ ~(at + 2 + msgLen > BufSize)
         /\ p + 8 + tagLen + msgLen = p + Size(e)
    BY <1>1, <1>2, <1>7, <1>9, <1>10
  <1> QED BY <1>6, <1>12, <1>13

(* One look more keeps what was found and adds no more than one entry.     *)
LEMMA LookedIn ==
  ASSUME TypeBuffer, NEW a \in Looks, NEW level, NEW limit \in Nat
  PROVE  /\ Looked(a, level, limit) \in Looks
         /\ Begins(a.found, Looked(a, level, limit).found)
         /\ Len(a.found) <= limit => Len(Looked(a, level, limit).found) <= limit
  <1> DEFINE d == DecodedEntry(a.pos)
             b == Looked(a, level, limit)
  <1>1. a.pos \in Nat /\ a.found \in Seq(Decoded) /\ a.done \in BOOLEAN
    BY DEF Looks
  <1>2. Begins(a.found, a.found) /\ Len(a.found) \in Nat
    BY <1>1 DEF Begins
  <1>3. CASE a.done \/ a.pos >= BufSize \/ Len(a.found) >= limit \/ ~d.ok
    <2>1. b = [a EXCEPT !.done = TRUE]
      BY <1>3 DEF Looked
    <2>2. b \in Looks /\ b.found = a.found
      BY <2>1 DEF Looks
    <2> QED BY <1>2, <2>2
  <1>4. CASE ~(a.done \/ a.pos >= BufSize \/ Len(a.found) >= limit \/ ~d.ok)
    <2> DEFINE more == IF d.entry.level <= level THEN Append(a.found, d.entry) ELSE a.found
    <2>1. d.entry \in Decoded /\ d.next \in Nat /\ ~(Len(a.found) >= limit)
      BY <1>1, <1>4, DecodedIn
    <2>2. b = [a EXCEPT !.pos = d.next, !.found = more]
      BY <1>4 DEF Looked
    <2>3. more \in Seq(Decoded) /\ Begins(a.found, more) /\ Len(more) <= limit
      <3>1. CASE more = a.found
        BY <1>1, <1>2, <2>1, <3>1
      <3>2. CASE more = Append(a.found, d.entry)
        <4>1. Append(a.found, d.entry) \in Seq(Decoded) /\ Len(Append(a.found, d.entry)) = Len(a.found) + 1
              /\ \A i \in 1..Len(a.found) : Append(a.found, d.entry)[i] = a.found[i]
          BY <1>1, <2>1
        <4> HIDE DEF d, more
        <4> QED BY <1>2, <2>1, <3>2, <4>1 DEF Begins
      <3> QED BY <3>1, <3>2
    <2> HIDE DEF more, d, b
    <2>4. b \in Looks /\ b.found = more
      BY <2>1, <2>2, <2>3 DEF Looks
    <2> QED BY <2>3, <2>4 DEF b
  <1> QED BY <1>3, <1>4

(* A query is a walk, and so is the choice of those it is to find.         *)
QueryWalk(w, level, limit) ==
  /\ w \in [0..Cells -> Looks] /\ w[0] = [pos |-> 0, found |-> <<>>, done |-> FALSE]
  /\ \A n \in 1..Cells : w[n] = Looked(w[n - 1], level, limit)
  /\ Query(level, limit) = w[Cells].found

LEMMA CellsIn == Cells \in Nat /\ 8 * Cells <= BufSize /\ BufSize < 8 * Cells + 8
  <1>1. BufSize \in Nat
    BY BufferAssumption
  <1> QED BY <1>1 DEF Cells, Overhead

LEMMA QueryWalks ==
  ASSUME TypeBuffer, NEW level, NEW limit \in Nat
  PROVE  \E w : QueryWalk(w, level, limit)
  <1> DEFINE x == [pos |-> 0, found |-> <<>>, done |-> FALSE]
             step == [p \in Looks \X {0} |-> Looked(p[1], level, limit)]
             s == [n \in 1..Cells |-> 0]
             Body(g) == [n \in 0..Cells |-> IF n = 0 THEN x ELSE Looked(g[n - 1], level, limit)]
             w == CHOOSE g : g = Body(g)
  <1>1. step \in [Looks \X {0} -> Looks]
    BY LookedIn
  <1>2. s \in Seq({0}) /\ Len(s) = Cells /\ Cells \in Nat
    BY CellsIn
  <1>3. \A n \in 1..Cells : s[n] = 0
    OBVIOUS
  <1>4. x \in Looks
    BY DEF Looks
  <1> HIDE DEF s, x
  <1>5. PICK g : FullWalk(g, Looks, {0}, step, x, s)
    <2> HIDE DEF step
    <2> QED BY <1>1, <1>2, <1>4, WalkExists
  <1>6. g \in [0..Cells -> Looks] /\ g[0] = x /\ \A n \in 1..Cells : g[n] = Looked(g[n - 1], level, limit)
    BY <1>2, <1>3, <1>5 DEF FullWalk
  <1>7. g = Body(g)
    BY <1>2, <1>6
  <1>8. w = Body(w)
    <2> HIDE DEF Body
    <2> QED BY <1>7
  <1>9. Query(level, limit) = w[Cells].found
    BY DEF Query, Cells, x
  <1> HIDE DEF w
  <1>10. w[0] = x /\ \A n \in 1..Cells : w[n] = Looked(w[n - 1], level, limit)
    BY <1>2, <1>8
  <1>11. \A n \in 1..Cells : w[n - 1] \in Looks => w[n] = step[<<w[n - 1], s[n]>>]
    BY <1>3, <1>10
  <1>12. IsWalk(w, Looks, {0}, step, x, s)
    <2> HIDE DEF step
    <2> QED BY <1>1, <1>2, <1>4, <1>10, <1>11 DEF IsWalk
  <1>13. \A n \in 0..Cells : w[n] \in Looks
    <2>1. Begins(s, s)
      BY <1>2 DEF Begins
    <2> HIDE DEF step
    <2> QED BY <1>2, <1>12, <2>1, WalksAgree
  <1>14. w = [n \in 0..Cells |-> w[n]]
    BY <1>8
  <1>15. w \in [0..Cells -> Looks]
    BY <1>13, <1>14
  <1> QED BY <1>9, <1>10, <1>15 DEF QueryWalk, x

Chosen(a, e, level) == IF e.level <= level THEN Append(a, e) ELSE a
WantedWalk(w, level) ==
  /\ w \in [0..Len(fresh) -> Seq(Entries)] /\ w[0] = <<>>
  /\ \A n \in 1..Len(fresh) : w[n] = Chosen(w[n - 1], fresh[n], level)
  /\ Wanted(level) = w[Len(fresh)]

LEMMA WantedWalks ==
  ASSUME TypeBuffer, NEW level
  PROVE  \E w : WantedWalk(w, level)
  <1> DEFINE X == Seq(Entries)
             step == [p \in X \X Entries |-> Chosen(p[1], p[2], level)]
             Body(g) == [n \in 0..Len(fresh) |->
                           IF n = 0 THEN <<>>
                           ELSE IF fresh[n].level <= level THEN Append(g[n - 1], fresh[n]) ELSE g[n - 1]]
             w == CHOOSE g : g = Body(g)
  <1>1. step \in [X \X Entries -> X]
    BY DEF Chosen
  <1>2. fresh \in Seq(Entries) /\ Len(fresh) \in Nat /\ (\A n \in 1..Len(fresh) : fresh[n] \in Entries)
    BY DEF TypeBuffer
  <1>3. <<>> \in X
    OBVIOUS
  <1>4. \A a \in X, e \in Entries : step[<<a, e>>] = Chosen(a, e, level)
    OBVIOUS
  <1> HIDE DEF step, X
  <1>5. PICK g : FullWalk(g, X, Entries, step, <<>>, fresh)
    BY <1>1, <1>2, <1>3, WalkExists
  <1>6. /\ g \in [0..Len(fresh) -> X] /\ g[0] = <<>>
        /\ \A n \in 1..Len(fresh) : g[n] = Chosen(g[n - 1], fresh[n], level)
    BY <1>2, <1>4, <1>5 DEF FullWalk
  <1>7. g = Body(g)
    <2>1. \A n \in 1..Len(fresh) : g[n] = IF fresh[n].level <= level THEN Append(g[n - 1], fresh[n]) ELSE g[n - 1]
      BY <1>6 DEF Chosen
    <2>2. \A n \in 0..Len(fresh) : n = 0 \/ n \in 1..Len(fresh)
      BY <1>2
    <2>3. g = [n \in 0..Len(fresh) |-> g[n]]
      BY <1>6
    <2>4. \A n \in 0..Len(fresh) :
            g[n] = IF n = 0 THEN <<>>
                   ELSE IF fresh[n].level <= level THEN Append(g[n - 1], fresh[n]) ELSE g[n - 1]
      BY <1>6, <2>1, <2>2
    <2> QED BY <2>3, <2>4
  <1>8. w = Body(w)
    <2> HIDE DEF Body
    <2> QED BY <1>7
  <1>9. Wanted(level) = w[Len(fresh)]
    BY DEF Wanted
  <1> HIDE DEF w
  <1>10. w[0] = <<>> /\ \A n \in 1..Len(fresh) : w[n] = Chosen(w[n - 1], fresh[n], level)
    <2>1. w[0] = <<>>
      BY <1>2, <1>8
    <2>2. ASSUME NEW n \in 1..Len(fresh)
          PROVE  w[n] = IF fresh[n].level <= level THEN Append(w[n - 1], fresh[n]) ELSE w[n - 1]
      <3>1. n \in 0..Len(fresh) /\ n # 0
        BY <1>2
      <3> QED BY <1>8, <3>1
    <2> QED BY <2>1, <2>2 DEF Chosen
  <1>11. IsWalk(w, X, Entries, step, <<>>, fresh)
    BY <1>1, <1>2, <1>3, <1>4, <1>10 DEF IsWalk
  <1>12. \A n \in 0..Len(fresh) : w[n] \in X
    <2>1. Begins(fresh, fresh)
      BY <1>2 DEF Begins
    <2> QED BY <1>11, <2>1, WalksAgree
  <1>13. w = [n \in 0..Len(fresh) |-> w[n]]
    BY <1>8
  <1>14. w \in [0..Len(fresh) -> Seq(Entries)]
    BY <1>12, <1>13 DEF X
  <1> QED BY <1>9, <1>10, <1>14 DEF WantedWalk

LEMMA BeginsOn ==
  ASSUME NEW R, NEW S, NEW T, NEW a \in Seq(R), NEW b \in Seq(S), NEW c \in Seq(T), Begins(a, b), Begins(b, c)
  PROVE  Begins(a, c)
  <1>1. Len(a) \in Nat /\ Len(b) \in Nat /\ Len(c) \in Nat /\ Len(a) <= Len(b) /\ Len(b) <= Len(c)
    BY DEF Begins
  <1>2. ASSUME NEW i \in 1..Len(a) PROVE c[i] = a[i]
    <2>1. i \in 1..Len(b)
      BY <1>1
    <2> QED BY <2>1 DEF Begins
  <1> QED BY <1>1, <1>2 DEF Begins

(* Where a query is when it has looked at entries of which it was to find  *)
(* these: it has them, or as many of them as it may give.                  *)
Ahead(a, p, s, limit) ==
  IF Len(s) < limit THEN a = [pos |-> p, found |-> s, done |-> FALSE]
  ELSE Len(a.found) = limit /\ Begins(a.found, s)

LEMMA ChosenIn ==
  ASSUME NEW s \in Seq(Entries), NEW e \in Entries, NEW level
  PROVE  /\ Chosen(s, e, level) \in Seq(Entries) /\ Begins(s, Chosen(s, e, level))
         /\ Len(s) \in Nat /\ Len(Chosen(s, e, level)) \in {Len(s), Len(s) + 1}
  <1>1. Len(s) \in Nat /\ Append(s, e) \in Seq(Entries) /\ Len(Append(s, e)) = Len(s) + 1
        /\ \A i \in 1..Len(s) : Append(s, e)[i] = s[i]
    OBVIOUS
  <1>2. CASE e.level <= level
    <2>1. Chosen(s, e, level) = Append(s, e)
      BY <1>2 DEF Chosen
    <2> QED BY <1>1, <2>1 DEF Begins
  <1>3. CASE ~(e.level <= level)
    <2>1. Chosen(s, e, level) = s
      BY <1>3 DEF Chosen
    <2> QED BY <1>1, <2>1 DEF Begins
  <1> QED BY <1>2, <1>3

LEMMA AheadStep ==
  ASSUME TypeBuffer, NEW a \in Looks, NEW p \in Nat, NEW s \in Seq(Entries), NEW limit \in Nat,
         Ahead(a, p, s, limit), NEW level, NEW e \in Entries, HoldsIn(buf, p, e),
         Len(e.tag) < TagMax, Len(e.msg) < MsgMax, p + Size(e) <= BufSize
  PROVE  Ahead(Looked(a, level, limit), p + Size(e), Chosen(s, e, level), limit)
  <1> DEFINE t == Chosen(s, e, level)
             b == Looked(a, level, limit)
  <1>1. t \in Seq(Entries) /\ Begins(s, t) /\ Len(s) \in Nat /\ Len(t) \in {Len(s), Len(s) + 1}
    BY ChosenIn
  <1>2. a.found \in Seq(Decoded)
    BY DEF Looks
  <1>3. CASE Len(s) < limit
    <2>1. a = [pos |-> p, found |-> s, done |-> FALSE]
      BY <1>3 DEF Ahead
    <2>2. DecodedEntry(p) = [ok |-> TRUE, next |-> p + Size(e), entry |-> e]
      BY HeldIsRead
    <2>3. ~(p >= BufSize) /\ ~(Len(s) >= limit)
      <3>1. BufSize \in Nat /\ Size(e) \in Nat /\ Size(e) >= 8
        <4>1. Len(e.tag) \in Nat /\ Len(e.msg) \in Nat /\ Size(e) = 8 + Len(e.tag) + Len(e.msg)
          BY EntryParts
        <4> DEFINE k == Len(e.tag)
                   g == Len(e.msg)
        <4> HIDE DEF k, g
        <4>2. k \in Nat /\ g \in Nat /\ Size(e) = 8 + k + g
          BY <4>1 DEF k, g
        <4> QED BY <4>2, BufferAssumption
      <3> QED BY <1>1, <1>3, <3>1
    <2>4. b = [pos |-> p + Size(e), found |-> t, done |-> FALSE]
      <3>1. a.pos = p /\ a.found = s /\ a.done = FALSE
        BY <2>1
      <3>2. b = [a EXCEPT !.pos = p + Size(e), !.found = t]
        <4> DEFINE d == DecodedEntry(a.pos)
        <4>1. b = IF a.done \/ a.pos >= BufSize \/ Len(a.found) >= limit \/ ~d.ok THEN [a EXCEPT !.done = TRUE]
                  ELSE [a EXCEPT !.pos = d.next,
                          !.found = IF d.entry.level <= level THEN Append(a.found, d.entry) ELSE a.found]
          BY DEF Looked
        <4>2. d.ok = TRUE /\ d.next = p + Size(e) /\ d.entry = e
          BY <2>2, <3>1
        <4> HIDE DEF d, b
        <4>3. ~(a.done \/ a.pos >= BufSize \/ Len(a.found) >= limit \/ ~d.ok)
          BY <2>3, <3>1, <4>2
        <4>4. t = IF d.entry.level <= level THEN Append(a.found, d.entry) ELSE a.found
          BY <3>1, <4>2 DEF Chosen
        <4> HIDE DEF t
        <4> QED BY <4>1, <4>2, <4>3, <4>4
      <3> HIDE DEF b, t
      <3>3. a \in [pos : {p, p + Size(e)}, found : {s, t}, done : {FALSE}]
        BY <2>1
      <3>4. /\ b \in [pos : {p, p + Size(e)}, found : {s, t}, done : {FALSE}]
            /\ b.pos = p + Size(e) /\ b.found = t
        BY <3>2, <3>3
      <3> QED BY <3>4
    <2>5. CASE Len(t) < limit
      BY <2>4, <2>5 DEF Ahead
    <2>6. CASE ~(Len(t) < limit)
      <3>1. Len(t) = limit /\ Len(t) \in Nat
        BY <1>1, <1>3, <2>6
      <3>2. b.found = t /\ Begins(t, t)
        BY <2>4, <3>1 DEF Begins
      <3> HIDE DEF t, b
      <3> QED BY <2>6, <3>1, <3>2 DEF Ahead, t, b
    <2> QED BY <2>5, <2>6
  <1>4. CASE ~(Len(s) < limit)
    <2>1. Len(a.found) = limit /\ Begins(a.found, s)
      BY <1>4 DEF Ahead
    <2>2. b.found = a.found
      <3>1. Len(a.found) >= limit
        BY <2>1
      <3>2. b = [a EXCEPT !.done = TRUE]
        BY <3>1 DEF Looked
      <3> QED BY <3>2 DEF Looks
    <2>3. ~(Len(t) < limit)
      BY <1>1, <1>4
    <2>4. Begins(a.found, t)
      BY <1>1, <1>2, <2>1, BeginsOn
    <2> HIDE DEF t, b
    <2> QED BY <2>1, <2>2, <2>3, <2>4 DEF Ahead, t, b
  <1> QED BY <1>3, <1>4

LEMMA FewFresh ==
  ASSUME TypeBuffer, NEW at, Places(at, fresh, buf, writePos)
  PROVE  Len(fresh) <= Cells
  <1> DEFINE T == {n \in Nat : n <= Len(fresh) => at[n] >= 8 * n}
  <1>1. /\ Len(fresh) \in Nat /\ \A n \in 1..Len(fresh) : fresh[n] \in Entries
        /\ writePos \in 0..BufSize /\ BufSize \in Nat
    BY BufferAssumption DEF TypeBuffer
  <1>2. /\ at \in [0..Len(fresh) -> 0..writePos] /\ at[0] = 0 /\ at[Len(fresh)] = writePos
        /\ \A n \in 1..Len(fresh) : at[n] = at[n - 1] + Size(fresh[n])
    BY DEF Places
  <1>3. 0 \in T
    BY <1>2
  <1>4. ASSUME NEW n \in Nat, n + 1 <= Len(fresh), at[n] >= 8 * n
        PROVE  at[n + 1] >= 8 * (n + 1)
    <2>1. n + 1 \in 1..Len(fresh) /\ (n + 1) - 1 = n /\ n \in 0..Len(fresh)
      BY <1>1, <1>4
    <2>2. at[n + 1] = at[n] + Size(fresh[n + 1]) /\ at[n] \in Nat /\ fresh[n + 1] \in Entries
      BY <1>1, <1>2, <2>1
    <2> DEFINE k == Len(fresh[n + 1].tag)
               g == Len(fresh[n + 1].msg)
               z == Size(fresh[n + 1])
    <2>3. k \in Nat /\ g \in Nat /\ z = 8 + k + g
      BY <2>2, EntryParts
    <2> HIDE DEF k, g
    <2> QED BY <1>4, <2>2, <2>3
  <1>5. \A n \in Nat : n \in T => n + 1 \in T
    BY <1>1, <1>4
  <1>6. \A n \in Nat : n \in T
    <2> HIDE DEF T
    <2> QED BY <1>3, <1>5, Induction
  <1>7. at[Len(fresh)] >= 8 * Len(fresh)
    BY <1>1, <1>6
  <1> DEFINE n == Len(fresh)
  <1> HIDE DEF n
  <1>8. n \in Nat /\ writePos >= 8 * n
    BY <1>1, <1>2, <1>7 DEF n
  <1>9. n <= Cells
    BY <1>1, <1>8, CellsIn
  <1> QED BY <1>9 DEF n

(* While a query looks at the entries logged since the buffer was begun,   *)
(* it finds those it is to find.                                           *)
LEMMA FirstFound ==
  ASSUME TypeBuffer, NEW at, Places(at, fresh, buf, writePos), NEW level, NEW limit \in Nat,
         NEW w, QueryWalk(w, level, limit), NEW v, WantedWalk(v, level)
  PROVE  \A n \in 0..Len(fresh) : Ahead(w[n], at[n], v[n], limit)
  <1> DEFINE T == {n \in Nat : n <= Len(fresh) => Ahead(w[n], at[n], v[n], limit)}
  <1>1. /\ Len(fresh) \in Nat /\ \A n \in 1..Len(fresh) : fresh[n] \in Entries
        /\ writePos \in 0..BufSize /\ BufSize \in Nat
    BY BufferAssumption DEF TypeBuffer
  <1>2. /\ at \in [0..Len(fresh) -> 0..writePos] /\ at[0] = 0 /\ at[Len(fresh)] = writePos
        /\ \A n \in 1..Len(fresh) :
             /\ at[n] = at[n - 1] + Size(fresh[n]) /\ HoldsIn(buf, at[n - 1], fresh[n])
             /\ Len(fresh[n].tag) < TagMax /\ Len(fresh[n].msg) < MsgMax
    BY DEF Places
  <1>3. Len(fresh) <= Cells /\ Cells \in Nat
    BY FewFresh, CellsIn
  <1>4. 0 \in T
    <2>1. w[0] = [pos |-> 0, found |-> <<>>, done |-> FALSE] /\ v[0] = <<>>
      BY DEF QueryWalk, WantedWalk
    <2>2. Ahead(w[0], at[0], v[0], limit)
      <3>1. CASE 0 < limit
        BY <1>2, <2>1, <3>1 DEF Ahead
      <3>2. CASE limit = 0
        BY <2>1, <3>2 DEF Ahead, Begins
      <3> QED BY <3>1, <3>2
    <2> QED BY <2>2
  <1>5. ASSUME NEW n \in Nat, n + 1 <= Len(fresh), Ahead(w[n], at[n], v[n], limit)
        PROVE  Ahead(w[n + 1], at[n + 1], v[n + 1], limit)
    <2>1. /\ n + 1 \in 1..Len(fresh) /\ (n + 1) - 1 = n /\ n \in 0..Len(fresh) /\ n + 1 \in 0..Len(fresh)
          /\ n \in 0..Cells /\ n + 1 \in 1..Cells
      BY <1>1, <1>3, <1>5
    <2>2. w[n] \in Looks /\ w[n + 1] = Looked(w[n], level, limit)
      BY <2>1 DEF QueryWalk
    <2>3. v[n] \in Seq(Entries) /\ v[n + 1] = Chosen(v[n], fresh[n + 1], level)
      BY <2>1 DEF WantedWalk
    <2>4. /\ at[n + 1] = at[n] + Size(fresh[n + 1]) /\ HoldsIn(buf, at[n], fresh[n + 1])
          /\ Len(fresh[n + 1].tag) < TagMax /\ Len(fresh[n + 1].msg) < MsgMax
      BY <1>2, <2>1
    <2>5. at[n] \in Nat /\ at[n] + Size(fresh[n + 1]) <= BufSize /\ fresh[n + 1] \in Entries
      <3>1. at[n] \in 0..writePos /\ at[n + 1] \in 0..writePos
        BY <1>2, <2>1
      <3> QED BY <1>1, <2>1, <2>4, <3>1
    <2>6. Ahead(Looked(w[n], level, limit), at[n] + Size(fresh[n + 1]), Chosen(v[n], fresh[n + 1], level), limit)
      BY <1>5, <2>2, <2>3, <2>4, <2>5, AheadStep
    <2> QED BY <2>2, <2>3, <2>4, <2>6
  <1>6. \A n \in Nat : n \in T => n + 1 \in T
    BY <1>1, <1>5
  <1>7. \A n \in Nat : n \in T
    <2> HIDE DEF T
    <2> QED BY <1>4, <1>6, Induction
  <1> QED BY <1>1, <1>7

(* What older entries add comes behind, and no more than is asked for.     *)
LEMMA FoundAfter ==
  ASSUME TypeBuffer, NEW level, NEW limit \in Nat, NEW w, QueryWalk(w, level, limit),
         NEW m \in 0..Cells, Len(w[m].found) <= limit
  PROVE  Begins(w[m].found, w[Cells].found) /\ Len(w[Cells].found) <= limit
  <1> DEFINE Good(k) == Begins(w[m].found, w[k].found) /\ Len(w[k].found) <= limit
             T == {n \in Nat : m + n <= Cells => Good(m + n)}
  <1>1. Cells \in Nat /\ w \in [0..Cells -> Looks] /\ \A n \in 1..Cells : w[n] = Looked(w[n - 1], level, limit)
    BY CellsIn DEF QueryWalk
  <1>2. \A n \in 0..Cells : w[n] \in Looks /\ w[n].found \in Seq(Decoded)
    BY <1>1 DEF Looks
  <1>3. 0 \in T
    <2>1. w[m].found \in Seq(Decoded)
      BY <1>2
    <2>2. Begins(w[m].found, w[m].found)
      BY <2>1 DEF Begins
    <2>3. Good(m)
      BY <2>2
    <2>4. m + 0 = m
      OBVIOUS
    <2> HIDE DEF Good
    <2> QED BY <2>3, <2>4
  <1>4. ASSUME NEW n \in Nat, m + (n + 1) <= Cells, Good(m + n)
        PROVE  Good(m + (n + 1))
    <2>1. m + (n + 1) \in 1..Cells /\ (m + (n + 1)) - 1 = m + n /\ m + n \in 0..Cells /\ m + (n + 1) \in 0..Cells
      BY <1>1, <1>4
    <2>2. w[m + (n + 1)] = Looked(w[m + n], level, limit)
      BY <1>1, <2>1
    <2>3. Begins(w[m + n].found, w[m + (n + 1)].found) /\ Len(w[m + (n + 1)].found) <= limit
      BY <1>2, <1>4, <2>1, <2>2, LookedIn
    <2>4. Begins(w[m].found, w[m + (n + 1)].found)
      BY <1>2, <1>4, <2>1, <2>3, BeginsOn
    <2> QED BY <2>3, <2>4
  <1>5. ASSUME NEW n \in Nat, n \in T PROVE n + 1 \in T
    <2>1. ASSUME m + (n + 1) <= Cells PROVE Good(m + (n + 1))
      <3>1. m + n <= Cells
        BY <1>1, <2>1
      <3> QED BY <1>4, <1>5, <2>1, <3>1
    <2> HIDE DEF Good
    <2> QED BY <2>1
  <1> HIDE DEF Good
  <1>6. \A n \in Nat : n \in T
    <2> HIDE DEF T
    <2> QED BY <1>3, <1>5, Induction
  <1>7. Cells - m \in Nat /\ m + (Cells - m) = Cells
    BY <1>1
  <1>8. Good(Cells)
    BY <1>6, <1>7
  <1> QED BY <1>8 DEF Good

(* One is the beginning of the other, as far as the query may go.          *)
LEMMA QueryFinds ==
  ASSUME TypeBuffer, FreshPlaced, NEW level, NEW limit \in Nat
  PROVE  /\ Query(level, limit) \in Seq(Decoded) /\ Wanted(level) \in Seq(Entries)
         /\ IF Len(Wanted(level)) < limit THEN Begins(Wanted(level), Query(level, limit))
            ELSE Len(Query(level, limit)) = limit /\ Begins(Query(level, limit), Wanted(level))
  <1> DEFINE L == Len(fresh)
  <1>1. PICK at : Places(at, fresh, buf, writePos)
    BY DEF FreshPlaced
  <1>2. PICK w : QueryWalk(w, level, limit)
    BY QueryWalks
  <1>3. PICK v : WantedWalk(v, level)
    BY WantedWalks
  <1>4. L \in Nat /\ L <= Cells /\ Cells \in Nat
    BY <1>1, FewFresh, CellsIn DEF TypeBuffer
  <1>5. L \in 0..L /\ L \in 0..Cells /\ Cells \in 0..Cells
    BY <1>4
  <1>6. Ahead(w[L], at[L], v[L], limit)
    BY <1>1, <1>2, <1>3, <1>5, FirstFound
  <1>7. Query(level, limit) = w[Cells].found /\ Wanted(level) = v[L]
    BY <1>2, <1>3 DEF QueryWalk, WantedWalk
  <1>8. w[Cells].found \in Seq(Decoded) /\ w[L].found \in Seq(Decoded) /\ v[L] \in Seq(Entries)
    BY <1>2, <1>3, <1>5 DEF QueryWalk, WantedWalk, Looks
  <1> HIDE DEF L
  <1>9. CASE Len(v[L]) < limit
    <2>1. w[L].found = v[L]
      BY <1>6, <1>9 DEF Ahead
    <2>2. Len(w[L].found) <= limit
      BY <1>8, <1>9, <2>1
    <2>3. Begins(w[L].found, w[Cells].found)
      BY <1>2, <1>5, <2>2, FoundAfter
    <2> QED BY <1>7, <1>8, <1>9, <2>1, <2>3
  <1>10. CASE ~(Len(v[L]) < limit)
    <2>1. Len(w[L].found) = limit /\ Begins(w[L].found, v[L])
      BY <1>6, <1>10 DEF Ahead
    <2>2. Begins(w[L].found, w[Cells].found) /\ Len(w[Cells].found) <= limit
      <3>1. Len(w[L].found) <= limit
        BY <2>1
      <3> QED BY <1>2, <1>5, <3>1, FoundAfter
    <2>3. Len(w[Cells].found) = limit
      BY <1>8, <2>1, <2>2 DEF Begins
    <2>4. Begins(w[Cells].found, v[L])
      <3>1. \A i \in 1..limit : v[L][i] = w[L].found[i] /\ w[Cells].found[i] = w[L].found[i]
        BY <2>1, <2>2 DEF Begins
      <3>2. limit <= Len(v[L])
        BY <2>1 DEF Begins
      <3> QED BY <2>3, <3>1, <3>2 DEF Begins
    <2> QED BY <1>7, <1>8, <1>10, <2>3, <2>4
  <1> QED BY <1>9, <1>10

LEMMA PrefixOf ==
  ASSUME NEW S, NEW T, NEW s \in Seq(S), NEW t \in Seq(T), Begins(s, t)
  PROVE  IsPrefix(s, t)
  <1>1. Len(s) \in Nat /\ Len(t) \in Nat /\ Len(s) <= Len(t) /\ \A i \in 1..Len(s) : t[i] = s[i]
    BY DEF Begins
  <1>2. SubSeq(s, 1, Len(s)) = SubSeq(t, 1, Len(s))
    BY <1>1
  <1> QED BY <1>1, <1>2 DEF IsPrefix

(* What is packed of the entries found are the first of them.              *)
LEMMA PackedFirst ==
  ASSUME NEW found \in Seq(Decoded), NEW room, NEW reserve, NEW size, \A e \in Decoded : e \in ToSet(found) => size[e] \in Nat
  PROVE  Packed(found, room, reserve, size) \in Seq(Decoded) /\ Begins(Packed(found, room, reserve, size), found)
  <1> DEFINE X == [written : Nat, out : Seq(Decoded), done : BOOLEAN]
             C == Decoded \X Nat
             x == [written |-> 2, out |-> <<>>, done |-> FALSE]
             step == [p \in X \X C |-> PackedOne(p[1], p[2][1], room, reserve, p[2][2])]
             s == [n \in 1..Len(found) |-> <<found[n], size[found[n]]>>]
             Body(g) == [n \in 0..Len(found) |->
                           IF n = 0 THEN [written |-> 2, out |-> <<>>, done |-> FALSE]
                           ELSE PackedOne(g[n - 1], found[n], room, reserve, size[found[n]])]
             w == CHOOSE g : g = Body(g)
  <1>1. Len(found) \in Nat /\ \A n \in 1..Len(found) : found[n] \in Decoded /\ size[found[n]] \in Nat
    BY DEF ToSet
  <1>2. ASSUME NEW a \in X, NEW e \in Decoded, NEW z \in Nat
        PROVE  PackedOne(a, e, room, reserve, z) \in X
    <2>1. a.written + z \in Nat /\ Append(a.out, e) \in Seq(Decoded)
      OBVIOUS
    <2> QED BY <2>1 DEF PackedOne
  <1>3. step \in [X \X C -> X]
    BY <1>2
  <1>4. \A a \in X, e \in Decoded, z \in Nat : step[<<a, <<e, z>>>>] = PackedOne(a, e, room, reserve, z)
    OBVIOUS
  <1>5. s \in Seq(C) /\ Len(s) = Len(found) /\ \A n \in 1..Len(found) : s[n] = <<found[n], size[found[n]]>>
    BY <1>1
  <1>6. x \in X
    OBVIOUS
  <1> HIDE DEF step, s, X, C
  <1>7. PICK g : FullWalk(g, X, C, step, x, s)
    <2> HIDE DEF x
    <2> QED BY <1>3, <1>5, <1>6, WalkExists
  <1>8. g = Body(g)
    <2>1. g \in [0..Len(found) -> X] /\ g[0] = x
      BY <1>5, <1>7 DEF FullWalk
    <2>2. \A n \in 1..Len(found) : g[n] = PackedOne(g[n - 1], found[n], room, reserve, size[found[n]])
      <3> SUFFICES ASSUME NEW n \in 1..Len(found)
                   PROVE  g[n] = PackedOne(g[n - 1], found[n], room, reserve, size[found[n]])
        OBVIOUS
      <3>1. g[n - 1] \in X /\ g[n] = step[<<g[n - 1], s[n]>>]
        BY <1>5, <1>7 DEF FullWalk
      <3>2. s[n] = <<found[n], size[found[n]]>> /\ found[n] \in Decoded /\ size[found[n]] \in Nat
        BY <1>1, <1>5
      <3> QED BY <1>4, <3>1, <3>2
    <2>3. \A n \in 0..Len(found) : n = 0 \/ n \in 1..Len(found)
      BY <1>1
    <2>4. g = [n \in 0..Len(found) |-> g[n]]
      BY <2>1
    <2>5. \A n \in 0..Len(found) :
            g[n] = IF n = 0 THEN x ELSE PackedOne(g[n - 1], found[n], room, reserve, size[found[n]])
      BY <2>1, <2>2, <2>3
    <2> QED BY <2>4, <2>5
  <1>9. w = Body(w)
    <2> HIDE DEF Body
    <2> QED BY <1>8
  <1>10. Packed(found, room, reserve, size) = w[Len(found)].out
    BY DEF Packed
  <1> HIDE DEF w
  <1>11. w[0] = x /\ \A n \in 1..Len(found) : w[n] = PackedOne(w[n - 1], found[n], room, reserve, size[found[n]])
    <2>1. w[0] = x
      BY <1>1, <1>9
    <2>2. ASSUME NEW n \in 1..Len(found)
          PROVE  w[n] = PackedOne(w[n - 1], found[n], room, reserve, size[found[n]])
      <3>1. n \in 0..Len(found) /\ n # 0
        BY <1>1
      <3> QED BY <1>9, <3>1
    <2> QED BY <2>1, <2>2
  <1>12. IsWalk(w, X, C, step, x, s)
    <2>1. ASSUME NEW n \in 1..Len(s), w[n - 1] \in X
          PROVE  w[n] = step[<<w[n - 1], s[n]>>]
      <3>1. n \in 1..Len(found)
        BY <1>5
      <3>2. s[n] = <<found[n], size[found[n]]>> /\ found[n] \in Decoded /\ size[found[n]] \in Nat
        BY <1>1, <1>5, <3>1
      <3> QED BY <1>4, <1>11, <2>1, <3>1, <3>2
    <2> HIDE DEF x
    <2> QED BY <1>3, <1>5, <1>6, <1>11, <2>1 DEF IsWalk
  <1>13. \A n \in 0..Len(found) : w[n] \in X
    <2>1. Begins(s, s)
      BY <1>1, <1>5 DEF Begins
    <2> HIDE DEF x
    <2> QED BY <1>5, <1>12, <2>1, WalksAgree
  <1> DEFINE Good(n) == Begins(w[n].out, found) /\ (w[n].done \/ Len(w[n].out) = n)
             T == {n \in Nat : n <= Len(found) => Good(n)}
  <1>14. 0 \in T
    BY <1>1, <1>11 DEF Begins
  <1>15. ASSUME NEW n \in Nat, n + 1 <= Len(found), Good(n)
         PROVE  Good(n + 1)
    <2> DEFINE a == w[n]
               e == found[n + 1]
               z == size[found[n + 1]]
    <2>1. n + 1 \in 1..Len(found) /\ (n + 1) - 1 = n /\ n \in 0..Len(found)
      BY <1>1, <1>15
    <2>2. a \in X /\ w[n + 1] = PackedOne(a, e, room, reserve, z) /\ e \in Decoded
      BY <1>1, <1>11, <1>13, <2>1
    <2>3. a.out \in Seq(Decoded) /\ Begins(a.out, found) /\ (a.done \/ Len(a.out) = n)
      BY <1>15, <2>2 DEF X
    <2> HIDE DEF a, z, e
    <2>4. CASE w[n + 1] = [a EXCEPT !.done = TRUE]
      <3>1. w[n + 1].out = a.out /\ w[n + 1].done = TRUE
        BY <2>2, <2>4 DEF X
      <3> QED BY <2>3, <3>1
    <2>5. CASE ~a.done /\ w[n + 1] = [a EXCEPT !.out = Append(a.out, e), !.written = a.written + z]
      <3>1. w[n + 1].out = Append(a.out, e)
        BY <2>2, <2>5 DEF X
      <3>2. /\ Len(a.out) = n /\ Len(Append(a.out, e)) = n + 1 /\ Append(a.out, e)[n + 1] = e
            /\ \A i \in 1..n : Append(a.out, e)[i] = a.out[i]
        BY <2>2, <2>3, <2>5
      <3>3. \A i \in 1..(n + 1) : i \in 1..n \/ i = n + 1
        OBVIOUS
      <3>4. \A i \in 1..(n + 1) : found[i] = Append(a.out, e)[i]
        BY <2>3, <3>2, <3>3 DEF Begins, e
      <3>5. Begins(Append(a.out, e), found)
        BY <1>15, <3>2, <3>4 DEF Begins
      <3> QED BY <3>1, <3>2, <3>5
    <2> QED BY <2>2, <2>4, <2>5 DEF PackedOne
  <1> HIDE DEF Good
  <1>16. \A n \in Nat : n \in T => n + 1 \in T
    BY <1>1, <1>15
  <1>17. \A n \in Nat : n \in T
    <2> HIDE DEF T
    <2> QED BY <1>14, <1>16, Induction
  <1>18. Good(Len(found)) /\ w[Len(found)] \in X
    BY <1>1, <1>13, <1>17
  <1> QED BY <1>10, <1>18 DEF Good, X

LEMMA ComparableOf ==
  ASSUME NEW s \in Seq(Entries), NEW q \in Seq(Decoded), NEW out \in Seq(Decoded),
         Begins(s, q) \/ Begins(q, s), Begins(out, q)
  PROVE  Comparable(s, out)
  <1>1. Len(s) \in Nat /\ Len(q) \in Nat /\ Len(out) \in Nat /\ \A i \in 1..Len(out) : q[i] = out[i]
    BY DEF Begins
  <1>2. CASE Begins(q, s)
    <2>1. Begins(out, s)
      BY <1>2, BeginsOn
    <2> QED BY <2>1, PrefixOf DEF Comparable
  <1>3. CASE Begins(s, q) /\ Len(s) <= Len(out)
    <2>1. \A i \in 1..Len(s) : q[i] = s[i] /\ i \in 1..Len(out)
      BY <1>1, <1>3 DEF Begins
    <2>2. Begins(s, out)
      BY <1>1, <1>3, <2>1 DEF Begins
    <2> QED BY <2>2, PrefixOf DEF Comparable
  <1>4. CASE Begins(s, q) /\ ~(Len(s) <= Len(out))
    <2>1. \A i \in 1..Len(out) : q[i] = s[i]
      BY <1>1, <1>4 DEF Begins
    <2>2. Begins(out, s)
      BY <1>1, <1>4, <2>1 DEF Begins
    <2> QED BY <2>2, PrefixOf DEF Comparable
  <1> QED BY <1>1, <1>2, <1>3, <1>4

LEMMA SizesIn ==
  ASSUME NEW e \in Decoded
  PROVE  RecentSize(e) \in Nat /\ UploadSize(e) \in Nat
  <1> DEFINE t == Len(e.tag)
             g == Len(e.msg)
  <1>1. t \in Nat /\ g \in Nat
    BY DEF Decoded
  <1>2. RecentSize(e) = 3 + t + (IF g > 48 THEN 48 ELSE g) /\ UploadSize(e) = 8 + t + g
    BY DEF RecentSize, RecentMsgMax, UploadSize, Overhead
  <1> HIDE DEF t, g
  <1> QED BY <1>1, <1>2

LEMMA PackedComparable ==
  ASSUME TypeBuffer, FreshPlaced, NEW level, NEW limit \in Nat, NEW room, NEW reserve, NEW size,
         \A e \in Decoded : e \in ToSet(Query(level, limit)) => size[e] \in Nat
  PROVE  Comparable(Wanted(level), Packed(Query(level, limit), room, reserve, size))
  <1> DEFINE q == Query(level, limit)
             s == Wanted(level)
             out == Packed(q, room, reserve, size)
  <1>1. q \in Seq(Decoded) /\ s \in Seq(Entries) /\ (Begins(s, q) \/ Begins(q, s))
    BY QueryFinds
  <1> HIDE DEF q, s
  <1>2. out \in Seq(Decoded) /\ Begins(out, q)
    BY <1>1, PackedFirst DEF q
  <1> HIDE DEF out
  <1>3. Comparable(s, out)
    BY <1>1, <1>2, ComparableOf
  <1> QED BY <1>3 DEF q, s, out

LEMMA FoundWhenPlaced == PInv => FreshIsFound
  <1> SUFFICES ASSUME PInv PROVE FreshIsFound
    OBVIOUS
  <1>1. TypeBuffer /\ FreshPlaced
    BY TypeParts DEF PInv
  <1>2. ASSUME NEW level, NEW limit \in 1..UploadLimit
        PROVE  IsPrefix(SubSeq(Wanted(level), 1, Lesser(limit, Len(Wanted(level)))), Query(level, limit))
    <2> DEFINE q == Query(level, limit)
               s == Wanted(level)
    <2>1. limit \in Nat
      BY BufferAssumption
    <2>2. /\ q \in Seq(Decoded) /\ s \in Seq(Entries)
          /\ IF Len(s) < limit THEN Begins(s, q) ELSE Len(q) = limit /\ Begins(q, s)
      BY <1>1, <2>1, QueryFinds
    <2> HIDE DEF q, s
    <2> DEFINE k == Lesser(limit, Len(s))
    <2>3. k \in Nat /\ k <= Len(s) /\ k <= limit /\ Len(s) \in Nat
      BY <2>1, <2>2 DEF Lesser
    <2>4. /\ k <= Len(q) /\ \A i \in 1..k : q[i] = s[i]
      BY <2>1, <2>2 DEF Begins, Lesser
    <2> HIDE DEF k
    <2>5. SubSeq(s, 1, k) \in Seq(Entries) /\ Len(SubSeq(s, 1, k)) = k
          /\ \A i \in 1..k : SubSeq(s, 1, k)[i] = s[i]
      BY <2>2, <2>3
    <2>6. Begins(SubSeq(s, 1, k), q)
      BY <2>4, <2>5 DEF Begins
    <2>7. IsPrefix(SubSeq(s, 1, k), q)
      BY <2>2, <2>5, <2>6, PrefixOf
    <2> QED BY <2>7 DEF q, s, k
  <1>3. ASSUME NEW level PROVE Comparable(Wanted(level), EncodedUpload(level))
    <2> DEFINE size == [e \in ToSet(Query(level, UploadLimit)) |-> UploadSize(e)]
    <2>1. \A e \in Decoded : e \in ToSet(Query(level, UploadLimit)) => size[e] \in Nat
      BY SizesIn
    <2>2. EncodedUpload(level) = Packed(Query(level, UploadLimit), UploadRoom, UploadReserve, size)
      BY DEF EncodedUpload
    <2> HIDE DEF size
    <2>3. UploadLimit \in Nat
      BY BufferAssumption
    <2> QED BY <1>1, <2>1, <2>2, <2>3, PackedComparable
  <1>4. Comparable(Wanted(Warn), EncodedRecent)
    <2> DEFINE size == [e \in ToSet(Query(Warn, RecentLimit)) |-> RecentSize(e)]
    <2>1. \A e \in Decoded : e \in ToSet(Query(Warn, RecentLimit)) => size[e] \in Nat
      BY SizesIn
    <2>2. EncodedRecent = Packed(Query(Warn, RecentLimit), RecentRoom, RecentReserve, size)
      BY DEF EncodedRecent
    <2> HIDE DEF size
    <2>3. RecentLimit \in Nat
      BY BufferAssumption
    <2> QED BY <1>1, <2>1, <2>2, <2>3, PackedComparable
  <1> QED BY <1>2, <1>3, <1>4 DEF FreshIsFound

(* For any buffer, messages and limits: what was logged since the buffer   *)
(* was begun is found by a query, each entry as it was logged and before   *)
(* what is left of older ones, and what an upload or a heartbeat carries   *)
(* agrees with it.                                                         *)
THEOREM FreshEntriesFound == Spec => []FreshIsFound
  BY PlacedInit, PlacedNext, FoundWhenPlaced, PTL DEF Spec
=============================================================================
