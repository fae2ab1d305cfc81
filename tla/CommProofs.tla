----------------------------- MODULE CommProofs -----------------------------
(***************************************************************************)
(* Proofs about the robot's communication.                                 *)
(*                                                                         *)
(* The first part is about its frames, for commands with any payloads,     *)
(* notifications of any size and buffers of any length: what the encoder   *)
(* writes is read as what it was written from.  The folds of the codec are *)
(* recursive functions; each is tied to its equations once, by a lemma     *)
(* that shows that a function with those equations exists.                 *)
(*                                                                         *)
(* The second part is about the connection manager, for grace periods and  *)
(* a connect timeout of any length.                                        *)
(***************************************************************************)
EXTENDS ConnManagerProps, BcpLinkProps, SequenceTheorems, WellFoundedInduction, TLAPS

-----------------------------------------------------------------------------
(* A recursive function on 0..N has the values that its equations say, and *)
(* what holds at 0 and from one place to the next holds at all.            *)
Less == {ss \in Nat \X Nat : ss[1] < ss[2]}
LEMMA LessWellFounded == IsWellFoundedOn(Less, Nat)
  BY NatLessThanWellFounded DEF OpToRel, Less

LEMMA LeastOf ==
  ASSUME NEW T \in SUBSET Nat, T # {}
  PROVE  \E x \in T : \A y \in T : x <= y
  <1>1. PICK x \in T : \A y \in T : ~ (<<y, x>> \in Less)
    BY LessWellFounded, WFMin
  <1>2. ASSUME NEW y \in T PROVE x <= y
    <2>1. x \in Nat /\ y \in Nat /\ <<y, x>> \notin Less
      BY <1>1
    <2>2. ~ (y < x)
      BY <2>1 DEF Less
    <2> QED BY <2>1, <2>2
  <1> QED BY <1>2

LEMMA Induction ==
  ASSUME NEW T, 0 \in T, \A n \in Nat : n \in T => n + 1 \in T
  PROVE  \A n \in Nat : n \in T
  <1> DEFINE M == Nat \ T
  <1>1. SUFFICES ASSUME M # {} PROVE FALSE
    OBVIOUS
  <1>2. PICK x \in M : \A y \in M : x <= y
    BY <1>1, LeastOf
  <1>3. x # 0 /\ x \in Nat
    BY <1>2
  <1>4. x - 1 \in Nat /\ x - 1 \notin M
    BY <1>2, <1>3
  <1>5. x \in T
    <2>1. x - 1 \in T
      BY <1>4
    <2>2. (x - 1) + 1 \in T
      BY <2>1, <1>4
    <2> QED BY <2>2, <1>3
  <1> QED BY <1>2, <1>5

(* Up to N: T is a set of places.                                          *)
LEMMA InductionTo ==
  ASSUME NEW N \in Nat, NEW T, 0 \in T, \A n \in 0..(N - 1) : n \in T => n + 1 \in T
  PROVE  \A n \in 0..N : n \in T
  <1> DEFINE U == {n \in Nat : n <= N => n \in T}
  <1>1. 0 \in U
    OBVIOUS
  <1>2. ASSUME NEW n \in Nat, n \in U PROVE n + 1 \in U
    <2>1. CASE n + 1 <= N
      <3>1. n \in 0..(N - 1) /\ n \in T
        BY <1>2, <2>1
      <3> QED BY <3>1
    <2>2. CASE ~(n + 1 <= N)
      BY <2>2
    <2> QED BY <2>1, <2>2
  <1> HIDE DEF U
  <1>3. \A n \in Nat : n \in U
    BY <1>1, <1>2, Induction
  <1> QED BY <1>3 DEF U

LEMMA StaysIn ==
  ASSUME NEW N \in Nat, NEW X, NEW w, w[0] \in X,
         \A n \in 1..N : w[n - 1] \in X => w[n] \in X
  PROVE  \A n \in 0..N : w[n] \in X
  <1> DEFINE T == {n \in Nat : w[n] \in X}
  <1>1. 0 \in T
    OBVIOUS
  <1>2. ASSUME NEW n \in 0..(N - 1), n \in T PROVE n + 1 \in T
    <2>1. n + 1 \in 1..N /\ (n + 1) - 1 = n /\ n + 1 \in Nat
      OBVIOUS
    <2>2. w[n + 1] \in X
      BY <1>2, <2>1
    <2> QED BY <2>1, <2>2
  <1> HIDE DEF T
  <1>3. \A n \in 0..N : n \in T
    BY <1>1, <1>2, InductionTo
  <1> QED BY <1>3 DEF T

Unrolls(g, N, X, x, step) ==
  /\ g \in [0..N -> X] /\ g[0] = x
  /\ \A n \in 1..N : g[n - 1] \in X /\ g[n] = step[<<g[n - 1], n>>]

LEMMA Recursion ==
  ASSUME NEW N \in Nat, NEW X, NEW x \in X, NEW step \in [X \X (1..N) -> X]
  PROVE  \E g : Unrolls(g, N, X, x, step)
  <1> DEFINE Upto(m, g) == g[0] = x /\ \A n \in 1..m : g[n] = step[<<g[n - 1], n>>]
             T == {m \in Nat : \E g \in [0..m -> X] : Upto(m, g)}
  <1>1. 0 \in T
    <2>1. [i \in 0..0 |-> x] \in [0..0 -> X] /\ [i \in 0..0 |-> x][0] = x /\ 1..0 = {}
      OBVIOUS
    <2> QED BY <2>1
  <1>2. ASSUME NEW m \in 0..(N - 1), \E g \in [0..m -> X] : Upto(m, g)
        PROVE  \E g \in [0..(m + 1) -> X] : Upto(m + 1, g)
    <2>1. PICK g \in [0..m -> X] : Upto(m, g)
      BY <1>2
    <2> DEFINE v == [i \in 0..(m + 1) |-> IF i <= m THEN g[i] ELSE step[<<g[m], m + 1>>]]
    <2>2. step[<<g[m], m + 1>>] \in X
      <3>1. g[m] \in X /\ m + 1 \in 1..N
        OBVIOUS
      <3> QED BY <3>1
    <2>3. v \in [0..(m + 1) -> X] /\ v[0] = x
      BY <2>1, <2>2
    <2>4. ASSUME NEW n \in 1..(m + 1) PROVE v[n] = step[<<v[n - 1], n>>]
      <3>1. CASE n = m + 1
        <4>1. v[m + 1] = step[<<g[m], m + 1>>] /\ v[m] = g[m] /\ (m + 1) - 1 = m
          OBVIOUS
        <4> HIDE DEF v
        <4> QED BY <3>1, <4>1
      <3>2. CASE n <= m
        <4>1. n \in 1..m /\ n - 1 \in 0..m
          BY <3>2
        <4>2. v[n] = g[n] /\ v[n - 1] = g[n - 1]
          BY <4>1
        <4> QED BY <2>1, <4>1, <4>2
      <3> QED BY <3>1, <3>2
    <2> QED BY <2>3, <2>4
  <1> HIDE DEF Upto
  <1>3. ASSUME NEW m \in 0..(N - 1), m \in T PROVE m + 1 \in T
    BY <1>2, <1>3
  <1>4. \A m \in 0..N : m \in T
    <2> HIDE DEF T
    <2> QED BY <1>1, <1>3, InductionTo
  <1>5. PICK g \in [0..N -> X] : Upto(N, g)
    BY <1>4
  <1>6. \A n \in 1..N : g[n - 1] \in X
    OBVIOUS
  <1> QED BY <1>5, <1>6 DEF Upto, Unrolls

-----------------------------------------------------------------------------
(* Bytes, words and sequences of bytes.                                    *)

LEMMA InWords ==
  ASSUME NEW n \in Nat, n < 256 * 256
  PROVE  n \in Words
  <1> DEFINE top == 256 * 256 - 1
  <1>1. top \in Nat /\ n <= top
    OBVIOUS
  <1>2. Words = 0..top
    BY DEF Words
  <1> HIDE DEF top
  <1> QED BY <1>1, <1>2

LEMMA OfWords ==
  ASSUME NEW n \in Words
  PROVE  /\ n \in Nat /\ n < 256 * 256
         /\ Low(n) \in Octets /\ High(n) \in Octets /\ Low(n) + 256 * High(n) = n
  <1>1. n \in Nat /\ n < 256 * 256
    BY DEF Words
  <1>2. n % 256 \in 0..255 /\ n \div 256 \in Nat /\ (n % 256) + 256 * (n \div 256) = n
    BY <1>1
  <1>3. n \div 256 < 256
    BY <1>1, <1>2
  <1> QED BY <1>1, <1>2, <1>3 DEF Low, High, Octets

LEMMA TwoOctets ==
  ASSUME NEW a \in Octets, NEW b \in Octets
  PROVE  a + 256 * b \in Words
  <1>1. a + 256 * b \in Nat /\ a + 256 * b < 256 * 256
    BY DEF Octets
  <1> QED BY <1>1, InWords

LEMMA OfOctets ==
  ASSUME NEW n \in Octets
  PROVE  n \in Nat /\ n <= 255
  BY DEF Octets

LEMMA OctetIn ==
  ASSUME NEW n \in Nat, n <= 255
  PROVE  n \in Octets
  BY DEF Octets

LEMMA XorByteIn ==
  ASSUME NEW a \in Octets, NEW b \in Octets
  PROVE  XorByte[a][b] \in Octets
  <1> DEFINE bit(w) == w * ((a \div w + b \div w) % 2)
  <1>1. XorByte[a][b] = bit(1) + bit(2) + bit(4) + bit(8) + bit(16) + bit(32) + bit(64) + bit(128)
    BY DEF XorByte
  <1>2. a \in Nat /\ b \in Nat
    BY DEF Octets
  <1>3. bit(1) \in 0..1 /\ bit(2) \in 0..2 /\ bit(4) \in 0..4 /\ bit(8) \in 0..8
    BY <1>2
  <1>4. bit(16) \in 0..16 /\ bit(32) \in 0..32 /\ bit(64) \in 0..64 /\ bit(128) \in 0..128
    BY <1>2
  <1> HIDE DEF bit
  <1>5. PICK k1 \in 0..1, k2 \in 0..2, k4 \in 0..4, k8 \in 0..8 :
          k1 = bit(1) /\ k2 = bit(2) /\ k4 = bit(4) /\ k8 = bit(8)
    BY <1>3
  <1>6. PICK k16 \in 0..16, k32 \in 0..32, k64 \in 0..64, k128 \in 0..128 :
          k16 = bit(16) /\ k32 = bit(32) /\ k64 = bit(64) /\ k128 = bit(128)
    BY <1>4
  <1>7. XorByte[a][b] = k1 + k2 + k4 + k8 + k16 + k32 + k64 + k128
    BY <1>1, <1>5, <1>6
  <1> QED BY <1>7 DEF Octets

LEMMA XorIn ==
  ASSUME NEW a \in Words, NEW b \in Words
  PROVE  Xor(a, b) \in Words
  <1>1. Low(a) \in Octets /\ High(a) \in Octets /\ Low(b) \in Octets /\ High(b) \in Octets
    BY OfWords
  <1>2. XorByte[Low(a)][Low(b)] \in Octets /\ XorByte[High(a)][High(b)] \in Octets
    BY <1>1, XorByteIn
  <1> QED BY <1>2, TwoOctets DEF Xor

LEMMA ShiftedIn ==
  ASSUME NEW c \in Words
  PROVE  Shifted(c) \in Words
  <1>1. c \in Nat
    BY OfWords
  <1>2. CASE c >= 32768
    <2> DEFINE d == (2 * c) % (256 * 256)
    <2>1. d \in Nat /\ d < 256 * 256
      BY <1>1
    <2>2. d \in Words
      <3> HIDE DEF d
      <3> QED BY <2>1, InWords
    <2>3. 4129 \in Words
      BY InWords
    <2>4. Shifted(c) = Xor(d, 4129)
      BY <1>2 DEF Shifted
    <2> HIDE DEF d
    <2> QED BY <2>2, <2>3, <2>4, XorIn
  <1>3. CASE ~(c >= 32768)
    <2>1. 2 * c \in Nat /\ 2 * c < 256 * 256
      BY <1>1, <1>3
    <2>2. Shifted(c) = 2 * c
      BY <1>3 DEF Shifted
    <2> QED BY <2>1, <2>2, InWords
  <1> QED BY <1>2, <1>3

LEMMA CrcTableIn ==
  ASSUME NEW i \in Octets
  PROVE  CrcTable[i] \in Words
  <1> DEFINE twice(c) == Shifted(Shifted(c))
  <1>1. \A c \in Words : twice(c) \in Words
    BY ShiftedIn
  <1>2. 256 * i \in Words
    <2>1. 256 * i \in Nat /\ 256 * i < 256 * 256
      BY DEF Octets
    <2> QED BY <2>1, InWords
  <1>3. CrcTable[i] = twice(twice(twice(twice(256 * i))))
    BY DEF CrcTable
  <1> HIDE DEF twice
  <1> QED BY <1>1, <1>2, <1>3

LEMMA CrcStepIn ==
  ASSUME NEW c \in Words, NEW b \in Octets
  PROVE  CrcStep(c, b) \in Words
  <1>1. Low(c) \in Octets /\ High(c) \in Octets
    BY OfWords
  <1>2. 256 * Low(c) \in Words
    <2>1. 256 * Low(c) \in Nat /\ 256 * Low(c) < 256 * 256
      BY <1>1 DEF Octets
    <2> QED BY <2>1, InWords
  <1>3. CrcTable[XorByte[High(c)][b]] \in Words
    BY <1>1, XorByteIn, CrcTableIn
  <1> QED BY <1>2, <1>3, XorIn DEF CrcStep

LEMMA CrcIn ==
  ASSUME NEW bytes \in Seq(Octets)
  PROVE  Crc(bytes) \in Words
  <1> DEFINE N == Len(bytes)
             x == 65535
             Body(g) == [n \in 0..N |-> IF n = 0 THEN x ELSE CrcStep(g[n - 1], bytes[n])]
             w == CHOOSE g : g = Body(g)
             step == [p \in Words \X (1..N) |-> CrcStep(p[1], bytes[p[2]])]
  <1>1. N \in Nat /\ \A n \in 1..N : bytes[n] \in Octets
    OBVIOUS
  <1>2. x \in Words
    BY InWords
  <1> HIDE DEF N, x
  <1>3. \A c \in Words, n \in 1..N : CrcStep(c, bytes[n]) \in Words
    BY <1>1, CrcStepIn
  <1>4. step \in [Words \X (1..N) -> Words]
    BY <1>3
  <1>5. \A c \in Words, n \in 1..N : step[<<c, n>>] = CrcStep(c, bytes[n])
    OBVIOUS
  <1> HIDE DEF step
  <1>6. PICK g : Unrolls(g, N, Words, x, step)
    BY <1>1, <1>2, <1>4, Recursion
  <1>7. g \in [0..N -> Words] /\ g[0] = x /\ \A n \in 1..N : g[n] = CrcStep(g[n - 1], bytes[n])
    BY <1>5, <1>6 DEF Unrolls
  <1>8. g = Body(g)
    BY <1>1, <1>7
  <1>9. w = Body(w)
    <2> HIDE DEF Body
    <2> QED BY <1>8
  <1>10. Crc(bytes) = w[N]
    BY DEF Crc, N, x
  <1> HIDE DEF w
  <1>11. w[0] = x /\ \A n \in 1..N : w[n] = CrcStep(w[n - 1], bytes[n])
    BY <1>1, <1>9
  <1>12. \A n \in 0..N : w[n] \in Words
    BY <1>1, <1>2, <1>3, <1>11, StaysIn
  <1> QED BY <1>1, <1>10, <1>12

LEMMA Joined ==
  ASSUME NEW S, NEW a \in Seq(S), NEW b \in Seq(S)
  PROVE  /\ a \o b \in Seq(S) /\ Len(a \o b) = Len(a) + Len(b) /\ Len(a) \in Nat /\ Len(b) \in Nat
         /\ \A i \in 1..Len(a) : (a \o b)[i] = a[i]
         /\ \A i \in 1..Len(b) : (a \o b)[Len(a) + i] = b[i]
  <1>1. /\ a \o b \in Seq(S) /\ Len(a \o b) = Len(a) + Len(b) /\ Len(a) \in Nat /\ Len(b) \in Nat
        /\ \A i \in 1..(Len(a) + Len(b)) : (a \o b)[i] = IF i <= Len(a) THEN a[i] ELSE b[i - Len(a)]
    BY ConcatProperties
  <1>2. ASSUME NEW i \in 1..Len(a) PROVE (a \o b)[i] = a[i]
    BY <1>1
  <1>3. ASSUME NEW i \in 1..Len(b) PROVE (a \o b)[Len(a) + i] = b[i]
    <2>1. Len(a) + i \in 1..(Len(a) + Len(b)) /\ ~(Len(a) + i <= Len(a)) /\ (Len(a) + i) - Len(a) = i
      BY <1>1
    <2> QED BY <1>1, <2>1
  <1> QED BY <1>1, <1>2, <1>3

(* What pieces are together, prefix by prefix.                             *)
FlatWalk(w, s) ==
  /\ w \in [0..Len(s) -> Seq(Octets)] /\ w[0] = <<>>
  /\ \A n \in 1..Len(s) : w[n] = w[n - 1] \o s[n]
  /\ FlattenSeq(s) = w[Len(s)]

LEMMA FlatWalks ==
  ASSUME NEW s \in Seq(Seq(Octets))
  PROVE  \E w : FlatWalk(w, s)
  <1> DEFINE N == Len(s)
             X == Seq(Octets)
             Body(g) == [i \in 1..N |-> IF i = 1 THEN s[i] ELSE g[i - 1] \o s[i]]
             u == CHOOSE g : g = Body(g)
             step == [p \in X \X (1..N) |-> p[1] \o s[p[2]]]
             w == [n \in 0..N |-> IF n = 0 THEN <<>> ELSE u[n]]
  <1>1. N \in Nat /\ \A n \in 1..N : s[n] \in X
    OBVIOUS
  <1>2. <<>> \in X /\ \A a \in X : <<>> \o a = a
    BY ConcatEmptySeq
  <1>3. \A a, b \in X : a \o b \in X
    BY ConcatProperties
  <1>4. FlattenSeq(s) = IF N = 0 THEN s ELSE u[N]
    BY DEF FlattenSeq
  <1>5. N = 0 => s = <<>>
    OBVIOUS
  <1> HIDE DEF N, X
  <1>6. step \in [X \X (1..N) -> X]
    BY <1>1, <1>3
  <1>7. \A a \in X, n \in 1..N : step[<<a, n>>] = a \o s[n]
    OBVIOUS
  <1> HIDE DEF step
  <1>8. PICK g : Unrolls(g, N, X, <<>>, step)
    BY <1>1, <1>2, <1>6, Recursion
  <1>9. g \in [0..N -> X] /\ g[0] = <<>> /\ \A n \in 1..N : g[n] = g[n - 1] \o s[n]
    BY <1>7, <1>8 DEF Unrolls
  <1> DEFINE h == [i \in 1..N |-> g[i]]
  <1>10. h = Body(h)
    <2> SUFFICES ASSUME NEW i \in 1..N
                 PROVE  g[i] = IF i = 1 THEN s[i] ELSE h[i - 1] \o s[i]
      OBVIOUS
    <2>1. CASE i = 1
      <3>1. g[1] = g[0] \o s[1]
        <4>1. 1 \in 1..N /\ 1 - 1 = 0
          BY <2>1
        <4> QED BY <1>9, <4>1
      <3> QED BY <1>1, <1>2, <1>9, <2>1, <3>1
    <2>2. CASE i # 1
      <3>1. i - 1 \in 1..N
        BY <1>1, <2>2
      <3>2. h[i - 1] = g[i - 1]
        BY <3>1
      <3> QED BY <1>9, <2>2, <3>2
    <2> QED BY <2>1, <2>2
  <1> HIDE DEF h
  <1>11. u = Body(u)
    <2> HIDE DEF Body
    <2> QED BY <1>10
  <1> HIDE DEF u
  <1>12. \A i \in 1..N : u[i] = IF i = 1 THEN s[i] ELSE u[i - 1] \o s[i]
    BY <1>11
  <1>13. w[0] = <<>> /\ \A n \in 1..N : w[n] = u[n]
    BY <1>1
  <1>14. ASSUME NEW n \in 1..N PROVE w[n] = w[n - 1] \o s[n]
    <2>1. CASE n = 1
      <3>1. n - 1 = 0 /\ s[n] \in X
        BY <1>1, <2>1
      <3> QED BY <1>2, <1>12, <1>13, <2>1, <3>1
    <2>2. CASE n # 1
      <3>1. n - 1 \in 1..N
        BY <1>1, <2>2
      <3>2. w[n - 1] = u[n - 1] /\ w[n] = u[n]
        BY <1>13, <3>1
      <3> QED BY <1>12, <2>2, <3>2
    <2> QED BY <2>1, <2>2
  <1>15. w = [n \in 0..N |-> w[n]]
    BY <1>1
  <1>16. FlattenSeq(s) = w[N]
    <2>1. CASE N = 0
      BY <1>4, <1>5, <1>13, <2>1
    <2>2. CASE N # 0
      <3>1. N \in 1..N
        BY <1>1, <2>2
      <3> QED BY <1>4, <1>13, <2>2, <3>1
    <2> QED BY <2>1, <2>2
  <1> HIDE DEF w
  <1>17. \A n \in 0..N : w[n] \in X
    <2>1. ASSUME NEW n \in 1..N, w[n - 1] \in X PROVE w[n] \in X
      <3>1. s[n] \in X
        BY <1>1
      <3> QED BY <1>3, <1>14, <2>1, <3>1
    <2>2. w[0] \in X
      BY <1>2, <1>13
    <2> QED BY <1>1, <2>1, <2>2, StaysIn
  <1>18. w \in [0..N -> X]
    BY <1>15, <1>17
  <1> QED BY <1>13, <1>14, <1>16, <1>18 DEF FlatWalk, N, X

LEMMA FlatIn ==
  ASSUME NEW s \in Seq(Seq(Octets))
  PROVE  FlattenSeq(s) \in Seq(Octets) /\ (s = <<>> => FlattenSeq(s) = <<>>)
  <1>1. PICK w : FlatWalk(w, s)
    BY FlatWalks
  <1>2. Len(s) \in Nat /\ (s = <<>> => Len(s) = 0)
    OBVIOUS
  <1>3. Len(s) \in 0..Len(s)
    BY <1>2
  <1> QED BY <1>1, <1>2, <1>3 DEF FlatWalk

LEMMA FlatAppend ==
  ASSUME NEW s \in Seq(Seq(Octets)), NEW c \in Seq(Octets)
  PROVE  FlattenSeq(Append(s, c)) = FlattenSeq(s) \o c
  <1> DEFINE t == Append(s, c)
             N == Len(s)
  <1>1. /\ t \in Seq(Seq(Octets)) /\ Len(t) = N + 1 /\ N \in Nat /\ t[N + 1] = c
        /\ \A i \in 1..N : t[i] = s[i]
    BY AppendProperties
  <1>2. PICK v : FlatWalk(v, s)
    BY FlatWalks
  <1>3. PICK w : FlatWalk(w, t)
    BY <1>1, FlatWalks
  <1> HIDE DEF t, N
  <1> DEFINE T == {n \in Nat : w[n] = v[n]}
  <1>4. 0 \in T
    BY <1>2, <1>3 DEF FlatWalk
  <1>5. ASSUME NEW n \in 0..(N - 1), n \in T PROVE n + 1 \in T
    <2>1. n + 1 \in 1..N /\ n + 1 \in 1..Len(t) /\ (n + 1) - 1 = n /\ n + 1 \in Nat
      BY <1>1
    <2>2. v[n + 1] = v[n] \o s[n + 1]
      BY <1>2, <2>1 DEF FlatWalk, N
    <2>3. w[n + 1] = w[n] \o t[n + 1]
      BY <1>3, <2>1 DEF FlatWalk
    <2> QED BY <1>1, <1>5, <2>1, <2>2, <2>3
  <1> HIDE DEF T
  <1>6. N \in T
    <2>1. \A n \in 0..N : n \in T
      BY <1>1, <1>4, <1>5, InductionTo
    <2> QED BY <1>1, <2>1
  <1>7. w[N + 1] = w[N] \o c
    <2>1. N + 1 \in 1..Len(t) /\ (N + 1) - 1 = N
      BY <1>1
    <2>2. w[N + 1] = w[(N + 1) - 1] \o t[N + 1]
      BY <1>3, <2>1 DEF FlatWalk
    <2> QED BY <1>1, <2>1, <2>2
  <1>8. FlattenSeq(s) = v[N] /\ FlattenSeq(t) = w[N + 1]
    BY <1>1, <1>2, <1>3 DEF FlatWalk, N
  <1> QED BY <1>6, <1>7, <1>8 DEF T, t

LEMMA FlatOne ==
  ASSUME NEW b \in Seq(Octets)
  PROVE  FlattenSeq(<<b>>) = b
  <1>1. <<>> \in Seq(Seq(Octets)) /\ Append(<<>>, b) = <<b>>
    OBVIOUS
  <1>2. FlattenSeq(<<b>>) = FlattenSeq(<<>>) \o b
    BY <1>1, FlatAppend
  <1>3. FlattenSeq(<<>>) = <<>>
    BY <1>1, FlatIn
  <1> QED BY <1>2, <1>3, ConcatEmptySeq

(* ble_send_frame's fragments are the bytes, none missing and none twice.  *)
ChunkSize(bytes, done) == IF Len(bytes) - done > Mtu THEN Mtu ELSE Len(bytes) - done
Chunked(bytes, a) ==
  IF a.done = Len(bytes) THEN a
  ELSE [done |-> a.done + ChunkSize(bytes, a.done),
        chunks |-> Append(a.chunks, SubSeq(bytes, a.done + 1, a.done + ChunkSize(bytes, a.done)))]
Chunkings(bytes) ==
  {a \in [done : 0..Len(bytes), chunks : Seq(Seq(Octets))] :
     FlattenSeq(a.chunks) = SubSeq(bytes, 1, a.done)}

LEMMA ChunkedIn ==
  ASSUME NEW bytes \in Seq(Octets), NEW a \in Chunkings(bytes)
  PROVE  /\ Chunked(bytes, a) \in Chunkings(bytes)
         /\ a.done # Len(bytes) => Chunked(bytes, a).done >= a.done + 1
         /\ a.done = Len(bytes) => Chunked(bytes, a).done = Len(bytes)
  <1>1. CASE a.done = Len(bytes)
    BY <1>1 DEF Chunked
  <1>2. CASE a.done # Len(bytes)
    <2> DEFINE N == Len(bytes)
               d == a.done
               size == ChunkSize(bytes, d)
               piece == SubSeq(bytes, d + 1, d + size)
    <2>1. N \in Nat /\ d \in 0..N /\ d # N /\ a.chunks \in Seq(Seq(Octets))
          /\ FlattenSeq(a.chunks) = SubSeq(bytes, 1, d)
      BY <1>2 DEF Chunkings
    <2>2. size = IF N - d > Mtu THEN Mtu ELSE N - d
      BY DEF ChunkSize
    <2>3. Chunked(bytes, a) = [done |-> d + size, chunks |-> Append(a.chunks, piece)]
      BY <1>2 DEF Chunked
    <2> HIDE DEF size, d, N
    <2>4. Mtu \in Nat \ {0}
      BY LinkAssumption
    <2>5. size \in 1..N /\ d + size \in 0..N /\ d + size >= d + 1
      BY <2>1, <2>2, <2>4
    <2>6. piece \in Seq(Octets)
      <3>1. \A i \in (d + 1)..(d + size) : bytes[i] \in Octets
        <4>1. \A i \in (d + 1)..(d + size) : i \in 1..N
          BY <2>1, <2>5
        <4> QED BY <4>1 DEF N
      <3>2. d + 1 \in Int /\ d + size \in Int
        BY <2>1, <2>5
      <3> QED BY <3>1, <3>2, SubSeqProperties
    <2>7. FlattenSeq(Append(a.chunks, piece)) = SubSeq(bytes, 1, d) \o piece
      BY <2>1, <2>6, FlatAppend
    <2>8. SubSeq(bytes, 1, d) \o piece = SubSeq(bytes, 1, d + size)
      <3>1. 1 \in 1..(N + 1) /\ d \in (1 - 1)..N /\ d + size \in d..N
        BY <2>1, <2>5
      <3> QED BY <3>1, ConcatAdjacentSubSeq DEF N
    <2>9. Append(a.chunks, piece) \in Seq(Seq(Octets))
      BY <2>1, <2>6
    <2> HIDE DEF piece
    <2>10. Chunked(bytes, a) \in Chunkings(bytes)
      <3>1. Chunked(bytes, a) \in [done : 0..Len(bytes), chunks : Seq(Seq(Octets))]
        BY <2>3, <2>5, <2>9 DEF N
      <3>2. FlattenSeq(Chunked(bytes, a).chunks) = SubSeq(bytes, 1, Chunked(bytes, a).done)
        <4>1. Chunked(bytes, a).chunks = Append(a.chunks, piece) /\ Chunked(bytes, a).done = d + size
          BY <2>3
        <4> QED BY <2>7, <2>8, <4>1
      <3> QED BY <3>1, <3>2 DEF Chunkings
    <2>11. Chunked(bytes, a).done = d + size
      BY <2>3
    <2> QED BY <1>2, <2>5, <2>10, <2>11 DEF d
  <1> QED BY <1>1, <1>2

THEOREM ChunksTogether ==
  ASSUME NEW bytes \in Seq(Octets)
  PROVE  Chunks(bytes) \in Seq(Seq(Octets)) /\ FlattenSeq(Chunks(bytes)) = bytes
  <1> DEFINE N == Len(bytes)
             X == Chunkings(bytes)
             x == [done |-> 0, chunks |-> <<>>]
             Body(g) == [n \in 0..N |-> IF n = 0 THEN x ELSE Chunked(bytes, g[n - 1])]
             w == CHOOSE g : g = Body(g)
             step == [p \in X \X (1..N) |-> Chunked(bytes, p[1])]
  <1>1. N \in Nat
    OBVIOUS
  <1>2. x \in X
    <2>1. <<>> \in Seq(Seq(Octets))
      OBVIOUS
    <2>2. FlattenSeq(<<>>) = <<>>
      BY <2>1, FlatIn
    <2>3. SubSeq(bytes, 1, 0) = <<>>
      BY SubSeqEmpty
    <2>4. x.done = 0 /\ x.chunks = <<>> /\ x \in [done : 0..N, chunks : Seq(Seq(Octets))]
      BY <1>1, <2>1
    <2> HIDE DEF x
    <2>5. FlattenSeq(x.chunks) = SubSeq(bytes, 1, x.done)
      BY <2>2, <2>3, <2>4
    <2> QED BY <2>4, <2>5 DEF Chunkings
  <1>3. Chunks(bytes) = w[N].chunks
    BY DEF Chunks, Chunked, ChunkSize
  <1>4. \A a \in X : Chunked(bytes, a) \in X
    BY ChunkedIn
  <1> HIDE DEF N, X, x
  <1>5. step \in [X \X (1..N) -> X]
    BY <1>4
  <1>6. \A a \in X, n \in 1..N : step[<<a, n>>] = Chunked(bytes, a)
    OBVIOUS
  <1> HIDE DEF step
  <1>7. PICK g : Unrolls(g, N, X, x, step)
    BY <1>1, <1>2, <1>5, Recursion
  <1>8. g \in [0..N -> X] /\ g[0] = x /\ \A n \in 1..N : g[n] = Chunked(bytes, g[n - 1])
    BY <1>6, <1>7 DEF Unrolls
  <1>9. g = Body(g)
    BY <1>1, <1>8
  <1>10. w = Body(w)
    <2> HIDE DEF Body
    <2> QED BY <1>9
  <1> HIDE DEF w
  <1>11. w[0] = x /\ \A n \in 1..N : w[n] = Chunked(bytes, w[n - 1])
    BY <1>1, <1>10
  <1>12. \A n \in 0..N : w[n] \in X
    <2>1. w[0] \in X
      BY <1>2, <1>11
    <2>2. \A n \in 1..N : w[n - 1] \in X => w[n] \in X
      BY <1>4, <1>11
    <2> QED BY <1>1, <2>1, <2>2, StaysIn
  <1> DEFINE T == {n \in Nat : w[n].done >= n}
  <1>13. 0 \in T
    <2>1. w[0].done = 0
      BY <1>11 DEF x
    <2> QED BY <2>1
  <1>14. ASSUME NEW n \in 0..(N - 1), n \in T PROVE n + 1 \in T
    <2>1. n + 1 \in 1..N /\ (n + 1) - 1 = n /\ n + 1 \in Nat /\ n \in 0..N
      BY <1>1
    <2>2. w[n + 1] = Chunked(bytes, w[n]) /\ w[n] \in Chunkings(bytes) /\ w[n].done >= n
      BY <1>11, <1>12, <1>14, <2>1 DEF X
    <2> DEFINE d == w[n].done
               e == w[n + 1].done
    <2>3. d \in 0..N /\ (d # N => e >= d + 1) /\ (d = N => e = N) /\ d >= n
      <3>1. d \in 0..N
        BY <2>2 DEF Chunkings, N
      <3>2. (d # N => e >= d + 1) /\ (d = N => e = N)
        BY <2>2, ChunkedIn DEF N
      <3> QED BY <2>2, <3>1, <3>2
    <2>4. e \in 0..N
      BY <1>12, <2>1 DEF Chunkings, N, X
    <2> HIDE DEF d, e
    <2>5. e >= n + 1
      BY <1>1, <2>3, <2>4
    <2> QED BY <2>1, <2>5 DEF e
  <1> HIDE DEF T
  <1>15. \A n \in 0..N : n \in T
    BY <1>1, <1>13, <1>14, InductionTo
  <1>16. N \in 0..N
    BY <1>1
  <1>17. w[N] \in Chunkings(bytes) /\ w[N].done >= N
    BY <1>12, <1>15, <1>16 DEF X, T
  <1> DEFINE a == w[N]
  <1>18. a.chunks \in Seq(Seq(Octets)) /\ a.done \in 0..N /\ a.done >= N
         /\ FlattenSeq(a.chunks) = SubSeq(bytes, 1, a.done)
    BY <1>17 DEF Chunkings, N
  <1>19. a.done = N
    <2> DEFINE d == a.done
    <2>1. d \in 0..N /\ d >= N
      BY <1>18
    <2> HIDE DEF d
    <2>2. d = N
      BY <1>1, <2>1
    <2> QED BY <2>2 DEF d
  <1>20. SubSeq(bytes, 1, N) = bytes
    BY SubSeqFull DEF N
  <1> QED BY <1>3, <1>18, <1>19, <1>20

-----------------------------------------------------------------------------
(* The tables of the codec.                                                *)

LEMMA FixedLenIn ==
  ASSUME NEW id \in DOMAIN FixedLen
  PROVE  FixedLen[id] \in 0..20
  BY DEF FixedLen

LEMMA TypedLayout ==
  ASSUME NEW id \in Typed
  PROVE  /\ id \in DOMAIN FixedLen /\ FixedLen[id] = Len(Layout[id])
         /\ Layout[id] \in Seq(1..14)
  <1>1. id \in {"HEARTBEAT", "REGISTER", "REG_ACK", "MOVE", "MOVE_TO", "STOP", "SERVO_SET", "HEAD_PAN_TILT",
               "LED_SET", "LED_PATTERN", "FACE_EXPR", "MOTION_EVENT", "AUDIO_EVENT", "TOUCH_EVENT",
               "OBSTACLE", "TASK_STATUS", "ENV_DATA", "IMU_DATA"}
    BY DEF Typed, Layout
  <1>2. id \in DOMAIN FixedLen
    BY <1>1 DEF FixedLen
  <1>3. CASE id = "HEARTBEAT"
    BY <1>2, <1>3 DEF FixedLen, Layout
  <1>4. CASE id = "REGISTER"
    BY <1>2, <1>4 DEF FixedLen, Layout
  <1>5. CASE id = "REG_ACK"
    BY <1>2, <1>5 DEF FixedLen, Layout
  <1>6. CASE id = "MOVE"
    BY <1>2, <1>6 DEF FixedLen, Layout
  <1>7. CASE id = "MOVE_TO"
    BY <1>2, <1>7 DEF FixedLen, Layout
  <1>8. CASE id = "STOP"
    BY <1>2, <1>8 DEF FixedLen, Layout
  <1>9. CASE id = "SERVO_SET"
    BY <1>2, <1>9 DEF FixedLen, Layout
  <1>10. CASE id = "HEAD_PAN_TILT"
    BY <1>2, <1>10 DEF FixedLen, Layout
  <1>11. CASE id = "LED_SET"
    BY <1>2, <1>11 DEF FixedLen, Layout
  <1>12. CASE id = "LED_PATTERN"
    BY <1>2, <1>12 DEF FixedLen, Layout
  <1>13. CASE id = "FACE_EXPR"
    BY <1>2, <1>13 DEF FixedLen, Layout
  <1>14. CASE id = "MOTION_EVENT"
    BY <1>2, <1>14 DEF FixedLen, Layout
  <1>15. CASE id = "AUDIO_EVENT"
    BY <1>2, <1>15 DEF FixedLen, Layout
  <1>16. CASE id = "TOUCH_EVENT"
    BY <1>2, <1>16 DEF FixedLen, Layout
  <1>17. CASE id = "OBSTACLE"
    BY <1>2, <1>17 DEF FixedLen, Layout
  <1>18. CASE id = "TASK_STATUS"
    BY <1>2, <1>18 DEF FixedLen, Layout
  <1>19. CASE id = "ENV_DATA"
    BY <1>2, <1>19 DEF FixedLen, Layout
  <1>20. CASE id = "IMU_DATA"
    BY <1>2, <1>20 DEF FixedLen, Layout
  <1> QED
    BY <1>1, <1>3, <1>4, <1>5, <1>6, <1>7, <1>8, <1>9, <1>10, <1>11,
       <1>12, <1>13, <1>14, <1>15, <1>16, <1>17, <1>18, <1>19, <1>20

LEMMA IdIn ==
  ASSUME NEW id \in DOMAIN Id
  PROVE  Id[id] \in Words
  <1>1. Id[id] \in 1..1300
    BY DEF Id
  <1>2. Id[id] \in Nat /\ Id[id] < 256 * 256
    BY <1>1
  <1> QED BY <1>2, InWords

LEMMA IdsApart ==
  ASSUME NEW a \in DOMAIN Id, NEW b \in DOMAIN Id, Id[a] = Id[b]
  PROVE  a = b
  BY DEF Id

LEMMA NameOfId ==
  ASSUME NEW id \in DOMAIN Id
  PROVE  NameOf(Id[id]) = id
  BY IdsApart DEF NameOf

LEMMA NameIn ==
  ASSUME NEW n
  PROVE  NameOf(n) \in DOMAIN Id \cup {Unknown}
  BY DEF NameOf

(* What the samples promise.                                               *)
LEMMA SampleIs ==
  ASSUME NEW c \in Samples
  PROVE  /\ c \in Commands /\ c.id \in DOMAIN Id /\ Fillable(c)
         /\ c.len \in Octets /\ c.raw \in [1..UnionLen -> Octets]
         /\ UnionLen \in Nat /\ 14 <= UnionLen
  BY LinkAssumption, CodecAssumption DEF Commands

LEMMA PayloadLenIn ==
  ASSUME NEW c \in Samples
  PROVE  PayloadLen(c) \in Octets
  <1>1. CASE c.id \in DOMAIN FixedLen
    <2>1. PayloadLen(c) = FixedLen[c.id]
      BY <1>1 DEF PayloadLen
    <2>2. FixedLen[c.id] \in 0..20
      BY <1>1, FixedLenIn
    <2> QED BY <2>1, <2>2 DEF Octets
  <1>2. CASE c.id \notin DOMAIN FixedLen
    <2>1. PayloadLen(c) = IF c.id \in Sized THEN c.len ELSE 0
      BY <1>2 DEF PayloadLen
    <2>2. c.len \in Octets
      BY SampleIs
    <2> QED BY <2>1, <2>2 DEF Octets
  <1> QED BY <1>1, <1>2

(* The bytes of a payload, one by one, for as long as it is on the wire.   *)
PayloadByte(c, k) ==
  IF c.id \in Typed THEN c.raw[Layout[c.id][k]] ELSE IF c.id \in Blank THEN 0 ELSE c.raw[k]

LEMMA PayloadIs ==
  ASSUME NEW c \in Samples
  PROVE  LET p == SubSeq(EncodedPayload(c), 1, PayloadLen(c))
         IN  /\ p \in Seq(Octets) /\ Len(p) = PayloadLen(c)
             /\ \A k \in 1..PayloadLen(c) : p[k] = PayloadByte(c, k)
  <1> DEFINE n == PayloadLen(c)
             e == EncodedPayload(c)
  <1>1. n \in Nat
    BY PayloadLenIn DEF Octets
  <1>2. ASSUME NEW k \in 1..n PROVE e[k] = PayloadByte(c, k) /\ e[k] \in Octets
    <2>1. CASE c.id \in Typed
      <3>1. c.id \in DOMAIN FixedLen /\ FixedLen[c.id] = Len(Layout[c.id]) /\ Layout[c.id] \in Seq(1..14)
        BY <2>1, TypedLayout
      <3>2. n = Len(Layout[c.id])
        BY <3>1 DEF PayloadLen
      <3>3. e = [j \in 1..Len(Layout[c.id]) |-> c.raw[Layout[c.id][j]]]
        BY <2>1 DEF EncodedPayload
      <3> HIDE DEF n, e
      <3>4. e[k] = c.raw[Layout[c.id][k]]
        BY <3>2, <3>3
      <3>5. Layout[c.id][k] \in 1..14
        BY <3>1, <3>2
      <3>6. Layout[c.id][k] \in 1..UnionLen
        BY <3>5, SampleIs
      <3>7. e[k] \in Octets
        BY <3>4, <3>6, SampleIs
      <3> QED BY <2>1, <3>4, <3>7 DEF PayloadByte
    <2>2. CASE c.id \notin Typed /\ c.id \in Blank
      <3>1. e = [j \in 1..n |-> 0]
        BY <2>2 DEF EncodedPayload
      <3> HIDE DEF n, e
      <3>2. e[k] = 0
        BY <3>1
      <3> QED BY <2>2, <3>2 DEF PayloadByte, Octets
    <2>3. CASE c.id \notin Typed /\ c.id \notin Blank
      <3>1. e = SubSeq(c.raw, 1, c.len)
        BY <2>3 DEF EncodedPayload
      <3>2. n <= c.len /\ c.len <= UnionLen
        BY <2>3, SampleIs DEF Fillable
      <3>3. c.len \in Nat /\ UnionLen \in Nat /\ \A i \in 1..UnionLen : c.raw[i] \in Octets
        <4>1. c.len \in Octets /\ c.raw \in [1..UnionLen -> Octets] /\ UnionLen \in Nat
          BY SampleIs
        <4>2. c.len \in Nat
          BY <4>1, OfOctets
        <4> QED BY <4>1, <4>2
      <3> HIDE DEF n, e
      <3>4. \A i \in 1..c.len : c.raw[i] \in Octets
        <4>1. \A i \in 1..c.len : i \in 1..UnionLen
          BY <3>2, <3>3
        <4> QED BY <3>3, <4>1
      <3>5. \A i \in 1..c.len : e[i] = c.raw[i]
        <4>1. 1 \in Int /\ c.len \in Int /\ c.len - 1 + 1 = c.len
          BY <3>3
        <4>2. \A i \in 1..(c.len - 1 + 1) : e[i] = c.raw[1 + i - 1]
          BY <3>1, <3>4, <4>1, SubSeqProperties
        <4>3. \A i \in 1..c.len : 1 + i - 1 = i
          BY <3>3
        <4> QED BY <4>1, <4>2, <4>3
      <3>6. k \in 1..c.len
        BY <1>1, <3>2, <3>3
      <3>7. e[k] = c.raw[k] /\ c.raw[k] \in Octets
        BY <3>4, <3>5, <3>6
      <3> QED BY <2>3, <3>7 DEF PayloadByte
    <2> QED BY <2>1, <2>2, <2>3
  <1> HIDE DEF n, e
  <1> DEFINE p == SubSeq(e, 1, n)
  <1>3. p \in Seq(Octets) /\ Len(p) = (IF 1 <= n THEN n - 1 + 1 ELSE 0) /\ \A i \in 1..(n - 1 + 1) : p[i] = e[1 + i - 1]
    <2>1. 1 \in Int /\ n \in Int /\ \A i \in 1..n : e[i] \in Octets
      BY <1>1, <1>2
    <2> QED BY <2>1, SubSeqProperties
  <1> HIDE DEF p
  <1>4. Len(p) = n
    BY <1>1, <1>3
  <1>5. \A k \in 1..n : p[k] = e[k]
    <2>1. n - 1 + 1 = n /\ \A k \in 1..n : 1 + k - 1 = k
      BY <1>1
    <2> QED BY <1>3, <2>1
  <1> QED BY <1>2, <1>3, <1>4, <1>5 DEF p, n, e

LEMMA CommandIs ==
  ASSUME NEW c \in Samples
  PROVE  LET e == EncodedCommand(c)
             n == PayloadLen(c)
         IN  /\ e \in Seq(Octets) /\ Len(e) = 3 + n
             /\ e[1] + 256 * e[2] = Id[c.id] /\ e[3] = n
             /\ \A k \in 1..n : e[3 + k] = PayloadByte(c, k)
  <1> DEFINE n == PayloadLen(c)
             code == Id[c.id]
             head == <<Low(code), High(code), n>>
             p == SubSeq(EncodedPayload(c), 1, n)
             e == head \o p
  <1>1. EncodedCommand(c) = e
    BY DEF EncodedCommand
  <1>2. code \in Words
    BY SampleIs, IdIn
  <1>3. n \in Octets /\ n \in Nat
    BY PayloadLenIn DEF Octets
  <1>4. p \in Seq(Octets) /\ Len(p) = n /\ \A k \in 1..n : p[k] = PayloadByte(c, k)
    BY PayloadIs
  <1> HIDE DEF code, n, p
  <1>5. Low(code) \in Octets /\ High(code) \in Octets /\ Low(code) + 256 * High(code) = code
    BY <1>2, OfWords
  <1>6. head \in Seq(Octets) /\ Len(head) = 3 /\ head[1] = Low(code) /\ head[2] = High(code) /\ head[3] = n
    BY <1>3, <1>5
  <1> HIDE DEF head
  <1>7. /\ e \in Seq(Octets) /\ Len(e) = Len(head) + Len(p)
        /\ \A i \in 1..Len(head) : e[i] = head[i]
        /\ \A i \in 1..Len(p) : e[Len(head) + i] = p[i]
    <2>1. head \in Seq(Octets) /\ p \in Seq(Octets)
      BY <1>4, <1>6
    <2> QED BY <2>1, Joined
  <1> HIDE DEF e
  <1>8. e[1] = head[1] /\ e[2] = head[2] /\ e[3] = head[3]
    BY <1>6, <1>7
  <1>9. \A k \in 1..n : e[3 + k] = PayloadByte(c, k)
    BY <1>4, <1>6, <1>7
  <1>10. Len(e) = 3 + n
    BY <1>4, <1>6, <1>7
  <1>11. e[1] + 256 * e[2] = code /\ e[3] = n
    BY <1>5, <1>6, <1>8
  <1> QED BY <1>1, <1>7, <1>9, <1>10, <1>11 DEF n, code

(* The length of a frame, command by command.                              *)
LenWalk(w, f) ==
  /\ w \in [0..Len(f.cmds) -> Nat] /\ w[0] = 10
  /\ \A n \in 1..Len(f.cmds) : w[n] = w[n - 1] + 3 + PayloadLen(f.cmds[n])
  /\ WireLen(f) = w[Len(f.cmds)]

LEMMA FilledIs ==
  ASSUME NEW f \in Filled
  PROVE  /\ f.seq \in Seqs /\ f.seq \in Words /\ f.flags = 0 /\ f.cmds \in Seq(Samples)
         /\ Len(f.cmds) \in Nat /\ Len(f.cmds) <= MaxCmds /\ Len(f.cmds) \in Octets
         /\ \A n \in 1..Len(f.cmds) : f.cmds[n] \in Samples
  <1>1. f.seq \in Seqs /\ f.seq \in Words /\ f.flags = 0 /\ f.cmds \in Seq(Samples) /\ Len(f.cmds) <= MaxCmds
    BY LinkAssumption DEF Filled
  <1>2. Len(f.cmds) \in Nat /\ \A n \in 1..Len(f.cmds) : f.cmds[n] \in Samples
    BY <1>1
  <1>3. Len(f.cmds) \in Octets
    <2> DEFINE k == Len(f.cmds)
    <2>1. k \in Nat /\ k <= MaxCmds
      BY <1>1, <1>2
    <2> HIDE DEF k
    <2>2. k \in Octets
      BY <2>1, CodecAssumption DEF Octets
    <2> QED BY <2>2 DEF k
  <1> QED BY <1>1, <1>2, <1>3

LEMMA LenWalks ==
  ASSUME NEW f \in Filled
  PROVE  \E w : LenWalk(w, f)
  <1> DEFINE N == Len(f.cmds)
             Body(g) == [n \in 0..N |-> IF n = 0 THEN MinFrameLen
                                        ELSE g[n - 1] + CmdHeaderLen + PayloadLen(f.cmds[n])]
             w == CHOOSE g : g = Body(g)
             step == [p \in Nat \X (1..N) |-> p[1] + 3 + PayloadLen(f.cmds[p[2]])]
  <1>1. N \in Nat
    BY FilledIs
  <1>2. \A n \in 1..N : PayloadLen(f.cmds[n]) \in Nat
    <2> SUFFICES ASSUME NEW n \in 1..N PROVE PayloadLen(f.cmds[n]) \in Nat
      OBVIOUS
    <2>1. f.cmds[n] \in Samples
      BY FilledIs
    <2>2. PayloadLen(f.cmds[n]) \in Octets
      BY <2>1, PayloadLenIn
    <2> QED BY <2>2, OfOctets
  <1>3. WireLen(f) = w[N]
    BY DEF WireLen
  <1> HIDE DEF N
  <1>4. step \in [Nat \X (1..N) -> Nat]
    BY <1>2
  <1>5. \A a \in Nat, n \in 1..N : step[<<a, n>>] = a + 3 + PayloadLen(f.cmds[n])
    OBVIOUS
  <1> HIDE DEF step
  <1>6. PICK g : Unrolls(g, N, Nat, 10, step)
    <2>1. 10 \in Nat
      OBVIOUS
    <2> QED BY <1>1, <1>4, <2>1, Recursion
  <1>7. g \in [0..N -> Nat] /\ g[0] = 10 /\ \A n \in 1..N : g[n] = g[n - 1] + 3 + PayloadLen(f.cmds[n])
    BY <1>5, <1>6 DEF Unrolls
  <1>8. MinFrameLen = 10 /\ CmdHeaderLen = 3
    BY DEF MinFrameLen, HeaderLen, CrcLen, CmdHeaderLen
  <1>9. g = Body(g)
    BY <1>1, <1>7, <1>8
  <1>10. w = Body(w)
    <2> HIDE DEF Body
    <2> QED BY <1>9
  <1> HIDE DEF w
  <1>11. w[0] = 10 /\ \A n \in 1..N : w[n] = w[n - 1] + 3 + PayloadLen(f.cmds[n])
    BY <1>1, <1>8, <1>10
  <1>12. \A n \in 0..N : w[n] \in Nat
    <2>1. \A n \in 1..N : w[n - 1] \in Nat => w[n] \in Nat
      BY <1>2, <1>11
    <2>2. w[0] \in Nat
      BY <1>11
    <2> QED BY <1>1, <2>1, <2>2, StaysIn
  <1>13. w = [n \in 0..N |-> w[n]]
    BY <1>10
  <1>14. w \in [0..N -> Nat]
    BY <1>12, <1>13
  <1> QED BY <1>3, <1>11, <1>14 DEF LenWalk, N

(* The commands of a frame, one behind the other.                          *)
BodyWalk(w, f) ==
  /\ w \in [0..Len(f.cmds) -> Seq(Octets)] /\ w[0] = <<>>
  /\ \A n \in 1..Len(f.cmds) : w[n] = w[n - 1] \o EncodedCommand(f.cmds[n])
  /\ EncodedCommands(f) = w[Len(f.cmds)]

LEMMA BodyWalks ==
  ASSUME NEW f \in Filled
  PROVE  \E w : BodyWalk(w, f)
  <1> DEFINE N == Len(f.cmds)
             s == [i \in 1..N |-> EncodedCommand(f.cmds[i])]
  <1>1. N \in Nat /\ DOMAIN f.cmds = 1..N
    BY FilledIs
  <1>2. EncodedCommands(f) = FlattenSeq(s)
    BY <1>1 DEF EncodedCommands
  <1> HIDE DEF N
  <1>3. ASSUME NEW i \in 1..N PROVE EncodedCommand(f.cmds[i]) \in Seq(Octets)
    <2>1. f.cmds[i] \in Samples
      BY FilledIs DEF N
    <2> QED BY <2>1, CommandIs
  <1>4. s \in Seq(Seq(Octets)) /\ Len(s) = N /\ \A i \in 1..N : s[i] = EncodedCommand(f.cmds[i])
    BY <1>1, <1>3
  <1> HIDE DEF s
  <1>5. PICK w : FlatWalk(w, s)
    BY <1>4, FlatWalks
  <1>6. w \in [0..N -> Seq(Octets)] /\ w[0] = <<>> /\ (\A n \in 1..N : w[n] = w[n - 1] \o s[n])
        /\ FlattenSeq(s) = w[N]
    BY <1>4, <1>5 DEF FlatWalk
  <1>7. \A n \in 1..N : w[n] = w[n - 1] \o EncodedCommand(f.cmds[n])
    BY <1>4, <1>6
  <1> QED BY <1>2, <1>6, <1>7 DEF BodyWalk, N

(* They are as long as they were reckoned.                                 *)
LEMMA BodyLength ==
  ASSUME NEW f \in Filled, NEW u, LenWalk(u, f), NEW w, BodyWalk(w, f)
  PROVE  \A n \in 0..Len(f.cmds) : u[n] \in Nat /\ Len(w[n]) = u[n] - 10
  <1> DEFINE N == Len(f.cmds)
             T == {n \in 0..N : Len(w[n]) = u[n] - 10}
  <1>1. N \in Nat
    BY FilledIs
  <1>2. u \in [0..N -> Nat] /\ u[0] = 10 /\ \A n \in 1..N : u[n] = u[n - 1] + 3 + PayloadLen(f.cmds[n])
    BY DEF LenWalk
  <1>3. w \in [0..N -> Seq(Octets)] /\ w[0] = <<>>
        /\ \A n \in 1..N : w[n] = w[n - 1] \o EncodedCommand(f.cmds[n])
    BY DEF BodyWalk
  <1>4. \A n \in 1..N : f.cmds[n] \in Samples
    BY FilledIs
  <1> HIDE DEF N
  <1>5. 0 \in T
    BY <1>1, <1>2, <1>3
  <1>6. ASSUME NEW n \in 0..(N - 1), n \in T PROVE n + 1 \in T
    <2> DEFINE e == EncodedCommand(f.cmds[n + 1])
               k == PayloadLen(f.cmds[n + 1])
    <2>1. n + 1 \in 1..N /\ (n + 1) - 1 = n /\ n \in 0..N /\ n + 1 \in 0..N
      BY <1>1
    <2>2. e \in Seq(Octets) /\ Len(e) = 3 + k /\ k \in Octets
      BY <1>4, <2>1, CommandIs, PayloadLenIn
    <2>3. w[n + 1] = w[n] \o e /\ u[n + 1] = u[n] + 3 + k
      BY <1>2, <1>3, <2>1
    <2> HIDE DEF e, k
    <2>4. Len(w[n + 1]) = Len(w[n]) + Len(e)
      <3>1. w[n] \in Seq(Octets) /\ e \in Seq(Octets)
        BY <1>3, <2>1, <2>2
      <3>2. Len(w[n] \o e) = Len(w[n]) + Len(e)
        BY <3>1, Joined
      <3> QED BY <2>3, <3>2
    <2>5. k \in Nat /\ u[n] \in Nat
      BY <1>2, <2>1, <2>2, OfOctets
    <2>6. Len(w[n]) = u[n] - 10
      BY <1>6
    <2>7. Len(w[n + 1]) = u[n + 1] - 10
      <3>1. Len(e) = 3 + k
        BY <2>2
      <3>2. Len(w[n + 1]) = (u[n] - 10) + (3 + k)
        BY <2>4, <2>6, <3>1
      <3>3. (u[n] - 10) + (3 + k) = (u[n] + 3 + k) - 10
        BY <2>5
      <3> QED BY <2>3, <3>2, <3>3
    <2> QED BY <2>1, <2>7
  <1> HIDE DEF T
  <1>7. \A n \in 0..N : n \in T
    BY <1>1, <1>5, <1>6, InductionTo
  <1> QED BY <1>2, <1>7 DEF T, N

(* What comes later does not move what was there.                          *)
LEMMA BodyKeeps ==
  ASSUME NEW f \in Filled, NEW u, LenWalk(u, f), NEW w, BodyWalk(w, f), NEW n \in 0..Len(f.cmds)
  PROVE  LET N == Len(f.cmds)
         IN  u[n] <= u[N] /\ \A i \in 1..(u[n] - 10) : w[N][i] = w[n][i]
  <1> DEFINE N == Len(f.cmds)
             T == {d \in Nat : n + d <= N => /\ u[n] <= u[n + d]
                                             /\ \A i \in 1..(u[n] - 10) : w[n + d][i] = w[n][i]}
  <1>1. N \in Nat
    BY FilledIs
  <1>2. u \in [0..N -> Nat] /\ \A m \in 1..N : u[m] = u[m - 1] + 3 + PayloadLen(f.cmds[m])
    BY DEF LenWalk
  <1>3. w \in [0..N -> Seq(Octets)] /\ \A m \in 1..N : w[m] = w[m - 1] \o EncodedCommand(f.cmds[m])
    BY DEF BodyWalk
  <1>4. \A m \in 1..N : f.cmds[m] \in Samples
    BY FilledIs
  <1>5. \A m \in 0..N : Len(w[m]) = u[m] - 10
    BY BodyLength
  <1> HIDE DEF N
  <1>n. n \in 0..N
    BY DEF N
  <1>6. 0 \in T
    <2>1. n + 0 = n /\ u[n] \in Nat
      BY <1>2, <1>n
    <2> QED BY <2>1
  <1>7. ASSUME NEW d \in Nat, d \in T PROVE d + 1 \in T
    <2>1. CASE n + (d + 1) <= N
      <3> DEFINE m == n + d
                 e == EncodedCommand(f.cmds[m + 1])
                 k == PayloadLen(f.cmds[m + 1])
      <3>1. m \in 0..N /\ m + 1 \in 1..N /\ m + 1 \in 0..N /\ (m + 1) - 1 = m /\ n + (d + 1) = m + 1 /\ m <= N
        BY <1>1, <1>n, <2>1
      <3> HIDE DEF m
      <3>2. e \in Seq(Octets) /\ k \in Octets
        BY <1>4, <3>1, CommandIs, PayloadLenIn
      <3>3. w[m + 1] = w[m] \o e /\ u[m + 1] = u[m] + 3 + k /\ w[m] \in Seq(Octets)
        BY <1>2, <1>3, <3>1
      <3> HIDE DEF e, k
      <3>4. u[n] <= u[m] /\ \A i \in 1..(u[n] - 10) : w[m][i] = w[n][i]
        BY <1>7, <3>1 DEF m
      <3>5. u[n] \in Nat /\ u[m] \in Nat /\ k \in Nat /\ Len(w[m]) = u[m] - 10
        BY <1>2, <1>5, <1>n, <3>1, <3>2, OfOctets
      <3>6. u[n] <= u[m + 1]
        BY <3>3, <3>4, <3>5
      <3>7. \A i \in 1..Len(w[m]) : w[m + 1][i] = w[m][i]
        BY <3>2, <3>3, Joined
      <3>8. \A i \in 1..(u[n] - 10) : i \in 1..Len(w[m])
        <4> DEFINE l == Len(w[m])
        <4>1. l = u[m] - 10
          BY <3>5
        <4> HIDE DEF l
        <4>2. \A i \in 1..(u[n] - 10) : i \in 1..l
          BY <3>4, <3>5, <4>1
        <4> QED BY <4>2 DEF l
      <3>9. \A i \in 1..(u[n] - 10) : w[m + 1][i] = w[n][i]
        BY <3>4, <3>7, <3>8
      <3> QED BY <3>1, <3>6, <3>9
    <2>2. CASE ~(n + (d + 1) <= N)
      BY <2>2
    <2> QED BY <2>1, <2>2
  <1>8. \A d \in Nat : d \in T
    <2> HIDE DEF T
    <2> QED BY <1>6, <1>7, Induction
  <1>9. N - n \in Nat /\ n + (N - n) = N
    BY <1>1, <1>n
  <1>10. u[n] <= u[N] /\ \A i \in 1..(u[n] - 10) : w[N][i] = w[n][i]
    <2> DEFINE d == N - n
    <2>1. d \in Nat /\ n + d = N
      BY <1>9
    <2> HIDE DEF d
    <2>2. d \in T
      BY <1>8, <2>1
    <2> HIDE DEF T
    <2>3. u[n] <= u[n + d] /\ \A i \in 1..(u[n] - 10) : w[n + d][i] = w[n][i]
      BY <1>1, <2>1, <2>2 DEF T
    <2> QED BY <2>1, <2>3
  <1> QED BY <1>10 DEF N

(* The bytes of a frame, by their places: at u[n - 1] - 2 the command n    *)
(* begins.                                                                 *)
CommandAt(b, at, c) ==
  /\ b[at + 1] + 256 * b[at + 2] = Id[c.id] /\ b[at + 3] = PayloadLen(c)
  /\ \A k \in 1..PayloadLen(c) : b[at + 3 + k] = PayloadByte(c, k)
Places(b, u, f) ==
  /\ LenWalk(u, f) /\ b \in Seq(Octets) /\ Len(b) = WireLen(f)
  /\ b[1] = Magic /\ b[2] = Version /\ b[3] + 256 * b[4] = WireLen(f)
  /\ b[5] + 256 * b[6] = f.seq /\ b[7] = Len(f.cmds) /\ b[8] = f.flags
  /\ b[WireLen(f) - 1] + 256 * b[WireLen(f)] = Crc(SubSeq(b, 1, WireLen(f) - 2))
  /\ \A n \in 1..Len(f.cmds) :
       u[n - 1] \in Nat /\ u[n - 1] >= 10 /\ u[n] <= WireLen(f) /\ CommandAt(b, u[n - 1] - 2, f.cmds[n])

LEMMA HeaderIs ==
  ASSUME NEW f \in Filled, NEW total \in Words
  PROVE  LET h == Header(f, total)
         IN  /\ h \in Seq(Octets) /\ Len(h) = 8
             /\ h[1] = Magic /\ h[2] = Version /\ h[3] + 256 * h[4] = total
             /\ h[5] + 256 * h[6] = f.seq /\ h[7] = Len(f.cmds) /\ h[8] = f.flags
  <1> DEFINE s == f.seq
             n == Len(f.cmds)
             g == f.flags
             tl == Low(total)
             th == High(total)
             sl == Low(s)
             sh == High(s)
  <1>1. s \in Words /\ n \in Octets /\ g = 0
    BY FilledIs
  <1>2. tl \in Octets /\ th \in Octets /\ tl + 256 * th = total
    BY OfWords
  <1>3. sl \in Octets /\ sh \in Octets /\ sl + 256 * sh = s
    BY <1>1, OfWords
  <1>4. Magic \in Octets /\ Version \in Octets /\ g \in Octets
    BY <1>1, OctetIn DEF Magic, Version
  <1>5. Header(f, total) = <<Magic, Version, tl, th, sl, sh, n, g>>
    BY DEF Header
  <1> HIDE DEF s, n, g, tl, th, sl, sh
  <1> DEFINE h == <<Magic, Version, tl, th, sl, sh, n, g>>
  <1>6. h \in Seq(Octets)
    BY <1>1, <1>2, <1>3, <1>4
  <1>7. /\ Len(h) = 8 /\ h[1] = Magic /\ h[2] = Version /\ h[3] = tl /\ h[4] = th /\ h[5] = sl
        /\ h[6] = sh /\ h[7] = n /\ h[8] = g
    OBVIOUS
  <1> HIDE DEF h
  <1>8. h[3] + 256 * h[4] = total /\ h[5] + 256 * h[6] = s
    BY <1>2, <1>3, <1>7
  <1> QED BY <1>5, <1>6, <1>7, <1>8 DEF h, s, n, g

LEMMA WireLenIs ==
  ASSUME NEW f \in Filled
  PROVE  /\ WireLen(f) \in Nat /\ (Len(f.cmds) = 0 => WireLen(f) = 10)
         /\ Fits(f) => WireLen(f) <= MaxFrameLen /\ WireLen(f) < 256 * 256
  <1> DEFINE N == Len(f.cmds)
             total == WireLen(f)
  <1>1. PICK u : LenWalk(u, f)
    BY LenWalks
  <1>2. N \in Nat
    BY FilledIs
  <1>3. u \in [0..N -> Nat] /\ u[0] = 10 /\ total = u[N]
    BY <1>1 DEF LenWalk
  <1> HIDE DEF N, total
  <1>4. total \in Nat /\ (N = 0 => total = 10)
    BY <1>2, <1>3
  <1>5. Fits(f) => total <= MaxFrameLen
    BY DEF Fits, total
  <1>6. Fits(f) => total < 256 * 256
    BY <1>4, <1>5, CodecAssumption
  <1> QED BY <1>4, <1>5, <1>6 DEF N, total

LEMMA EncodedPlaces ==
  ASSUME NEW f \in Filled, WireLen(f) < 256 * 256
  PROVE  /\ WireLen(f) \in Words /\ WireLen(f) >= 10
         /\ \E u : Places(Encoded(f), u, f)
  <1> DEFINE N == Len(f.cmds)
             total == WireLen(f)
  <1>1. N \in Nat /\ \A n \in 1..N : f.cmds[n] \in Samples
    BY FilledIs
  <1>2. PICK u : LenWalk(u, f)
    BY LenWalks
  <1>3. PICK w : BodyWalk(w, f)
    BY BodyWalks
  <1>4. u \in [0..N -> Nat] /\ u[0] = 10 /\ total = u[N]
        /\ \A n \in 1..N : u[n] = u[n - 1] + 3 + PayloadLen(f.cmds[n])
    BY <1>2 DEF LenWalk
  <1>5. w \in [0..N -> Seq(Octets)] /\ w[0] = <<>> /\ EncodedCommands(f) = w[N]
        /\ \A n \in 1..N : w[n] = w[n - 1] \o EncodedCommand(f.cmds[n])
    BY <1>3 DEF BodyWalk
  <1>6. \A n \in 0..N : Len(w[n]) = u[n] - 10
    BY <1>2, <1>3, BodyLength
  <1>7. \A n \in 0..N : u[n] <= u[N] /\ \A i \in 1..(u[n] - 10) : w[N][i] = w[n][i]
    BY <1>2, <1>3, BodyKeeps
  <1>8. \A n \in 0..N : u[n] \in Nat /\ u[n] >= 10
    <2> DEFINE X == {i \in Nat : i >= 10}
    <2>1. ASSUME NEW n \in 1..N, u[n - 1] \in X PROVE u[n] \in X
      <3>1. f.cmds[n] \in Samples
        BY <1>1
      <3>2. PayloadLen(f.cmds[n]) \in Nat
        BY <3>1, PayloadLenIn, OfOctets
      <3>3. u[n] = u[n - 1] + 3 + PayloadLen(f.cmds[n])
        BY <1>4
      <3> QED BY <2>1, <3>2, <3>3
    <2>2. u[0] \in X
      BY <1>4
    <2> HIDE DEF X
    <2>3. \A n \in 0..N : u[n] \in X
      BY <1>1, <2>1, <2>2, StaysIn
    <2> QED BY <2>3 DEF X
  <1>9. total < 256 * 256
    OBVIOUS
  <1> HIDE DEF N, total
  <1>10. total \in Nat /\ total >= 10 /\ total < 256 * 256 /\ N \in 0..N
    <2>1. N \in 0..N
      BY <1>1
    <2>2. total \in Nat /\ total >= 10
      BY <1>4, <1>8, <2>1
    <2> QED BY <1>9, <2>1, <2>2
  <1>11. total \in Words
    BY <1>10, InWords
  <1> DEFINE h == Header(f, total)
             body == h \o w[N]
             crc == Crc(body)
             tail == <<Low(crc), High(crc)>>
             b == body \o tail
  <1>12. Encoded(f) = b
    BY <1>5 DEF Encoded, Checked, total
  <1>13. /\ h \in Seq(Octets) /\ Len(h) = 8
         /\ h[1] = Magic /\ h[2] = Version /\ h[3] + 256 * h[4] = total
         /\ h[5] + 256 * h[6] = f.seq /\ h[7] = N /\ h[8] = f.flags
    BY <1>11, HeaderIs DEF N
  <1>14. w[N] \in Seq(Octets) /\ Len(w[N]) = total - 10
    BY <1>4, <1>5, <1>6, <1>10
  <1> HIDE DEF h
  <1>15. /\ body \in Seq(Octets) /\ Len(body) = Len(h) + Len(w[N])
         /\ \A i \in 1..Len(h) : body[i] = h[i]
         /\ \A i \in 1..Len(w[N]) : body[Len(h) + i] = w[N][i]
    <2>1. h \in Seq(Octets) /\ w[N] \in Seq(Octets)
      BY <1>13, <1>14
    <2> QED BY <2>1, Joined
  <1> HIDE DEF body
  <1>16. /\ Len(body) = total - 2 /\ \A i \in 1..8 : body[i] = h[i]
         /\ \A i \in 1..(total - 10) : body[8 + i] = w[N][i]
    <2>1. Len(h) = 8 /\ Len(w[N]) = total - 10
      BY <1>13, <1>14
    <2>2. 8 + (total - 10) = total - 2
      BY <1>10
    <2> QED BY <1>15, <2>1, <2>2
  <1>17. crc \in Words
    BY <1>15, CrcIn
  <1> HIDE DEF crc
  <1>18. Low(crc) \in Octets /\ High(crc) \in Octets /\ Low(crc) + 256 * High(crc) = crc
    BY <1>17, OfWords
  <1>19. tail \in Seq(Octets) /\ Len(tail) = 2 /\ tail[1] = Low(crc) /\ tail[2] = High(crc)
    BY <1>18
  <1> HIDE DEF tail
  <1>20. /\ b \in Seq(Octets) /\ Len(b) = Len(body) + Len(tail)
         /\ \A i \in 1..Len(body) : b[i] = body[i]
         /\ \A i \in 1..Len(tail) : b[Len(body) + i] = tail[i]
    <2>1. body \in Seq(Octets) /\ tail \in Seq(Octets)
      BY <1>15, <1>19
    <2> QED BY <2>1, Joined
  <1>21. SubSeq(b, 1, Len(body)) = body
    <2>1. body \in Seq(Octets) /\ tail \in Seq(Octets)
      BY <1>15, <1>19
    <2>2. Len(body) \in 1..Len(body)
      BY <1>10, <1>16
    <2>3. 1 \in 1..Len(body)
      BY <1>10, <1>16
    <2>4. SubSeq(body \o tail, 1, Len(body)) = SubSeq(body, 1, Len(body))
      BY <2>1, <2>2, <2>3, SubSeqOfConcat1
    <2>5. SubSeq(body, 1, Len(body)) = body
      BY <2>1, SubSeqFull
    <2> QED BY <2>4, <2>5
  <1> HIDE DEF b
  <1>22. Len(b) = total
    <2>1. (total - 2) + 2 = total
      BY <1>10
    <2> QED BY <1>16, <1>19, <1>20, <2>1
  <1>23. (\A i \in 1..8 : b[i] = h[i]) /\ \A i \in 1..(total - 10) : b[8 + i] = w[N][i]
    <2>1. \A i \in 1..(total - 2) : b[i] = body[i]
      BY <1>16, <1>20
    <2>2. \A i \in 1..8 : i \in 1..(total - 2)
      BY <1>10
    <2>3. \A i \in 1..(total - 10) : 8 + i \in 1..(total - 2)
      BY <1>10
    <2> QED BY <1>16, <2>1, <2>2, <2>3
  <1>24. b[total - 1] + 256 * b[total] = Crc(SubSeq(b, 1, total - 2))
    <2>1. (total - 2) + 1 = total - 1 /\ (total - 2) + 2 = total
      BY <1>10
    <2>2. \A i \in 1..2 : b[(total - 2) + i] = tail[i]
      BY <1>16, <1>19, <1>20
    <2>3. b[total - 1] = Low(crc) /\ b[total] = High(crc)
      BY <1>19, <2>1, <2>2
    <2>4. SubSeq(b, 1, total - 2) = body
      BY <1>16, <1>21
    <2> QED BY <1>18, <2>3, <2>4 DEF crc
  <1>25. ASSUME NEW n \in 1..N
         PROVE  u[n - 1] \in Nat /\ u[n - 1] >= 10 /\ u[n] <= total /\ CommandAt(b, u[n - 1] - 2, f.cmds[n])
    <2> DEFINE c == f.cmds[n]
               e == EncodedCommand(c)
               p == PayloadLen(c)
               m == u[n - 1]
    <2>1. n - 1 \in 0..N /\ n \in 0..N /\ c \in Samples
      BY <1>1
    <2>2. m \in Nat /\ m >= 10 /\ u[n] <= total
      BY <1>4, <1>7, <1>8, <2>1
    <2>3. u[n] = m + 3 + p
      BY <1>4
    <2>4. /\ e \in Seq(Octets) /\ Len(e) = 3 + p
          /\ e[1] + 256 * e[2] = Id[c.id] /\ e[3] = p
          /\ \A k \in 1..p : e[3 + k] = PayloadByte(c, k)
      BY <2>1, CommandIs
    <2>5. p \in Nat
      BY <2>1, PayloadLenIn, OfOctets
    <2>6. w[n] = w[n - 1] \o e /\ w[n - 1] \in Seq(Octets) /\ Len(w[n - 1]) = m - 10
      BY <1>5, <1>6, <2>1
    <2>7. \A i \in 1..(u[n] - 10) : w[N][i] = w[n][i]
      BY <1>7, <2>1
    <2> HIDE DEF e, p, m, c
    <2>8. \A i \in 1..(3 + p) : w[n][(m - 10) + i] = e[i]
      <3>1. e \in Seq(Octets) /\ w[n - 1] \in Seq(Octets)
        BY <2>4, <2>6
      <3>2. \A i \in 1..Len(e) : (w[n - 1] \o e)[Len(w[n - 1]) + i] = e[i]
        BY <3>1, Joined
      <3> QED BY <2>4, <2>6, <3>2
    <2>9. ASSUME NEW i \in 1..(3 + p) PROVE b[(m - 2) + i] = e[i]
      <3>1. (m - 10) + i \in 1..(u[n] - 10) /\ (m - 10) + i \in 1..(total - 10) /\ 8 + ((m - 10) + i) = (m - 2) + i
        BY <1>10, <2>2, <2>3, <2>5
      <3>2. b[8 + ((m - 10) + i)] = w[N][(m - 10) + i]
        BY <1>23, <3>1
      <3>3. w[N][(m - 10) + i] = w[n][(m - 10) + i]
        BY <2>7, <3>1
      <3>4. w[n][(m - 10) + i] = e[i]
        BY <2>8
      <3> QED BY <3>1, <3>2, <3>3, <3>4
    <2>10. b[(m - 2) + 1] = e[1] /\ b[(m - 2) + 2] = e[2] /\ b[(m - 2) + 3] = e[3]
      <3>1. 1 \in 1..(3 + p) /\ 2 \in 1..(3 + p) /\ 3 \in 1..(3 + p)
        BY <2>5
      <3> QED BY <2>9, <3>1
    <2>11. ASSUME NEW k \in 1..p PROVE b[(m - 2) + 3 + k] = PayloadByte(c, k)
      <3>1. 3 + k \in 1..(3 + p) /\ (m - 2) + (3 + k) = (m - 2) + 3 + k
        BY <2>2, <2>5
      <3>2. b[(m - 2) + (3 + k)] = e[3 + k]
        BY <2>9, <3>1
      <3> QED BY <2>4, <3>1, <3>2
    <2>12. CommandAt(b, m - 2, c)
      BY <2>4, <2>10, <2>11 DEF CommandAt, p
    <2> QED BY <2>2, <2>12 DEF m, c
  <1>26. /\ b[1] = Magic /\ b[2] = Version /\ b[3] + 256 * b[4] = total
         /\ b[5] + 256 * b[6] = f.seq /\ b[7] = N /\ b[8] = f.flags
    <2>1. b[1] = h[1] /\ b[2] = h[2] /\ b[3] = h[3] /\ b[4] = h[4] /\ b[5] = h[5] /\ b[6] = h[6]
          /\ b[7] = h[7] /\ b[8] = h[8]
      BY <1>23
    <2> QED BY <1>13, <2>1
  <1>27. Places(b, u, f)
    BY <1>2, <1>20, <1>22, <1>24, <1>25, <1>26 DEF Places, N, total
  <1> QED BY <1>10, <1>11, <1>12, <1>27 DEF total

-----------------------------------------------------------------------------
(* Decoding.                                                               *)

Readable(b) == b \in Seq(Octets) /\ Word(b, 3) \in Nat /\ 10 <= Word(b, 3) /\ Word(b, 3) <= Len(b)

LEMMA ReadableIs ==
  ASSUME NEW b, Readable(b)
  PROVE  /\ b \in Seq(Octets) /\ Len(b) \in Nat /\ 10 <= Len(b)
         /\ \A i \in 1..Len(b) : b[i] \in Octets
         /\ b[5] \in Octets /\ b[6] \in Octets /\ b[7] \in Octets /\ b[8] \in Octets
  <1>1. b \in Seq(Octets) /\ Len(b) \in Nat /\ \A i \in 1..Len(b) : b[i] \in Octets
    BY DEF Readable
  <1> DEFINE l == Len(b)
             t == Word(b, 3)
  <1>2. l \in Nat /\ t \in Nat /\ 10 <= t /\ t <= l
    BY <1>1 DEF Readable
  <1> HIDE DEF l, t
  <1>3. 10 <= l /\ 5 \in 1..l /\ 6 \in 1..l /\ 7 \in 1..l /\ 8 \in 1..l
    BY <1>2
  <1> QED BY <1>1, <1>3 DEF l

LEMMA PayloadDecoded ==
  ASSUME NEW b \in Seq(Octets), NEW id, NEW at \in Nat, NEW n \in Nat, at + n <= Len(b)
  PROVE  DecodedPayload(b, id, at, n) \in [1..UnionLen -> Octets]
  <1> DEFINE D(k) == IF id \in Typed
                     THEN IF \E j \in DOMAIN Layout[id] : Layout[id][j] = k
                          THEN LET i == at + CHOOSE j \in DOMAIN Layout[id] : Layout[id][j] = k
                               IN  IF i <= Len(b) THEN b[i] ELSE Stale
                          ELSE 0
                     ELSE IF id # "TASK_CANCEL" /\ k <= n THEN b[at + k] ELSE 0
  <1>1. DecodedPayload(b, id, at, n) = [k \in 1..UnionLen |-> D(k)]
    BY DEF DecodedPayload
  <1>2. 0 \in Octets /\ Stale \in Octets /\ \A i \in 1..Len(b) : b[i] \in Octets
    BY OctetIn, CodecAssumption
  <1> DEFINE l == Len(b)
  <1>3. l \in Nat /\ at + n <= l
    OBVIOUS
  <1>4. ASSUME NEW k \in 1..UnionLen PROVE D(k) \in Octets
    <2>1. CASE id \in Typed /\ \E j \in DOMAIN Layout[id] : Layout[id][j] = k
      <3> DEFINE j == CHOOSE j \in DOMAIN Layout[id] : Layout[id][j] = k
                 i == at + j
      <3>1. Layout[id] \in Seq(1..14)
        BY <2>1, TypedLayout
      <3>2. j \in DOMAIN Layout[id]
        BY <2>1
      <3>3. j \in Nat \ {0}
        <4>1. DOMAIN Layout[id] = 1..Len(Layout[id]) /\ Len(Layout[id]) \in Nat
          BY <3>1, LenProperties
        <4> HIDE DEF j
        <4>2. j \in 1..Len(Layout[id])
          BY <3>2, <4>1
        <4> QED BY <4>1, <4>2
      <3>4. D(k) = IF i <= Len(b) THEN b[i] ELSE Stale
        BY <2>1
      <3> HIDE DEF j, D
      <3>5. i \in Nat \ {0}
        BY <3>3
      <3> HIDE DEF i
      <3>6. CASE i <= Len(b)
        <4>1. i \in 1..Len(b)
          BY <3>5, <3>6, <1>3 DEF l
        <4> QED BY <1>2, <3>4, <3>6, <4>1
      <3>7. CASE ~(i <= Len(b))
        BY <1>2, <3>4, <3>7
      <3> QED BY <3>6, <3>7
    <2>2. CASE id \in Typed /\ ~\E j \in DOMAIN Layout[id] : Layout[id][j] = k
      BY <1>2, <2>2
    <2>3. CASE id \notin Typed /\ id # "TASK_CANCEL" /\ k <= n
      <3>1. at + k \in 1..Len(b)
        <4> HIDE DEF l
        <4>1. at + k \in 1..l
          BY <1>3, <2>3, CodecAssumption
        <4> QED BY <4>1 DEF l
      <3>2. D(k) = b[at + k]
        BY <2>3
      <3> HIDE DEF D
      <3> QED BY <1>2, <3>1, <3>2
    <2>4. CASE id \notin Typed /\ ~(id # "TASK_CANCEL" /\ k <= n)
      <3>1. D(k) = 0
        BY <2>4
      <3> QED BY <1>2, <3>1
    <2> QED BY <2>1, <2>2, <2>3, <2>4
  <1> HIDE DEF D
  <1> QED BY <1>1, <1>4

(* What a parser has found so far, for all frames that it accepts at all.  *)
Parses(b) == [err : {"OK", "INCOMPLETE"}, pos : 8..(Word(b, 3) - 2), frame : Decodable]

LEMMA PushedIn ==
  ASSUME NEW f \in Decodable, NEW c \in Commands
  PROVE  Pushed(f, c) \in Decodable
  BY DEF Pushed, Decodable

LEMMA ParsedIn ==
  ASSUME NEW b, Readable(b), NEW a \in Parses(b)
  PROVE  Parsed(b, a) \in Parses(b)
  <1> DEFINE t == Word(b, 3)
             l == Len(b)
             p == a.pos
             at == p + 3
             n == b[at]
             id == NameOf(Word(b, p + 1))
             c == [id |-> id, len |-> n, raw |-> DecodedPayload(b, id, at, n)]
  <1>1. b \in Seq(Octets) /\ l \in Nat /\ (\A i \in 1..l : b[i] \in Octets)
    BY ReadableIs
  <1>2. t \in Nat /\ 10 <= t /\ t <= l
    BY DEF Readable
  <1>3. a.err \in {"OK", "INCOMPLETE"} /\ p \in 8..(t - 2) /\ a.frame \in Decodable
    BY DEF Parses
  <1>4. Parsed(b, a) = IF a.err # "OK" THEN a
                       ELSE IF at > t - 2 THEN [a EXCEPT !.err = "INCOMPLETE"]
                       ELSE IF at + n > t - 2 THEN [a EXCEPT !.err = "INCOMPLETE"]
                       ELSE [a EXCEPT !.pos = at + n, !.frame = Pushed(@, c)]
    BY DEF Parsed, CmdHeaderLen, CrcLen
  <1>5. [a EXCEPT !.err = "INCOMPLETE"] \in Parses(b)
    BY DEF Parses
  <1>6. CASE a.err # "OK" \/ at > t - 2
    <2>1. Parsed(b, a) \in {a, [a EXCEPT !.err = "INCOMPLETE"]}
      BY <1>4, <1>6
    <2> QED BY <1>5, <2>1
  <1>7. CASE a.err = "OK" /\ ~(at > t - 2) /\ at + n > t - 2
    <2>1. Parsed(b, a) = [a EXCEPT !.err = "INCOMPLETE"]
      BY <1>4, <1>7
    <2> QED BY <1>5, <2>1
  <1>8. CASE a.err = "OK" /\ ~(at > t - 2) /\ ~(at + n > t - 2)
    <2>1. Parsed(b, a) = [a EXCEPT !.pos = at + n, !.frame = Pushed(@, c)]
      BY <1>4, <1>8
    <2> HIDE DEF c, n, id
    <2>2. at \in 1..l /\ at \in Nat
      <3> HIDE DEF l, t, p
      <3> QED BY <1>2, <1>3, <1>8, <1>1
    <2>3. n \in Octets
      BY <1>1, <2>2 DEF n
    <2>4. n \in Nat
      BY <2>3, OfOctets
    <2>5. at + n \in 8..(t - 2) /\ at + n <= l
      <3> HIDE DEF l, t, p
      <3> QED BY <1>1, <1>2, <1>3, <1>8, <2>4
    <2>6. DecodedPayload(b, id, at, n) \in [1..UnionLen -> Octets]
      <3> HIDE DEF at
      <3> QED BY <1>1, <2>2, <2>4, <2>5, PayloadDecoded DEF l
    <2>7. c \in Commands
      BY <2>3, <2>6, NameIn DEF Commands, c, id
    <2>8. Pushed(a.frame, c) \in Decodable
      BY <1>3, <2>7, PushedIn
    <2> HIDE DEF at, p, t, l
    <2>9. Parsed(b, a) = [err |-> a.err, pos |-> at + n, frame |-> Pushed(a.frame, c)]
      BY <2>1 DEF Parses
    <2> QED BY <1>3, <2>5, <2>8, <2>9 DEF Parses, t
  <1> QED BY <1>6, <1>7, <1>8

ContentsWalk(v, b) ==
  /\ v \in [0..b[7] -> Parses(b)]
  /\ v[0] = [err |-> "OK", pos |-> 8, frame |-> [seq |-> Word(b, 5), flags |-> b[8], cmds |-> <<>>]]
  /\ \A n \in 1..b[7] : v[n] = Parsed(b, v[n - 1])
  /\ Contents(b) = v[b[7]]

LEMMA ContentsWalks ==
  ASSUME NEW b, Readable(b)
  PROVE  \E v : ContentsWalk(v, b)
  <1> DEFINE N == b[7]
             X == Parses(b)
             start == [FrameStart(Word(b, 5)) EXCEPT !.flags = b[8]]
             frame0 == [seq |-> Word(b, 5), flags |-> b[8], cmds |-> <<>>]
             x == [err |-> "OK", pos |-> 8, frame |-> frame0]
             Body(g) == [n \in 0..N |-> IF n = 0 THEN x ELSE Parsed(b, g[n - 1])]
             v == CHOOSE g : g = Body(g)
             step == [p \in X \X (1..N) |-> Parsed(b, p[1])]
  <1>1. N \in Octets /\ b[5] \in Octets /\ b[6] \in Octets /\ b[8] \in Octets
    BY ReadableIs
  <1>2. N \in Nat
    BY <1>1, OfOctets
  <1>3. start = frame0
    BY DEF FrameStart
  <1>4. Contents(b) = v[N]
    BY <1>3 DEF Contents, HeaderLen
  <1>5. x \in X
    <2>1. Word(b, 5) \in Words
      BY <1>1, TwoOctets DEF Word
    <2>2. frame0 \in Decodable
      BY <1>1, <2>1 DEF Decodable
    <2>3. 8 \in 8..(Word(b, 3) - 2)
      BY DEF Readable
    <2> HIDE DEF frame0
    <2> QED BY <2>2, <2>3 DEF Parses
  <1>6. \A a \in X : Parsed(b, a) \in X
    BY ParsedIn
  <1> HIDE DEF N, X, x
  <1>7. step \in [X \X (1..N) -> X]
    BY <1>6
  <1>8. \A a \in X, n \in 1..N : step[<<a, n>>] = Parsed(b, a)
    OBVIOUS
  <1> HIDE DEF step
  <1>9. PICK g : Unrolls(g, N, X, x, step)
    BY <1>2, <1>5, <1>7, Recursion
  <1>10. g \in [0..N -> X] /\ g[0] = x /\ \A n \in 1..N : g[n] = Parsed(b, g[n - 1])
    BY <1>8, <1>9 DEF Unrolls
  <1>11. g = Body(g)
    BY <1>2, <1>10
  <1>12. v = Body(v)
    <2> HIDE DEF Body
    <2> QED BY <1>11
  <1> HIDE DEF v
  <1>13. v[0] = x /\ \A n \in 1..N : v[n] = Parsed(b, v[n - 1])
    BY <1>2, <1>12
  <1>14. \A n \in 0..N : v[n] \in X
    <2>1. \A n \in 1..N : v[n - 1] \in X => v[n] \in X
      BY <1>6, <1>13
    <2>2. v[0] \in X
      BY <1>5, <1>13
    <2> QED BY <1>2, <2>1, <2>2, StaysIn
  <1>15. v = [n \in 0..N |-> v[n]]
    BY <1>12
  <1>16. v \in [0..N -> X]
    BY <1>14, <1>15
  <1> QED BY <1>4, <1>13, <1>16 DEF ContentsWalk, N, X, x

LEMMA ContentsIn ==
  ASSUME NEW b, Readable(b)
  PROVE  Contents(b).err \in {"OK", "INCOMPLETE"} /\ Contents(b).frame \in Decodable
  <1>1. PICK v : ContentsWalk(v, b)
    BY ContentsWalks
  <1>2. b[7] \in 0..b[7]
    <2>1. b[7] \in Octets
      BY ReadableIs
    <2>2. b[7] \in Nat
      BY <2>1, OfOctets
    <2> QED BY <2>2
  <1>3. Contents(b) \in Parses(b)
    BY <1>1, <1>2 DEF ContentsWalk
  <1> QED BY <1>3 DEF Parses

(* Of a command in its place, the decoder reads what it carries.           *)
LEMMA PayloadReads ==
  ASSUME NEW c \in Samples, NEW b \in Seq(Octets), NEW at \in Nat, CommandAt(b, at, c),
         at + 3 + PayloadLen(c) <= Len(b)
  PROVE  DecodedPayload(b, c.id, at + 3, PayloadLen(c)) = Carried(c).raw
  <1> DEFINE n == PayloadLen(c)
             id == c.id
             d == at + 3
             R(k) == IF (IF id \in Typed THEN k \in {Layout[id][j] : j \in DOMAIN Layout[id]}
                         ELSE id \notin Blank /\ k <= n)
                     THEN c.raw[k] ELSE 0
             D(k) == IF id \in Typed
                     THEN IF \E j \in DOMAIN Layout[id] : Layout[id][j] = k
                          THEN LET i == d + CHOOSE j \in DOMAIN Layout[id] : Layout[id][j] = k
                               IN  IF i <= Len(b) THEN b[i] ELSE Stale
                          ELSE 0
                     ELSE IF id # "TASK_CANCEL" /\ k <= n THEN b[d + k] ELSE 0
  <1>1. Carried(c).raw = [k \in 1..UnionLen |-> R(k)]
    BY DEF Carried
  <1>2. DecodedPayload(b, id, d, n) = [k \in 1..UnionLen |-> D(k)]
    BY DEF DecodedPayload
  <1>3. n \in Nat
    BY PayloadLenIn, OfOctets
  <1>4. \A k \in 1..n : b[d + k] = PayloadByte(c, k)
    BY DEF CommandAt
  <1>5. d \in Nat /\ Len(b) \in Nat /\ d + n <= Len(b)
    BY <1>3
  <1> HIDE DEF n, d
  <1>6. ASSUME NEW k \in 1..UnionLen PROVE D(k) = R(k)
    <2>1. CASE id \in Typed /\ \E j \in DOMAIN Layout[id] : Layout[id][j] = k
      <3> DEFINE j == CHOOSE j \in DOMAIN Layout[id] : Layout[id][j] = k
      <3>1. j \in DOMAIN Layout[id] /\ Layout[id][j] = k
        BY <2>1
      <3>2. D(k) = IF d + j <= Len(b) THEN b[d + j] ELSE Stale
        BY <2>1
      <3>3. R(k) = c.raw[k]
        BY <2>1
      <3> HIDE DEF j, D, R
      <3>4. id \in DOMAIN FixedLen /\ FixedLen[id] = Len(Layout[id]) /\ Layout[id] \in Seq(1..14)
        BY <2>1, TypedLayout
      <3>5. n = Len(Layout[id])
        BY <3>4 DEF PayloadLen, n
      <3>6. j \in 1..n
        <4>1. DOMAIN Layout[id] = 1..Len(Layout[id])
          BY <3>4, LenProperties
        <4> QED BY <3>1, <3>5, <4>1
      <3>7. d + j <= Len(b)
        <4> DEFINE l == Len(b)
        <4>1. l \in Nat /\ d + n <= l
          BY <1>5
        <4> HIDE DEF l
        <4>2. d + j <= l
          BY <1>3, <1>5, <3>6, <4>1
        <4> QED BY <4>2 DEF l
      <3>8. b[d + j] = c.raw[Layout[id][j]]
        BY <1>4, <2>1, <3>6 DEF PayloadByte
      <3> QED BY <3>1, <3>2, <3>3, <3>7, <3>8
    <2>2. CASE id \in Typed /\ ~\E j \in DOMAIN Layout[id] : Layout[id][j] = k
      BY <2>2
    <2>3. CASE id \notin Typed /\ id \in Blank
      <3>1. R(k) = 0
        BY <2>3
      <3>2. D(k) = IF id # "TASK_CANCEL" /\ k <= n THEN b[d + k] ELSE 0
        BY <2>3
      <3> HIDE DEF R, D
      <3>3. CASE k <= n
        <4>1. k \in 1..n
          BY <1>3, <3>3, CodecAssumption
        <4>2. b[d + k] = 0
          BY <1>4, <2>3, <4>1 DEF PayloadByte
        <4> QED BY <3>1, <3>2, <4>2
      <3>4. CASE ~(k <= n)
        BY <3>1, <3>2, <3>4
      <3> QED BY <3>3, <3>4
    <2>4. CASE id \notin Typed /\ id \notin Blank
      <3>1. R(k) = IF k <= n THEN c.raw[k] ELSE 0
        BY <2>4
      <3>2. D(k) = IF k <= n THEN b[d + k] ELSE 0
        <4>1. id # "TASK_CANCEL"
          BY <2>4 DEF Blank
        <4> QED BY <2>4, <4>1
      <3> HIDE DEF R, D
      <3>3. CASE k <= n
        <4>1. k \in 1..n
          BY <1>3, <3>3, CodecAssumption
        <4>2. b[d + k] = c.raw[k]
          BY <1>4, <2>4, <4>1 DEF PayloadByte
        <4> QED BY <3>1, <3>2, <3>3, <4>2
      <3>4. CASE ~(k <= n)
        BY <3>1, <3>2, <3>4
      <3> QED BY <3>3, <3>4
    <2> QED BY <2>1, <2>2, <2>3, <2>4
  <1> HIDE DEF D, R
  <1> QED BY <1>1, <1>2, <1>6 DEF n, d

Moved(a, p, h) == [a EXCEPT !.pos = p, !.frame = h]
LEMMA Advanced ==
  ASSUME NEW e, NEW x, NEW g, NEW a, a = [err |-> e, pos |-> x, frame |-> g], NEW p, NEW h
  PROVE  Moved(a, p, h) = [err |-> e, pos |-> p, frame |-> h]
  <1> DEFINE d == [a EXCEPT !.pos = p]
  <1>1. d = [err |-> e, pos |-> p, frame |-> g]
    OBVIOUS
  <1> HIDE DEF d
  <1>2. [d EXCEPT !.frame = h] = [err |-> e, pos |-> p, frame |-> h]
    BY <1>1
  <1> QED BY <1>2 DEF d, Moved

(* The command that stands at a place is read, and nothing else.           *)
LEMMA CommandReads ==
  ASSUME NEW c \in Samples, NEW b \in Seq(Octets), NEW at \in Nat, CommandAt(b, at, c),
         NEW t, t = Word(b, 3), t \in Nat, t <= Len(b), at + 3 + PayloadLen(c) <= t - 2,
         NEW g
  PROVE  Parsed(b, [err |-> "OK", pos |-> at, frame |-> g])
           = [err |-> "OK", pos |-> at + 3 + PayloadLen(c), frame |-> Pushed(g, Carried(c))]
  <1> DEFINE n == PayloadLen(c)
             id == NameOf(Word(b, at + 1))
             a == [err |-> "OK", pos |-> at, frame |-> g]
  <1>1. n \in Nat
    BY PayloadLenIn, OfOctets
  <1>2. b[at + 1] + 256 * b[at + 2] = Id[c.id] /\ b[at + 3] = n
    BY DEF CommandAt
  <1>3. id = c.id
    <2>1. Word(b, at + 1) = Id[c.id]
      <3>1. (at + 1) + 1 = at + 2
        OBVIOUS
      <3> QED BY <1>2, <3>1 DEF Word
    <2> QED BY <2>1, SampleIs, NameOfId
  <1> DEFINE raw == DecodedPayload(b, id, at + 3, b[at + 3])
  <1>4. raw = Carried(c).raw
    <2>1. at + 3 + n <= Len(b)
      <3> DEFINE l == Len(b)
      <3>1. l \in Nat /\ t <= l
        OBVIOUS
      <3> HIDE DEF l, n
      <3>2. at + 3 + n <= t - 2
        BY DEF n
      <3>3. at + 3 + n <= l
        BY <1>1, <3>1, <3>2
      <3> QED BY <3>3 DEF l
    <2> QED BY <1>2, <1>3, <2>1, PayloadReads
  <1>5. Parsed(b, a) = IF a.err # "OK" THEN a
                       ELSE IF a.pos + 3 > t - 2 THEN [a EXCEPT !.err = "INCOMPLETE"]
                       ELSE IF a.pos + 3 + b[a.pos + 3] > t - 2 THEN [a EXCEPT !.err = "INCOMPLETE"]
                       ELSE [a EXCEPT !.pos = a.pos + 3 + b[a.pos + 3],
                              !.frame = Pushed(@, [id |-> NameOf(Word(b, a.pos + 1)), len |-> b[a.pos + 3],
                                raw |-> DecodedPayload(b, NameOf(Word(b, a.pos + 1)), a.pos + 3, b[a.pos + 3])])]
    BY DEF Parsed, CmdHeaderLen, CrcLen
  <1>6. Carried(c) = [id |-> c.id, len |-> n, raw |-> Carried(c).raw]
    BY DEF Carried
  <1>7. at + 3 + n <= t - 2
    OBVIOUS
  <1> HIDE DEF n, id, raw
  <1>8. ~(at + 3 > t - 2) /\ ~(at + 3 + n > t - 2)
    BY <1>1, <1>7
  <1> DEFINE p == at + 3 + n
             q == [id |-> id, len |-> n, raw |-> raw]
             more == Pushed(g, q)
  <1>9. a.err = "OK" /\ a.pos = at /\ a.frame = g
    OBVIOUS
  <1>10. Moved(a, p, more) = [err |-> "OK", pos |-> p, frame |-> more]
    <2>1. a = [err |-> "OK", pos |-> at, frame |-> g]
      OBVIOUS
    <2> HIDE DEF a, p, more
    <2> QED BY <2>1, Advanced
  <1> HIDE DEF a
  <1>12. Parsed(b, a) = Moved(a, p, more)
    BY <1>2, <1>5, <1>8, <1>9 DEF id, raw, Moved
  <1>11. q = Carried(c)
    BY <1>3, <1>4, <1>6
  <1> QED BY <1>10, <1>11, <1>12 DEF n, a

LEMMA PushedIs ==
  ASSUME NEW q, NEW g, NEW s, NEW c, ~(Len(s) >= MaxCmds)
  PROVE  Pushed([seq |-> q, flags |-> g, cmds |-> s], c) = [seq |-> q, flags |-> g, cmds |-> Append(s, c)]
  <1> DEFINE f == [seq |-> q, flags |-> g, cmds |-> s]
             more == Append(s, c)
  <1>1. f.cmds = s
    OBVIOUS
  <1>2. [f EXCEPT !.cmds = more] = [seq |-> q, flags |-> g, cmds |-> more]
    <2> HIDE DEF more
    <2> QED OBVIOUS
  <1> HIDE DEF f
  <1>3. Pushed(f, c) = [f EXCEPT !.cmds = more]
    BY <1>1 DEF Pushed
  <1> QED BY <1>2, <1>3 DEF f
(* bcp_decode of what bcp_encode wrote.                                    *)
THEOREM RoundTrip ==
  ASSUME NEW f \in Filled, Fits(f)
  PROVE  Verdict(Encoded(f)) = "OK" /\ Contents(Encoded(f)).frame = Meant(f)
  <1> DEFINE b == Encoded(f)
             N == Len(f.cmds)
             t == WireLen(f)
             Read(m) == [seq |-> f.seq, flags |-> 0, cmds |-> [i \in 1..m |-> Carried(f.cmds[i])]]
  <1>1. t \in Nat /\ t >= 10 /\ t <= MaxFrameLen
    <2>1. t < 256 * 256 /\ t <= MaxFrameLen
      BY WireLenIs
    <2>2. t \in Words /\ t >= 10
      BY <2>1, EncodedPlaces
    <2> HIDE DEF t
    <2> QED BY <2>1, <2>2, OfWords
  <1>2. PICK u : Places(b, u, f)
    BY WireLenIs, EncodedPlaces
  <1>3. N \in Nat /\ N <= MaxCmds /\ f.flags = 0 /\ f.cmds \in Seq(Samples)
        /\ \A n \in 1..N : f.cmds[n] \in Samples
    BY FilledIs
  <1> HIDE DEF b
  <1>4. /\ LenWalk(u, f) /\ b \in Seq(Octets) /\ Len(b) = t
        /\ b[1] = Magic /\ b[2] = Version /\ Word(b, 3) = t
        /\ Word(b, 5) = f.seq /\ b[7] = N /\ b[8] = 0
        /\ b[t - 1] + 256 * b[t] = Crc(SubSeq(b, 1, t - 2))
        /\ \A n \in 1..N :
             u[n - 1] \in Nat /\ u[n - 1] >= 10 /\ u[n] <= t /\ CommandAt(b, u[n - 1] - 2, f.cmds[n])
    <2>1. 3 + 1 = 4 /\ 5 + 1 = 6
      OBVIOUS
    <2> QED BY <1>2, <1>3, <2>1 DEF Places, Word
  <1>5. u[0] = 10 /\ \A n \in 1..N : u[n] = u[n - 1] + 3 + PayloadLen(f.cmds[n])
    BY <1>4 DEF LenWalk
  <1> HIDE DEF N, t
  <1>6. Readable(b)
    BY <1>1, <1>4 DEF Readable
  <1>7. PICK v : ContentsWalk(v, b)
    BY <1>6, ContentsWalks
  <1>8. /\ v[0] = [err |-> "OK", pos |-> 8, frame |-> [seq |-> f.seq, flags |-> 0, cmds |-> <<>>]]
        /\ \A n \in 1..N : v[n] = Parsed(b, v[n - 1])
        /\ Contents(b) = v[N]
    BY <1>4, <1>7 DEF ContentsWalk
  <1> DEFINE T == {n \in 0..N : v[n] = [err |-> "OK", pos |-> u[n] - 2, frame |-> Read(n)]}
  <1>9. 0 \in T
    <2>1. [i \in 1..0 |-> Carried(f.cmds[i])] = <<>>
      OBVIOUS
    <2>2. Read(0) = [seq |-> f.seq, flags |-> 0, cmds |-> <<>>]
      BY <2>1
    <2>3. u[0] - 2 = 8 /\ 0 \in 0..N
      BY <1>3, <1>5
    <2> HIDE DEF Read
    <2> QED BY <1>8, <2>2, <2>3
  <1>10. ASSUME NEW n \in 0..(N - 1), n \in T PROVE n + 1 \in T
    <2> DEFINE c == f.cmds[n + 1]
               k == PayloadLen(c)
               at == u[n] - 2
    <2>1. n + 1 \in 1..N /\ n + 1 \in 0..N /\ (n + 1) - 1 = n /\ n \in Nat /\ n < MaxCmds
      BY <1>3, CodecAssumption DEF Octets
    <2>2. c \in Samples /\ u[n] \in Nat /\ u[n] >= 10 /\ u[n + 1] <= t /\ CommandAt(b, at, c)
          /\ u[n + 1] = u[n] + 3 + k
      BY <1>3, <1>4, <1>5, <2>1
    <2>3. k \in Nat
      BY <2>2, PayloadLenIn, OfOctets
    <2> HIDE DEF k, c
    <2>4. at \in Nat /\ at + 3 + k = u[n + 1] - 2 /\ at + 3 + k <= t - 2
      BY <1>1, <2>2, <2>3
    <2>5. v[n] = [err |-> "OK", pos |-> at, frame |-> Read(n)] /\ v[n + 1] = Parsed(b, v[n])
      BY <1>8, <1>10, <2>1
    <2> HIDE DEF at, Read
    <2>6. t = Word(b, 3) /\ t \in Nat /\ t <= Len(b) /\ b \in Seq(Octets)
      BY <1>1, <1>4
    <2>7. Parsed(b, [err |-> "OK", pos |-> at, frame |-> Read(n)])
            = [err |-> "OK", pos |-> at + 3 + k, frame |-> Pushed(Read(n), Carried(c))]
      BY <2>2, <2>4, <2>6, CommandReads DEF k
    <2>8. v[n + 1] = [err |-> "OK", pos |-> u[n + 1] - 2, frame |-> Pushed(Read(n), Carried(c))]
      BY <2>4, <2>5, <2>7
    <2>9. Pushed(Read(n), Carried(c)) = Read(n + 1)
      <3> DEFINE C(i) == Carried(f.cmds[i])
                 s == [i \in 1..n |-> C(i)]
      <3>1. Read(n) = [seq |-> f.seq, flags |-> 0, cmds |-> s]
        BY DEF Read
      <3>2. Read(n + 1) = [seq |-> f.seq, flags |-> 0, cmds |-> [i \in 1..(n + 1) |-> C(i)]]
        BY DEF Read
      <3>3. Carried(c) = C(n + 1)
        BY DEF c
      <3> HIDE DEF C
      <3>4. s \in Seq({C(i) : i \in 1..(n + 1)}) /\ Len(s) = n
        BY <2>1
      <3>5. Append(s, C(n + 1)) = [i \in 1..(n + 1) |-> C(i)]
        BY <2>1
      <3> HIDE DEF s
      <3>6. ~(Len(s) >= MaxCmds)
        BY <2>1, <3>4, CodecAssumption DEF Octets
      <3>7. Pushed([seq |-> f.seq, flags |-> 0, cmds |-> s], C(n + 1))
              = [seq |-> f.seq, flags |-> 0, cmds |-> Append(s, C(n + 1))]
        BY <3>6, PushedIs
      <3> QED BY <3>1, <3>2, <3>3, <3>5, <3>7
    <2> QED BY <2>1, <2>8, <2>9 DEF Read
  <1> HIDE DEF T
  <1>11. N \in T
    <2>1. N \in 0..N
      BY <1>3
    <2> QED BY <1>3, <1>9, <1>10, <2>1, InductionTo
  <1>12. Contents(b).err = "OK" /\ Contents(b).frame = Read(N)
    BY <1>8, <1>11 DEF T
  <1>13. Read(N) = Meant(f)
    <2>1. f \in Decodable /\ f # NoFrame
      <3>1. f \in [seq : Seqs, flags : {0}, cmds : Seq(Samples)]
        BY DEF Filled
      <3>2. Seq(Samples) \subseteq Seq(Commands)
        <4>1. Samples \subseteq Commands
          BY SampleIs
        <4> QED BY <4>1
      <3>3. f.seq \in Words /\ 0 \in Octets
        BY FilledIs, OctetIn
      <3>4. f \in Decodable
        BY <3>1, <3>2, <3>3 DEF Decodable
      <3> QED BY <3>4, NoFrameApart
    <2>2. Meant(f) = [f EXCEPT !.cmds = [i \in DOMAIN f.cmds |-> Carried(f.cmds[i])]]
      BY <2>1 DEF Meant
    <2>3. DOMAIN f.cmds = 1..N
      BY <1>3 DEF N
    <2>4. f = [seq |-> f.seq, flags |-> 0, cmds |-> f.cmds]
      BY <1>3, <2>1 DEF Decodable
    <2> DEFINE s == [i \in 1..N |-> Carried(f.cmds[i])]
    <2>5. Meant(f) = [f EXCEPT !.cmds = s]
      BY <2>2, <2>3
    <2> HIDE DEF s
    <2>6. Meant(f) = [seq |-> f.seq, flags |-> 0, cmds |-> s]
      BY <2>4, <2>5
    <2> QED BY <2>6 DEF s
  <1> HIDE DEF Read
  <1>14. Verdict(b) = "OK"
    <2>1. MinFrameLen = 10 /\ CrcLen = 2
      BY DEF MinFrameLen, HeaderLen, CrcLen
    <2>2. ~(Len(b) < MinFrameLen) /\ ~(Len(b) < t) /\ t \in MinFrameLen..MaxFrameLen
      BY <1>1, <1>4, <2>1, CodecAssumption
    <2>3. Word(b, t - 1) = Crc(SubSeq(b, 1, t - CrcLen))
      <3>1. (t - 1) + 1 = t
        BY <1>1
      <3> QED BY <1>4, <2>1, <3>1 DEF Word
    <2>4. ~(b[7] > MaxCmds)
      BY <1>3, <1>4, CodecAssumption DEF Octets
    <2>5. Verdict(b) = IF Len(b) < MinFrameLen THEN "INCOMPLETE"
                       ELSE IF b[1] # Magic THEN "BAD_MAGIC"
                       ELSE IF b[2] # Version THEN "BAD_VERSION"
                       ELSE IF t \notin MinFrameLen..MaxFrameLen THEN "BAD_FRAME_LEN"
                       ELSE IF Len(b) < t THEN "INCOMPLETE"
                       ELSE IF Word(b, t - 1) # Crc(SubSeq(b, 1, t - CrcLen)) THEN "CRC_MISMATCH"
                       ELSE IF b[7] > MaxCmds THEN "TOO_MANY"
                       ELSE Contents(b).err
      BY <1>4 DEF Verdict
    <2> QED BY <1>4, <1>12, <2>2, <2>3, <2>4, <2>5
  <1> QED BY <1>12, <1>13, <1>14 DEF b

(* An accepted frame is a frame.                                           *)
LEMMA VerdictIs ==
  ASSUME NEW b \in Seq(Octets)
  PROVE  /\ Verdict(b) \in DOMAIN Errors \cup {"OK"}
         /\ Verdict(b) = "OK" => Contents(b).frame \in Decodable
  <1> DEFINE t == Word(b, 3)
             E == {"INCOMPLETE", "BAD_MAGIC", "BAD_VERSION", "BAD_FRAME_LEN", "CRC_MISMATCH", "TOO_MANY"}
  <1>1. E \subseteq DOMAIN Errors /\ "OK" \notin E
    BY DEF Errors
  <1>2. MinFrameLen = 10
    BY DEF MinFrameLen, HeaderLen, CrcLen
  <1>3. \/ Verdict(b) \in E
        \/ ~(Len(b) < t) /\ t \in 10..MaxFrameLen /\ Verdict(b) = Contents(b).err
    BY <1>2 DEF Verdict
  <1>4. CASE Verdict(b) \in E
    <2> HIDE DEF E
    <2> QED BY <1>1, <1>4
  <1>5. CASE ~(Len(b) < t) /\ t \in 10..MaxFrameLen /\ Verdict(b) = Contents(b).err
    <2>1. Readable(b)
      <3> DEFINE l == Len(b)
      <3>1. l \in Nat /\ ~(l < t) /\ t \in 10..MaxFrameLen
        BY <1>5
      <3> HIDE DEF l, t
      <3>2. t \in Nat /\ 10 <= t /\ t <= l
        BY <3>1, CodecAssumption
      <3> QED BY <3>2 DEF Readable, l, t
    <2>2. Contents(b).err \in {"OK", "INCOMPLETE"} /\ Contents(b).frame \in Decodable
      BY <2>1, ContentsIn
    <2>3. "INCOMPLETE" \in DOMAIN Errors
      BY DEF Errors
    <2> QED BY <1>5, <2>2, <2>3
  <1> QED BY <1>3, <1>4, <1>5
-----------------------------------------------------------------------------
(* What is handed over, and what becomes of it on the way.                 *)

LEMMA PrefixIn ==
  ASSUME NEW b \in Seq(Octets), NEW n \in 0..Len(b)
  PROVE  SubSeq(b, 1, n) \in Seq(Octets)
  <1> DEFINE l == Len(b)
  <1>1. l \in Nat /\ n \in 0..l /\ \A i \in 1..l : b[i] \in Octets
    OBVIOUS
  <1> HIDE DEF l
  <1>2. n \in Nat /\ \A i \in 1..n : i \in 1..l
    BY <1>1
  <1>3. 1 \in Int /\ n \in Int /\ \A i \in 1..n : b[i] \in Octets
    BY <1>1, <1>2
  <1> QED BY <1>3, SubSeqProperties

LEMMA HandedIn ==
  ASSUME NEW f \in Filled
  PROVE  Handed(f) \in Seq(Octets)
  <1>1. CASE Fits(f)
    <2>1. WireLen(f) < 256 * 256
      BY <1>1, WireLenIs
    <2>2. \E u : Places(Encoded(f), u, f)
      BY <2>1, EncodedPlaces
    <2>3. Encoded(f) \in Seq(Octets)
      BY <2>2 DEF Places
    <2> QED BY <1>1, <2>3 DEF Handed
  <1>2. CASE ~Fits(f)
    <2> DEFINE g == FrameStart(f.seq)
               b == Encoded(g)
    <2>1. g \in Filled /\ Len(g.cmds) = 0
      <3>1. f.seq \in Seqs
        BY FilledIs
      <3>2. 0 <= MaxCmds
        BY CodecAssumption DEF Octets
      <3> QED BY <3>1, <3>2 DEF Filled, FrameStart
    <2> HIDE DEF g
    <2>2. WireLen(g) = 10 /\ WireLen(g) < 256 * 256
      BY <2>1, WireLenIs
    <2>3. \E u : Places(b, u, g)
      BY <2>1, <2>2, EncodedPlaces
    <2>4. b \in Seq(Octets) /\ Len(b) = 10
      BY <2>2, <2>3 DEF Places
    <2> HIDE DEF b
    <2>5. 9 \in 0..Len(b)
      BY <2>4
    <2>6. SubSeq(b, 1, 9) \in Seq(Octets)
      BY <2>4, <2>5, PrefixIn
    <2>7. Leftovers(f) = SubSeq(b, 1, 9)
      BY DEF Leftovers, Errors, b, g
    <2> QED BY <1>2, <2>6, <2>7 DEF Handed
  <1> QED BY <1>1, <1>2

LEMMA DamagedIn ==
  ASSUME NEW chunks \in Seq(Seq(Octets)), NEW b \in Damaged(chunks)
  PROVE  b \in Seq(Octets)
  <1> DEFINE bytes == FlattenSeq(chunks)
  <1>1. bytes \in Seq(Octets)
    BY FlatIn
  <1>2. \/ \E i \in DOMAIN bytes, x \in Flips : b = [bytes EXCEPT ![i] = XorByte[bytes[i]][x]]
        \/ \E n \in 0..(Len(bytes) - 1) : b = SubSeq(bytes, 1, n)
        \/ \E i \in DOMAIN chunks : b = FlattenSeq(RemoveAt(chunks, i))
    BY DEF Damaged
  <1> HIDE DEF bytes
  <1>3. ASSUME NEW i \in DOMAIN bytes, NEW x \in Flips PROVE [bytes EXCEPT ![i] = XorByte[bytes[i]][x]] \in Seq(Octets)
    <2>1. i \in 1..Len(bytes) /\ bytes[i] \in Octets
      BY <1>1, LenProperties
    <2>2. x \in Octets
      BY LinkAssumption
    <2>3. XorByte[bytes[i]][x] \in Octets
      BY <2>1, <2>2, XorByteIn
    <2> QED BY <1>1, <2>1, <2>3, ExceptSeq
  <1>4. ASSUME NEW n \in 0..(Len(bytes) - 1) PROVE SubSeq(bytes, 1, n) \in Seq(Octets)
    <2>1. n \in 0..Len(bytes)
      BY <1>1, LenProperties
    <2> QED BY <1>1, <2>1, PrefixIn
  <1>5. ASSUME NEW i \in DOMAIN chunks PROVE FlattenSeq(RemoveAt(chunks, i)) \in Seq(Octets)
    <2>1. RemoveAt(chunks, i) \in Seq(Seq(Octets))
      <3> DEFINE l == Len(chunks)
      <3>1. l \in Nat /\ i \in 1..l /\ \A j \in 1..l : chunks[j] \in Seq(Octets)
        BY LenProperties
      <3> HIDE DEF l
      <3>2. \A j \in 1..(i - 1) : chunks[j] \in Seq(Octets)
        BY <3>1
      <3>3. \A j \in (i + 1)..l : chunks[j] \in Seq(Octets)
        BY <3>1
      <3>4. SubSeq(chunks, 1, i - 1) \in Seq(Seq(Octets))
        BY <3>1, <3>2, SubSeqProperties
      <3>5. SubSeq(chunks, i + 1, l) \in Seq(Seq(Octets))
        BY <3>1, <3>3, SubSeqProperties
      <3> QED BY <3>4, <3>5, ConcatProperties DEF RemoveAt, l
    <2> QED BY <2>1, FlatIn
  <1> QED BY <1>2, <1>3, <1>4, <1>5

-----------------------------------------------------------------------------
(* The bytes on their way are those that the encoder wrote for the frame   *)
(* they are said to be made from.                                          *)
LInv ==
  /\ LinkTypeOK /\ IntactAccepted
  /\ sent # NoFrame => Fits(sent) /\ FlattenSeq(wire) = Encoded(sent)

LEMMA FilledApart ==
  ASSUME NEW f \in Filled
  PROVE  f \in Decodable /\ f # NoFrame
  <1>1. f.seq \in Words /\ f.flags \in Octets /\ f \in [seq : Seqs, flags : {0}, cmds : Seq(Samples)]
    BY FilledIs, OctetIn DEF Filled
  <1>2. Seq(Samples) \subseteq Seq(Commands)
    <2>1. Samples \subseteq Commands
      BY SampleIs
    <2> QED BY <2>1
  <1>3. f \in Decodable
    BY <1>1, <1>2 DEF Decodable
  <1> QED BY <1>3, NoFrameApart

LEMMA LinkStarts == LinkInit => LInv
  <1> SUFFICES ASSUME LinkInit PROVE LInv
    OBVIOUS
  <1>1. frame = NoFrame /\ wire = <<>> /\ sent = NoFrame /\ rx = Nothing
    BY DEF LinkInit
  <1>2. Nothing.err = "none" /\ Nothing.frame = NoFrame /\ Nothing.whole = NoFrame
        /\ Nothing \in [err : DOMAIN Errors \cup {"OK", "none"}, frame : Decodable \cup {NoFrame},
                        whole : Filled \cup {NoFrame}]
    BY DEF Nothing
  <1>3. wire \in Seq(Seq(Octets))
    BY <1>1
  <1> QED BY <1>1, <1>2, <1>3 DEF LInv, LinkTypeOK, IntactAccepted
LEMMA StartsFilled ==
  ASSUME NEW s \in Seqs
  PROVE  FrameStart(s) \in Filled
  <1>1. 0 <= MaxCmds /\ Len(<<>>) = 0 /\ <<>> \in Seq(Samples)
    BY CodecAssumption DEF Octets
  <1> QED BY <1>1 DEF Filled, FrameStart

LEMMA PushedFilled ==
  ASSUME NEW f \in Filled, NEW c \in Samples
  PROVE  Pushed(f, c) \in Filled
  <1> DEFINE n == Len(f.cmds)
             s == Append(f.cmds, c)
  <1>1. f \in [seq : Seqs, flags : {0}, cmds : Seq(Samples)] /\ n \in Nat /\ MaxCmds \in Nat
    BY FilledIs, CodecAssumption, OfOctets DEF Filled
  <1>2. CASE n >= MaxCmds
    BY <1>2 DEF Pushed
  <1>3. CASE ~(n >= MaxCmds)
    <2>1. s \in Seq(Samples) /\ Len(s) = n + 1
      BY <1>1
    <2>2. Pushed(f, c) = [f EXCEPT !.cmds = s]
      BY <1>3 DEF Pushed
    <2> HIDE DEF s, n
    <2>3. Pushed(f, c) \in [seq : Seqs, flags : {0}, cmds : Seq(Samples)] /\ Pushed(f, c).cmds = s
      BY <1>1, <2>1, <2>2
    <2>4. n + 1 <= MaxCmds
      BY <1>1, <1>3
    <2> QED BY <2>1, <2>3, <2>4 DEF Filled
  <1> QED BY <1>2, <1>3

LEMMA BeginKeeps == LInv /\ Begin => LInv'
  <1> SUFFICES ASSUME LInv, Begin PROVE LInv'
    OBVIOUS
  <1>1. /\ LinkTypeOK /\ IntactAccepted
        /\ sent # NoFrame => Fits(sent) /\ FlattenSeq(wire) = Encoded(sent)
    BY DEF LInv
  <1>2. PICK s \in Seqs : frame' = FrameStart(s)
    BY DEF Begin
  <1>3. wire' = wire /\ sent' = sent /\ rx' = Nothing
    BY DEF Begin
  <1>4. frame' \in Filled
    BY <1>2, StartsFilled
  <1>5. Nothing.err = "none" /\ Nothing.frame = NoFrame /\ Nothing.whole = NoFrame
        /\ Nothing \in [err : DOMAIN Errors \cup {"OK", "none"}, frame : Decodable \cup {NoFrame},
                        whole : Filled \cup {NoFrame}]
    BY DEF Nothing
  <1>6. LinkTypeOK'
    BY <1>1, <1>3, <1>4, <1>5 DEF LinkTypeOK
  <1>7. IntactAccepted'
    BY <1>3, <1>5 DEF IntactAccepted
  <1> QED BY <1>1, <1>3, <1>6, <1>7 DEF LInv

LEMMA PushKeeps == LInv /\ Push => LInv'
  <1> SUFFICES ASSUME LInv, Push PROVE LInv'
    OBVIOUS
  <1>1. /\ LinkTypeOK /\ IntactAccepted
        /\ sent # NoFrame => Fits(sent) /\ FlattenSeq(wire) = Encoded(sent)
    BY DEF LInv
  <1>2. frame # NoFrame /\ wire' = wire /\ sent' = sent /\ rx' = rx
    BY DEF Push
  <1>3. PICK c \in Samples : frame' = Pushed(frame, c)
    <2>1. Followers \subseteq Samples
      BY LinkAssumption
    <2> QED BY <2>1 DEF Push
  <1>4. frame \in Filled
    BY <1>1, <1>2 DEF LinkTypeOK
  <1>5. frame' \in Filled
    BY <1>3, <1>4, PushedFilled
  <1>6. LinkTypeOK'
    BY <1>1, <1>2, <1>5 DEF LinkTypeOK
  <1>7. IntactAccepted'
    BY <1>1, <1>2 DEF IntactAccepted
  <1> QED BY <1>1, <1>2, <1>6, <1>7 DEF LInv

LEMMA SendKeeps == LInv /\ Send => LInv'
  <1> SUFFICES ASSUME LInv, Send PROVE LInv'
    OBVIOUS
  <1>1. LinkTypeOK /\ IntactAccepted
    BY DEF LInv
  <1> DEFINE bytes == Handed(frame)
  <1>2. frame # NoFrame /\ frame' = NoFrame /\ rx' = rx /\ wire' \in {<<bytes>>, Chunks(bytes)}
        /\ sent' = (IF Fits(frame) THEN frame ELSE NoFrame)
    BY DEF Send
  <1>3. frame \in Filled
    BY <1>1, <1>2 DEF LinkTypeOK
  <1>4. bytes \in Seq(Octets)
    BY <1>3, HandedIn
  <1>5. Fits(frame) => bytes = Encoded(frame)
    BY DEF Handed
  <1> HIDE DEF bytes
  <1>6. wire' \in Seq(Seq(Octets)) /\ FlattenSeq(wire') = bytes
    <2>1. CASE wire' = <<bytes>>
      <3>1. <<bytes>> \in Seq(Seq(Octets))
        BY <1>4
      <3> QED BY <1>4, <2>1, <3>1, FlatOne
    <2>2. CASE wire' = Chunks(bytes)
      BY <1>4, <2>2, ChunksTogether
    <2> QED BY <1>2, <2>1, <2>2
  <1>7. LinkTypeOK'
    BY <1>1, <1>2, <1>3, <1>6 DEF LinkTypeOK
  <1>8. IntactAccepted'
    BY <1>1, <1>2 DEF IntactAccepted
  <1>9. sent' # NoFrame => Fits(sent') /\ FlattenSeq(wire') = Encoded(sent')
    BY <1>2, <1>5, <1>6
  <1> QED BY <1>7, <1>8, <1>9 DEF LInv, Fits, Encoded

(* What the receiver makes of any bytes.                                   *)
Received(b, f) ==
  [err |-> Verdict(b), frame |-> IF Verdict(b) = "OK" THEN Contents(b).frame ELSE NoFrame, whole |-> f]

LEMMA ReceivedIs ==
  ASSUME NEW b \in Seq(Octets), NEW f \in Filled \cup {NoFrame}
  PROVE  /\ Received(b, f) \in [err : DOMAIN Errors \cup {"OK", "none"}, frame : Decodable \cup {NoFrame},
                               whole : Filled \cup {NoFrame}]
         /\ Received(b, f).frame # NoFrame <=> Received(b, f).err = "OK"
  <1> DEFINE e == Verdict(b)
             g == IF e = "OK" THEN Contents(b).frame ELSE NoFrame
  <1>1. e \in DOMAIN Errors \cup {"OK"} /\ (e = "OK" => Contents(b).frame \in Decodable)
    BY VerdictIs
  <1>2. g \in Decodable \cup {NoFrame} /\ (g # NoFrame <=> e = "OK")
    BY <1>1, NoFrameApart
  <1>3. Received(b, f) = [err |-> e, frame |-> g, whole |-> f]
    BY DEF Received
  <1> HIDE DEF e, g
  <1> QED BY <1>1, <1>2, <1>3

LEMMA ReceiveKeeps == LInv /\ Receive => LInv'
  <1> SUFFICES ASSUME LInv, Receive PROVE LInv'
    OBVIOUS
  <1>1. /\ LinkTypeOK
        /\ sent # NoFrame => Fits(sent) /\ FlattenSeq(wire) = Encoded(sent)
    BY DEF LInv
  <1>2. wire \in Seq(Seq(Octets)) /\ sent \in Filled \cup {NoFrame} /\ frame \in Filled \cup {NoFrame}
    BY <1>1 DEF LinkTypeOK
  <1>3. PICK b \in {FlattenSeq(wire)} \cup Damaged(wire) :
          rx' = Received(b, IF b = FlattenSeq(wire) THEN sent ELSE NoFrame)
    BY DEF Receive, Received
  <1>4. wire' = <<>> /\ sent' = NoFrame /\ frame' = frame
    BY DEF Receive
  <1> DEFINE f == IF b = FlattenSeq(wire) THEN sent ELSE NoFrame
  <1>5. b \in Seq(Octets)
    BY <1>2, FlatIn, DamagedIn
  <1>6. f \in Filled \cup {NoFrame}
    BY <1>2
  <1>7. rx' = Received(b, f)
    BY <1>3
  <1>8. f # NoFrame => f \in Filled /\ Fits(f) /\ b = Encoded(f)
    BY <1>1, <1>6
  <1> HIDE DEF f
  <1>9. /\ rx' \in [err : DOMAIN Errors \cup {"OK", "none"}, frame : Decodable \cup {NoFrame},
                    whole : Filled \cup {NoFrame}]
        /\ rx'.frame # NoFrame <=> rx'.err = "OK"
    BY <1>5, <1>6, <1>7, ReceivedIs
  <1>10. wire' \in Seq(Seq(Octets))
    BY <1>4
  <1>11. LinkTypeOK'
    BY <1>2, <1>4, <1>9, <1>10 DEF LinkTypeOK
  <1>12. rx'.whole = f /\ rx'.err = Verdict(b) /\ (Verdict(b) = "OK" => rx'.frame = Contents(b).frame)
    BY <1>7 DEF Received
  <1>13. f # NoFrame => rx'.err = "OK" /\ rx'.frame = Meant(f)
    BY <1>8, <1>12, RoundTrip
  <1>14. IntactAccepted'
    <2>1. rx'.whole # NoFrame => rx'.err = "OK" /\ rx'.frame = Meant(rx'.whole)
      BY <1>12, <1>13
    <2> QED BY <2>1 DEF IntactAccepted, Meant
  <1> QED BY <1>4, <1>11, <1>14 DEF LInv

LEMMA LinkKeeps == LInv /\ [LinkNext]_linkVars => LInv'
  <1> SUFFICES ASSUME LInv, [LinkNext]_linkVars PROVE LInv'
    OBVIOUS
  <1>1. CASE Begin
    BY <1>1, BeginKeeps
  <1>2. CASE Push
    BY <1>2, PushKeeps
  <1>3. CASE Send
    BY <1>3, SendKeeps
  <1>4. CASE Receive
    BY <1>4, ReceiveKeeps
  <1>5. CASE UNCHANGED linkVars
    <2>1. frame' = frame /\ wire' = wire /\ sent' = sent /\ rx' = rx
      BY <1>5 DEF linkVars
    <2>2. LinkTypeOK' /\ IntactAccepted'
      BY <2>1 DEF LInv, LinkTypeOK, IntactAccepted
    <2> QED BY <2>1, <2>2 DEF LInv
  <1> QED BY <1>1, <1>2, <1>3, <1>4, <1>5 DEF LinkNext

LEMMA LinkKept == LinkSpec => []LInv
  BY LinkStarts, LinkKeeps, PTL DEF LinkSpec

(* Whatever the commands, the size of a notification and the room in the   *)
(* buffers, bcp_frame_push never holds more commands than a frame has room *)
(* for, what ble_send_frame and the damage on the way make is bytes, and   *)
(* bcp_decode says OK exactly when it has a frame to show.                 *)
THEOREM LinkTypes == LinkSpec => []LinkTypeOK
  <1>1. LInv => LinkTypeOK
    BY DEF LInv
  <1> QED BY <1>1, LinkKept, PTL

(* Of every frame that fits into the encoder's buffer, sent in one piece   *)
(* or in notifications of any size, bcp_decode accepts the bytes that      *)
(* bcp_encode wrote and reads from them what the frame carries.            *)
THEOREM FramesAreRead == LinkSpec => []IntactAccepted
  <1>1. LInv => IntactAccepted
    BY DEF LInv
  <1> QED BY <1>1, LinkKept, PTL

-----------------------------------------------------------------------------
(* An iteration has yet to deal with an outage it saw, or saw none. *)
Pending(ok) == pc # "act" \/ ~ok

(* No stamp is older than the outage it stands for: outside direct mode    *)
(* wifi_lost_at is not set, and ble_lost_at is cleared before bridge mode  *)
(* is entered from advertising and before offline mode is entered.         *)
StampsFresh ==
  /\ state # "WS_CONNECTED" => wifiLost = 0
  /\ state = "WS_CONNECTED" /\ Pending(wsOk) => wifiLost <= wsGone
  /\ state = "OFFLINE" => bleLost = 0
  /\ state = "BLE_CONNECTED" /\ Pending(bleOk) => bleLost <= bleGone

(* What an iteration saw is what the history counted. *)
CopyCounted ==
  pc = "act" => /\ wsOk <=> wsGone = 0
                /\ bleOk <=> bleGone = 0

(* ws_connect has marked the client before it sets the bit. *)
MarkedFirst == pc = "connect" => wsConnected

IInv == TypeOK /\ BitNeedsSocket /\ StampsFresh /\ CopyCounted /\ MarkedFirst

USE ConnAssumption DEF bits, copy, lost, history, States

LEMMA InitIInv == Init => IInv
  <1> SUFFICES ASSUME Init PROVE IInv
    OBVIOUS
  <1>1. TypeOK
    <2>1. 0 \in 0..(ConnectTimeout + 1) /\ 0 \in 0..(WsGrace + 2) /\ 0 \in 0..(BleGrace + 2)
      OBVIOUS
    <2> QED
      BY <2>1 DEF Init, TypeOK
  <1>2. BitNeedsSocket
    BY DEF Init, BitNeedsSocket
  <1>3. StampsFresh
    BY DEF Init, StampsFresh, Pending
  <1>4. CopyCounted
    BY DEF Init, CopyCounted
  <1>5. MarkedFirst
    BY DEF Init, MarkedFirst
  <1> QED
    BY <1>1, <1>2, <1>3, <1>4, <1>5 DEF IInv

(* The event handler and the Bluetooth stack touch neither the loop's copy *)
(* nor its stamps.                                                         *)
LEMMA EventStep ==
  ASSUME IInv, GotIp \/ Disconnected \/ ClearWsBit \/ Phone PROVE IInv'
  <1>1. CASE GotIp
    BY <1>1 DEF GotIp, IInv, TypeOK, BitNeedsSocket, StampsFresh, Pending, CopyCounted, MarkedFirst
  <1>2. CASE Disconnected
    <2>1. TypeOK'
      BY <1>2 DEF IInv, TypeOK, Disconnected
    <2>2. BitNeedsSocket'
      BY <1>2 DEF IInv, BitNeedsSocket, Disconnected
    <2>3. StampsFresh'
      BY <1>2 DEF IInv, StampsFresh, Pending, TypeOK, Disconnected
    <2>4. CopyCounted'
      BY <1>2 DEF IInv, CopyCounted, Disconnected
    <2>5. MarkedFirst'
      BY <1>2 DEF IInv, MarkedFirst, Disconnected
    <2> QED
      BY <2>1, <2>2, <2>3, <2>4, <2>5 DEF IInv
  <1>3. CASE ClearWsBit
    <2>1. TypeOK'
      BY <1>3 DEF IInv, TypeOK, ClearWsBit
    <2>2. BitNeedsSocket'
      BY <1>3 DEF IInv, BitNeedsSocket, ClearWsBit
    <2>3. StampsFresh'
      BY <1>3 DEF IInv, StampsFresh, Pending, TypeOK, ClearWsBit
    <2>4. CopyCounted'
      BY <1>3 DEF IInv, CopyCounted, ClearWsBit
    <2>5. MarkedFirst'
      BY <1>3 DEF IInv, MarkedFirst, ClearWsBit
    <2> QED
      BY <2>1, <2>2, <2>3, <2>4, <2>5 DEF IInv
  <1>4. CASE Phone
    BY <1>4 DEF Phone, IInv, TypeOK, BitNeedsSocket, StampsFresh, Pending, CopyCounted, MarkedFirst
  <1> QED
    BY <1>1, <1>2, <1>3, <1>4

(* What the bounded counts do. *)
LEMMA CountBounds ==
  ASSUME NEW n \in Nat, NEW limit \in Nat, n <= limit + 1
  PROVE  /\ Count(n, limit) \in 1..(limit + 1)
         /\ Count(n, limit) >= n
         /\ Count(n, limit) = n + 1 \/ Count(n, limit) = limit + 1
  BY DEF Count

LEMMA SampleStep ==
  ASSUME IInv, Sample PROVE IInv'
  <1> USE DEF IInv
  <1>1. TypeOK'
    BY CountBounds DEF TypeOK, Sample, Count, Aged
  <1>2. BitNeedsSocket'
    BY DEF BitNeedsSocket, Sample
  <1>3. StampsFresh'
    BY DEF StampsFresh, Pending, Sample, Count, Aged, TypeOK
  <1>4. CopyCounted'
    BY DEF CopyCounted, Sample, Count, TypeOK
  <1>5. MarkedFirst'
    BY DEF Sample, MarkedFirst
  <1> QED
    BY <1>1, <1>2, <1>3, <1>4, <1>5

(* The iterations that change the mode without looking at a stamp. *)
LEMMA PlainStep ==
  ASSUME IInv,
         Boot \/ AwaitWifi \/ Connect \/ SetWsBit \/ AwaitWs \/ Disconnect
           \/ ResetWsBit \/ Offline
  PROVE  IInv'
  <1>1. CASE Boot
    BY <1>1 DEF Boot, In, Sleep, Else,
       IInv, TypeOK, BitNeedsSocket, StampsFresh, Pending, CopyCounted, MarkedFirst
  <1>2. CASE AwaitWifi
    BY <1>2 DEF AwaitWifi, In, Sleep, Else,
       IInv, TypeOK, BitNeedsSocket, StampsFresh, Pending, CopyCounted, MarkedFirst
  <1>3. CASE Connect
    BY <1>3 DEF Connect, MarkConnected, EnterLater, In, Sleep, Else,
       IInv, TypeOK, BitNeedsSocket, StampsFresh, Pending, CopyCounted, MarkedFirst
  <1>4. CASE SetWsBit
    <2>1. TypeOK'
      BY <1>4 DEF IInv, TypeOK, SetWsBit, In, Sleep, Else
    <2>2. BitNeedsSocket'
      BY <1>4 DEF IInv, BitNeedsSocket, MarkedFirst, SetWsBit, In, Sleep, Else
    <2>3. StampsFresh'
      BY <1>4 DEF IInv, StampsFresh, Pending, TypeOK, SetWsBit, In, Sleep, Else
    <2>4. CopyCounted'
      BY <1>4 DEF IInv, CopyCounted, SetWsBit, In, Sleep, Else
    <2>5. MarkedFirst'
      BY <1>4 DEF IInv, MarkedFirst, SetWsBit, In, Sleep, Else
    <2> QED
      BY <2>1, <2>2, <2>3, <2>4, <2>5 DEF IInv
  <1>5. CASE AwaitWs
    <2>1. TypeOK'
      BY <1>5 DEF IInv, TypeOK, AwaitWs, In, Sleep, Else
    <2>2. BitNeedsSocket'
      BY <1>5 DEF IInv, BitNeedsSocket, AwaitWs, In, Sleep, Else
    <2>3. StampsFresh'
      BY <1>5 DEF IInv, StampsFresh, Pending, TypeOK, AwaitWs, In, Sleep, Else
    <2>4. CopyCounted'
      BY <1>5 DEF IInv, CopyCounted, AwaitWs, In, Sleep, Else
    <2>5. MarkedFirst'
      BY <1>5 DEF IInv, MarkedFirst, AwaitWs, In, Sleep, Else
    <2> QED
      BY <2>1, <2>2, <2>3, <2>4, <2>5 DEF IInv
  <1>6. CASE Disconnect
    BY <1>6 DEF Disconnect, In, Sleep, Else,
       IInv, TypeOK, BitNeedsSocket, StampsFresh, Pending, CopyCounted, MarkedFirst
  <1>7. CASE ResetWsBit
    BY <1>7 DEF ResetWsBit, In, Sleep, Else,
       IInv, TypeOK, BitNeedsSocket, StampsFresh, Pending, CopyCounted, MarkedFirst
  <1>8. CASE Offline
    <2>1. TypeOK'
      BY <1>8 DEF IInv, TypeOK, Offline, In, Sleep, Else
    <2>2. BitNeedsSocket'
      BY <1>8 DEF IInv, BitNeedsSocket, Offline, In, Sleep, Else
    <2>3. StampsFresh'
      BY <1>8 DEF IInv, StampsFresh, Pending, TypeOK, Offline, In, Sleep, Else
    <2>4. CopyCounted'
      BY <1>8 DEF IInv, CopyCounted, Offline, In, Sleep, Else
    <2>5. MarkedFirst'
      BY <1>8 DEF IInv, MarkedFirst, Offline, In, Sleep, Else
    <2> QED
      BY <2>1, <2>2, <2>3, <2>4, <2>5 DEF IInv
  <1> QED
    BY <1>1, <1>2, <1>3, <1>4, <1>5, <1>6, <1>7, <1>8

(* The iterations that do. *)
LEMMA StampStep ==
  ASSUME IInv, Direct \/ Advertise \/ Bridge PROVE IInv'
  <1>1. CASE Direct
    <2>1. TypeOK'
      <3>1. state' \in States /\ wifiLost' \in 0..(WsGrace + 2) /\ bleLost' \in 0..(BleGrace + 2)
        BY <1>1 DEF IInv, TypeOK, Direct, Since, IsOver
      <3>2. pc' = "sleep" /\ wifiOk' = FALSE /\ wsOk' = FALSE /\ bleOk' = FALSE
            /\ wifiWas' \in BOOLEAN /\ UNCHANGED <<uptime, bits, wsConnected, wpc, history>>
        BY <1>1 DEF IInv, TypeOK, Direct, Sleep, Else
      <3> QED
        BY <3>1, <3>2 DEF IInv, TypeOK
    <2>2. BitNeedsSocket'
      BY <1>1 DEF IInv, BitNeedsSocket, Direct, In, Sleep, Else, Since, IsOver
    <2>3. StampsFresh'
      BY <1>1 DEF IInv, StampsFresh, CopyCounted, Pending, TypeOK, Direct, In, Sleep, Else, Since, IsOver
    <2>4. CopyCounted'
      BY <1>1 DEF IInv, CopyCounted, Direct, In, Sleep, Else, Since, IsOver
    <2>5. MarkedFirst'
      BY <1>1 DEF IInv, MarkedFirst, Direct, In, Sleep, Else, Since, IsOver
    <2> QED
      BY <2>1, <2>2, <2>3, <2>4, <2>5 DEF IInv
  <1>2. CASE Advertise
    <2>1. TypeOK'
      <3>1. state' \in States /\ wifiLost' \in 0..(WsGrace + 2) /\ bleLost' \in 0..(BleGrace + 2)
        BY <1>2 DEF IInv, TypeOK, Advertise, Since, IsOver
      <3>2. pc' = "sleep" /\ wifiOk' = FALSE /\ wsOk' = FALSE /\ bleOk' = FALSE
            /\ wifiWas' \in BOOLEAN /\ UNCHANGED <<uptime, bits, wsConnected, wpc, history>>
        BY <1>2 DEF IInv, TypeOK, Advertise, Sleep, Else
      <3> QED
        BY <3>1, <3>2 DEF IInv, TypeOK
    <2>2. BitNeedsSocket'
      BY <1>2 DEF IInv, BitNeedsSocket, Advertise, In, Sleep, Else, Since, IsOver
    <2>3. StampsFresh'
      BY <1>2 DEF IInv, StampsFresh, Pending, TypeOK, Advertise, In, Sleep, Else, Since, IsOver
    <2>4. CopyCounted'
      BY <1>2 DEF IInv, CopyCounted, Advertise, In, Sleep, Else, Since, IsOver
    <2>5. MarkedFirst'
      BY <1>2 DEF IInv, MarkedFirst, Advertise, In, Sleep, Else, Since, IsOver
    <2> QED
      BY <2>1, <2>2, <2>3, <2>4, <2>5 DEF IInv
  <1>3. CASE Bridge
    <2>1. TypeOK'
      <3>1. state' \in States /\ wifiLost' \in 0..(WsGrace + 2) /\ bleLost' \in 0..(BleGrace + 2)
        BY <1>3 DEF IInv, TypeOK, Bridge, ClearStamp, Since, IsOver
      <3>2. pc' = "sleep" /\ wifiOk' = FALSE /\ wsOk' = FALSE /\ bleOk' = FALSE
            /\ wifiWas' \in BOOLEAN /\ UNCHANGED <<uptime, bits, wsConnected, wpc, history>>
        BY <1>3 DEF IInv, TypeOK, Bridge, Sleep, Else
      <3> QED
        BY <3>1, <3>2 DEF IInv, TypeOK
    <2>2. BitNeedsSocket'
      BY <1>3 DEF IInv, BitNeedsSocket, Bridge, ClearStamp, In, Sleep, Else, Since, IsOver
    <2>3. StampsFresh'
      BY <1>3 DEF IInv, StampsFresh, CopyCounted, Pending, TypeOK, Bridge, ClearStamp, In, Sleep, Else, Since, IsOver
    <2>4. CopyCounted'
      BY <1>3 DEF IInv, CopyCounted, Bridge, ClearStamp, In, Sleep, Else, Since, IsOver
    <2>5. MarkedFirst'
      BY <1>3 DEF IInv, MarkedFirst, Bridge, ClearStamp, In, Sleep, Else, Since, IsOver
    <2> QED
      BY <2>1, <2>2, <2>3, <2>4, <2>5 DEF IInv
  <1> QED
    BY <1>1, <1>2, <1>3

LEMMA StepIInv == IInv /\ [Next]_vars => IInv'
  <1> SUFFICES ASSUME IInv, [Next]_vars PROVE IInv'
    OBVIOUS
  <1>1. CASE UNCHANGED vars
    BY <1>1 DEF vars, IInv, TypeOK, BitNeedsSocket, StampsFresh, Pending, CopyCounted, MarkedFirst
  <1>2. CASE Next
    BY <1>2, EventStep, SampleStep, PlainStep, StampStep DEF Next, Loop
  <1> QED
    BY <1>1, <1>2

(* The strengthened invariant holds in every reachable state. *)
THEOREM Invariance == Spec => []IInv
  BY InitIInv, StepIInv, PTL DEF Spec

(* Every variable keeps its type. *)
THEOREM TypeCorrect == Spec => []TypeOK
  <1>1. IInv => TypeOK
    BY DEF IInv
  <1> QED
    BY <1>1, Invariance, PTL

(* The WebSocket bit is set only with the client connected. *)
THEOREM BitFollowsSocket == Spec => []BitNeedsSocket
  <1>1. IInv => BitNeedsSocket
    BY DEF IInv
  <1> QED
    BY <1>1, Invariance, PTL

(* A step that gives up direct mode or bridge mode honours its grace period. *)
HonoursGrace ==
  /\ (state = "WS_CONNECTED" /\ state' = "BLE_ADVERTISING") => wsGone > WsGrace
  /\ (state = "BLE_CONNECTED" /\ state' = "OFFLINE") => bleGone > BleGrace

LEMMA StepHonoursGrace ==
  ASSUME IInv, [Next]_vars PROVE HonoursGrace
  <1> USE DEF HonoursGrace, States
  <1>1. ASSUME state' = state PROVE HonoursGrace
    BY <1>1
  <1>2. CASE Direct
    <2>1. ASSUME state' = "BLE_ADVERTISING" PROVE Since(wifiLost) > WsGrace /\ ~wsOk
      BY <1>2, <2>1 DEF Direct, In, IsOver, Since, IInv, TypeOK
    <2>2. state = "WS_CONNECTED" /\ pc = "act"
      BY <1>2 DEF Direct, In
    <2> QED
      BY <2>1, <2>2 DEF IInv, StampsFresh, CopyCounted, Since, Pending, TypeOK
  <1>3. CASE Bridge
    <2>1. ASSUME state' = "OFFLINE" PROVE Since(bleLost) > BleGrace /\ ~bleOk
      BY <1>3, <2>1 DEF Bridge, ClearStamp, In, IsOver, Since, IInv, TypeOK
    <2>2. state = "BLE_CONNECTED" /\ pc = "act"
      BY <1>3 DEF Bridge, ClearStamp, In
    <2> QED
      BY <2>1, <2>2 DEF IInv, StampsFresh, CopyCounted, Since, Pending, TypeOK
  <1>4. CASE Boot \/ AwaitWifi \/ Connect \/ AwaitWs \/ Disconnect \/ Advertise \/ Offline
    <2>1. state \notin {"WS_CONNECTED", "BLE_CONNECTED"}
      BY <1>4 DEF Boot, AwaitWifi, Connect, AwaitWs, Disconnect, Advertise, Offline, In
    <2> QED
      BY <2>1
  <1>5. CASE SetWsBit \/ ResetWsBit
    BY <1>5 DEF SetWsBit, ResetWsBit
  <1>6. CASE Sample \/ GotIp \/ Disconnected \/ ClearWsBit \/ Phone \/ UNCHANGED vars
    BY <1>6, <1>1 DEF Sample, GotIp, Disconnected, ClearWsBit, Phone, vars
  <1> QED
    BY <1>2, <1>3, <1>4, <1>5, <1>6 DEF Next, Loop

(* Direct mode and bridge mode are given up only after a whole grace       *)
(* period without WebSocket or phone.                                      *)
THEOREM GraceIsHonoured == Spec => GraceHonoured
  <1>1. IInv /\ [Next]_vars => [HonoursGrace]_vars
    BY StepHonoursGrace
  <1> QED
    BY <1>1, Invariance, PTL DEF Spec, GraceHonoured, HonoursGrace
=============================================================================
