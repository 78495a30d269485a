------------------------------ MODULE UdpProofs ------------------------------
(*
Proofs about UdpArq and about UdpClient.

UdpArq: its types, OnceAndInOrder, ConfirmedHasArrived and ReceivedIsKept, for
any number of messages that takes less than half of the sequence numbers, and
any limits and room in the datagrams.  The invariant names what the numbers
stand for: the packages that have been made, 1 to Len(made), and the last of
those that the parser waits for no more.

UdpClient: its types and StatusFits, for any callers, descriptors and number of
infos.

The names of the definitions of the two modules are different, and so are their
variables: neither is used in what is proved of the other.
*)
EXTENDS UdpArq, UdpClient, SequenceTheorems, FiniteSetTheorems, TLAPS

-----------------------------------------------------------------------------
(* Sequence numbers *)

LEMMA Reduced ==
  ASSUME NEW x \in 0..(2 * Modulus - 1)
  PROVE  x % Modulus = IF x < Modulus THEN x ELSE x - Modulus
  BY SeqAssumption

LEMMA NumberValue ==
  ASSUME NEW i \in 1..Data
  PROVE  /\ Number(i) \in Seqs
         /\ Number(i) = IF First + i - 1 < Modulus THEN First + i - 1
                                                   ELSE First + i - 1 - Modulus
  BY SeqAssumption, Reduced DEF Number, Plus, Seqs

LEMMA Distance ==
  ASSUME NEW a \in Seqs, NEW b \in Seqs
  PROVE  Minus(a, b) = IF a < b THEN a + Modulus - b ELSE a - b
  BY SeqAssumption, Reduced DEF Minus, Seqs

\* The numbers of two packages compare as the packages do, and are different.
LEMMA NumbersInOrder ==
  ASSUME NEW i \in 1..Data, NEW j \in 1..Data
  PROVE  /\ Within(Number(i), Number(j)) <=> i <= j
         /\ Number(i) = Number(j) => i = j
<1> DEFINE a == Number(i)  b == Number(j)
<1>1. a \in Seqs /\ b \in Seqs
  BY NumberValue
<1>2. Minus(a, b) = (IF a < b THEN a + Modulus - b ELSE a - b)
  BY <1>1, Distance
<1>3. Minus(b, a) = (IF b < a THEN b + Modulus - a ELSE b - a)
  BY <1>1, Distance
<1>4. a = IF First + i - 1 < Modulus THEN First + i - 1 ELSE First + i - 1 - Modulus
  BY NumberValue
<1>5. b = IF First + j - 1 < Modulus THEN First + j - 1 ELSE First + j - 1 - Modulus
  BY NumberValue
<1>6. Within(a, b) <=> Minus(b, a) <= Minus(a, b)
  BY DEF Within
<1>. HIDE DEF a, b
<1>7. (Within(a, b) <=> i <= j) /\ (a = b => i = j)
  BY <1>2, <1>3, <1>4, <1>5, <1>6, SeqAssumption
<1>. QED
  BY <1>7 DEF a, b

\* The number k after that of package i.
LEMMA NumberAfter ==
  ASSUME NEW i \in 1..Data, NEW k \in 0..Data
  PROVE  /\ Plus(Number(i), k) \in Seqs
         /\ i + k <= Data => Plus(Number(i), k) = Number(i + k)
         /\ \A j \in 1..Data : Plus(Number(i), k) = Number(j) => j = i + k
<1> DEFINE a == Number(i)  c == Plus(Number(i), k)
<1>1. a = IF First + i - 1 < Modulus THEN First + i - 1 ELSE First + i - 1 - Modulus
  BY NumberValue
<1>2. a \in Seqs
  BY NumberValue
<1>3. a + k \in 0..(2 * Modulus - 1)
  BY <1>2, SeqAssumption DEF Seqs
<1>4. c = IF a + k < Modulus THEN a + k ELSE a + k - Modulus
  <2>1. c = (a + k) % Modulus
    BY DEF Plus
  <2>. HIDE DEF a, c
  <2>. QED
    BY <1>2, <1>3, <2>1, Reduced, SeqAssumption DEF Seqs
<1>. HIDE DEF a, c
<1>5. c \in Seqs
  BY <1>2, <1>4, SeqAssumption DEF Seqs
<1>6. ASSUME NEW j \in 1..Data PROVE c = Number(j) <=> j = i + k
  <2> DEFINE b == Number(j)
  <2>1. b = IF First + j - 1 < Modulus THEN First + j - 1 ELSE First + j - 1 - Modulus
    BY NumberValue
  <2>. HIDE DEF b
  <2>2. c = b <=> j = i + k
    BY <1>1, <1>4, <2>1, SeqAssumption
  <2>. QED
    BY <2>2 DEF b
<1>7. i + k <= Data => i + k \in 1..Data
  BY SeqAssumption
<1>. QED
  BY <1>5, <1>6, <1>7 DEF c

-----------------------------------------------------------------------------
(* Sequences *)

LEMMA FunctionIsSeq ==
  ASSUME NEW S, NEW c \in Nat, NEW f \in [1..c -> S]
  PROVE  f \in Seq(S) /\ Len(f) = c /\ DOMAIN f = 1..c
  OBVIOUS

LEMMA OrderingKeeps ==
  ASSUME NEW S, NEW K \in SUBSET S, IsFiniteSet(S), NEW f \in Orderings(K)
  PROVE  /\ Cardinality(K) \in Nat
         /\ f \in [1..Cardinality(K) -> K] /\ f \in Seq(K) /\ Len(f) = Cardinality(K)
         /\ \A k \in K : \E i \in 1..Len(f) : f[i] = k
         /\ \A i, j \in 1..Len(f) : i # j => f[i] # f[j]
<1>1. Cardinality(K) \in Nat
  BY FS_Subset, FS_CardinalityType
<1>2. f \in [1..Cardinality(K) -> K] /\ Range(f) = K
  BY DEF Orderings
<1>3. f \in Seq(K) /\ Len(f) = Cardinality(K)
  BY <1>1, <1>2
<1>4. \A i, j \in 1..Len(f) : i # j => f[i] # f[j]
  BY <1>2, <1>3 DEF Orderings
<1>5. \A k \in K : \E i \in 1..Len(f) : f[i] = k
  BY <1>2, <1>3 DEF Range
<1>. QED
  BY <1>1, <1>2, <1>3, <1>4, <1>5

\* Only(s, K) has what s has at the places in K, in that order.
LEMMA OnlyKeeps ==
  ASSUME NEW S, NEW s \in Seq(S), NEW K \in SUBSET (1..Len(s)), NEW t \in Only(s, K)
  PROVE  /\ t \in Seq(S)
         /\ \E f \in [1..Len(t) -> K] :
              /\ \A j \in 1..Len(t) : t[j] = s[f[j]]
              /\ \A k \in K : \E j \in 1..Len(t) : f[j] = k
              /\ \A a, b \in 1..Len(t) : a < b => f[a] < f[b]
<1>1. PICK f \in Orderings(K) :
         /\ \A i, j \in DOMAIN f : i < j => f[i] < f[j]
         /\ t = [i \in DOMAIN f |-> s[f[i]]]
  BY DEF Only
<1>2. IsFiniteSet(1..Len(s))
  BY FS_Interval
<1>3. /\ Cardinality(K) \in Nat
      /\ f \in [1..Cardinality(K) -> K] /\ Len(f) = Cardinality(K)
      /\ \A k \in K : \E i \in 1..Len(f) : f[i] = k
  BY <1>2, OrderingKeeps
<1>. DEFINE c == Cardinality(K)
<1>. HIDE DEF c
<1>4. t = [i \in 1..c |-> s[f[i]]] /\ c \in Nat /\ f \in [1..c -> K]
  BY <1>1, <1>3 DEF c
<1>5. t \in Seq(S) /\ Len(t) = c
  <2>1. \A i \in 1..c : s[f[i]] \in S
    <3>1. \A i \in 1..c : f[i] \in 1..Len(s)
      BY <1>4
    <3>. QED
      BY <3>1, ElementOfSeq
  <2>2. t \in [1..c -> S]
    BY <1>4, <2>1
  <2>. QED
    BY <1>4, <2>2
<1>6. f \in [1..Len(t) -> K] /\ \A k \in K : \E j \in 1..Len(t) : f[j] = k
  BY <1>3, <1>4, <1>5 DEF c
<1>7. \A j \in 1..Len(t) : t[j] = s[f[j]]
  BY <1>4, <1>5
<1>8. \A a, b \in 1..Len(t) : a < b => f[a] < f[b]
  BY <1>1, <1>4, <1>5
<1>. QED
  BY <1>5, <1>6, <1>7, <1>8

-----------------------------------------------------------------------------
(* RunLength() *)

LEMMA MaxOf ==
  ASSUME NEW c \in Nat, NEW T \in SUBSET (0..c), T # {}
  PROVE  Max(T) \in T /\ \A y \in T : y <= Max(T)
<1>. DEFINE above(x) == {y \in T : y > x}
            U == {above(x) : x \in T}
            R == StrictSubsetOrdering(0..c)
<1>1. IsWellFoundedOn(R, SUBSET (0..c))
  <2>1. IsFiniteSet(0..c)
    BY FS_Interval
  <2>. QED
    BY <2>1, FS_StrictSubsetOrderingWellFounded, FS_FiniteSubsetsOfFinite
<1>2. U \subseteq SUBSET (0..c) /\ U # {}
  OBVIOUS
<1>3. PICK u \in U : \A v \in U : ~(<<v, u>> \in R)
  <2>. HIDE DEF U, R
  <2>. QED
    BY <1>1, <1>2, WFMin
<1>4. PICK x \in T : u = above(x)
  OBVIOUS
<1>5. ASSUME NEW y \in T, y > x PROVE FALSE
  <2>1. above(y) \subseteq u /\ y \in u /\ y \notin above(y)
    <3>1. \A z \in T : (z > y => z > x) /\ ~(y > y)
      BY <1>5
    <3>2. above(y) \subseteq above(x) /\ y \in above(x) /\ y \notin above(y)
      BY <1>5, <3>1
    <3>. QED
      BY <1>4, <3>2
  <2>2. <<above(y), u>> \in R
    BY <1>4, <2>1 DEF StrictSubsetOrdering
  <2>. QED
    BY <1>3, <2>2
<1>6. \A y \in T : x >= y
  BY <1>5
<1>. QED
  BY <1>6 DEF Max

\* The run after package i, if S are numbers of later packages up to package m.
LEMMA RunOf ==
  ASSUME NEW m \in 0..Data, NEW i \in 1..m, NEW S,
         \A s \in S : \E j \in (i + 1)..m : s = Number(j)
  PROVE  LET n == RunLength(Number(i), S) IN
         /\ n \in 0..(m - i)
         /\ \A k \in 1..n : Plus(Number(i), k) = Number(i + k) /\ Number(i + k) \in S
         /\ i + n + 1 \in 1..Data => Number(i + n + 1) \notin S
<1>. DEFINE a == Number(i)
            c == Cardinality(S)
            T == {k \in 0..c : \A j \in 1..k : Plus(a, j) \in S}
            n == RunLength(a, S)
<1>1. S \subseteq Seqs
  BY NumberValue, SeqAssumption
<1>2. IsFiniteSet(S) /\ c \in Nat
  <2>1. IsFiniteSet(Seqs)
    BY FS_Interval, SeqAssumption DEF Seqs
  <2>. QED
    BY <1>1, <2>1, FS_Subset, FS_CardinalityType
<1>3. n \in T /\ \A y \in T : y <= n
  <2>1. T \in SUBSET (0..c) /\ 0 \in T
    BY <1>2
  <2>2. n = Max(T)
    BY DEF RunLength
  <2>. HIDE DEF T, n, c
  <2>. QED
    BY <1>2, <2>1, <2>2, MaxOf
<1>4. ASSUME NEW k \in 1..Data, Plus(a, k) \in S
      PROVE  i + k <= m /\ Plus(a, k) = Number(i + k)
  <2>1. PICK j \in (i + 1)..m : Plus(a, k) = Number(j)
    BY <1>4
  <2>2. j = i + k
    BY <2>1, NumberAfter, SeqAssumption
  <2>. QED
    BY <2>1, <2>2
<1>5. c <= Data
  <2>1. \A s \in S : \E j \in 1..Data : s = Number(j)
    BY SeqAssumption
  <2>. DEFINE f == [s \in S |-> CHOOSE j \in 1..Data : s = Number(j)]
  <2>2. f \in Injection(S, 1..Data)
    BY <2>1 DEF Injection, IsInjective
  <2>3. IsFiniteSet(1..Data) /\ Cardinality(1..Data) = Data
    BY FS_Interval, SeqAssumption
  <2>. HIDE DEF f
  <2>. QED
    BY <2>2, <2>3, FS_Injection
<1>6. n \in 0..Data /\ \A k \in 1..n : Plus(a, k) \in S
  BY <1>2, <1>3, <1>5, SeqAssumption
<1>7. \A k \in 1..n : i + k <= m /\ Plus(a, k) = Number(i + k) /\ Number(i + k) \in S
  <2>. HIDE DEF n, a
  <2>1. \A k \in 1..n : k \in 1..Data
    BY <1>6, SeqAssumption
  <2>. QED
    BY <1>4, <1>6, <2>1
<1>8. n \in 0..(m - i)
  <2>. HIDE DEF n
  <2>1. CASE n = 0
    BY <2>1
  <2>2. CASE n # 0
    BY <1>6, <1>7, <2>2
  <2>. QED
    BY <2>1, <2>2
<1>9. ASSUME i + n + 1 \in 1..Data, Number(i + n + 1) \in S
      PROVE  FALSE
  <2>. HIDE DEF n
  <2>1. Plus(a, n + 1) = Number(i + n + 1)
    <3>1. n + 1 \in 0..Data /\ i + (n + 1) <= Data /\ i \in 1..Data
      BY <1>6, <1>9, SeqAssumption
    <3>2. Plus(a, n + 1) = Number(i + (n + 1))
      BY <3>1, NumberAfter
    <3>. QED
      BY <1>6, <3>2
  <2>2. \A k \in 1..(n + 1) : Plus(a, k) \in S
    BY <1>6, <1>9, <2>1
  <2>3. n + 1 <= c
    <3>. DEFINE f == [k \in 1..(n + 1) |-> Plus(a, k)]
    <3>1. f \in [1..(n + 1) -> S]
      BY <2>2
    <3>2. \A j, k \in 1..(n + 1) : f[j] = f[k] => j = k
      <4>. SUFFICES ASSUME NEW j \in 1..(n + 1), NEW k \in 1..(n + 1), Plus(a, j) = Plus(a, k)
                    PROVE  j = k
        OBVIOUS
      <4>1. /\ j \in 0..Data /\ k \in 0..Data /\ i \in 1..Data
            /\ i + j \in 1..Data /\ i + k <= Data
        BY <1>6, <1>9, SeqAssumption
      <4>2. Plus(a, j) = Number(i + j)
        BY <4>1, NumberAfter
      <4>3. i + j = i + k
        BY <4>1, <4>2, NumberAfter
      <4>. QED
        BY <4>3
    <3>3. f \in Injection(1..(n + 1), S)
      BY <3>1, <3>2 DEF Injection, IsInjective
    <3>4. Cardinality(1..(n + 1)) = n + 1
      BY <1>6, FS_Interval
    <3>. HIDE DEF f
    <3>. QED
      BY <1>2, <3>3, <3>4, FS_Injection
  <2>4. n + 1 \in T
    BY <1>2, <1>6, <2>2, <2>3
  <2>. QED
    BY <1>3, <1>6, <2>4
<1>. QED
  BY <1>7, <1>8, <1>9

-----------------------------------------------------------------------------
(* The inductive invariant *)

IsPackage(p, i) ==
  /\ p.seq = Number(i)
  /\ p.first = (i = 1)
  /\ p.data = made[i] \/ (p.data = 0 /\ made[i] \in cut)

\* The packages that have been made, maybe without their data.
Made == {p \in Package : \E i \in 1..Len(made) : IsPackage(p, i)}

\* Those whose message has been handed on, is cached, or had expired.
Arrived ==
  {i \in 1..Len(made) : made[i] \in Range(delivered) \cup cut \cup {p.data : p \in cache}}

Numbers(I) == {Number(i) : i \in I}

\* Messages are sent in order.
SendInv ==
  /\ Len(made) + Len(queue) <= Data
  /\ \A i, j \in 1..Len(made) : i < j => made[i] < made[j]
  /\ \A i, j \in 1..Len(queue) : i < j => queue[i] < queue[j]
  /\ \A i \in 1..Len(made), j \in 1..Len(queue) : made[i] < queue[j]

PackageInv ==
  /\ unconformed \in Seq(Made)
  /\ \A d \in net : d.packages \in Seq(Made)
  /\ inbox \in Seq(Made)
  /\ cache \subseteq Made

\* The parser waits for package l + 1.  It has handed on those before it, and
\* those ahead of it unless they are cached.
Parsed(l) ==
  /\ IF started THEN l >= 1 /\ last = Number(l) ELSE l = 0 /\ ahead = {}
  /\ ahead \cup SeqsOf(cache) \subseteq Numbers((l + 2)..Len(made))
  /\ started => IF inOrder THEN ahead = SeqsOf(cache) ELSE cache = {}
  /\ \A i \in 1..l : made[i] \in Range(delivered) \cup cut
  /\ \A i \in 1..Len(made) : Number(i) \in ahead => i \in Arrived
  /\ \A k \in 1..Len(delivered) : \E i \in 1..Len(made) :
       delivered[k] = made[i] /\ (i <= l \/ (~inOrder /\ Number(i) \in ahead))
  /\ OnceAndInOrder

ParserInv == \E l \in 0..Len(made) : Parsed(l)

\* Feedback tells, or is going to tell, only of packages that have arrived.
FeedbackInv ==
  /\ received \subseteq Numbers(Arrived)
  /\ \A f \in feedback :
       /\ f.acks \subseteq Numbers(Arrived)
       /\ \A una \in f.una : \E l \in 1..Len(made) : una = Number(l) /\ 1..l \subseteq Arrived

ConfirmedInv ==
  \A i \in 1..Len(made) : i \in Arrived \/ Number(i) \in SeqsOf(Range(unconformed))

ArqInv ==
  TypeOK /\ SendInv /\ PackageInv /\ ParserInv /\ FeedbackInv /\ ConfirmedInv

LEMMA ArqInvInit == Init => ArqInv
<1>. SUFFICES ASSUME Init PROVE ArqInv
  OBVIOUS
<1>1. Data \in Nat /\ queue = [i \in 1..Data |-> i]
  BY SeqAssumption DEF Init
<1>2. queue \in Seq(1..Data) /\ Len(queue) = Data /\ \A i \in 1..Len(queue) : queue[i] = i
  BY <1>1
<1>3. Len(made) = 0 /\ Len(delivered) = 0 /\ Len(inbox) = 0 /\ Len(unconformed) = 0
  BY DEF Init
<1>4. TypeOK
  <2>1. 0 \in Seqs
    BY SeqAssumption DEF Seqs
  <2>2. NoFlags \in Flags
    BY DEF NoFlags, Flags
  <2>3. queue \in Seq(1..Data) /\ <<>> \in Seq(1..Data) /\ <<>> \in Seq(Package)
    BY <1>2
  <2>. HIDE DEF Package, Flags
  <2>. QED
    BY <2>1, <2>2, <2>3 DEF Init, TypeOK
<1>5. SendInv
  BY <1>1, <1>2, <1>3 DEF SendInv
<1>6. PackageInv
  BY DEF Init, PackageInv
<1>7. Parsed(0)
  BY <1>3 DEF Init, Parsed, SeqsOf, OnceAndInOrder
<1>8. FeedbackInv
  BY DEF Init, FeedbackInv
<1>9. ConfirmedInv
  BY <1>3 DEF ConfirmedInv
<1>. QED
  BY <1>3, <1>4, <1>5, <1>6, <1>7, <1>8, <1>9 DEF ArqInv, ParserInv

-----------------------------------------------------------------------------
(* What most steps keep *)

\* Packages are made one after the other, and messages stay cut.
Grows ==
  /\ made' \in Seq(1..Data) /\ Len(made) <= Len(made') /\ Len(made') <= Data
  /\ \A i \in 1..Len(made) : made'[i] = made[i]
  /\ cut \subseteq cut'

LEMMA MadeGrows == ASSUME ArqInv, Grows PROVE Made \subseteq Made'
<1>. SUFFICES ASSUME NEW p \in Made PROVE p \in Made'
  OBVIOUS
<1>1. PICK i \in 1..Len(made) : IsPackage(p, i)
  BY DEF Made
<1>2. i \in 1..Len(made') /\ made'[i] = made[i]
  BY DEF ArqInv, TypeOK, Grows
<1>3. IsPackage(p, i)'
  BY <1>1, <1>2 DEF IsPackage, Grows
<1>. QED
  BY <1>2, <1>3 DEF Made

\* The sender does not touch what the parser has done.
LEMMA ParserKept ==
  ASSUME ArqInv, Grows, UNCHANGED <<inOrder, started, last, ahead, cache, delivered>>
  PROVE  Arrived \subseteq Arrived' /\ ParserInv'
<1>1. Len(made) \in Nat /\ Len(made') \in Nat
  BY DEF ArqInv, TypeOK, Grows
<1>2. Arrived \subseteq Arrived'
  BY <1>1 DEF Grows, Arrived
<1>3. PICK l \in 0..Len(made) : Parsed(l)
  BY DEF ArqInv, ParserInv
<1>4. Numbers((l + 2)..Len(made)) \subseteq Numbers((l + 2)..Len(made'))
  BY <1>1 DEF Grows, Numbers
<1>5. \A i \in 1..Len(made') : Number(i) \in ahead => i \in 1..Len(made)
  <2>. SUFFICES ASSUME NEW i \in 1..Len(made'), Number(i) \in ahead PROVE i \in 1..Len(made)
    OBVIOUS
  <2>1. PICK j \in (l + 2)..Len(made) : Number(i) = Number(j)
    BY <1>3 DEF Parsed, Numbers
  <2>2. i \in 1..Data /\ j \in 1..Data
    BY <1>1, SeqAssumption DEF Grows
  <2>. QED
    BY <2>1, <2>2, NumbersInOrder
<1>6. \A i \in 1..l : made'[i] = made[i]
  BY <1>1 DEF Grows
<1>7. Parsed(l)'
  <2>1. /\ IF started' THEN l >= 1 /\ last' = Number(l) ELSE l = 0 /\ ahead' = {}
        /\ started' => IF inOrder' THEN ahead' = SeqsOf(cache') ELSE cache' = {}
        /\ OnceAndInOrder'
    BY <1>3 DEF Parsed, OnceAndInOrder
  <2>2. ahead' \cup SeqsOf(cache') \subseteq Numbers((l + 2)..Len(made'))
    BY <1>3, <1>4 DEF Parsed
  <2>3. \A i \in 1..l : made'[i] \in Range(delivered') \cup cut'
    BY <1>3, <1>6 DEF Parsed, Grows
  <2>4. \A i \in 1..Len(made') : Number(i) \in ahead' => i \in Arrived'
    BY <1>2, <1>3, <1>5 DEF Parsed
  <2>5. \A k \in 1..Len(delivered') : \E i \in 1..Len(made') :
          delivered'[k] = made'[i] /\ (i <= l \/ (~inOrder' /\ Number(i) \in ahead'))
    BY <1>1, <1>3 DEF Parsed, Grows
  <2>. QED
    BY <2>1, <2>2, <2>3, <2>4, <2>5 DEF Parsed
<1>. QED
  BY <1>1, <1>2, <1>7 DEF ParserInv, Grows

\* What a step that changes only what is listed in the invariant's parts leaves
\* to be shown.
LEMMA FeedbackKept ==
  ASSUME ArqInv, Grows, Arrived \subseteq Arrived', received' \subseteq received,
         feedback' \subseteq feedback
  PROVE  FeedbackInv'
<1>1. Len(made) \in Nat /\ Len(made') \in Nat
  BY DEF ArqInv, TypeOK, Grows
<1>2. Numbers(Arrived) \subseteq Numbers(Arrived')
  BY DEF Numbers
<1>3. ASSUME NEW f \in feedback'
      PROVE  /\ f.acks \subseteq Numbers(Arrived')
             /\ \A una \in f.una :
                  \E l \in 1..Len(made') : una = Number(l) /\ 1..l \subseteq Arrived'
  BY <1>1, <1>2, <1>3 DEF ArqInv, FeedbackInv, Grows
<1>. QED
  BY <1>2, <1>3 DEF ArqInv, FeedbackInv

\* Packages have the numbers of messages.
LEMMA MadeNumbers ==
  ASSUME ArqInv
  PROVE  /\ Len(made) \in 0..Data
         /\ \A i \in 1..Len(made) : made[i] \in 1..Data /\ i \in 1..Data
         /\ \A i, j \in 1..Len(made) : Number(i) = Number(j) => i = j
         /\ \A i, j \in 1..Len(made) : Within(Number(i), Number(j)) <=> i <= j
         /\ \A i, j \in 1..Len(made) : made[i] = made[j] => i = j
<1>1. Len(made) \in 0..Data
  <2>1. Len(made) \in Nat /\ Len(queue) \in Nat
    BY DEF ArqInv, TypeOK
  <2>. QED
    BY <2>1, SeqAssumption DEF ArqInv, SendInv
<1>2. \A i \in 1..Len(made) : made[i] \in 1..Data /\ i \in 1..Data
  BY <1>1, SeqAssumption DEF ArqInv, TypeOK
<1>3. \A i, j \in 1..Len(made) : made[i] = made[j] => i = j
  BY <1>1, <1>2, SeqAssumption DEF ArqInv, SendInv
<1>. QED
  BY <1>1, <1>2, <1>3, NumbersInOrder

-----------------------------------------------------------------------------
(* The sending side *)

\* Where expired packages are sent without their data, and kept.
LEMMA ExpireKeeps ==
  ASSUME ArqInv, Grows, NEW ps \in Seq(Made), NEW X \in SUBSET (1..Data), X \subseteq cut'
  PROVE  Expire(ps, X) \in Seq(Made') /\ SeqsOf(Range(Expire(ps, X))) = SeqsOf(Range(ps))
<1>1. Len(ps) \in Nat /\ DOMAIN ps = 1..Len(ps)
  BY LenProperties
<1>2. ASSUME NEW p \in Made, p.data \in X PROVE [p EXCEPT !.data = 0] \in Made'
  <2>1. PICK i \in 1..Len(made) : IsPackage(p, i)
    BY DEF Made
  <2>2. p.data = made[i] /\ made'[i] = made[i] /\ i \in 1..Len(made')
    BY <1>2, <2>1 DEF IsPackage, ArqInv, TypeOK, Grows
  <2>. DEFINE q == [p EXCEPT !.data = 0]
  <2>3. p \in Package /\ 0 \in 0..Data
    BY SeqAssumption DEF Made
  <2>4. q \in Package /\ q.seq = p.seq /\ q.first = p.first /\ q.data = 0
    BY <2>3 DEF Package
  <2>5. IsPackage(q, i)'
    BY <1>2, <2>1, <2>2, <2>4 DEF IsPackage
  <2>. QED
    BY <2>2, <2>4, <2>5 DEF Made
<1>3. \A i \in 1..Len(ps) : ps[i] \in Made /\ ps[i] \in Made'
  BY MadeGrows, ElementOfSeq
<1>. DEFINE e(i) == IF ps[i].data \in X THEN [ps[i] EXCEPT !.data = 0] ELSE ps[i]
            qs == [i \in 1..Len(ps) |-> e(i)]
<1>4. \A i \in 1..Len(ps) : e(i) \in Made'
  BY <1>2, <1>3
<1>5. Expire(ps, X) = qs
  BY <1>1 DEF Expire
<1>6. \A i \in 1..Len(ps) : e(i).seq = ps[i].seq
  BY <1>3 DEF Made, Package
<1>. HIDE DEF e
<1>7. qs \in Seq(Made')
  BY <1>1, <1>4
<1>8. SeqsOf(Range(qs)) = SeqsOf(Range(ps))
  BY <1>1, <1>6 DEF SeqsOf, Range
<1>. QED
  BY <1>5, <1>7, <1>8

\* The head of _sentQueue goes to its end, maybe without its data.
LEMMA Rotated ==
  ASSUME ArqInv, Grows, NEW n \in 0..Len(unconformed), NEW X \in SUBSET (1..Data), X \subseteq cut'
  PROVE  /\ Expire(Take(n), X) \in Seq(Made') /\ Rest(n) \in Seq(Made')
         /\ SeqsOf(Range(unconformed)) =
              SeqsOf(Range(Rest(n))) \cup SeqsOf(Range(Expire(Take(n), X)))
<1>1. unconformed \in Seq(Made) /\ Len(unconformed) \in Nat
  BY DEF ArqInv, PackageInv
<1>2. Take(n) \in Seq(Made) /\ Rest(n) \in Seq(Made)
  BY <1>1 DEF Take, Rest
<1>3. unconformed = Take(n) \o Rest(n)
  <2>1. Take(n) \o Rest(n) = SubSeq(unconformed, 1, Len(unconformed))
    <3>1. 1 \in 1..(Len(unconformed) + 1) /\ n \in (1 - 1)..Len(unconformed)
          /\ Len(unconformed) \in n..Len(unconformed)
      BY <1>1
    <3>. QED
      BY <1>1, <3>1, ConcatAdjacentSubSeq DEF Take, Rest
  <2>. QED
    BY <1>1, <2>1, SubSeqFull
<1>4. Range(unconformed) = Range(Take(n)) \cup Range(Rest(n))
  BY <1>2, <1>3, RangeConcatenation
<1>5. Rest(n) \in Seq(Made')
  BY <1>2, MadeGrows, SeqMonotonic
<1>6. /\ Expire(Take(n), X) \in Seq(Made')
      /\ SeqsOf(Range(Expire(Take(n), X))) = SeqsOf(Range(Take(n)))
  BY <1>2, ExpireKeeps
<1>7. SeqsOf(Range(unconformed)) = SeqsOf(Range(Take(n))) \cup SeqsOf(Range(Rest(n)))
  BY <1>4 DEF SeqsOf
<1>. QED
  BY <1>5, <1>6, <1>7

\* A datagram is sent.
LEMMA Sending ==
  ASSUME ArqInv, Grows, queue' \in Seq(1..Data), cut' \in SUBSET (1..Data), SendInv',
         NEW force \in BOOLEAN, NEW ps \in Seq(Made'), Transmit(force, ps),
         unconformed' \in Seq(Made'), ConfirmedInv',
         UNCHANGED <<feedback, parserVars, readVars, peerVars>>
  PROVE  ArqInv'
<1>1. Arrived \subseteq Arrived' /\ ParserInv'
  BY ParserKept DEF parserVars
<1>2. Made \subseteq Made' /\ Made' \subseteq Package
  BY MadeGrows DEF Made
<1>3. FeedbackInv'
  BY <1>1, FeedbackKept DEF peerVars
<1>. DEFINE d == [force |-> force, packages |-> ps]
<1>4. net' = net \cup {d}
  BY DEF Transmit
<1>5. PackageInv'
  <2>1. \A e \in net' : e.packages \in Seq(Made')
    BY <1>2, <1>4, SeqMonotonic DEF ArqInv, PackageInv
  <2>2. inbox' \in Seq(Made') /\ cache' \subseteq Made'
    BY <1>2, SeqMonotonic DEF ArqInv, PackageInv, readVars, parserVars
  <2>. QED
    BY <2>1, <2>2 DEF PackageInv
<1>6. TypeOK'
  <2>1. unconformed' \in Seq(Package) /\ d \in Datagram
    BY <1>2, SeqMonotonic DEF Datagram
  <2>. QED
    BY <1>4, <2>1 DEF ArqInv, TypeOK, Grows, parserVars, readVars, peerVars
<1>. QED
  BY <1>1, <1>3, <1>5, <1>6 DEF ArqInv

\* What is due is sent again.
LEMMA SendingAgain ==
  ASSUME ArqInv, NEW n \in 0..Len(unconformed), NEW X \in MayExpire(Take(n)),
         NEW force \in BOOLEAN,
         cut' = cut \cup X,
         unconformed' = Rest(n) \o Expire(Take(n), X),
         Transmit(force, Expire(Take(n), X)),
         UNCHANGED <<queue, made, feedback, parserVars, readVars, peerVars>>
  PROVE  ArqInv'
<1>1. X \in SUBSET (1..Data)
  BY SeqAssumption DEF MayExpire
<1>2. Grows /\ cut' \in SUBSET (1..Data)
  BY <1>1, MadeNumbers DEF Grows, ArqInv, TypeOK
<1>3. /\ Expire(Take(n), X) \in Seq(Made') /\ Rest(n) \in Seq(Made')
      /\ SeqsOf(Range(unconformed)) =
           SeqsOf(Range(Rest(n))) \cup SeqsOf(Range(Expire(Take(n), X)))
  BY <1>1, <1>2, Rotated
<1>4. unconformed' \in Seq(Made') /\ SeqsOf(Range(unconformed')) = SeqsOf(Range(unconformed))
  <2>1. Range(unconformed') = Range(Rest(n)) \cup Range(Expire(Take(n), X))
    BY <1>3, RangeConcatenation
  <2>. QED
    BY <1>3, <2>1, ConcatProperties DEF SeqsOf
<1>5. ConfirmedInv'
  BY <1>2, <1>4, ParserKept DEF ArqInv, ConfirmedInv, parserVars
<1>6. SendInv' /\ queue' \in Seq(1..Data)
  BY DEF ArqInv, SendInv, TypeOK
<1>. QED
  BY <1>2, <1>3, <1>4, <1>5, <1>6, Sending

LEMMA ResendStep == ASSUME ArqInv, NEW n \in 0..Room, Resend(n) PROVE ArqInv'
<1>1. n \in 0..Len(unconformed)
  BY RoomAssumption DEF Resend, ArqInv, TypeOK
<1>. QED
  BY <1>1, SendingAgain DEF Resend

LEMMA ForceSyncStep == ASSUME ArqInv, NEW n \in 0..Room, ForceSync(n) PROVE ArqInv'
<1>1. n \in 0..Len(unconformed)
  BY RoomAssumption DEF ForceSync, ArqInv, TypeOK
<1>. QED
  BY <1>1, SendingAgain DEF ForceSync

\* The rest of the queue stays in order, and behind what has been sent.
LEMMA QueueShrinks ==
  ASSUME ArqInv, NEW k \in 0..Data, k < Len(queue)
  PROVE  LET p == queue[k + 1]
             rest == SubSeq(queue, k + 2, Len(queue))
             more == Append(made, p)
         IN  /\ p \in 1..Data /\ rest \in Seq(1..Data) /\ more \in Seq(1..Data)
             /\ Len(more) = Len(made) + 1 /\ Len(more) + Len(rest) <= Data
             /\ \A i \in 1..Len(made) : more[i] = made[i]
             /\ more[Len(made) + 1] = p
             /\ \A i, j \in 1..Len(more) : i < j => more[i] < more[j]
             /\ \A i, j \in 1..Len(rest) : i < j => rest[i] < rest[j]
             /\ \A i \in 1..Len(more), j \in 1..Len(rest) : more[i] < rest[j]
<1>. DEFINE p == queue[k + 1]
            rest == SubSeq(queue, k + 2, Len(queue))
            more == Append(made, p)
<1>1. /\ queue \in Seq(1..Data) /\ Len(queue) \in Nat
      /\ made \in Seq(1..Data) /\ Len(made) \in Nat
  BY DEF ArqInv, TypeOK
<1>2. k + 1 \in 1..Len(queue) /\ p \in 1..Data
  BY <1>1, SeqAssumption
<1>3. /\ rest \in Seq(1..Data) /\ Len(rest) = Len(queue) - k - 1
      /\ \A i \in 1..Len(rest) : rest[i] = queue[k + 1 + i] /\ k + 1 + i \in 1..Len(queue)
  <2>. DEFINE m == k + 2  e == Len(queue)  z == e - m + 1
  <2>1. m \in Nat /\ e \in Nat /\ z \in Nat /\ m \in 1..(e + 1) /\ z = Len(queue) - k - 1
    BY <1>1, <1>2
  <2>2. \A i \in 1..z : i + m - 1 = k + 1 + i /\ i + m - 1 \in 1..Len(queue)
    BY <1>1, <1>2
  <2>3. \A i \in 1..z : queue[i + m - 1] \in 1..Data
    <3>. HIDE DEF m, z
    <3>. QED
      BY <1>1, <2>2, ElementOfSeq
  <2>4. rest = [i \in 1..z |-> queue[i + m - 1]]
    BY <1>1, <2>1
  <2>. HIDE DEF rest, m, e, z
  <2>5. rest \in [1..z -> 1..Data]
    BY <2>3, <2>4
  <2>6. rest \in Seq(1..Data) /\ Len(rest) = z
    <3>1. z \in Nat
      BY <2>1
    <3>. QED
      BY <2>4, <2>5, <3>1
  <2>. QED
    BY <2>1, <2>2, <2>4, <2>6
<1>4. /\ more \in Seq(1..Data) /\ Len(more) = Len(made) + 1
      /\ \A i \in 1..Len(made) : more[i] = made[i]
      /\ more[Len(made) + 1] = p
  BY <1>1, <1>2
<1>. HIDE DEF rest, more
<1>5. Len(more) + Len(rest) <= Data
  BY <1>1, <1>2, <1>3, <1>4, SeqAssumption DEF ArqInv, SendInv
<1>6. ASSUME NEW i \in 1..Len(more), NEW j \in 1..Len(more), i < j PROVE more[i] < more[j]
  <2>1. /\ \A x, y \in 1..Len(made) : x < y => made[x] < made[y]
        /\ \A x \in 1..Len(made) : made[x] < p
    BY <1>2 DEF ArqInv, SendInv
  <2>. HIDE DEF p
  <2>2. i \in 1..Len(made)
    BY <1>1, <1>4, <1>6
  <2>3. CASE j = Len(made) + 1
    BY <1>4, <2>1, <2>2, <2>3
  <2>4. CASE j \in 1..Len(made)
    BY <1>4, <1>6, <2>1, <2>2, <2>4
  <2>. QED
    BY <1>1, <1>4, <2>3, <2>4
<1>7. ASSUME NEW i \in 1..Len(rest), NEW j \in 1..Len(rest), i < j PROVE rest[i] < rest[j]
  BY <1>1, <1>2, <1>3, <1>7 DEF ArqInv, SendInv
<1>8. ASSUME NEW i \in 1..Len(more), NEW j \in 1..Len(rest) PROVE more[i] < rest[j]
  <2>1. CASE i = Len(made) + 1
    BY <1>1, <1>2, <1>3, <1>4, <2>1 DEF ArqInv, SendInv
  <2>2. CASE i \in 1..Len(made)
    BY <1>1, <1>2, <1>3, <1>4, <2>2 DEF ArqInv, SendInv
  <2>. QED
    BY <1>1, <1>4, <2>1, <2>2
<1>. QED
  BY <1>2, <1>3, <1>4, <1>5, <1>6, <1>7, <1>8 DEF rest, more

LEMMA SendDataStep ==
  ASSUME ArqInv, NEW k \in 0..Data, NEW n \in 0..Room, SendData(k, n)
  PROVE  ArqInv'
<1>. DEFINE m == Len(made) + 1
            p == [seq |-> Number(m), data |-> queue[k + 1], first |-> made = <<>>]
            dropped == {queue[i] : i \in 1..k}
<1>1. PICK X \in MayExpire(Take(n)) :
        /\ cut' = cut \cup X \cup dropped
        /\ queue' = SubSeq(queue, k + 2, Len(queue))
        /\ made' = Append(made, queue[k + 1])
        /\ unconformed' = Rest(n) \o <<p>> \o Expire(Take(n), X)
        /\ Transmit(FALSE, <<p>> \o Expire(Take(n), X))
  BY DEF SendData
<1>2. n \in 0..Len(unconformed) /\ k < Len(queue)
  BY RoomAssumption DEF SendData, ArqInv, TypeOK
<1>3. /\ queue[k + 1] \in 1..Data /\ queue' \in Seq(1..Data) /\ made' \in Seq(1..Data)
      /\ Len(made') = m /\ made'[m] = queue[k + 1]
      /\ \A i \in 1..Len(made) : made'[i] = made[i]
      /\ Len(made') + Len(queue') <= Data /\ SendInv'
  BY <1>1, <1>2, QueueShrinks DEF SendInv
<1>4. /\ Len(made) \in Nat /\ Len(made') \in Nat /\ Len(queue') \in Nat /\ m \in 1..Data
      /\ (made = <<>>) = (m = 1)
  <2>1. made \in Seq(1..Data) /\ Len(made) \in Nat
    BY DEF ArqInv, TypeOK
  <2>2. Len(made') \in Nat /\ Len(queue') \in Nat
    BY <1>3
  <2>3. m \in 1..Data
    BY <1>3, <2>1, <2>2, SeqAssumption
  <2>4. made = <<>> <=> Len(made) = 0
    BY <2>1, EmptySeq
  <2>. QED
    BY <2>1, <2>2, <2>3, <2>4
<1>5. X \in SUBSET (1..Data) /\ dropped \in SUBSET (1..Data)
  <2>1. X \in SUBSET (1..Data)
    BY SeqAssumption DEF MayExpire
  <2>2. queue \in Seq(1..Data) /\ \A i \in 1..k : i \in 1..Len(queue)
    BY <1>2, SeqAssumption DEF ArqInv, TypeOK
  <2>. QED
    BY <2>1, <2>2, ElementOfSeq
<1>6. Grows /\ cut' \in SUBSET (1..Data) /\ X \subseteq cut'
  <2>1. cut \in SUBSET (1..Data)
    BY DEF ArqInv, TypeOK
  <2>2. cut' \in SUBSET (1..Data) /\ X \subseteq cut' /\ cut \subseteq cut'
    <3>. HIDE DEF dropped
    <3>. QED
      BY <1>1, <1>5, <2>1
  <2>3. Len(made) <= Len(made') /\ Len(made') <= Data
    BY <1>3, <1>4
  <2>. HIDE DEF dropped, m
  <2>. QED
    BY <1>3, <2>2, <2>3 DEF Grows
<1>7. p \in Made' /\ p.seq = Number(m)
  <2>. HIDE DEF m
  <2>1. p \in Package
    BY <1>3, <1>4, NumberValue, SeqAssumption DEF Package
  <2>2. p.seq = Number(m) /\ p.first = (made = <<>>) /\ p.data = queue[k + 1]
    OBVIOUS
  <2>3. p.first = (m = 1)
    BY <1>4, <2>2, Zenon
  <2>. HIDE DEF p
  <2>4. ASSUME NEW CONSTANT q, NEW CONSTANT i, q = p, i = m PROVE q \in Made'
    <3>1. IsPackage(q, i)'
      BY <1>3, <2>2, <2>3, <2>4 DEF IsPackage
    <3>2. i \in 1..Len(made')
      BY <1>3, <1>4, <2>4
    <3>. QED
      BY <2>1, <2>4, <3>1, <3>2 DEF Made
  <2>. QED
    BY <2>2, <2>4
<1>. HIDE DEF p, m
<1>8. /\ Expire(Take(n), X) \in Seq(Made') /\ Rest(n) \in Seq(Made')
      /\ SeqsOf(Range(unconformed)) =
           SeqsOf(Range(Rest(n))) \cup SeqsOf(Range(Expire(Take(n), X)))
  BY <1>2, <1>5, <1>6, Rotated
<1>9. <<p>> \in Seq(Made') /\ Range(<<p>>) = {p}
  BY <1>7 DEF Range
<1>10. <<p>> \o Expire(Take(n), X) \in Seq(Made')
  BY <1>8, <1>9, ConcatProperties
<1>11. /\ unconformed' \in Seq(Made')
       /\ SeqsOf(Range(unconformed')) = SeqsOf(Range(unconformed)) \cup {Number(m)}
  <2>1. /\ Rest(n) \o <<p>> \in Seq(Made')
        /\ Range(Rest(n) \o <<p>>) = Range(Rest(n)) \cup {p}
    <3>. DEFINE M == Made'
    <3>. HIDE DEF M
    <3>1. Rest(n) \in Seq(M) /\ <<p>> \in Seq(M) /\ Range(<<p>>) = {p}
      BY <1>8, <1>9 DEF M
    <3>2. Rest(n) \o <<p>> \in Seq(M)
      BY <3>1, ConcatProperties
    <3>3. Range(Rest(n) \o <<p>>) = Range(Rest(n)) \cup Range(<<p>>)
      BY <3>1, RangeConcatenation
    <3>. QED
      BY <3>1, <3>2, <3>3 DEF M
  <2>2. /\ unconformed' \in Seq(Made')
        /\ Range(unconformed') = Range(Rest(n)) \cup {p} \cup Range(Expire(Take(n), X))
    <3>. DEFINE M == Made'  s == Rest(n) \o <<p>>  t == Expire(Take(n), X)
    <3>1. s \in Seq(M) /\ t \in Seq(M) /\ unconformed' = s \o t
      BY <1>1, <1>8, <2>1
    <3>. HIDE DEF M, s, t
    <3>2. s \o t \in Seq(M)
      BY <3>1, ConcatProperties
    <3>3. Range(s \o t) = Range(s) \cup Range(t)
      BY <3>1, RangeConcatenation
    <3>. QED
      BY <2>1, <3>1, <3>2, <3>3 DEF M, s, t
  <2>. QED
    BY <1>7, <1>8, <2>2 DEF SeqsOf
<1>12. ConfirmedInv'
  <2>1. Arrived \subseteq Arrived'
    BY <1>6, ParserKept DEF SendData, parserVars
  <2>2. \A i \in 1..Len(made') : i \in 1..Len(made) \/ i = m
    BY <1>3, <1>4 DEF m
  <2>. QED
    BY <1>11, <2>1, <2>2 DEF ArqInv, ConfirmedInv
<1>. QED
  BY <1>1, <1>3, <1>6, <1>10, <1>11, <1>12, Sending DEF SendData, senderVars

LEMMA DropDataStep == ASSUME ArqInv, DropData PROVE ArqInv'
<1>1. Range(queue) \in SUBSET (1..Data)
  BY RangeOfSeq DEF ArqInv, TypeOK
<1>2. Grows /\ cut' \in SUBSET (1..Data)
  <2>1. made' = made /\ cut' = cut \cup Range(queue)
    BY DEF DropData
  <2>2. made \in Seq(1..Data) /\ Len(made) \in 0..Data /\ cut \in SUBSET (1..Data)
    BY MadeNumbers DEF ArqInv, TypeOK
  <2>. QED
    <3>1. cut \subseteq cut' /\ cut' \in SUBSET (1..Data)
      BY <1>1, <2>1, <2>2
    <3>. QED
      BY <2>1, <2>2, <3>1, SeqAssumption DEF Grows
<1>3. Arrived \subseteq Arrived' /\ ParserInv'
  BY <1>2, ParserKept DEF DropData, parserVars
<1>4. FeedbackInv' /\ ConfirmedInv'
  BY <1>2, <1>3, FeedbackKept DEF DropData, peerVars, ArqInv, ConfirmedInv
<1>5. PackageInv'
  BY <1>2, MadeGrows, SeqMonotonic DEF DropData, parserVars, readVars, ArqInv, PackageInv
<1>6. SendInv'
  BY MadeNumbers DEF DropData, ArqInv, SendInv
<1>7. TypeOK'
  BY <1>2 DEF DropData, parserVars, readVars, peerVars, ArqInv, TypeOK
<1>. QED
  BY <1>3, <1>4, <1>5, <1>6, <1>7 DEF ArqInv

\* What the peer says has arrived is forgotten, and nothing else.
LEMMA ReceiveFeedbackStep ==
  ASSUME ArqInv, NEW f \in feedback, ReceiveFeedback(f)
  PROVE  ArqInv'
<1>. DEFINE confirmed(q) == q.seq \in f.acks \/ \E una \in f.una : Within(q.seq, una)
            K == {i \in DOMAIN unconformed : ~confirmed(unconformed[i])}
<1>1. unconformed \in Seq(Made) /\ DOMAIN unconformed = 1..Len(unconformed)
  BY LenProperties DEF ArqInv, PackageInv
<1>2. unconformed' \in Only(unconformed, K)
  BY DEF ReceiveFeedback, Conform
<1>3. /\ unconformed' \in Seq(Made)
      /\ \A i \in K : \E j \in 1..Len(unconformed') : unconformed'[j] = unconformed[i]
  <2>1. K \in SUBSET (1..Len(unconformed))
    BY <1>1
  <2>. HIDE DEF K
  <2>2. unconformed' \in Seq(Made)
    BY <1>1, <1>2, <2>1, OnlyKeeps
  <2>3. PICK g \in [1..Len(unconformed') -> K] :
          /\ \A j \in 1..Len(unconformed') : unconformed'[j] = unconformed[g[j]]
          /\ \A k \in K : \E j \in 1..Len(unconformed') : g[j] = k
    BY <1>1, <1>2, <2>1, OnlyKeeps
  <2>. QED
    BY <2>2, <2>3
<1>4. UNCHANGED <<inOrder, queue, made, cut, started, last, ahead, cache, delivered>>
  BY DEF ReceiveFeedback, parserVars
<1>5. Grows
  BY <1>4, MadeNumbers DEF Grows, ArqInv, TypeOK
<1>6. Arrived \subseteq Arrived' /\ ParserInv' /\ Made \subseteq Made'
  BY <1>4, <1>5, ParserKept, MadeGrows
<1>7. feedback' \subseteq feedback /\ received' = received
  BY DEF ReceiveFeedback, peerVars
<1>8. ASSUME NEW i \in 1..Len(made), Number(i) \in SeqsOf(Range(unconformed))
      PROVE  i \in Arrived \/ Number(i) \in SeqsOf(Range(unconformed'))
  <2>1. PICK j \in 1..Len(unconformed) : unconformed[j].seq = Number(i)
    BY <1>1, <1>8 DEF SeqsOf, Range
  <2>2. CASE j \in K
    <3>1. PICK x \in 1..Len(unconformed') : unconformed'[x] = unconformed[j]
      BY <1>3, <2>2
    <3>2. unconformed'[x] \in Range(unconformed')
      BY <1>3, LenProperties DEF Range
    <3>. QED
      BY <2>1, <3>1, <3>2 DEF SeqsOf
  <2>3. CASE confirmed(unconformed[j])
    <3>1. CASE Number(i) \in f.acks
      <4>1. PICK x \in Arrived : Number(i) = Number(x)
        BY <3>1 DEF ArqInv, FeedbackInv, Numbers
      <4>. QED
        BY <4>1, MadeNumbers DEF Arrived
    <3>2. ASSUME NEW una \in f.una, Within(Number(i), una) PROVE i \in Arrived
      <4>1. PICK l \in 1..Len(made) : una = Number(l) /\ 1..l \subseteq Arrived
        BY DEF ArqInv, FeedbackInv
      <4>2. i <= l
        BY <3>2, <4>1, MadeNumbers
      <4>. QED
        BY <4>1, <4>2
    <3>. QED
      BY <2>1, <2>3, <3>1, <3>2
  <2>. QED
    BY <1>1, <2>2, <2>3
<1>9. ConfirmedInv'
  BY <1>4, <1>6, <1>8 DEF ArqInv, ConfirmedInv
<1>10. FeedbackInv'
  BY <1>5, <1>6, <1>7, FeedbackKept
<1>11. PackageInv'
  <2>1. UNCHANGED <<net, inbox, cache>>
    BY DEF ReceiveFeedback, parserVars, readVars
  <2>. QED
    BY <1>3, <1>6, <2>1, SeqMonotonic DEF ArqInv, PackageInv
<1>12. SendInv'
  BY <1>4 DEF ArqInv, SendInv
<1>13. TypeOK'
  <2>1. Made \subseteq Package
    BY DEF Made
  <2>2. unconformed' \in Seq(Package)
    BY <1>3, <2>1, SeqMonotonic
  <2>. QED
    BY <1>4, <1>7, <2>2 DEF ArqInv, TypeOK, ReceiveFeedback, parserVars, readVars, peerVars
<1>. QED
  BY <1>6, <1>9, <1>10, <1>11, <1>12, <1>13 DEF ArqInv

-----------------------------------------------------------------------------
(* The parser *)

\* What is handed on of ds: all but the data that has expired, in that order.
HandsOn(out, c, ds) ==
  \E f \in [1..Len(out) -> 1..c] :
    /\ \A j \in 1..Len(out) : ds[f[j]] # 0 /\ out[j] = ds[f[j]]
    /\ \A k \in 1..c : ds[k] # 0 => \E j \in 1..Len(out) : f[j] = k
    /\ \A a, b \in 1..Len(out) : a < b => f[a] < f[b]

LEMMA Delivers ==
  ASSUME NEW c \in Nat, NEW ds \in [1..c -> 0..Data], Deliver(ds)
  PROVE  \E out \in Seq(1..Data) : delivered' = delivered \o out /\ HandsOn(out, c, ds)
<1>. DEFINE K == {i \in 1..c : ds[i] # 0}
<1>1. ds \in Seq(0..Data) /\ Len(ds) = c /\ DOMAIN ds = 1..c
  BY FunctionIsSeq
<1>2. PICK out \in Only(ds, K) : delivered' = delivered \o out
  BY <1>1 DEF Deliver
<1>3. K \in SUBSET (1..Len(ds)) /\ \A i \in K : i \in 1..c /\ ds[i] # 0 /\ ds[i] \in 1..Data
  BY <1>1, SeqAssumption
<1>4. \A i \in 1..c : ds[i] # 0 => i \in K
  OBVIOUS
<1>. HIDE DEF K
<1>. DEFINE S == 0..Data
<1>5. ds \in Seq(S) /\ out \in Only(ds, K)
  BY <1>1, <1>2
<1>. HIDE DEF S
<1>0. out \in Seq(S)
  BY <1>3, <1>5, OnlyKeeps
<1>6. PICK f \in [1..Len(out) -> K] :
        /\ \A j \in 1..Len(out) : out[j] = ds[f[j]]
        /\ \A k \in K : \E j \in 1..Len(out) : f[j] = k
        /\ \A a, b \in 1..Len(out) : a < b => f[a] < f[b]
  BY <1>3, <1>5, OnlyKeeps
<1>7. out \in Seq(1..Data)
  <2>1. Len(out) \in Nat /\ \A j \in 1..Len(out) : out[j] \in 1..Data
    BY <1>3, <1>0, <1>6, LenProperties
  <2>2. out \in [1..Len(out) -> 0..Data]
    BY <1>0, LenProperties DEF S
  <2>3. out \in [1..Len(out) -> 1..Data]
    BY <2>1, <2>2
  <2>. QED
    BY <2>1, <2>3, FunctionIsSeq
<1>8. /\ f \in [1..Len(out) -> 1..c]
      /\ \A j \in 1..Len(out) : ds[f[j]] # 0 /\ out[j] = ds[f[j]]
      /\ \A k \in 1..c : ds[k] # 0 => \E j \in 1..Len(out) : f[j] = k
  BY <1>3, <1>4, <1>6
<1>. QED
  BY <1>2, <1>6, <1>7, <1>8 DEF HandsOn

\* ds are the messages of packages g, which the parser waits for or has not seen.
Unseen(l, c, ds, g) ==
  /\ \A a, b \in 1..c : a < b => g[a] # g[b] /\ (inOrder => g[a] < g[b])
  /\ \A a \in 1..c : ds[a] = made[g[a]] \/ (ds[a] = 0 /\ made[g[a]] \in cut)
  /\ \A a \in 1..c : g[a] > l /\ (inOrder \/ Number(g[a]) \notin ahead)

\* Packages g have been handed on, and otherwise only some up to l or out of order.
Handed(l, c, g) ==
  /\ \A a \in 1..c : made[g[a]] \in Range(delivered') \cup cut
  /\ \A k \in 1..Len(delivered') : \E i \in 1..Len(made) :
       /\ delivered'[k] = made[i]
       /\ i <= l \/ (~inOrder /\ Number(i) \in ahead) \/ \E a \in 1..c : i = g[a]

LEMMA HandedOn ==
  ASSUME ArqInv, UNCHANGED <<inOrder, made, cut>>,
         NEW l \in 0..Len(made), Parsed(l),
         NEW c \in Nat, NEW ds \in [1..c -> 0..Data], NEW g \in [1..c -> 1..Len(made)],
         Unseen(l, c, ds, g), Deliver(ds)
  PROVE  /\ delivered' \in Seq(1..Data) /\ Range(delivered) \subseteq Range(delivered')
         /\ OnceAndInOrder'
         /\ Handed(l, c, g)
<1>1. PICK out \in Seq(1..Data) : delivered' = delivered \o out /\ HandsOn(out, c, ds)
  BY Delivers
<1>2. delivered' = delivered \o out
  BY <1>1
<1>3. PICK f \in [1..Len(out) -> 1..c] :
        /\ \A j \in 1..Len(out) : ds[f[j]] # 0 /\ out[j] = ds[f[j]]
        /\ \A k \in 1..c : ds[k] # 0 => \E j \in 1..Len(out) : f[j] = k
        /\ \A a, b \in 1..Len(out) : a < b => f[a] < f[b]
  BY <1>1 DEF HandsOn
\* The j-th message handed on is that of package h[j].
<1>. DEFINE h == [j \in 1..Len(out) |-> g[f[j]]]
<1>4. /\ h \in [1..Len(out) -> 1..Len(made)]
      /\ \A j \in 1..Len(out) : out[j] = made[h[j]]
      /\ \A j \in 1..Len(out) : h[j] > l /\ (inOrder \/ Number(h[j]) \notin ahead)
      /\ \A j \in 1..Len(out) : \E a \in 1..c : h[j] = g[a]
  BY <1>3 DEF Unseen
<1>5. \A a, b \in 1..Len(out) : a < b => h[a] # h[b] /\ (inOrder => h[a] < h[b])
  BY <1>3 DEF Unseen
<1>6. out \in Seq(1..Data) /\ Len(out) \in Nat
  BY LenProperties
<1>. HIDE DEF h
<1>7. /\ delivered \in Seq(1..Data) /\ Len(delivered) \in Nat
      /\ \A k \in 1..Len(delivered) : \E i \in 1..Len(made) :
           delivered[k] = made[i] /\ (i <= l \/ (~inOrder /\ Number(i) \in ahead))
      /\ OnceAndInOrder
  BY DEF ArqInv, TypeOK, Parsed
<1>8. /\ delivered' \in Seq(1..Data) /\ Len(delivered') = Len(delivered) + Len(out)
      /\ \A k \in 1..Len(delivered') :
           delivered'[k] = IF k <= Len(delivered) THEN delivered[k] ELSE out[k - Len(delivered)]
      /\ Range(delivered') = Range(delivered) \cup Range(out)
  BY <1>2, <1>6, <1>7, ConcatProperties, RangeConcatenation
<1>9. ASSUME NEW a \in 1..c PROVE made[g[a]] \in Range(delivered') \cup cut
  <2>1. CASE ds[a] # 0
    <3>1. PICK j \in 1..Len(out) : f[j] = a
      BY <1>3, <2>1
    <3>2. out[j] = made[g[a]]
      BY <1>3, <2>1, <3>1 DEF Unseen
    <3>3. out[j] \in Range(out)
      BY <1>6, <3>1, RangeEquality
    <3>. QED
      BY <1>8, <3>2, <3>3
  <2>2. CASE ds[a] = 0
    BY <2>2, MadeNumbers DEF Unseen
  <2>. QED
    BY <2>1, <2>2
<1>10. ASSUME NEW k \in 1..Len(delivered')
       PROVE  \E i \in 1..Len(made) :
                /\ delivered'[k] = made[i]
                /\ i <= l \/ (~inOrder /\ Number(i) \in ahead) \/ \E a \in 1..c : i = g[a]
  <2>1. CASE k <= Len(delivered)
    <3>1. k \in 1..Len(delivered) /\ delivered'[k] = delivered[k]
      BY <1>7, <1>8, <2>1
    <3>. QED
      BY <1>7, <3>1
  <2>2. CASE ~(k <= Len(delivered))
    <3>. DEFINE v == k - Len(delivered)
    <3>1. v \in 1..Len(out) /\ delivered'[k] = out[v]
      BY <1>6, <1>7, <1>8, <2>2
    <3>. HIDE DEF v
    <3>2. h[v] \in 1..Len(made) /\ delivered'[k] = made[h[v]] /\ \E a \in 1..c : h[v] = g[a]
      BY <1>4, <3>1
    <3>. QED
      BY <3>2
  <2>. QED
    BY <2>1, <2>2
<1>11. ASSUME NEW i \in 1..Len(delivered'), NEW j \in 1..Len(delivered'), i < j
       PROVE  /\ delivered'[i] # delivered'[j]
              /\ inOrder => delivered'[i] < delivered'[j]
  <2>. DEFINE u == i - Len(delivered)  v == j - Len(delivered)
  <2>1. CASE j <= Len(delivered)
    <3>1. /\ i \in 1..Len(delivered) /\ delivered'[i] = delivered[i]
          /\ j \in 1..Len(delivered) /\ delivered'[j] = delivered[j]
      BY <1>7, <1>8, <1>11, <2>1
    <3>. QED
      BY <1>7, <1>11, <3>1 DEF OnceAndInOrder
  <2>2. CASE i <= Len(delivered) /\ ~(j <= Len(delivered))
    <3>1. v \in 1..Len(out) /\ delivered'[j] = out[v]
      BY <1>6, <1>7, <1>8, <2>2
    <3>2. i \in 1..Len(delivered) /\ delivered'[i] = delivered[i]
      BY <1>7, <1>8, <2>2
    <3>. HIDE DEF v
    <3>3. PICK x \in 1..Len(made) :
            delivered[i] = made[x] /\ (x <= l \/ (~inOrder /\ Number(x) \in ahead))
      BY <1>7, <3>2
    <3>. DEFINE y == h[v]
    <3>4. y \in 1..Len(made) /\ out[v] = made[y] /\ y > l /\ (inOrder \/ Number(y) \notin ahead)
      BY <1>4, <3>1
    <3>. HIDE DEF y
    <3>5. x # y /\ (inOrder => x < y)
      BY <3>3, <3>4, MadeNumbers
    <3>6. made[x] # made[y] /\ (inOrder => made[x] < made[y])
      BY <3>4, <3>5, MadeNumbers DEF ArqInv, SendInv
    <3>. QED
      BY <3>1, <3>2, <3>3, <3>4, <3>6
  <2>3. CASE ~(i <= Len(delivered))
    <3>1. /\ u \in 1..Len(out) /\ delivered'[i] = out[u]
          /\ v \in 1..Len(out) /\ delivered'[j] = out[v] /\ u < v
      <4>1. u \in 1..Len(out) /\ v \in 1..Len(out) /\ u < v
        BY <1>6, <1>7, <1>8, <1>11, <2>3
      <4>. QED
        <5>1. ~(j <= Len(delivered))
          BY <1>7, <1>11, <2>3
        <5>. QED
          BY <1>8, <2>3, <4>1, <5>1
    <3>. HIDE DEF u, v
    <3>. DEFINE x == h[u]  y == h[v]
    <3>2. /\ x \in 1..Len(made) /\ out[u] = made[x]
          /\ y \in 1..Len(made) /\ out[v] = made[y]
          /\ x # y /\ (inOrder => x < y)
      BY <1>4, <1>5, <3>1
    <3>. HIDE DEF x, y
    <3>. QED
      BY <3>1, <3>2, MadeNumbers DEF ArqInv, SendInv
  <2>. QED
    BY <1>7, <1>11, <2>1, <2>2, <2>3
<1>12. OnceAndInOrder'
  BY <1>11 DEF OnceAndInOrder
<1>. QED
  BY <1>8, <1>9, <1>10, <1>12 DEF Handed

\* What is cached are messages of packages, or nothing if they had expired.
LEMMA CachedMessages ==
  ASSUME ArqInv, NEW c \in Nat, NEW ss \in [1..c -> SeqsOf(cache)]
  PROVE  /\ CachedData(ss) \in [1..c -> 0..Data]
         /\ \A k \in 1..c, i \in 1..Len(made) : Number(i) = ss[k] =>
              \/ CachedData(ss)[k] = made[i]
              \/ CachedData(ss)[k] = 0 /\ made[i] \in cut
<1>. DEFINE q(s) == CHOOSE p \in cache : p.seq = s
<1>1. \A s \in SeqsOf(cache) : q(s) \in cache /\ q(s).seq = s
  BY DEF SeqsOf
<1>2. cache \subseteq Made /\ Made \subseteq Package
  BY DEF ArqInv, PackageInv, Made
<1>3. CachedData(ss) = [k \in 1..c |-> q(ss[k]).data]
  BY DEF CachedData
<1>. HIDE DEF q
<1>4. \A s \in SeqsOf(cache) : q(s).data \in 0..Data
  BY <1>1, <1>2 DEF Package
<1>5. ASSUME NEW s \in SeqsOf(cache), NEW i \in 1..Len(made), Number(i) = s
      PROVE  q(s).data = made[i] \/ (q(s).data = 0 /\ made[i] \in cut)
  <2>1. PICK j \in 1..Len(made) : IsPackage(q(s), j)
    BY <1>1, <1>2 DEF Made
  <2>2. j = i
    BY <1>1, <1>5, <2>1, MadeNumbers DEF IsPackage
  <2>. QED
    BY <2>1, <2>2 DEF IsPackage
<1>. QED
  BY <1>3, <1>4, <1>5

\* Packages h, which are after the next, have the numbers ss.
Later(c, h, ss) ==
  /\ \A k \in 1..c : ss[k] = Number(h[k]) /\ (inOrder \/ ss[k] \notin ahead)
  /\ \A a, b \in 1..c : a < b => h[a] # h[b] /\ (inOrder => h[a] < h[b])

\* The next package is handed on, and with it the cached ones of h.
LEMMA HandedOnWithCached ==
  ASSUME ArqInv, UNCHANGED <<inOrder, made, cut>>,
         NEW l \in 0..Len(made), Parsed(l), l < Len(made),
         NEW p \in Package, IsPackage(p, l + 1),
         NEW c \in Nat, NEW h \in [1..c -> (l + 2)..Len(made)],
         NEW ss \in [1..c -> SeqsOf(cache)], Later(c, h, ss),
         Deliver(<<p.data>> \o CachedData(ss))
  PROVE  /\ delivered' \in Seq(1..Data) /\ Range(delivered) \subseteq Range(delivered')
         /\ made[l + 1] \in Range(delivered') \cup cut
         /\ OnceAndInOrder'
         /\ Handed(l + 1, c, h)
<1>. DEFINE cd == CachedData(ss)
            ds == <<p.data>> \o cd
            g == [k \in 1..(c + 1) |-> IF k = 1 THEN l + 1 ELSE h[k - 1]]
<1>1. /\ cd \in [1..c -> 0..Data]
      /\ \A k \in 1..c, i \in 1..Len(made) : Number(i) = ss[k] =>
           cd[k] = made[i] \/ (cd[k] = 0 /\ made[i] \in cut)
  BY CachedMessages
<1>2. cd \in Seq(0..Data) /\ Len(cd) = c
  BY <1>1, FunctionIsSeq
<1>3. p.data \in 0..Data /\ (p.data = made[l + 1] \/ (p.data = 0 /\ made[l + 1] \in cut))
  BY DEF Package, IsPackage
<1>. HIDE DEF cd
<1>4. /\ ds \in [1..(c + 1) -> 0..Data] /\ ds[1] = p.data
      /\ \A k \in 1..c : ds[k + 1] = cd[k]
  <2>. DEFINE S == 0..Data  one == <<p.data>>
  <2>1. one \in Seq(S) /\ cd \in Seq(S) /\ Len(one) = 1 /\ one[1] = p.data
    BY <1>2, <1>3
  <2>2. ds = one \o cd
    OBVIOUS
  <2>. HIDE DEF S, one, ds
  <2>3. /\ ds \in Seq(S) /\ Len(ds) = 1 + c
        /\ \A i \in 1..(1 + c) : ds[i] = IF i <= 1 THEN one[i] ELSE cd[i - 1]
    <3>1. /\ ds \in Seq(S) /\ Len(ds) = Len(one) + Len(cd)
          /\ \A i \in 1..(Len(one) + Len(cd)) :
               ds[i] = IF i <= Len(one) THEN one[i] ELSE cd[i - Len(one)]
      BY <2>1, <2>2, ConcatProperties
    <3>. QED
      BY <1>2, <2>1, <3>1
  <2>4. ds \in [1..(c + 1) -> S]
    BY <2>3, LenProperties
  <2>5. 1 \in 1..(1 + c) /\ \A k \in 1..c : k + 1 \in 1..(1 + c) /\ ~(k + 1 <= 1) /\ k + 1 - 1 = k
    OBVIOUS
  <2>6. ds[1] = one[1] /\ \A k \in 1..c : ds[k + 1] = cd[k]
    BY <2>3, <2>5
  <2>. QED
    BY <2>1, <2>4, <2>6 DEF S
<1>5. /\ g \in [1..(c + 1) -> 1..Len(made)] /\ g[1] = l + 1
      /\ \A k \in 1..c : g[k + 1] = h[k]
      /\ \A k \in 1..(c + 1) : k = 1 \/ (k - 1 \in 1..c /\ g[k] = h[k - 1])
  <2>1. l + 1 \in 1..Len(made) /\ \A k \in 1..c : h[k] \in 1..Len(made)
    BY MadeNumbers
  <2>. QED
    BY <2>1
<1>6. l + 1 \in 1..Len(made) /\ Len(made) \in Nat /\ Number(l + 1) \notin ahead
  <2>1. l + 1 \in 1..Len(made) /\ \A j \in (l + 2)..Len(made) : j \in 1..Len(made) /\ j # l + 1
    BY MadeNumbers
  <2>. QED
    BY <2>1, MadeNumbers DEF Parsed, Numbers
<1>. HIDE DEF ds, g
<1>7. Unseen(l, c + 1, ds, g)
  <2>1. ASSUME NEW a \in 1..(c + 1), NEW b \in 1..(c + 1), a < b
        PROVE  g[a] # g[b] /\ (inOrder => g[a] < g[b])
    <3>1. b - 1 \in 1..c /\ g[b] = h[b - 1]
      BY <1>5, <2>1
    <3>2. h[b - 1] \in (l + 2)..Len(made)
      BY <3>1
    <3>3. CASE a = 1
      BY <1>5, <1>6, <3>1, <3>2, <3>3
    <3>4. CASE a # 1
      <4>1. a - 1 \in 1..c /\ g[a] = h[a - 1] /\ a - 1 < b - 1
        BY <1>5, <2>1, <3>4
      <4>. QED
        BY <3>1, <4>1 DEF Later
    <3>. QED
      BY <3>3, <3>4
  <2>2. ASSUME NEW a \in 1..(c + 1)
        PROVE  /\ ds[a] = made[g[a]] \/ (ds[a] = 0 /\ made[g[a]] \in cut)
               /\ g[a] > l /\ (inOrder \/ Number(g[a]) \notin ahead)
    <3>1. CASE a = 1
      BY <1>3, <1>4, <1>5, <1>6, <3>1
    <3>2. CASE a # 1
      <4>. DEFINE k == a - 1
      <4>1. k \in 1..c /\ a = k + 1
        BY <2>2, <3>2
      <4>. HIDE DEF k
      <4>2. ds[a] = cd[k] /\ g[a] = h[k] /\ h[k] \in (l + 2)..Len(made) /\ h[k] \in 1..Len(made)
        BY <1>4, <1>5, <1>6, <4>1
      <4>3. ss[k] = Number(h[k]) /\ (inOrder \/ ss[k] \notin ahead)
        BY <4>1 DEF Later
      <4>4. cd[k] = made[h[k]] \/ (cd[k] = 0 /\ made[h[k]] \in cut)
        BY <1>1, <4>1, <4>2, <4>3
      <4>. QED
        BY <1>6, <4>2, <4>3, <4>4
    <3>. QED
      BY <3>1, <3>2
  <2>. QED
    BY <2>1, <2>2 DEF Unseen
<1>8. Deliver(ds)
  BY DEF ds, cd
<1>9. /\ delivered' \in Seq(1..Data) /\ Range(delivered) \subseteq Range(delivered')
      /\ OnceAndInOrder'
      /\ Handed(l, c + 1, g)
  <2>. DEFINE e == c + 1
  <2>1. e \in Nat /\ ds \in [1..e -> 0..Data] /\ g \in [1..e -> 1..Len(made)]
        /\ Unseen(l, e, ds, g)
    BY <1>4, <1>5, <1>7
  <2>. HIDE DEF e
  <2>2. /\ delivered' \in Seq(1..Data) /\ Range(delivered) \subseteq Range(delivered')
        /\ OnceAndInOrder'
        /\ Handed(l, e, g)
    BY <1>8, <2>1, HandedOn
  <2>. QED
    BY <2>2 DEF e
<1>10. \A k \in 1..c : k + 1 \in 1..(c + 1) /\ 1 \in 1..(c + 1)
  OBVIOUS
<1>11. made[l + 1] \in Range(delivered') \cup cut
  BY <1>5, <1>9 DEF Handed
<1>12. \A k \in 1..c : made[h[k]] \in Range(delivered') \cup cut
  BY <1>5, <1>9, <1>10 DEF Handed
<1>13. ASSUME NEW k \in 1..Len(delivered')
       PROVE  \E i \in 1..Len(made) :
                /\ delivered'[k] = made[i]
                /\ i <= l + 1 \/ (~inOrder /\ Number(i) \in ahead) \/ \E a \in 1..c : i = h[a]
  <2>1. PICK i \in 1..Len(made) :
          /\ delivered'[k] = made[i]
          /\ i <= l \/ (~inOrder /\ Number(i) \in ahead) \/ \E a \in 1..(c + 1) : i = g[a]
    BY <1>9 DEF Handed
  <2>2. ASSUME NEW a \in 1..(c + 1), i = g[a] PROVE i <= l + 1 \/ \E b \in 1..c : i = h[b]
    <3>1. CASE a = 1
      BY <1>5, <1>6, <2>2, <3>1
    <3>2. CASE a # 1
      BY <1>5, <2>2, <3>2
    <3>. QED
      BY <3>1, <3>2
  <2>. QED
    BY <1>6, <2>1, <2>2
<1>. QED
  BY <1>9, <1>11, <1>12, <1>13 DEF Handed

\* Everything up to package l has been handed on, and what is in S if that does
\* not have to wait.
HandedOnTo(l, S) ==
  /\ delivered' \in Seq(1..Data) /\ Range(delivered) \subseteq Range(delivered')
  /\ OnceAndInOrder'
  /\ \A j \in 1..Len(made) : j <= l \/ (~inOrder /\ Number(j) \in S) =>
       made[j] \in Range(delivered') \cup cut
  /\ \A k \in 1..Len(delivered') : \E j \in 1..Len(made) :
       delivered'[k] = made[j] /\ (j <= l \/ (~inOrder /\ Number(j) \in S))

LEMMA NextInOrder ==
  ASSUME ArqInv, UNCHANGED <<inOrder, made, cut>>, inOrder,
         NEW l \in 0..Len(made), Parsed(l), l < Len(made),
         NEW p \in Package, IsPackage(p, l + 1),
         NEW n \in 0..(Len(made) - (l + 1)),
         \A k \in 1..n : /\ Plus(p.seq, k) = Number(l + 1 + k)
                         /\ Number(l + 1 + k) \in SeqsOf(cache),
         Deliver(<<p.data>> \o CachedData([k \in 1..n |-> Plus(p.seq, k)]))
  PROVE  HandedOnTo(l + 1 + n, SeqsOf(cache))
<1>. DEFINE h == [k \in 1..n |-> l + 1 + k]
            ss == [k \in 1..n |-> Plus(p.seq, k)]
<1>1. n \in Nat /\ Len(made) \in Nat
  BY MadeNumbers
<1>2. h \in [1..n -> (l + 2)..Len(made)] /\ ss \in [1..n -> SeqsOf(cache)]
  BY <1>1
<1>3. \A k \in 1..n : h[k] = l + 1 + k /\ ss[k] = Number(h[k])
  OBVIOUS
<1>4. Deliver(<<p.data>> \o CachedData(ss))
  OBVIOUS
<1>. HIDE DEF h, ss
<1>5. Later(n, h, ss)
  BY <1>1, <1>3 DEF Later
<1>6. /\ delivered' \in Seq(1..Data) /\ Range(delivered) \subseteq Range(delivered')
      /\ made[l + 1] \in Range(delivered') \cup cut
      /\ OnceAndInOrder'
      /\ Handed(l + 1, n, h)
  BY <1>1, <1>2, <1>4, <1>5, HandedOnWithCached
<1>7. ASSUME NEW j \in 1..Len(made), j <= l + 1 + n
      PROVE  made[j] \in Range(delivered') \cup cut
  <2>1. CASE j <= l
    <3>1. j \in 1..l
      BY <2>1
    <3>. QED
      BY <1>6, <3>1 DEF Parsed
  <2>2. CASE j = l + 1
    BY <1>6, <2>2
  <2>3. CASE j > l + 1
    <3>. DEFINE k == j - (l + 1)
    <3>1. k \in 1..n /\ j = l + 1 + k
      BY <1>1, <1>7, <2>3
    <3>. HIDE DEF k
    <3>. QED
      BY <1>3, <1>6, <3>1 DEF Handed
  <2>. QED
    BY <1>1, <2>1, <2>2, <2>3
<1>8. ASSUME NEW k \in 1..Len(delivered')
      PROVE  \E j \in 1..Len(made) : delivered'[k] = made[j] /\ j <= l + 1 + n
  <2>1. PICK i \in 1..Len(made) :
          /\ delivered'[k] = made[i]
          /\ i <= l + 1 \/ (~inOrder /\ Number(i) \in ahead) \/ \E a \in 1..n : i = h[a]
    BY <1>6 DEF Handed
  <2>2. i <= l + 1 \/ \E a \in 1..n : i = l + 1 + a
    BY <1>3, <2>1
  <2>. QED
    BY <1>1, <2>1, <2>2
<1>. QED
  BY <1>6, <1>7, <1>8 DEF HandedOnTo

LEMMA NextOutOfOrder ==
  ASSUME ArqInv, UNCHANGED <<inOrder, made, cut>>, ~inOrder,
         NEW l \in 0..Len(made), Parsed(l), l < Len(made),
         NEW p \in Package, IsPackage(p, l + 1),
         NEW early, early = IF started THEN {} ELSE SeqsOf(cache),
         NEW order \in Orderings(early),
         NEW n \in 0..(Len(made) - (l + 1)),
         \A k \in 1..n : Number(l + 1 + k) \in ahead \cup early,
         Deliver(<<p.data>> \o CachedData(order))
  PROVE  HandedOnTo(l + 1 + n, ahead \cup early)
<1>. DEFINE c == Cardinality(early)
            h == [k \in 1..c |-> CHOOSE j \in (l + 2)..Len(made) : Number(j) = order[k]]
<1>1. n \in Nat /\ Len(made) \in Nat
  BY MadeNumbers
<1>2. /\ early \subseteq SeqsOf(cache) /\ early \subseteq Numbers((l + 2)..Len(made))
      /\ \A s \in early : s \notin ahead
  BY DEF Parsed
<1>3. /\ c \in Nat /\ order \in [1..c -> early] /\ Len(order) = c
      /\ \A s \in early : \E k \in 1..c : order[k] = s
      /\ \A a, b \in 1..c : a # b => order[a] # order[b]
  <2>1. early \subseteq Seqs
    BY <1>2 DEF SeqsOf, ArqInv, TypeOK, Package
  <2>2. IsFiniteSet(Seqs)
    BY FS_Interval, SeqAssumption DEF Seqs
  <2>3. IsFiniteSet(early)
    BY <2>1, <2>2, FS_Subset
  <2>. QED
    BY <2>3, OrderingKeeps
<1>. HIDE DEF c
<1>4. h \in [1..c -> (l + 2)..Len(made)] /\ \A k \in 1..c : Number(h[k]) = order[k]
  <2>1. \A k \in 1..c : \E j \in (l + 2)..Len(made) : Number(j) = order[k]
    BY <1>2, <1>3 DEF Numbers
  <2>. QED
    BY <2>1
<1>5. order \in [1..c -> SeqsOf(cache)]
  BY <1>2, <1>3
<1>. HIDE DEF h
<1>6. Later(c, h, order)
  BY <1>2, <1>3, <1>4 DEF Later
<1>7. /\ delivered' \in Seq(1..Data) /\ Range(delivered) \subseteq Range(delivered')
      /\ made[l + 1] \in Range(delivered') \cup cut
      /\ OnceAndInOrder'
      /\ Handed(l + 1, c, h)
  BY <1>3, <1>4, <1>5, <1>6, HandedOnWithCached
<1>8. ASSUME NEW j \in 1..Len(made), Number(j) \in ahead \cup early
      PROVE  made[j] \in Range(delivered') \cup cut
  <2>1. CASE Number(j) \in early
    <3>1. PICK k \in 1..c : order[k] = Number(j)
      BY <1>3, <2>1
    <3>2. h[k] \in 1..Len(made) /\ Number(h[k]) = Number(j)
      BY <1>1, <1>4, <3>1
    <3>3. h[k] = j
      BY <3>2, MadeNumbers
    <3>. QED
      BY <1>7, <3>1, <3>3 DEF Handed
  <2>2. CASE Number(j) \in ahead
    <3>1. started /\ cache = {} /\ j \in Arrived
      BY <2>2 DEF Parsed
    <3>. QED
      BY <1>7, <3>1 DEF Arrived
  <2>. QED
    BY <1>8, <2>1, <2>2
<1>9. ASSUME NEW j \in 1..Len(made), j <= l + 1 + n
      PROVE  made[j] \in Range(delivered') \cup cut
  <2>1. CASE j <= l
    <3>1. j \in 1..l
      BY <2>1
    <3>. QED
      BY <1>7, <3>1 DEF Parsed
  <2>2. CASE j = l + 1
    BY <1>7, <2>2
  <2>3. CASE j > l + 1
    <3>. DEFINE k == j - (l + 1)
    <3>1. k \in 1..n /\ j = l + 1 + k
      BY <1>1, <1>9, <2>3
    <3>. HIDE DEF k
    <3>. QED
      BY <1>8, <3>1
  <2>. QED
    BY <1>1, <2>1, <2>2, <2>3
<1>10. ASSUME NEW k \in 1..Len(delivered')
       PROVE  \E j \in 1..Len(made) :
                delivered'[k] = made[j] /\ (j <= l + 1 + n \/ Number(j) \in ahead \cup early)
  <2>1. PICK i \in 1..Len(made) :
          /\ delivered'[k] = made[i]
          /\ i <= l + 1 \/ (~inOrder /\ Number(i) \in ahead) \/ \E a \in 1..c : i = h[a]
    BY <1>7 DEF Handed
  <2>2. i <= l + 1 => i <= l + 1 + n
    BY <1>1
  <2>3. (\E a \in 1..c : i = h[a]) => Number(i) \in early
    BY <1>3, <1>4
  <2>. QED
    BY <2>1, <2>2, <2>3
<1>. QED
  BY <1>7, <1>8, <1>9, <1>10 DEF HandedOnTo

\* What the invariant says of the parser, after the package it has waited for.
LEMMA ProceedKeeps ==
  ASSUME ArqInv, UNCHANGED <<inOrder, made, cut>>,
         NEW l \in 0..Len(made), Parsed(l), l < Len(made),
         NEW p \in Package, IsPackage(p, l + 1),
         NEW early, early = IF started THEN {} ELSE SeqsOf(cache),
         started', Proceed(p.seq, p.data, early)
  PROVE  /\ ParserInv' /\ Arrived \subseteq Arrived' /\ cache' \subseteq cache
         /\ delivered' \in Seq(1..Data) /\ last' \in Seqs /\ ahead' \in SUBSET Seqs
<1>. DEFINE m == Len(made)  i == l + 1  S == ahead \cup early
            n == RunLength(p.seq, S)  l2 == i + n
            passed == {Plus(p.seq, k) : k \in 0..n}
<1>1. m \in 0..Data /\ i \in 1..m /\ Data \in Nat /\ p.seq = Number(i)
  BY MadeNumbers, SeqAssumption DEF IsPackage
<1>2. /\ S \subseteq Numbers((l + 2)..m)
      /\ inOrder => S = SeqsOf(cache)
      /\ started /\ ~inOrder => cache = {}
      /\ ~started => S = SeqsOf(cache)
  BY DEF Parsed
<1>. HIDE DEF S
<1>3. /\ n \in 0..(m - i)
      /\ \A k \in 1..n : Plus(p.seq, k) = Number(i + k) /\ Number(i + k) \in S
      /\ i + n + 1 \in 1..Data => Number(i + n + 1) \notin S
  <2>1. \A s \in S : \E j \in (i + 1)..m : s = Number(j)
    BY <1>1, <1>2 DEF Numbers
  <2>2. p.seq = Number(i)
    BY <1>1
  <2>. HIDE DEF m, i
  <2>3. LET r == RunLength(Number(i), S) IN
        /\ r \in 0..(m - i)
        /\ \A k \in 1..r : Plus(Number(i), k) = Number(i + k) /\ Number(i + k) \in S
        /\ i + r + 1 \in 1..Data => Number(i + r + 1) \notin S
    BY <1>1, <2>1, RunOf
  <2>. QED
    BY <2>2, <2>3
<1>4. l2 \in i..m
  BY <1>1, <1>3
<1>5. \A k \in 0..n : Plus(p.seq, k) = Number(i + k) /\ i + k \in i..l2
  <2>. SUFFICES ASSUME NEW k \in 0..n PROVE Plus(p.seq, k) = Number(i + k) /\ i + k \in i..l2
    OBVIOUS
  <2>1. k \in 0..Data /\ i \in 1..Data /\ i + k <= Data /\ i + k \in i..l2
    BY <1>1, <1>3
  <2>. HIDE DEF n, i
  <2>. QED
    BY <1>1, <2>1, NumberAfter
<1>6. passed = Numbers(i..l2)
  <2>. HIDE DEF n
  <2>1. \A j \in i..l2 : j - i \in 0..n /\ i + (j - i) = j
    BY <1>1, <1>3
  <2>. QED
    BY <1>5, <2>1 DEF Numbers
<1>7. /\ last' = Number(l2)
      /\ ahead' = S \ passed
      /\ cache' = IF inOrder THEN {q \in cache : \A k \in 1..n : q.seq # Plus(p.seq, k)} ELSE {}
      /\ HandedOnTo(l2, S)
  <2>0. n \in 0..n /\ Plus(p.seq, n) = Number(l2)
    <3>. HIDE DEF n
    <3>. QED
      BY <1>3, <1>5
  <2>1. CASE inOrder
    <3>1. n = RunLength(p.seq, SeqsOf(cache))
      BY <1>2, <2>1
    <3>2. /\ last' = Plus(p.seq, n)
          /\ Deliver(<<p.data>> \o CachedData([k \in 1..n |-> Plus(p.seq, k)]))
          /\ cache' = {q \in cache : \A k \in 1..n : q.seq # Plus(p.seq, k)}
          /\ ahead' = S \ passed
      BY <2>1, <3>1 DEF Proceed, S
    <3>3. \A k \in 1..n : /\ Plus(p.seq, k) = Number(l + 1 + k)
                          /\ Number(l + 1 + k) \in SeqsOf(cache)
      BY <1>2, <1>3, <2>1
    <3>4. n \in 0..(Len(made) - (l + 1))
      BY <1>3
    <3>5. HandedOnTo(l2, S)
      <4>. HIDE DEF n
      <4>1. HandedOnTo(l + 1 + n, SeqsOf(cache))
        BY <2>1, <3>2, <3>3, <3>4, NextInOrder
      <4>. QED
        BY <1>2, <2>1, <4>1
    <3>. QED
      BY <2>0, <2>1, <3>2, <3>5
  <2>2. CASE ~inOrder
    <3>1. /\ last' = Plus(p.seq, n)
          /\ cache' = {}
          /\ ahead' = S \ passed
          /\ \E order \in Orderings(early) : Deliver(<<p.data>> \o CachedData(order))
      BY <2>2 DEF Proceed, S
    <3>2. PICK order \in Orderings(early) : Deliver(<<p.data>> \o CachedData(order))
      BY <3>1
    <3>3. n \in 0..(Len(made) - (l + 1)) /\ \A k \in 1..n : Number(l + 1 + k) \in S
      BY <1>3
    <3>4. HandedOnTo(l2, S)
      <4>. HIDE DEF n
      <4>1. HandedOnTo(l + 1 + n, ahead \cup early)
        BY <2>2, <3>2, <3>3, NextOutOfOrder DEF S
      <4>. QED
        BY <4>1 DEF S
    <3>. QED
      BY <2>0, <2>2, <3>1, <3>4
  <2>. QED
    BY <2>1, <2>2
<1>. HIDE DEF passed, n
<1>8. \A j \in 1..m : Number(j) \in passed => j <= l2
  <2>. SUFFICES ASSUME NEW j \in 1..m, Number(j) \in passed PROVE j <= l2
    OBVIOUS
  <2>1. PICK x \in i..l2 : Number(j) = Number(x)
    BY <1>6 DEF Numbers
  <2>2. x \in 1..m
    BY <1>1, <1>4
  <2>. QED
    BY <2>1, <2>2, MadeNumbers
<1>9. inOrder => cache' = {q \in cache : q.seq \notin passed}
  <2>. SUFFICES ASSUME inOrder, NEW q \in cache
                PROVE  (\A k \in 1..n : q.seq # Plus(p.seq, k)) <=> q.seq \notin passed
    BY <1>7
  <2>1. q.seq \in S
    BY <1>2 DEF SeqsOf
  <2>2. PICK x \in (l + 2)..m : q.seq = Number(x)
    BY <1>2, <2>1 DEF Numbers
  <2>3. x \in 1..m /\ x # i
    BY <1>1, <2>2
  <2>4. q.seq # Plus(p.seq, 0)
    <3>1. Plus(p.seq, 0) = Number(i)
      BY <1>1, NumberAfter, SeqAssumption
    <3>. QED
      BY <1>1, <2>2, <2>3, <3>1, MadeNumbers
  <2>5. \A k \in 0..n : k = 0 \/ k \in 1..n
    BY <1>3
  <2>6. \A k \in 1..n : k \in 0..n
    BY <1>3
  <2>. QED
    BY <2>4, <2>5, <2>6 DEF passed
<1>10. ahead' \subseteq Numbers((l2 + 2)..m)
  <2>. SUFFICES ASSUME NEW s \in ahead' PROVE s \in Numbers((l2 + 2)..m)
    OBVIOUS
  <2>1. s \in S /\ s \notin passed
    BY <1>7
  <2>2. PICK x \in (l + 2)..m : s = Number(x)
    BY <1>2, <2>1 DEF Numbers
  <2>3. x \notin i..l2
    BY <1>6, <2>1, <2>2 DEF Numbers
  <2>4. x # l2 + 1
    BY <1>1, <1>3, <2>1, <2>2
  <2>5. x \in (l2 + 2)..m
    BY <1>1, <1>4, <2>2, <2>3, <2>4
  <2>. QED
    BY <2>2, <2>5 DEF Numbers
<1>11. SeqsOf(cache') = IF inOrder THEN ahead' ELSE {}
  <2>1. CASE inOrder
    BY <1>2, <1>7, <1>9, <2>1 DEF SeqsOf
  <2>2. CASE ~inOrder
    BY <1>7, <2>2 DEF SeqsOf
  <2>. QED
    BY <2>1, <2>2
<1>12. ASSUME NEW j \in 1..m, Number(j) \in S, j > l2
       PROVE  Number(j) \in ahead'
  BY <1>1, <1>4, <1>7, <1>8, <1>12
<1>13. Arrived \subseteq Arrived'
  <2>. SUFFICES ASSUME NEW j \in 1..m, made[j] \in Range(delivered) \cup cut \cup {q.data : q \in cache}
                PROVE  made[j] \in Range(delivered') \cup cut \cup {q.data : q \in cache'}
    BY DEF Arrived
  <2>1. CASE made[j] \in Range(delivered) \cup cut
    BY <1>7, <2>1 DEF HandedOnTo
  <2>2. CASE \E q \in cache : made[j] = q.data
    <3>1. PICK q \in cache : made[j] = q.data
      BY <2>2
    <3>2. PICK x \in 1..m : IsPackage(q, x)
      BY DEF ArqInv, PackageInv, Made
    <3>3. x = j /\ q.seq = Number(j)
      BY <3>1, <3>2, MadeNumbers DEF IsPackage
    <3>4. q.seq \in S
      BY <1>2 DEF SeqsOf
    <3>5. CASE j <= l2 \/ ~inOrder
      BY <1>7, <3>3, <3>4, <3>5 DEF HandedOnTo
    <3>6. CASE ~(j <= l2) /\ inOrder
      <4>1. q \in cache'
        BY <1>8, <1>9, <3>3, <3>6
      <4>. QED
        BY <3>1, <4>1
    <3>. QED
      BY <3>5, <3>6
  <2>. QED
    BY <2>1, <2>2
<1>14. ASSUME NEW j \in 1..m, Number(j) \in ahead' PROVE j \in Arrived'
  <2>1. Number(j) \in S
    BY <1>7, <1>14
  <2>2. CASE ~inOrder
    BY <1>7, <2>1, <2>2 DEF HandedOnTo, Arrived
  <2>3. CASE inOrder
    <3>1. PICK q \in cache' : q.seq = Number(j)
      BY <1>11, <1>14, <2>3 DEF SeqsOf
    <3>2. q \in cache
      BY <1>9, <2>3
    <3>3. PICK x \in 1..m : IsPackage(q, x)
      BY <3>2 DEF ArqInv, PackageInv, Made
    <3>4. q.data = made[j] \/ made[j] \in cut
      BY <3>1, <3>3, MadeNumbers DEF IsPackage
    <3>. QED
      BY <3>1, <3>4 DEF Arrived
  <2>. QED
    BY <2>2, <2>3
<1>15. ASSUME NEW k \in 1..Len(delivered')
       PROVE  \E j \in 1..m :
                delivered'[k] = made[j] /\ (j <= l2 \/ (~inOrder /\ Number(j) \in ahead'))
  <2>1. PICK j \in 1..m : delivered'[k] = made[j] /\ (j <= l2 \/ (~inOrder /\ Number(j) \in S))
    BY <1>7 DEF HandedOnTo
  <2>2. j <= l2 \/ j > l2
    BY <1>1, <1>4
  <2>. QED
    BY <1>12, <2>1, <2>2
<1>16. ASSUME NEW CONSTANT x, x = l2 PROVE Parsed(x)'
  <2>1. \A j \in 1..x : j \in 1..m /\ j <= l2
    BY <1>1, <1>4, <1>16
  <2>2. \A j \in 1..x : made[j] \in Range(delivered') \cup cut
    BY <1>7, <2>1 DEF HandedOnTo
  <2>3. x >= 1
    BY <1>1, <1>4, <1>16
  <2>4. ahead' \cup SeqsOf(cache') \subseteq Numbers((x + 2)..m)
    BY <1>10, <1>11, <1>16
  <2>5. IF inOrder THEN ahead' = SeqsOf(cache') ELSE cache' = {}
    BY <1>7, <1>11
  <2>6. OnceAndInOrder'
    BY <1>7 DEF HandedOnTo
  <2>. HIDE DEF l2
  <2>. QED
    BY <1>7, <1>14, <1>15, <1>16, <2>2, <2>3, <2>4, <2>5, <2>6 DEF Parsed
<1>17. ParserInv'
  <2>1. l2 \in 0..m
    BY <1>1, <1>4
  <2>. QED
    BY <1>16, <2>1 DEF ParserInv
<1>18. cache' \subseteq cache /\ delivered' \in Seq(1..Data)
  BY <1>7 DEF HandedOnTo
<1>19. last' \in Seqs /\ ahead' \in SUBSET Seqs
  <2>1. \A j \in 1..m : Number(j) \in Seqs
    BY <1>1, NumberValue
  <2>2. l2 \in 1..m /\ \A j \in (l2 + 2)..m : j \in 1..m
    BY <1>1, <1>4
  <2>. HIDE DEF l2
  <2>. QED
    BY <1>7, <1>10, <2>1, <2>2 DEF Numbers
<1>. QED
  BY <1>13, <1>17, <1>18, <1>19

\* How a package compares with the one the parser waits for.
LEMMA Waited ==
  ASSUME ArqInv, started, NEW l \in 0..Len(made), Parsed(l), NEW i \in 1..Len(made)
  PROVE  /\ Number(i) = Plus(last, 1) <=> i = l + 1
         /\ Within(Number(i), last) <=> i <= l
<1>1. l \in 1..Len(made) /\ last = Number(l) /\ Len(made) \in 0..Data /\ Data \in Nat
  BY MadeNumbers, SeqAssumption DEF Parsed
<1>2. l \in 1..Data /\ i \in 1..Data /\ 1 \in 0..Data
  BY <1>1
<1>3. Plus(Number(l), 1) = Number(i) => i = l + 1
  BY <1>2, NumberAfter
<1>4. l + 1 <= Data => Plus(Number(l), 1) = Number(l + 1)
  BY <1>2, NumberAfter
<1>. QED
  BY <1>1, <1>2, <1>3, <1>4, MadeNumbers

\* What a step of the parser leaves to be shown.
LEMMA ParseKeeps ==
  ASSUME ArqInv, NEW p, Parsing(p),
         UNCHANGED <<senderVars, net, feedback, reading, peerVars>>,
         inbox' = <<>> \/ inbox' = Tail(inbox), parsed' \in Flags,
         started' \in BOOLEAN, invalid' \in BOOLEAN, closed' \in BOOLEAN,
         last' \in Seqs, ahead' \in SUBSET Seqs, cache' \subseteq Made,
         delivered' \in Seq(1..Data),
         ParserInv', Arrived \subseteq Arrived'
  PROVE  ArqInv'
<1>1. /\ UNCHANGED <<inOrder, queue, made, unconformed, cut, net, feedback, reading>>
      /\ UNCHANGED <<owed, received, recent>>
  BY DEF senderVars, peerVars
<1>2. Made' = Made /\ Made \subseteq Package
  BY <1>1 DEF Made, IsPackage
<1>3. inbox' \in Seq(Made)
  BY HeadTailProperties, EmptySeq DEF ArqInv, PackageInv, Parsing
<1>4. PackageInv'
  BY <1>1, <1>2, <1>3 DEF ArqInv, PackageInv
<1>5. TypeOK'
  <2>1. inbox' \in Seq(Package)
    BY <1>2, <1>3, SeqMonotonic
  <2>2. cache' \in SUBSET Package
    BY <1>2
  <2>. HIDE DEF Made
  <2>. QED
    BY <1>1, <2>1, <2>2 DEF ArqInv, TypeOK
<1>6. FeedbackInv'
  <2>1. Grows
    BY <1>1, MadeNumbers DEF Grows, ArqInv, TypeOK
  <2>. QED
    BY <1>1, <2>1, FeedbackKept
<1>7. ConfirmedInv'
  BY <1>1 DEF ArqInv, ConfirmedInv
<1>8. SendInv'
  BY <1>1 DEF ArqInv, SendInv
<1>. QED
  BY <1>4, <1>5, <1>6, <1>7, <1>8 DEF ArqInv

LEMMA PackageRead ==
  ASSUME ArqInv, NEW p, Parsing(p)
  PROVE  p \in Made /\ p \in Package /\ \E i \in 1..Len(made) : IsPackage(p, i)
<1>1. p \in Made
  BY HeadTailProperties DEF ArqInv, PackageInv, Parsing
<1>. QED
  BY <1>1 DEF Made

LEMMA FlagSet ==
  ASSUME ArqInv PROVE [parsed EXCEPT !.una = TRUE] \in Flags
  BY DEF ArqInv, TypeOK, Flags

LEMMA ParsePriorStep == ASSUME ArqInv, NEW p, ParsePrior(p) PROVE ArqInv'
<1>1. UNCHANGED <<inOrder, made, cut, started, last, ahead, cache, delivered>>
  BY DEF ParsePrior, senderVars
<1>2. Grows
  BY <1>1, MadeNumbers DEF Grows, ArqInv, TypeOK
<1>3. ParserInv' /\ Arrived \subseteq Arrived'
  BY <1>1, <1>2, ParserKept
<1>4. parsed' \in Flags
  BY FlagSet DEF ParsePrior
<1>5. invalid' \in BOOLEAN
  BY DEF ParsePrior, ArqInv, TypeOK
<1>6. /\ started' \in BOOLEAN /\ closed' \in BOOLEAN /\ last' \in Seqs
      /\ ahead' \in SUBSET Seqs /\ cache' \subseteq Made /\ delivered' \in Seq(1..Data)
  BY <1>1 DEF ParsePrior, ArqInv, TypeOK, PackageInv
<1>7. /\ Parsing(p) /\ inbox' = <<>>
      /\ UNCHANGED <<senderVars, net, feedback, reading, peerVars>>
  BY DEF ParsePrior
<1>. QED
  BY <1>3, <1>4, <1>5, <1>6, <1>7, ParseKeeps

LEMMA ParseNextStep == ASSUME ArqInv, NEW p, ParseNext(p) PROVE ArqInv'
<1>1. /\ Parsing(p) /\ started /\ p.seq = Plus(last, 1) /\ Proceed(p.seq, p.data, {})
      /\ inbox' = Tail(inbox) /\ invalid' = FALSE
      /\ UNCHANGED <<senderVars, net, feedback, started, closed, reading, peerVars>>
  BY DEF ParseNext
<1>2. p \in Package /\ UNCHANGED <<inOrder, made, cut>> /\ started'
  BY <1>1, PackageRead DEF senderVars
<1>3. PICK i \in 1..Len(made) : IsPackage(p, i)
  BY <1>1, PackageRead
<1>4. PICK l \in 0..Len(made) : Parsed(l)
  BY DEF ArqInv, ParserInv
<1>5. i = l + 1
  BY <1>1, <1>3, <1>4, Waited DEF IsPackage
<1>6. l < Len(made) /\ IsPackage(p, l + 1)
  BY <1>3, <1>5, MadeNumbers
<1>7. /\ ParserInv' /\ Arrived \subseteq Arrived' /\ cache' \subseteq cache
      /\ delivered' \in Seq(1..Data) /\ last' \in Seqs /\ ahead' \in SUBSET Seqs
  BY <1>1, <1>2, <1>4, <1>6, ProceedKeeps
<1>8. parsed' \in Flags
  BY FlagSet DEF ParseNext
<1>9. started' \in BOOLEAN /\ closed' \in BOOLEAN /\ invalid' \in BOOLEAN /\ cache' \subseteq Made
  BY <1>1, <1>7 DEF ArqInv, TypeOK, PackageInv
<1>. QED
  BY <1>1, <1>7, <1>8, <1>9, ParseKeeps

LEMMA ParseFirstStep == ASSUME ArqInv, NEW p, ParseFirst(p) PROVE ArqInv'
<1>1. /\ Parsing(p) /\ ~started /\ p.first /\ started' /\ Proceed(p.seq, p.data, SeqsOf(cache))
      /\ inbox' = Tail(inbox) /\ invalid' = FALSE /\ started' = TRUE
      /\ UNCHANGED <<senderVars, net, feedback, closed, reading, peerVars>>
  BY DEF ParseFirst
<1>2. p \in Package /\ UNCHANGED <<inOrder, made, cut>>
  BY <1>1, PackageRead DEF senderVars
<1>3. PICK i \in 1..Len(made) : IsPackage(p, i)
  BY <1>1, PackageRead
<1>4. PICK l \in 0..Len(made) : Parsed(l)
  BY DEF ArqInv, ParserInv
<1>5. i = 1 /\ l = 0
  BY <1>1, <1>3, <1>4 DEF IsPackage, Parsed
<1>6. l < Len(made) /\ IsPackage(p, l + 1)
  BY <1>3, <1>5, MadeNumbers
<1>7. /\ ParserInv' /\ Arrived \subseteq Arrived' /\ cache' \subseteq cache
      /\ delivered' \in Seq(1..Data) /\ last' \in Seqs /\ ahead' \in SUBSET Seqs
  BY <1>1, <1>2, <1>4, <1>6, ProceedKeeps
<1>8. parsed' \in Flags
  BY FlagSet DEF ParseFirst
<1>9. started' \in BOOLEAN /\ closed' \in BOOLEAN /\ invalid' \in BOOLEAN /\ cache' \subseteq Made
  BY <1>1, <1>7 DEF ArqInv, TypeOK, PackageInv
<1>. QED
  BY <1>1, <1>7, <1>8, <1>9, ParseKeeps

\* A package that the parser does not take leaves it as it was.
LEMMA ParserUnchanged ==
  ASSUME ArqInv, UNCHANGED <<inOrder, made, cut, started, last, ahead, cache, delivered>>
  PROVE  ParserInv' /\ Arrived \subseteq Arrived'
<1>1. Grows
  BY MadeNumbers DEF Grows, ArqInv, TypeOK
<1>. QED
  BY <1>1, ParserKept

LEMMA ParseAheadStep == ASSUME ArqInv, NEW p, ParseAhead(p) PROVE ArqInv'
<1>1. /\ Parsing(p) /\ started /\ ~inOrder
      /\ ~Within(p.seq, last) /\ p.seq # Plus(last, 1)
      /\ inbox' = Tail(inbox) /\ invalid' = TRUE
      /\ UNCHANGED <<senderVars, net, feedback, reading, peerVars>>
      /\ UNCHANGED <<inOrder, made, cut, started, last, cache, closed, parsed>>
  BY DEF ParseAhead, senderVars
<1>2. PICK i \in 1..Len(made) : IsPackage(p, i)
  BY <1>1, PackageRead
<1>3. PICK l \in 0..Len(made) : Parsed(l)
  BY DEF ArqInv, ParserInv
<1>4. p.seq = Number(i) /\ i \in (l + 2)..Len(made) /\ i > l /\ Len(made) \in Nat /\ l \in Nat
  <2>1. p.seq = Number(i) /\ i # l + 1 /\ ~(i <= l)
    BY <1>1, <1>2, <1>3, Waited DEF IsPackage
  <2>. QED
    BY <2>1, MadeNumbers
<1>5. /\ ParserInv' /\ Arrived \subseteq Arrived'
      /\ delivered' \in Seq(1..Data) /\ ahead' \in SUBSET Seqs
  <2>1. CASE UNCHANGED <<ahead, delivered>>
    BY <1>1, <2>1, ParserUnchanged DEF ArqInv, TypeOK
  <2>2. CASE p.seq \notin ahead /\ ahead' = ahead \cup {p.seq} /\ Deliver(<<p.data>>)
    <3>. DEFINE ds == <<p.data>>  g == [k \in 1..1 |-> i]
    <3>1. p.data \in 0..Data /\ (p.data = made[i] \/ (p.data = 0 /\ made[i] \in cut))
      BY <1>1, <1>2, PackageRead DEF Package, IsPackage
    <3>2. /\ ds \in [1..1 -> 0..Data] /\ g \in [1..1 -> 1..Len(made)]
          /\ \A k \in 1..1 : k = 1 /\ ds[k] = p.data /\ g[k] = i
      BY <3>1
    <3>. HIDE DEF ds, g
    <3>3. Unseen(l, 1, ds, g)
      BY <1>4, <2>2, <3>1, <3>2 DEF Unseen
    <3>4. /\ delivered' \in Seq(1..Data) /\ Range(delivered) \subseteq Range(delivered')
          /\ OnceAndInOrder' /\ Handed(l, 1, g)
      <4>1. 1 \in Nat /\ Deliver(ds)
        BY <2>2 DEF ds
      <4>. QED
        BY <1>1, <1>3, <3>2, <3>3, <4>1, HandedOn
    <3>5. made[i] \in Range(delivered') \cup cut
      <4>1. 1 \in 1..1
        OBVIOUS
      <4>. QED
        BY <3>2, <3>4, <4>1 DEF Handed
    <3>6. Arrived \subseteq Arrived'
      BY <1>1, <3>4 DEF Arrived
    <3>7. i \in Arrived'
      BY <1>1, <3>5 DEF Arrived
    <3>8. Parsed(l)'
      <4>1. Number(i) \in Numbers((l + 2)..Len(made))
        BY <1>4 DEF Numbers
      <4>2. ahead' \cup SeqsOf(cache') \subseteq Numbers((l + 2)..Len(made'))
        BY <1>1, <1>3, <1>4, <2>2, <4>1 DEF Parsed
      <4>3. \A j \in 1..l : made'[j] \in Range(delivered') \cup cut'
        BY <1>1, <1>3, <3>4 DEF Parsed
      <4>4. ASSUME NEW j \in 1..Len(made), Number(j) \in ahead' PROVE j \in Arrived'
        <5>1. CASE Number(j) \in ahead
          BY <1>3, <3>6, <5>1 DEF Parsed
        <5>2. CASE Number(j) = Number(i)
          BY <3>7, <5>2, MadeNumbers
        <5>. QED
          BY <1>4, <2>2, <4>4, <5>1, <5>2
      <4>5. ASSUME NEW k \in 1..Len(delivered')
            PROVE  \E j \in 1..Len(made) :
                     delivered'[k] = made[j] /\ (j <= l \/ (~inOrder /\ Number(j) \in ahead'))
        <5>1. PICK j \in 1..Len(made) :
                /\ delivered'[k] = made[j]
                /\ j <= l \/ (~inOrder /\ Number(j) \in ahead) \/ \E a \in 1..1 : j = g[a]
          BY <3>4 DEF Handed
        <5>. QED
          BY <1>1, <1>4, <2>2, <3>2, <5>1
      <4>6. /\ IF started' THEN l >= 1 /\ last' = Number(l) ELSE l = 0 /\ ahead' = {}
            /\ started' => IF inOrder' THEN ahead' = SeqsOf(cache') ELSE cache' = {}
        BY <1>1, <1>3 DEF Parsed
      <4>. QED
        BY <1>1, <3>4, <4>2, <4>3, <4>4, <4>5, <4>6 DEF Parsed
    <3>9. ahead' \in SUBSET Seqs
      BY <1>1, <2>2, PackageRead DEF ArqInv, TypeOK, Package
    <3>. QED
      BY <1>1, <3>4, <3>6, <3>8, <3>9 DEF ParserInv
  <2>. QED
    BY <2>1, <2>2 DEF ParseAhead
<1>6. /\ parsed' \in Flags /\ started' \in BOOLEAN /\ closed' \in BOOLEAN
      /\ invalid' \in BOOLEAN /\ last' \in Seqs /\ cache' \subseteq Made
  BY <1>1 DEF ArqInv, TypeOK, PackageInv
<1>. QED
  BY <1>1, <1>5, <1>6, ParseKeeps

\* A package is cached: after the first one it counts as received.
LEMMA Caching ==
  ASSUME ArqInv, UNCHANGED <<inOrder, made, cut, started, last, delivered>>,
         NEW l \in 0..Len(made), Parsed(l), NEW i \in (l + 2)..Len(made),
         NEW p, IsPackage(p, i), cache' = cache \cup {p},
         IF started THEN inOrder /\ ahead' = ahead \cup {p.seq} ELSE ahead' = ahead
  PROVE  ParserInv' /\ Arrived \subseteq Arrived'
<1>1. p.seq = Number(i) /\ i \in 1..Len(made) /\ (p.data = made[i] \/ made[i] \in cut)
  BY MadeNumbers DEF IsPackage
<1>2. SeqsOf(cache') = SeqsOf(cache) \cup {p.seq}
  BY DEF SeqsOf
<1>3. Arrived \subseteq Arrived'
  BY DEF Arrived
<1>4. i \in Arrived'
  BY <1>1 DEF Arrived
<1>5. Parsed(l)'
  <2>1. Number(i) \in Numbers((l + 2)..Len(made))
    BY DEF Numbers
  <2>2. ahead' \cup SeqsOf(cache') \subseteq Numbers((l + 2)..Len(made'))
    BY <1>1, <1>2, <2>1 DEF Parsed
  <2>3. \A j \in 1..l : made'[j] \in Range(delivered') \cup cut'
    BY DEF Parsed
  <2>4. ASSUME NEW j \in 1..Len(made), Number(j) \in ahead' PROVE j \in Arrived'
    <3>1. CASE Number(j) \in ahead
      BY <1>3, <3>1 DEF Parsed
    <3>2. CASE Number(j) = Number(i)
      BY <1>1, <1>4, <3>2, MadeNumbers
    <3>. QED
      BY <1>1, <2>4, <3>1, <3>2
  <2>5. \A k \in 1..Len(delivered') : \E j \in 1..Len(made') :
          delivered'[k] = made'[j] /\ (j <= l \/ (~inOrder' /\ Number(j) \in ahead'))
    BY DEF Parsed
  <2>6. IF started' THEN l >= 1 /\ last' = Number(l) ELSE l = 0 /\ ahead' = {}
    BY DEF Parsed
  <2>7. started' => IF inOrder' THEN ahead' = SeqsOf(cache') ELSE cache' = {}
    BY <1>2 DEF Parsed
  <2>8. OnceAndInOrder'
    BY DEF Parsed, OnceAndInOrder
  <2>. QED
    BY <2>2, <2>3, <2>4, <2>5, <2>6, <2>7, <2>8 DEF Parsed
<1>. QED
  BY <1>3, <1>5 DEF ParserInv

LEMMA CacheAheadStep == ASSUME ArqInv, NEW p, CacheAhead(p) PROVE ArqInv'
<1>1. /\ Parsing(p) /\ started /\ inOrder
      /\ ~Within(p.seq, last) /\ p.seq # Plus(last, 1)
      /\ inbox' = Tail(inbox) /\ invalid' = TRUE
      /\ UNCHANGED <<senderVars, net, feedback, reading, peerVars>>
      /\ UNCHANGED <<inOrder, made, cut, started, last, delivered, parsed>>
  BY DEF CacheAhead, senderVars
<1>2. PICK i \in 1..Len(made) : IsPackage(p, i)
  BY <1>1, PackageRead
<1>3. PICK l \in 0..Len(made) : Parsed(l)
  BY DEF ArqInv, ParserInv
<1>4. i \in (l + 2)..Len(made)
  <2>1. i # l + 1 /\ ~(i <= l)
    BY <1>1, <1>2, <1>3, Waited DEF IsPackage
  <2>. QED
    BY <2>1, MadeNumbers
<1>5. p \in Made /\ p.seq \in Seqs
  BY <1>1, PackageRead DEF Package
<1>6. /\ ParserInv' /\ Arrived \subseteq Arrived'
      /\ ahead' \in SUBSET Seqs /\ cache' \subseteq Made /\ closed' \in BOOLEAN
  <2>1. CASE UNCHANGED <<ahead, cache>> /\ closed' \in BOOLEAN
    BY <1>1, <2>1, ParserUnchanged DEF ArqInv, TypeOK, PackageInv
  <2>2. CASE ahead' = ahead \cup {p.seq} /\ cache' = cache \cup {p} /\ closed' = closed
    <3>1. ParserInv' /\ Arrived \subseteq Arrived'
      BY <1>1, <1>2, <1>3, <1>4, <2>2, Caching
    <3>. QED
      BY <1>5, <2>2, <3>1 DEF ArqInv, TypeOK, PackageInv
  <2>. QED
    BY <2>1, <2>2 DEF CacheAhead, ArqInv, TypeOK
<1>7. /\ parsed' \in Flags /\ started' \in BOOLEAN /\ invalid' \in BOOLEAN
      /\ last' \in Seqs /\ delivered' \in Seq(1..Data)
  BY <1>1 DEF ArqInv, TypeOK
<1>. QED
  BY <1>1, <1>6, <1>7, ParseKeeps

LEMMA CacheEarlyStep == ASSUME ArqInv, NEW p, CacheEarly(p) PROVE ArqInv'
<1>1. /\ Parsing(p) /\ ~started /\ ~p.first
      /\ inbox' = Tail(inbox)
      /\ UNCHANGED <<senderVars, net, feedback, reading, peerVars>>
      /\ UNCHANGED <<inOrder, made, cut, started, last, ahead, delivered, invalid, parsed>>
  BY DEF CacheEarly, senderVars
<1>2. PICK i \in 1..Len(made) : IsPackage(p, i)
  BY <1>1, PackageRead
<1>3. PICK l \in 0..Len(made) : Parsed(l)
  BY DEF ArqInv, ParserInv
<1>4. i \in (l + 2)..Len(made)
  <2>1. i # 1 /\ l = 0
    BY <1>1, <1>2, <1>3 DEF IsPackage, Parsed
  <2>. QED
    BY <2>1, MadeNumbers
<1>5. p \in Made
  BY <1>1, PackageRead
<1>6. ParserInv' /\ Arrived \subseteq Arrived' /\ cache' \subseteq Made /\ closed' \in BOOLEAN
  <2>1. CASE cache' = cache /\ closed' \in BOOLEAN
    BY <1>1, <2>1, ParserUnchanged DEF ArqInv, PackageInv
  <2>2. CASE cache' = cache \cup {p} /\ closed' = closed
    <3>1. ParserInv' /\ Arrived \subseteq Arrived'
      BY <1>1, <1>2, <1>3, <1>4, <2>2, Caching
    <3>. QED
      BY <1>5, <2>2, <3>1 DEF ArqInv, TypeOK, PackageInv
  <2>. QED
    BY <2>1, <2>2 DEF CacheEarly, ArqInv, TypeOK
<1>7. /\ parsed' \in Flags /\ started' \in BOOLEAN /\ invalid' \in BOOLEAN
      /\ last' \in Seqs /\ ahead' \in SUBSET Seqs /\ delivered' \in Seq(1..Data)
  BY <1>1 DEF ArqInv, TypeOK
<1>. QED
  BY <1>1, <1>6, <1>7, ParseKeeps

-----------------------------------------------------------------------------
(* Datagrams and feedback *)

\* What a step that neither sends data nor parses a package leaves to be shown.
LEMMA OtherKeeps ==
  ASSUME ArqInv, UNCHANGED <<senderVars, started, last, ahead, cache, delivered>>,
         net' \subseteq net, inbox' \in Seq(Made), TypeOK', FeedbackInv'
  PROVE  ArqInv'
<1>1. UNCHANGED <<inOrder, queue, made, unconformed, cut>>
  BY DEF senderVars
<1>2. ParserInv' /\ Arrived \subseteq Arrived'
  BY <1>1, ParserUnchanged
<1>3. Made' = Made
  BY <1>1 DEF Made, IsPackage
<1>4. PackageInv'
  BY <1>1, <1>3 DEF ArqInv, PackageInv
<1>5. SendInv' /\ ConfirmedInv'
  BY <1>1, <1>2 DEF ArqInv, SendInv, ConfirmedInv
<1>. QED
  BY <1>2, <1>4, <1>5 DEF ArqInv

\* The same, when no feedback is given.
LEMMA QuietKeeps ==
  ASSUME ArqInv, UNCHANGED <<senderVars, started, last, ahead, cache, delivered, received>>,
         net' \subseteq net, inbox' \in Seq(Made), TypeOK', feedback' \subseteq feedback
  PROVE  ArqInv'
<1>1. UNCHANGED <<inOrder, made, cut>>
  BY DEF senderVars
<1>2. Grows
  BY <1>1, MadeNumbers DEF Grows, ArqInv, TypeOK
<1>3. FeedbackInv'
  BY <1>1, <1>2, ParserUnchanged, FeedbackKept
<1>. QED
  BY <1>3, OtherKeeps

LEMMA ReceiveStep == ASSUME ArqInv, NEW d \in net, Receive(d) PROVE ArqInv'
<1>1. /\ net' \subseteq net /\ reading' = TRUE /\ inbox' = d.packages
      /\ parsed' = [parsed EXCEPT !.force = @ \/ d.force]
      /\ UNCHANGED <<senderVars, feedback, parserVars, peerVars>>
  BY DEF Receive
<1>2. d.packages \in Seq(Made) /\ Made \subseteq Package
  BY DEF ArqInv, PackageInv, Made
<1>3. inbox' \in Seq(Package)
  BY <1>1, <1>2, SeqMonotonic
<1>4. parsed' \in Flags
  BY <1>1 DEF ArqInv, TypeOK, Flags, Datagram
<1>5. TypeOK'
  BY <1>1, <1>3, <1>4 DEF ArqInv, TypeOK, senderVars, parserVars, peerVars
<1>. QED
  BY <1>1, <1>2, <1>5, QuietKeeps DEF parserVars, peerVars

LEMMA InvalidSessionStep == ASSUME ArqInv, InvalidSession PROVE ArqInv'
<1>1. TypeOK'
  BY DEF InvalidSession, ArqInv, TypeOK, senderVars, readVars, peerVars
<1>2. inbox' \in Seq(Made)
  BY DEF InvalidSession, ArqInv, PackageInv, readVars
<1>. QED
  BY <1>1, <1>2, QuietKeeps DEF InvalidSession, readVars, peerVars

LEMMA ReturnRecvTokenStep == ASSUME ArqInv, ReturnRecvToken PROVE ArqInv'
<1>1. /\ UNCHANGED <<senderVars, net, feedback, parserVars, inbox>>
      /\ reading' = FALSE /\ received' = ahead /\ parsed' = NoFlags
      /\ owed' = [una |-> owed.una \/ parsed.una, force |-> parsed.force]
      /\ recent' = {s \in recent : ~Within(s, last)}
  BY DEF ReturnRecvToken
<1>2. TypeOK'
  <2>1. owed' \in Flags /\ parsed' \in Flags
    BY <1>1 DEF ArqInv, TypeOK, Flags, NoFlags
  <2>2. received' \in SUBSET Seqs /\ recent' \in SUBSET Seqs
    BY <1>1 DEF ArqInv, TypeOK
  <2>. QED
    BY <1>1, <2>1, <2>2 DEF ArqInv, TypeOK, senderVars, parserVars
<1>3. FeedbackInv'
  <2>1. PICK l \in 0..Len(made) : Parsed(l)
    BY DEF ArqInv, ParserInv
  <2>2. ASSUME NEW s \in ahead PROVE s \in Numbers(Arrived)
    <3>1. PICK i \in (l + 2)..Len(made) : s = Number(i)
      BY <2>1 DEF Parsed, Numbers
    <3>2. i \in 1..Len(made)
      BY MadeNumbers
    <3>3. i \in Arrived
      BY <2>1, <3>1, <3>2 DEF Parsed
    <3>. QED
      BY <3>1, <3>3 DEF Numbers
  <2>3. Arrived' = Arrived
    BY <1>1 DEF Arrived, senderVars, parserVars
  <2>. QED
    BY <1>1, <2>2, <2>3 DEF ArqInv, FeedbackInv, senderVars
<1>4. inbox' \in Seq(Made)
  BY <1>1 DEF ArqInv, PackageInv
<1>. QED
  BY <1>1, <1>2, <1>3, <1>4, OtherKeeps DEF parserVars

LEMMA SendFeedbackStep ==
  ASSUME ArqInv, NEW acks \in SUBSET Due, SendFeedback(acks)
  PROVE  ArqInv'
<1>. DEFINE una == IF started /\ owed # NoFlags THEN {last} ELSE {}
            f == [una |-> una, acks |-> acks]
<1>1. /\ feedback' = feedback \/ feedback' = feedback \cup {f}
      /\ owed' = NoFlags /\ received' = Due \ acks /\ recent' = recent \cup acks
      /\ UNCHANGED <<senderVars, net, parserVars, readVars>>
  BY DEF SendFeedback
<1>2. acks \subseteq received /\ received' \subseteq received
  BY <1>1 DEF Due
<1>3. TypeOK'
  <2>1. una \in SUBSET Seqs /\ acks \in SUBSET Seqs
    BY <1>2 DEF ArqInv, TypeOK
  <2>2. f \in Feedback
    BY <2>1 DEF Feedback
  <2>. HIDE DEF f
  <2>3. owed' \in Flags
    BY <1>1 DEF NoFlags, Flags
  <2>4. feedback' \in SUBSET Feedback
    BY <1>1, <2>2 DEF ArqInv, TypeOK
  <2>5. received' \in SUBSET Seqs /\ recent' \in SUBSET Seqs
    BY <1>1, <1>2, <2>1 DEF ArqInv, TypeOK
  <2>. QED
    BY <1>1, <2>3, <2>4, <2>5 DEF ArqInv, TypeOK, senderVars, parserVars, readVars
<1>4. FeedbackInv'
  <2>1. PICK l \in 0..Len(made) : Parsed(l)
    BY DEF ArqInv, ParserInv
  <2>2. ASSUME started PROVE l \in 1..Len(made) /\ last = Number(l) /\ 1..l \subseteq Arrived
    <3>1. l \in 1..Len(made) /\ last = Number(l)
      BY <2>1, <2>2 DEF Parsed
    <3>2. \A i \in 1..l : i \in 1..Len(made)
      BY MadeNumbers
    <3>. QED
      BY <2>1, <3>1, <3>2 DEF Parsed, Arrived
  <2>3. f.una = una /\ f.acks = acks
    OBVIOUS
  <2>4. \A x \in una : \E k \in 1..Len(made) : x = Number(k) /\ 1..k \subseteq Arrived
    BY <2>2
  <2>5. acks \subseteq Numbers(Arrived)
    BY <1>2 DEF ArqInv, FeedbackInv
  <2>6. Arrived' = Arrived /\ made' = made
    BY <1>1 DEF Arrived, senderVars, parserVars
  <2>. HIDE DEF f, una
  <2>7. \A e \in feedback' :
          /\ e.acks \subseteq Numbers(Arrived)
          /\ \A x \in e.una : \E k \in 1..Len(made) : x = Number(k) /\ 1..k \subseteq Arrived
    BY <1>1, <2>3, <2>4, <2>5 DEF ArqInv, FeedbackInv
  <2>. QED
    BY <1>2, <2>6, <2>7 DEF ArqInv, FeedbackInv
<1>5. inbox' \in Seq(Made)
  BY <1>1 DEF ArqInv, PackageInv, readVars
<1>. QED
  BY <1>1, <1>3, <1>4, <1>5, OtherKeeps DEF parserVars

LEMMA ReAckStep == ASSUME ArqInv, NEW s \in recent, ReAck(s) PROVE ArqInv'
<1>1. TypeOK' /\ inbox' \in Seq(Made)
  BY DEF ReAck, ArqInv, TypeOK, PackageInv, senderVars, parserVars, readVars
<1>. QED
  BY <1>1, QuietKeeps DEF ReAck, parserVars, readVars

LEMMA LoseStep == ASSUME ArqInv, NEW d \in net, Lose(d) PROVE ArqInv'
<1>1. TypeOK' /\ inbox' \in Seq(Made)
  BY DEF Lose, ArqInv, TypeOK, PackageInv, senderVars, parserVars, readVars, peerVars
<1>. QED
  BY <1>1, QuietKeeps DEF Lose, parserVars, peerVars

LEMMA LoseFeedbackStep == ASSUME ArqInv, NEW f \in feedback, LoseFeedback(f) PROVE ArqInv'
<1>1. TypeOK' /\ inbox' \in Seq(Made)
  BY DEF LoseFeedback, ArqInv, TypeOK, PackageInv, senderVars, parserVars, readVars, peerVars
<1>. QED
  BY <1>1, QuietKeeps DEF LoseFeedback, parserVars, peerVars

LEMMA ArqStep == ArqInv /\ [Next]_vars => ArqInv'
<1>. SUFFICES ASSUME ArqInv, [Next]_vars PROVE ArqInv'
  OBVIOUS
<1>1. CASE Sender
  BY <1>1, SendDataStep, DropDataStep, ResendStep, ForceSyncStep, ReceiveFeedbackStep
     DEF Sender
<1>2. CASE Parse
  BY <1>2, ParsePriorStep, ParseNextStep, ParseFirstStep, ParseAheadStep, CacheAheadStep,
     CacheEarlyStep
     DEF Parse
<1>3. CASE Receiver
  BY <1>2, <1>3, ReceiveStep, InvalidSessionStep, ReturnRecvTokenStep, SendFeedbackStep,
     ReAckStep
     DEF Receiver
<1>4. CASE Network
  BY <1>4, LoseStep, LoseFeedbackStep DEF Network
<1>5. CASE UNCHANGED vars
  <2>1. UNCHANGED <<senderVars, net, feedback, parserVars, readVars, peerVars>>
    BY <1>5 DEF vars
  <2>2. TypeOK' /\ inbox' \in Seq(Made)
    BY <2>1 DEF ArqInv, TypeOK, PackageInv, senderVars, parserVars, readVars, peerVars
  <2>. QED
    BY <2>1, <2>2, QuietKeeps DEF parserVars, peerVars
<1>. QED
  BY <1>1, <1>3, <1>4, <1>5 DEF Next

-----------------------------------------------------------------------------
\* The invariant of the protocol: with any number of messages, limits and room in
\* the datagrams, what the sender has made and still keeps, what the parser has
\* handed on, cached and called received, and what feedback tells, agree.
THEOREM ArqInvariant == Safety => []ArqInv
<1>1. Init => ArqInv
  BY ArqInvInit
<1>2. ArqInv /\ [Next]_vars => ArqInv'
  BY ArqStep
<1>. QED
  BY <1>1, <1>2, PTL DEF Safety

\* The variables of both sides have their types: above all, only messages are
\* handed on, never the empty rest of one that has expired.
THEOREM ArqTypeCorrect == Safety => []TypeOK
<1>1. ArqInv => TypeOK
  BY DEF ArqInv
<1>. QED
  BY <1>1, ArqInvariant, PTL

\* However datagrams are lost, repeated and reordered, the parser hands no message
\* on twice, and with a data encryptor, none before an earlier one.
THEOREM HandedOnOnce == Safety => []OnceAndInOrder
<1>1. ArqInv => OnceAndInOrder
  BY DEF ArqInv, ParserInv, Parsed
<1>. QED
  BY <1>1, ArqInvariant, PTL

\* What cleanByUNA() and cleanByAcks() delete has been handed on by the peer, or is
\* cached there, unless it had expired.
THEOREM DeletedHasArrived == Safety => []ConfirmedHasArrived
<1>1. ArqInv => ConfirmedHasArrived
  BY DEF ArqInv, ConfirmedInv, ConfirmedHasArrived, Confirmed, Arrived
<1>. QED
  BY <1>1, ArqInvariant, PTL

\* The parser has no holes: lastUDPSeq and unprocessedReceivedSeqs stand only for
\* packages that have been handed on, or are cached, unless they had expired.
THEOREM NoHoles == Safety => []ReceivedIsKept
<1>1. ASSUME ArqInv PROVE ReceivedIsKept
  <2>. SUFFICES ASSUME started, NEW i \in 1..Len(made)
                PROVE  /\ Within(Number(i), last) => made[i] \in Range(delivered) \cup cut
                       /\ Number(i) \in ahead => i \in Arrived
    BY DEF ReceivedIsKept, Arrived
  <2>1. PICK l \in 0..Len(made) : Parsed(l)
    BY <1>1 DEF ArqInv, ParserInv
  <2>2. Within(Number(i), last) => i \in 1..l
    BY <1>1, <2>1, Waited
  <2>. QED
    BY <2>1, <2>2 DEF Parsed
<1>. QED
  BY <1>1, ArqInvariant, PTL

-----------------------------------------------------------------------------
(* UdpClient *)

Labels == {"idle", "enter", "close", "signal", "dupledEnd"} \cup Waiting \cup Connecting

\* A socket belongs to an info whose connection was made.  Infos are used in
\* order, and the last one is kept free.
InfoInv ==
  /\ \A i \in Info : socket[i] = 0 <=> conn[i] = "none"
  /\ \A i \in Info : info < i => conn[i] = "none"
  /\ conn[MaxInfo] = "none"

\* What a thread that connects knows of its info.
Knows(t) ==
  /\ mine[t] <= info
  /\ mine[t] = info => status = "Connecting"
  /\ pc[t] = "opening" => mine[t] = info /\ conn[info] = "none"
  /\ pc[t] = "opened" => mine[t] = info /\ conn[info] = "made"
  /\ pc[t] = "joined" /\ mine[t] = info => conn[info] \in {"mapped", "taken"}
  /\ pc[t] = "failed" /\ mine[t] = info => conn[info] \in {"none", "freed"}

\* One thread connects for the current info; there may be others that connected
\* for earlier ones and do not know yet that the engine has closed them.
CallerInv ==
  /\ \A t \in Caller : pc[t] \in Connecting => Knows(t)
  /\ \A s, t \in Caller :
       {pc[s], pc[t]} \subseteq Connecting /\ mine[s] = info /\ mine[t] = info => s = t

ClientInv == ClientTypeOK /\ InfoInv /\ CallerInv /\ StatusFits

\* notify_all() moves the threads that wait, and none of those that connect.
LEMMA Woken ==
  ASSUME ClientTypeOK, NEW t \in Caller, NEW label \in Labels, NotifyAllAndGoto(t, label)
  PROVE  /\ pc' \in [Caller -> Labels]
         /\ pc'[t] = label
         /\ \A u \in Caller \ {t} :
              \/ pc'[u] = pc[u]
              \/ pc[u] \notin Connecting /\ pc'[u] \notin Connecting
<1>1. pc \in [Caller -> Labels]
  BY DEF ClientTypeOK, Labels
<1>2. pc' = [u \in Caller |-> pc'[u]]
  BY DEF NotifyAllAndGoto
<1>3. pc'[t] = label
  BY DEF NotifyAllAndGoto
<1>4. ASSUME NEW u \in Caller, u # t
      PROVE  \/ pc'[u] = pc[u]
             \/ pc[u] \in Waiting /\ pc'[u] \in {"enter", "close", "dupledEnd"}
  <2>1. \A w \in Waiting : Again[w] \in {"enter", "close", "dupledEnd"}
    BY DEF Again, Waiting
  <2>. QED
    BY <1>4, <2>1 DEF NotifyAllAndGoto
<1>5. \A u \in Caller : pc'[u] \in Labels
  BY <1>1, <1>3, <1>4 DEF Labels
<1>6. pc' \in [Caller -> Labels]
  BY <1>2, <1>5
<1>7. \A u \in Caller \ {t} :
        \/ pc'[u] = pc[u]
        \/ pc[u] \notin Connecting /\ pc'[u] \notin Connecting
  BY <1>4 DEF Waiting, Connecting
<1>. QED
  BY <1>3, <1>6, <1>7

LEMMA InfoTyped == 1 \in Info /\ Info \subseteq Nat /\ MaxInfo \in Info
  BY UdpClientAssumption DEF Info

LEMMA ClientInvInit == ClientInit => ClientInv
<1>. SUFFICES ASSUME ClientInit PROVE ClientInv
  OBVIOUS
<1>. USE InfoTyped, UdpClientAssumption DEF ClientInit
<1>1. ClientTypeOK
  BY DEF ClientTypeOK
<1>2. InfoInv
  BY DEF InfoInv
<1>3. CallerInv /\ StatusFits
  BY DEF CallerInv, StatusFits, Connecting
<1>. QED
  BY <1>1, <1>2, <1>3 DEF ClientInv

\* There is always an info for the next connection.
LEMMA NextInfo ==
  ASSUME ClientTypeOK, InfoInv, conn[info] # "none"
  PROVE  info + 1 \in Info
<1>1. info # MaxInfo
  BY DEF InfoInv
<1>. QED
  BY <1>1, InfoTyped, UdpClientAssumption DEF ClientTypeOK, Info

\* A client that is not connecting has no thread that connects for its info.
LEMMA NobodyConnects ==
  ASSUME CallerInv, status # "Connecting"
  PROVE  \A t \in Caller : pc[t] \in Connecting => mine[t] # info
  BY DEF CallerInv, Knows

\* willClose() of the connection of a client ends its being connected, or
\* connecting; the thread that connects has to find out.
LEMMA ResetTyped ==
  ASSUME ClientTypeOK, InfoInv, NEW i \in Info, conn[i] # "none", Reset(i)
  PROVE  /\ status' \in {"NoConnected", "Connecting", "Connected"}
         /\ connected' = (status' = "Connected")
         /\ info' \in Info
  BY NextInfo DEF Reset, Disconnected, NewInfo, statusVars, ClientTypeOK

LEMMA ClientStep == ClientInv /\ [ClientNext]_clientVars => ClientInv'
<1>. SUFFICES ASSUME ClientInv, [ClientNext]_clientVars PROVE ClientInv'
  OBVIOUS
<1>. USE InfoTyped DEF ClientInv
<1>1. ASSUME NEW t \in Caller, ConnectCheck(t) PROVE ClientInv'
  <2>1. ClientTypeOK'
    BY <1>1 DEF ConnectCheck, statusVars, connVars, Goto, ClientTypeOK
  <2>2. InfoInv'
    BY <1>1 DEF ConnectCheck, statusVars, connVars, Goto, ClientTypeOK, InfoInv
  <2>3. CallerInv'
    BY <1>1 DEF ConnectCheck, statusVars, connVars, Goto, ClientTypeOK, CallerInv, Knows, Connecting
  <2>4. StatusFits'
    BY <1>1 DEF ConnectCheck, statusVars, connVars, Goto, ClientTypeOK, StatusFits, Connecting
  <2>. QED
    BY <2>1, <2>2, <2>3, <2>4
<1>2. ASSUME NEW t \in Caller, Enter(t) PROVE ClientInv'
  <2>1. ClientTypeOK'
    BY <1>2 DEF Enter, statusVars, connVars, Goto, ClientTypeOK, StatusFits, Connecting, Waiting
  <2>2. InfoInv'
    BY <1>2 DEF Enter, statusVars, connVars, Goto, ClientTypeOK, InfoInv
  <2>3. CallerInv'
    BY <1>2 DEF Enter, statusVars, connVars, Goto, ClientTypeOK, CallerInv, StatusFits, Knows, Connecting
  <2>4. StatusFits'
    BY <1>2 DEF Enter, statusVars, connVars, Goto, ClientTypeOK, StatusFits, Connecting
  <2>. QED
    BY <2>1, <2>2, <2>3, <2>4
<1>3. ASSUME NEW t \in Caller, SocketFails(t) PROVE ClientInv'
  <2>1. ClientTypeOK'
    BY <1>3 DEF SocketFails, statusVars, connVars, Goto, ClientTypeOK, Connecting
  <2>2. InfoInv'
    BY <1>3 DEF SocketFails, statusVars, connVars, Goto, ClientTypeOK, InfoInv
  <2>3. CallerInv'
    BY <1>3 DEF SocketFails, statusVars, connVars, Goto, ClientTypeOK, CallerInv, Knows, Connecting
  <2>4. StatusFits'
    BY <1>3 DEF SocketFails, statusVars, connVars, Goto, ClientTypeOK, StatusFits, Connecting
  <2>. QED
    BY <2>1, <2>2, <2>3, <2>4
<1>4. ASSUME NEW t \in Caller, OpenSocket(t) PROVE ClientInv'
  <2>1. ClientTypeOK'
    BY <1>4 DEF OpenSocket, InUse, Goto, ClientTypeOK, InfoInv, CallerInv, Knows, Connecting
  <2>2. InfoInv'
    BY <1>4 DEF OpenSocket, InUse, Goto, ClientTypeOK, InfoInv, CallerInv, Knows, Connecting
  <2>3. CallerInv'
    BY <1>4 DEF OpenSocket, InUse, statusVars, Goto, ClientTypeOK, CallerInv, Knows, Connecting
  <2>4. StatusFits'
    BY <1>4 DEF OpenSocket, InUse, Goto, ClientTypeOK, InfoInv, CallerInv, Knows, Connecting
  <2>. QED
    BY <2>1, <2>2, <2>3, <2>4
<1>5. ASSUME NEW t \in Caller, OpenFails(t) PROVE ClientInv'
  <2>1. ClientTypeOK'
    BY <1>5 DEF OpenFails, statusVars, Goto, ClientTypeOK, Connecting
  <2>2. InfoInv'
    BY <1>5 DEF OpenFails, statusVars, Goto, ClientTypeOK, InfoInv, CallerInv, Knows, Connecting
  <2>3. CallerInv'
    BY <1>5 DEF OpenFails, statusVars, Goto, ClientTypeOK, CallerInv, Knows, Connecting
  <2>4. StatusFits'
    BY <1>5 DEF OpenFails, statusVars, Goto, ClientTypeOK, CallerInv, StatusFits, Knows, Connecting
  <2>. QED
    BY <2>1, <2>2, <2>3, <2>4
<1>6. ASSUME NEW t \in Caller, Join(t) PROVE ClientInv'
  <2>1. ClientTypeOK'
    BY <1>6 DEF Join, statusVars, Goto, ClientTypeOK, Connecting
  <2>2. InfoInv'
    BY <1>6 DEF Join, statusVars, Goto, ClientTypeOK, InfoInv, CallerInv, Knows, Connecting
  <2>3. CallerInv'
    BY <1>6 DEF Join, statusVars, Goto, ClientTypeOK, CallerInv, Knows, Connecting
  <2>4. StatusFits'
    BY <1>6 DEF Join, statusVars, Goto, ClientTypeOK, CallerInv, StatusFits, Knows, Connecting
  <2>. QED
    BY <2>1, <2>2, <2>3, <2>4
<1>7. ASSUME NEW t \in Caller, JoinFails(t) PROVE ClientInv'
  <2>1. ClientTypeOK'
    <3>1. /\ status' \in {"NoConnected", "Connecting", "Connected"}
          /\ connected' = (status' = "Connected")
          /\ info' \in Info
      BY <1>7, NextInfo, ResetTyped DEF JoinFails, Disconnected, NewInfo, Reset, Goto, ClientTypeOK,
         CallerInv, Knows, Connecting
    <3>2. /\ socket' = socket /\ requireClose' \subseteq Info
          /\ conn' \in [Info -> {"none", "made", "mapped", "taken", "discarded", "reported", "freed"}]
          /\ \A i \in Info : conn[i] \in {"none", "freed"} => conn'[i] \in {"none", "freed"}
      BY <1>7 DEF JoinFails, Disconnected, NewInfo, Reset, Goto, ClientTypeOK, CallerInv, Knows,
         Connecting
    <3>3. pc' \in [Caller -> Labels] /\ mine' \in [Caller -> Info]
      BY <1>7 DEF JoinFails, Disconnected, NewInfo, Reset, Goto, ClientTypeOK, Labels, Connecting
    <3>. QED
      BY <3>1, <3>2, <3>3 DEF ClientTypeOK, Labels
  <2>2. InfoInv'
    BY <1>7, NextInfo, ResetTyped DEF JoinFails, Disconnected, NewInfo, Reset, Goto, ClientTypeOK,
       InfoInv, CallerInv, Knows, Connecting
  <2>3. CallerInv'
    BY <1>7, NextInfo, ResetTyped DEF JoinFails, Disconnected, NewInfo, Reset, Goto, ClientTypeOK,
       CallerInv, Knows, Connecting, Info
  <2>4. StatusFits'
    BY <1>7, NextInfo, ResetTyped DEF JoinFails, Disconnected, NewInfo, Reset, Goto, ClientTypeOK,
       InfoInv, CallerInv, StatusFits, Knows, Connecting
  <2>. QED
    BY <2>1, <2>2, <2>3, <2>4
<1>8. ASSUME NEW t \in Caller, ErrorGuard(t) PROVE ClientInv'
  <2>1. NotifyAllAndGoto(t, "idle") /\ "idle" \in Labels
    BY <1>8 DEF ErrorGuard, Labels
  <2>2. /\ pc' \in [Caller -> Labels] /\ pc'[t] = "idle"
        /\ \A u \in Caller \ {t} :
             \/ pc'[u] = pc[u]
             \/ pc[u] \notin Connecting /\ pc'[u] \notin Connecting
    BY <1>8, <2>1, Woken
  <2>3. ClientTypeOK'
    <3>1. /\ status' \in {"NoConnected", "Connecting", "Connected"}
          /\ connected' = (status' = "Connected")
          /\ info' \in Info
      BY <1>8, <2>2, NextInfo DEF ErrorGuard, Disconnected, statusVars, ClientTypeOK, InfoInv
    <3>2. /\ socket' = socket /\ requireClose' \subseteq Info
          /\ conn' \in [Info -> {"none", "made", "mapped", "taken", "discarded", "reported", "freed"}]
          /\ \A i \in Info : conn[i] \in {"none", "freed"} => conn'[i] \in {"none", "freed"}
      BY <1>8, <2>2 DEF ErrorGuard, Disconnected, connVars, ClientTypeOK
    <3>3. pc' \in [Caller -> Labels] /\ mine' \in [Caller -> Info]
      BY <1>8, <2>2 DEF ErrorGuard, Disconnected, ClientTypeOK, Labels
    <3>. QED
      BY <3>1, <3>2, <3>3 DEF ClientTypeOK, Labels
  <2>4. InfoInv'
    BY <1>8, <2>2, NextInfo DEF ErrorGuard, Disconnected, statusVars, connVars, ClientTypeOK, InfoInv
  <2>5. CallerInv'
    <3>1. pc[t] = "failed" /\ "failed" \in Connecting /\ "idle" \notin Connecting
      BY <1>8 DEF ErrorGuard, Connecting
    <3>2. CASE info = mine[t]
      <4>1. ASSUME NEW u \in Caller, pc'[u] \in Connecting
            PROVE  /\ mine'[u] < info /\ info <= info'
                   /\ pc[u] = "joined" \/ pc[u] = "failed"
                   /\ pc'[u] = pc[u]
        <5>1. u # t /\ pc'[u] = pc[u] /\ pc[u] \in Connecting
          BY <2>2, <3>1, <4>1
        <5>2. mine[u] # info
          BY <1>8, <3>1, <3>2, <5>1 DEF CallerInv
        <5>3. Knows(u)
          BY <5>1 DEF CallerInv
        <5>4. mine' = mine /\ info <= info'
          BY <1>8, <3>2 DEF ErrorGuard, ClientTypeOK
        <5>5. mine[u] \in Nat /\ info \in Nat
          BY DEF ClientTypeOK
        <5>6. mine[u] < info
          BY <5>2, <5>3, <5>5 DEF Knows
        <5>7. pc[u] # "opening" /\ pc[u] # "opened"
          BY <5>2, <5>3 DEF Knows
        <5>. QED
          BY <5>1, <5>4, <5>6, <5>7 DEF Connecting
      <4>2. info' \in Nat /\ info \in Nat /\ mine' \in [Caller -> Nat]
        BY <2>3 DEF ClientTypeOK
      <4>3. \A u \in Caller : pc'[u] \in Connecting => mine'[u] <= info' /\ mine'[u] # info'
        BY <4>1, <4>2
      <4>. QED
        BY <4>1, <4>3 DEF CallerInv, Knows
    <3>3. CASE info # mine[t]
      BY <1>8, <2>2, <3>1, <3>3 DEF ErrorGuard, statusVars, connVars, CallerInv, Knows
    <3>. QED
      BY <3>2, <3>3
  <2>6. StatusFits'
    BY <1>8, <2>2, NextInfo DEF ErrorGuard, Disconnected, statusVars, connVars, ClientTypeOK, InfoInv,
       StatusFits
  <2>. QED
    BY <2>3, <2>4, <2>5, <2>6
<1>9. ASSUME NEW t \in Caller, Established(t) PROVE ClientInv'
  <2>1. NotifyAllAndGoto(t, "idle") /\ "idle" \in Labels
    BY <1>9 DEF Established, Labels
  <2>2. /\ pc' \in [Caller -> Labels] /\ pc'[t] = "idle"
        /\ \A u \in Caller \ {t} :
             \/ pc'[u] = pc[u]
             \/ pc[u] \notin Connecting /\ pc'[u] \notin Connecting
    BY <1>9, <2>1, Woken
  <2>3. ClientTypeOK'
    <3>1. /\ status' \in {"NoConnected", "Connecting", "Connected"}
          /\ connected' = (status' = "Connected")
          /\ info' \in Info
      BY <1>9, <2>2 DEF Established, ClientTypeOK
    <3>2. /\ socket' = socket /\ requireClose' \subseteq Info
          /\ conn' \in [Info -> {"none", "made", "mapped", "taken", "discarded", "reported", "freed"}]
          /\ \A i \in Info : conn[i] \in {"none", "freed"} => conn'[i] \in {"none", "freed"}
      BY <1>9, <2>2 DEF Established, connVars, ClientTypeOK
    <3>3. pc' \in [Caller -> Labels] /\ mine' \in [Caller -> Info]
      BY <1>9, <2>2 DEF Established, ClientTypeOK, Labels
    <3>. QED
      BY <3>1, <3>2, <3>3 DEF ClientTypeOK, Labels
  <2>4. InfoInv'
    BY <1>9, <2>2 DEF Established, connVars, ClientTypeOK, InfoInv
  <2>5. CallerInv'
    BY <1>9, <2>2 DEF Established, ClientTypeOK, CallerInv, StatusFits, Knows, Connecting
  <2>6. StatusFits'
    BY <1>9, <2>2 DEF Established, connVars, ClientTypeOK, CallerInv, StatusFits, Knows, Connecting
  <2>. QED
    BY <2>3, <2>4, <2>5, <2>6
<1>10. ASSUME NEW t \in Caller, Dupled(t) PROVE ClientInv'
  <2>1. ClientTypeOK'
    BY <1>10 DEF Dupled, statusVars, Goto, ClientTypeOK, Info
  <2>2. InfoInv'
    BY <1>10 DEF Dupled, statusVars, Goto, ClientTypeOK, InfoInv
  <2>3. CallerInv'
    BY <1>10 DEF Dupled, statusVars, Goto, ClientTypeOK, CallerInv, Knows, Connecting
  <2>4. StatusFits'
    BY <1>10 DEF Dupled, statusVars, Goto, ClientTypeOK, StatusFits
  <2>. QED
    BY <2>1, <2>2, <2>3, <2>4
<1>11. ASSUME NEW t \in Caller, DupledEnd(t) PROVE ClientInv'
  <2>1. pc[t] = "dupledEnd" /\ {"dupledEnd", "dupledWaiting", "idle"} \subseteq Labels \ Connecting
    BY <1>11 DEF DupledEnd, Labels, Waiting, Connecting
  <2>2. /\ pc' \in [Caller -> Labels]
        /\ \A u \in Caller :
             \/ pc'[u] = pc[u]
             \/ pc[u] \notin Connecting /\ pc'[u] \notin Connecting
    <3>1. CASE NotifyAllAndGoto(t, "idle")
      BY <2>1, <3>1, Woken
    <3>2. CASE Goto(t, "dupledWaiting")
      <4>1. pc \in [Caller -> Labels]
        BY DEF ClientTypeOK, Labels
      <4>. QED
        BY <2>1, <3>2, <4>1 DEF Goto
    <3>. QED
      BY <1>11, <3>1, <3>2 DEF DupledEnd
  <2>3. ClientTypeOK'
    <3>1. /\ status' \in {"NoConnected", "Connecting", "Connected"}
          /\ connected' = (status' = "Connected")
          /\ info' \in Info
      BY <1>11, <2>2 DEF DupledEnd, statusVars, Goto, ClientTypeOK
    <3>2. /\ socket' = socket /\ requireClose' \subseteq Info
          /\ conn' \in [Info -> {"none", "made", "mapped", "taken", "discarded", "reported", "freed"}]
          /\ \A i \in Info : conn[i] \in {"none", "freed"} => conn'[i] \in {"none", "freed"}
      BY <1>11, <2>2 DEF DupledEnd, connVars, Goto, ClientTypeOK
    <3>3. pc' \in [Caller -> Labels] /\ mine' \in [Caller -> Info]
      BY <1>11, <2>2 DEF DupledEnd, Goto, ClientTypeOK, Labels
    <3>. QED
      BY <3>1, <3>2, <3>3 DEF ClientTypeOK, Labels
  <2>4. InfoInv'
    BY <1>11, <2>2 DEF DupledEnd, statusVars, connVars, Goto, ClientTypeOK, InfoInv
  <2>5. CallerInv'
    BY <1>11, <2>2 DEF DupledEnd, statusVars, connVars, Goto, ClientTypeOK, CallerInv, Knows
  <2>6. StatusFits'
    BY <1>11, <2>2 DEF DupledEnd, statusVars, connVars, Goto, ClientTypeOK, StatusFits
  <2>. QED
    BY <2>3, <2>4, <2>5, <2>6
<1>12. ASSUME NEW t \in Caller, CloseCheck(t) PROVE ClientInv'
  <2>1. ClientTypeOK'
    BY <1>12 DEF CloseCheck, statusVars, connVars, Goto, ClientTypeOK
  <2>2. InfoInv'
    BY <1>12 DEF CloseCheck, statusVars, connVars, Goto, ClientTypeOK, InfoInv
  <2>3. CallerInv'
    BY <1>12 DEF CloseCheck, statusVars, Goto, ClientTypeOK, CallerInv, Knows, Connecting
  <2>4. StatusFits'
    BY <1>12 DEF CloseCheck, statusVars, connVars, Goto, ClientTypeOK, StatusFits
  <2>. QED
    BY <2>1, <2>2, <2>3, <2>4
<1>13. ASSUME NEW t \in Caller, CloseLocked(t) PROVE ClientInv'
  <2>1. ClientTypeOK'
    <3>1. /\ status' \in {"NoConnected", "Connecting", "Connected"}
          /\ connected' = (status' = "Connected")
          /\ info' \in Info
      BY <1>13, NextInfo DEF CloseLocked, Disconnected, NewInfo, statusVars, Goto, ClientTypeOK,
         StatusFits
    <3>2. /\ socket' = socket /\ requireClose' \subseteq Info
          /\ conn' \in [Info -> {"none", "made", "mapped", "taken", "discarded", "reported", "freed"}]
          /\ \A i \in Info : conn[i] \in {"none", "freed"} => conn'[i] \in {"none", "freed"}
      BY <1>13 DEF CloseLocked, Disconnected, NewInfo, connVars, Goto, ClientTypeOK
    <3>3. pc' \in [Caller -> Labels] /\ mine' \in [Caller -> Info]
      BY <1>13 DEF CloseLocked, Disconnected, NewInfo, Goto, ClientTypeOK, Labels, Waiting
    <3>. QED
      BY <3>1, <3>2, <3>3 DEF ClientTypeOK, Labels
  <2>2. InfoInv'
    BY <1>13, NextInfo DEF CloseLocked, Disconnected, NewInfo, statusVars, connVars, Goto,
       ClientTypeOK, InfoInv
  <2>3. CallerInv'
    BY <1>13, NobodyConnects, NextInfo DEF CloseLocked, Disconnected, NewInfo, statusVars,
       connVars, Goto, ClientTypeOK, InfoInv, CallerInv, Knows, Connecting, Info
  <2>4. StatusFits'
    BY <1>13, NextInfo DEF CloseLocked, Disconnected, NewInfo, statusVars, connVars, Goto,
       ClientTypeOK, InfoInv, StatusFits, Connecting
  <2>. QED
    BY <2>1, <2>2, <2>3, <2>4
<1>14. ASSUME NEW t \in Caller, CloseSignal(t) PROVE ClientInv'
  <2>1. ClientTypeOK'
    BY <1>14 DEF CloseSignal, statusVars, Goto, ClientTypeOK
  <2>2. InfoInv'
    BY <1>14 DEF CloseSignal, statusVars, Goto, ClientTypeOK, InfoInv
  <2>3. CallerInv'
    BY <1>14 DEF CloseSignal, statusVars, Goto, ClientTypeOK, CallerInv, Knows, Connecting
  <2>4. StatusFits'
    BY <1>14 DEF CloseSignal, statusVars, Goto, ClientTypeOK, StatusFits, Connecting
  <2>. QED
    BY <2>1, <2>2, <2>3, <2>4
<1>15. ASSUME NEW i \in Info, TakeConnection(i) PROVE ClientInv'
  <2>1. ClientTypeOK'
    BY <1>15 DEF TakeConnection, statusVars, ClientTypeOK
  <2>2. InfoInv'
    BY <1>15 DEF TakeConnection, statusVars, ClientTypeOK, InfoInv
  <2>3. CallerInv'
    BY <1>15 DEF TakeConnection, statusVars, ClientTypeOK, CallerInv, Knows
  <2>4. StatusFits'
    BY <1>15 DEF TakeConnection, statusVars, ClientTypeOK, StatusFits
  <2>. QED
    BY <2>1, <2>2, <2>3, <2>4
<1>16. ASSUME NEW i \in Info, WillClose(i) PROVE ClientInv'
  <2>1. ClientTypeOK'
    <3>1. /\ status' \in {"NoConnected", "Connecting", "Connected"}
          /\ connected' = (status' = "Connected")
          /\ info' \in Info
      BY <1>16, ResetTyped, NextInfo DEF WillClose, Disconnected, NewInfo, Reset, ClientTypeOK
    <3>2. /\ socket' = socket /\ requireClose' \subseteq Info
          /\ conn' \in [Info -> {"none", "made", "mapped", "taken", "discarded", "reported", "freed"}]
          /\ \A j \in Info : conn[j] \in {"none", "freed"} => conn'[j] \in {"none", "freed"}
      BY <1>16 DEF WillClose, Disconnected, NewInfo, Reset, ClientTypeOK
    <3>3. pc' \in [Caller -> Labels] /\ mine' \in [Caller -> Info]
      BY <1>16 DEF WillClose, Disconnected, NewInfo, Reset, ClientTypeOK, Labels
    <3>. QED
      BY <3>1, <3>2, <3>3 DEF ClientTypeOK, Labels
  <2>2. InfoInv'
    BY <1>16, ResetTyped, NextInfo DEF WillClose, Disconnected, NewInfo, Reset, statusVars,
       ClientTypeOK, InfoInv
  <2>3. CallerInv'
    BY <1>16, ResetTyped, NextInfo DEF WillClose, Disconnected, NewInfo, Reset, statusVars,
       ClientTypeOK, CallerInv, Knows, Info
  <2>4. StatusFits'
    BY <1>16, ResetTyped, NextInfo DEF WillClose, Disconnected, NewInfo, Reset, statusVars,
       ClientTypeOK, InfoInv, StatusFits
  <2>. QED
    BY <2>1, <2>2, <2>3, <2>4
<1>17. ASSUME NEW i \in Info, RunCloseTask(i) PROVE ClientInv'
  <2>1. ClientTypeOK'
    BY <1>17 DEF RunCloseTask, statusVars, ClientTypeOK
  <2>2. InfoInv'
    BY <1>17 DEF RunCloseTask, statusVars, ClientTypeOK, InfoInv
  <2>3. CallerInv'
    BY <1>17 DEF RunCloseTask, statusVars, ClientTypeOK, CallerInv, Knows
  <2>4. StatusFits'
    BY <1>17 DEF RunCloseTask, statusVars, ClientTypeOK, StatusFits
  <2>. QED
    BY <2>1, <2>2, <2>3, <2>4
<1>18. ASSUME NEW i \in Info, Reclaim(i) PROVE ClientInv'
  <2>1. ClientTypeOK'
    BY <1>18 DEF Reclaim, statusVars, ClientTypeOK
  <2>2. InfoInv'
    BY <1>18 DEF Reclaim, statusVars, ClientTypeOK, InfoInv
  <2>3. CallerInv'
    BY <1>18 DEF Reclaim, statusVars, ClientTypeOK, CallerInv, Knows
  <2>4. StatusFits'
    BY <1>18 DEF Reclaim, statusVars, ClientTypeOK, StatusFits
  <2>. QED
    BY <2>1, <2>2, <2>3, <2>4
<1>19. CASE UNCHANGED clientVars
  BY <1>19 DEF clientVars, ClientTypeOK, InfoInv, CallerInv, Knows, StatusFits
<1>. QED
  BY <1>1, <1>2, <1>3, <1>4, <1>5, <1>6, <1>7, <1>8, <1>9, <1>10, <1>11, <1>12, <1>13, <1>14,
     <1>15, <1>16, <1>17, <1>18, <1>19 DEF ClientNext, GoOn, Engine

THEOREM ClientInvariant == ClientSafety => []ClientInv
<1>1. ClientInit => ClientInv
  BY ClientInvInit
<1>2. ClientInv /\ [ClientNext]_clientVars => ClientInv'
  BY ClientStep
<1>. QED
  BY <1>1, <1>2, PTL DEF ClientSafety

\* The variables of the client and of its connections keep their types, and no
\* two live connections have one descriptor.
THEOREM ClientTypeCorrect == ClientSafety => []ClientTypeOK
<1>1. ClientInv => ClientTypeOK
  BY DEF ClientInv
<1>. QED
  BY <1>1, ClientInvariant, PTL

\* connect(), close() and willClose(), which the threads of the application and
\* of the engine run in any order, leave the client with a status that fits its
\* connection.
THEOREM StatusAlwaysFits == ClientSafety => []StatusFits
<1>1. ClientInv => StatusFits
  BY DEF ClientInv
<1>. QED
  BY <1>1, ClientInvariant, PTL

=============================================================================
