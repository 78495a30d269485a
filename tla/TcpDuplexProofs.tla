--------------------------- MODULE TcpDuplexProofs ---------------------------
(***************************************************************************)
(* Proofs about TcpDuplex, for any streams of the peer: the quests of the  *)
(* server, the place of the receiver in the stream, and that both together *)
(* implement AnswerContract.                                               *)
(*                                                                         *)
(* A quest that asks for an answer has one right to answer.  The handler's *)
(* thread has it while the quest runs, may use it or pass it on to an      *)
(* IAsyncAnswer, and uses it when the handler returns; it gets lost only   *)
(* with the connection.                                                    *)
(***************************************************************************)
EXTENDS TcpDuplex, FiniteSetTheorems, SequenceTheorems, TLAPS

Number == 1..Limit

SideTypes ==
  /\ stage \in [Number -> {"unseen", "queued", "running", "fatal", "done"}]
  /\ twoWay \in SUBSET Number
  /\ answered \in SUBSET twoWay
  /\ async \in [Number -> {"none", "held", "sent", "gone"}]
  /\ answers \in [Number -> Nat]
  /\ lost \in SUBSET twoWay
  /\ up \in BOOLEAN

\* The right to answer quest n: not yet used, passed on, given up, or used.
Rights(n) ==
  (IF stage[n] = "running" /\ n \notin answered THEN 1 ELSE 0)
  + (IF async[n] = "held" THEN 1 ELSE 0)
  + (IF n \in lost THEN 1 ELSE 0)
  + answers[n]

OneRight(n) ==
  /\ stage[n] = "unseen" => n \notin twoWay
  /\ n \in answered => stage[n] = "running"
  /\ n \notin twoWay => async[n] = "none" /\ answers[n] = 0
  /\ n \in twoWay =>
       /\ stage[n] \in {"queued", "fatal"} => Rights(n) = 0
       /\ stage[n] = "running" => Rights(n) = 1
       /\ stage[n] = "done" => Rights(n) = 1 \/ (Rights(n) = 0 /\ ~up)

IInv ==
  /\ script \in Scripts
  /\ SideTypes
  /\ \A n \in Number : OneRight(n)

LEMMA InvInit == Init => IInv
  BY DEF Init, ReceiveInit, IInv, SideTypes, OneRight, Number, Q!QuestInit

\* The messages of a stream are quests of ServerQuest.
LEMMA Numbered == script \in Scripts => 1..Len(script) \subseteq Number
<1>1. ASSUME NEW s \in Scripts, NEW n \in 1..Len(s) PROVE n \in Number
  <2>1. Len(s) \in 0..Limit /\ Limit \in Nat
    BY LimitAssumption
  <2>. QED
    BY <2>1 DEF Number
<1>. QED
  BY <1>1

\* What reading does besides dealing with a quest leaves the quests alone, and
\* may close the connection.
LEMMA ReadingStep ==
  ASSUME IInv, UNCHANGED sideVars, script' = script, up' = up \/ up' = FALSE
  PROVE  IInv'
<1>1. SideTypes'
  BY DEF IInv, SideTypes, sideVars
<1>2. ASSUME NEW n \in Number PROVE OneRight(n)'
  <2>1. Rights(n)' = Rights(n)
    BY DEF Rights, sideVars
  <2>. QED
    BY <2>1 DEF IInv, SideTypes, OneRight, sideVars
<1>. QED
  BY <1>1, <1>2 DEF IInv

\* A step that is about quest q.
LEMMA Elsewhere ==
  ASSUME IInv, NEW q \in Number, NEW n \in Number, n # q, up' = up \/ up' = FALSE,
         stage'[n] = stage[n], async'[n] = async[n], answers'[n] = answers[n],
         n \in twoWay' <=> n \in twoWay,
         n \in answered' <=> n \in answered,
         n \in lost' <=> n \in lost
  PROVE  OneRight(n)'
<1>1. Rights(n)' = Rights(n)
  BY DEF Rights
<1>. QED
  BY <1>1 DEF IInv, SideTypes, OneRight

\* dealQuest(): the right comes into being, or is used or lost at once.
LEMMA DealStep ==
  ASSUME IInv, NEW q \in Number, NEW ask \in BOOLEAN, Q!Deal(q, ask), script' = script
  PROVE  IInv'
<1>1. SideTypes'
  BY DEF IInv, SideTypes, Q!Deal, Q!Move, Q!Answer, Q!Lose
<1>2. ASSUME NEW n \in Number, n # q PROVE OneRight(n)'
  BY <1>2, Elsewhere DEF IInv, SideTypes, Q!Deal, Q!Move, Q!Answer, Q!Lose
<1>3. OneRight(q)'
  <2>1. /\ q \notin answered' /\ async'[q] = "none"
        /\ q \notin lost /\ answers[q] = 0
    BY DEF Q!Deal, IInv, SideTypes, OneRight
  <2>2. \/ stage'[q] = "queued" /\ answers'[q] = 0 /\ q \notin lost'
        \/ stage'[q] = "done" /\ answers'[q] = 0 /\ q \notin lost' /\ q \notin twoWay'
        \/ stage'[q] = "done" /\ answers'[q] = 1 /\ q \notin lost' /\ q \in twoWay'
        \/ stage'[q] = "done" /\ answers'[q] = 0 /\ q \in lost' /\ q \in twoWay'
    BY <2>1 DEF Q!Deal, Q!Move, Q!Answer, Q!Lose, IInv, SideTypes, OneRight
  <2>3. Rights(q)' = answers'[q] + (IF q \in lost' THEN 1 ELSE 0)
    BY <2>1, <2>2 DEF Rights
  <2>4. q \in twoWay' /\ stage'[q] = "done" => Rights(q)' = 1
    BY <2>2, <2>3
  <2>5. stage'[q] = "queued" => Rights(q)' = 0
    BY <2>2, <2>3
  <2>6. stage'[q] \in {"queued", "done"} /\ (q \notin twoWay' => answers'[q] = 0)
    BY <2>2
  <2>. QED
    BY <2>1, <2>4, <2>5, <2>6 DEF OneRight
<1>. QED
  BY <1>1, <1>2, <1>3 DEF IInv

\* The handler uses the right, or passes it on.
LEMMA HandlerStep ==
  ASSUME IInv, NEW q \in Number, Q!Begin(q) \/ Q!Handler(q), script' = script, up' = up \/ up' = FALSE
  PROVE  IInv'
<1>1. SideTypes'
  BY DEF IInv, SideTypes, Q!Begin, Q!Handler, Q!Advance, Q!GenAsync, Q!Move, Q!Answer
<1>2. ASSUME NEW n \in Number, n # q PROVE OneRight(n)'
  BY <1>2, Elsewhere DEF IInv, SideTypes, Q!Begin, Q!Handler, Q!Advance, Q!GenAsync, Q!Move, Q!Answer
<1>3. OneRight(q)'
  BY DEF IInv, SideTypes, OneRight, Rights, Q!Begin, Q!Handler, Q!Advance, Q!GenAsync,
     Q!Move, Q!Answer
<1>. QED
  BY <1>1, <1>2, <1>3 DEF IInv

\* processQuest() uses what the handler has not used, or closes the connection.
LEMMA ConcludeStep ==
  ASSUME IInv, NEW q \in Number, Q!Conclude(q) \/ Q!FatalClose(q), script' = script, up' = up \/ up' = FALSE
  PROVE  IInv'
<1>1. SideTypes'
  <2>1. up' \in BOOLEAN
    BY DEF IInv, SideTypes
  <2>2. CASE Q!Conclude(q)
    BY <2>1, <2>2 DEF IInv, SideTypes, Q!Conclude, Q!Move, Q!Answer
  <2>3. CASE Q!FatalClose(q)
    BY <2>1, <2>3 DEF IInv, SideTypes, Q!FatalClose, Q!Move
  <2>. QED
    BY <2>2, <2>3
<1>2. ASSUME NEW n \in Number, n # q PROVE OneRight(n)'
  BY <1>2, Elsewhere DEF IInv, SideTypes, Q!Conclude, Q!FatalClose, Q!Move, Q!Answer
<1>3. OneRight(q)'
  <2>1. CASE Q!Conclude(q) /\ stage'[q] = "done"
    BY <2>1 DEF IInv, SideTypes, OneRight, Rights, Q!Conclude, Q!Move, Q!Answer
  <2>2. CASE Q!Conclude(q) /\ stage'[q] = "fatal"
    BY <2>2 DEF IInv, SideTypes, OneRight, Rights, Q!Conclude, Q!Move, Q!Answer
  <2>3. CASE Q!FatalClose(q)
    <3>1. Rights(q)' = Rights(q) /\ stage[q] = "fatal" /\ stage'[q] = "done"
      BY <2>3 DEF IInv, SideTypes, Rights, Q!FatalClose, Q!Move
    <3>2. up' = FALSE
      BY <2>3 DEF Q!FatalClose
    <3>. QED
      BY <2>3, <3>1, <3>2 DEF IInv, SideTypes, OneRight, Q!FatalClose
  <2>. QED
    BY <2>1, <2>2, <2>3 DEF IInv, SideTypes, Q!Conclude, Q!Move
<1>. QED
  BY <1>1, <1>2, <1>3 DEF IInv

\* Who holds an IAsyncAnswer uses the right, or the destructor does.
LEMMA AsyncStep ==
  ASSUME IInv, NEW q \in Number, Q!AsyncAnswer(q), script' = script, up' = up \/ up' = FALSE
  PROVE  IInv'
<1>1. SideTypes'
  BY DEF IInv, SideTypes, OneRight, Q!AsyncAnswer, Q!AsyncSend, Q!AsyncRelease, Q!Answer, Q!Lose
<1>2. ASSUME NEW n \in Number, n # q PROVE OneRight(n)'
  BY <1>2, Elsewhere DEF IInv, SideTypes, Q!AsyncAnswer, Q!AsyncSend, Q!AsyncRelease, Q!Answer, Q!Lose
<1>3. OneRight(q)'
  BY DEF IInv, SideTypes, OneRight, Rights, Q!AsyncAnswer, Q!AsyncSend, Q!AsyncRelease,
     Q!Answer, Q!Lose
<1>. QED
  BY <1>1, <1>2, <1>3 DEF IInv

\* Every step keeps the invariant.
LEMMA Step == IInv /\ [Next]_vars => IInv'
<1>. SUFFICES ASSUME IInv, [Next]_vars PROVE IInv'
  OBVIOUS
<1>1. CASE Environment /\ UNCHANGED sideVars
  <2>1. script' = script /\ (up' = up \/ up' = FALSE)
    BY <1>1 DEF Environment, Arrive, PeerEnds, AllowReceiving, ServeOthers, CloseByOther,
       peerVars
  <2>. QED
    BY <1>1, <2>1, ReadingStep
<1>2. CASE (Event \/ ReadCall) /\ UNCHANGED sideVars
  <2>1. script' = script /\ (up' = up \/ up' = FALSE)
    BY <1>2 DEF Event, ReadCall, ReadHeader, BeginBody, ReadBody, ReadSome, ReadNothing,
       ReadEnd, ReadReset, WaitForEvent, Fail, Close, peerVars
  <2>. QED
    BY <1>2, <2>1, ReadingStep
<1>3. CASE Deliver
  <2>1. PICK n \in 1..Len(script) : DeliverQuest(n) \/ DeliverAnswer(n) \/ DeliverNothing(n)
    BY <1>3 DEF Deliver
  <2>2. script' = script /\ (up' = up \/ up' = FALSE)
    BY <2>1 DEF DeliverQuest, DeliverAnswer, DeliverNothing, HandOn, NotHandedOn, Fetched,
       Fail, Close, peerVars
  <2>3. CASE DeliverQuest(n)
    <3>1. n \in Number
      BY Numbered DEF IInv
    <3>2. Q!Deal(n, script[n].what = "twoWay") /\ (script[n].what = "twoWay") \in BOOLEAN
      BY <2>3 DEF DeliverQuest
    <3>. QED
      BY <2>2, <3>1, <3>2, DealStep
  <2>4. CASE DeliverAnswer(n) \/ DeliverNothing(n)
    BY <2>2, <2>4, ReadingStep DEF DeliverAnswer, DeliverNothing
  <2>. QED
    BY <2>1, <2>3, <2>4
<1>4. CASE \E n \in 1..Limit :
             (Q!Handler(n) \/ Q!Task(n) \/ Q!AsyncAnswer(n)) /\ BesideReading
  <2>1. PICK n \in Number : (Q!Handler(n) \/ Q!Task(n) \/ Q!AsyncAnswer(n)) /\ BesideReading
    BY <1>4 DEF Number
  <2>2. script' = script /\ (up' = up \/ up' = FALSE)
    BY <2>1 DEF BesideReading, peerVars, Q!Handler, Q!Advance, Q!GenAsync, Q!Task, Q!Begin,
       Q!Conclude, Q!FatalClose, Q!AsyncAnswer, Q!AsyncSend, Q!AsyncRelease
  <2>. QED
    BY <2>1, <2>2, HandlerStep, ConcludeStep, AsyncStep DEF Q!Task
<1>5. CASE UNCHANGED vars
  BY <1>5, ReadingStep DEF vars, receiveVars, peerVars, sideVars
<1>. QED
  BY <1>1, <1>2, <1>3, <1>4, <1>5 DEF Next

-----------------------------------------------------------------------------

\* IInv is an invariant, for any streams and however the bytes come.
THEOREM Invariant == Safety => []IInv
  BY InvInit, Step, PTL DEF Safety

\* A two-way quest that is dealt with has exactly one of an answer, somebody who
\* owes it one, or a reason why it cannot have one.
THEOREM AnswersHaveOwners == Safety => []AnswerHasOwner
<1>1. IInv => AnswerHasOwner
  BY DEF IInv, SideTypes, OneRight, Rights, Number, AnswerHasOwner, Q!AnswerHasOwner
<1>. QED
  BY <1>1, Invariant, PTL

\* No quest is answered twice, and none that asks for no answer is answered,
\* also when the connection is gone.
THEOREM AnsweredAtMostOnce ==
  Safety => [](\A n \in Number : answers[n] <= IF n \in twoWay THEN 1 ELSE 0)
<1>1. IInv => \A n \in Number : answers[n] <= IF n \in twoWay THEN 1 ELSE 0
  <2>. SUFFICES ASSUME IInv, NEW n \in Number
                PROVE  answers[n] <= IF n \in twoWay THEN 1 ELSE 0
    OBVIOUS
  <2>. QED
    BY DEF IInv, SideTypes, OneRight, Rights
<1>. QED
  BY <1>1, Invariant, PTL

-----------------------------------------------------------------------------
(* Where messages end *)

LEMMA Least ==
  ASSUME NEW c \in Nat, NEW T \in SUBSET (0..c), T # {}
  PROVE  \E x \in T : \A y \in T : x <= y
<1>. DEFINE below(x) == {y \in T : y < x}
            U == {below(x) : x \in T}
            R == StrictSubsetOrdering(0..c)
<1>1. IsWellFoundedOn(R, SUBSET (0..c))
  <2>1. IsFiniteSet(0..c)
    BY FS_Interval
  <2>. QED
    BY <2>1, FS_StrictSubsetOrderingWellFounded, FS_FiniteSubsetsOfFinite
<1>2. U \subseteq SUBSET (0..c) /\ U # {}
  OBVIOUS
<1>3. PICK u \in U : \A v \in U : ~(<<v, u>> \in R)
  <2>. HIDE DEF U, R
  <2>. QED
    BY <1>1, <1>2, WFMin
<1>4. PICK x \in T : u = below(x)
  OBVIOUS
<1>5. ASSUME NEW y \in T, y < x PROVE FALSE
  <2>1. \A z \in T : (z < y => z < x) /\ ~(y < y)
    BY <1>5
  <2>2. below(y) \subseteq u /\ y \in u /\ y \notin below(y)
    BY <1>4, <1>5, <2>1
  <2>3. <<below(y), u>> \in R
    BY <1>4, <2>2 DEF StrictSubsetOrdering
  <2>. QED
    BY <1>3, <2>3
<1>. QED
  BY <1>5

\* The recursive function Ends is there: the ends of the messages are in the
\* order of the messages.
LEMMA EndsGrow ==
  ASSUME script \in Scripts
  PROVE  /\ Ends[0] = 0
         /\ \A n \in 0..Len(script) : Ends[n] \in Nat
         /\ \A n \in 1..Len(script) : Ends[n] = Ends[n - 1] + OnWire(script[n])
         /\ \A m, n \in 0..Len(script) : m < n => Ends[m] < Ends[n]
<1>. DEFINE N == Len(script)
            wire(n) == OnWire(script[n])
            Solves(f, k) == f = [n \in 0..k |-> IF n = 0 THEN 0 ELSE f[n - 1] + wire(n)]
<1>1. N \in Nat /\ \A n \in 1..N : wire(n) \in Nat \ {0}
  <2>1. script \in Seq([size : Nat \ {0}, what : {"twoWay", "oneWay", "answer", "garbled"}])
    BY ScriptAssumption
  <2>2. N \in Nat
    BY <2>1
  <2>3. ASSUME NEW n \in 1..N PROVE script[n].size \in Nat \ {0}
    <3>1. script[n] \in [size : Nat \ {0}, what : {"twoWay", "oneWay", "answer", "garbled"}]
      BY <2>1, ElementOfSeq
    <3>. QED
      BY <3>1
  <2>. QED
    BY <2>2, <2>3, LengthAssumption DEF OnWire
<1>2. Ends = CHOOSE f : Solves(f, N)
  BY DEF Ends
<1>. HIDE DEF N, wire
<1>3. \A k \in 0..N : \E f : Solves(f, k)
  <2>. DEFINE T == {k \in 0..N : ~\E f : Solves(f, k)}
  <2>1. SUFFICES ASSUME T # {} PROVE FALSE
    OBVIOUS
  <2>2. PICK k \in T : \A j \in T : k <= j
    <3>. HIDE DEF T
    <3>1. T \subseteq 0..N
      BY DEF T
    <3>. QED
      BY <1>1, <2>1, <3>1, Least
  <2>3. k # 0
    <3>1. Solves([n \in 0..0 |-> 0], 0)
      OBVIOUS
    <3>. QED
      BY <3>1
  <2>4. k - 1 \in 0..N /\ k - 1 \notin T
    <3>1. k \in 0..N
      OBVIOUS
    <3>. HIDE DEF T
    <3>. QED
      BY <1>1, <2>2, <2>3, <3>1
  <2>5. PICK f : Solves(f, k - 1)
    BY <2>4
  <2>. DEFINE g == [n \in 0..k |-> IF n = k THEN f[k - 1] + wire(k) ELSE f[n]]
  <2>6. Solves(g, k)
    <3>1. \A n \in 0..k : g[n] = IF n = 0 THEN 0 ELSE g[n - 1] + wire(n)
      <4>. TAKE n \in 0..k
      <4>1. CASE n = 0
        BY <1>1, <2>3, <2>5, <4>1
      <4>2. CASE n = k
        BY <1>1, <2>3, <2>5, <4>2
      <4>3. CASE n # 0 /\ n # k
        BY <1>1, <2>3, <2>5, <4>3
      <4>. QED
        BY <4>1, <4>2, <4>3
    <3>. QED
      BY <3>1
  <2>. QED
    BY <2>6
<1>4. Solves(Ends, N)
  <2>1. \E f : Solves(f, N)
    BY <1>1, <1>3
  <2>. HIDE DEF Solves
  <2>. QED
    BY <1>2, <2>1
<1>5. Ends[0] = 0 /\ \A n \in 1..N : Ends[n] = Ends[n - 1] + wire(n)
  <2>1. DOMAIN Ends = 0..N /\ \A n \in 0..N : Ends[n] = IF n = 0 THEN 0 ELSE Ends[n - 1] + wire(n)
    BY <1>4, Zenon
  <2>. QED
    BY <1>1, <2>1
<1>. HIDE DEF Solves
<1>6. \A n \in 0..N : Ends[n] \in Nat
  <2>. DEFINE T == {n \in 0..N : Ends[n] \notin Nat}
  <2>1. SUFFICES ASSUME T # {} PROVE FALSE
    OBVIOUS
  <2>2. PICK n \in T : \A j \in T : n <= j
    <3>. HIDE DEF T
    <3>1. T \subseteq 0..N
      BY DEF T
    <3>. QED
      BY <1>1, <2>1, <3>1, Least
  <2>3. n \in 1..N /\ n - 1 \in 0..N /\ n - 1 \notin T
    BY <1>1, <1>5, <2>2
  <2>. QED
    BY <1>1, <1>5, <2>3
<1>7. ASSUME NEW m \in 0..N
      PROVE  \A n \in 0..N : m < n => Ends[m] < Ends[n]
  <2>. DEFINE T == {n \in 0..N : m < n /\ ~(Ends[m] < Ends[n])}
  <2>1. SUFFICES ASSUME T # {} PROVE FALSE
    OBVIOUS
  <2>2. PICK n \in T : \A j \in T : n <= j
    <3>. HIDE DEF T
    <3>1. T \subseteq 0..N
      BY DEF T
    <3>. QED
      BY <1>1, <2>1, <3>1, Least
  <2>3. n \in 1..N /\ n - 1 \in 0..N /\ n - 1 \notin T
    BY <1>1, <2>2
  <2>4. n - 1 = m \/ Ends[m] < Ends[n - 1]
    BY <1>1, <2>2, <2>3
  <2>5. Ends[n] = Ends[n - 1] + wire(n) /\ wire(n) \in Nat \ {0}
    BY <1>1, <1>5, <2>3
  <2>6. Ends[m] \in Nat /\ Ends[n] \in Nat /\ Ends[n - 1] \in Nat
    BY <1>6, <2>3
  <2>. QED
    BY <2>2, <2>4, <2>5, <2>6
<1>. QED
  BY <1>5, <1>6, <1>7 DEF N, wire

LEMMA SameEnds == UNCHANGED <<mode, script>> => Ends' = Ends
  BY DEF Ends, OnWire

-----------------------------------------------------------------------------
(* The receiver and the stream *)

Alive == pc \in {"connecting", "waiting", "reading"}

\* The receiver is behind the messages it has handed on, in the header or in the
\* body of the next one.
Placed ==
  /\ handed = [i \in DOMAIN handed |-> i]
  /\ taken = Ends[Len(handed)] + Progress
  /\ mode = "stream" =>
       key = Ends[Len(handed)] + (IF InHeader THEN 0 ELSE HeaderLength)
  /\ ~InHeader =>
       /\ Len(handed) < Len(script)
       /\ total = HeaderLength + script[Len(handed) + 1].size

ReceiveInv ==
  /\ ReceiveTypeOK
  /\ up => Alive
  /\ InHeader => total = First
  /\ mode # "package" => ~getLength
  /\ Alive => Placed

LEMMA ReceiveInvInit == Init => ReceiveInv
<1>. SUFFICES ASSUME Init PROVE ReceiveInv
  OBVIOUS
<1>1. script \in Scripts /\ Len(handed) = 0 /\ handed = <<>>
  BY DEF Init, ReceiveInit
<1>2. Ends[0] = 0 /\ Ends[Len(script)] \in Nat
  <2>1. Len(script) \in Nat
    BY <1>1, LimitAssumption
  <2>. QED
    BY <1>1, <2>1, EndsGrow
<1>3. First \in Nat \ {0}
  BY LengthAssumption DEF First
<1>4. ReceiveTypeOK
  <2>1. /\ arrived \in 0..Ends[Len(script)] /\ taken \in 0..arrived
        /\ total \in Nat /\ curr \in 0..total /\ key \in Nat
    BY <1>2, <1>3 DEF Init, ReceiveInit
  <2>2. handed \in Seq(1..Len(script))
    BY <1>1
  <2>. QED
    BY <1>1, <2>1, <2>2 DEF Init, ReceiveInit, ReceiveTypeOK
<1>5. InHeader
  BY DEF Init, ReceiveInit, InHeader, First
<1>6. Placed
  BY <1>1, <1>2, <1>5 DEF Init, ReceiveInit, Placed, Progress
<1>. QED
  BY <1>4, <1>6 DEF Init, ReceiveInit, ReceiveInv, Alive

\* Steps that read nothing: more bytes come, an event, the end of the stream, a
\* close by whomever.
LEMMA NothingRead ==
  ASSUME ReceiveInv, UNCHANGED <<mode, script, bufferVars>>,
         arrived' = arrived \/ arrived' \in arrived..Ends[Len(script)],
         peer' \in {"open", "fin", "reset"}, errno' \in {"none", "again", "other"},
         token' \in BOOLEAN, up' \in BOOLEAN,
         pc' \in {"connecting", "waiting", "reading", "closed", "failed", "gone"},
         up' => Alive', Alive' => Alive
  PROVE  ReceiveInv'
<1>1. Ends' = Ends
  BY SameEnds
<1>2. arrived \in 0..Ends[Len(script)] /\ taken \in 0..arrived /\ Ends[Len(script)] \in Nat
  <2>1. script \in Scripts /\ Len(script) \in Nat
    BY LimitAssumption DEF ReceiveInv, ReceiveTypeOK
  <2>. QED
    BY <2>1, EndsGrow DEF ReceiveInv, ReceiveTypeOK
<1>3. arrived' \in 0..Ends[Len(script)] /\ taken \in 0..arrived'
  BY <1>2
<1>4. ReceiveTypeOK'
  BY <1>1, <1>3 DEF ReceiveInv, ReceiveTypeOK, bufferVars
<1>5. (First' = First) /\ (InHeader' <=> InHeader) /\ Progress' = Progress
  BY DEF First, InHeader, Progress, bufferVars
<1>6. Placed => Placed'
  BY <1>1, <1>5 DEF Placed, bufferVars
<1>. QED
  BY <1>4, <1>5, <1>6 DEF ReceiveInv, bufferVars

\* What a read() that is under way may rely on.
LEMMA WhileReading ==
  ASSUME ReceiveInv, pc = "reading"
  PROVE  /\ Placed /\ script \in Scripts
         /\ Len(script) \in Nat /\ Len(handed) \in 0..Len(script)
         /\ arrived \in 0..Ends[Len(script)] /\ taken \in 0..arrived
         /\ total \in Nat /\ curr \in 0..total /\ key \in Nat
         /\ Ends[Len(script)] \in Nat /\ Ends[Len(handed)] \in Nat
         /\ First \in Nat \ {0}
<1>1. Placed /\ script \in Scripts /\ Len(script) \in Nat
  BY LimitAssumption DEF ReceiveInv, ReceiveTypeOK, Alive
<1>2. Len(handed) \in 0..Len(script)
  <2>1. handed \in Seq(1..Len(script)) /\ Len(handed) \in Nat
    BY DEF ReceiveInv, ReceiveTypeOK
  <2>2. ASSUME Len(handed) > 0 PROVE handed[Len(handed)] = Len(handed)
    BY <1>1, <2>1, <2>2 DEF Placed
  <2>3. ASSUME Len(handed) > 0 PROVE handed[Len(handed)] \in 1..Len(script)
    BY <2>1, <2>3
  <2>. QED
    BY <1>1, <2>1, <2>2, <2>3
<1>3. Ends[Len(script)] \in Nat /\ Ends[Len(handed)] \in Nat
  BY <1>1, <1>2, EndsGrow
<1>4. First \in Nat \ {0}
  BY LengthAssumption DEF First
<1>. QED
  BY <1>1, <1>2, <1>3, <1>4 DEF ReceiveInv, ReceiveTypeOK

\* The next message: the only one that begins where the last one ended.
LEMMA NextMessage ==
  ASSUME script \in Scripts, NEW h \in 0..Len(script), NEW n \in At(Ends[h])
  PROVE  /\ n = h + 1 /\ n \in 1..Len(script)
         /\ script[n].size \in Nat \ {0}
         /\ Ends[n] = Ends[h] + OnWire(script[n])
<1>1. n \in 1..Len(script) /\ Ends[n - 1] = Ends[h] /\ Len(script) \in Nat
  BY LimitAssumption DEF At
<1>2. n - 1 \in 0..Len(script)
  BY <1>1
<1>3. n - 1 = h
  <2>1. Ends[n - 1] \in Nat /\ Ends[h] \in Nat
    BY <1>2, EndsGrow
  <2>2. (n - 1 < h => Ends[n - 1] < Ends[h]) /\ (h < n - 1 => Ends[h] < Ends[n - 1])
    BY <1>2, EndsGrow
  <2>. QED
    BY <1>1, <1>2, <2>1, <2>2
<1>4. script[n] \in [size : Nat \ {0}, what : {"twoWay", "oneWay", "answer", "garbled"}]
  BY <1>1, ScriptAssumption, ElementOfSeq
<1>5. Ends[n] = Ends[n - 1] + OnWire(script[n])
  BY <1>1, EndsGrow
<1>. QED
  BY <1>1, <1>3, <1>4, <1>5

LEMMA HeaderStep ==
  ASSUME ReceiveInv, ReadHeader
  PROVE  ReceiveInv'
<1>. DEFINE h == Len(handed)
<1>1. /\ Placed /\ script \in Scripts
      /\ Len(script) \in Nat /\ h \in 0..Len(script)
      /\ arrived \in 0..Ends[Len(script)] /\ taken \in 0..arrived
      /\ total \in Nat /\ curr \in 0..total /\ key \in Nat
      /\ Ends[Len(script)] \in Nat /\ Ends[h] \in Nat
      /\ First \in Nat \ {0}
  BY WhileReading DEF ReadHeader
<1>2. /\ UNCHANGED <<mode, script, arrived, peer, errno, handed>> /\ pc = "reading"
      /\ Ends' = Ends /\ First' = First
  BY SameEnds DEF ReadHeader, peerVars, First
<1>3. InHeader /\ total = First /\ taken = Ends[h] + curr
  BY <1>1 DEF ReadHeader, ReceiveInv, Placed, Progress, InHeader
<1>4. taken' - First = Ends[h] /\ taken' \in 0..arrived'
  <2>1. taken' = taken + (total - curr) /\ total - curr > 0 /\ arrived - taken >= total - curr
    BY DEF ReadHeader, Missing, Available
  <2>2. /\ arrived \in Nat /\ taken \in Nat /\ taken <= arrived /\ arrived' = arrived
        /\ curr \in Nat /\ total \in Nat /\ Ends[h] \in Nat
    BY <1>1, <1>2
  <2>. HIDE DEF h
  <2>. QED
    BY <1>3, <2>1, <2>2
<1>5. CASE /\ Fail
           /\ UNCHANGED <<curr, total, getLength, key>>
  <2>1. up' = FALSE /\ pc' \in {"failed", "gone"} /\ token' = TRUE
    BY <1>5 DEF Fail, Close
  <2>2. ReceiveTypeOK'
    BY <1>1, <1>2, <1>4, <1>5, <2>1 DEF ReceiveInv, ReceiveTypeOK
  <2>3. InHeader' <=> InHeader
    BY <1>2, <1>5 DEF InHeader
  <2>. QED
    BY <1>2, <1>5, <2>1, <2>2, <2>3 DEF ReceiveInv, Alive
<1>6. CASE \E n \in At(taken' - First) : (mode = "stream" => key = taken' - First) /\ BeginBody(n)
  <2>. PICK n \in At(Ends[h]) : (mode = "stream" => key = Ends[h]) /\ BeginBody(n)
    BY <1>4, <1>6
  <2>. DEFINE size == script[n].size
  <2>1. n = h + 1 /\ n \in 1..Len(script) /\ size \in Nat \ {0}
    BY <1>1, NextMessage
  <2>. HIDE DEF size
  <2>2. /\ IF mode = "package" THEN curr' = 0 /\ getLength' = TRUE
                               ELSE curr' = total /\ UNCHANGED getLength
        /\ total' = HeaderLength + size
        /\ key' = IF mode = "stream" THEN key + HeaderLength ELSE key
    BY DEF BeginBody, size
  <2>3. \/ up' = FALSE /\ pc' \in {"failed", "gone"} /\ token' = TRUE
        \/ UNCHANGED <<pc, token, up>>
    BY DEF BeginBody, Fail, Close
  <2>4. HeaderLength \in Nat \ {0} /\ LengthField \in Nat \ {0}
    BY LengthAssumption
  <2>5. total' \in Nat /\ curr' \in 0..total' /\ key' \in Nat
    BY <1>1, <1>3, <2>1, <2>2, <2>4 DEF First
  <2>6. getLength' \in BOOLEAN /\ (mode' # "package" => ~getLength')
    BY <1>2, <2>2 DEF ReceiveInv, ReceiveTypeOK
  <2>7. ReceiveTypeOK'
    BY <1>1, <1>2, <1>4, <2>3, <2>5, <2>6 DEF ReceiveInv, ReceiveTypeOK
  <2>8. ~InHeader'
    BY <1>2, <2>1, <2>2, <2>4 DEF InHeader
  <2>9. taken' = Ends[h] + Progress'
    BY <1>1, <1>2, <1>3, <1>4, <2>2, <2>6 DEF Progress, First
  <2>10. mode = "stream" => key' = Ends[h] + HeaderLength
    BY <2>2
  <2>11. h < Len(script) /\ total' = HeaderLength + script[h + 1].size
    BY <1>1, <2>1, <2>2 DEF size
  <2>12. Placed'
    BY <1>1, <1>2, <2>8, <2>9, <2>10, <2>11 DEF Placed
  <2>. QED
    BY <1>2, <2>3, <2>6, <2>7, <2>8, <2>12 DEF ReceiveInv, Alive
<1>. QED
  BY <1>5, <1>6 DEF ReadHeader

LEMMA BodyStep ==
  ASSUME ReceiveInv, ReadBody \/ ReadSome
  PROVE  ReceiveInv'
<1>. DEFINE h == Len(handed)
<1>1. /\ Placed /\ script \in Scripts
      /\ Len(script) \in Nat /\ h \in 0..Len(script)
      /\ arrived \in 0..Ends[Len(script)] /\ taken \in 0..arrived
      /\ total \in Nat /\ curr \in 0..total /\ key \in Nat
      /\ Ends[Len(script)] \in Nat /\ Ends[h] \in Nat
  BY WhileReading DEF ReadBody, ReadSome
<1>2. /\ UNCHANGED <<mode, script, arrived, peer, errno, handed, total, getLength, key>>
      /\ Ends' = Ends /\ First' = First /\ (InHeader' <=> InHeader)
  BY SameEnds DEF ReadBody, ReadSome, peerVars, First, InHeader
<1>3. pc = "reading" /\ pc' \in {"reading", "waiting", "failed", "gone"} /\ token' \in BOOLEAN
  BY DEF ReadBody, ReadSome, WaitForEvent, Fail, Close, ReceiveInv, ReceiveTypeOK
<1>4. \/ up' = up /\ pc' \in {"reading", "waiting"}
      \/ up' = FALSE
  BY <1>3 DEF ReadBody, ReadSome, WaitForEvent, Fail, Close
<1>5. taken' \in 0..arrived' /\ curr' \in 0..total'
  BY <1>1, <1>2 DEF ReadBody, ReadSome, Missing, Available
<1>6. pc' \in {"reading", "waiting"} => taken' - taken = curr' - curr
  BY <1>1 DEF ReadBody, ReadSome, Missing, Available, Fail, Close
<1>7. ReceiveTypeOK'
  BY <1>1, <1>2, <1>3, <1>4, <1>5 DEF ReceiveInv, ReceiveTypeOK
<1>8. pc' \in {"reading", "waiting"} => Placed'
  <2>. SUFFICES ASSUME pc' \in {"reading", "waiting"} PROVE Placed'
    OBVIOUS
  <2>1. LengthField \in Nat
    BY LengthAssumption
  <2>2. taken' = Ends[h] + Progress'
    <3>. DEFINE before == IF mode = "package" /\ getLength THEN LengthField ELSE 0
    <3>1. before \in Nat /\ Progress = curr + before /\ Progress' = curr' + before
      BY <1>2, <2>1 DEF Progress
    <3>2. taken = Ends[h] + Progress
      BY <1>1 DEF Placed
    <3>3. curr \in Nat /\ curr' \in Nat /\ taken \in Nat /\ taken' \in Nat /\ Ends[h] \in Nat
      BY <1>1, <1>2, <1>5
    <3>. HIDE DEF h, before
    <3>. QED
      BY <1>6, <3>1, <3>2, <3>3
  <2>. QED
    BY <1>1, <1>2, <2>2 DEF Placed
<1>. QED
  BY <1>2, <1>3, <1>4, <1>7, <1>8 DEF ReceiveInv, Alive

\* fetch() of message n.  It is the next one.
LEMMA FetchStep ==
  ASSUME ReceiveInv, NEW n \in 1..Len(script), HandOn(n) \/ NotHandedOn(n)
  PROVE  /\ ReceiveInv'
         /\ n = Len(handed) + 1 /\ n \in Complete
<1>. DEFINE h == Len(handed)
<1>1. /\ Placed /\ script \in Scripts
      /\ Len(script) \in Nat /\ h \in 0..Len(script)
      /\ arrived \in 0..Ends[Len(script)] /\ taken \in 0..arrived
      /\ total \in Nat /\ curr \in 0..total /\ key \in Nat
      /\ Ends[Len(script)] \in Nat /\ Ends[h] \in Nat
      /\ First \in Nat \ {0}
  BY WhileReading DEF HandOn, NotHandedOn, Fetched
<1>2. /\ UNCHANGED <<mode, script, arrived, peer, errno, taken>> /\ pc = "reading"
      /\ Ends' = Ends /\ First' = First
  BY SameEnds DEF HandOn, NotHandedOn, Fetched, peerVars, First
<1>3. /\ ~InHeader /\ Missing = 0
      /\ n \in At(taken - total - (IF mode = "package" THEN LengthField ELSE 0))
      /\ mode = "stream" => key = taken - total + HeaderLength
      /\ key' = IF mode = "stream" THEN key + total - HeaderLength ELSE key
      /\ curr' = 0 /\ total' = First /\ getLength' = FALSE
  BY DEF HandOn, NotHandedOn, Fetched
<1>4. HeaderLength \in Nat \ {0} /\ LengthField \in Nat \ {0}
  BY LengthAssumption
<1>5. curr = total
  BY <1>1, <1>3 DEF Missing
<1>6. taken - total - (IF mode = "package" THEN LengthField ELSE 0) = Ends[h]
  <2>1. mode # "package" => Progress = curr
    BY <1>1 DEF Progress
  <2>2. mode = "package" => Progress = curr + LengthField
    BY <1>3 DEF Progress, InHeader
  <2>3. taken = Ends[h] + Progress
    BY <1>1 DEF Placed
  <2>. QED
    BY <1>1, <1>4, <1>5, <2>1, <2>2, <2>3
<1>7. n = h + 1 /\ script[n].size \in Nat \ {0} /\ Ends[n] = Ends[h] + OnWire(script[n])
  <2>1. n \in At(Ends[h])
    BY <1>3, <1>6
  <2>. QED
    BY <1>1, <2>1, NextMessage
<1>8. total = HeaderLength + script[n].size
  BY <1>1, <1>3, <1>7 DEF Placed
<1>9. Ends[n] = taken
  BY <1>1, <1>4, <1>6, <1>7, <1>8 DEF OnWire
<1>10. key' \in Nat /\ (mode = "stream" => key' = Ends[n])
  <2>1. Ends[n] = Ends[h] + OnWire(script[n])
    BY <1>7
  <2>2. CASE mode = "stream"
    <3>1. key = Ends[h] + HeaderLength /\ key' = key + total - HeaderLength
      <4>1. /\ taken - total - 0 = Ends[h] /\ key = taken - total + HeaderLength
            /\ key' = key + total - HeaderLength
        BY <1>3, <1>6, <2>2
      <4>2. taken \in Nat /\ total \in Nat
        BY <1>1
      <4>. HIDE DEF h
      <4>. QED
        BY <4>1, <4>2
    <3>2. OnWire(script[n]) = total /\ taken = Ends[h] + total
      BY <1>1, <1>4, <1>6, <1>7, <1>8, <2>2 DEF OnWire
    <3>. QED
      BY <1>1, <1>4, <1>9, <3>1, <3>2
  <2>3. CASE mode # "stream"
    BY <1>1, <1>3, <2>3
  <2>. QED
    BY <2>2, <2>3
<1>11. InHeader'
  BY <1>2, <1>3 DEF InHeader, First
<1>12. taken' \in 0..arrived' /\ total' \in Nat /\ curr' \in 0..total'
  BY <1>1, <1>2, <1>3
<1>13. n \in Complete
  BY <1>1, <1>9 DEF Complete
<1>14. CASE HandOn(n)
  <2>1. handed' = Append(handed, n) /\ UNCHANGED <<token, pc, up>>
    BY <1>14 DEF HandOn
  <2>2. handed \in Seq(1..Len(script))
    BY DEF ReceiveInv, ReceiveTypeOK
  <2>3. handed' \in Seq(1..Len(script)) /\ Len(handed') = n
    BY <1>7, <2>1, <2>2
  <2>4. handed' = [i \in DOMAIN handed' |-> i]
    BY <1>1, <1>7, <2>1, <2>2 DEF Placed
  <2>5. ReceiveTypeOK'
    BY <1>2, <1>3, <1>10, <1>12, <2>1, <2>3 DEF ReceiveInv, ReceiveTypeOK
  <2>6. Progress' = 0
    BY <1>3 DEF Progress
  <2>7. Placed'
    BY <1>1, <1>2, <1>9, <1>10, <1>11, <2>3, <2>4, <2>6 DEF Placed
  <2>8. ReceiveInv'
    BY <1>2, <1>3, <1>11, <2>1, <2>5, <2>7 DEF ReceiveInv, Alive
  <2>. QED
    BY <1>7, <1>13, <2>8
<1>15. CASE NotHandedOn(n)
  <2>1. up' = FALSE /\ pc' \in {"failed", "gone"} /\ token' = TRUE /\ handed' = handed
    BY <1>15 DEF NotHandedOn, Fail, Close
  <2>2. ReceiveTypeOK'
    BY <1>2, <1>3, <1>10, <1>12, <2>1 DEF ReceiveInv, ReceiveTypeOK
  <2>3. ReceiveInv'
    BY <1>2, <1>3, <1>11, <2>1, <2>2 DEF ReceiveInv, Alive
  <2>. QED
    BY <1>7, <1>13, <2>3
<1>. QED
  BY <1>14, <1>15

LEMMA ReceiveStep ==
  ASSUME ReceiveInv, [Next]_vars
  PROVE  ReceiveInv'
<1>. USE DEF ReceiveInv, ReceiveTypeOK
<1>1. CASE Environment
  <2>1. CASE Arrive
    <3>1. /\ UNCHANGED <<mode, script, peer, errno, token, pc, bufferVars, up>>
          /\ arrived' \in arrived..Ends[Len(script)]
      <4>1. script \in Scripts /\ Len(script) \in Nat
        BY LimitAssumption
      <4>2. Ends[Len(script)] \in Nat /\ arrived \in Nat
        BY <4>1, EndsGrow
      <4>. QED
        BY <2>1, <4>2 DEF Arrive
    <3>. QED
      BY <3>1, NothingRead DEF Alive
  <2>2. CASE PeerEnds \/ AllowReceiving \/ ServeOthers \/ CloseByOther
    <3>1. /\ UNCHANGED <<mode, script, arrived, bufferVars>>
          /\ peer' \in {"open", "fin", "reset"} /\ errno' \in {"none", "again", "other"}
          /\ token' \in BOOLEAN /\ up' \in BOOLEAN
          /\ pc' = pc \/ (pc = "connecting" /\ pc' = "waiting")
          /\ up' = up \/ up' = FALSE
      BY <2>2 DEF PeerEnds, AllowReceiving, ServeOthers, CloseByOther, peerVars
    <3>. QED
      BY <3>1, NothingRead DEF Alive
  <2>. QED
    BY <1>1, <2>1, <2>2 DEF Environment
<1>2. CASE Event \/ ReadNothing \/ ReadEnd \/ ReadReset
  <2>1. /\ UNCHANGED <<mode, script, arrived, peer, bufferVars>>
        /\ errno' \in {"none", "again", "other"}
        /\ token' \in BOOLEAN /\ pc \in {"waiting", "reading"}
        /\ \/ up' = up /\ pc' \in {"waiting", "reading"}
           \/ up' = FALSE /\ pc' \in {"closed", "failed", "gone"}
    BY <1>2 DEF Event, ReadNothing, ReadEnd, ReadReset, WaitForEvent, Fail, Close, peerVars
  <2>. QED
    BY <2>1, NothingRead DEF Alive
<1>3. CASE ReadHeader \/ ReadBody \/ ReadSome
  BY <1>3, HeaderStep, BodyStep
<1>4. CASE Deliver
  BY <1>4, FetchStep DEF Deliver, DeliverQuest, DeliverAnswer, DeliverNothing
<1>5. CASE \E n \in 1..Limit :
             (Q!Handler(n) \/ Q!Task(n) \/ Q!AsyncAnswer(n)) /\ BesideReading
  <2>1. UNCHANGED <<mode, script, arrived, peer, errno, token, pc, bufferVars>>
    BY <1>5 DEF BesideReading, peerVars
  <2>2. up' = up \/ up' = FALSE
    BY <1>5 DEF Q!Handler, Q!Advance, Q!GenAsync, Q!Task, Q!Begin, Q!Conclude,
       Q!FatalClose, Q!AsyncAnswer, Q!AsyncSend, Q!AsyncRelease
  <2>. QED
    <3>1. up \in BOOLEAN /\ (up => Alive)
      OBVIOUS
    <3>2. pc' = pc /\ (Alive' <=> Alive)
      BY <2>1 DEF Alive
    <3>3. CASE up' = up
      BY <2>1, <3>1, <3>2, <3>3, NothingRead
    <3>4. CASE up' = FALSE
      BY <2>1, <3>1, <3>2, <3>4, NothingRead
    <3>. QED
      BY <2>2, <3>3, <3>4
<1>6. CASE UNCHANGED vars
  BY <1>6, NothingRead DEF vars, receiveVars, peerVars, Alive
<1>. QED
  BY <1>1, <1>2, <1>3, <1>4, <1>5, <1>6 DEF Next, ReadCall

\* The invariant of the receiver, for any streams and however the bytes come.
THEOREM ReceiveInvariant == Safety => []ReceiveInv
  BY ReceiveInvInit, ReceiveStep, PTL DEF Safety

\* The receiver and the quests have their types.
THEOREM TypeCorrect == Safety => []TypeOK
<1>1. IInv /\ ReceiveInv => TypeOK
  BY DEF IInv, SideTypes, Number, ReceiveInv, TypeOK, Q!QuestTypeOK, Q!Stage
<1>. QED
  BY <1>1, Invariant, ReceiveInvariant, PTL

\* However the network, EAGAIN and stale error numbers cut the stream, a receiver
\* of a connection that is up knows where it is in the stream.
THEOREM ReceiverInStep == Safety => []InStep
<1>1. ReceiveInv => InStep
  BY DEF ReceiveInv, Placed, InStep
<1>. QED
  BY <1>1, ReceiveInvariant, PTL

-----------------------------------------------------------------------------
(* The contract with the peer *)

LEMMA SameComplete == UNCHANGED <<mode, script, arrived>> => Complete' = Complete
  BY SameEnds DEF Complete

\* No more messages can have arrived than the peer may send.
LEMMA CountMessages ==
  ASSUME script \in Scripts, NEW S \in SUBSET (1..Len(script))
  PROVE  /\ IsFiniteSet(S) /\ Cardinality(S) \in 0..Limit
         /\ Len(script) \in 0..Limit /\ Limit \in Nat
<1>1. Len(script) \in 0..Limit /\ Limit \in Nat
  BY LimitAssumption
<1>2. IsFiniteSet(1..Limit) /\ Cardinality(1..Limit) = Limit
  <2>1. 1 \in Int /\ Limit \in Int /\ (1 > Limit => Limit = 0) /\ Limit - 1 + 1 = Limit
    BY <1>1
  <2>. QED
    BY <2>1, FS_Interval
<1>3. S \subseteq 1..Limit
  BY <1>1
<1>4. IsFiniteSet(S) /\ Cardinality(S) <= Limit
  BY <1>2, <1>3, FS_Subset
<1>5. Cardinality(S) \in Nat
  BY <1>4, FS_CardinalityType
<1>. QED
  BY <1>1, <1>4, <1>5

LEMMA CompleteFinite ==
  ASSUME IInv
  PROVE  /\ IsFiniteSet(Complete) /\ Cardinality(Complete) \in 0..Limit
         /\ Complete \subseteq 1..Len(script) /\ Len(script) \in 0..Limit /\ Limit \in Nat
<1>1. Complete \in SUBSET (1..Len(script)) /\ script \in Scripts
  BY DEF IInv, Complete
<1>. QED
  BY <1>1, CountMessages

\* If message n has arrived, those before it have.
LEMMA CompleteUpTo ==
  ASSUME IInv, NEW n \in Complete, arrived \in Nat
  PROVE  n <= Cardinality(Complete)
<1>1. n \in 1..Len(script) /\ Len(script) \in Nat /\ script \in Scripts /\ Ends[n] <= arrived
  BY CompleteFinite DEF Complete, IInv
<1>2. ASSUME NEW i \in 1..n PROVE i \in Complete
  <2>1. i \in 1..Len(script) /\ (i = n \/ i < n) /\ i \in 0..Len(script) /\ n \in 0..Len(script)
    BY <1>1
  <2>2. Ends[i] \in Nat /\ Ends[n] \in Nat /\ (i < n => Ends[i] < Ends[n])
    BY <1>1, <2>1, EndsGrow
  <2>. QED
    BY <1>1, <2>1, <2>2 DEF Complete
<1>3. 1..n \subseteq Complete /\ Cardinality(1..n) = n
  BY <1>1, <1>2, FS_Interval
<1>. QED
  BY <1>3, CompleteFinite, FS_Subset

LEMMA ContractInit == Init => Contract!Init
<1>. SUFFICES ASSUME Init PROVE Contract!Init
  OBVIOUS
<1>1. script \in Scripts /\ arrived = 0 /\ Len(script) \in Nat
  BY LimitAssumption DEF Init, ReceiveInit
<1>2. Complete = {}
  <2>1. ASSUME NEW n \in 1..Len(script) PROVE ~(Ends[n] <= arrived)
    <3>1. 0 \in 0..Len(script) /\ n \in 0..Len(script) /\ 0 < n
      BY <1>1
    <3>2. Ends[0] = 0 /\ Ends[n] \in Nat /\ Ends[0] < Ends[n]
      BY <1>1, <3>1, EndsGrow
    <3>. QED
      BY <1>1, <3>2
  <2>. QED
    BY <2>1 DEF Complete
<1>3. Cardinality(Complete) = 0 /\ Len(handed) = 0
  BY <1>2, FS_EmptySet DEF Init, ReceiveInit
<1>. QED
  BY <1>3 DEF Init, ReceiveInit, Q!QuestInit, Contract!Init

\* More bytes may complete messages.
LEMMA ArriveRefines ==
  ASSUME IInv, ReceiveInv, Arrive, UNCHANGED sideVars
  PROVE  [Contract!Next]_(Contract!vars)
<1>1. Complete \subseteq Complete'
  <2>1. Ends' = Ends /\ script' = script /\ arrived' > arrived
    <3>1. arrived \in Nat
      <4>1. Ends[Len(script)] \in Nat
        BY LimitAssumption, EndsGrow DEF IInv
      <4>. QED
        BY <4>1 DEF ReceiveInv, ReceiveTypeOK
    <3>2. \E k \in Nat \ {0} : arrived' = arrived + k
      BY DEF Arrive
    <3>. QED
      BY <3>1, <3>2, SameEnds DEF Arrive
  <2>2. arrived \in Nat /\ \A n \in 1..Len(script) : Ends[n] \in Nat
    BY LimitAssumption, EndsGrow DEF IInv, ReceiveInv, ReceiveTypeOK
  <2>3. arrived' \in Nat
    <3>1. \E k \in Nat \ {0} : arrived' = arrived + k
      BY DEF Arrive
    <3>. QED
      BY <2>2, <3>1
  <2>4. ASSUME NEW n \in 1..Len(script), Ends[n] <= arrived PROVE Ends[n] <= arrived'
    BY <2>1, <2>2, <2>3, <2>4
  <2>5. Complete' = {n \in 1..Len(script) : Ends[n] <= arrived'}
    BY <2>1 DEF Complete
  <2>. QED
    BY <2>4, <2>5 DEF Complete
<1>2. IsFiniteSet(Complete') /\ Cardinality(Complete') \in 0..Limit
  <2>1. script \in Scripts /\ script' = script
    BY DEF IInv, Arrive
  <2>. DEFINE S == Complete'
  <2>2. S \in SUBSET (1..Len(script))
    BY <2>1 DEF Complete
  <2>. HIDE DEF S
  <2>3. IsFiniteSet(S) /\ Cardinality(S) \in 0..Limit
    BY <2>1, <2>2, CountMessages
  <2>. QED
    BY <2>3 DEF S
<1>3. Cardinality(Complete) \in 0..Limit /\ Limit \in Nat
  BY CompleteFinite
<1>4. Cardinality(Complete) <= Cardinality(Complete')
  BY <1>1, <1>2, FS_Subset
<1>5. \/ Cardinality(Complete') = Cardinality(Complete)
      \/ Cardinality(Complete') \in Cardinality(Complete) + 1..Limit
  BY <1>2, <1>3, <1>4
<1>. QED
  BY <1>5 DEF Arrive, bufferVars, sideVars, Contract!Next, Contract!Arrive, Contract!vars

\* Steps that the peer does not see, or sees as the end of the connection.
LEMMA UnseenRefines ==
  ASSUME UNCHANGED <<mode, script, arrived, handed, twoWay, answers, lost>>,
         up' = up \/ up' = FALSE
  PROVE  [Contract!Next]_(Contract!vars)
<1>1. Complete' = Complete
  BY SameComplete
<1>. QED
  BY <1>1 DEF Contract!Next, Contract!GoDown, Contract!vars

\* A message is dealt with.
LEMMA DeliverRefines ==
  ASSUME IInv, ReceiveInv, Deliver
  PROVE  [Contract!Next]_(Contract!vars)
<1>1. PICK n \in 1..Len(script) : DeliverQuest(n) \/ DeliverAnswer(n) \/ DeliverNothing(n)
  BY DEF Deliver
<1>2. HandOn(n) \/ NotHandedOn(n)
  BY <1>1 DEF DeliverQuest, DeliverAnswer, DeliverNothing
<1>3. n = Len(handed) + 1 /\ n \in Complete
  BY <1>2, FetchStep
<1>4. UNCHANGED <<mode, script, arrived>>
  BY <1>2 DEF HandOn, NotHandedOn, Fetched, peerVars
<1>5. handed \in Seq(1..Len(script)) /\ n \in Number
  BY Numbered DEF ReceiveInv, ReceiveTypeOK, IInv
<1>6. CASE DeliverNothing(n)
  <2>1. UNCHANGED <<handed, sideVars>> /\ up' = FALSE
    BY <1>6 DEF DeliverNothing, NotHandedOn, Fail, Close
  <2>. QED
    BY <1>4, <2>1, UnseenRefines DEF sideVars
<1>7. CASE DeliverQuest(n) \/ DeliverAnswer(n)
  <2>1. handed' = Append(handed, n) /\ up' = up
    BY <1>7 DEF DeliverQuest, DeliverAnswer, HandOn
  <2>2. Len(handed') = n /\ Len(handed') = Len(handed) + 1
    BY <1>3, <1>5, <2>1
  <2>3. Complete' = Complete
    BY <1>4, SameComplete
  <2>4. Len(handed) < Cardinality(Complete)
    <3>1. arrived \in Nat
      <4>1. Ends[Len(script)] \in Nat
        BY LimitAssumption, EndsGrow DEF IInv
      <4>. QED
        BY <4>1 DEF ReceiveInv, ReceiveTypeOK
    <3>2. n <= Cardinality(Complete) /\ Cardinality(Complete) \in Nat /\ Len(handed) \in Nat
      BY <1>3, <1>5, <3>1, CompleteUpTo, CompleteFinite
    <3>. QED
      BY <1>3, <3>2
  <2>5. \/ UNCHANGED <<twoWay, answers, lost>>
        \/ twoWay' = twoWay \cup {n} /\ UNCHANGED <<answers, lost>>
        \/ /\ twoWay' = twoWay \cup {n}
           /\ \/ answers' = [answers EXCEPT ![n] = 1] /\ UNCHANGED lost
              \/ lost' = lost \cup {n} /\ UNCHANGED answers
    <3>1. CASE DeliverAnswer(n)
      BY <3>1 DEF DeliverAnswer, sideVars
    <3>2. CASE DeliverQuest(n)
      <4>1. Q!Deal(n, script[n].what = "twoWay")
        BY <3>2 DEF DeliverQuest
      <4>2. answers[n] = 0
        BY <1>5, <4>1 DEF IInv, OneRight, Q!Deal
      <4>. QED
        BY <4>1, <4>2 DEF Q!Deal, Q!Move, Q!Answer, Q!Lose
    <3>. QED
      BY <1>7, <3>1, <3>2
  <2>6. Contract!Deal
    BY <2>1, <2>2, <2>3, <2>4, <2>5 DEF Contract!Deal
  <2>. QED
    BY <2>6 DEF Contract!Next
<1>. QED
  BY <1>1, <1>6, <1>7

\* A quest is answered, its answer gets lost, or nobody sees what happens.
LEMMA QuestRefines ==
  ASSUME IInv, NEW n \in Number, Q!Handler(n) \/ Q!Task(n) \/ Q!AsyncAnswer(n), BesideReading
  PROVE  [Contract!Next]_(Contract!vars)
<1>1. UNCHANGED <<mode, script, arrived, handed>>
  BY DEF BesideReading, peerVars, bufferVars
<1>2. Complete' = Complete
  BY <1>1, SameComplete
<1>3. /\ n \notin twoWay => async[n] = "none"
      /\ n \in twoWay => Rights(n) \in {0, 1}
      /\ n \in answered => stage[n] = "running"
      /\ answers \in [Number -> Nat]
  BY DEF IInv, SideTypes, OneRight
<1>4. CASE UNCHANGED <<twoWay, answers, lost>> /\ (up' = up \/ up' = FALSE)
  BY <1>1, <1>4, UnseenRefines
<1>5. CASE Q!Answer(n) /\ UNCHANGED <<twoWay, up>> /\ n \in twoWay \ lost /\ answers[n] = 0
  <2>1. Contract!Answer(n)
    BY <1>1, <1>2, <1>3, <1>5 DEF Q!Answer, Contract!Answer, Contract!May
  <2>. QED
    BY <2>1 DEF Contract!Next, Number
<1>6. CASE Q!Lose(n) /\ UNCHANGED <<twoWay, up>> /\ n \in twoWay \ lost /\ answers[n] = 0
  <2>1. Contract!Lose(n)
    BY <1>1, <1>2, <1>3, <1>6 DEF Q!Lose, Contract!Lose, Contract!May
  <2>. QED
    BY <2>1 DEF Contract!Next, Number
<1>7. ASSUME n \in twoWay, (stage[n] = "running" /\ n \notin answered) \/ async[n] = "held"
      PROVE  n \notin lost /\ answers[n] = 0
  BY <1>3, <1>7 DEF Rights
<1>8. CASE Q!Handler(n)
  BY <1>4, <1>5, <1>7, <1>8 DEF Q!Handler, Q!Advance, Q!GenAsync
<1>9. CASE Q!Task(n)
  BY <1>4, <1>5, <1>7, <1>9 DEF Q!Task, Q!Begin, Q!Conclude, Q!FatalClose
<1>10. CASE Q!AsyncAnswer(n)
  BY <1>3, <1>4, <1>5, <1>6, <1>7, <1>10 DEF Q!AsyncAnswer, Q!AsyncSend, Q!AsyncRelease
<1>. QED
  BY <1>8, <1>9, <1>10

LEMMA Refines ==
  ASSUME IInv, ReceiveInv, [Next]_vars
  PROVE  [Contract!Next]_(Contract!vars)
<1>1. CASE Arrive /\ UNCHANGED sideVars
  BY <1>1, ArriveRefines
<1>2. CASE /\ PeerEnds \/ AllowReceiving \/ ServeOthers \/ CloseByOther \/ Event \/ ReadCall
           /\ UNCHANGED sideVars
  <2>1. UNCHANGED <<mode, script, arrived, handed>> /\ (up' = up \/ up' = FALSE)
    BY <1>2 DEF PeerEnds, AllowReceiving, ServeOthers, CloseByOther, Event, ReadCall,
       ReadHeader, BeginBody, ReadBody, ReadSome, ReadNothing, ReadEnd, ReadReset,
       WaitForEvent, Fail, Close, peerVars, bufferVars
  <2>. QED
    BY <1>2, <2>1, UnseenRefines DEF sideVars
<1>3. CASE Deliver
  BY <1>3, DeliverRefines
<1>4. CASE \E n \in 1..Limit :
             (Q!Handler(n) \/ Q!Task(n) \/ Q!AsyncAnswer(n)) /\ BesideReading
  BY <1>4, QuestRefines DEF Number
<1>5. CASE UNCHANGED vars
  BY <1>5, UnseenRefines DEF vars, receiveVars, peerVars, bufferVars
<1>. QED
  BY <1>1, <1>2, <1>3, <1>4, <1>5 DEF Next, Environment

\* From bytes to answers: what the peer sees of the client is what AnswerContract
\* allows, in any stream, however it is cut, and whatever the handlers do.
THEOREM ImplementsContract == Safety => Contract!Safety
  BY ContractInit, Refines, Invariant, ReceiveInvariant, PTL DEF Safety, Contract!Safety

==============================================================================
