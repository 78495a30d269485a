-------------------------- MODULE SendBufferProofs --------------------------
(***************************************************************************)
(* Proofs about SendBuffer, for any set of packages and senders.           *)
(*                                                                         *)
(* The token argument: the token lies there exactly when the connected     *)
(* event has been handled and nobody is writing.  So the writer may rely   *)
(* on the current package, and a thread that finds no token may leave its  *)
(* package to the writer.                                                  *)
(***************************************************************************)
EXTENDS SendBuffer, SequenceTheorems, TLAPS

TokenInv ==
  /\ \A t, u \in Thread : Sending(t) /\ Sending(u) => t = u
  /\ \A t \in Thread : Sending(t) => ~token /\ pc["event"] # "idle"
  /\ \A t \in Thread : pc[t] = "write" => curr # None
  /\ pc["event"] = "idle" => ~token
  /\ ~token => pc["event"] = "idle" \/ \E t \in Thread : Sending(t)
  /\ \A t \in Thread : pc[t] = "allowed" => t = "event"

\* One for the current package, if there is one.
InHand == IF curr = None THEN 0 ELSE 1

\* StreamInOrder, element by element.
StreamInv ==
  /\ Len(accepted) = sentPackage + InHand + Len(queue)
  /\ curr # None => curr = accepted[sentPackage + 1]
  /\ \A i \in 1..Len(queue) : queue[i] = accepted[sentPackage + InHand + i]
  /\ curr = None => offset = 0
  /\ Len(wire) = 2 * sentPackage + offset
  /\ \A i \in 1..Len(wire) :
       /\ wire[i].package = accepted[(i + 1) \div 2]
       /\ wire[i].part = 2 - (i % 2)

\* Where the key exchange can be, and how the current package is written.
KeyInv ==
  /\ \A i \in 1..Len(accepted) : accepted[i] = Key <=> encryptor /\ i = 1
  /\ encryptor => Len(accepted) > 0
  /\ curr # None => (cipher <=> encryptor /\ curr # Key)

-----------------------------------------------------------------------------
(* Type correctness and the token *)

LEMMA TokenInit == Init => TypeOK /\ TokenInv
<1> SUFFICES ASSUME Init PROVE TypeOK /\ TokenInv
  OBVIOUS
<1>1. queue \in Seq(Package)
  <2>1. Key \in Package
    BY DEF Package
  <2>2. <<Key>> \in Seq(Package) /\ <<>> \in Seq(Package)
    BY <2>1
  <2>. QED
    BY <2>2 DEF Init
<1>2. pc \in [Thread -> Pc]
  BY DEF Init, Pc
<1>3. TypeOK
  <2>1. accepted \in Seq(Package) /\ wire \in Seq(Piece)
    BY <1>1 DEF Init
  <2>2. /\ token \in BOOLEAN /\ cipher \in BOOLEAN /\ encryptor \in BOOLEAN
        /\ want \in BOOLEAN /\ broken \in BOOLEAN
    BY DEF Init
  <2>3. curr \in Package \cup {None} /\ offset \in 0..1 /\ sentPackage \in Nat
    BY DEF Init
  <2>. QED
    BY <1>1, <1>2, <2>1, <2>2, <2>3 DEF TypeOK
<1>4. TokenInv
  BY DEF Init, TokenInv, Sending, Thread
<1>. QED
  BY <1>3, <1>4

\* What a thread that takes the token, or finds it gone, does to the threads.
LEMMA GetTokenStep ==
  ASSUME TypeOK, TokenInv, NEW t \in Thread, ~Sending(t),
         pc["event"] = "idle" => t # "event",
         GetToken(t), curr' = curr
  PROVE  /\ token' \in BOOLEAN /\ pc' \in [Thread -> Pc]
         /\ TokenInv'
<1>1. t = "loop" \/ t # "loop"
  OBVIOUS
<1>2. CASE token
  <2>1. token' = FALSE /\ pc' = [pc EXCEPT ![t] = "fetch"]
    BY <1>2 DEF GetToken
  <2>2. \A u \in Thread : ~Sending(u)
    BY <1>2 DEF TokenInv
  <2>3. pc["event"] # "idle"
    BY <1>2 DEF TokenInv
  <2>. QED
    BY <2>1, <2>2, <2>3 DEF TypeOK, TokenInv, Sending, Thread, Pc
<1>3. CASE ~token
  <2>1. /\ token' = token
        /\ pc' = [pc EXCEPT ![t] = IF t = "loop" THEN "idle" ELSE "done"]
    BY <1>3 DEF GetToken, Leave
  <2>. QED
    BY <2>1, <1>3 DEF TypeOK, TokenInv, Sending, Thread, Pc
<1>. QED
  BY <1>2, <1>3

\* A step that neither takes nor returns the token keeps it where it is.
LEMMA TokenStep == TypeOK /\ TokenInv /\ [Next]_vars => TypeOK' /\ TokenInv'
<1>. SUFFICES ASSUME TypeOK, TokenInv, [Next]_vars
              PROVE  TypeOK' /\ TokenInv'
  OBVIOUS
<1>a. None \notin Package /\ Msg \subseteq Package /\ Msg \subseteq Thread
  BY KeyAssumption DEF Package, Thread
<1>b. "loop" \in Thread /\ "event" \in Thread
  BY DEF Thread
<1>1. ASSUME NEW m \in Msg, Send(m)
      PROVE  TypeOK' /\ TokenInv'
  <2>1. m \in Thread /\ ~Sending(m) /\ m # "event"
    BY <1>1, <1>a, ThreadAssumption DEF Send, Sending
  <2>2. GetToken(m) /\ curr' = curr
    BY <1>1 DEF Send
  <2>3. token' \in BOOLEAN /\ pc' \in [Thread -> Pc] /\ TokenInv'
    BY <2>1, <2>2, GetTokenStep
  <2>4. queue' \in Seq(Package) /\ accepted' \in Seq(Package)
    BY <1>1, <1>a DEF Send, TypeOK
  <2>. QED
    BY <1>1, <2>3, <2>4 DEF Send, TypeOK
<1>2. CASE SendEvent
  <2>1. ~Sending("loop")
    BY <1>2 DEF SendEvent, Sending
  <2>2. token' \in BOOLEAN /\ pc' \in [Thread -> Pc] /\ TokenInv'
    BY <1>2, <1>b, <2>1, GetTokenStep DEF SendEvent
  <2>. QED
    BY <1>2, <2>2 DEF SendEvent, TypeOK
<1>3. CASE AllowSending
  <2>1. TypeOK'
    BY <1>3 DEF AllowSending, TypeOK, Pc
  <2>2. TokenInv'
    BY <1>3, <1>b DEF AllowSending, TypeOK, TokenInv, Sending, Pc
  <2>. QED
    BY <2>1, <2>2
<1>4. CASE SendQueued
  <2>1. ~Sending("event") /\ pc["event"] # "idle"
    BY <1>4 DEF SendQueued, Sending
  <2>2. token' \in BOOLEAN /\ pc' \in [Thread -> Pc] /\ TokenInv'
    BY <1>4, <1>b, <2>1, GetTokenStep DEF SendQueued
  <2>. QED
    BY <1>4, <2>2 DEF SendQueued, TypeOK
<1>5. ASSUME NEW t \in Thread, Fetch(t)
      PROVE  TypeOK' /\ TokenInv'
  <2>1. CASE curr # None
    <3>1. /\ pc' = [pc EXCEPT ![t] = "write"]
          /\ pc[t] = "fetch"
          /\ UNCHANGED <<bufferVars, want, broken, accepted, wire>>
      BY <1>5, <2>1 DEF Fetch
    <3>. QED
      BY <3>1, <2>1, <1>b DEF bufferVars, TypeOK, TokenInv, Sending, Pc
  <2>2. CASE curr = None /\ queue # <<>>
    <3>1. /\ curr' = Head(queue) /\ queue' = Tail(queue) /\ offset' = 0
          /\ cipher' = Encrypted /\ pc' = [pc EXCEPT ![t] = "write"]
          /\ UNCHANGED <<token, sentPackage, encryptor, want, broken, accepted, wire>>
      BY <1>5, <2>2 DEF Fetch
    <3>2. Head(queue) \in Package /\ Tail(queue) \in Seq(Package)
      BY <2>2 DEF TypeOK
    <3>3. Encrypted \in BOOLEAN
      BY DEF Encrypted, TypeOK
    <3>4. TypeOK'
      BY <3>1, <3>2, <3>3 DEF TypeOK, Pc
    <3>5. TokenInv'
      BY <1>5, <3>1, <3>2, <1>a, <1>b DEF Fetch, TypeOK, TokenInv, Sending, Pc
    <3>. QED
      BY <3>4, <3>5
  <2>3. CASE curr = None /\ queue = <<>>
    <3>1. /\ token' = TRUE
          /\ pc' = [pc EXCEPT ![t] = IF t = "loop" THEN "idle" ELSE "done"]
          /\ UNCHANGED <<queue, curr, offset, cipher, sentPackage, encryptor, want,
                         broken, accepted, wire>>
      BY <1>5, <2>3 DEF Fetch, Leave
    <3>2. pc[t] = "fetch"
      BY <1>5 DEF Fetch
    <3>. QED
      BY <3>1, <3>2, <1>b DEF TypeOK, TokenInv, Sending, Pc
  <2>. QED
    BY <2>1, <2>2, <2>3
<1>6. ASSUME NEW t \in Thread, Write(t)
      PROVE  TypeOK' /\ TokenInv'
  <2>1. curr \in Package /\ pc[t] = "write"
    BY <1>6 DEF Write, TypeOK, TokenInv
  <2>2. wire' \in Seq(Piece)
    BY <1>6, <2>1 DEF Write, TypeOK, Piece
  <2>3. TypeOK'
    <3>1. CASE offset = 0
      BY <1>6, <2>2, <3>1 DEF Write, TypeOK
    <3>2. CASE offset # 0
      BY <1>6, <2>2, <3>2 DEF Write, TypeOK, Pc
    <3>. QED
      BY <3>1, <3>2
  <2>4. TokenInv'
    BY <1>6, <2>1, <1>b DEF Write, TypeOK, TokenInv, Sending, Pc
  <2>. QED
    BY <2>3, <2>4
<1>7. ASSUME NEW t \in Thread, SocketFull(t)
      PROVE  TypeOK' /\ TokenInv'
  BY <1>7, <1>b DEF SocketFull, TypeOK, TokenInv, Sending, Pc
<1>8. ASSUME NEW t \in Thread, SocketError(t)
      PROVE  TypeOK' /\ TokenInv'
  BY <1>8, <1>b DEF SocketError, Leave, TypeOK, TokenInv, Sending, Pc
<1>9. ASSUME NEW t \in Thread, WaitForSendEvent(t)
      PROVE  TypeOK' /\ TokenInv'
  BY <1>9, <1>b DEF WaitForSendEvent, bufferVars, Leave, TypeOK, TokenInv, Sending, Pc
<1>10. CASE UNCHANGED vars
  BY <1>10 DEF vars, bufferVars, TypeOK, TokenInv, Sending
<1>. QED
  BY <1>1, <1>2, <1>3, <1>4, <1>5, <1>6, <1>7, <1>8, <1>9, <1>10
  DEF Next, RealSend

\* The variables keep their types and the token invariant holds.
LEMMA TokenCorrect == Safety => [](TypeOK /\ TokenInv)
<1>. QED
  BY TokenInit, TokenStep, PTL DEF Safety

\* The variables of the send buffer keep their types: the thread that writes has
\* a package to write.
THEOREM TypeCorrect == Safety => []TypeOK
<1>. QED
  BY TokenCorrect, PTL

\* Of the application threads, the loop thread and the connected event, one at a
\* time writes to the socket, however they hand the token to each other, and
\* nobody before the connected event has been handled.
THEOREM OnlyOneSends == Safety => []OneSender
<1>1. TokenInv => OneSender
  BY DEF TokenInv, OneSender
<1>. QED
  BY <1>1, TokenCorrect, PTL

-----------------------------------------------------------------------------
(* Nothing stays behind *)

\* Whoever finds no token leaves the data to the one who has it; whoever returns
\* the token has written everything, or waits for the socket.
LEMMA StuckStep ==
  TypeOK /\ TokenInv /\ NothingStuck /\ [Next]_vars => NothingStuck'
<1>. SUFFICES ASSUME TypeOK, TokenInv, NothingStuck, [Next]_vars
              PROVE  NothingStuck'
  OBVIOUS
<1> DEFINE Busy == \E t \in Thread : pc[t] \in {"fetch", "write", "full"}
<1>a. "loop" \in Thread /\ "event" \in Thread /\ Msg \subseteq Thread
  BY DEF Thread
<1>b. ASSUME NEW t \in Thread, GetToken(t), ~(pc[t] \in {"fetch", "write", "full"}),
             pc["event"] = "idle" => t # "event"
      PROVE  Busy' \/ pc'["event"] \in {"idle", "allowed"}
  <2>1. CASE token
    <3>1. pc'[t] = "fetch"
      BY <1>b, <2>1 DEF GetToken, TypeOK
    <3>. QED
      BY <3>1
  <2>2. CASE ~token /\ pc["event"] = "idle"
    <3>1. pc'["event"] = pc["event"]
      BY <1>b, <2>2, <1>a DEF GetToken, Leave, TypeOK
    <3>. QED
      BY <2>2, <3>1
  <2>3. CASE ~token /\ \E u \in Thread : Sending(u)
    <3>1. PICK u \in Thread : Sending(u)
      BY <2>3
    <3>2. pc'[u] = pc[u]
      BY <1>b, <2>3, <3>1 DEF GetToken, Leave, TypeOK, Sending
    <3>. QED
      BY <3>1, <3>2 DEF Sending
  <2>. QED
    BY <2>1, <2>2, <2>3 DEF TokenInv
<1>1. ASSUME NEW m \in Msg, Send(m)
      PROVE  Busy' \/ pc'["event"] \in {"idle", "allowed"}
  <2>1. m # "event" /\ m \in Thread
    BY <1>a, ThreadAssumption
  <2>. QED
    BY <1>1, <1>b, <2>1 DEF Send
<1>2. ASSUME SendEvent
      PROVE  Busy' \/ pc'["event"] \in {"idle", "allowed"}
  BY <1>2, <1>a, <1>b DEF SendEvent
<1>3. ASSUME AllowSending
      PROVE  pc'["event"] \in {"idle", "allowed"}
  BY <1>3, <1>a DEF AllowSending, TypeOK
<1>4. ASSUME SendQueued
      PROVE  Busy' \/ pc'["event"] \in {"idle", "allowed"}
  BY <1>4, <1>a, <1>b DEF SendQueued
<1>5. ASSUME NEW t \in Thread, Fetch(t)
      PROVE  NothingStuck'
  <2>1. CASE curr # None \/ queue # <<>>
    <3>1. pc'[t] = "write"
      BY <1>5, <2>1 DEF Fetch, TypeOK
    <3>. QED
      BY <3>1 DEF NothingStuck
  <2>2. CASE curr = None /\ queue = <<>>
    <3>1. curr' = None /\ queue' = <<>>
      BY <1>5, <2>2 DEF Fetch
    <3>. QED
      BY <3>1 DEF NothingStuck, Left
  <2>. QED
    BY <2>1, <2>2
<1>6. ASSUME NEW t \in Thread, Write(t)
      PROVE  Busy'
  <2>1. pc'[t] \in {"write", "fetch"}
    BY <1>6 DEF Write, TypeOK
  <2>. QED
    BY <2>1
<1>7. ASSUME NEW t \in Thread, SocketFull(t)
      PROVE  Busy'
  <2>1. pc'[t] = "full"
    BY <1>7 DEF SocketFull, TypeOK
  <2>. QED
    BY <2>1
<1>8. ASSUME NEW t \in Thread, SocketError(t)
      PROVE  broken'
  BY <1>8 DEF SocketError
<1>9. ASSUME NEW t \in Thread, WaitForSendEvent(t)
      PROVE  want'
  BY <1>9 DEF WaitForSendEvent
<1>10. CASE UNCHANGED vars
  BY <1>10 DEF vars, bufferVars, NothingStuck, Left
<1>11. Busy' \/ pc'["event"] \in {"idle", "allowed"} \/ broken' \/ want' => NothingStuck'
  BY DEF NothingStuck
<1> HIDE DEF Busy
<1>. QED
  BY <1>1, <1>2, <1>3, <1>4, <1>5, <1>6, <1>7, <1>8, <1>9, <1>10, <1>11
  DEF Next, RealSend

\* Data does not stay behind in the send buffer: as long as there is some, somebody
\* writes or the engine is asked to wait for the socket, until the socket breaks.
THEOREM NothingStaysBehind == Safety => []NothingStuck
<1>1. Init => NothingStuck
  BY DEF Init, NothingStuck, Thread
<1>. QED
  BY <1>1, StuckStep, TokenCorrect, PTL DEF Safety

-----------------------------------------------------------------------------
(* The stream of packages *)

LEMMA StreamInit == Init => StreamInv
<1> SUFFICES ASSUME Init PROVE StreamInv
  OBVIOUS
<1>1. /\ accepted = queue /\ curr = None /\ offset = 0
      /\ sentPackage = 0 /\ wire = <<>>
  BY DEF Init
<1>2. Len(queue) \in Nat
  BY DEF Init
<1>. QED
  BY <1>1, <1>2 DEF StreamInv, InHand

\* What is written, current and queued is what was accepted, in that order.
LEMMA StreamStep ==
  TypeOK /\ TokenInv /\ StreamInv /\ [Next]_vars => StreamInv'
<1>. SUFFICES ASSUME TypeOK, TokenInv, StreamInv, [Next]_vars
              PROVE  StreamInv'
  OBVIOUS
<1>a. None \notin Package /\ Msg \subseteq Package /\ Msg \subseteq Thread
  BY KeyAssumption DEF Package, Thread
<1>b. InHand \in 0..1 /\ Len(queue) \in Nat /\ Len(accepted) \in Nat /\ Len(wire) \in Nat
  BY DEF InHand, TypeOK
<1>1. ASSUME NEW m \in Msg, Send(m)
      PROVE  StreamInv'
  <2>1. /\ queue' = Append(queue, m) /\ accepted' = Append(accepted, m)
        /\ UNCHANGED <<curr, offset, sentPackage, wire>>
    BY <1>1 DEF Send
  <2>2. InHand' = InHand
    BY <2>1 DEF InHand
  <2>3. /\ Len(queue') = Len(queue) + 1 /\ Len(accepted') = Len(accepted) + 1
        /\ \A i \in 1..Len(queue) : queue'[i] = queue[i]
        /\ queue'[Len(queue) + 1] = m
        /\ \A i \in 1..Len(accepted) : accepted'[i] = accepted[i]
        /\ accepted'[Len(accepted) + 1] = m
    BY <2>1, <1>a DEF TypeOK
  <2>4. \A i \in 1..Len(queue') : queue'[i] = accepted'[sentPackage' + InHand' + i]
    <3>1. TAKE i \in 1..Len(queue')
    <3>2. CASE i <= Len(queue)
      BY <1>b, <2>1, <2>2, <2>3, <3>2 DEF StreamInv, TypeOK
    <3>3. CASE i = Len(queue) + 1
      BY <1>b, <2>1, <2>2, <2>3, <3>3 DEF StreamInv, TypeOK
    <3>. QED
      BY <1>b, <2>3, <3>2, <3>3
  <2>5. \A i \in 1..Len(wire) : (i + 1) \div 2 \in 1..Len(accepted)
    <3>1. offset <= InHand /\ offset \in 0..1 /\ sentPackage \in Nat
      BY DEF StreamInv, TypeOK, InHand
    <3>2. 2 * sentPackage + offset = Len(wire) /\ sentPackage + offset <= Len(accepted)
      BY <1>b, <3>1 DEF StreamInv
    <3>3. \A i \in 1..(2 * sentPackage + offset) : (i + 1) \div 2 \in 1..(sentPackage + offset)
      BY <3>1
    <3>. QED
      BY <1>b, <3>1, <3>2, <3>3
  <2>6. \A i \in 1..Len(wire') :
          /\ wire'[i].package = accepted'[(i + 1) \div 2]
          /\ wire'[i].part = 2 - (i % 2)
    BY <2>1, <2>3, <2>5 DEF StreamInv
  <2>7. curr' # None => curr' = accepted'[sentPackage' + 1]
    BY <1>b, <2>1, <2>3 DEF StreamInv, InHand, TypeOK
  <2>8. Len(accepted') = sentPackage' + InHand' + Len(queue')
    BY <1>b, <2>1, <2>2, <2>3 DEF StreamInv, TypeOK
  <2>9. (curr' = None => offset' = 0) /\ Len(wire') = 2 * sentPackage' + offset'
    BY <2>1 DEF StreamInv
  <2>. QED
    BY <2>4, <2>6, <2>7, <2>8, <2>9 DEF StreamInv
<1>2. CASE UNCHANGED <<curr, offset, sentPackage, accepted, queue, wire>>
  BY <1>2 DEF StreamInv, InHand
<1>3. ASSUME NEW t \in Thread, Fetch(t)
      PROVE  StreamInv'
  <2>1. CASE ~(curr = None /\ queue # <<>>)
    BY <1>2, <1>3, <2>1 DEF Fetch, bufferVars
  <2>2. CASE curr = None /\ queue # <<>>
    <3>1. /\ curr' = Head(queue) /\ queue' = Tail(queue) /\ offset' = 0
          /\ UNCHANGED <<sentPackage, accepted, wire>>
      BY <1>3, <2>2 DEF Fetch
    <3>2. /\ Len(queue) > 0
          /\ curr' = queue[1] /\ curr' \in Package
          /\ Len(queue') = Len(queue) - 1
          /\ \A i \in 1..Len(queue') : queue'[i] = queue[i + 1]
      BY <2>2, <3>1 DEF TypeOK
    <3>3. InHand = 0 /\ InHand' = 1
      BY <1>a, <2>2, <3>2 DEF InHand
    <3>4. \A i \in 1..Len(queue') : queue'[i] = accepted'[sentPackage' + InHand' + i]
      <4>1. TAKE i \in 1..Len(queue')
      <4>2. i + 1 \in 1..Len(queue)
        BY <3>2, <1>b
      <4>. QED
        BY <3>1, <3>2, <3>3, <4>2 DEF StreamInv, TypeOK
    <3>5. curr' = accepted'[sentPackage' + 1]
      BY <1>b, <3>1, <3>2, <3>3 DEF StreamInv, TypeOK
    <3>6. Len(accepted') = sentPackage' + InHand' + Len(queue')
      <4>1. Len(accepted) = sentPackage + InHand + Len(queue)
        BY DEF StreamInv
      <4>2. sentPackage \in Nat /\ Len(queue) \in Nat
        BY DEF TypeOK
      <4>3. Len(accepted') = Len(accepted) /\ sentPackage' = sentPackage
        BY <3>1
      <4>4. Len(queue') = Len(queue) - 1
        BY <3>2
      <4>. QED
        BY <3>3, <4>1, <4>2, <4>3, <4>4
    <3>7. Len(wire') = 2 * sentPackage' + offset' /\ (curr' = None => offset' = 0)
      BY <2>2, <3>1 DEF StreamInv
    <3>8. \A i \in 1..Len(wire') :
            /\ wire'[i].package = accepted'[(i + 1) \div 2]
            /\ wire'[i].part = 2 - (i % 2)
      BY <3>1 DEF StreamInv
    <3>. QED
      BY <3>4, <3>5, <3>6, <3>7, <3>8 DEF StreamInv
  <2>. QED
    BY <2>1, <2>2
<1>4. ASSUME NEW t \in Thread, Write(t)
      PROVE  StreamInv'
  <2>1. /\ wire' = Append(wire, [package |-> curr, part |-> offset + 1, cipher |-> cipher])
        /\ UNCHANGED <<queue, accepted>>
        /\ curr \in Package /\ curr # None
    BY <1>4, <1>a DEF Write, TypeOK, TokenInv
  <2>2. [package |-> curr, part |-> offset + 1, cipher |-> cipher] \in Piece
    BY <2>1 DEF Piece, TypeOK
  <2>3. /\ Len(wire') = Len(wire) + 1
        /\ \A i \in 1..Len(wire) : wire'[i] = wire[i]
        /\ wire'[Len(wire) + 1].package = curr
        /\ wire'[Len(wire) + 1].part = offset + 1
    BY <2>1, <2>2 DEF TypeOK
  <2>4. /\ (Len(wire) + 2) \div 2 = sentPackage + 1
        /\ 2 - ((Len(wire) + 1) % 2) = offset + 1
    <3>1. offset \in 0..1 /\ sentPackage \in Nat /\ Len(wire) = 2 * sentPackage + offset
      BY DEF StreamInv, TypeOK
    <3>2. CASE offset = 0
      <4>1. Len(wire) = 2 * sentPackage
        BY <3>1, <3>2
      <4>2. (2 * sentPackage + 2) \div 2 = sentPackage + 1 /\ (2 * sentPackage + 1) % 2 = 1
        BY <3>1
      <4>. QED
        BY <3>2, <4>1, <4>2
    <3>3. CASE offset = 1
      <4>1. Len(wire) = 2 * sentPackage + 1
        BY <3>1, <3>3
      <4>2. (2 * sentPackage + 3) \div 2 = sentPackage + 1 /\ (2 * sentPackage + 2) % 2 = 0
        BY <3>1
      <4>3. Len(wire) + 2 = 2 * sentPackage + 3 /\ Len(wire) + 1 = 2 * sentPackage + 2
        BY <3>1, <4>1
      <4>. QED
        BY <3>3, <4>2, <4>3
    <3>. QED
      BY <3>1, <3>2, <3>3
  <2>5. \A i \in 1..Len(wire') :
          /\ wire'[i].package = accepted'[(i + 1) \div 2]
          /\ wire'[i].part = 2 - (i % 2)
    <3>1. TAKE i \in 1..Len(wire')
    <3>2. CASE i <= Len(wire)
      BY <1>b, <2>1, <2>3, <3>2 DEF StreamInv
    <3>3. CASE i = Len(wire) + 1
      <4>1. (i + 1) \div 2 = sentPackage + 1 /\ 2 - (i % 2) = offset + 1
        BY <1>b, <2>4, <3>3
      <4>. QED
        BY <2>1, <2>3, <3>3, <4>1 DEF StreamInv
    <3>. QED
      BY <1>b, <2>3, <3>2, <3>3
  <2>6. CASE offset = 0
    <3>1. offset' = 1 /\ UNCHANGED <<curr, sentPackage>>
      BY <1>4, <2>6 DEF Write
    <3>. QED
      BY <1>b, <2>1, <2>3, <2>5, <2>6, <3>1 DEF StreamInv, InHand, TypeOK
  <2>7. CASE offset # 0
    <3>1. offset = 1 /\ offset' = 0 /\ curr' = None /\ sentPackage' = sentPackage + 1
      BY <1>4, <2>7 DEF Write, TypeOK
    <3>2. InHand = 1 /\ InHand' = 0
      BY <2>1, <3>1 DEF InHand
    <3>. QED
      BY <1>b, <2>1, <2>3, <2>5, <3>1, <3>2 DEF StreamInv, TypeOK
  <2>. QED
    BY <2>6, <2>7
<1>5. CASE SendEvent \/ AllowSending \/ SendQueued
  BY <1>2, <1>5 DEF SendEvent, AllowSending, SendQueued
<1>6. ASSUME NEW t \in Thread, SocketFull(t) \/ SocketError(t) \/ WaitForSendEvent(t)
      PROVE  StreamInv'
  BY <1>2, <1>6 DEF SocketFull, SocketError, WaitForSendEvent, bufferVars
<1>7. CASE UNCHANGED vars
  BY <1>2, <1>7 DEF vars, bufferVars
<1>. QED
  BY <1>1, <1>3, <1>4, <1>5, <1>6, <1>7 DEF Next, RealSend

\* What is left to be written, as a suffix of what was accepted.
LEMMA LeftIsSuffix ==
  ASSUME TypeOK, StreamInv
  PROVE  /\ Whole = sentPackage
         /\ Left = SubSeq(accepted, Whole + 1, Len(accepted))
<1>1. Left \in Seq(Package) /\ Len(Left) = InHand + Len(queue)
  BY DEF Left, InHand, TypeOK
<1>2. Whole = sentPackage
  <2>1. /\ Len(accepted) = sentPackage + InHand + Len(queue)
        /\ sentPackage \in Nat /\ InHand \in Nat /\ Len(queue) \in Nat
    BY DEF StreamInv, TypeOK, InHand
  <2>. QED
    BY <1>1, <2>1 DEF Whole
<1>3. \A i \in 1..Len(Left) : Left[i] = accepted[sentPackage + i]
  <2>1. CASE curr = None
    <3>1. Left = queue /\ InHand = 0
      BY <2>1 DEF Left, InHand, TypeOK
    <3>. QED
      BY <3>1 DEF StreamInv, TypeOK
  <2>2. CASE curr # None
    <3>1. Left = <<curr>> \o queue /\ InHand = 1
      BY <2>2 DEF Left, InHand
    <3>2. curr \in Package /\ queue \in Seq(Package) /\ Len(queue) \in Nat
      BY <2>2 DEF TypeOK
    <3>3. Left[1] = curr /\ \A i \in 2..(Len(queue) + 1) : Left[i] = queue[i - 1]
      BY <3>1, <3>2
    <3>4. \A i \in 2..(Len(queue) + 1) : queue[i - 1] = accepted[sentPackage + 1 + (i - 1)]
      BY <3>1, <3>2 DEF StreamInv
    <3>5. \A i \in 2..(Len(queue) + 1) : sentPackage + 1 + (i - 1) = sentPackage + i
      BY <3>2 DEF TypeOK
    <3>. QED
      BY <1>1, <2>2, <3>1, <3>2, <3>3, <3>4, <3>5 DEF StreamInv
  <2>. QED
    BY <2>1, <2>2
<1>4. LET sub == SubSeq(accepted, sentPackage + 1, Len(accepted))
      IN  /\ sub \in Seq(Package)
          /\ Len(sub) = Len(Left)
          /\ \A i \in 1..Len(sub) : sub[i] = accepted[sentPackage + i]
  BY <1>1 DEF StreamInv, TypeOK, InHand
<1>5. Left = SubSeq(accepted, sentPackage + 1, Len(accepted))
  BY <1>1, <1>3, <1>4, SeqEqual
<1>. QED
  BY <1>2, <1>5

\* The invariant behind the order on the wire.
LEMMA StreamCorrect == Safety => []StreamInv
<1>. QED
  BY StreamInit, StreamStep, TokenCorrect, PTL DEF Safety

\* Nothing is lost, repeated, reordered or torn on its way through the buffer, for
\* any number of senders and packages.
THEOREM StreamStaysInOrder == Safety => []StreamInOrder
<1>1. TypeOK /\ StreamInv => StreamInOrder
  <2>. SUFFICES ASSUME TypeOK, StreamInv
                PROVE  StreamInOrder
    OBVIOUS
  <2>. QED
    BY LeftIsSuffix DEF StreamInOrder, StreamInv
<1>. QED
  BY <1>1, TokenCorrect, StreamCorrect, PTL

-----------------------------------------------------------------------------
(* Encryption *)

\* The key exchange is the first package, if there is one at all, and was fetched
\* when nothing had been sent.
LEMMA KeyStep ==
  /\ TypeOK /\ TokenInv /\ StreamInv /\ StreamInv' /\ KeyInv /\ KeyFirst /\ [Next]_vars
  => KeyInv' /\ KeyFirst'
<1>. SUFFICES ASSUME TypeOK, TokenInv, StreamInv, StreamInv', KeyInv, KeyFirst, [Next]_vars
              PROVE  KeyInv' /\ KeyFirst'
  OBVIOUS
<1>a. /\ None \notin Package /\ Msg \subseteq Package /\ Key \notin Msg
      /\ Len(accepted) \in Nat /\ Len(wire) \in Nat
  BY KeyAssumption DEF Package, TypeOK
<1>1. ASSUME NEW m \in Msg, Send(m)
      PROVE  KeyInv' /\ KeyFirst'
  <2>1. /\ accepted' = Append(accepted, m)
        /\ UNCHANGED <<curr, cipher, encryptor, wire>>
    BY <1>1 DEF Send
  <2>2. /\ Len(accepted') = Len(accepted) + 1
        /\ \A i \in 1..Len(accepted) : accepted'[i] = accepted[i]
        /\ accepted'[Len(accepted) + 1] = m
    BY <2>1, <1>a DEF TypeOK
  <2>3. m # Key
    BY <1>a
  <2>4. \A i \in 1..Len(accepted') : accepted'[i] = Key <=> encryptor /\ i = 1
    <3>1. TAKE i \in 1..Len(accepted')
    <3>2. CASE i <= Len(accepted)
      BY <1>a, <2>2, <3>2 DEF KeyInv
    <3>3. CASE i = Len(accepted) + 1
      BY <1>a, <2>2, <2>3, <3>3 DEF KeyInv
    <3>. QED
      BY <1>a, <2>2, <3>2, <3>3
  <2>. QED
    BY <1>a, <2>1, <2>2, <2>4 DEF KeyInv, KeyFirst
<1>2. CASE UNCHANGED <<curr, cipher, encryptor, accepted, wire>>
  BY <1>2 DEF KeyInv, KeyFirst
<1>3. ASSUME NEW t \in Thread, Fetch(t)
      PROVE  KeyInv' /\ KeyFirst'
  <2>1. CASE ~(curr = None /\ queue # <<>>)
    BY <1>2, <1>3, <2>1 DEF Fetch, bufferVars
  <2>2. CASE curr = None /\ queue # <<>>
    <3>1. /\ curr' = Head(queue) /\ cipher' = Encrypted
          /\ UNCHANGED <<sentPackage, encryptor, accepted, wire>>
      BY <1>3, <2>2 DEF Fetch
    <3>2. curr' \in Package /\ curr' # None /\ Len(queue) > 0
      BY <1>a, <2>2, <3>1 DEF TypeOK
    <3>3. curr' = accepted[sentPackage + 1]
      BY <3>1, <3>2 DEF StreamInv
    <3>4. sentPackage + 1 \in 1..Len(accepted)
      BY <1>a, <2>2, <3>2 DEF StreamInv, InHand, TypeOK
    <3>5. curr' = Key <=> encryptor /\ sentPackage + 1 = 1
      BY <3>3, <3>4 DEF KeyInv
    <3>6. cipher' <=> encryptor' /\ curr' # Key
      <4>1. sentPackage + 1 = 1 <=> ~(sentPackage > 0)
        BY DEF TypeOK
      <4>. QED
        BY <3>1, <3>5, <4>1, Zenon DEF Encrypted
    <3>. QED
      BY <3>1, <3>6 DEF KeyInv, KeyFirst
  <2>. QED
    BY <2>1, <2>2
<1>4. ASSUME NEW t \in Thread, Write(t)
      PROVE  KeyInv' /\ KeyFirst'
  <2>1. /\ wire' = Append(wire, [package |-> curr, part |-> offset + 1, cipher |-> cipher])
        /\ UNCHANGED <<cipher, encryptor, accepted>>
        /\ curr \in Package /\ curr # None
        /\ curr' \in {curr, None}
    BY <1>4, <1>a DEF Write, TypeOK, TokenInv
  <2>2. [package |-> curr, part |-> offset + 1, cipher |-> cipher] \in Piece
    BY <2>1 DEF Piece, TypeOK
  <2>3. /\ Len(wire') = Len(wire) + 1
        /\ \A i \in 1..Len(wire) : wire'[i] = wire[i]
        /\ wire'[Len(wire) + 1].package = curr
        /\ wire'[Len(wire) + 1].cipher = cipher
    BY <2>1, <2>2 DEF TypeOK
  <2>4. cipher <=> encryptor /\ curr # Key
    BY <2>1 DEF KeyInv
  <2>5. \A i \in 1..Len(wire') : wire'[i].cipher <=> encryptor' /\ wire'[i].package # Key
    <3>1. TAKE i \in 1..Len(wire')
    <3>2. CASE i <= Len(wire)
      BY <1>a, <2>1, <2>3, <3>2 DEF KeyFirst
    <3>3. CASE i = Len(wire) + 1
      BY <2>1, <2>3, <2>4, <3>3
    <3>. QED
      BY <1>a, <2>3, <3>2, <3>3
  <2>6. KeyInv'
    BY <2>1 DEF KeyInv
  <2>. QED
    BY <2>5, <2>6 DEF KeyFirst
<1>5. CASE SendEvent \/ AllowSending \/ SendQueued
  BY <1>2, <1>5 DEF SendEvent, AllowSending, SendQueued
<1>6. ASSUME NEW t \in Thread, SocketFull(t) \/ SocketError(t) \/ WaitForSendEvent(t)
      PROVE  KeyInv' /\ KeyFirst'
  BY <1>2, <1>6 DEF SocketFull, SocketError, WaitForSendEvent, bufferVars
<1>7. CASE UNCHANGED vars
  BY <1>2, <1>7 DEF vars, bufferVars
<1>. QED
  BY <1>1, <1>3, <1>4, <1>5, <1>6, <1>7 DEF Next, RealSend

\* With encryption the key exchange goes out first and in plain text, and every
\* later package encrypted, whoever queued packages before it had been written.
THEOREM KeyGoesFirst == Safety => []KeyFirst
<1>1. Init => KeyInv /\ KeyFirst
  BY KeyAssumption DEF Init, KeyInv, KeyFirst
<1>. QED
  BY <1>1, KeyStep, TokenCorrect, StreamCorrect, PTL DEF Safety

-----------------------------------------------------------------------------
(* Refinement of SendStream *)

\* What has been delivered, in terms of the buffer's own counter.
DeliveredInv ==
  LET d == SubSeq(accepted, 1, Whole)
  IN  /\ d \in Seq(Package) /\ Len(d) = sentPackage
      /\ Len(accepted) \in Nat /\ sentPackage \in 0..Len(accepted)
      /\ curr # None => sentPackage < Len(accepted) /\ curr = accepted[sentPackage + 1]
      /\ \A i \in 1..sentPackage : d[i] = accepted[i]

LEMMA Delivered == TypeOK /\ StreamInv => DeliveredInv
<1>. SUFFICES ASSUME TypeOK, StreamInv
              PROVE  DeliveredInv
  OBVIOUS
<1>1. Whole = sentPackage
  BY LeftIsSuffix
<1>2. /\ Len(accepted) \in Nat /\ sentPackage \in 0..Len(accepted)
      /\ curr # None => sentPackage < Len(accepted) /\ curr = accepted[sentPackage + 1]
  BY DEF StreamInv, InHand, TypeOK
<1>. QED
  BY <1>1, <1>2 DEF DeliveredInv, TypeOK

\* The buffer delivers a package when it writes the second half of it; all its other
\* steps accept a package, break the connection, or are not seen from outside.
LEMMA RefinementStep ==
  /\ TypeOK /\ TokenInv /\ DeliveredInv /\ DeliveredInv' /\ [Next]_vars
  => [Stream!Next]_(Stream!vars)
<1>. SUFFICES ASSUME TypeOK, TokenInv, DeliveredInv, DeliveredInv', [Next]_vars
              PROVE  [Stream!Next]_(Stream!vars)
  OBVIOUS
<1> DEFINE d == SubSeq(accepted, 1, Whole)
<1>a. /\ d \in Seq(Package) /\ Len(d) = sentPackage
      /\ Len(accepted) \in Nat /\ sentPackage \in 0..Len(accepted)
      /\ curr # None => sentPackage < Len(accepted) /\ curr = accepted[sentPackage + 1]
      /\ \A i \in 1..sentPackage : d[i] = accepted[i]
  BY DEF DeliveredInv
<1>b. /\ d' \in Seq(Package) /\ Len(d') = sentPackage'
      /\ \A i \in 1..sentPackage' : d'[i] = accepted'[i]
  BY DEF DeliveredInv
<1> HIDE DEF d
<1>c. ASSUME sentPackage' = sentPackage,
             \A i \in 1..sentPackage : accepted'[i] = accepted[i]
      PROVE  d' = d
  <2>1. \A i \in 1..Len(d) : d'[i] = d[i]
    BY <1>a, <1>b, <1>c
  <2>. QED
    BY <1>a, <1>b, <1>c, <2>1, SeqEqual
<1>1. ASSUME NEW m \in Msg, Send(m)
      PROVE  Stream!Accept(m)
  <2>1. /\ accepted' = Append(accepted, m)
        /\ UNCHANGED <<sentPackage, broken>>
    BY <1>1 DEF Send
  <2>2. \A i \in 1..sentPackage : accepted'[i] = accepted[i]
    BY <1>a, <2>1 DEF TypeOK
  <2>. QED
    BY <1>c, <2>1, <2>2 DEF Stream!Accept, d
<1>2. ASSUME UNCHANGED <<sentPackage, accepted, broken>>
      PROVE  UNCHANGED Stream!vars
  BY <1>2, <1>c DEF Stream!vars, d
<1>3. ASSUME NEW t \in Thread, Fetch(t)
      PROVE  UNCHANGED Stream!vars
  BY <1>2, <1>3 DEF Fetch, bufferVars
<1>4. ASSUME NEW t \in Thread, Write(t)
      PROVE  Stream!Deliver \/ UNCHANGED Stream!vars
  <2>1. CASE offset = 0
    BY <1>2, <1>4, <2>1 DEF Write
  <2>2. CASE offset # 0
    <3>1. /\ sentPackage' = sentPackage + 1
          /\ UNCHANGED <<accepted, broken>>
          /\ curr # None /\ ~broken
      BY <1>4, <2>2 DEF Write, TokenInv
    <3>2. /\ Append(d, curr) \in Seq(Package) /\ Len(Append(d, curr)) = sentPackage'
          /\ \A i \in 1..sentPackage : Append(d, curr)[i] = d[i]
          /\ Append(d, curr)[sentPackage + 1] = curr
      BY <1>a, <3>1 DEF TypeOK
    <3>3. \A i \in 1..sentPackage' : d'[i] = Append(d, curr)[i]
      <4>1. TAKE i \in 1..sentPackage'
      <4>2. d'[i] = accepted[i]
        BY <1>b, <3>1
      <4>. QED
        BY <1>a, <3>1, <3>2, <4>2
    <3>4. d' = Append(d, accepted[Len(d) + 1])
      BY <1>a, <1>b, <3>1, <3>2, <3>3, SeqEqual
    <3>5. Len(d) < Len(accepted)
      BY <1>a, <3>1
    <3>. QED
      BY <3>1, <3>4, <3>5 DEF Stream!Deliver, d
  <2>. QED
    BY <2>1, <2>2
<1>5. ASSUME SendEvent \/ AllowSending \/ SendQueued
      PROVE  UNCHANGED Stream!vars
  BY <1>2, <1>5 DEF SendEvent, AllowSending, SendQueued
<1>6. ASSUME NEW t \in Thread, SocketFull(t) \/ WaitForSendEvent(t)
      PROVE  UNCHANGED Stream!vars
  BY <1>2, <1>6 DEF SocketFull, WaitForSendEvent, bufferVars
<1>7. ASSUME NEW t \in Thread, SocketError(t)
      PROVE  Stream!Break
  <2>1. /\ broken' = TRUE
        /\ UNCHANGED <<sentPackage, accepted>>
    BY <1>7 DEF SocketError
  <2>. QED
    BY <1>c, <2>1 DEF Stream!Break, d
<1>8. ASSUME UNCHANGED vars
      PROVE  UNCHANGED Stream!vars
  BY <1>2, <1>8 DEF vars, bufferVars
<1>9. \A m \in Msg : m \in Package
  BY DEF Package
<1>. QED
  BY <1>1, <1>3, <1>4, <1>5, <1>6, <1>7, <1>8, <1>9
  DEF Next, RealSend, Stream!Next

\* The send buffer implements SendStream: every package it delivers is the next one
\* in the order of acceptance.
THEOREM StreamImplemented == Safety => Stream!Safety
<1>1. Init => Stream!Init
  <2>. SUFFICES ASSUME Init
                PROVE  Stream!Init
    OBVIOUS
  <2>1. TypeOK /\ StreamInv
    BY TokenInit, StreamInit
  <2>2. Whole = 0
    BY <2>1, LeftIsSuffix DEF Init
  <2>3. SubSeq(accepted, 1, Whole) = <<>>
    BY <2>1, <2>2 DEF TypeOK
  <2>4. accepted \in {<<>>} \cup {<<p>> : p \in Package}
    BY DEF Init, Package
  <2>5. broken = FALSE
    BY DEF Init
  <2>. QED
    BY <2>3, <2>4, <2>5 DEF Stream!Init
<1>. QED
  BY <1>1, RefinementStep, Delivered, TokenCorrect, StreamCorrect, PTL
  DEF Safety, Stream!Safety

=============================================================================
