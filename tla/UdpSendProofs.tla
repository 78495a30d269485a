---------------------------- MODULE UdpSendProofs ----------------------------
(*
Proofs about UdpSend: its types and PackagesOwned, for any packages, messages
and limit.  PackagesOwned is nearly inductive.  What it lacks is why the
key-exchange package is not deleted while _ecdhPackageReference points to it, or
a sender goes by what it has read there: it is in the buffer from the beginning,
and until it is confirmed nothing else takes its place but the close package.
*)
EXTENDS UdpSend, TLAPS

Unsent == Key \notin onWire /\ \A t \in Thread : pc[t] # "send"

KeyInv ==
  KeyReferred =>
    /\ Key \in made
    /\ \/ kind = "raw" /\ held \subseteq {Key} /\ (Exempt = {} => Unsent)
       \/ kind = "single" /\ held = {Key}

IInv == TypeOK /\ PackagesOwned /\ KeyInv

\* No thread begins to call ::send() or to look at the key-exchange package.
NoNewSender == \A u \in Thread : pc'[u] \in {"send", "key"} => pc'[u] = pc[u]

\* A thread takes the send token, gives it back, or leaves it alone.
LEMMA Move ==
  ASSUME ThreadsOK, NEW t \in Thread,
         NEW label \in {"idle", "read", "cached", "after"} \cup Sending,
         Goto(t, label), label \in {"read", "after"} => t = "loop",
         \/ pc[t] \notin Sending /\ label \notin Sending /\ token' = token
         \/ pc[t] \in Sending /\ label \in Sending /\ token' = token
         \/ pc[t] \notin Sending /\ label \in Sending /\ token /\ token' = FALSE
         \/ pc[t] \in Sending /\ label \notin Sending /\ token' = TRUE
  PROVE  ThreadsOK'
  BY DEF ThreadsOK, Goto

\* reset() deletes nothing that is in the unconformed map, and marks as not being
\* sent whatever the buffer points to.
LEMMA ResetKeeps ==
  ASSUME PackagesOwned
  PROVE  /\ unconformed \ Exempt \subseteq KeptByReset
         /\ KeptByReset \subseteq alive
         /\ doomed \cap KeptByReset \cap unconformed = {}
         /\ BusyAfterReset \cap unconformed \subseteq Exempt
         /\ BusyAfterReset \subseteq resending
  BY DEF PackagesOwned, KeptByReset, BusyAfterReset

\* The buffer is reset and made to point to packages D of the map, with the new
\* packages P among them; these go into the map too, or are to be deleted.
LEMMA Filled ==
  ASSUME PackagesOK, PackagesOwned,
         NEW P, P \cap made = {},
         NEW D \in SUBSET (unconformed \cup P), Pointed' = D,
         alive' = KeptByReset \cup P,
         resending' = BusyAfterReset \cup D,
         unconformed \subseteq unconformed', unconformed' \subseteq unconformed \cup P,
         doomed' \subseteq doomed \cup P, doomed' \cap P \cap unconformed' = {},
         KeyReferred' => Key \in Exempt', Exempt \subseteq Exempt'
  PROVE  PackagesOwned'
<1>. USE ResetKeeps
<1>1. (Pointed' \cup unconformed') \ Exempt' \subseteq alive'
  OBVIOUS
<1>2. doomed' \cap alive' \cap unconformed' = {}
  BY DEF PackagesOK
<1>3. resending' \cap unconformed' \subseteq Pointed' \cup Exempt'
  BY DEF PackagesOK
<1>4. (Pointed' \ Exempt') \ resending' = {}
  OBVIOUS
<1>. QED
  BY <1>1, <1>2, <1>3, <1>4 DEF PackagesOwned

LEMMA InvInit == Init => IInv
<1>. SUFFICES ASSUME Init PROVE IInv
  OBVIOUS
<1>1. TypeOK
  <2>1. ThreadsOK
    BY DEF Init, ThreadsOK, Sending
  <2>2. PackagesOK /\ BufferOK
    BY UdpSendAssumption DEF Init, PackagesOK, BufferOK
  <2>. QED
    BY <2>1, <2>2 DEF Init, TypeOK
<1>2. PackagesOwned /\ KeyInv
  <2>1. CASE keyRef = None
    BY <2>1, UdpSendAssumption DEF Init, PackagesOwned, KeyInv, KeyReferred,
       MutexFree, Pointed
  <2>2. CASE keyRef = Key
    BY <2>2, UdpSendAssumption DEF Init, PackagesOwned, KeyInv, KeyReferred,
       MutexFree, Unsent, Pointed, Thread
  <2>. QED
    BY <2>1, <2>2 DEF Init
<1>. QED
  BY <1>1, <1>2 DEF IInv

\* What changes neither the packages nor the buffer, sends nothing that was not
\* being sent, and goes by the reference to the key-exchange package only where
\* that was so already, owns the packages as before.
LEMMA Quiet ==
  ASSUME PackagesOwned, KeyInv, UNCHANGED <<packageVars, kind, held>>,
         KeyReferred' => KeyReferred, Exempt' = Exempt, Unsent => Unsent'
  PROVE  PackagesOwned' /\ KeyInv'
<1>1. Pointed' = Pointed
  BY DEF Pointed
<1>2. PackagesOwned'
  BY <1>1 DEF PackagesOwned, packageVars
<1>. QED
  BY <1>2 DEF KeyInv, packageVars

\* Without a new sender neither of the last two comes true.
LEMMA NobodyNew ==
  ASSUME NoNewSender, keyRef' \in {keyRef, None}
  PROVE  /\ KeyReferred' => KeyReferred
         /\ onWire' = onWire => (Unsent => Unsent')
  BY DEF NoNewSender, KeyReferred, MutexFree, Unsent

\* The thread in realSend() is the only one that can have the mutex there.
LEMMA Alone ==
  ASSUME ThreadsOK, NEW t \in Thread, pc[t] \in Sending
  PROVE  /\ pc[t] # "key" => MutexFree
         /\ \A label \in Sending \ {"key"} : Goto(t, label) => MutexFree'
  BY DEF ThreadsOK, MutexFree, Goto, Sending

\* The beginning and the end of realSend().
LEMMA Begin ==
  ASSUME ThreadsOK, PackagesOK, NEW t \in Thread, BeginSending(t)
  PROVE  ThreadsOK' /\ due' \subseteq made \cup {Sync, Heartbeat}
<1>1. pc[t] \notin Sending /\ token /\ token' = FALSE
  BY DEF BeginSending, ThreadsOK
<1>2. Goto(t, "prepare") /\ "prepare" \in Sending
  BY DEF BeginSending, Sending
<1>3. ThreadsOK'
  BY <1>1, <1>2, Move
<1>4. due' \subseteq made \cup {Sync, Heartbeat}
  BY UdpSendAssumption DEF BeginSending, PackagesOK
<1>. QED
  BY <1>3, <1>4

LEMMA Return ==
  ASSUME ThreadsOK, NEW t \in Thread, pc[t] \in Sending, ReturnToken(t)
  PROVE  /\ ThreadsOK' /\ due' = {}
         /\ NoNewSender
<1>1. PICK label \in {"idle", "after"} : Goto(t, label) /\ (label = "after" => t = "loop")
  BY DEF ReturnToken, Leave
<1>2. label \notin Sending /\ token' = TRUE
  BY DEF ReturnToken, Sending
<1>3. ThreadsOK'
  BY <1>1, <1>2, Move
<1>. QED
  BY <1>1, <1>3 DEF ReturnToken, Goto, ThreadsOK, NoNewSender

\* Outside of realSend() a thread moves without the token.
LEMMA Walk ==
  ASSUME ThreadsOK, NEW t \in Thread, pc[t] \notin Sending,
         NEW label \in {"idle", "read", "cached", "after"}, Goto(t, label),
         label \in {"read", "after"} => t = "loop", token' = token
  PROVE  ThreadsOK' /\ NoNewSender
<1>1. label \notin Sending /\ label \notin {"send", "key"}
  BY DEF Sending
<1>2. ThreadsOK'
  BY <1>1, Move
<1>. QED
  BY <1>1, <1>2 DEF Goto, ThreadsOK, NoNewSender

\* Within realSend() the thread that has the token keeps it.
LEMMA GoOn ==
  ASSUME ThreadsOK, NEW t \in Thread, pc[t] \in Sending,
         NEW label \in Sending, Goto(t, label), token' = token
  PROVE  ThreadsOK'
<1>1. label \notin {"read", "after"}
  BY DEF Sending
<1>. QED
  BY <1>1, Move

\* Filling up a datagram: a new package for what is in the buffer, if it is not
\* to get lost or not alone, and packages of the map that are due.
LEMMA Padded ==
  ASSUME PackagesOK, PackagesOwned, NEW d \in BOOLEAN, PaddingResendPackages(d),
         ~KeyReferred', UNCHANGED <<closeVars, readVars, onWire>>, due' \subseteq due
  PROVE  PackagesOK' /\ BufferOK' /\ PackagesOwned'
<1>1. Exempt' = Exempt
  BY DEF closeVars, Exempt
<1>2. CASE /\ alive' = KeptByReset /\ resending' = BusyAfterReset
           /\ FillBuffer("raw", {})
           /\ UNCHANGED <<made, doomed, unconformed>>
  <2>1. PackagesOK' /\ BufferOK'
    BY <1>2, ResetKeeps DEF PackagesOK, BufferOK, FillBuffer, readVars
  <2>2. Pointed' = {}
    BY <1>2 DEF FillBuffer, Pointed
  <2>3. PackagesOwned'
    BY <1>1, <1>2, <2>2, Filled DEF readVars
  <2>. QED
    BY <2>1, <2>3
<1>3. ASSUME Unused # {}, NEW S \in SUBSET Fetched, NEW p, p = NewPackage,
             NEW D, D = IF S = {} THEN {} ELSE S \cup {p},
             made' = made \cup {p}, alive' = KeptByReset \cup {p},
             unconformed' = IF d THEN unconformed ELSE unconformed \cup {p},
             doomed' = IF d THEN doomed \cup {p} ELSE doomed,
             FillBuffer(IF S = {} THEN "raw" ELSE "assembled", S \cup {p}),
             resending' = BusyAfterReset \cup D
      PROVE  PackagesOK' /\ BufferOK' /\ PackagesOwned'
  <2>1. p \in Package /\ p \notin made
    BY <1>3 DEF NewPackage, Unused
  <2>2. S \subseteq unconformed /\ unconformed \subseteq made
    BY <1>3 DEF Fetched, PackagesOK
  <2>3. Pointed' = D
    BY <1>3 DEF FillBuffer, Pointed
  <2>4. PackagesOK'
    BY <1>3, <2>1, <2>2, ResetKeeps DEF PackagesOK, readVars
  <2>5. BufferOK'
    BY <1>3, <2>1, <2>2 DEF BufferOK, FillBuffer
  <2>6. doomed' \cap {p} \cap unconformed' = {}
    BY <1>3, <2>1, <2>2 DEF PackagesOK
  <2>7. PackagesOwned'
    <3>1. /\ {p} \cap made = {}
          /\ D \in SUBSET (unconformed \cup {p})
          /\ unconformed \subseteq unconformed' /\ unconformed' \subseteq unconformed \cup {p}
          /\ doomed' \subseteq doomed \cup {p}
          /\ Exempt \subseteq Exempt'
      BY <1>1, <1>3, <2>1, <2>2 DEF readVars
    <3>. QED
      BY <1>3, <2>3, <2>6, <3>1, Filled
  <2>. QED
    BY <2>4, <2>5, <2>7
<1>. QED
  BY <1>2, <1>3 DEF PaddingResendPackages

\* The thread that has the token prepares a datagram, or finds that there is none
\* to send.
LEMMA PrepareStep ==
  ASSUME IInv, NEW t \in Thread, Prepare(t)
  PROVE  IInv'
<1>. USE DEF IInv
<1>1. TypeOK /\ pc[t] \in Sending
  BY DEF Prepare, CloseSent, PrepareClosePackage, BlockedSending, CheckKey, ResendKey,
     KeyUnderWay, UseClearedKey, SendAgain, PrepareUrgentARQSync, PrepareResentPackage, PrepareCommonPackage, PrepareHeartbeat,
     Idle, Ready, Preparing, Sending
<1>2. /\ {"send", "key", "null"} \subseteq Sending
      /\ Goto(t, "send") => MutexFree'
  BY <1>1, Alone DEF Sending, TypeOK
<1>3. CASE CloseSent(t)
  <2>1. ThreadsOK' /\ due' = {} /\ NoNewSender
    BY <1>1, <1>3, Return DEF CloseSent, TypeOK
  <2>2. TypeOK'
    BY <1>3, <2>1 DEF CloseSent, TypeOK, PackagesOK, BufferOK, readVars, packageVars, bufferVars
  <2>3. Exempt' = Exempt /\ keyRef' = keyRef
    BY <1>3 DEF CloseSent, Exempt, readVars
  <2>4. PackagesOwned' /\ KeyInv'
    BY <1>3, <2>1, <2>3, NobodyNew, Quiet DEF CloseSent, bufferVars
  <2>. QED
    BY <2>2, <2>4
<1>4. CASE PrepareClosePackage(t)
  <2>1. ThreadsOK'
    BY <1>1, <1>2, <1>4, GoOn DEF PrepareClosePackage, TypeOK, sendVars
  <2>2. TypeOK'
    BY <1>4, <2>1, ResetKeeps DEF PrepareClosePackage, FillBuffer, TypeOK, PackagesOK, BufferOK,
       sendVars, readVars
  <2>3. Pointed' = {} /\ Exempt' = {Key} /\ Exempt \subseteq {Key}
    BY <1>4 DEF PrepareClosePackage, FillBuffer, Exempt, Pointed
  <2>4. PackagesOwned'
    <3>1. /\ alive' = KeptByReset \cup {} /\ resending' = BusyAfterReset \cup {}
          /\ unconformed' = unconformed /\ doomed' = doomed
      BY <1>4 DEF PrepareClosePackage
    <3>. QED
      BY <1>1, <2>3, <3>1, Filled DEF TypeOK
  <2>5. KeyInv'
    <3>1. KeyReferred' => keyRef # None
      BY <1>2, <1>4 DEF PrepareClosePackage, readVars, KeyReferred
    <3>. QED
      BY <1>1, <1>4, <2>3, <3>1
      DEF PrepareClosePackage, FillBuffer, KeyInv, KeyReferred
  <2>. QED
    BY <2>2, <2>4, <2>5
<1>5. CASE BlockedSending(t) \/ KeyUnderWay(t)
  <2>1. ThreadsOK' /\ due' = {} /\ NoNewSender
    BY <1>1, <1>5, Return DEF BlockedSending, KeyUnderWay, TypeOK
  <2>2. TypeOK'
    BY <1>5, <2>1 DEF BlockedSending, KeyUnderWay, TypeOK, PackagesOK, BufferOK, closeVars,
       readVars, packageVars, bufferVars
  <2>3. Exempt' = Exempt /\ keyRef' = keyRef
    BY <1>5 DEF BlockedSending, KeyUnderWay, Exempt, closeVars, readVars
  <2>4. PackagesOwned' /\ KeyInv'
    BY <1>5, <2>1, <2>3, NobodyNew, Quiet DEF BlockedSending, KeyUnderWay, bufferVars
  <2>. QED
    BY <2>2, <2>4
<1>12. CASE CheckKey(t) \/ UseClearedKey(t)
  <2>1. PICK label \in {"key", "null"} : Goto(t, label)
    BY <1>12 DEF CheckKey, UseClearedKey
  <2>2. ThreadsOK'
    BY <1>1, <1>2, <1>12, <2>1, GoOn DEF CheckKey, UseClearedKey, TypeOK, sendVars
  <2>3. TypeOK'
    BY <1>12, <2>2 DEF CheckKey, UseClearedKey, TypeOK, PackagesOK, BufferOK, closeVars,
       sendVars, readVars, packageVars, bufferVars
  <2>4. /\ Exempt' = Exempt /\ (Unsent => Unsent')
        /\ KeyReferred
    BY <1>12, <2>1 DEF CheckKey, UseClearedKey, Exempt, closeVars, Unsent, Goto, TypeOK,
       ThreadsOK, KeyReferred, MutexFree
  <2>5. PackagesOwned' /\ KeyInv'
    BY <1>12, <2>4, Quiet DEF CheckKey, UseClearedKey, bufferVars
  <2>. QED
    BY <2>3, <2>5
<1>6. CASE ResendKey(t)
  <2>1. KeyReferred /\ Key \in made
    BY <1>6 DEF ResendKey, KeyReferred, MutexFree, KeyInv
  <2>2. ThreadsOK'
    BY <1>1, <1>2, <1>6, GoOn DEF ResendKey, TypeOK, sendVars
  <2>3. TypeOK'
    BY <1>6, <2>1, <2>2 DEF ResendKey, FillBuffer, TypeOK, PackagesOK, BufferOK, closeVars,
       sendVars, readVars
  <2>4. Exempt' = Exempt /\ Pointed \subseteq {Key} /\ Pointed' = {Key}
    BY <1>6, <2>1 DEF ResendKey, FillBuffer, Exempt, Pointed, closeVars, KeyInv
  <2>5. PackagesOwned'
    BY <1>6, <2>1, <2>4 DEF ResendKey, PackagesOwned
  <2>6. KeyInv'
    BY <1>6, <2>1 DEF ResendKey, FillBuffer, KeyInv
  <2>. QED
    BY <2>3, <2>5, <2>6
<1>7. CASE SendAgain(t)
  <2>1. ThreadsOK'
    BY <1>1, <1>2, <1>7, GoOn DEF SendAgain, TypeOK, sendVars
  <2>2. TypeOK'
    BY <1>7, <2>1 DEF SendAgain, TypeOK, PackagesOK, BufferOK, closeVars, sendVars, readVars,
       packageVars, bufferVars
  <2>3. Exempt' = Exempt /\ Pointed' = Pointed /\ ~KeyReferred'
    BY <1>2, <1>7 DEF SendAgain, Exempt, Pointed, bufferVars, closeVars, readVars, KeyReferred
  <2>4. PackagesOwned' /\ KeyInv'
    BY <1>7, <2>3 DEF SendAgain, PackagesOwned, KeyInv, packageVars
  <2>. QED
    BY <2>2, <2>4
<1>8. CASE PrepareUrgentARQSync(t)
  <2>1. ThreadsOK'
    BY <1>1, <1>2, <1>8, GoOn DEF PrepareUrgentARQSync, TypeOK
  <2>2. PICK M \in SUBSET Queued : Take(M) /\ PaddingResendPackages(M \subseteq Discardable)
    BY <1>8 DEF PrepareUrgentARQSync
  <2>3. PackagesOK' /\ BufferOK' /\ PackagesOwned'
    <3>1. /\ ~KeyReferred' /\ UNCHANGED <<closeVars, readVars, onWire>> /\ due' \subseteq due
          /\ (M \subseteq Discardable) \in BOOLEAN
      BY <1>2, <1>8 DEF PrepareUrgentARQSync, Ready, KeyReferred, readVars
    <3>. QED
      BY <1>1, <2>2, <3>1, Padded DEF TypeOK
  <2>4. TypeOK'
    BY <1>1, <1>8, <2>1, <2>2, <2>3 DEF PrepareUrgentARQSync, Take, TypeOK, closeVars
  <2>5. KeyInv'
    BY <1>2, <1>8 DEF PrepareUrgentARQSync, Ready, readVars, KeyReferred, KeyInv
  <2>. QED
    BY <2>3, <2>4, <2>5
<1>9. CASE PrepareCommonPackage(t)
  <2>1. ThreadsOK'
    BY <1>1, <1>2, <1>9, GoOn DEF PrepareCommonPackage, sendVars, TypeOK
  <2>2. PICK M \in SUBSET Queued : Take(M) /\ PaddingResendPackages(M \subseteq Discardable)
    BY <1>9 DEF PrepareCommonPackage
  <2>3. PackagesOK' /\ BufferOK' /\ PackagesOwned'
    <3>1. /\ ~KeyReferred' /\ UNCHANGED <<closeVars, readVars, onWire>> /\ due' \subseteq due
          /\ (M \subseteq Discardable) \in BOOLEAN
      BY <1>2, <1>9 DEF PrepareCommonPackage, Ready, KeyReferred, readVars, sendVars
    <3>. QED
      BY <1>1, <2>2, <3>1, Padded DEF TypeOK
  <2>4. TypeOK'
    BY <1>1, <1>9, <2>1, <2>2, <2>3 DEF PrepareCommonPackage, Take, TypeOK, closeVars
  <2>5. KeyInv'
    BY <1>2, <1>9 DEF PrepareCommonPackage, Ready, readVars, KeyReferred, KeyInv
  <2>. QED
    BY <2>3, <2>4, <2>5
<1>10. CASE PrepareResentPackage(t)
  <2>1. ThreadsOK'
    BY <1>1, <1>2, <1>10, GoOn DEF PrepareResentPackage, TypeOK, sendVars
  <2>2. PICK S \in (SUBSET Fetched) \ {{}} :
          /\ resending' = BusyAfterReset \cup S
          /\ \/ FillBuffer("assembled", S)
             \/ \E p \in Fetched : S = {p} /\ FillBuffer("single", {p})
    <3>1. CASE \E S \in (SUBSET Fetched) \ {{}} :
                 FillBuffer("assembled", S) /\ resending' = BusyAfterReset \cup S
      BY <3>1
    <3>2. CASE \E p \in Fetched :
                 FillBuffer("single", {p}) /\ resending' = BusyAfterReset \cup {p}
      <4>1. PICK p \in Fetched :
              FillBuffer("single", {p}) /\ resending' = BusyAfterReset \cup {p}
        BY <3>2
      <4>2. {p} \in (SUBSET Fetched) \ {{}}
        OBVIOUS
      <4>. QED
        BY <4>1, <4>2
    <3>. QED
      BY <1>10, <3>1, <3>2 DEF PrepareResentPackage
  <2>3. S \subseteq unconformed /\ S \subseteq made /\ Pointed' = S
    BY <1>1, <2>2 DEF Fetched, TypeOK, PackagesOK, FillBuffer, Pointed
  <2>4. PackagesOK' /\ BufferOK'
    <3>1. PackagesOK'
      BY <1>1, <1>10, <2>2, <2>3, ResetKeeps DEF PrepareResentPackage, TypeOK, PackagesOK,
         readVars, sendVars
    <3>2. BufferOK'
      BY <1>10, <2>2, <2>3 DEF PrepareResentPackage, BufferOK, FillBuffer
    <3>. QED
      BY <3>1, <3>2
  <2>5. TypeOK'
    BY <1>1, <1>10, <2>1, <2>4 DEF PrepareResentPackage, TypeOK, closeVars
  <2>6. PackagesOwned' /\ KeyInv'
    <3>1. ~KeyReferred' /\ Exempt' = Exempt /\ alive' = KeptByReset
      BY <1>2, <1>10 DEF PrepareResentPackage, Ready, readVars, closeVars, Exempt, KeyReferred
    <3>2. {} \cap made = {} /\ S \in SUBSET (unconformed \cup {}) /\ KeptByReset = KeptByReset \cup {}
      BY <2>3
    <3>3. /\ unconformed' = unconformed /\ doomed' = doomed
      BY <1>10 DEF PrepareResentPackage
    <3>4. PackagesOwned'
      BY <1>1, <2>2, <2>3, <3>1, <3>2, <3>3, Filled DEF TypeOK
    <3>. QED
      BY <3>1, <3>4 DEF KeyInv
  <2>. QED
    BY <2>5, <2>6
<1>11. CASE PrepareHeartbeat(t) \/ Idle(t)
  <2>1. ThreadsOK'
    BY <1>1, <1>2, <1>11, GoOn, Return DEF PrepareHeartbeat, Idle, TypeOK, sendVars
  <2>2. PackagesOK' /\ BufferOK'
    <3>1. due' \subseteq due
      BY <1>11 DEF PrepareHeartbeat, Idle, ReturnToken, sendVars
    <3>. QED
      BY <1>1, <1>11, <3>1, ResetKeeps DEF PrepareHeartbeat, Idle, TypeOK, PackagesOK, BufferOK,
         FillBuffer, readVars
  <2>3. TypeOK'
    BY <1>1, <1>11, <2>1, <2>2 DEF PrepareHeartbeat, Idle, TypeOK, closeVars
  <2>4. PackagesOwned' /\ KeyInv'
    <3>1. /\ ~KeyReferred' /\ Exempt' = Exempt /\ Pointed' = {}
          /\ alive' = KeptByReset /\ resending' = BusyAfterReset
      <4>1. MutexFree'
        BY <1>1, <1>2, <1>11, Alone, Return
        DEF PrepareHeartbeat, Idle, Ready, Preparing, TypeOK, MutexFree, NoNewSender
      <4>. QED
        BY <1>11, <4>1 DEF PrepareHeartbeat, Idle, Ready, FillBuffer, readVars, closeVars, Exempt,
           Pointed, KeyReferred
    <3>2. PackagesOwned'
      BY <1>1, <1>11, <3>1, Filled DEF PrepareHeartbeat, Idle, TypeOK
    <3>. QED
      BY <3>1, <3>2 DEF KeyInv
  <2>. QED
    BY <2>3, <2>4
<1>. QED
  BY <1>3, <1>4, <1>5, <1>6, <1>7, <1>8, <1>9, <1>10, <1>11, <1>12
  DEF Prepare

LEMMA CachedStep ==
  ASSUME IInv, NEW t \in Thread, SendCachedData(t)
  PROVE  IInv'
<1>. USE DEF IInv
<1>1. UNCHANGED <<closeVars, readVars, packageVars, bufferVars, message, onWire>>
  BY DEF SendCachedData
<1>2. /\ ThreadsOK' /\ due' \subseteq made \cup {Sync, Heartbeat}
      /\ NoNewSender
  <2>1. CASE BeginSending(t)
    <3>1. NoNewSender
      BY <2>1 DEF BeginSending, Goto, TypeOK, ThreadsOK, NoNewSender
    <3>. QED
      BY <2>1, <3>1, Begin DEF TypeOK
  <2>2. CASE ~token /\ Leave(t) /\ UNCHANGED sendVars
    <3>1. PICK label \in {"idle", "after"} : Goto(t, label) /\ (label = "after" => t = "loop")
      BY <2>2 DEF Leave
    <3>2. pc[t] \notin Sending /\ token' = token
      BY <2>2 DEF SendCachedData, Sending, sendVars
    <3>3. ThreadsOK' /\ NoNewSender
      BY <3>1, <3>2, Walk DEF TypeOK
    <3>. QED
      BY <2>2, <3>3 DEF TypeOK, PackagesOK, sendVars
  <2>. QED
    BY <2>1, <2>2 DEF SendCachedData
<1>3. TypeOK'
  BY <1>1, <1>2 DEF TypeOK, PackagesOK, BufferOK, closeVars, readVars, packageVars, bufferVars
<1>4. PackagesOwned' /\ KeyInv'
  <2>1. Exempt' = Exempt /\ keyRef' = keyRef
    BY <1>1 DEF Exempt, closeVars, readVars
  <2>. QED
    BY <1>1, <1>2, <2>1, NobodyNew, Quiet DEF bufferVars
<1>. QED
  BY <1>3, <1>4

\* The outcomes of ::send(): the thread was sending, so the key-exchange package
\* was no longer as at the beginning.
LEMMA SendStep ==
  ASSUME IInv, NEW t \in Thread, Sent(t) \/ NotSent(t) \/ Refused(t)
  PROVE  IInv'
<1>. USE DEF IInv
<1>1. TypeOK /\ pc[t] \in Sending /\ ~Unsent
  BY DEF Sent, NotSent, Refused, Sending, Unsent
<1>2. /\ UNCHANGED <<packageVars, kind, held, message, keyRef, heard, mapped, closeStep>>
      /\ requireClose' \in BOOLEAN /\ sendDone' \in BOOLEAN
      /\ onWire \subseteq onWire' /\ onWire' \subseteq onWire \cup held
      /\ due' \subseteq due
  BY DEF Sent, NotSent, Refused, ReturnToken, closeVars, readVars, bufferVars, TypeOK, BufferOK
<1>3. ThreadsOK' /\ NoNewSender
  <2>1. CASE Sent(t)
    <3>1. Goto(t, "prepare") /\ token' = token /\ "prepare" \in Sending
      BY <2>1 DEF Sent, Sending
    <3>. QED
      BY <1>1, <3>1, GoOn DEF TypeOK, ThreadsOK, Goto, NoNewSender
  <2>2. CASE NotSent(t) \/ Refused(t)
    BY <1>1, <2>2, Return DEF NotSent, Refused, TypeOK
  <2>. QED
    BY <2>1, <2>2
<1>4. TypeOK'
  BY <1>1, <1>2, <1>3 DEF TypeOK, PackagesOK, BufferOK, packageVars
<1>5. PackagesOwned' /\ KeyInv'
  <2>1. Exempt' = Exempt
    BY <1>2 DEF Exempt
  <2>2. KeyReferred' => KeyReferred
    BY <1>2, <1>3, NobodyNew
  <2>. QED
    BY <1>1, <1>2, <2>1, <2>2, Quiet
<1>. QED
  BY <1>4, <1>5

\* The steps that only move a thread, or note that something has come.
LEMMA OtherStep ==
  ASSUME IInv,
         \/ \E m \in Message : SendData(m)
         \/ SendCloseSignal \/ Event \/ RecvData \/ RecvClose \/ Finish \/ Check
  PROVE  IInv'
<1>. USE DEF IInv
<1>1. {"app", "loop", "timer"} = Thread
  BY DEF Thread
<1>2. /\ ThreadsOK' /\ due' \subseteq made \cup {Sync, Heartbeat}
      /\ NoNewSender
  <2>1. CASE \E m \in Message : SendData(m)
    <3>1. CASE BeginSending("app")
      <4>1. NoNewSender
        BY <3>1 DEF BeginSending, Goto, TypeOK, ThreadsOK, NoNewSender
      <4>. QED
        BY <1>1, <3>1, <4>1, Begin DEF TypeOK
    <3>2. CASE UNCHANGED <<pc, sendVars>>
      BY <3>2 DEF TypeOK, ThreadsOK, PackagesOK, sendVars, NoNewSender
    <3>. QED
      BY <2>1, <3>1, <3>2 DEF SendData
  <2>2. CASE SendCloseSignal
    <3>1. pc["app"] \notin Sending /\ Goto("app", "cached") /\ UNCHANGED sendVars
      BY <2>2 DEF SendCloseSignal, MapFree, Sending
    <3>. QED
      BY <1>1, <3>1, Walk DEF TypeOK, PackagesOK, sendVars
  <2>3. CASE Event
    <3>1. pc["loop"] \notin Sending /\ Goto("loop", "read") /\ UNCHANGED sendVars
      BY <2>3 DEF Event, Sending
    <3>. QED
      BY <1>1, <3>1, Walk DEF TypeOK, PackagesOK, sendVars
  <2>4. CASE RecvData \/ RecvClose
    BY <2>4 DEF RecvData, RecvClose, TypeOK, ThreadsOK, PackagesOK, sendVars, NoNewSender
  <2>5. CASE Finish
    <3>1. pc["loop"] \notin Sending /\ Goto("loop", "idle") /\ UNCHANGED sendVars
      BY <2>5 DEF Finish, Sending
    <3>. QED
      BY <1>1, <3>1, Walk DEF TypeOK, PackagesOK, sendVars
  <2>6. CASE Check
    <3>1. pc["timer"] \notin Sending /\ UNCHANGED sendVars
      BY <2>6 DEF Check, Sending
    <3>2. CASE Goto("timer", "cached")
      BY <1>1, <3>1, <3>2, Walk DEF TypeOK, PackagesOK, sendVars
    <3>3. CASE UNCHANGED pc
      BY <3>1, <3>3 DEF TypeOK, ThreadsOK, PackagesOK, sendVars, NoNewSender
    <3>. QED
      BY <2>6, <3>2, <3>3 DEF Check
  <2>. QED
    BY <2>1, <2>2, <2>3, <2>4, <2>5, <2>6
<1>3. /\ UNCHANGED <<packageVars, bufferVars, onWire>> /\ keyRef' \in {keyRef, None}
      /\ heard' \subseteq onWire /\ Exempt' = Exempt
      /\ mapped' \in BOOLEAN /\ requireClose' \in BOOLEAN
      /\ closeStep' \in {closeStep, "Required"}
      /\ message' \in [Message -> {"new", "queued", "taken"}]
  <2>1. CASE \E m \in Message : SendData(m)
    BY <2>1 DEF SendData, TypeOK, PackagesOK, closeVars, readVars, Exempt
  <2>2. CASE RecvData
    BY <2>2 DEF RecvData, TypeOK, PackagesOK, closeVars, Exempt
  <2>3. CASE SendCloseSignal \/ Event \/ RecvClose \/ Finish \/ Check
    BY <2>3 DEF SendCloseSignal, Event, RecvClose, Finish, Check, TypeOK, PackagesOK,
       closeVars, readVars, Exempt
  <2>. QED
    BY <2>1, <2>2, <2>3
<1>4. TypeOK'
  BY <1>2, <1>3 DEF TypeOK, PackagesOK, BufferOK, packageVars, bufferVars
<1>5. PackagesOwned' /\ KeyInv'
  <2>1. (Unsent => Unsent') /\ (KeyReferred' => KeyReferred)
    BY <1>2, <1>3, NobodyNew
  <2>. QED
    BY <1>3, <2>1, Quiet DEF bufferVars
<1>. QED
  BY <1>4, <1>5

\* Packages that are confirmed leave the map.  The key-exchange package, while
\* _ecdhPackageReference points to it, has either not been sent, or is in the
\* buffer as the one that is being sent again.
LEMMA ReturnRecvTokenStep ==
  ASSUME IInv, ReturnRecvToken
  PROVE  IInv'
<1>. USE DEF IInv
<1>1. ThreadsOK' /\ NoNewSender
  <2>1. /\ pc["loop"] \notin Sending /\ "loop" \in Thread
        /\ Goto("loop", "cached") /\ token' = token
    BY DEF ReturnRecvToken, Sending, Thread, closeVars
  <2>. QED
    BY <2>1, Walk DEF TypeOK
<1>2. TypeOK'
  BY <1>1 DEF ReturnRecvToken, TypeOK, PackagesOK, BufferOK, closeVars, bufferVars
<1>3. Exempt' = Exempt /\ Pointed' = Pointed
  BY DEF ReturnRecvToken, Exempt, Pointed, closeVars, bufferVars
<1>4. /\ KeyReferred => keyRef = Key
      /\ KeyReferred' => KeyReferred
      /\ Unsent => Unsent'
  BY <1>1, NobodyNew DEF ReturnRecvToken, KeyReferred, TypeOK, PackagesOK
<1>5. KeyReferred /\ Key \notin Exempt => Key \in alive /\ Key \notin heard \ resending
  <2>1. SUFFICES ASSUME KeyReferred, Key \notin Exempt
                 PROVE  Key \in alive /\ Key \notin heard \ resending
    OBVIOUS
  <2>2. Exempt = {}
    BY <2>1 DEF Exempt
  <2>3. CASE Unsent
    BY <2>1, <2>3 DEF TypeOK, PackagesOK, Unsent, PackagesOwned
  <2>4. CASE kind = "single" /\ held = {Key}
    BY <2>1, <2>4 DEF Pointed, PackagesOwned
  <2>. QED
    BY <2>1, <2>2, <2>3, <2>4 DEF KeyInv
<1>6. PackagesOwned'
  <2>1. Pointed \ Exempt \subseteq alive \cap resending /\ unconformed \ Exempt \subseteq alive
    BY DEF PackagesOwned
  <2>2. (Pointed' \cup unconformed') \ Exempt' \subseteq alive'
    BY <1>3, <2>1 DEF ReturnRecvToken
  <2>3. {p \in {Key} : KeyReferred'} \ Exempt' \subseteq alive'
    BY <1>3, <1>4, <1>5 DEF ReturnRecvToken
  <2>4. /\ doomed' \cap alive' \cap unconformed' = {}
        /\ resending' \cap unconformed' \subseteq Pointed' \cup Exempt'
        /\ (Pointed' \ Exempt') \ resending' = {}
    BY <1>3 DEF ReturnRecvToken, PackagesOwned
  <2>. QED
    BY <2>2, <2>3, <2>4 DEF PackagesOwned
<1>7. KeyInv'
  BY <1>3, <1>4 DEF ReturnRecvToken, KeyInv, bufferVars
<1>. QED
  BY <1>2, <1>6, <1>7

\* Every step keeps the invariant.
LEMMA Step == IInv /\ [Next]_vars => IInv'
<1>. SUFFICES ASSUME IInv, [Next]_vars PROVE IInv'
  OBVIOUS
<1>1. \A t \in Thread : RealSend(t) \/ SendCachedData(t) => IInv'
  BY PrepareStep, SendStep, CachedStep DEF RealSend
<1>2. CASE App \/ Timer \/ Loop \/ SendCloseSignal \/ Event
            \/ \E m \in Message : SendData(m)
  BY <1>1, <1>2, OtherStep, ReturnRecvTokenStep DEF App, Timer, Loop, Thread
<1>3. CASE UNCHANGED vars
  <2>1. TypeOK'
    BY <1>3 DEF IInv, vars, closeVars, sendVars, readVars, packageVars, bufferVars,
       TypeOK, ThreadsOK, PackagesOK, BufferOK
  <2>2. PackagesOwned' /\ KeyInv'
    BY <1>3, Quiet DEF IInv, vars, closeVars, readVars, bufferVars, Exempt, Unsent,
       KeyReferred, MutexFree
  <2>. QED
    BY <2>1, <2>2 DEF IInv
<1>. QED
  BY <1>2, <1>3 DEF Next

-----------------------------------------------------------------------------

\* IInv is an invariant, whatever the peer confirms and whatever the socket takes.
THEOREM Invariant == Spec => []IInv
  BY InvInit, Step, PTL DEF Spec, Safety

\* The send token is free exactly while no thread is in realSend(), and no two
\* threads are in it.
THEOREM TypeCorrect == Spec => []TypeOK
<1>1. IInv => TypeOK
  BY DEF IInv
<1>. QED
  BY <1>1, Invariant, PTL

\* Nothing points to a package that has been deleted, except for the key-exchange
\* package after the close package has been made; and who sends a package again
\* is known to who takes its acknowledgement.
THEOREM PackagesStayOwned == Spec => []PackagesOwned
<1>1. IInv => PackagesOwned
  BY DEF IInv
<1>. QED
  BY <1>1, Invariant, PTL
==============================================================================
