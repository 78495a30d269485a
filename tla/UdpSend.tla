------------------------------- MODULE UdpSend -------------------------------
(*
The sending half of one UDP connection, and its end: UDPIOBuffer
(UDP.v2/UDPIOBuffer.v2.cpp) with its CurrentSendingBuffer and its
UDPUnconformedMap, as the three kinds of threads use it that may send on it:
an application thread, which holds the mutex of the ConnectionMap all the
while, the loop thread, and the timeout thread, which calls
periodUDPSendingCheck() every 50 ms.

A UDPPackage is an object on the heap.  The unconformed map, the sending buffer
and _ecdhPackageReference point to it, and it is sent from outside of the mutex
while the loop thread takes in acknowledgements that delete packages: the flags
`resending' and `requireDeleted' say who deletes it.  That is what the module
is about, and how a requested close gets through between senders.

The loop thread clears _ecdhPackageReference without the mutex under which a
sender tests and then uses it.  The sender goes on with the pointer it has read,
or reads the pointer again and uses NULL, which ends the program: `null'.

Time is left out: which packages are due to be sent again is decided anew by
every call of realSend().  So is the limit of packages that one call sends
again, which only makes the calls shorter.  What the packages say, and in which
order, is in UdpArq.
*)
EXTENDS Naturals, FiniteSets

CONSTANTS
  Package,       \* UDPPackage objects that may be made
  Key,           \* the one with the key exchange
  Message,       \* data that the application sends
  Discardable,   \* those of them that may get lost
  Limit,         \* Config::UDP::_unconfiremed_package_limitation
  None,          \* no package
  Sync, Heartbeat \* a report of what was received, and a sign of life

ASSUME UdpSendAssumption ==
  /\ Key \in Package /\ {None, Sync, Heartbeat} \cap Package = {}
  /\ Discardable \subseteq Message
  /\ Limit \in Nat \ {0}

VARIABLES
  pc,             \* where each thread is
  mapped,         \* the connection is in the ConnectionMap
  token,          \* _sendToken
  closeStep,      \* _activeCloseStatus
  requireClose,   \* _requireClose
  message,        \* where each message is
  keyRef,         \* _ecdhPackageReference
  heard,          \* what _parseResult confirms
  made,           \* packages that have been made
  alive,          \* those that have not been deleted
  onWire,         \* those that have been sent
  resending,      \* those with `resending'
  doomed,         \* those with `requireDeleted'
  unconformed,    \* the packages of _unconformedMap
  kind,           \* what _currentSendingBuffer holds
  held,           \* the packages whose bytes it holds
  sendDone,       \* they have been sent
  due             \* in this realSend(): what may be due to be sent

packageVars == <<made, alive, resending, doomed, unconformed>>
bufferVars == <<kind, held, sendDone>>
closeVars == <<mapped, closeStep, requireClose>>
sendVars == <<token, due>>
readVars == <<keyRef, heard>>
vars == <<pc, closeVars, sendVars, readVars, packageVars, bufferVars, message, onWire>>

Thread == {"app", "loop", "timer"}

Sending == {"prepare", "key", "send", "null"}

ThreadsOK ==
  /\ pc \in [Thread -> {"idle", "read", "cached", "after"} \cup Sending]
  /\ \A t \in Thread : pc[t] \in {"read", "after"} => t = "loop"
  /\ token = (\A t \in Thread : pc[t] \notin Sending)
  /\ \A s, t \in Thread : pc[s] \in Sending /\ pc[t] \in Sending => s = t

PackagesOK ==
  /\ heard \subseteq onWire /\ onWire \subseteq made
  /\ alive \subseteq made /\ made \subseteq Package
  /\ resending \subseteq made /\ doomed \subseteq made /\ unconformed \subseteq made
  /\ keyRef \in {None} \cup (made \cap {Key})
  /\ due \subseteq made \cup {Sync, Heartbeat}

BufferOK ==
  /\ held \subseteq made /\ sendDone \in BOOLEAN
  /\ \/ kind = "empty" /\ held = {}
     \/ kind = "raw" /\ (held = {} \/ \E p \in made : held = {p})
     \/ kind = "single" /\ \E p \in made : held = {p}
     \/ kind = "assembled" /\ held # {}

TypeOK ==
  /\ ThreadsOK /\ PackagesOK /\ BufferOK
  /\ mapped \in BOOLEAN /\ requireClose \in BOOLEAN
  /\ closeStep \in {"None", "Required", "GenPackage", "PackageSent"}
  /\ message \in [Message -> {"new", "queued", "taken"}]

\* An encrypted connection begins with the key-exchange package in the map and
\* in the buffer.
Init ==
  /\ pc = [t \in Thread |-> "idle"]
  /\ mapped = TRUE /\ token = TRUE
  /\ closeStep = "None" /\ requireClose = FALSE
  /\ message = [m \in Message |-> "new"]
  /\ keyRef \in {Key, None}
  /\ made = {keyRef} \ {None}
  /\ alive = made /\ unconformed = made /\ held = made
  /\ kind = IF keyRef = None THEN "empty" ELSE "raw"
  /\ sendDone = FALSE
  /\ heard = {} /\ onWire = {} /\ resending = {} /\ doomed = {} /\ due = {}

Goto(t, label) == pc' = [pc EXCEPT ![t] = label]

\* The application holds the mutex of the map from the beginning of a call to
\* its end; the others look at the map in between.
MapFree == pc["app"] = "idle"

\* UDPIOBuffer::_mutex.  A sender has it while it looks at the key-exchange
\* package; all else that is done under it is one action.
MutexFree == \A t \in Thread : pc[t] # "key"

\* A thread has used a NULL pointer.
Crashed == \E t \in Thread : pc[t] = "null"

-----------------------------------------------------------------------------
(* The buffer *)

\* The packages that the buffer points to: resendingPackage, assembledPackages.
Pointed == IF kind \in {"single", "assembled"} THEN held ELSE {}

\* reset() lets go of them.  Of assembled packages it deletes those that were
\* confirmed meanwhile; one that was sent alone it does not.
KeptByReset == IF kind = "assembled" THEN alive \ (held \cap doomed) ELSE alive
BusyAfterReset == resending \ Pointed

FillBuffer(what, packages) ==
  /\ kind' = what /\ held' = packages /\ sendDone' = FALSE

\* realSend() begins with the token, and with a new _resendThreshold.
BeginSending(t) ==
  /\ token
  /\ token' = FALSE
  /\ due' = unconformed \cup ({keyRef} \ {None}) \cup {Sync, Heartbeat}
  /\ Goto(t, "prepare")

\* and ends with giving it back.  The application then lets go of the mutex, the
\* timeout thread of its reference, and the loop thread goes on to Finish.
Leave(t) == Goto(t, IF t = "loop" THEN "after" ELSE "idle")

\* Mutant: the way out with a full socket forgets the token.
LeaveWithToken(t) ==
  /\ token' = token
  /\ due' = {}
  /\ Leave(t)

ReturnToken(t) ==
  /\ token' = TRUE
  /\ due' = {}
  /\ Leave(t)

SendCachedData(t) ==
  /\ pc[t] = "cached" /\ MutexFree
  /\ \/ BeginSending(t)
     \/ ~token /\ Leave(t) /\ UNCHANGED sendVars
  /\ UNCHANGED <<closeVars, readVars, packageVars, bufferVars, message, onWire>>

-----------------------------------------------------------------------------
(* prepareSendingPackage(), and what realSend() looks at before it *)

\* Mutant: the package is counted as sent, but the connection not marked.
CloseSentUnmarked(t) ==
  /\ pc[t] = "prepare" /\ closeStep = "GenPackage"
  /\ closeStep' = "PackageSent"
  /\ ReturnToken(t)
  /\ UNCHANGED <<mapped, requireClose, readVars, packageVars, bufferVars, message, onWire>>

\* The close package was made by this call, or by one that met EAGAIN.
CloseSent(t) ==
  /\ pc[t] = "prepare" /\ closeStep = "GenPackage"
  /\ closeStep' = "PackageSent" /\ requireClose' = TRUE
  /\ ReturnToken(t)
  /\ UNCHANGED <<mapped, readVars, packageVars, bufferVars, message, onWire>>

PrepareClosePackage(t) ==
  /\ pc[t] = "prepare" /\ closeStep = "Required"
  /\ closeStep' = "GenPackage"
  /\ alive' = KeptByReset /\ resending' = BusyAfterReset
  /\ FillBuffer("raw", {})
  /\ Goto(t, "send")
  /\ UNCHANGED <<mapped, requireClose, sendVars, readVars, made, doomed, unconformed,
                 message, onWire>>

Preparing(t) == pc[t] = "prepare" /\ closeStep \in {"None", "PackageSent"}

\* Flow control.
BlockedSending(t) ==
  /\ Preparing(t)
  /\ ReturnToken(t)
  /\ UNCHANGED <<closeVars, readVars, packageVars, bufferVars, message, onWire>>

\* Until it is confirmed, the key exchange is all that is sent ...
CheckKey(t) ==
  /\ Preparing(t) /\ keyRef # None
  /\ Goto(t, "key")
  /\ UNCHANGED <<closeVars, sendVars, readVars, packageVars, bufferVars, message, onWire>>

\* ... when it is due again.  The buffer is not reset.
ResendKey(t) ==
  /\ pc[t] = "key" /\ Key \in due
  /\ FillBuffer("single", {Key})
  /\ resending' = resending \cup {Key}
  /\ Goto(t, "send")
  /\ UNCHANGED <<closeVars, sendVars, readVars, made, alive, doomed, unconformed,
                 message, onWire>>

KeyUnderWay(t) ==
  /\ pc[t] = "key"
  /\ ReturnToken(t)
  /\ UNCHANGED <<closeVars, readVars, packageVars, bufferVars, message, onWire>>

\* The reference was cleared after the test, and is read again.
UseClearedKey(t) ==
  /\ pc[t] = "key" /\ keyRef = None
  /\ Goto(t, "null")
  /\ UNCHANGED <<closeVars, sendVars, readVars, packageVars, bufferVars, message, onWire>>

SendAgain(t) ==
  /\ Preparing(t) /\ keyRef = None /\ kind # "empty" /\ ~sendDone
  /\ Goto(t, "send")
  /\ UNCHANGED <<closeVars, sendVars, readVars, packageVars, bufferVars, message, onWire>>

Ready(t) == Preparing(t) /\ keyRef = None /\ (kind = "empty" \/ sendDone)

Queued == {m \in Message : message[m] = "queued"}
Take(M) == message' = [m \in Message |-> IF m \in M THEN "taken" ELSE message[m]]

\* fetchResendPackages() picks packages that are due.
Fetched == due \cap unconformed

\* The next object that `new' returns; Package is the bound on them.
Unused == Package \ (made \cup {Key})
NewPackage == CHOOSE p \in Unused : TRUE

\* paddingResendPackages(): a package for what is in the buffer goes into the
\* map, unless it may get lost, and others that are due fill up the datagram.
PaddingResendPackages(discardable) ==
  \/ /\ discardable
     /\ alive' = KeptByReset /\ resending' = BusyAfterReset
     /\ FillBuffer("raw", {})
     /\ UNCHANGED <<made, doomed, unconformed>>
  \/ /\ Unused # {}
     /\ \E S \in SUBSET Fetched :
          LET p == NewPackage
              datagram == IF S = {} THEN {} ELSE S \cup {p}
          IN /\ S = {} => ~discardable
             /\ made' = made \cup {p} /\ alive' = KeptByReset \cup {p}
             /\ unconformed' = IF discardable THEN unconformed ELSE unconformed \cup {p}
             /\ doomed' = IF discardable THEN doomed \cup {p} ELSE doomed
             /\ FillBuffer(IF S = {} THEN "raw" ELSE "assembled", S \cup {p})
             /\ resending' = BusyAfterReset \cup datagram

PrepareUrgentARQSync(t) ==
  /\ Ready(t) /\ Sync \in due
  /\ due' = due \ {Sync}
  /\ \E M \in SUBSET Queued :
       /\ M # {} => Cardinality(unconformed) <= Limit \div 2
       /\ Take(M)
       /\ PaddingResendPackages(M \subseteq Discardable)
  /\ Goto(t, "send")
  /\ UNCHANGED <<closeVars, token, readVars, onWire>>

PrepareResentPackage(t) ==
  /\ Ready(t)
  /\ \/ \E S \in (SUBSET Fetched) \ {{}} :
          FillBuffer("assembled", S) /\ resending' = BusyAfterReset \cup S
     \/ \E p \in Fetched :
          FillBuffer("single", {p}) /\ resending' = BusyAfterReset \cup {p}
  /\ alive' = KeptByReset
  /\ Goto(t, "send")
  /\ UNCHANGED <<closeVars, sendVars, readVars, made, doomed, unconformed,
                 message, onWire>>

PrepareCommonPackage(t) ==
  /\ Ready(t)
  /\ Cardinality(unconformed) < Limit
  /\ \E M \in (SUBSET Queued) \ {{}} :
       Take(M) /\ PaddingResendPackages(M \subseteq Discardable)
  /\ Goto(t, "send")
  /\ UNCHANGED <<closeVars, sendVars, readVars, onWire>>

\* Nothing to send, or too much unconfirmed, or the bound of the model.
Idle(t) ==
  /\ Ready(t)
  /\ Queued = {} \/ Cardinality(unconformed) >= Limit \/ Unused = {}
  /\ kind' = "empty" /\ held' = {} /\ sendDone' = FALSE
  /\ alive' = KeptByReset /\ resending' = BusyAfterReset
  /\ ReturnToken(t)
  /\ UNCHANGED <<closeVars, readVars, made, doomed, unconformed, message, onWire>>

PrepareHeartbeat(t) ==
  /\ Ready(t) /\ Queued = {} /\ Heartbeat \in due
  /\ FillBuffer("raw", {})
  /\ alive' = KeptByReset /\ resending' = BusyAfterReset
  /\ Goto(t, "send")
  /\ UNCHANGED <<closeVars, sendVars, readVars, made, doomed, unconformed,
                 message, onWire>>

Prepare(t) ==
  \/ CloseSent(t) \/ PrepareClosePackage(t) \/ BlockedSending(t)
  \/ CheckKey(t) \/ ResendKey(t) \/ KeyUnderWay(t) \/ UseClearedKey(t)
  \/ SendAgain(t) \/ PrepareUrgentARQSync(t) \/ PrepareResentPackage(t)
  \/ PrepareCommonPackage(t) \/ PrepareHeartbeat(t) \/ Idle(t)

-----------------------------------------------------------------------------
(* ::send() and its outcomes; EINTR sends again *)

\* updateSendingInfo() writes to the packages the buffer points to.
Sent(t) ==
  /\ pc[t] = "send"
  /\ sendDone' = TRUE
  /\ onWire' = onWire \cup held
  /\ due' = due \ (held \cup {Heartbeat})
  /\ Goto(t, "prepare")
  /\ UNCHANGED <<closeVars, token, readVars, packageVars, kind, held, message>>

\* EAGAIN, and any error but ECONNREFUSED: the package stays in the buffer.
NotSent(t) ==
  /\ pc[t] = "send"
  /\ ReturnToken(t)
  /\ UNCHANGED <<closeVars, readVars, packageVars, bufferVars, message, onWire>>

Refused(t) ==
  /\ pc[t] = "send"
  /\ requireClose' = TRUE
  /\ ReturnToken(t)
  /\ UNCHANGED <<mapped, closeStep, readVars, packageVars, bufferVars, message, onWire>>

RealSend(t) == Prepare(t) \/ Sent(t) \/ NotSent(t) \/ Refused(t)

-----------------------------------------------------------------------------
(* An application thread, under the mutex of the map *)

SendData(m) ==
  /\ MapFree /\ mapped /\ MutexFree
  /\ message[m] = "new" /\ message' = [message EXCEPT ![m] = "queued"]
  /\ \/ BeginSending("app")
     \/ ~token /\ UNCHANGED <<pc, sendVars>>
  /\ UNCHANGED <<closeVars, readVars, packageVars, bufferVars, onWire>>

\* UDPClient::close() finds its connection in the map, and leaves it there.
SendCloseSignal ==
  /\ MapFree /\ mapped /\ MutexFree
  /\ closeStep = "None" /\ closeStep' = "Required"
  /\ Goto("app", "cached")
  /\ UNCHANGED <<mapped, requireClose, sendVars, readVars, packageVars, bufferVars,
                 message, onWire>>

App == ~Crashed /\ (SendCachedData("app") \/ RealSend("app"))

-----------------------------------------------------------------------------
(* The loop thread *)

\* An event of the socket: the connection is signed, getRecvToken() succeeds.  One
\* without data to read takes the same way, and reads nothing.
Event ==
  /\ MapFree /\ mapped /\ MutexFree
  /\ pc["loop"] = "idle"
  /\ Goto("loop", "read")
  /\ UNCHANGED <<closeVars, sendVars, readVars, packageVars, bufferVars,
                 message, onWire>>

\* recvData() of a datagram that confirms some packages; the key-exchange package
\* perhaps once more, when it has left the map.  If a package in the datagram was
\* received before, parse() returns false and checkEcdhSeq() is not called; what
\* the datagram confirms has been noted all the same.
RecvData ==
  /\ pc["loop"] = "read" /\ ~requireClose
  /\ \E K \in SUBSET ((unconformed \cup {keyRef}) \cap onWire), parsed \in BOOLEAN :
       /\ heard' = heard \cup (K \cap unconformed)
       /\ keyRef' = IF parsed /\ keyRef \in heard \cup K THEN None ELSE keyRef
  /\ UNCHANGED <<pc, closeVars, sendVars, packageVars, bufferVars, message, onWire>>

\* The close package of the peer.
RecvClose ==
  /\ pc["loop"] = "read" /\ ~requireClose
  /\ requireClose' = TRUE
  /\ UNCHANGED <<pc, mapped, closeStep, sendVars, readVars, packageVars, bufferVars,
                 message, onWire>>

\* Mutant: what is confirmed is deleted, whoever is sending it.
ReturnRecvTokenDeletes ==
  /\ pc["loop"] = "read" /\ MutexFree
  /\ alive' = alive \ heard
  /\ unconformed' = unconformed \ heard
  /\ heard' = {}
  /\ due' = IF token THEN due ELSE due \cup {Sync}
  /\ Goto("loop", "cached")
  /\ UNCHANGED <<closeVars, token, keyRef, made, resending, doomed, bufferVars, message, onWire>>

\* There is no more to read: returnRecvToken().  A confirmed package leaves the
\* map; it is deleted, or left to the sender who is sending it.
ReturnRecvToken ==
  /\ pc["loop"] = "read" /\ MutexFree
  /\ alive' = alive \ (heard \ resending)
  /\ doomed' = doomed \cup (heard \cap resending)
  /\ unconformed' = unconformed \ heard
  /\ heard' = {}
  /\ due' = IF token THEN due ELSE due \cup {Sync}
  /\ Goto("loop", "cached")
  /\ UNCHANGED <<closeVars, token, keyRef, made, resending, bufferVars, message, onWire>>

\* isRequireClose() is also true when nothing has come for long enough.
Finish ==
  /\ pc["loop"] = "after"
  /\ \/ ~requireClose /\ UNCHANGED mapped
     \/ MapFree /\ mapped' = FALSE
  /\ Goto("loop", "idle")
  /\ UNCHANGED <<closeStep, requireClose, sendVars, readVars, packageVars, bufferVars,
                 message, onWire>>

Loop ==
  /\ ~Crashed
  /\ \/ RecvData \/ RecvClose \/ ReturnRecvToken
     \/ SendCachedData("loop") \/ RealSend("loop") \/ Finish

-----------------------------------------------------------------------------
(* The timeout thread: periodUDPSendingCheck() *)

Check ==
  /\ MapFree /\ mapped
  /\ pc["timer"] = "idle"
  /\ \/ ~requireClose /\ Goto("timer", "cached") /\ UNCHANGED mapped
     \/ mapped' = FALSE /\ UNCHANGED pc
  /\ UNCHANGED <<closeStep, requireClose, sendVars, readVars, packageVars, bufferVars,
                 message, onWire>>

Timer == ~Crashed /\ (Check \/ SendCachedData("timer") \/ RealSend("timer"))

-----------------------------------------------------------------------------

Next ==
  \/ ~Crashed /\ (SendCloseSignal \/ Event \/ \E m \in Message : SendData(m))
  \/ App \/ Loop \/ Timer

Safety == Init /\ [][Next]_vars

\* Each thread goes on; ::send() is not interrupted for ever.  Nothing is assumed
\* of the peer, and none of its packages has to come.
Spec == Safety /\ WF_vars(App) /\ WF_vars(Loop) /\ WF_vars(Timer)

-----------------------------------------------------------------------------
(* Properties *)

\* Once the close package is made, the buffer no longer keeps the key-exchange
\* package from being deleted, and _ecdhPackageReference may be left dangling
\* by a datagram that confirms it without being parsed to its end.
Exempt == IF closeStep \in {"GenPackage", "PackageSent"} THEN {Key} ELSE {}

\* A sender that has tested _ecdhPackageReference still goes by it.
KeyReferred == keyRef # None \/ ~MutexFree

\* Between senders and the thread that takes in acknowledgements, each package is
\* deleted by one of them, and not too early.  Nothing points to a deleted
\* package.  One that waits to be deleted has left the map, so that it is not
\* confirmed and deleted once more.  One in the map that is being sent is the one
\* the buffer points to, and all the buffer points to are marked as being sent:
\* who takes in the acknowledgement knows of the sender.  That the sender then
\* deletes what waits for it is not stated, and not so: reset() forgets a package
\* that was sent again alone.
PackagesOwned ==
  /\ (Pointed \cup unconformed \cup {p \in {Key} : KeyReferred}) \ Exempt \subseteq alive
  /\ doomed \cap alive \cap unconformed = {}
  /\ resending \cap unconformed \subseteq Pointed \cup Exempt
  /\ (Pointed \ Exempt) \ resending = {}

\* A close that the application has requested gets through, whoever has the
\* token and whether the socket takes the close package or not.
CloseCompletes == closeStep # "None" ~> ~mapped

\* No sender uses _ecdhPackageReference after the loop thread has cleared it.  The
\* code does not ensure it, so this does not hold.
NoNullUse == ~Crashed
==============================================================================
