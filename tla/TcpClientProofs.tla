--------------------------- MODULE TcpClientProofs ---------------------------
(***************************************************************************)
(* Proofs about TcpClient, for any number of attempts, quests and threads. *)
(*                                                                         *)
(* Two arguments: the events of an attempt follow from where its two pool  *)
(* tasks are and from ConnectionEventStatus, whatever the client does; and *)
(* as long as no close() has met a connecting client, at most one attempt  *)
(* is on its way to perpareConnection(), and the client waits for it.      *)
(***************************************************************************)
EXTENDS TcpClient, FiniteSetTheorems, SequenceTheorems, TLAPS

(* The events of attempt a *)

\* The two tasks that report: the one of socketConnected(), and ClientCloseTask.
NotBegun == {"none", "signed", "queued", "failing"}

\* No connection object was made, or socket() failed.
NoSocket(a) ==
  /\ where[a] = "none" /\ task[a] = "none"
  /\ ev[a].conn = 0 /\ ~ev[a].requireClose
  /\ lambda[a] = "none"
  /\ \/ pc[a] \in {"idle", "connecting", "preparing"} /\ events[a] = <<>>
     \/ pc[a] = "done" /\ events[a] = <<"cancelled">>

\* Neither task has begun to report.
Silent(a) ==
  /\ ev[a].conn = 0
  /\ lambda[a] \in NotBegun
  /\ task[a] # "done"
  /\ ~ev[a].requireClose
  /\ events[a] = <<>>

\* ClientCloseTask came first.
ClosedFirst(a) ==
  /\ ev[a].conn = 1
  /\ task[a] = "done"
  /\ lambda[a] \in NotBegun \cup {"over"}
  /\ events[a] = <<"cancelled">>

\* The task of socketConnected() came first, and has not reported.
Begun(a) ==
  /\ ev[a].conn = 1
  /\ lambda[a] \in {"permitted", "cancelling", "cancelled"}
  /\ ev[a].requireClose <=> task[a] = "done"
  /\ events[a] = <<>>

\* It is in connected(..., true).
Calling(a) ==
  /\ ev[a].conn = 1
  /\ lambda[a] = "calling"
  /\ ev[a].requireClose <=> task[a] = "done"
  /\ events[a] = <<"connected">>

\* It has reported a failure.
Cancelled(a) ==
  /\ ev[a].conn = 1
  /\ lambda[a] \in {"dropping", "over"}
  /\ events[a] = <<"cancelled">>

\* It has reported a connection.
Established(a) ==
  /\ ev[a].conn = 2
  /\ lambda[a] = "over"
  /\ events[a] = IF task[a] = "done" THEN <<"connected", "close">> ELSE <<"connected">>

Told(a) ==
  /\ where[a] = "none" => NoSocket(a)
  /\ where[a] # "none" =>
       /\ pc[a] \in {"joined", "dumping", "done"}
       /\ task[a] # "none" <=> where[a] = "closed"
       /\ immediate[a] /\ pc[a] # "done" => lambda[a] = "none"
       /\ \/ Silent(a) \/ ClosedFirst(a) \/ Begun(a) \/ Calling(a)
          \/ Cancelled(a) \/ Established(a)

EventInv == \A a \in Attempt : Told(a)

(* The client *)

Early(a) == pc[a] \in {"connecting", "preparing"}
Live(a) == where[a] \in {"mapped", "expired", "taken"}

ClientInv ==
  /\ connected <=> status = "Connected"
  /\ \A a \in Attempt : where[a] = "closed" => info # a
  /\ \A a \in Attempt : info = a => pc[a] \notin {"idle", "connecting"}
  /\ ~raced =>
       /\ status = "NoConnected" => info \in Blank
       /\ \A a \in Attempt : Early(a) => status = "Connecting"
       /\ \A a \in Attempt : pc[a] = "connecting" => info = base[a] /\ info \in Blank
       /\ \A a \in Attempt : pc[a] = "preparing" => info = a
       /\ \A a, b \in Attempt : Early(a) /\ Early(b) => a = b
       /\ status = "Connecting" => \E a \in Attempt : Early(a) \/ (info = a /\ Live(a))
       /\ status = "Connected" => \E a \in Attempt : info = a /\ Live(a)
       /\ CacheOwned

IInv == TypeOK /\ EventInv /\ ClientInv

-----------------------------------------------------------------------------
(* Events *)

\* The types the events depend on.
EventTypes ==
  /\ pc \in [Attempt -> Pc]
  /\ where \in [Attempt -> Where]
  /\ lambda \in [Attempt -> Lambda]
  /\ immediate \in [Attempt -> BOOLEAN]
  /\ task \in [Attempt -> {"none", "queued", "done"}]
  /\ ev \in [Attempt -> EventStatus]
  /\ events \in [Attempt -> Seq(Event)]

LEMMA Lists ==
  /\ Append(<<>>, "cancelled") = <<"cancelled">>
  /\ Append(<<>>, "connected") = <<"connected">>
  /\ Append(<<"connected">>, "close") = <<"connected", "close">>
<1>. DEFINE s == Append(<<"connected">>, "close")
            t == <<"connected", "close">>
<1>1. s \in Seq(Event) /\ Len(s) = 2 /\ s[1] = "connected" /\ s[2] = "close"
  BY DEF Event
<1>2. t \in Seq(Event) /\ Len(t) = 2 /\ t[1] = "connected" /\ t[2] = "close"
  BY DEF Event
<1>3. s = t
  <2>. HIDE DEF s, t
  <2>1. \A i \in 1..Len(s) : s[i] = t[i]
    BY <1>1, <1>2
  <2>. QED
    BY <1>1, <1>2, <2>1, SeqEqual
<1>. QED
  BY <1>3 DEF s, t

\* A step that changes what is known of one attempt at most.
Same(a) ==
  /\ pc'[a] = pc[a] /\ where'[a] = where[a] /\ lambda'[a] = lambda[a]
  /\ immediate'[a] = immediate[a] /\ task'[a] = task[a]
  /\ ev'[a] = ev[a] /\ events'[a] = events[a]

LEMMA OneAttempt ==
  ASSUME EventInv, NEW a \in Attempt,
         \A b \in Attempt : b # a => Same(b),
         Told(a)'
  PROVE  EventInv'
<1>1. ASSUME NEW b \in Attempt, b # a PROVE Told(b)'
  BY <1>1 DEF EventInv, Same, Told, NoSocket, Silent, ClosedFirst, Begun, Calling,
     Cancelled, Established
<1>. QED
  BY <1>1 DEF EventInv

LEMMA EventStep == EventTypes /\ EventInv /\ [Next]_vars => EventInv'
<1>. SUFFICES ASSUME EventTypes, EventInv, [Next]_vars PROVE EventInv'
  OBVIOUS
<1>1. ASSUME NEW a \in Attempt, Begin(a) PROVE EventInv'
  BY <1>1 DEF Begin, connVars, closeVars, EventTypes, EventInv, Told, NoSocket,
     Silent, ClosedFirst, Begun, Calling, Cancelled, Established, NotBegun,
     EventStatus
<1>2. ASSUME NEW a \in Attempt, SocketFails(a) PROVE EventInv'
  <2>1. \A b \in Attempt : b # a => Same(b)
    BY <1>2 DEF SocketFails, closeVars, Called, EventTypes, Same
  <2>2. Told(a)
    BY DEF EventInv
  <2>3. Told(a)'
    BY <1>2, <2>2, Lists DEF SocketFails, closeVars, Called, EventTypes, Told, NoSocket
  <2>. QED
    BY <2>1, <2>3, OneAttempt
<1>3. ASSUME NEW a \in Attempt, NEW now \in BOOLEAN, PrepareConnection(a, now)
      PROVE  EventInv'
  BY <1>3 DEF PrepareConnection, connVars, closeVars, EventTypes, EventInv, Told,
     NoSocket, Silent, ClosedFirst, Begun, Calling, Cancelled, Established, NotBegun,
     EventStatus
<1>4. ASSUME NEW a \in Attempt, JoinFails(a) PROVE EventInv'
  <2>1. \A b \in Attempt : b # a => Same(b)
    BY <1>4 DEF JoinFails, closeVars, NewCloseTask, EventTypes, Same
  <2>2. Told(a)
    BY DEF EventInv
  <2>3. Told(a)'
    BY <1>4, <2>2 DEF JoinFails, closeVars, NewCloseTask, EventTypes, EventStatus,
       Told, NoSocket, Silent, NotBegun
  <2>. QED
    BY <2>1, <2>3, OneAttempt
<1>5. ASSUME NEW a \in Attempt, Join(a) PROVE EventInv'
  <2>1. \A b \in Attempt : b # a => Same(b)
    BY <1>5 DEF Join, clientVars, closeVars, EventTypes, Same
  <2>2. Told(a)
    BY DEF EventInv
  <2>3. Told(a)'
    BY <1>5, <2>2 DEF Join, clientVars, closeVars, EventTypes, Told, NoSocket,
       Silent, NotBegun
  <2>. QED
    BY <2>1, <2>3, OneAttempt
<1>6. ASSUME NEW a \in Attempt, DumpCache(a) PROVE EventInv'
  BY <1>6 DEF DumpCache, connVars, closeVars, EventTypes, EventInv, Told, NoSocket,
     Silent, ClosedFirst, Begun, Calling, Cancelled, Established, NotBegun,
     EventStatus
<1>7. ASSUME NEW a \in Attempt, NEW q \in Quest, DumpOne(a, q) PROVE EventInv'
  BY <1>7 DEF DumpOne, connVars, closeVars, EventTypes, EventInv, Told, NoSocket,
     Silent, ClosedFirst, Begun, Calling, Cancelled, Established, NotBegun,
     EventStatus
<1>8. ASSUME NEW a \in Attempt, DumpDone(a) PROVE EventInv'
  BY <1>8 DEF DumpDone, clientVars, closeVars, To, EventTypes, EventInv, Told,
     NoSocket, Silent, ClosedFirst, Begun, Calling, Cancelled, Established, NotBegun,
     EventStatus
<1>9. ASSUME NEW a \in Attempt, SignConnecting(a) PROVE EventInv'
  BY <1>9 DEF SignConnecting, clientVars, attemptVars, closeVars, To, EventTypes,
     EventInv, Told, NoSocket, Silent, ClosedFirst, Begun, Calling, Cancelled,
     Established, NotBegun, EventStatus
<1>10. ASSUME NEW a \in Attempt, NEW ok \in BOOLEAN, SocketConnected(a, ok)
       PROVE  EventInv'
  BY <1>10 DEF SocketConnected, clientVars, attemptVars, closeVars, To, EventTypes,
     EventInv, Told, NoSocket, Silent, ClosedFirst, Begun, Calling, Cancelled,
     Established, NotBegun, EventStatus
<1>11. ASSUME NEW a \in Attempt, TakeConnection(a) PROVE EventInv'
  BY <1>11 DEF TakeConnection, clientVars, attemptVars, closeVars, EventTypes,
     EventInv, Told, NoSocket, Silent, ClosedFirst, Begun, Calling, Cancelled,
     Established, NotBegun, EventStatus
<1>12. ASSUME NEW a \in Attempt, Expire(a) PROVE EventInv'
  BY <1>12 DEF Expire, clientVars, attemptVars, closeVars, EventTypes, EventInv,
     Told, NoSocket, Silent, ClosedFirst, Begun, Calling, Cancelled, Established,
     NotBegun, EventStatus
<1>13. ASSUME NEW a \in Attempt, ExpireFailed(a) PROVE EventInv'
  BY <1>13 DEF ExpireFailed, attemptVars, closeVars, EventTypes, EventInv, Told,
     NoSocket, Silent, ClosedFirst, Begun, Calling, Cancelled, Established, NotBegun,
     EventStatus
<1>14. ASSUME NEW a \in Attempt, WillClose(a) PROVE EventInv'
  BY <1>14 DEF WillClose, clientVars, attemptVars, closeVars, NewCloseTask,
     EventTypes, EventInv, Told, NoSocket, Silent, ClosedFirst, Begun, Calling,
     Cancelled, Established, NotBegun, EventStatus
<1>15. ASSUME NEW a \in Attempt, RunCloseTask(a) PROVE EventInv'
  <2>1. \A b \in Attempt : b # a => Same(b)
    BY <1>15 DEF RunCloseTask, clientVars, attemptVars, closeVars, Called,
       EventTypes, Same
  <2>2. Told(a)
    BY DEF EventInv
  <2>3. Told(a)'
    <3>1. task[a] = "queued" /\ where[a] = "closed"
      BY <1>15, <2>2 DEF RunCloseTask, EventTypes, Told, NoSocket
    <3>2. /\ UNCHANGED <<pc, where, lambda, immediate>> /\ task'[a] = "done"
          /\ \/ ev[a].conn = 0 /\ ev'[a].conn = 1 /\ events'[a] = Append(events[a], "cancelled")
             \/ ev[a].conn = 1 /\ ev'[a].conn = 1 /\ ev'[a].requireClose /\ events' = events
             \/ ev[a].conn = 2 /\ ev'[a].conn = 2 /\ events'[a] = Append(events[a], "close")
      BY <1>15 DEF RunCloseTask, clientVars, attemptVars, closeVars, Called,
         EventTypes, EventStatus
    <3>3. CASE Silent(a)
      BY <2>2, <3>1, <3>2, <3>3, Lists DEF Told, Silent, ClosedFirst, NotBegun
    <3>4. CASE Begun(a)
      BY <2>2, <3>1, <3>2, <3>4 DEF Told, Begun
    <3>5. CASE Calling(a)
      BY <2>2, <3>1, <3>2, <3>5 DEF Told, Calling
    <3>6. CASE Cancelled(a)
      BY <2>2, <3>1, <3>2, <3>6 DEF Told, Cancelled
    <3>7. CASE Established(a)
      BY <2>2, <3>1, <3>2, <3>7, Lists DEF Told, Established
    <3>. QED
      BY <2>2, <3>1, <3>3, <3>4, <3>5, <3>6, <3>7 DEF Told, ClosedFirst
  <2>. QED
    BY <2>1, <2>3, OneAttempt
<1>16. ASSUME NEW a \in Attempt, RunConnected(a) PROVE EventInv'
  <2>1. \A b \in Attempt : b # a => Same(b)
    BY <1>16 DEF RunConnected, clientVars, attemptVars, closeVars, To, EventTypes, Same
  <2>2. Told(a)
    BY DEF EventInv
  <2>3. Told(a)'
    <3>1. /\ lambda[a] = "queued"
          /\ UNCHANGED <<pc, where, immediate, task, events>>
          /\ ev'[a].requireClose = ev[a].requireClose
          /\ \/ ev[a].conn # 0 /\ lambda'[a] = "over" /\ ev' = ev
             \/ ev[a].conn = 0 /\ lambda'[a] \in {"cancelling", "permitted"} /\ ev'[a].conn = 1
      BY <1>16 DEF RunConnected, clientVars, attemptVars, closeVars, To, EventTypes,
         EventStatus
    <3>. QED
      BY <2>2, <3>1 DEF Told, NoSocket, Silent, ClosedFirst, Begun, Calling, Cancelled,
         Established, NotBegun, EventTypes
  <2>. QED
    BY <2>1, <2>3, OneAttempt
<1>17. ASSUME NEW a \in Attempt, ConnectSuccessed(a) PROVE EventInv'
  <2>1. \A b \in Attempt : b # a => Same(b)
    BY <1>17 DEF ConnectSuccessed, clientVars, attemptVars, closeVars, Called, To,
       EventTypes, Same
  <2>2. Told(a)
    BY DEF EventInv
  <2>3. Told(a)'
    <3>1. Begun(a) /\ where[a] # "none"
      BY <1>17, <2>2 DEF ConnectSuccessed, Told, NoSocket, Silent, ClosedFirst, Begun,
         Calling, Cancelled, Established, NotBegun
    <3>2. /\ UNCHANGED <<pc, where, immediate, task>>
          /\ ev'[a].conn = ev[a].conn /\ ev'[a].requireClose = ev[a].requireClose
          /\ \/ lambda'[a] = "calling" /\ events'[a] = Append(events[a], "connected")
             \/ lambda'[a] = "cancelling" /\ events' = events
      BY <1>17 DEF ConnectSuccessed, clientVars, attemptVars, closeVars, Called, To,
         EventTypes, EventStatus
    <3>. QED
      BY <1>17, <2>2, <3>1, <3>2, Lists DEF ConnectSuccessed, Told, Begun, Calling
  <2>. QED
    BY <2>1, <2>3, OneAttempt
<1>18. ASSUME NEW a \in Attempt, ConnectedEventCalled(a) PROVE EventInv'
  <2>1. \A b \in Attempt : b # a => Same(b)
    BY <1>18 DEF ConnectedEventCalled, clientVars, attemptVars, closeVars, Called,
       To, EventTypes, Same
  <2>2. Told(a)
    BY DEF EventInv
  <2>3. Told(a)'
    <3>1. Calling(a) /\ where[a] # "none"
      BY <1>18, <2>2 DEF ConnectedEventCalled, Told, NoSocket, Silent, ClosedFirst,
         Begun,
         Calling, Cancelled, Established, NotBegun
    <3>2. /\ UNCHANGED <<pc, where, immediate, task>>
          /\ ev'[a].conn = 2 /\ lambda'[a] = "over"
          /\ events'[a] = IF ev[a].requireClose THEN Append(events[a], "close") ELSE events[a]
      BY <1>18 DEF ConnectedEventCalled, clientVars, attemptVars, closeVars, Called,
         To, EventTypes, EventStatus
    <3>. QED
      BY <1>18, <2>2, <3>1, <3>2, Lists DEF ConnectedEventCalled, Told, Calling,
         Established
  <2>. QED
    BY <2>1, <2>3, OneAttempt
<1>19. ASSUME NEW a \in Attempt, CancelConnecting(a) PROVE EventInv'
  BY <1>19 DEF CancelConnecting, attemptVars, closeVars, To, EventTypes, EventInv,
     Told, NoSocket, Silent, ClosedFirst, Begun, Calling, Cancelled, Established,
     NotBegun, EventStatus
<1>20. ASSUME NEW a \in Attempt, RunFailed(a) PROVE EventInv'
  BY <1>20 DEF RunFailed, attemptVars, closeVars, To, EventTypes, EventInv, Told,
     NoSocket, Silent, ClosedFirst, Begun, Calling, Cancelled, Established, NotBegun,
     EventStatus
<1>21. ASSUME NEW a \in Attempt, FailPermission(a) PROVE EventInv'
  <2>1. \A b \in Attempt : b # a => Same(b)
    BY <1>21 DEF FailPermission, clientVars, attemptVars, closeVars, To, EventTypes,
       Same
  <2>2. Told(a)
    BY DEF EventInv
  <2>3. Told(a)'
    <3>1. /\ lambda[a] = "failing"
          /\ UNCHANGED <<pc, where, immediate, task, events>>
          /\ ev'[a].requireClose = ev[a].requireClose
          /\ \/ ev[a].conn # 0 /\ lambda'[a] = "over" /\ ev' = ev
             \/ ev[a].conn = 0 /\ lambda'[a] = "cancelled" /\ ev'[a].conn = 1
      BY <1>21 DEF FailPermission, clientVars, attemptVars, closeVars, To,
         EventTypes, EventStatus
    <3>. QED
      BY <2>2, <3>1 DEF Told, NoSocket, Silent, ClosedFirst, Begun, Calling, Cancelled,
         Established, NotBegun, EventTypes
  <2>. QED
    BY <2>1, <2>3, OneAttempt
<1>22. ASSUME NEW a \in Attempt, CallFailed(a) PROVE EventInv'
  <2>1. \A b \in Attempt : b # a => Same(b)
    BY <1>22 DEF CallFailed, clientVars, attemptVars, closeVars, Called, To,
       EventTypes, Same
  <2>2. Told(a)
    BY DEF EventInv
  <2>3. Told(a)'
    <3>1. Begun(a) /\ where[a] # "none"
      BY <1>22, <2>2 DEF CallFailed, Told, NoSocket, Silent, ClosedFirst, Begun,
         Calling, Cancelled, Established, NotBegun
    <3>2. /\ UNCHANGED <<pc, where, immediate, task, ev>>
          /\ lambda'[a] = "dropping" /\ events'[a] = Append(events[a], "cancelled")
      BY <1>22 DEF CallFailed, clientVars, attemptVars, closeVars, Called, To,
         EventTypes
    <3>. QED
      BY <1>22, <2>2, <3>1, <3>2, Lists DEF CallFailed, Told, Begun, Cancelled
  <2>. QED
    BY <2>1, <2>3, OneAttempt
<1>23. ASSUME NEW a \in Attempt, DropConnection(a) PROVE EventInv'
  BY <1>23 DEF DropConnection, clientVars, attemptVars, closeVars, To, EventTypes,
     EventInv, Told, NoSocket, Silent, ClosedFirst, Begun, Calling, Cancelled,
     Established, NotBegun, EventStatus
<1>24. ASSUME CloseCheck PROVE EventInv'
  BY <1>24 DEF CloseCheck, clientVars, attemptVars, connVars, EventTypes, EventInv,
     Told, NoSocket, Silent, ClosedFirst, Begun, Calling, Cancelled, Established,
     NotBegun, EventStatus
<1>25. ASSUME CloseLocked PROVE EventInv'
  BY <1>25 DEF CloseLocked, clientVars, attemptVars, connVars, EventTypes, EventInv,
     Told, NoSocket, Silent, ClosedFirst, Begun, Calling, Cancelled, Established,
     NotBegun, EventStatus
<1>26. ASSUME CloseTake PROVE EventInv'
  BY <1>26 DEF CloseTake, clientVars, attemptVars, Info, EventTypes, EventInv, Told,
     NoSocket, Silent, ClosedFirst, Begun, Calling, Cancelled, Established, NotBegun,
     EventStatus
<1>27. ASSUME NEW q \in Quest, SendCheck(q) PROVE EventInv'
  BY <1>27 DEF SendCheck, attemptVars, connVars, closeVars, EventTypes, EventInv,
     Told, NoSocket, Silent, ClosedFirst, Begun, Calling, Cancelled, Established,
     NotBegun, EventStatus
<1>28. ASSUME NEW q \in Quest, SendQuest(q) PROVE EventInv'
  BY <1>28 DEF SendQuest, attemptVars, connVars, closeVars, EventTypes, EventInv,
     Told, NoSocket, Silent, ClosedFirst, Begun, Calling, Cancelled, Established,
     NotBegun, EventStatus
<1>29. ASSUME NEW w \in Waiter, Wait(w) PROVE EventInv'
  BY <1>29 DEF Wait, attemptVars, connVars, closeVars, EventTypes, EventInv, Told,
     NoSocket, Silent, ClosedFirst, Begun, Calling, Cancelled, Established, NotBegun,
     EventStatus
<1>30. ASSUME NEW w \in Waiter, WakeUp(w) PROVE EventInv'
  BY <1>30 DEF WakeUp, attemptVars, connVars, closeVars, EventTypes, EventInv, Told,
     NoSocket, Silent, ClosedFirst, Begun, Calling, Cancelled, Established, NotBegun,
     EventStatus
<1>31. CASE UNCHANGED vars
  BY <1>31 DEF vars, clientVars, closeVars, attemptVars, connVars, EventTypes,
     EventInv, Told, NoSocket, Silent, ClosedFirst, Begun, Calling, Cancelled,
     Established, NotBegun
<1>. QED
  BY <1>1, <1>2, <1>3, <1>4, <1>5, <1>6, <1>7, <1>8, <1>9, <1>10, <1>11, <1>12,
     <1>13, <1>14, <1>15, <1>16, <1>17, <1>18, <1>19, <1>20, <1>21, <1>22,
     <1>23, <1>24, <1>25, <1>26, <1>27, <1>28, <1>29, <1>30, <1>31
     DEF Next, Connecter, Closer, SocketTask, Engine, User

-----------------------------------------------------------------------------
(* Types *)

\* There is always a ConnectionInfo that nobody refers to.
LEMMA NewInfoFound == TypeOK => NewInfo \in Blank
<1>. SUFFICES ASSUME TypeOK
     PROVE  \E i \in Blank : i \notin {info, closing} \cup {base[a] : a \in Attempt}
  BY DEF NewInfo
<1>. DEFINE Bases == {base[a] : a \in Attempt}
            Held == {info, closing} \cup Bases
<1>1. IsFiniteSet(Bases) /\ Cardinality(Bases) <= Cardinality(Attempt)
  <2>1. base \in Surjection(Attempt, Bases)
    BY DEF TypeOK, Surjection
  <2>. QED
    BY <2>1, BlankAssumption, FS_Surjection
<1>2. IsFiniteSet({info, closing}) /\ Cardinality({info, closing}) <= 2
  <2>1. IsFiniteSet({info}) /\ Cardinality({info}) = 1
    BY FS_Singleton
  <2>2. {info, closing} = {info} \cup {closing}
    OBVIOUS
  <2>. QED
    BY <2>1, <2>2, FS_AddElement
<1>3. IsFiniteSet(Held) /\ Cardinality(Held) <= Cardinality(Attempt) + 2
  <2>1. /\ Cardinality(Bases) \in Nat /\ Cardinality({info, closing}) \in Nat
        /\ Cardinality(Attempt) \in Nat
        /\ Cardinality({info, closing} \cap Bases) \in Nat
    BY <1>1, <1>2, BlankAssumption, FS_CardinalityType, FS_Intersection
  <2>2. Cardinality(Held)
          = Cardinality({info, closing}) + Cardinality(Bases) - Cardinality({info, closing} \cap Bases)
    BY <1>1, <1>2, FS_Union
  <2>3. IsFiniteSet(Held)
    BY <1>1, <1>2, FS_Union
  <2>. HIDE DEF Bases, Held
  <2>. QED
    BY <1>1, <1>2, <2>1, <2>2, <2>3
<1>4. ASSUME Blank \subseteq Held PROVE FALSE
  <2>1. Cardinality(Blank) <= Cardinality(Held)
    BY <1>3, <1>4, FS_Subset
  <2>2. /\ Cardinality(Blank) \in Nat /\ Cardinality(Held) \in Nat
        /\ Cardinality(Attempt) \in Nat
    BY <1>3, BlankAssumption, FS_CardinalityType
  <2>. HIDE DEF Held
  <2>. QED
    BY <1>3, <2>1, <2>2, BlankAssumption
<1>. QED
  BY <1>4

\* TypeOK in parts: the client, close(), the connecting threads, the connections.
ClientTypes ==
  /\ connected \in BOOLEAN
  /\ status \in {"NoConnected", "Connecting", "Connected"}
  /\ info \in Info
  /\ requireCache \in BOOLEAN
  /\ quest \in [Quest -> QuestState]
  /\ waiting \in SUBSET Waiter
  /\ woken \in SUBSET (Waiter \ waiting)

AttemptTypes ==
  /\ closing \in {"idle", "checked"} \cup Info
  /\ raced \in BOOLEAN
  /\ pc \in [Attempt -> Pc]
  /\ base \in [Attempt -> Info]
  /\ immediate \in [Attempt -> BOOLEAN]
  /\ dump \in [Attempt -> SUBSET Quest]

ConnTypes ==
  /\ where \in [Attempt -> Where]
  /\ lambda \in [Attempt -> Lambda]
  /\ result \in [Attempt -> BOOLEAN]
  /\ task \in [Attempt -> {"none", "queued", "done"}]
  /\ ev \in [Attempt -> EventStatus]
  /\ events \in [Attempt -> Seq(Event)]

LEMMA TypeParts == TypeOK <=> ClientTypes /\ AttemptTypes /\ ConnTypes
BY DEF TypeOK, ClientTypes, AttemptTypes, ConnTypes

\* Changing one attempt's ConnectionEventStatus, or one list of events.
LEMMA OneStatus ==
  ASSUME NEW e \in [Attempt -> EventStatus], NEW a \in Attempt
  PROVE  /\ [e EXCEPT ![a].discarded = TRUE] \in [Attempt -> EventStatus]
         /\ [e EXCEPT ![a].requireClose = TRUE] \in [Attempt -> EventStatus]
         /\ [e EXCEPT ![a].conn = 1] \in [Attempt -> EventStatus]
         /\ [e EXCEPT ![a].conn = 2] \in [Attempt -> EventStatus]
         /\ [e EXCEPT ![a].close = 1] \in [Attempt -> EventStatus]
         /\ [e EXCEPT ![a].conn = 1, ![a].close = 1, ![a].discarded = TRUE]
              \in [Attempt -> EventStatus]
<1>. DEFINE Good(r) == [e EXCEPT ![a] = r]
            one == [e[a] EXCEPT !.conn = 1]
            two == [one EXCEPT !.close = 1]
            three == [two EXCEPT !.discarded = TRUE]
<1>1. e[a] \in EventStatus
  OBVIOUS
<1>2. \A r \in EventStatus : Good(r) \in [Attempt -> EventStatus]
  OBVIOUS
<1>3. \A r \in EventStatus :
        /\ [r EXCEPT !.discarded = TRUE] \in EventStatus
        /\ [r EXCEPT !.requireClose = TRUE] \in EventStatus
  BY DEF EventStatus
<1>4. \A r \in EventStatus : [r EXCEPT !.conn = 1] \in EventStatus
  BY 1 \in 0..2 DEF EventStatus
<1>5. \A r \in EventStatus : [r EXCEPT !.conn = 2] \in EventStatus
  BY 2 \in 0..2 DEF EventStatus
<1>6. \A r \in EventStatus : [r EXCEPT !.close = 1] \in EventStatus
  BY 1 \in 0..1 DEF EventStatus
<1>7. one \in EventStatus
  BY <1>1, <1>4
<1>8. two \in EventStatus
  BY <1>6, <1>7
<1>9. three \in EventStatus
  BY <1>3, <1>8
<1>10. [e EXCEPT ![a].conn = 1, ![a].close = 1, ![a].discarded = TRUE] = Good(three)
  OBVIOUS
<1>. QED
  BY <1>1, <1>2, <1>3, <1>4, <1>5, <1>6, <1>9, <1>10

LEMMA OneEvent ==
  ASSUME NEW s \in [Attempt -> Seq(Event)], NEW a \in Attempt, NEW e \in Event
  PROVE  [s EXCEPT ![a] = Append(@, e)] \in [Attempt -> Seq(Event)]
<1>1. Append(s[a], e) \in Seq(Event)
  OBVIOUS
<1>. QED
  BY <1>1

\* connectFailed() and the other ways in which the client gives up.
LEMMA ResetTypes ==
  ASSUME TypeOK, Reset, NotifyAll \/ UNCHANGED <<waiting, woken>>,
         Become(Cached, "failed") \/ UNCHANGED quest,
         requireCache' = FALSE \/ UNCHANGED requireCache
  PROVE  ClientTypes'
<1>1. info' \in Info /\ connected' \in BOOLEAN /\ requireCache' \in BOOLEAN
  BY NewInfoFound DEF TypeOK, Reset, Info
<1>2. quest' \in [Quest -> QuestState]
  BY DEF TypeOK, Become, QuestState
<1>3. waiting' \in SUBSET Waiter /\ woken' \in SUBSET (Waiter \ waiting')
  BY DEF TypeOK, NotifyAll
<1>. QED
  BY <1>1, <1>2, <1>3 DEF ClientTypes, Reset

LEMMA FailTypes ==
  ASSUME TypeOK, NEW i, ConnectFailed(i)
  PROVE  ClientTypes'
<1>1. CASE info = i
  BY <1>1, ResetTypes DEF ConnectFailed
<1>2. CASE info # i
  BY <1>2 DEF ConnectFailed, clientVars, ClientTypes, TypeOK
<1>. QED
  BY <1>1, <1>2

LEMMA TypeInit == Init => TypeOK
<1>. SUFFICES ASSUME Init PROVE TypeOK
  OBVIOUS
<1>1. FirstInfo \in Info
  BY InfoAssumption DEF FirstInfo, Info
<1>2. ClientTypes
  BY <1>1 DEF Init, ClientTypes, QuestState
<1>3. AttemptTypes
  BY <1>1 DEF Init, AttemptTypes, Pc
<1>4. ConnTypes
  <2>1. [conn |-> 0, close |-> 0, discarded |-> FALSE, requireClose |-> FALSE] \in EventStatus
    BY DEF EventStatus
  <2>2. ev \in [Attempt -> EventStatus]
    BY <2>1 DEF Init
  <2>3. events \in [Attempt -> Seq(Event)]
    BY DEF Init
  <2>. QED
    BY <2>2, <2>3 DEF Init, ConnTypes, Where, Lambda
<1>. QED
  BY <1>2, <1>3, <1>4, TypeParts

LEMMA TypeStep == TypeOK /\ [Next]_vars => TypeOK'
<1>. SUFFICES ASSUME TypeOK, [Next]_vars PROVE TypeOK'
  OBVIOUS
<1>1. ASSUME NEW a \in Attempt, Begin(a) PROVE TypeOK'
  BY <1>1 DEF Begin, connVars, closeVars, Pc, Where, Lambda, QuestState, EventStatus,
     Event, Info, TypeOK
<1>2. ASSUME NEW a \in Attempt, SocketFails(a) PROVE TypeOK'
  <2>1. ClientTypes'
    BY <1>2, FailTypes DEF SocketFails
  <2>2. AttemptTypes'
    BY <1>2 DEF SocketFails, closeVars, AttemptTypes, Pc, Info, TypeOK
  <2>3. ev' \in [Attempt -> EventStatus]
    BY <1>2, OneStatus DEF SocketFails, closeVars, TypeOK
  <2>4. events' \in [Attempt -> Seq(Event)]
    BY <1>2, OneEvent DEF SocketFails, closeVars, Called, Event, TypeOK
  <2>5. ConnTypes'
    BY <1>2, <2>3, <2>4 DEF SocketFails, closeVars, ConnTypes, Where, Lambda, TypeOK
  <2>. QED
    BY <2>1, <2>2, <2>5 DEF TypeOK, ClientTypes, AttemptTypes, ConnTypes
<1>3. ASSUME NEW a \in Attempt, NEW now \in BOOLEAN, PrepareConnection(a, now)
      PROVE  TypeOK'
  BY <1>3 DEF PrepareConnection, connVars, closeVars, Pc, Where, Lambda, QuestState,
     EventStatus, Event, Info, TypeOK
<1>4. ASSUME NEW a \in Attempt, JoinFails(a) PROVE TypeOK'
  <2>1. ClientTypes'
    BY <1>4, FailTypes DEF JoinFails
  <2>2. AttemptTypes'
    BY <1>4 DEF JoinFails, closeVars, AttemptTypes, Pc, Info, TypeOK
  <2>3. ev' \in [Attempt -> EventStatus]
    BY <1>4, OneStatus DEF JoinFails, closeVars, NewCloseTask, TypeOK
  <2>4. events' \in [Attempt -> Seq(Event)]
    BY <1>4, OneEvent DEF JoinFails, closeVars, Event, TypeOK
  <2>5. ConnTypes'
    BY <1>4, <2>3, <2>4 DEF JoinFails, closeVars, NewCloseTask, ConnTypes, Where,
       Lambda, TypeOK
  <2>. QED
    BY <2>1, <2>2, <2>5 DEF TypeOK, ClientTypes, AttemptTypes, ConnTypes
<1>5. ASSUME NEW a \in Attempt, Join(a) PROVE TypeOK'
  BY <1>5 DEF Join, clientVars, closeVars, Pc, Where, Lambda, QuestState,
     EventStatus, Event, Info, TypeOK
<1>6. ASSUME NEW a \in Attempt, DumpCache(a) PROVE TypeOK'
  BY <1>6 DEF DumpCache, connVars, closeVars, Cached, Become, Pc, Where, Lambda,
     QuestState, EventStatus, Event, Info, TypeOK
<1>7. ASSUME NEW a \in Attempt, NEW q \in Quest, DumpOne(a, q) PROVE TypeOK'
  BY <1>7 DEF DumpOne, connVars, closeVars, Become, Pc, Where, Lambda, QuestState,
     EventStatus, Event, Info, TypeOK
<1>8. ASSUME NEW a \in Attempt, DumpDone(a) PROVE TypeOK'
  BY <1>8 DEF DumpDone, clientVars, closeVars, To, Pc, Where, Lambda, QuestState,
     EventStatus, Event, Info, TypeOK
<1>9. ASSUME NEW a \in Attempt, SignConnecting(a) PROVE TypeOK'
  BY <1>9 DEF SignConnecting, clientVars, attemptVars, closeVars, To, Pc, Where,
     Lambda, QuestState, EventStatus, Event, Info, TypeOK
<1>10. ASSUME NEW a \in Attempt, NEW ok \in BOOLEAN, SocketConnected(a, ok)
       PROVE  TypeOK'
  BY <1>10 DEF SocketConnected, clientVars, attemptVars, closeVars, To, Pc, Where,
     Lambda, QuestState, EventStatus, Event, Info, TypeOK
<1>11. ASSUME NEW a \in Attempt, TakeConnection(a) PROVE TypeOK'
  BY <1>11 DEF TakeConnection, clientVars, attemptVars, closeVars, Pc, Where, Lambda,
     QuestState, EventStatus, Event, Info, TypeOK
<1>12. ASSUME NEW a \in Attempt, Expire(a) PROVE TypeOK'
  BY <1>12 DEF Expire, clientVars, attemptVars, closeVars, Pc, Where, Lambda,
     QuestState, EventStatus, Event, Info, TypeOK
<1>13. ASSUME NEW a \in Attempt, ExpireFailed(a) PROVE TypeOK'
  <2>1. ClientTypes'
    BY <1>13, FailTypes DEF ExpireFailed
  <2>2. AttemptTypes'
    BY <1>13 DEF ExpireFailed, attemptVars, closeVars, AttemptTypes, Pc, Info, TypeOK
  <2>3. ev' \in [Attempt -> EventStatus]
    BY <1>13, OneStatus DEF ExpireFailed, attemptVars, closeVars, TypeOK
  <2>4. events' \in [Attempt -> Seq(Event)]
    BY <1>13, OneEvent DEF ExpireFailed, attemptVars, closeVars, Event, TypeOK
  <2>5. ConnTypes'
    BY <1>13, <2>3, <2>4 DEF ExpireFailed, attemptVars, closeVars, ConnTypes, Where,
       Lambda, TypeOK
  <2>. QED
    BY <2>1, <2>2, <2>5 DEF TypeOK, ClientTypes, AttemptTypes, ConnTypes
<1>14. ASSUME NEW a \in Attempt, WillClose(a) PROVE TypeOK'
  <2>1. ClientTypes'
    BY <1>14, ResetTypes DEF WillClose, ClientTypes, clientVars, TypeOK
  <2>2. AttemptTypes'
    BY <1>14 DEF WillClose, clientVars, attemptVars, closeVars, AttemptTypes, Pc,
       Info, TypeOK
  <2>3. ev' \in [Attempt -> EventStatus]
    BY <1>14, OneStatus DEF WillClose, clientVars, attemptVars, closeVars,
       NewCloseTask, TypeOK
  <2>4. events' \in [Attempt -> Seq(Event)]
    BY <1>14, OneEvent DEF WillClose, clientVars, attemptVars, closeVars, Event, TypeOK
  <2>5. ConnTypes'
    BY <1>14, <2>3, <2>4 DEF WillClose, clientVars, attemptVars, closeVars,
       NewCloseTask, ConnTypes, Where, Lambda, TypeOK
  <2>. QED
    BY <2>1, <2>2, <2>5 DEF TypeOK, ClientTypes, AttemptTypes, ConnTypes
<1>15. ASSUME NEW a \in Attempt, RunCloseTask(a) PROVE TypeOK'
  <2>1. ClientTypes'
    BY <1>15 DEF RunCloseTask, clientVars, attemptVars, closeVars, ClientTypes, TypeOK
  <2>2. AttemptTypes'
    BY <1>15 DEF RunCloseTask, clientVars, attemptVars, closeVars, AttemptTypes, Pc,
       Info, TypeOK
  <2>3. ev' \in [Attempt -> EventStatus]
    <3>1. \/ ev' = [ev EXCEPT ![a].conn = 1, ![a].close = 1, ![a].discarded = TRUE]
          \/ ev' = [ev EXCEPT ![a].requireClose = TRUE]
          \/ ev' = [ev EXCEPT ![a].close = 1]
      BY <1>15 DEF RunCloseTask, clientVars, attemptVars, closeVars
    <3>2. ev \in [Attempt -> EventStatus]
      BY DEF TypeOK
    <3>3. /\ [ev EXCEPT ![a].conn = 1, ![a].close = 1, ![a].discarded = TRUE]
                 \in [Attempt -> EventStatus]
          /\ [ev EXCEPT ![a].requireClose = TRUE] \in [Attempt -> EventStatus]
          /\ [ev EXCEPT ![a].close = 1] \in [Attempt -> EventStatus]
      BY <3>2, OneStatus
    <3>. QED
      BY <3>1, <3>2, <3>3
  <2>4. events' \in [Attempt -> Seq(Event)]
    <3>1. \/ events' = events
          \/ events' = [events EXCEPT ![a] = Append(@, "cancelled")]
          \/ events' = [events EXCEPT ![a] = Append(@, "close")]
      BY <1>15 DEF RunCloseTask, clientVars, attemptVars, closeVars, Called
    <3>2. events \in [Attempt -> Seq(Event)]
      BY DEF TypeOK
    <3>3. /\ [events EXCEPT ![a] = Append(@, "cancelled")] \in [Attempt -> Seq(Event)]
          /\ [events EXCEPT ![a] = Append(@, "close")] \in [Attempt -> Seq(Event)]
      BY <3>2, OneEvent DEF Event
    <3>. QED
      BY <3>1, <3>2, <3>3
  <2>5. ConnTypes'
    BY <1>15, <2>3, <2>4 DEF RunCloseTask, clientVars, attemptVars, closeVars,
       ConnTypes, Where, Lambda, TypeOK
  <2>. QED
    BY <2>1, <2>2, <2>5 DEF TypeOK, ClientTypes, AttemptTypes, ConnTypes
<1>16. ASSUME NEW a \in Attempt, RunConnected(a) PROVE TypeOK'
  <2>1. ClientTypes'
    BY <1>16 DEF RunConnected, clientVars, attemptVars, closeVars, ClientTypes, TypeOK
  <2>2. AttemptTypes'
    BY <1>16 DEF RunConnected, clientVars, attemptVars, closeVars, AttemptTypes, Pc,
       Info, TypeOK
  <2>3. ev' \in [Attempt -> EventStatus]
    <3>1. ev' = ev \/ ev' = [ev EXCEPT ![a].conn = 1]
      BY <1>16 DEF RunConnected, clientVars, attemptVars, closeVars
    <3>2. ev \in [Attempt -> EventStatus]
      BY DEF TypeOK
    <3>3. [ev EXCEPT ![a].conn = 1] \in [Attempt -> EventStatus]
      BY <3>2, OneStatus
    <3>. QED
      BY <3>1, <3>2, <3>3
  <2>4. events' \in [Attempt -> Seq(Event)]
    BY <1>16, OneEvent DEF RunConnected, clientVars, attemptVars, closeVars, Event,
       TypeOK
  <2>5. ConnTypes'
    BY <1>16, <2>3, <2>4 DEF RunConnected, clientVars, attemptVars, closeVars, To,
       ConnTypes, Where, Lambda, TypeOK
  <2>. QED
    BY <2>1, <2>2, <2>5 DEF TypeOK, ClientTypes, AttemptTypes, ConnTypes
<1>17. ASSUME NEW a \in Attempt, ConnectSuccessed(a) PROVE TypeOK'
  <2>1. ClientTypes'
    BY <1>17 DEF ConnectSuccessed, clientVars, attemptVars, closeVars, NotifyAll,
       ClientTypes, TypeOK
  <2>2. AttemptTypes'
    BY <1>17 DEF ConnectSuccessed, clientVars, attemptVars, closeVars, AttemptTypes,
       Pc, Info, TypeOK
  <2>3. ev' \in [Attempt -> EventStatus]
    <3>1. ev' = ev \/ ev' = [ev EXCEPT ![a].discarded = TRUE]
      BY <1>17 DEF ConnectSuccessed, clientVars, attemptVars, closeVars
    <3>2. ev \in [Attempt -> EventStatus]
      BY DEF TypeOK
    <3>3. [ev EXCEPT ![a].discarded = TRUE] \in [Attempt -> EventStatus]
      BY <3>2, OneStatus
    <3>. QED
      BY <3>1, <3>2, <3>3
  <2>4. events' \in [Attempt -> Seq(Event)]
    <3>1. events' = events \/ events' = [events EXCEPT ![a] = Append(@, "connected")]
      BY <1>17 DEF ConnectSuccessed, clientVars, attemptVars, closeVars, Called
    <3>2. events \in [Attempt -> Seq(Event)]
      BY DEF TypeOK
    <3>3. [events EXCEPT ![a] = Append(@, "connected")] \in [Attempt -> Seq(Event)]
      BY <3>2, OneEvent DEF Event
    <3>. QED
      BY <3>1, <3>2, <3>3
  <2>5. ConnTypes'
    BY <1>17, <2>3, <2>4 DEF ConnectSuccessed, clientVars, attemptVars, closeVars,
       To, ConnTypes, Where, Lambda, TypeOK
  <2>. QED
    BY <2>1, <2>2, <2>5 DEF TypeOK, ClientTypes, AttemptTypes, ConnTypes
<1>18. ASSUME NEW a \in Attempt, ConnectedEventCalled(a) PROVE TypeOK'
  <2>1. ClientTypes'
    BY <1>18 DEF ConnectedEventCalled, clientVars, attemptVars, closeVars,
       ClientTypes, TypeOK
  <2>2. AttemptTypes'
    BY <1>18 DEF ConnectedEventCalled, clientVars, attemptVars, closeVars,
       AttemptTypes, Pc, Info, TypeOK
  <2>3. ev' \in [Attempt -> EventStatus]
    BY <1>18, OneStatus DEF ConnectedEventCalled, clientVars, attemptVars, closeVars,
       TypeOK
  <2>4. events' \in [Attempt -> Seq(Event)]
    <3>1. events' = events \/ events' = [events EXCEPT ![a] = Append(@, "close")]
      BY <1>18 DEF ConnectedEventCalled, clientVars, attemptVars, closeVars, Called
    <3>2. events \in [Attempt -> Seq(Event)]
      BY DEF TypeOK
    <3>3. [events EXCEPT ![a] = Append(@, "close")] \in [Attempt -> Seq(Event)]
      BY <3>2, OneEvent DEF Event
    <3>. QED
      BY <3>1, <3>2, <3>3
  <2>5. ConnTypes'
    BY <1>18, <2>3, <2>4 DEF ConnectedEventCalled, clientVars, attemptVars,
       closeVars, To, ConnTypes, Where, Lambda, TypeOK
  <2>. QED
    BY <2>1, <2>2, <2>5 DEF TypeOK, ClientTypes, AttemptTypes, ConnTypes
<1>19. ASSUME NEW a \in Attempt, CancelConnecting(a) PROVE TypeOK'
  <2>1. ClientTypes'
    BY <1>19, FailTypes DEF CancelConnecting
  <2>2. AttemptTypes'
    BY <1>19 DEF CancelConnecting, attemptVars, closeVars, AttemptTypes, Pc, Info,
       TypeOK
  <2>3. ev' \in [Attempt -> EventStatus]
    BY <1>19, OneStatus DEF CancelConnecting, attemptVars, closeVars, TypeOK
  <2>4. events' \in [Attempt -> Seq(Event)]
    BY <1>19, OneEvent DEF CancelConnecting, attemptVars, closeVars, Event, TypeOK
  <2>5. ConnTypes'
    BY <1>19, <2>3, <2>4 DEF CancelConnecting, attemptVars, closeVars, To, ConnTypes,
       Where, Lambda, TypeOK
  <2>. QED
    BY <2>1, <2>2, <2>5 DEF TypeOK, ClientTypes, AttemptTypes, ConnTypes
<1>20. ASSUME NEW a \in Attempt, RunFailed(a) PROVE TypeOK'
  <2>1. ClientTypes'
    BY <1>20, FailTypes DEF RunFailed
  <2>2. AttemptTypes'
    BY <1>20 DEF RunFailed, attemptVars, closeVars, AttemptTypes, Pc, Info, TypeOK
  <2>3. ev' \in [Attempt -> EventStatus]
    BY <1>20, OneStatus DEF RunFailed, attemptVars, closeVars, TypeOK
  <2>4. events' \in [Attempt -> Seq(Event)]
    BY <1>20, OneEvent DEF RunFailed, attemptVars, closeVars, Event, TypeOK
  <2>5. ConnTypes'
    BY <1>20, <2>3, <2>4 DEF RunFailed, attemptVars, closeVars, To, ConnTypes, Where,
       Lambda, TypeOK
  <2>. QED
    BY <2>1, <2>2, <2>5 DEF TypeOK, ClientTypes, AttemptTypes, ConnTypes
<1>21. ASSUME NEW a \in Attempt, FailPermission(a) PROVE TypeOK'
  <2>1. ClientTypes'
    BY <1>21 DEF FailPermission, clientVars, attemptVars, closeVars, ClientTypes, TypeOK
  <2>2. AttemptTypes'
    BY <1>21 DEF FailPermission, clientVars, attemptVars, closeVars, AttemptTypes,
       Pc, Info, TypeOK
  <2>3. ev' \in [Attempt -> EventStatus]
    <3>1. ev' = ev \/ ev' = [ev EXCEPT ![a].conn = 1]
      BY <1>21 DEF FailPermission, clientVars, attemptVars, closeVars
    <3>2. ev \in [Attempt -> EventStatus]
      BY DEF TypeOK
    <3>3. [ev EXCEPT ![a].conn = 1] \in [Attempt -> EventStatus]
      BY <3>2, OneStatus
    <3>. QED
      BY <3>1, <3>2, <3>3
  <2>4. events' \in [Attempt -> Seq(Event)]
    BY <1>21, OneEvent DEF FailPermission, clientVars, attemptVars, closeVars, Event,
       TypeOK
  <2>5. ConnTypes'
    BY <1>21, <2>3, <2>4 DEF FailPermission, clientVars, attemptVars, closeVars, To,
       ConnTypes, Where, Lambda, TypeOK
  <2>. QED
    BY <2>1, <2>2, <2>5 DEF TypeOK, ClientTypes, AttemptTypes, ConnTypes
<1>22. ASSUME NEW a \in Attempt, CallFailed(a) PROVE TypeOK'
  <2>1. ClientTypes'
    BY <1>22 DEF CallFailed, clientVars, attemptVars, closeVars, ClientTypes, TypeOK
  <2>2. AttemptTypes'
    BY <1>22 DEF CallFailed, clientVars, attemptVars, closeVars, AttemptTypes, Pc,
       Info, TypeOK
  <2>3. ev' \in [Attempt -> EventStatus]
    BY <1>22, OneStatus DEF CallFailed, clientVars, attemptVars, closeVars, TypeOK
  <2>4. events' \in [Attempt -> Seq(Event)]
    BY <1>22, OneEvent DEF CallFailed, clientVars, attemptVars, closeVars, Called,
       Event, TypeOK
  <2>5. ConnTypes'
    BY <1>22, <2>3, <2>4 DEF CallFailed, clientVars, attemptVars, closeVars, To,
       ConnTypes, Where, Lambda, TypeOK
  <2>. QED
    BY <2>1, <2>2, <2>5 DEF TypeOK, ClientTypes, AttemptTypes, ConnTypes
<1>23. ASSUME NEW a \in Attempt, DropConnection(a) PROVE TypeOK'
  BY <1>23 DEF DropConnection, clientVars, attemptVars, closeVars, To, Pc, Where,
     Lambda, QuestState, EventStatus, Event, Info, TypeOK
<1>24. ASSUME CloseCheck PROVE TypeOK'
  BY <1>24 DEF CloseCheck, clientVars, attemptVars, connVars, Pc, Where, Lambda,
     QuestState, EventStatus, Event, Info, TypeOK
<1>25. ASSUME CloseLocked PROVE TypeOK'
  <2>1. ClientTypes'
    BY <1>25, ResetTypes DEF CloseLocked, ClientTypes, clientVars, TypeOK
  <2>2. AttemptTypes'
    BY <1>25 DEF CloseLocked, clientVars, attemptVars, connVars, AttemptTypes, Pc,
       Info, TypeOK
  <2>3. ev' \in [Attempt -> EventStatus]
    BY <1>25, OneStatus DEF CloseLocked, clientVars, attemptVars, connVars, TypeOK
  <2>4. events' \in [Attempt -> Seq(Event)]
    BY <1>25, OneEvent DEF CloseLocked, clientVars, attemptVars, connVars, Event, TypeOK
  <2>5. ConnTypes'
    BY <1>25, <2>3, <2>4 DEF CloseLocked, clientVars, attemptVars, connVars,
       ConnTypes, Where, Lambda, TypeOK
  <2>. QED
    BY <2>1, <2>2, <2>5 DEF TypeOK, ClientTypes, AttemptTypes, ConnTypes
<1>26. ASSUME CloseTake PROVE TypeOK'
  BY <1>26 DEF CloseTake, clientVars, attemptVars, Info, Pc, Where, Lambda,
     QuestState, EventStatus, Event, TypeOK
<1>27. ASSUME NEW q \in Quest, SendCheck(q) PROVE TypeOK'
  BY <1>27 DEF SendCheck, attemptVars, connVars, closeVars, Become, Pc, Where,
     Lambda, QuestState, EventStatus, Event, Info, TypeOK
<1>28. ASSUME NEW q \in Quest, SendQuest(q) PROVE TypeOK'
  BY <1>28 DEF SendQuest, attemptVars, connVars, closeVars, Become, Pc, Where,
     Lambda, QuestState, EventStatus, Event, Info, TypeOK
<1>29. ASSUME NEW w \in Waiter, Wait(w) PROVE TypeOK'
  BY <1>29 DEF Wait, attemptVars, connVars, closeVars, Pc, Where, Lambda, QuestState,
     EventStatus, Event, Info, TypeOK
<1>30. ASSUME NEW w \in Waiter, WakeUp(w) PROVE TypeOK'
  BY <1>30 DEF WakeUp, attemptVars, connVars, closeVars, Pc, Where, Lambda,
     QuestState, EventStatus, Event, Info, TypeOK
<1>31. CASE UNCHANGED vars
  BY <1>31 DEF vars, clientVars, closeVars, attemptVars, connVars, TypeOK
<1>. QED
  BY <1>1, <1>2, <1>3, <1>4, <1>5, <1>6, <1>7, <1>8, <1>9, <1>10, <1>11, <1>12,
     <1>13, <1>14, <1>15, <1>16, <1>17, <1>18, <1>19, <1>20, <1>21, <1>22,
     <1>23, <1>24, <1>25, <1>26, <1>27, <1>28, <1>29, <1>30, <1>31
     DEF Next, Connecter, Closer, SocketTask, Engine, User

-----------------------------------------------------------------------------
(* The client *)

\* A client that gives up its connection while no attempt is on its way to
\* perpareConnection() -- or that a close() has raced.
LEMMA GivenUp ==
  ASSUME TypeOK, ClientInv, Reset, UNCHANGED <<pc, base>>,
         Cached' \subseteq Cached, requireCache' => requireCache,
         ~raced' => ~raced /\ \A b \in Attempt : ~Early(b)
  PROVE  ClientInv'
<1>1. /\ info' \in Blank /\ \A a \in Attempt : info' # a
      /\ ~connected' /\ status' = "NoConnected"
  BY NewInfoFound, InfoAssumption DEF Reset
<1>2. CacheOwned => CacheOwned'
  BY DEF CacheOwned
<1>. QED
  BY <1>1, <1>2 DEF ClientInv, Early

LEMMA ClientStep == TypeOK /\ EventInv /\ ClientInv /\ [Next]_vars => ClientInv'
<1>. SUFFICES ASSUME TypeOK, EventInv, ClientInv, [Next]_vars PROVE ClientInv'
  OBVIOUS
<1>new. NewInfo \in Blank /\ \A a \in Attempt : NewInfo # a
  BY NewInfoFound, InfoAssumption
<1>made. \A a \in Attempt :
           /\ where[a] # "none" => pc[a] \in {"joined", "dumping", "done"}
           /\ lambda[a] # "none" => where[a] # "none"
  BY DEF EventInv, Told, NoSocket
<1>early. ~raced => \A a, b \in Attempt : info = a /\ where[a] # "none" => ~Early(b)
  BY <1>made, InfoAssumption DEF ClientInv, Early
<1>1. ASSUME NEW a \in Attempt, Begin(a) PROVE ClientInv'
  BY <1>1, <1>new, <1>made DEF Begin, connVars, closeVars, TypeOK, ClientInv,
     CacheOwned, Early, Live, Cached, Info
<1>2. ASSUME NEW a \in Attempt, SocketFails(a) PROVE ClientInv'
  BY <1>2, <1>new, <1>made DEF SocketFails, clientVars, closeVars, Cached, Become,
     NotifyAll, Reset, ConnectFailed, Called, TypeOK, ClientInv, CacheOwned, Early,
     Live, Info
<1>3. ASSUME NEW a \in Attempt, NEW now \in BOOLEAN, PrepareConnection(a, now)
      PROVE  ClientInv'
  BY <1>3, <1>new, <1>made DEF PrepareConnection, connVars, closeVars, TypeOK,
     ClientInv, CacheOwned, Early, Live, Cached, Info
<1>4. ASSUME NEW a \in Attempt, JoinFails(a) PROVE ClientInv'
  BY <1>4, <1>new, <1>made DEF JoinFails, clientVars, closeVars, Cached, Become,
     NotifyAll, Reset, ConnectFailed, NewCloseTask, TypeOK, ClientInv, CacheOwned,
     Early, Live, Info
<1>5. ASSUME NEW a \in Attempt, Join(a) PROVE ClientInv'
  BY <1>5, <1>new, <1>made DEF Join, clientVars, closeVars, TypeOK, ClientInv,
     CacheOwned, Early, Live, Cached, Info
<1>6. ASSUME NEW a \in Attempt, DumpCache(a) PROVE ClientInv'
  BY <1>6, <1>new, <1>made DEF DumpCache, connVars, closeVars, Cached, Become,
     TypeOK, ClientInv, CacheOwned, Early, Live, Info
<1>7. ASSUME NEW a \in Attempt, NEW q \in Quest, DumpOne(a, q) PROVE ClientInv'
  BY <1>7, <1>new, <1>made DEF DumpOne, connVars, closeVars, Become, TypeOK,
     ClientInv, CacheOwned, Early, Live, Cached, Info
<1>8. ASSUME NEW a \in Attempt, DumpDone(a) PROVE ClientInv'
  BY <1>8, <1>new, <1>made DEF DumpDone, clientVars, closeVars, To, TypeOK,
     ClientInv, CacheOwned, Early, Live, Cached, Info
<1>9. ASSUME NEW a \in Attempt, SignConnecting(a) PROVE ClientInv'
  BY <1>9, <1>new, <1>made DEF SignConnecting, clientVars, attemptVars, closeVars,
     To, TypeOK, ClientInv, CacheOwned, Early, Live, Cached, Info
<1>10. ASSUME NEW a \in Attempt, NEW ok \in BOOLEAN, SocketConnected(a, ok)
       PROVE  ClientInv'
  BY <1>10, <1>new, <1>made DEF SocketConnected, clientVars, attemptVars, closeVars,
     To, TypeOK, ClientInv, CacheOwned, Early, Live, Cached, Info
<1>11. ASSUME NEW a \in Attempt, TakeConnection(a) PROVE ClientInv'
  BY <1>11, <1>new, <1>made DEF TakeConnection, clientVars, attemptVars, closeVars,
     TypeOK, ClientInv, CacheOwned, Early, Live, Cached, Info
<1>12. ASSUME NEW a \in Attempt, Expire(a) PROVE ClientInv'
  BY <1>12, <1>new, <1>made DEF Expire, clientVars, attemptVars, closeVars, TypeOK,
     ClientInv, CacheOwned, Early, Live, Cached, Info
<1>13. ASSUME NEW a \in Attempt, ExpireFailed(a) PROVE ClientInv'
  <2>1. CASE info = a
    <3>1. ~raced => \A b \in Attempt : ~Early(b)
      BY <1>13, <2>1, <1>made, <1>early DEF ExpireFailed
    <3>2. /\ Reset /\ UNCHANGED <<pc, base, raced>>
          /\ Cached' \subseteq Cached /\ ~requireCache'
      BY <1>13, <2>1 DEF ExpireFailed, ConnectFailed, Become, Cached, attemptVars,
         closeVars
    <3>. QED
      BY <3>1, <3>2, GivenUp
  <2>2. CASE info # a
    BY <1>13, <2>2, <1>made DEF ExpireFailed, ConnectFailed, clientVars, attemptVars,
       closeVars, ClientInv, CacheOwned, Early, Live, Cached, TypeOK
  <2>. QED
    BY <2>1, <2>2
<1>14. ASSUME NEW a \in Attempt, WillClose(a) PROVE ClientInv'
  <2>1. CASE info = a
    <3>1. ~raced => \A b \in Attempt : ~Early(b)
      BY <1>14, <2>1, <1>made, <1>early DEF WillClose
    <3>2. /\ Reset /\ UNCHANGED <<pc, base, raced>>
          /\ Cached' \subseteq Cached /\ requireCache' = requireCache
      BY <1>14, <2>1 DEF WillClose, Cached, attemptVars, closeVars
    <3>. QED
      BY <3>1, <3>2, GivenUp
  <2>2. CASE info # a
    BY <1>14, <2>2, <1>made DEF WillClose, clientVars, attemptVars, closeVars,
       ClientInv, CacheOwned, Early, Live, Cached, TypeOK
  <2>. QED
    BY <2>1, <2>2
<1>15. ASSUME NEW a \in Attempt, RunCloseTask(a) PROVE ClientInv'
  BY <1>15, <1>new, <1>made DEF RunCloseTask, clientVars, attemptVars, closeVars,
     Called, TypeOK, ClientInv, CacheOwned, Early, Live, Cached, Info
<1>16. ASSUME NEW a \in Attempt, RunConnected(a) PROVE ClientInv'
  BY <1>16, <1>new, <1>made DEF RunConnected, clientVars, attemptVars, closeVars, To,
     TypeOK, ClientInv, CacheOwned, Early, Live, Cached, Info
<1>17. ASSUME NEW a \in Attempt, ConnectSuccessed(a) PROVE ClientInv'
  <2>1. CASE info = a
    <3>1. ~raced => \A b \in Attempt : ~Early(b)
      BY <1>17, <2>1, <1>made, <1>early DEF ConnectSuccessed
    <3>2. where[a] # "none" /\ where[a] # "closed"
      BY <1>17, <2>1, <1>made DEF ConnectSuccessed, ClientInv
    <3>3. Live(a)
      BY <3>2 DEF Live, Where, TypeOK
    <3>4. /\ connected' /\ status' = "Connected"
          /\ UNCHANGED <<info, requireCache, quest, pc, base, where, raced>>
      BY <1>17, <2>1 DEF ConnectSuccessed, attemptVars, closeVars
    <3>. QED
      BY <2>1, <3>1, <3>3, <3>4, InfoAssumption DEF ClientInv, CacheOwned, Early,
         Live, Cached
  <2>2. CASE info # a
    BY <1>17, <2>2 DEF ConnectSuccessed, clientVars, attemptVars, closeVars,
       ClientInv, CacheOwned, Early, Live, Cached
  <2>. QED
    BY <2>1, <2>2
<1>18. ASSUME NEW a \in Attempt, ConnectedEventCalled(a) PROVE ClientInv'
  BY <1>18, <1>new, <1>made DEF ConnectedEventCalled, clientVars, attemptVars,
     closeVars, Called, To, TypeOK, ClientInv, CacheOwned, Early, Live, Cached, Info
<1>19. ASSUME NEW a \in Attempt, CancelConnecting(a) PROVE ClientInv'
  <2>1. CASE info = a
    <3>1. ~raced => \A b \in Attempt : ~Early(b)
      BY <1>19, <2>1, <1>made, <1>early DEF CancelConnecting
    <3>2. /\ Reset /\ UNCHANGED <<pc, base, raced>>
          /\ Cached' \subseteq Cached /\ ~requireCache'
      BY <1>19, <2>1 DEF CancelConnecting, ConnectFailed, Become, Cached,
         attemptVars, closeVars
    <3>. QED
      BY <3>1, <3>2, GivenUp
  <2>2. CASE info # a
    BY <1>19, <2>2, <1>made DEF CancelConnecting, ConnectFailed, clientVars,
       attemptVars, closeVars, ClientInv, CacheOwned, Early, Live, Cached, TypeOK
  <2>. QED
    BY <2>1, <2>2
<1>20. ASSUME NEW a \in Attempt, RunFailed(a) PROVE ClientInv'
  <2>1. CASE info = a
    <3>1. ~raced => \A b \in Attempt : ~Early(b)
      BY <1>20, <2>1, <1>made, <1>early DEF RunFailed
    <3>2. /\ Reset /\ UNCHANGED <<pc, base, raced>>
          /\ Cached' \subseteq Cached /\ ~requireCache'
      BY <1>20, <2>1 DEF RunFailed, ConnectFailed, Become, Cached, attemptVars,
         closeVars
    <3>. QED
      BY <3>1, <3>2, GivenUp
  <2>2. CASE info # a
    BY <1>20, <2>2, <1>made DEF RunFailed, ConnectFailed, clientVars, attemptVars,
       closeVars, ClientInv, CacheOwned, Early, Live, Cached, TypeOK
  <2>. QED
    BY <2>1, <2>2
<1>21. ASSUME NEW a \in Attempt, FailPermission(a) PROVE ClientInv'
  BY <1>21, <1>new, <1>made DEF FailPermission, clientVars, attemptVars, closeVars,
     To, TypeOK, ClientInv, CacheOwned, Early, Live, Cached, Info
<1>22. ASSUME NEW a \in Attempt, CallFailed(a) PROVE ClientInv'
  BY <1>22, <1>new, <1>made DEF CallFailed, clientVars, attemptVars, closeVars,
     Called, To, TypeOK, ClientInv, CacheOwned, Early, Live, Cached, Info
<1>23. ASSUME NEW a \in Attempt, DropConnection(a) PROVE ClientInv'
  BY <1>23, <1>new, <1>made DEF DropConnection, clientVars, attemptVars, closeVars,
     To, TypeOK, ClientInv, CacheOwned, Early, Live, Cached, Info
<1>24. ASSUME CloseCheck PROVE ClientInv'
  BY <1>24, <1>new, <1>made DEF CloseCheck, clientVars, attemptVars, connVars,
     TypeOK, ClientInv, CacheOwned, Early, Live, Cached, Info
<1>25. ASSUME CloseLocked PROVE ClientInv'
  <2>1. CASE status = "NoConnected"
    BY <1>25, <2>1 DEF CloseLocked, clientVars, attemptVars, connVars, ClientInv,
       CacheOwned, Early, Live, Cached
  <2>2. CASE status # "NoConnected"
    <3>1. ~raced' => ~raced /\ \A b \in Attempt : ~Early(b)
      BY <1>25, <2>2 DEF CloseLocked, ClientInv, TypeOK
    <3>2. /\ Reset /\ UNCHANGED <<pc, base>>
          /\ Cached' \subseteq Cached /\ ~requireCache'
      BY <1>25, <2>2 DEF CloseLocked, Become, Cached, attemptVars
    <3>. QED
      BY <3>1, <3>2, GivenUp
  <2>. QED
    BY <2>1, <2>2
<1>26. ASSUME CloseTake PROVE ClientInv'
  BY <1>26, <1>new, <1>made DEF CloseTake, clientVars, attemptVars, Info, TypeOK,
     ClientInv, CacheOwned, Early, Live, Cached
<1>27. ASSUME NEW q \in Quest, SendCheck(q) PROVE ClientInv'
  BY <1>27, <1>new, <1>made DEF SendCheck, attemptVars, connVars, closeVars, Become,
     TypeOK, ClientInv, CacheOwned, Early, Live, Cached, Info
<1>28. ASSUME NEW q \in Quest, SendQuest(q) PROVE ClientInv'
  BY <1>28, <1>new, <1>made DEF SendQuest, attemptVars, connVars, closeVars, Become,
     TypeOK, ClientInv, CacheOwned, Early, Live, Cached, Info
<1>29. ASSUME NEW w \in Waiter, Wait(w) PROVE ClientInv'
  BY <1>29, <1>new, <1>made DEF Wait, attemptVars, connVars, closeVars, TypeOK,
     ClientInv, CacheOwned, Early, Live, Cached, Info
<1>30. ASSUME NEW w \in Waiter, WakeUp(w) PROVE ClientInv'
  BY <1>30, <1>new, <1>made DEF WakeUp, attemptVars, connVars, closeVars, TypeOK,
     ClientInv, CacheOwned, Early, Live, Cached, Info
<1>31. CASE UNCHANGED vars
  BY <1>31 DEF vars, clientVars, closeVars, attemptVars, connVars, ClientInv,
     CacheOwned, Early, Live, Cached, Info
<1>. QED
  BY <1>1, <1>2, <1>3, <1>4, <1>5, <1>6, <1>7, <1>8, <1>9, <1>10, <1>11, <1>12,
     <1>13, <1>14, <1>15, <1>16, <1>17, <1>18, <1>19, <1>20, <1>21, <1>22,
     <1>23, <1>24, <1>25, <1>26, <1>27, <1>28, <1>29, <1>30, <1>31
     DEF Next, Connecter, Closer, SocketTask, Engine, User

-----------------------------------------------------------------------------
LEMMA InvInit == Init => IInv
<1>. SUFFICES ASSUME Init PROVE IInv
  OBVIOUS
<1>1. FirstInfo \in Blank
  BY InfoAssumption DEF FirstInfo
<1>2. ClientInv
  BY <1>1, InfoAssumption DEF Init, ClientInv, CacheOwned, Early, Live, Cached
<1>3. EventInv
  BY DEF Init, EventInv, Told, NoSocket
<1>. QED
  BY <1>2, <1>3, TypeInit DEF IInv

THEOREM Invariant == Safety => []IInv
<1>1. Init => IInv
  BY InvInit
<1>2. IInv /\ [Next]_vars => IInv'
  <2>1. TypeOK => EventTypes
    BY DEF TypeOK, EventTypes
  <2>. QED
    BY <2>1, TypeStep, EventStep, ClientStep DEF IInv
<1>. QED
  BY <1>1, <1>2, PTL DEF Safety

\* The fields of a client and of its attempts keep to their values.
THEOREM TypeCorrect == Safety => []TypeOK
<1>1. IInv => TypeOK
  BY DEF IInv
<1>. QED
  BY <1>1, Invariant, PTL

\* The processor is told of each connection in order: connected() and then its
\* close, or the failure alone, however the two tasks that tell it interleave
\* (ConnectionEventStatus, ClientCloseTask::run()).
THEOREM EventsStayInOrder == Safety => []EventsInOrder
<1>1. ASSUME IInv PROVE EventsInOrder
  <2>. SUFFICES ASSUME NEW a \in Attempt
       PROVE  /\ events[a] \in {<<>>, <<"connected">>, <<"connected", "close">>, <<"cancelled">>}
              /\ lambda[a] = "calling" => events[a] = <<"connected">>
    BY DEF EventsInOrder
  <2>. QED
    BY <1>1 DEF IInv, EventInv, Told, NoSocket, Silent, ClosedFirst, Begun, Calling,
       Cancelled, Established, NotBegun
<1>. QED
  BY <1>1, Invariant, PTL

\* No connection is opened and destroyed in silence, and none that was reported
\* established goes without its close event.
THEOREM EventsAreComplete == Safety => []EventsComplete
<1>1. ASSUME IInv, NEW a \in Attempt, task[a] = "done", lambda[a] \in {"none", "over"}
      PROVE  events[a] \in {<<"connected", "close">>, <<"cancelled">>}
  BY <1>1 DEF IInv, EventInv, Told, NoSocket, Silent, ClosedFirst, Begun, Calling,
     Cancelled, Established, NotBegun
<1>2. IInv => EventsComplete
  BY <1>1 DEF EventsComplete
<1>. QED
  BY <1>2, Invariant, PTL

\* Both together: the processor hears of every connection, and rightly.
THEOREM EventsAreTold == Safety => []EventsTold
<1>1. EventsInOrder /\ EventsComplete => EventsTold
  BY DEF EventsTold
<1>. QED
  BY <1>1, EventsStayInOrder, EventsAreComplete, PTL

\* As long as no close() met a connecting client, a connected client has its
\* connection, or the thread that took it is about to say otherwise.
THEOREM ConnectedStaysAlive == Safety => []ConnectedIsAlive
<1>1. IInv => ConnectedIsAlive
  BY DEF IInv, ClientInv, ConnectedIsAlive, Live
<1>. QED
  BY <1>1, Invariant, PTL

\* With the same reservation, a connecting client has an attempt under way, so
\* that a thread blocked in connect() waits for somebody.
THEOREM ConnectingHasOwner == Safety => []ConnectingHasAttempt
<1>1. IInv => ConnectingHasAttempt
  BY DEF IInv, ClientInv, ConnectingHasAttempt, Early, Live
<1>. QED
  BY <1>1, Invariant, PTL

\* Both together: the status that sendQuest(), connect() and close() act upon is
\* that of a connection, or of an attempt, that is there.
THEOREM StatusAlwaysFits == Safety => []StatusFits
<1>1. ConnectedIsAlive /\ ConnectingHasAttempt => StatusFits
  BY DEF StatusFits
<1>. QED
  BY <1>1, ConnectedStaysAlive, ConnectingHasOwner, PTL

\* With the same reservation, an attempt is on its way that will take what
\* sendQuest() has put into the cache, or complete it with an error.
THEOREM CacheIsOwned == Safety => []CacheHasOwner
<1>1. IInv => CacheHasOwner
  BY DEF IInv, ClientInv, CacheHasOwner
<1>. QED
  BY <1>1, Invariant, PTL

=============================================================================
