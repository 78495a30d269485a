----------------------------- MODULE TcpClient -----------------------------
(***************************************************************************)
(* One TCPClient (TCPClient.cpp, ClientInterface.cpp) through connecting,  *)
(* closing and reconnecting: its _connStatus and _connectionInfo, the      *)
(* cache of quests sent while it connects, the threads blocked in          *)
(* connect(), and the connection events of its connections                 *)
(* (ConnectionEventStatus, ClientCloseTask).                               *)
(*                                                                         *)
(*   - application threads: asyncConnect(), connect(), close(),            *)
(*     sendQuest();                                                        *)
(*   - the engine's loop thread: a socket becomes connected, or fails;     *)
(*   - the timeout thread: a connecting expires;                           *)
(*   - the callback pool: socketConnected()'s task, ClientCloseTask.       *)
(*                                                                         *)
(* An attempt is one asyncConnect() that went on to open a socket; it      *)
(* stands also for the connection object and the ConnectionInfo it makes.  *)
(* One action is one critical section of Client::_mutex, of the            *)
(* connection's _mutex or of ConnectionMap::_mutex.                        *)
(***************************************************************************)
EXTENDS Naturals, Sequences, FiniteSets

CONSTANTS Attempt,   \* attempts to connect
          Blank,     \* ConnectionInfo objects without a socket
          Quest,     \* asynchronous quests
          Waiter     \* threads that call connect()

ASSUME InfoAssumption == Blank # {} /\ Attempt \cap Blank = {}
\* `new' never runs out of them: the client refers to one, close() to another,
\* and each attempt to a third.
ASSUME BlankAssumption ==
  IsFiniteSet(Attempt) /\ IsFiniteSet(Blank) /\ Cardinality(Blank) > Cardinality(Attempt) + 2

VARIABLES
  connected,    \* Client::_connected
  status,       \* Client::_connStatus
  info,         \* Client::_connectionInfo
  requireCache, \* Client::_requireCacheSendData
  quest,        \* [Quest -> where it is]; "cached": in _asyncQuestCache
  waiting,      \* threads blocked on Client::_condition
  woken,        \* notified threads that have not locked the mutex yet
  closing,      \* close(): "idle", "checked", or the old ConnectionInfo
  pc,           \* [Attempt -> where the connecting thread is]
  base,         \* [Attempt -> the ConnectionInfo the attempt started from]
  immediate,    \* [Attempt -> connect(2) succeeded at once]
  dump,         \* [Attempt -> quests the attempt took out of the cache]
  where,        \* [Attempt -> where the connection is]
  lambda,       \* [Attempt -> where socketConnected() and its task are]
  result,       \* [Attempt -> the connected argument of socketConnected()]
  task,         \* [Attempt -> where its ClientCloseTask is]
  ev,           \* [Attempt -> ConnectionEventStatus]
  events,       \* [Attempt -> the events the IQuestProcessor was called for]
  raced         \* history: a close() met a client that was connecting

clientVars == <<connected, status, info, requireCache, quest, waiting, woken>>
attemptVars == <<pc, base, immediate, dump>>
connVars == <<where, lambda, result, task, ev, events>>
closeVars == <<closing, raced>>
vars == <<clientVars, closeVars, attemptVars, connVars>>

Info == Attempt \cup Blank

Pc == {"idle", "connecting", "preparing", "joined", "dumping", "done"}
Where == {"none", "mapped", "expired", "taken", "closed"}
Lambda == {"none", "signed", "queued", "permitted", "calling", "failing",
           "cancelling", "cancelled", "dropping", "over"}
QuestState == {"idle", "sending", "cached", "dumped", "sent", "failed", "refused"}
Event == {"connected", "cancelled", "close"}
EventStatus == [conn : 0..2, close : 0..1, discarded : BOOLEAN, requireClose : BOOLEAN]

TypeOK ==
  /\ connected \in BOOLEAN
  /\ status \in {"NoConnected", "Connecting", "Connected"}
  /\ info \in Info
  /\ requireCache \in BOOLEAN
  /\ quest \in [Quest -> QuestState]
  /\ waiting \in SUBSET Waiter
  /\ woken \in SUBSET (Waiter \ waiting)
  /\ closing \in {"idle", "checked"} \cup Info
  /\ raced \in BOOLEAN
  /\ pc \in [Attempt -> Pc]
  /\ base \in [Attempt -> Info]
  /\ immediate \in [Attempt -> BOOLEAN]
  /\ dump \in [Attempt -> SUBSET Quest]
  /\ where \in [Attempt -> Where]
  /\ lambda \in [Attempt -> Lambda]
  /\ result \in [Attempt -> BOOLEAN]
  /\ task \in [Attempt -> {"none", "queued", "done"}]
  /\ ev \in [Attempt -> EventStatus]
  /\ events \in [Attempt -> Seq(Event)]

FirstInfo == CHOOSE i \in Blank : TRUE

Init ==
  /\ connected = FALSE /\ status = "NoConnected"
  /\ info = FirstInfo
  /\ requireCache = FALSE
  /\ quest = [q \in Quest |-> "idle"]
  /\ waiting = {} /\ woken = {}
  /\ closing = "idle" /\ raced = FALSE
  /\ pc = [a \in Attempt |-> "idle"]
  /\ base = [a \in Attempt |-> FirstInfo]
  /\ immediate = [a \in Attempt |-> FALSE]
  /\ dump = [a \in Attempt |-> {}]
  /\ where = [a \in Attempt |-> "none"]
  /\ lambda = [a \in Attempt |-> "none"]
  /\ result = [a \in Attempt |-> FALSE]
  /\ task = [a \in Attempt |-> "none"]
  /\ ev = [a \in Attempt |->
            [conn |-> 0, close |-> 0, discarded |-> FALSE, requireClose |-> FALSE]]
  /\ events = [a \in Attempt |-> <<>>]

-----------------------------------------------------------------------------
(* Helpers *)

Cached == {q \in Quest : quest[q] = "cached"}

\* new ConnectionInfo(0, ...): an object nobody refers to.
NewInfo ==
  CHOOSE i \in Blank : i \notin {info, closing} \cup {base[a] : a \in Attempt}

\* The quests of S get state s.
Become(S, s) == quest' = [q \in Quest |-> IF q \in S THEN s ELSE quest[q]]

\* Mutant: the notified threads stay in the queue.
NotifyAllKeeps == woken' = woken \cup waiting /\ UNCHANGED waiting

\* _condition.notify_all()
NotifyAll == waiting' = {} /\ woken' = woken \cup waiting

\* The client forgets its connection.
Reset ==
  /\ info' = NewInfo
  /\ connected' = FALSE
  /\ status' = "NoConnected"

\* connectFailed(): only the client's current connection info counts.  The
\* cached quests are completed with an error.
ConnectFailed(i) ==
  IF info = i
    THEN /\ Reset
         /\ Become(Cached, "failed")
         /\ requireCache' = FALSE
         /\ NotifyAll
    ELSE UNCHANGED clientVars

\* The ClientCloseTask of a: its constructor discards the connection.
NewCloseTask(a) ==
  /\ task' = [task EXCEPT ![a] = "queued"]
  /\ ev' = [ev EXCEPT ![a].discarded = TRUE]

Called(a, e) == events' = [events EXCEPT ![a] = Append(@, e)]

To(a, l) == lambda' = [lambda EXCEPT ![a] = l]

-----------------------------------------------------------------------------
(* The connecting thread *)

\* asyncConnect(), prepare.
Begin(a) ==
  /\ pc[a] = "idle"
  /\ ~connected /\ status = "NoConnected"
  /\ base' = [base EXCEPT ![a] = info]
  /\ connected' = FALSE
  /\ requireCache' = TRUE
  /\ status' = "Connecting"
  /\ pc' = [pc EXCEPT ![a] = "connecting"]
  /\ UNCHANGED <<info, quest, waiting, woken, closeVars, immediate, dump, connVars>>

\* No socket: connectFailed() and triggerConnectingFailedEvent().
SocketFails(a) ==
  /\ pc[a] = "connecting"
  /\ ConnectFailed(base[a])
  /\ Called(a, "cancelled")
  /\ pc' = [pc EXCEPT ![a] = "done"]
  /\ UNCHANGED <<closeVars, base, immediate, dump, where, lambda, result, task, ev>>

\* perpareConnection(), first part: the client gets the new connection info.
PrepareConnection(a, now) ==
  /\ pc[a] = "connecting"
  /\ info' = a
  /\ immediate' = [immediate EXCEPT ![a] = now]
  /\ pc' = [pc EXCEPT ![a] = "preparing"]
  /\ UNCHANGED <<connected, status, requireCache, quest, waiting, woken, closeVars,
                 base, dump, connVars>>

\* The encryption cannot be configured, or the engine refuses the connection.
JoinFails(a) ==
  /\ pc[a] = "preparing"
  /\ ConnectFailed(a)
  /\ NewCloseTask(a)
  /\ where' = [where EXCEPT ![a] = "closed"]
  /\ pc' = [pc EXCEPT ![a] = "done"]
  /\ UNCHANGED <<closeVars, base, immediate, dump, lambda, result, events>>

Join(a) ==
  /\ pc[a] = "preparing"
  /\ where' = [where EXCEPT ![a] = "mapped"]
  /\ pc' = [pc EXCEPT ![a] = "joined"]
  /\ UNCHANGED <<clientVars, closeVars, base, immediate, dump, lambda, result, task,
                 ev, events>>

\* Mutant: quests are still cached after the dump.
DumpCacheKeepsFlag(a) ==
  /\ pc[a] = "joined"
  /\ dump' = [dump EXCEPT ![a] = Cached]
  /\ Become(Cached, "dumped")
  /\ pc' = [pc EXCEPT ![a] = "dumping"]
  /\ UNCHANGED <<connected, status, info, requireCache, waiting, woken, closeVars,
                 base, immediate, connVars>>

\* dumpCachedSendData(), locked part: whatever is in the cache, and whoever put
\* it there.
DumpCache(a) ==
  /\ pc[a] = "joined"
  /\ dump' = [dump EXCEPT ![a] = Cached]
  /\ Become(Cached, "dumped")
  /\ requireCache' = FALSE
  /\ pc' = [pc EXCEPT ![a] = "dumping"]
  /\ UNCHANGED <<connected, status, info, waiting, woken, closeVars, base, immediate,
                 connVars>>

\* One dumped quest is handed to the engine.
DumpOne(a, q) ==
  /\ q \in dump[a]
  /\ dump' = [dump EXCEPT ![a] = @ \ {q}]
  /\ Become({q}, IF where[a] = "mapped" THEN "sent" ELSE "failed")
  /\ UNCHANGED <<connected, status, info, requireCache, waiting, woken, closeVars, pc,
                 base, immediate, connVars>>

\* perpareConnection() ends; a socket that is connected already gets its task.
DumpDone(a) ==
  /\ pc[a] = "dumping" /\ dump[a] = {}
  /\ pc' = [pc EXCEPT ![a] = "done"]
  /\ IF immediate[a]
       THEN To(a, "queued") /\ result' = [result EXCEPT ![a] = TRUE]
       ELSE UNCHANGED <<lambda, result>>
  /\ UNCHANGED <<clientVars, closeVars, base, immediate, dump, where, task, ev, events>>

-----------------------------------------------------------------------------
(* The loop thread and the timeout thread *)

\* processConnectionIO() signs a connection that is still connecting ...
SignConnecting(a) ==
  /\ where[a] = "mapped" /\ lambda[a] = "none" /\ ~immediate[a]
  /\ To(a, "signed")
  /\ UNCHANGED <<clientVars, closeVars, attemptVars, where, result, task, ev, events>>

\* ... and processConnectingOperations() queues the task, whatever happened to
\* the connection meanwhile.
SocketConnected(a, ok) ==
  /\ lambda[a] = "signed"
  /\ To(a, "queued")
  /\ result' = [result EXCEPT ![a] = ok]
  /\ UNCHANGED <<clientVars, closeVars, attemptVars, where, task, ev, events>>

\* The loop thread, the key-exchange callback or the timeout thread takes the
\* connection: the peer closed it, an error, a key exchange without answer, no
\* answer to keep-alive pings.
TakeConnection(a) ==
  /\ where[a] = "mapped"
  /\ where' = [where EXCEPT ![a] = "taken"]
  /\ UNCHANGED <<clientVars, closeVars, attemptVars, lambda, result, task, ev, events>>

\* TCPClientKeepAlive(): the connecting has expired.
Expire(a) ==
  /\ where[a] = "mapped" /\ lambda[a] \in {"none", "signed"} /\ ~immediate[a]
  /\ where' = [where EXCEPT ![a] = "expired"]
  /\ UNCHANGED <<clientVars, closeVars, attemptVars, lambda, result, task, ev, events>>

ExpireFailed(a) ==
  /\ where[a] = "expired"
  /\ ConnectFailed(a)
  /\ where' = [where EXCEPT ![a] = "taken"]
  /\ UNCHANGED <<closeVars, attemptVars, lambda, result, task, ev, events>>

\* Mutant: only an established connection is forgotten.
WillCloseKeepsConnecting(a) ==
  /\ where[a] = "taken"
  /\ IF info = a /\ connected
       THEN Reset /\ UNCHANGED <<requireCache, quest, waiting, woken>>
       ELSE UNCHANGED clientVars
  /\ NewCloseTask(a)
  /\ where' = [where EXCEPT ![a] = "closed"]
  /\ UNCHANGED <<closeVars, attemptVars, lambda, result, events>>

\* willClose(), by the thread that took the connection.  Nobody is notified.
WillClose(a) ==
  /\ where[a] = "taken"
  /\ IF info = a
       THEN Reset /\ UNCHANGED <<requireCache, quest, waiting, woken>>
       ELSE UNCHANGED clientVars
  /\ NewCloseTask(a)
  /\ where' = [where EXCEPT ![a] = "closed"]
  /\ UNCHANGED <<closeVars, attemptVars, lambda, result, events>>

\* Mutant: the close event does not wait for the connected event to return.
RunCloseTaskEager(a) ==
  /\ task[a] = "queued"
  /\ task' = [task EXCEPT ![a] = "done"]
  /\ \/ /\ ev[a].conn = 0
        /\ ev' = [ev EXCEPT ![a].conn = 1, ![a].close = 1, ![a].discarded = TRUE]
        /\ Called(a, "cancelled")
     \/ /\ ev[a].conn # 0
        /\ ev' = [ev EXCEPT ![a].close = 1]
        /\ Called(a, "close")
  /\ UNCHANGED <<clientVars, closeVars, attemptVars, where, lambda, result>>

\* ClientCloseTask::run(), with getCloseEventCallingPermission().
RunCloseTask(a) ==
  /\ task[a] = "queued"
  /\ task' = [task EXCEPT ![a] = "done"]
  /\ \/ /\ ev[a].conn = 0
        /\ ev' = [ev EXCEPT ![a].conn = 1, ![a].close = 1, ![a].discarded = TRUE]
        /\ Called(a, "cancelled")
     \/ /\ ev[a].conn = 1
        /\ ev' = [ev EXCEPT ![a].requireClose = TRUE]
        /\ UNCHANGED events
     \/ /\ ev[a].conn = 2
        /\ ev' = [ev EXCEPT ![a].close = 1]
        /\ Called(a, "close")
  /\ UNCHANGED <<clientVars, closeVars, attemptVars, where, lambda, result>>

-----------------------------------------------------------------------------
(* The task of socketConnected() *)

\* Mutant: a discarded connection is left to its close task.
RunConnectedLeaves(a) ==
  /\ lambda[a] = "queued" /\ result[a]
  /\ IF ev[a].conn # 0 \/ ev[a].discarded
       THEN To(a, "over")
       ELSE To(a, "permitted")
  /\ ev' = [ev EXCEPT ![a].conn = 1]
  /\ UNCHANGED <<clientVars, closeVars, attemptVars, where, result, task, events>>

\* getConnectedEventCallingPermission() for an established connection.
RunConnected(a) ==
  /\ lambda[a] = "queued" /\ result[a]
  /\ IF ev[a].conn # 0
       THEN To(a, "over") /\ UNCHANGED ev
       ELSE /\ To(a, IF ev[a].discarded THEN "cancelling" ELSE "permitted")
            /\ ev' = [ev EXCEPT ![a].conn = 1]
  /\ UNCHANGED <<clientVars, closeVars, attemptVars, where, result, task, events>>

\* Mutant: whatever the client has done meanwhile, it is connected.
ConnectSuccessedAlways(a) ==
  /\ lambda[a] = "permitted"
  /\ connected' = TRUE
  /\ status' = "Connected"
  /\ NotifyAll
  /\ Called(a, "connected")
  /\ To(a, "calling")
  /\ UNCHANGED <<info, requireCache, quest, ev, closeVars, attemptVars, where,
                 result, task>>

\* connectSuccessed(), and the start of connected(..., true).
ConnectSuccessed(a) ==
  /\ lambda[a] = "permitted"
  /\ IF info = a
       THEN /\ connected' = TRUE
            /\ status' = "Connected"
            /\ NotifyAll
            /\ Called(a, "connected")
            /\ To(a, "calling")
            /\ UNCHANGED <<info, requireCache, quest, ev>>
       ELSE /\ ev' = [ev EXCEPT ![a].discarded = TRUE]
            /\ To(a, "cancelling")
            /\ UNCHANGED <<clientVars, events>>
  /\ UNCHANGED <<closeVars, attemptVars, where, result, task>>

\* Mutant: nobody calls the close event that had to wait.
ConnectedEventCalledOnly(a) ==
  /\ lambda[a] = "calling"
  /\ ev' = [ev EXCEPT ![a].conn = 2]
  /\ To(a, "over")
  /\ UNCHANGED <<clientVars, closeVars, attemptVars, where, result, task, events>>

\* connected(..., true) has returned: connectedEventCalled(), and the close
\* event if the connection was closed meanwhile.
ConnectedEventCalled(a) ==
  /\ lambda[a] = "calling"
  /\ ev' = [ev EXCEPT ![a].conn = 2]
  /\ IF ev[a].requireClose THEN Called(a, "close") ELSE UNCHANGED events
  /\ To(a, "over")
  /\ UNCHANGED <<clientVars, closeVars, attemptVars, where, result, task>>

\* The connection was cancelled.
CancelConnecting(a) ==
  /\ lambda[a] = "cancelling"
  /\ ConnectFailed(a)
  /\ To(a, "cancelled")
  /\ UNCHANGED <<closeVars, attemptVars, where, result, task, ev, events>>

\* The connection was not established.
RunFailed(a) ==
  /\ lambda[a] = "queued" /\ ~result[a]
  /\ ConnectFailed(a)
  /\ To(a, "failing")
  /\ UNCHANGED <<closeVars, attemptVars, where, result, task, ev, events>>

FailPermission(a) ==
  /\ lambda[a] = "failing"
  /\ IF ev[a].conn # 0
       THEN To(a, "over") /\ UNCHANGED ev
       ELSE To(a, "cancelled") /\ ev' = [ev EXCEPT ![a].conn = 1]
  /\ UNCHANGED <<clientVars, closeVars, attemptVars, where, result, task, events>>

\* connected(..., false), and then takeConnection().
CallFailed(a) ==
  /\ lambda[a] = "cancelled"
  /\ Called(a, "cancelled")
  /\ To(a, "dropping")
  /\ UNCHANGED <<clientVars, closeVars, attemptVars, where, result, task, ev>>

DropConnection(a) ==
  /\ lambda[a] = "dropping"
  /\ where' = IF where[a] = "mapped" THEN [where EXCEPT ![a] = "taken"] ELSE where
  /\ To(a, "over")
  /\ UNCHANGED <<clientVars, closeVars, attemptVars, result, task, ev, events>>

-----------------------------------------------------------------------------
(* Other application threads *)

\* close() reads _connected before it locks.
CloseCheck ==
  /\ closing = "idle" /\ connected
  /\ closing' = "checked"
  /\ UNCHANGED <<raced, clientVars, attemptVars, connVars>>

CloseLocked ==
  /\ closing = "checked"
  /\ IF status = "NoConnected"
       THEN closing' = "idle" /\ UNCHANGED <<raced, clientVars>>
       ELSE /\ closing' = info
            /\ raced' = (raced \/ status = "Connecting")
            /\ Reset
            /\ IF requireCache THEN Become(Cached, "failed") ELSE UNCHANGED quest
            /\ requireCache' = FALSE
            /\ IF status = "Connecting" THEN NotifyAll ELSE UNCHANGED <<waiting, woken>>
  /\ UNCHANGED <<attemptVars, connVars>>

\* takeConnection(oldConnInfo)
CloseTake ==
  /\ closing \in Info
  /\ closing' = "idle"
  /\ where' = [a \in Attempt |->
                 IF a = closing /\ where[a] = "mapped" THEN "taken" ELSE where[a]]
  /\ UNCHANGED <<raced, clientVars, attemptVars, lambda, result, task, ev, events>>

\* sendQuest() reads _connected; asyncReconnect() returns at once if the client
\* is connecting already.  (Otherwise it begins an attempt first.)
SendCheck(q) ==
  /\ quest[q] = "idle"
  /\ status # "NoConnected"
  /\ Become({q}, "sending")
  /\ UNCHANGED <<connected, status, info, requireCache, waiting, woken, closeVars,
                 attemptVars, connVars>>

\* sendQuest() has locked: the client may have changed since.
SendQuest(q) ==
  /\ quest[q] = "sending"
  /\ \/ requireCache /\ Become({q}, "cached")
     \/ /\ ~requireCache
        /\ \/ info \in Attempt /\ where[info] = "mapped" /\ Become({q}, "sent")
           \/ ~(info \in Attempt /\ where[info] = "mapped") /\ Become({q}, "refused")
  /\ UNCHANGED <<connected, status, info, requireCache, waiting, woken, closeVars,
                 attemptVars, connVars>>

\* connect() after asyncConnect(): blocks while the client is connecting.
Wait(w) ==
  /\ w \notin waiting \cup woken
  /\ status = "Connecting"
  /\ waiting' = waiting \cup {w}
  /\ UNCHANGED <<connected, status, info, requireCache, quest, woken, closeVars,
                 attemptVars, connVars>>

WakeUp(w) ==
  /\ w \in woken
  /\ woken' = woken \ {w}
  /\ waiting' = IF status = "Connecting" THEN waiting \cup {w} ELSE waiting
  /\ UNCHANGED <<connected, status, info, requireCache, quest, closeVars, attemptVars,
                 connVars>>

-----------------------------------------------------------------------------
Connecter(a) ==
  \/ SocketFails(a) \/ JoinFails(a) \/ Join(a) \/ DumpCache(a) \/ DumpDone(a)
  \/ \E now \in BOOLEAN : PrepareConnection(a, now)
  \/ \E q \in Quest : DumpOne(a, q)

Closer(a) == ExpireFailed(a) \/ WillClose(a)

SocketTask(a) ==
  \/ RunConnected(a) \/ ConnectSuccessed(a) \/ ConnectedEventCalled(a)
  \/ CancelConnecting(a) \/ RunFailed(a) \/ FailPermission(a) \/ CallFailed(a)
  \/ DropConnection(a)

Engine(a) ==
  \/ SignConnecting(a) \/ TakeConnection(a) \/ Expire(a)
  \/ \E ok \in BOOLEAN : SocketConnected(a, ok)

User ==
  \/ CloseCheck \/ CloseLocked \/ CloseTake
  \/ \E q \in Quest : SendCheck(q) \/ SendQuest(q)
  \/ \E w \in Waiter : Wait(w) \/ WakeUp(w)

Next ==
  \/ \E a \in Attempt : Begin(a) \/ Connecter(a) \/ Closer(a) \/ SocketTask(a) \/ RunCloseTask(a)
                        \/ Engine(a)
  \/ User

Safety == Init /\ [][Next]_vars

\* The connecting threads, the pool and the threads that took a connection go
\* on; the loop thread finishes what it signed; a connecting ends or expires.
Fairness == \A a \in Attempt :
  /\ WF_vars(Connecter(a)) /\ WF_vars(Closer(a))
  /\ WF_vars(RunCloseTask(a)) /\ WF_vars(SocketTask(a))
  /\ WF_vars(\E ok \in BOOLEAN : SocketConnected(a, ok))
  /\ WF_vars(SignConnecting(a) \/ Expire(a))

Spec == Safety /\ Fairness

-----------------------------------------------------------------------------
(* Properties *)

\* The events of a connection come in order and once: it is either reported
\* established, and then its close at most once and only after connected()
\* has returned, or reported as failed, and then nothing more, however its
\* connecting, its closing and the two pool tasks interleave.
EventsInOrder ==
  \A a \in Attempt :
    /\ events[a] \in {<<>>, <<"connected">>, <<"connected", "close">>, <<"cancelled">>}
    /\ lambda[a] = "calling" => events[a] = <<"connected">>

\* A connection whose pool tasks are over has been reported: none is opened and
\* destroyed in silence, and none that was established goes without its close.
EventsComplete ==
  \A a \in Attempt :
    task[a] = "done" /\ lambda[a] \in {"none", "over"} =>
      events[a] \in {<<"connected", "close">>, <<"cancelled">>}

\* What the processor hears of each connection is right.
EventsTold == EventsInOrder /\ EventsComplete

\* No attempt ends in silence: the processor hears whether the connection was
\* established, and in the end that a taken connection is gone.
EverythingReported ==
  \A a \in Attempt :
    /\ pc[a] = "connecting" ~> events[a] # <<>>
    /\ where[a] = "taken" ~>
         events[a] \in {<<"connected", "close">>, <<"cancelled">>}

\* A client that calls itself connected has the connection, or the thread that
\* took it is about to say otherwise -- unless a close() met a client that was
\* connecting: perpareConnection() then goes on with what close() has undone.
ConnectedIsAlive ==
  ~raced /\ status = "Connected" =>
       /\ connected
       /\ info \in Attempt
       /\ where[info] \in {"mapped", "expired", "taken"}

\* A client that connects has an attempt under way, with the same reservation.
ConnectingHasAttempt ==
  ~raced /\ status = "Connecting" =>
    \E a \in Attempt :
      \/ pc[a] \in {"connecting", "preparing"}
      \/ info = a /\ where[a] \in {"mapped", "expired", "taken"}

\* The status of the client fits its connection.
StatusFits == ConnectedIsAlive /\ ConnectingHasAttempt

\* An attempt is under way that will dump the cache, or fail what is in it.
CacheOwned ==
  requireCache \/ Cached # {} =>
    \E a \in Attempt : pc[a] \in {"connecting", "preparing", "joined"}

\* Quests are cached only while that is so, with the same reservation.
CacheHasOwner == ~raced => CacheOwned

\* A quest that was accepted into the cache will be completed.
AcceptedIsCompleted == Cached # {} => CacheOwned

\* A thread blocked in connect() is blocked because the client is connecting.
WaiterHasReason == waiting # {} => status = "Connecting"

=============================================================================
