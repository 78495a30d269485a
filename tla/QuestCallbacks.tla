--------------------------- MODULE QuestCallbacks ---------------------------
(***************************************************************************)
(* The life of an answer callback: ConnectionMap (ConnectionMap.h/.cpp),   *)
(* the threads that put callbacks into the per-connection _callbackMap and *)
(* the threads that take them out of it.                                   *)
(*                                                                         *)
(*   - application threads: sendQuest() and close();                       *)
(*   - the engine's loop thread: dealAnswer() and closeConnection();       *)
(*   - the engine's timeout thread ("checker"): periodUDPSendingCheck(),   *)
(*     TCPClientKeepAlive(), clearTimeoutQuest(), reclaimConnections();    *)
(*   - the callback pool: runs the completed asynchronous callbacks.       *)
(*                                                                         *)
(* One action is one critical section of ConnectionMap::_mutex, or one     *)
(* step a thread takes outside of it.  A connection stands for one         *)
(* TCPClientConnection or UDPClientConnection object; the module           *)
(* EngineLoop shows that the descriptor it is filed under is not reused    *)
(* while the object lives, so descriptors do not appear here.  The pool    *)
(* accepts every task: it is neither full nor being released.              *)
(***************************************************************************)
EXTENDS Naturals, FiniteSets

CONSTANTS Quest,      \* callbacks the application hands to sendQuest()
          SyncQuest,  \* those of them that may be SyncedAnswerCallbacks
          Conn,       \* connection objects
          UdpConn     \* those of them that are UDPClientConnections

ASSUME QuestAssumption == IsFiniteSet(Quest) /\ SyncQuest \subseteq Quest
ASSUME ConnAssumption == UdpConn \subseteq Conn
ASSUME DisjointAssumption == Quest \cap Conn = {}

\* The KeepAliveCallback of connection c is named c.  At most one ping is
\* sent on a connection (a bound of the model).
Callback == Quest \cup Conn
TcpConn == Conn \ UdpConn

VARIABLES
  conn,      \* [Conn -> Stage], where the connection object is in its life
  closer,    \* [Conn -> thread that took it out of the map]
  cbs,       \* [Conn -> SUBSET Callback], BasicConnection::_callbackMap
  refs,      \* [Conn -> Nat], BasicConnection::_refCount
  todo,      \* [Conn -> SUBSET Callback], what the closer has still to visit
  pins,      \* [Callback -> SUBSET Conn], connections the callback refers to
  sent,      \* [Callback -> "idle" | "accepted" | "refused"]
  fills,     \* [Callback -> Nat], number of fillResult() calls
  fired,     \* [Callback -> Nat], number of run() calls / synchronous returns
  signed,    \* the connection the loop thread has signed (at most one)
  answered,  \* the callback the loop thread holds in dealAnswer() (at most one)
  phase,     \* where the timeout thread is in its cycle
  marked,    \* connections the timeout thread holds a reference to
  timeouted  \* callbacks the timeout thread has extracted

connVars == <<conn, closer, cbs, refs, todo>>
cbVars == <<pins, sent, fills, fired>>
loopVars == <<signed, answered>>
checkerVars == <<phase, marked, timeouted>>
vars == <<connVars, cbVars, loopVars, checkerVars>>

Stage == {"new", "mapped", "taken", "clearing", "discarded", "freed"}
Thread == {"none", "user", "loop", "checker"}
Phase == {"udp", "udpSend", "udpClose", "keepAlive", "ping", "close",
          "timeout", "fill"}

\* ConnectionMap::_connections, and the connections a set of it refers to.
Mapped == {c \in Conn : conn[c] = "mapped"}

\* Callbacks that have not been used by a sendQuest() yet.
Fresh == {q \in Callback : sent[q] = "idle"}

TypeOK ==
  /\ conn \in [Conn -> Stage]
  /\ closer \in [Conn -> Thread]
  /\ cbs \in [Conn -> SUBSET Callback]
  /\ refs \in [Conn -> Nat]
  /\ todo \in [Conn -> SUBSET Callback]
  /\ pins \in [Callback -> SUBSET Conn]
  /\ sent \in [Callback -> {"idle", "accepted", "refused"}]
  /\ fills \in [Callback -> Nat]
  /\ fired \in [Callback -> Nat]
  /\ signed \in SUBSET Conn
  /\ answered \in SUBSET Callback
  /\ phase \in Phase
  /\ marked \in SUBSET Conn
  /\ timeouted \in SUBSET Callback

Init ==
  /\ conn = [c \in Conn |-> "new"]
  /\ closer = [c \in Conn |-> "none"]
  /\ cbs = [c \in Conn |-> {}]
  /\ refs = [c \in Conn |-> 0]
  /\ todo = [c \in Conn |-> {}]
  /\ pins = [q \in Callback |-> {}]
  /\ sent = [q \in Callback |-> "idle"]
  /\ fills = [q \in Callback |-> 0]
  /\ fired = [q \in Callback |-> 0]
  /\ signed = {}
  /\ answered = {}
  /\ phase = "udp"
  /\ marked = {}
  /\ timeouted = {}

-----------------------------------------------------------------------------
(* Helpers *)

\* fillResult(): the result is stored; for an asynchronous callback the same
\* step hands the callback to the pool, for a synchronous one it notifies the
\* thread blocked in takeAnswer().
FillResult(q) == fills' = [fills EXCEPT ![q] = @ + 1]

\* takeConnection(): the connections of L leave the map, all under one lock,
\* and belong to thread t from now on.
TakenFromMap(L, t) ==
  /\ conn' = [c \in Conn |-> IF c \in L THEN "taken" ELSE conn[c]]
  /\ closer' = [c \in Conn |-> IF c \in L THEN t ELSE closer[c]]

AddRefs(S) == refs' = [c \in Conn |-> IF c \in S THEN refs[c] + 1 ELSE refs[c]]
DropRefs(S) == refs' = [c \in Conn |-> IF c \in S THEN refs[c] - 1 ELSE refs[c]]

-----------------------------------------------------------------------------
(* Application threads *)

\* ClientEngine::join(): a new connection enters the map.  S is empty, or the
\* key-exchange callback that sendEncryptHandshake() puts into the callback
\* map before the connection is joined, and which refers to the connection.
Join(c, S) ==
  /\ conn[c] = "new"
  /\ S \subseteq Fresh \cap Quest
  /\ Cardinality(S) <= 1
  /\ c \in UdpConn => S = {}
  /\ conn' = [conn EXCEPT ![c] = "mapped"]
  /\ cbs' = [cbs EXCEPT ![c] = S]
  /\ refs' = [refs EXCEPT ![c] = Cardinality(S)]
  /\ pins' = [q \in Callback |-> IF q \in S THEN {c} ELSE pins[q]]
  /\ sent' = [q \in Callback |-> IF q \in S THEN "accepted" ELSE sent[q]]
  /\ UNCHANGED <<closer, todo, fills, fired, loopVars, checkerVars>>

\* Mutant: the connection is looked up, but used after it has left the map.
SendQuestUnchecked(q, c) ==
  /\ sent[q] = "idle"
  /\ conn[c] # "new"
  /\ cbs' = [cbs EXCEPT ![c] = @ \cup {q}]
  /\ sent' = [sent EXCEPT ![q] = "accepted"]
  /\ UNCHANGED <<conn, closer, refs, todo, pins, fills, fired, loopVars, checkerVars>>

\* sendQuest(socket, token, ...): accepted only if the connection is still in
\* the map; the look-up and the insertion are one critical section.
SendQuest(q, c) ==
  /\ sent[q] = "idle"
  /\ conn[c] # "new"
  /\ IF conn[c] = "mapped"
       THEN /\ cbs' = [cbs EXCEPT ![c] = @ \cup {q}]
            /\ sent' = [sent EXCEPT ![q] = "accepted"]
       ELSE /\ sent' = [sent EXCEPT ![q] = "refused"]
            /\ UNCHANGED cbs
  /\ UNCHANGED <<conn, closer, refs, todo, pins, fills, fired, loopVars, checkerVars>>

\* TCPClient::close(), the paths of pool threads that close a connection (key
\* exchange or connecting failed), and clearConnection() for a descriptor in
\* an exceptional state: takeConnection() succeeds for one of them only.
UserClose(c) ==
  /\ conn[c] = "mapped"
  /\ TakenFromMap({c}, "user")
  /\ UNCHANGED <<cbs, refs, todo, cbVars, loopVars, checkerVars>>

\* SyncedAnswerCallback::takeAnswer() returns once the answer is there.  Nothing
\* before the completion depends on whether q is synchronous, so the model
\* decides it here; a key-exchange callback never is.
SyncReturn(q) ==
  /\ q \in SyncQuest /\ pins[q] = {}
  /\ fills[q] > 0
  /\ fired[q] = 0
  /\ fired' = [fired EXCEPT ![q] = 1]
  /\ UNCHANGED <<connVars, pins, sent, fills, loopVars, checkerVars>>

\* Mutant: the key-exchange callback does not give its reference back.
RunTaskKeepsPin(q) ==
  /\ fired[q] < fills[q]
  /\ fired' = [fired EXCEPT ![q] = @ + 1]
  /\ UNCHANGED <<connVars, pins, sent, fills, loopVars, checkerVars>>

\* The pool runs one queued asynchronous callback and destroys it, and with it
\* the reference of a key-exchange callback.
RunTask(q) ==
  /\ fired[q] < fills[q]
  /\ fired' = [fired EXCEPT ![q] = @ + 1]
  /\ DropRefs(pins[q])
  /\ pins' = [pins EXCEPT ![q] = {}]
  /\ UNCHANGED <<conn, closer, cbs, todo, sent, fills, loopVars, checkerVars>>

-----------------------------------------------------------------------------
(* Closing a connection that was taken out of the map *)

\* Mutant: the callbacks are not walked over.
BeginClearSkipsWalk(c) ==
  /\ conn[c] = "taken"
  /\ conn' = [conn EXCEPT ![c] = "clearing"]
  /\ UNCHANGED <<closer, cbs, refs, todo, cbVars, loopVars, checkerVars>>

\* quit() is done; clearConnectionQuestCallbacks() starts to walk over
\* _callbackMap, without a lock.
BeginClear(c) ==
  /\ conn[c] = "taken"
  /\ conn' = [conn EXCEPT ![c] = "clearing"]
  /\ todo' = [todo EXCEPT ![c] = cbs[c]]
  /\ UNCHANGED <<closer, cbs, refs, cbVars, loopVars, checkerVars>>

\* The walk completes one callback.  _callbackMap itself is not emptied.
ClearOne(c, q) ==
  /\ conn[c] = "clearing"
  /\ q \in todo[c]
  /\ todo' = [todo EXCEPT ![c] = @ \ {q}]
  /\ FillResult(q)
  /\ UNCHANGED <<conn, closer, cbs, refs, pins, sent, fired, loopVars, checkerVars>>

\* Mutant: every closer drops a reference, whether it had signed or not.
DiscardDropsRef(c) ==
  /\ conn[c] = "clearing"
  /\ todo[c] = {}
  /\ conn' = [conn EXCEPT ![c] = "discarded"]
  /\ signed' = signed \ {c}
  /\ DropRefs({c})
  /\ UNCHANGED <<closer, cbs, todo, cbVars, answered, checkerVars>>

\* willClose() / reclaim(): the connection waits for its destruction.  The
\* loop thread drops its own reference last.
Discard(c) ==
  /\ conn[c] = "clearing"
  /\ todo[c] = {}
  /\ conn' = [conn EXCEPT ![c] = "discarded"]
  /\ IF closer[c] = "loop"
       THEN /\ signed' = signed \ {c}
            /\ DropRefs({c})
       ELSE UNCHANGED <<signed, refs>>
  /\ UNCHANGED <<closer, cbs, todo, cbVars, answered, checkerVars>>

-----------------------------------------------------------------------------
(* The loop thread *)

\* signConnection() at the start of processConnectionIO().
SignConnection(c) ==
  /\ signed = {}
  /\ conn[c] = "mapped"
  /\ signed' = {c}
  /\ AddRefs({c})
  /\ UNCHANGED <<conn, closer, cbs, todo, cbVars, answered, checkerVars>>

\* The loop thread is between two packages of the signed connection c.
Reading(c) == c \in signed /\ answered = {} /\ closer[c] # "loop"

\* Mutant: takeCallback() leaves the callback in the map.
TakeCallbackKeepsEntry(c, q) ==
  /\ Reading(c)
  /\ conn[c] = "mapped"
  /\ q \in cbs[c]
  /\ answered' = {q}
  /\ UNCHANGED <<connVars, cbVars, signed, checkerVars>>

\* takeCallback(): an answer with the sequence number of q has arrived on c.
\* An answer nobody waits for changes nothing and is not an action.
TakeCallback(c, q) ==
  /\ Reading(c)
  /\ conn[c] = "mapped"
  /\ q \in cbs[c]
  /\ answered' = {q}
  /\ cbs' = [cbs EXCEPT ![c] = @ \ {q}]
  /\ UNCHANGED <<conn, closer, refs, todo, cbVars, signed, checkerVars>>

DealAnswer(q) ==
  /\ q \in answered
  /\ FillResult(q)
  /\ answered' = {}
  /\ UNCHANGED <<connVars, pins, sent, fired, signed, checkerVars>>

\* Nothing more to read: the reference is dropped.
LeaveIO(c) ==
  /\ Reading(c)
  /\ signed' = {}
  /\ DropRefs({c})
  /\ UNCHANGED <<conn, closer, cbs, todo, cbVars, answered, checkerVars>>

\* closeConnection(): the peer closed or an error; if another thread has
\* already taken the connection, only the reference is dropped.
LoopClose(c) ==
  /\ Reading(c)
  /\ IF conn[c] = "mapped"
       THEN /\ TakenFromMap({c}, "loop")
            /\ UNCHANGED <<refs, signed>>
       ELSE /\ signed' = {}
            /\ DropRefs({c})
            /\ UNCHANGED <<conn, closer>>
  /\ UNCHANGED <<cbs, todo, cbVars, answered, checkerVars>>

-----------------------------------------------------------------------------
(* The timeout thread *)

\* All connections the timeout thread took are discarded.
CheckerClosed ==
  \A c \in Conn : closer[c] = "checker" => conn[c] \in {"discarded", "freed"}

\* periodUDPSendingCheck(), locked part: the connections that require a close
\* leave the map, the others are marked.
UdpCheck(L) ==
  /\ phase = "udp"
  /\ L \subseteq Mapped \cap UdpConn
  /\ TakenFromMap(L, "checker")
  /\ marked' = (Mapped \cap UdpConn) \ L
  /\ AddRefs(marked')
  /\ phase' = "udpSend"
  /\ UNCHANGED <<cbs, todo, cbVars, loopVars, timeouted>>

\* periodUDPSendingCheck(), unlocked part: cached data is sent.
UdpSend ==
  /\ phase = "udpSend"
  /\ DropRefs(marked)
  /\ marked' = {}
  /\ phase' = "udpClose"
  /\ UNCHANGED <<conn, closer, cbs, todo, cbVars, loopVars, timeouted>>

UdpClosed ==
  /\ phase = "udpClose"
  /\ CheckerClosed
  /\ phase' = "keepAlive"
  /\ UNCHANGED <<connVars, cbVars, loopVars, marked, timeouted>>

\* TCPClientKeepAlive(), step 1: the lost connections and those whose
\* connecting has expired leave the map; those that need a ping are marked.
KeepAliveCheck(L, P) ==
  /\ phase = "keepAlive"
  /\ L \subseteq Mapped \cap TcpConn
  /\ P \subseteq (Mapped \cap TcpConn \cap Fresh) \ L
  /\ TakenFromMap(L, "checker")
  /\ marked' = P
  /\ AddRefs(P)
  /\ phase' = "ping"
  /\ UNCHANGED <<cbs, todo, cbVars, loopVars, timeouted>>

\* TCPClientKeepAlive(), step 2: the lock is taken again and a callback is put
\* into each marked connection, in the map or not.  A closer that is walking
\* over the same _callbackMap meets the new entry or misses it.
SendPings ==
  /\ phase = "ping"
  /\ cbs' = [c \in Conn |-> IF c \in marked THEN cbs[c] \cup {c} ELSE cbs[c]]
  /\ \E seen \in SUBSET {c \in marked : conn[c] = "clearing"} :
       todo' = [c \in Conn |-> IF c \in seen THEN todo[c] \cup {c} ELSE todo[c]]
  /\ sent' = [q \in Callback |-> IF q \in marked THEN "accepted" ELSE sent[q]]
  /\ DropRefs(marked)
  /\ marked' = {}
  /\ phase' = "close"
  /\ UNCHANGED <<conn, closer, pins, fills, fired, loopVars, timeouted>>

\* The callbacks extractTimeoutedCallback() looks at.
Outstanding == UNION {cbs[c] : c \in Mapped}

\* Mutant: the expired callbacks stay in the map.
ExtractTimeoutedKeepsEntries(E) ==
  /\ phase = "close"
  /\ CheckerClosed
  /\ E \subseteq Outstanding
  /\ timeouted' = E
  /\ phase' = "fill"
  /\ UNCHANGED <<connVars, cbVars, loopVars, marked>>

\* clearTimeoutQuest(): extractTimeoutedCallback() empties the maps of all
\* mapped connections of their expired callbacks E under one lock, once the
\* lost connections have been closed.
ExtractTimeouted(E) ==
  /\ phase = "close"
  /\ CheckerClosed
  /\ E \subseteq Outstanding
  /\ timeouted' = E
  /\ cbs' = [c \in Conn |-> IF conn[c] = "mapped" THEN cbs[c] \ E ELSE cbs[c]]
  /\ phase' = "fill"
  /\ UNCHANGED <<conn, closer, refs, todo, cbVars, loopVars, marked>>

FillTimeouted(q) ==
  /\ q \in timeouted
  /\ FillResult(q)
  /\ timeouted' = timeouted \ {q}
  /\ UNCHANGED <<connVars, pins, sent, fired, loopVars, phase, marked>>

\* Mutant: connections are deleted although they are referred to.
ReclaimIgnoresRefs(D) ==
  /\ phase = "fill"
  /\ timeouted = {}
  /\ D \subseteq {c \in Conn : conn[c] = "discarded"}
  /\ conn' = [c \in Conn |-> IF c \in D THEN "freed" ELSE conn[c]]
  /\ phase' = "udp"
  /\ UNCHANGED <<closer, cbs, refs, todo, cbVars, loopVars, marked, timeouted>>

\* reclaimConnections(): discarded connections nobody refers to are deleted;
\* the loop ticket (module EngineLoop) may still protect some of them.
Reclaim(D) ==
  /\ phase = "fill"
  /\ timeouted = {}
  /\ D \subseteq {c \in Conn : conn[c] = "discarded" /\ refs[c] = 0}
  /\ conn' = [c \in Conn |-> IF c \in D THEN "freed" ELSE conn[c]]
  /\ phase' = "udp"
  /\ UNCHANGED <<closer, cbs, refs, todo, cbVars, loopVars, marked, timeouted>>

-----------------------------------------------------------------------------
User ==
  \/ \E c \in Conn : UserClose(c) \/ \E S \in SUBSET Quest : Join(c, S)
  \/ \E q \in Quest, c \in Conn : SendQuest(q, c)
  \/ \E q \in Quest : SyncReturn(q)

Pool == \E q \in Callback : RunTask(q)

Closer == \E c \in Conn :
  \/ BeginClear(c)
  \/ \E q \in Callback : ClearOne(c, q)
  \/ Discard(c)

Loop ==
  \/ \E c \in Conn : SignConnection(c) \/ LeaveIO(c) \/ LoopClose(c)
  \/ \E c \in Conn, q \in Callback : TakeCallback(c, q)
  \/ \E q \in Callback : DealAnswer(q)

Checker ==
  \/ \E L \in SUBSET Conn : UdpCheck(L)
  \/ UdpSend \/ UdpClosed
  \/ \E L, P \in SUBSET Conn : KeepAliveCheck(L, P)
  \/ SendPings
  \/ \E E \in SUBSET Callback : ExtractTimeouted(E)
  \/ \E q \in Callback : FillTimeouted(q)
  \/ \E D \in SUBSET Conn : Reclaim(D)

Next == User \/ Pool \/ Closer \/ Loop \/ Checker

Safety == Init /\ [][Next]_vars

\* The timeout thread keeps cycling, every task given to the pool is run, a
\* thread that has taken a callback or a connection goes on with it, and the
\* loop thread comes back from its handlers.  An outstanding callback expires:
\* it cannot stay behind in infinitely many extractions.  Nothing is assumed of
\* the loop ticket: reclaimConnections() may pass over a connection for ever.
Fairness ==
  /\ WF_vars(Checker)
  /\ \A q \in Callback :
       /\ WF_vars(RunTask(q) \/ SyncReturn(q)) /\ WF_vars(DealAnswer(q))
       /\ SF_vars(\E E \in SUBSET Callback : q \in E /\ ExtractTimeouted(E))
  /\ \A c \in Conn :
       /\ WF_vars(BeginClear(c)) /\ WF_vars(Discard(c))
       /\ WF_vars(\E q \in Callback : ClearOne(c, q))
       /\ WF_vars(LeaveIO(c) \/ LoopClose(c))

Spec == Safety /\ Fairness

-----------------------------------------------------------------------------
(* Properties *)

\* The places from which a thread will use the callback object q again: the
\* callback map of a mapped connection, the walk of a closer, dealAnswer(),
\* or the list of timed-out callbacks.
Owners(q) ==
  {<<"map", c>> : c \in {d \in Conn : conn[d] \in {"mapped", "taken"} /\ q \in cbs[d]}}
  \cup {<<"walk", c>> : c \in {d \in Conn : q \in todo[d]}}
  \cup (IF q \in answered THEN {<<"loop">>} ELSE {})
  \cup (IF q \in timeouted THEN {<<"checker">>} ELSE {})

\* Answer, timeout and close race for a callback: whoever gets it, it is
\* completed at most once, and never when sendQuest() returned false.
AtMostOnce ==
  \A q \in Callback :
    /\ fills[q] <= 1
    /\ fired[q] <= fills[q]
    /\ sent[q] # "accepted" => fills[q] = 0

\* No thread keeps a callback that another thread has completed (and whose
\* object may be gone: the pool or the synchronous caller destroys it), and
\* no two threads hold the same one.
SingleOwner ==
  \A q \in Callback :
    /\ \A x, y \in Owners(q) : x = y
    /\ Owners(q) # {} => fills[q] = 0

\* A connection is destroyed only when every callback that sendQuest() put
\* into it has been completed: none is lost with it.
NoLostQuest ==
  \A c \in Conn : conn[c] \in {"discarded", "freed"} =>
    \A q \in cbs[c] \cap Quest : fills[q] = 1

\* The same for the callbacks of keep-alive pings, which are AnswerCallbacks
\* as well.
NoLostPing ==
  \A c \in Conn : conn[c] \in {"discarded", "freed"} =>
    \A q \in cbs[c] \cap Conn : fills[q] = 1

\* A connection the loop or the timeout thread has signed is not destroyed
\* under its hands.
SignedAlive ==
  \A c \in signed \cup marked : conn[c] # "freed" /\ refs[c] > 0

-----------------------------------------------------------------------------
(* Refinement of QuestContract *)

Contract == INSTANCE QuestContract WITH
  status <- [q \in Quest |-> IF fired[q] > 0 THEN "completed" ELSE sent[q]]

\* Every accepted quest ends, exactly once, in the pool or in the blocked
\* caller, under the fairness of the engine's threads.
ImplementsContract == Contract!Spec

\* Every reference to a connection that was closed is given back, for good: in
\* the end nothing but the loop ticket can keep releaseable() from letting it be
\* destroyed.  Whether the ticket advances is not claimed (see the fairness).
ReferencesReturned ==
  \A c \in Conn :
    conn[c] = "taken" ~> [](conn[c] \in {"discarded", "freed"} /\ refs[c] = 0)

=============================================================================
