------------------------------ MODULE UdpClient ------------------------------
(*
One UDPClient (UDPClient.cpp, ClientInterface.cpp) whose connect() and close()
are called by several threads, while the engine closes its connections.

Connecting over UDP takes no time of the network: connect() opens a socket,
reports the connection, joins the engine and is done.  But it does so outside
of the mutex of the client, and from join() on the engine may close the
connection.  close() does not take the connection from the engine; it looks it
up by the number of its socket and asks it to say good-bye.  UdpSend shows that
the engine then takes it; here it does so, or does earlier for a reason of its
own: the peer has closed, the socket was refused, or nothing has come for long.

A ConnectionInfo stands for its connection too.  Infos are numbered in the
order in which they are made; the client has one that no socket was opened for
when it is not connected.
*)
EXTENDS Naturals, Sequences

CONSTANTS
  Caller,    \* threads of the application
  Fd,        \* descriptors
  MaxInfo    \* the bound on infos: the last one is not connected any more

ASSUME UdpClientAssumption == 0 \notin Fd /\ MaxInfo \in Nat \ {0}

VARIABLES
  status,        \* _connStatus
  connected,     \* _connected
  info,          \* _connectionInfo
  socket,        \* of each info
  conn,          \* the connection of each info
  requireClose,  \* those that have been asked to close
  pc, mine       \* of each caller: where it is, its currConnInfo or oldConnInfo

clientVars == <<status, connected, info, socket, conn, requireClose, pc, mine>>
statusVars == <<status, connected, info>>
connVars == <<socket, conn, requireClose>>

Info == 1..MaxInfo
Waiting == {"waiting", "closeWaiting", "dupledWaiting"}
Connecting == {"opening", "opened", "joined", "failed"}

ClientTypeOK ==
  /\ status \in {"NoConnected", "Connecting", "Connected"}
  /\ connected = (status = "Connected")
  /\ info \in Info
  /\ socket \in [Info -> Fd \cup {0}]
  /\ conn \in [Info -> {"none", "made", "mapped", "taken", "discarded", "reported", "freed"}]
  /\ \A i, j \in Info :
       {conn[i], conn[j]} \cap {"none", "freed"} = {} /\ socket[i] = socket[j] => i = j
  /\ requireClose \subseteq Info
  /\ pc \in [Caller -> {"idle", "enter", "close", "signal", "dupledEnd"}
                         \cup Waiting \cup Connecting]
  /\ mine \in [Caller -> Info]

ClientInit ==
  /\ status = "NoConnected" /\ connected = FALSE /\ info = 1
  /\ socket = [i \in Info |-> 0] /\ conn = [i \in Info |-> "none"]
  /\ requireClose = {}
  /\ pc = [t \in Caller |-> "idle"] /\ mine = [t \in Caller |-> 1]

Goto(t, label) == pc' = [pc EXCEPT ![t] = label]

\* notify_all(): each thread that waits looks at the status again; and the caller
\* goes on.
Again == [waiting |-> "enter", closeWaiting |-> "close", dupledWaiting |-> "dupledEnd"]
NotifyAllAndGoto(t, label) ==
  pc' = [u \in Caller |->
           IF u = t THEN label ELSE IF pc[u] \in Waiting THEN Again[pc[u]] ELSE pc[u]]

Disconnected == status' = "NoConnected" /\ connected' = FALSE
NewInfo == info' = info + 1

\* willClose() of a connection.  It tells nobody who waits for the status.
Reset(i) == IF info = i THEN Disconnected /\ NewInfo ELSE UNCHANGED statusVars

-----------------------------------------------------------------------------
(* connect() *)

ConnectCheck(t) ==
  /\ pc[t] = "idle" /\ ~connected
  /\ Goto(t, "enter")
  /\ UNCHANGED <<statusVars, connVars, mine>>

Enter(t) ==
  /\ pc[t] = "enter"
  /\ \/ status = "Connecting" /\ Goto(t, "waiting") /\ UNCHANGED <<statusVars, mine>>
     \/ status = "Connected" /\ Goto(t, "idle") /\ UNCHANGED <<statusVars, mine>>
     \/ /\ status = "NoConnected" /\ status' = "Connecting"
        /\ mine' = [mine EXCEPT ![t] = info]
        /\ Goto(t, "opening")
        /\ UNCHANGED <<connected, info>>
  /\ UNCHANGED connVars

\* No socket, or no address.
SocketFails(t) ==
  /\ pc[t] = "opening" /\ Goto(t, "failed")
  /\ UNCHANGED <<statusVars, connVars, mine>>

\* Mutant: the socket is closed when the connection leaves the map.
InUseMapped(f) == \E i \in Info : socket[i] = f /\ conn[i] \in {"made", "mapped"}

\* A socket is closed when its connection is destroyed.
InUse(f) == \E i \in Info : socket[i] = f /\ conn[i] \notin {"none", "freed"}

OpenSocket(t) ==
  /\ pc[t] = "opening" /\ mine[t] < MaxInfo
  /\ \E f \in Fd : ~InUse(f) /\ socket' = [socket EXCEPT ![mine[t]] = f]
  /\ conn' = [conn EXCEPT ![mine[t]] = "made"]
  /\ Goto(t, "opened")
  /\ UNCHANGED <<statusVars, requireClose, mine>>

\* nonblockedFd() or entryEncryptMode() fails; nobody has heard of the connection.
OpenFails(t) ==
  /\ pc[t] = "opened"
  /\ conn' = [conn EXCEPT ![mine[t]] = "freed"]
  /\ Goto(t, "failed")
  /\ UNCHANGED <<statusVars, socket, requireClose, mine>>

\* The connected event is called here, and then the connection joins the engine.
Join(t) ==
  /\ pc[t] = "opened"
  /\ conn' = [conn EXCEPT ![mine[t]] = "mapped"]
  /\ Goto(t, "joined")
  /\ UNCHANGED <<statusVars, socket, requireClose, mine>>

\* A descriptor too large for select(): the caller calls willClose() itself.
JoinFails(t) ==
  /\ pc[t] = "opened"
  /\ conn' = [conn EXCEPT ![mine[t]] = "discarded"]
  /\ Reset(mine[t])
  /\ Goto(t, "failed")
  /\ UNCHANGED <<socket, requireClose, mine>>

\* Mutant: notify_all() only by the one who changes the status.
ErrorGuardSilent(t) ==
  /\ pc[t] = "failed"
  /\ IF info = mine[t]
     THEN /\ Disconnected /\ info' = IF socket[info] = 0 THEN info ELSE info + 1
          /\ NotifyAllAndGoto(t, "idle")
     ELSE UNCHANGED statusVars /\ Goto(t, "idle")
  /\ UNCHANGED <<connVars, mine>>

\* The errorGuard of connect().
ErrorGuard(t) ==
  /\ pc[t] = "failed"
  /\ IF info = mine[t]
     THEN Disconnected /\ info' = IF socket[info] = 0 THEN info ELSE info + 1
     ELSE UNCHANGED statusVars
  /\ NotifyAllAndGoto(t, "idle")
  /\ UNCHANGED <<connVars, mine>>

\* Mutant: without the look at _connectionInfo.
EstablishedAlways(t) ==
  /\ pc[t] = "joined"
  /\ status' = "Connected" /\ connected' = TRUE
  /\ NotifyAllAndGoto(t, "idle")
  /\ UNCHANGED <<info, connVars, mine>>

Established(t) ==
  /\ pc[t] = "joined" /\ info = mine[t]
  /\ status' = "Connected" /\ connected' = TRUE
  /\ NotifyAllAndGoto(t, "idle")
  /\ UNCHANGED <<info, connVars, mine>>

\* "This codes (UDPClient::connect dupled) is impossible touched": the engine has
\* closed the connection meanwhile.
Dupled(t) ==
  /\ pc[t] = "joined" /\ info # mine[t]
  /\ conn' = [conn EXCEPT ![mine[t]] = IF @ = "mapped" THEN "taken" ELSE @]
  /\ Goto(t, "dupledEnd")
  /\ UNCHANGED <<statusVars, socket, requireClose, mine>>

DupledEnd(t) ==
  /\ pc[t] = "dupledEnd"
  /\ \/ status = "Connecting" /\ Goto(t, "dupledWaiting")
     \/ status # "Connecting" /\ NotifyAllAndGoto(t, "idle")
  /\ UNCHANGED <<statusVars, connVars, mine>>

-----------------------------------------------------------------------------
(* close() *)

CloseCheck(t) ==
  /\ pc[t] = "idle" /\ connected
  /\ Goto(t, "close")
  /\ UNCHANGED <<statusVars, connVars, mine>>

CloseLocked(t) ==
  /\ pc[t] = "close"
  /\ \/ status = "Connecting" /\ Goto(t, "closeWaiting") /\ UNCHANGED <<statusVars, mine>>
     \/ status = "NoConnected" /\ Goto(t, "idle") /\ UNCHANGED <<statusVars, mine>>
     \/ /\ status = "Connected" /\ Disconnected /\ NewInfo
        /\ mine' = [mine EXCEPT ![t] = info]
        /\ Goto(t, "signal")
  /\ UNCHANGED connVars

\* Mutant: asks for the socket of the new info.
CloseSignalCurrent(t) ==
  /\ pc[t] = "signal"
  /\ requireClose' = requireClose \cup
       {i \in Info : conn[i] = "mapped" /\ socket[i] = socket[info]}
  /\ Goto(t, "idle")
  /\ UNCHANGED <<statusVars, socket, conn, mine>>

\* executeConnectionAction() looks the connection up by its socket alone: if the
\* engine has destroyed it meanwhile, it may find another one.
CloseSignal(t) ==
  /\ pc[t] = "signal"
  /\ requireClose' = requireClose \cup
       {i \in Info : conn[i] = "mapped" /\ socket[i] = socket[mine[t]]}
  /\ Goto(t, "idle")
  /\ UNCHANGED <<statusVars, socket, conn, mine>>

-----------------------------------------------------------------------------
(* The engine *)

\* closeConnection() of the loop, or closeUDPConnection() of the timeout thread.
TakeConnection(i) ==
  /\ conn[i] = "mapped" /\ conn' = [conn EXCEPT ![i] = "taken"]
  /\ UNCHANGED <<statusVars, socket, requireClose, pc, mine>>

WillClose(i) ==
  /\ conn[i] = "taken" /\ conn' = [conn EXCEPT ![i] = "discarded"]
  /\ Reset(i)
  /\ UNCHANGED <<socket, requireClose, pc, mine>>

\* The close event; then the reclaimer may destroy the connection, which closes
\* the socket.
RunCloseTask(i) ==
  /\ conn[i] = "discarded" /\ conn' = [conn EXCEPT ![i] = "reported"]
  /\ UNCHANGED <<statusVars, socket, requireClose, pc, mine>>

Reclaim(i) ==
  /\ conn[i] = "reported" /\ conn' = [conn EXCEPT ![i] = "freed"]
  /\ UNCHANGED <<statusVars, socket, requireClose, pc, mine>>

Engine(i) ==
  \/ i \in requireClose /\ TakeConnection(i)
  \/ WillClose(i) \/ RunCloseTask(i) \/ Reclaim(i)

-----------------------------------------------------------------------------

GoOn(t) ==
  \/ Enter(t) \/ SocketFails(t) \/ OpenSocket(t) \/ OpenFails(t) \/ Join(t)
  \/ JoinFails(t) \/ ErrorGuard(t) \/ Established(t)
  \/ Dupled(t) \/ DupledEnd(t) \/ CloseLocked(t) \/ CloseSignal(t)

ClientNext ==
  \/ \E t \in Caller : ConnectCheck(t) \/ CloseCheck(t) \/ GoOn(t)
  \/ \E i \in Info : TakeConnection(i) \/ Engine(i)

ClientSafety == ClientInit /\ [][ClientNext]_clientVars

\* A thread that has begun a call goes on with it, as the engine does with what
\* it closes.  No call has to be made, and no connection has to break.
ClientSpec ==
  /\ ClientSafety
  /\ \A t \in Caller : WF_clientVars(GoOn(t))
  /\ \A i \in Info : WF_clientVars(Engine(i))

-----------------------------------------------------------------------------
(* Properties *)

\* A client that says it is connected has a connection that the engine serves,
\* or is about to say otherwise; one that is connecting has a thread that will
\* end it.  There is no reservation as for TcpClient.
StatusFits ==
  /\ status = "Connected" => conn[info] \in {"mapped", "taken"}
  /\ status = "Connecting" => \E t \in Caller : pc[t] \in Connecting /\ mine[t] = info
  /\ status = "NoConnected" => conn[info] = "none"

\* A thread that waits for the end of a connecting is woken, though willClose()
\* changes the status without a notification.
AlwaysWoken == \A t \in Caller : pc[t] \in Waiting ~> pc[t] \notin Waiting

\* A connection that the client has let go of is closed and destroyed.
NoOrphan == \A i \in Info : conn[i] = "mapped" /\ info # i ~> conn[i] = "freed"
==============================================================================
