----------------------------- MODULE EngineLoop -----------------------------
(***************************************************************************)
(* ClientEngine's select() loop (ClientEngine.cpp), the socket sets other  *)
(* threads hand it, the loop ticket and reference counts that decide when  *)
(* a quit connection may be destroyed, and the reuse of its descriptor.    *)
(*                                                                         *)
(*   - application threads open and close connections and send on them;    *)
(*   - the loop thread selects, serves the ready sockets, and merges the   *)
(*     sets the other threads changed;                                     *)
(*   - holders are threads that use a connection outside of the map's lock *)
(*     under a reference: the pool in connectedEventCompleted(), the       *)
(*     timeout thread in periodUDPSendingCheck();                          *)
(*   - the timeout thread reclaims connections.                            *)
(*                                                                         *)
(* Only differences of _loopTicket matter: age[c] is the number of ticks   *)
(* since quit(c), counted up to 2.  The engine is assumed to have ticked   *)
(* at least once (a quit at ticket 0 meets a loop that watches nothing).   *)
(***************************************************************************)
EXTENDS Naturals, FiniteSets

CONSTANTS Conn,      \* connection objects
          Fd,        \* descriptors the operating system may hand out
          NoFd       \* a connection that has not been opened

ASSUME NoFdAssumption == NoFd \notin Fd

VARIABLES
  stage,       \* [Conn -> Stage]
  fd,          \* [Conn -> Fd \cup {NoFd}], ConnectionInfo::socket
  joining,     \* connections whose join() has still to change the sets
  map,         \* the connections in ConnectionMap::_connections
  age,         \* [Conn -> 0..2], loop ticks since quit()
  blocked,     \* connections whose send buffer met EAGAIN and still has data
  held,        \* connections a holder has a reference to
  newSet,      \* _newSocketSet
  waitWrite,   \* _waitWriteSet
  quitSet,     \* _quitSocketSet
  notified,    \* the notification pipe has bytes
  pc,          \* where the loop thread is
  all,         \* allSocket
  wantWrite,   \* wantWriteSocket
  ready,       \* keys of connStatus still to be served
  writable,    \* those of them with canWrite
  dropped,     \* descriptors of allSocket select() found in efds
  signed,      \* the connection the loop thread is serving (at most one)
  closing,     \* it, if the loop thread is closing it
  overtaken    \* history: descriptors join() handed in after their quit

joinVars == <<joining, overtaken>>
connVars == <<stage, fd, map, age, blocked>>
engineVars == <<newSet, waitWrite, quitSet, notified>>
loopVars == <<pc, all, wantWrite,
                 ready, writable, dropped, signed, closing>>
vars == <<connVars, held, joinVars, engineVars, loopVars>>

Stage == {"new", "open", "taken", "quit", "reclaimed", "freed"}
LoopPc == {"select", "consume", "errors", "io", "flags", "dead"}

\* The descriptor is closed by the destructor of the connection.
Open == {fd[c] : c \in {d \in Conn : stage[d] \notin {"new", "freed"}}}

TypeOK ==
  /\ stage \in [Conn -> Stage]
  /\ fd \in [Conn -> Fd \cup {NoFd}]
  /\ map \in SUBSET Conn
  /\ age \in [Conn -> 0..2]
  /\ blocked \in SUBSET Conn
  /\ held \in SUBSET Conn
  /\ newSet \in SUBSET Fd
  /\ waitWrite \in SUBSET Fd
  /\ quitSet \in SUBSET Fd
  /\ notified \in BOOLEAN
  /\ pc \in LoopPc
  /\ all \in SUBSET Fd
  /\ wantWrite \in SUBSET Fd
  /\ ready \in SUBSET Fd
  /\ writable \in SUBSET ready
  /\ dropped \in SUBSET Fd
  /\ signed \in SUBSET Conn
  /\ closing \in SUBSET signed
  /\ joining \in SUBSET Conn
  /\ overtaken \in SUBSET Fd

Init ==
  /\ stage = [c \in Conn |-> "new"]
  /\ fd = [c \in Conn |-> NoFd]
  /\ map = {}
  /\ age = [c \in Conn |-> 2]
  /\ blocked = {}
  /\ held = {}
  /\ newSet = {} /\ waitWrite = {} /\ quitSet = {}
  /\ notified = FALSE
  /\ pc = "select"
  /\ all = {} /\ wantWrite = {} /\ ready = {} /\ writable = {} /\ dropped = {}
  /\ signed = {} /\ closing = {}
  /\ joining = {} /\ overtaken = {}

-----------------------------------------------------------------------------
(* Helpers *)

\* _loopTicket++
Tick == age' = [c \in Conn |-> IF age[c] < 2 THEN age[c] + 1 ELSE 2]

\* waitSendEvent(): refused if the descriptor is about to leave the loop.
WaitSendEvent(c) ==
  IF fd[c] \in quitSet
    THEN UNCHANGED <<waitWrite, notified>>
    ELSE /\ waitWrite' = waitWrite \cup {fd[c]}
         /\ notified' = TRUE

-----------------------------------------------------------------------------
(* Application threads and holders *)

\* socket() returns a descriptor that is not in use, and join() files the new
\* connection, under the lock of the map ...
JoinMap(c, f) ==
  /\ stage[c] = "new"
  /\ f \in Fd \ Open
  /\ stage' = [stage EXCEPT ![c] = "open"]
  /\ fd' = [fd EXCEPT ![c] = f]
  /\ map' = IF \E d \in map : fd[d] = f THEN map ELSE map \cup {c}
  /\ joining' = joining \cup {c}
  /\ UNCHANGED <<age, blocked, held, overtaken, engineVars, loopVars>>

\* ... then it hands the descriptor to the loop, under the lock of the engine.
\* By now others may have taken the connection, quit it, and destroyed it.
\* connecting says whether join() asks for write events, to learn that the
\* connection is established.
JoinSets(c, connecting) ==
  /\ c \in joining
  /\ joining' = joining \ {c}
  /\ quitSet' = quitSet \ {fd[c]}
  /\ newSet' = newSet \cup {fd[c]}
  /\ waitWrite' = IF connecting THEN waitWrite \cup {fd[c]} ELSE waitWrite
  /\ notified' = TRUE
  /\ overtaken' = IF stage[c] \in {"open", "taken"} THEN overtaken ELSE overtaken \cup {fd[c]}
  /\ UNCHANGED <<connVars, held, loopVars>>

\* A send under the map's lock: everything goes out, or EAGAIN.
SendAll(c) ==
  /\ c \in map \cap blocked
  /\ blocked' = blocked \ {c}
  /\ UNCHANGED <<stage, fd, map, age, held, joinVars, engineVars, loopVars>>

SendBlocks(c) ==
  /\ c \in map
  /\ blocked' = blocked \cup {c}
  /\ WaitSendEvent(c)
  /\ UNCHANGED <<stage, fd, map, age, held, joinVars, newSet, quitSet, loopVars>>

\* _refCount++ under the map's lock, or by the loop thread for the task it
\* gives to the pool, to use the connection later.
Hold(c) ==
  /\ c \in (map \cup signed) \ held
  /\ held' = held \cup {c}
  /\ UNCHANGED <<connVars, joinVars, engineVars, loopVars>>

\* The holder's send meets EAGAIN: waitForSendEvent() without the map's lock.
HolderBlocks(c) ==
  /\ c \in held
  /\ blocked' = blocked \cup {c}
  /\ WaitSendEvent(c)
  /\ UNCHANGED <<stage, fd, map, age, held, joinVars, newSet, quitSet, loopVars>>

\* _refCount--
Release(c) ==
  /\ c \in held
  /\ held' = held \ {c}
  /\ UNCHANGED <<connVars, joinVars, engineVars, loopVars>>

\* takeConnection() by any thread but the loop's.
Take(c) ==
  /\ c \in map
  /\ map' = map \ {c}
  /\ stage' = [stage EXCEPT ![c] = "taken"]
  /\ UNCHANGED <<fd, age, blocked, held, joinVars, engineVars, loopVars>>

\* quit(): the sets are changed under the engine's lock ...
QuitSets(c) ==
  /\ stage[c] = "taken"
  /\ stage' = [stage EXCEPT ![c] = "quit"]
  /\ map' = {d \in map : fd[d] # fd[c]}
  /\ waitWrite' = waitWrite \ {fd[c]}
  /\ newSet' = newSet \ {fd[c]}
  /\ quitSet' = quitSet \cup {fd[c]}
  /\ UNCHANGED <<fd, age, blocked, held, joinVars, notified, loopVars>>

\* ... then the ticket is read and the pipe written; reclaim() follows.
QuitTicket(c) ==
  /\ stage[c] = "quit"
  /\ stage' = [stage EXCEPT ![c] = "reclaimed"]
  /\ age' = [age EXCEPT ![c] = 0]
  /\ notified' = TRUE
  /\ UNCHANGED <<fd, map, blocked, held, joinVars, newSet, waitWrite, quitSet, loopVars>>

\* Mutant: one tick is taken to be enough.
ReclaimOneTick(c) ==
  /\ stage[c] = "reclaimed"
  /\ age[c] > 0
  /\ c \notin held \cup signed
  /\ stage' = [stage EXCEPT ![c] = "freed"]
  /\ UNCHANGED <<fd, map, age, blocked, held, joinVars, engineVars, loopVars>>

\* Mutant: the references are not looked at.
ReclaimIgnoresRefs(c) ==
  /\ stage[c] = "reclaimed"
  /\ age[c] > 1
  /\ stage' = [stage EXCEPT ![c] = "freed"]
  /\ UNCHANGED <<fd, map, age, blocked, held, joinVars, engineVars, loopVars>>

\* reclaimConnections(): releaseable() looks at the ticket and the references.
Reclaim(c) ==
  /\ stage[c] = "reclaimed"
  /\ age[c] > 1
  /\ c \notin held \cup signed
  /\ stage' = [stage EXCEPT ![c] = "freed"]
  /\ UNCHANGED <<fd, map, age, blocked, held, joinVars, engineVars, loopVars>>

-----------------------------------------------------------------------------
(* The loop thread *)

\* select() looks at every descriptor of allSocket, and at those of
\* wantWriteSocket up to the largest one of allSocket.
Examined == all \cup wantWrite

\* select() returns because of the sockets R (readable), W (writable), X
\* (exceptional), or of the pipe.
SelectReturn(R, W, X) ==
  /\ pc = "select"
  /\ all \subseteq Open
  /\ R \subseteq all \ X /\ W \subseteq wantWrite \ X /\ X \subseteq all
  /\ notified \/ R \cup W \cup X # {}
  /\ Tick
  /\ ready' = R \cup W
  /\ writable' = W
  /\ dropped' = X
  /\ pc' = "consume"
  /\ UNCHANGED <<stage, fd, map, blocked, held, joinVars, engineVars, all, wantWrite, signed, closing>>

\* EBADF: the loop gives up and clean() closes all connections.
SelectFails ==
  /\ pc = "select"
  /\ \E f \in Examined : f \notin Open
  /\ pc' = "dead"
  /\ UNCHANGED <<connVars, held, joinVars, engineVars, all, wantWrite,
                 ready, writable, dropped, signed, closing>>

ConsumeNotifyData ==
  /\ pc = "consume"
  /\ notified' = FALSE
  /\ pc' = "errors"
  /\ UNCHANGED <<connVars, held, joinVars, newSet, waitWrite, quitSet, all, wantWrite, ready, writable,
                 dropped, signed, closing>>

\* Mutant: a dropped descriptor leaves the loop, its connection stays.
ClearDroppedKeepsConn ==
  /\ pc = "errors"
  /\ all' = all \ dropped
  /\ wantWrite' = wantWrite \ dropped
  /\ dropped' = {}
  /\ pc' = "io"
  /\ UNCHANGED <<connVars, held, joinVars, engineVars, ready, writable, signed, closing>>

\* The dropped descriptors leave the loop, and clearConnection() takes their
\* connections out of the map and reclaims them without quit(): with no ticket
\* to wait for.
ClearDropped ==
  /\ pc = "errors"
  /\ all' = all \ dropped
  /\ wantWrite' = wantWrite \ dropped
  /\ dropped' = {}
  /\ map' = {c \in map : fd[c] \notin dropped}
  /\ stage' = [c \in Conn |-> IF c \in map \ map' THEN "reclaimed" ELSE stage[c]]
  /\ pc' = "io"
  /\ UNCHANGED <<fd, age, blocked, held, joinVars, engineVars, ready, writable, signed, closing>>

\* processConnectionIO(): the connection is looked up by descriptor.
Sign(f) ==
  /\ pc = "io" /\ signed = {}
  /\ f \in ready
  /\ signed' = {c \in map : fd[c] = f}
  /\ IF signed' = {}
       THEN /\ ready' = ready \ {f}
            /\ writable' = writable \ {f}
            /\ wantWrite' = wantWrite \ {f}
       ELSE UNCHANGED <<ready, writable, wantWrite>>
  /\ UNCHANGED <<connVars, held, joinVars, engineVars, dropped, pc, all, closing>>

\* Mutant: the events of a served descriptor are only half forgotten.
ServedKeepsWritable(c) ==
  /\ signed' = signed \ {c}
  /\ closing' = closing \ {c}
  /\ ready' = ready \ {fd[c]}
  /\ wantWrite' = wantWrite \ {fd[c]}
  /\ UNCHANGED writable

\* The loop drops its reference to c and is done with its descriptor.
Served(c) ==
  /\ signed' = signed \ {c}
  /\ closing' = closing \ {c}
  /\ ready' = ready \ {fd[c]}
  /\ writable' = writable \ {fd[c]}
  /\ wantWrite' = wantWrite \ {fd[c]}

\* Data was read, and if the socket was writable, all data was sent.
ServeDone(c) ==
  /\ c \in signed \ closing
  /\ Served(c)
  /\ blocked' = IF fd[c] \in writable THEN blocked \ {c} ELSE blocked
  /\ UNCHANGED <<stage, fd, map, age, held, joinVars, engineVars, dropped, pc, all>>

\* The socket was writable and is full again.
ServeBlocks(c) ==
  /\ c \in signed \ closing
  /\ fd[c] \in writable
  /\ blocked' = blocked \cup {c}
  /\ WaitSendEvent(c)
  /\ Served(c)
  /\ UNCHANGED <<stage, fd, map, age, held, joinVars, newSet, quitSet, dropped, pc, all>>

\* closeConnection(): if another thread has taken the connection, that thread
\* closes it.
ServeCloses(c) ==
  /\ c \in signed \ closing
  /\ c \in map
  /\ map' = map \ {c}
  /\ stage' = [stage EXCEPT ![c] = "taken"]
  /\ closing' = {c}
  /\ UNCHANGED <<fd, age, blocked, held, joinVars, engineVars, pc, all, wantWrite,
                 ready, writable, dropped, signed>>

ServeClosed(c) ==
  /\ c \in closing
  /\ stage[c] = "reclaimed"
  /\ Served(c)
  /\ UNCHANGED <<connVars, held, joinVars, engineVars, dropped, pc, all>>

\* All ready sockets served: the ticket advances before the lock is taken.
TickFlags ==
  /\ pc = "io" /\ ready = {} /\ signed = {}
  /\ Tick
  /\ pc' = "flags"
  /\ UNCHANGED <<stage, fd, map, blocked, held, joinVars, engineVars, all, wantWrite,
                 ready, writable, dropped, signed, closing>>

\* Mutant: one set per round (else-if instead of if).
MergeSetsOne ==
  /\ pc = "flags"
  /\ IF quitSet # {}
       THEN /\ all' = all \ quitSet
            /\ wantWrite' = wantWrite \ quitSet
            /\ quitSet' = {}
            /\ UNCHANGED <<newSet, waitWrite>>
       ELSE /\ all' = all \cup newSet
            /\ wantWrite' = wantWrite \cup waitWrite
            /\ newSet' = {} /\ waitWrite' = {}
            /\ UNCHANGED quitSet
  /\ pc' = "select"
  /\ UNCHANGED <<connVars, held, joinVars, notified, ready, writable, dropped, signed, closing>>

\* The sets of the other threads are merged: quit, then new, then wait-write.
MergeSets ==
  /\ pc = "flags"
  /\ all' = (all \ quitSet) \cup newSet
  /\ wantWrite' = (wantWrite \ quitSet) \cup waitWrite
  /\ quitSet' = {} /\ newSet' = {} /\ waitWrite' = {}
  /\ pc' = "select"
  /\ UNCHANGED <<connVars, held, joinVars, notified, ready, writable, dropped, signed, closing>>

-----------------------------------------------------------------------------
Application ==
  \E c \in Conn :
    \/ \E f \in Fd : JoinMap(c, f)
    \/ \E w \in BOOLEAN : JoinSets(c, w)
    \/ SendAll(c) \/ SendBlocks(c) \/ Take(c)

Holder == \E c \in Conn : Hold(c) \/ HolderBlocks(c) \/ Release(c)

Closer == \E c \in Conn : QuitSets(c) \/ QuitTicket(c)

Loop ==
  \/ \E R, W, X \in SUBSET Fd : SelectReturn(R, W, X)
  \/ SelectFails \/ ConsumeNotifyData \/ ClearDropped \/ TickFlags \/ MergeSets
  \/ \E f \in Fd : Sign(f)
  \/ \E c \in Conn : ServeDone(c) \/ ServeBlocks(c) \/ ServeCloses(c) \/ ServeClosed(c)

Checker == \E c \in Conn : Reclaim(c)

Next == Application \/ Holder \/ Closer \/ Loop \/ Checker

Safety == Init /\ [][Next]_vars

-----------------------------------------------------------------------------
(* Properties *)

\* What the ticket is for: when the loop is about to select(), every descriptor
\* it watches for reading is open, and belongs to a connection that has not been
\* destroyed.  A join() that is overtaken by a quit() of the same connection
\* defeats it, so this does not hold.
ReadSetOpen ==
  pc = "select" =>
    \A f \in all : \E c \in Conn : fd[c] = f /\ stage[c] \notin {"new", "freed"}

\* What remains of it: of all the descriptors the loop watches, only those that
\* such a late join() has handed in can have been closed, or handed out again.
\* The ticket protects every other one from select() to the merge of the sets.
ReadSetKept ==
  pc = "select" =>
    \A f \in all \ overtaken : \E c \in Conn : fd[c] = f /\ stage[c] \notin {"new", "freed"}

\* The same for what it watches for writing.
WriteSetOpen == pc = "select" => wantWrite \subseteq Open

\* A connection the loop serves or a holder refers to is not destroyed, and
\* its descriptor not handed out again: the loop never serves one connection
\* with the events of another.
InUseAlive ==
  \A c \in signed \cup held :
    /\ stage[c] # "freed"
    /\ \A d \in Conn : fd[d] = fd[c] /\ stage[d] # "freed" => d = c

\* Whatever other threads asked the loop for, the loop is awake or a
\* notification is in the pipe, or the thread that asked is about to write it.
NoLostWakeup ==
  pc = "select" /\ newSet \cup waitWrite \cup quitSet # {} =>
    notified \/ \E c \in Conn : stage[c] = "quit"

\* A mapped connection is watched for reading, or will be at the next merge, or
\* its join() is about to hand it in.
MappedWatched ==
  \A c \in map : fd[c] \in all \cup newSet \/ c \in joining


=============================================================================
