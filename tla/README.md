# TLA+ models of the FPNN C++ SDK

This directory specifies the concurrent core of `fpnn-sdk-cpp`: how a quest gets
its one answer, how the engine keeps sockets, connections and descriptors apart,
how TCP and UDP clients connect, close and reconnect, how bytes leave a TCP
connection and come in, how datagrams are made reliable, how quests of the server
are answered, and the thread pool under all of it. The modules are written from the code under
`src/src/`; each names the files and functions it stands for, and `PROJECT.json`
maps every definition to the lines it translates.

    tlc -workers 2 -config EngineLoop.cfg MCEngineLoop
    tlc -workers 2 -config TaskThreadPool.cfg MCTaskThreadPool
    tlapm EngineLoopProofs.tla

## 1. The system

The SDK is a client library. One process has one `ClientEngine` (a singleton)
and any number of `TCPClient`s and `UDPClient`s.

Threads:

| thread | what it runs |
|---|---|
| application threads | `sendQuest()`, `connect()`, `close()`, `reconnect()` |
| loop thread | `ClientEngine::loopThread()`: `select()`, then `processConnectionIO()` of each ready socket |
| timeout thread ("checker") | `timeoutCheckThread()`: UDP sending, keep-alive pings, expired quests, reclaiming connections |
| callback pool | `TaskThreadPool`: answer callbacks, connected and close events, `ClientCloseTask` |
| quest pools | the same class, for quests the *server* sends to the client |

### Inventory

| component (source) | state | operations | shares state with | what makes it correct |
|---|---|---|---|---|
| ConnectionMap (`core/ConnectionMap.*`, `IOWorker.h`) | `_connections`, per connection `_callbackMap` and `_refCount`, one mutex | insert, take, sign, `sendQuest`, `takeCallback`, extract expired, ping | application, loop, timeout thread | each callback is completed exactly once, by one owner; no connection is destroyed while somebody refers to it |
| ClientEngine loop (`core/ClientEngine.*`) | `_newSocketSet`, `_waitWriteSet`, `_quitSocketSet`, `_loopTicket`, pipe, `fd_set`s | `join`, `waitSendEvent`, `quit`, `loopThread` | everybody | never selects on a closed or reused descriptor, never sleeps over a request, watches every live connection |
| ClientEngine timeout thread | `_reclaimedConnections` | `clearTimeoutQuest`, `reclaimConnections`, `TCPClientKeepAlive`, `periodUDPSendingCheck` | ConnectionMap | expired quests fail; a connection is destroyed once the ticket has advanced and nobody refers to it, not before |
| TCPClient, Client (`core/TCPClient.*`, `ClientInterface.*`) | `_connected`, `_connStatus`, `_connectionInfo`, caches, condition variable | `connect`, `asyncConnect`, `close`, `sendQuest` while connecting, `socketConnected`, `willClose` | engine, pool | status fits connection, every cached quest is sent or failed, blocked callers are woken |
| connection events (`IOWorker.h`, `ClientInterface.cpp`) | `ConnectionEventStatus`, `ClientCloseTask` | connected / cancelled / close events of `IQuestProcessor` | pool tasks | events in order, complete, once |
| SendBuffer (`core/IOBuffer.*`) | `_sendToken`, `_outQueue`, `_currBuffer`, `_offset`, encryptor | `send`, `allowSending`, `realSend` | senders, loop, connected event | packages whole, in order, none left behind, key exchange first |
| RecvBuffer and receivers (`core/*Receiver.*`, `IOBuffer.*`) | `_token`, buffer, header state, cipher position | `recvPackage`, `fetch`, `allowReceiving` | loop thread, connected event | each message handed on whole, in order, once; the cipher stays in step |
| UDP.v2 (`core/UDP.v2/*`) | ARQ sequence numbers, unconformed map, unordered cache, segments, two tokens, `resending` / `requireDeleted` of packages | send, resend, ack, expire, cache, close | loop, timeout thread, senders | in order, once, no loss; no package used after it was deleted; a requested close gets through |
| UDPClient (`core/UDPClient*`) | as TCPClient, without connecting | `connect`, `close`, `sendQuest` | engine | as TCPClient |
| answers to the server (`IQuestProcessor.*`, `AdvanceAnswer.h`, `ClientInterface.cpp`) | thread-local answer status, `_sent` | `dealQuest`, `processQuest`, `sendAnswer`, `genAsyncAnswer` | loop, quest pools, holders of an `IAsyncAnswer` | a two-way quest is answered exactly once while the connection is up |
| TaskThreadPool (`base/TaskThreadPool.*`) | queue, normal / temporary / busy counts | `wakeUp`, `release`, `process` | everybody | every accepted task runs once |
| key exchange and encryption | keys, AES-CFB state | | SendBuffer, key-exchange callback | order only: see SendBuffer |
| messages (`proto/`), base utilities, tests, examples | none shared | | | sequential code |

What is hard here is not any one function but the gaps between critical
sections: the closer walks a callback map it has taken out of the shared map
without a lock, the timeout thread uses connections it marked before it let the
lock go, the loop drains its pipe and merges the sets in separate steps, a
`close()` falls between `asyncConnect()` and `perpareConnection()`, and the token
of the send buffer passes between threads that all may leave at once.
`PROJECT.json` lists these under `hazards`, at their lines, each with the
property that would catch it.

## 2. Modules

| module | models | source (`core/`, `base/`) |
|---|---|---|
| `QuestContract` | abstract: a quest is refused, or accepted and completed exactly once | – |
| `QuestCallbacks` | ConnectionMap, loop, timeout thread and pool around `_callbackMap`; reference counts | `ConnectionMap.*`, `ClientEngine.cpp`, `ClientInterface.cpp`, `IOWorker.h`, `*ClientIOWorker.cpp` |
| `EngineLoop` (`MCEngineLoop`) | loop thread, socket sets, ticket, descriptors | `ClientEngine.*`, `TCPClientIOWorker.cpp`, `IOWorker.h` |
| `TcpClient` (`MCTcpClient`) | one TCPClient and its connection events | `TCPClient.cpp`, `ClientInterface.*`, `IOWorker.h`, `TCPClientIOWorker.cpp` |
| `SendStream` | abstract: accepted packages reach the wire whole, once, in order | – |
| `SendBuffer` | the send buffer of a TCP connection | `IOBuffer.*`, `TCPClientIOWorker.*` |
| `AnswerContract` | abstract: what a peer that sends quests may expect | – |
| `TcpReceive` | RecvBuffer, the three receivers, `read()` | `IOBuffer.h`, `*Receiver.cpp`, `TCPClientIOWorker.cpp` |
| `ServerQuest` | a quest of the server until its answer | `IQuestProcessor.cpp`, `AdvanceAnswer.h`, `ClientInterface.cpp`, `TCPClient.cpp` |
| `TcpDuplex` (`MCTcpDuplex`) | the composition of the two | |
| `Executor` | abstract: a task is run once, `release()` returns after the last | – |
| `TaskThreadPool` (`MCTaskThreadPool`) | the pool | `TaskThreadPool.*` |
| `UdpArq` | reliable packages over UDP, one direction, both ends and the network | `UDP.v2/*` |
| `UdpSend` | the sending half of a UDP connection, its packages and its end | `UDP.v2/*`, `ConnectionMap.*`, `UDPClientIOWorker.cpp` |
| `UdpClient` | one UDPClient: `connect()`, `close()`, `willClose()` | `UDPClient.cpp`, `ClientInterface.cpp`, `ClientEngine.cpp` |
| `…Proofs` | proofs about the module of that name; `UdpProofs`: about `UdpArq` and `UdpClient` | |

How they fit together: each module has the threads of section 1 that touch its
state, and leaves to another module what it only relies on. `QuestCallbacks` has
connections that come and go by themselves; `TcpClient` and `UdpClient` say when.
`SendBuffer` and `TcpReceive` have one connection that the engine watches;
`EngineLoop` shows how far it does. All of them hand tasks to a pool that runs
them in any order; `Executor`, which `TaskThreadPool` implements, promises that.
`TcpDuplex` puts `TcpReceive` and `ServerQuest` together over one link, because
a failed answer closes the connection that is being read.

**QuestCallbacks.** A connection goes `new → mapped → taken → clearing →
discarded → freed`; `closer[c]` is the thread that took it. `cbs[c]` is
`_callbackMap`, `todo[c]` what the closer has not visited yet, `pins[q]` the
connection a key-exchange callback holds a reference to, until it is destroyed.
`SendQuest`, `TakeCallback`, `ExtractTimeouted`, `UserClose` and `LoopClose` are the
critical sections of `ConnectionMap::_mutex`; `BeginClear`, `ClearOne` and `Discard` are
`clearConnectionQuestCallbacks()` outside of it. The timeout thread runs its
steps in the order of `timeoutCheckThread()` (`phase`). In the code
`UdpCheck` runs some twenty times per `TCPClientKeepAlive()`: rounds in which
the later sets are empty stand for that. Not in `refs`: the reference the pool
task of `socketConnected()` has, which is in `TcpClient`.

**EngineLoop.** One round of the loop is `SelectReturn`, `ConsumeNotifyData`,
`ClearDropped`, `Sign`/`Serve…` for each ready descriptor, `TickFlags`,
`MergeSets`. `quit()` is two steps: the sets (`QuitSets`), then the ticket and the
wake-up (`QuitTicket`). `age[c]` counts ticks since then; `Reclaim` is
`reclaimConnections()`, which asks `releaseable()`. A descriptor is handed out
again as soon as no live object has it (`Open`). `join()` is two steps as well: it
files the connection in the map under the map's lock (`JoinMap`), then hands the
descriptor to the loop under the engine's lock (`JoinSets`). In between, another
thread may take, quit and destroy the connection; the history variable `overtaken`
has the descriptors that `JoinSets` handed in after that `quit()`.

**TcpClient.** An *attempt* is an `asyncConnect()` that opened a socket; it also
stands for its connection object and its `ConnectionInfo`. `Blank` infos have no
socket. `PrepareConnection`, `Join`, `DumpCache`, … are the connecting thread;
`SignConnecting`, `SocketConnected` the loop; `RunConnected`, `ConnectSuccessed`,
`RunFailed`, … the pool task; `WillClose`, `RunCloseTask` the close. `raced` is a
history variable: a `close()` has met a client that was connecting. Parts of
`StatusFits` and `CacheHasOwner` are stated with `~raced`, because without it they
are violated (the window of `perpareConnection()`, finding `cached_quest`).

**SendBuffer.** A sender is named after its package. A write is half a package,
so every package may be torn by `EAGAIN`. `want` says that the engine waits for
the socket; the module *assumes* that a registered interest stays registered.
`EngineLoop` shows that it may not (finding `engine_interest`): the two modules
separate what the buffer does right from what the loop does wrong.

**TcpReceive, ServerQuest, TcpDuplex.** Bytes are positions in the stream of the
peer. `ReadCall` is one `::read()` of `recv()`, with the number of bytes, `errno`
and the end of the stream as they may come; `errno` is what the loop thread's
last failed call left behind, because the receivers look at it. `key` is
where the cipher is: encryption in stream mode decrypts rightly exactly when it
is applied where it has come to. `Deal` is `dealQuest()` on the loop thread,
`Handler` and `Task` are `processQuest()` with a handler that answers in advance,
takes an asynchronous answer, returns an answer, returns none or throws, and
`AsyncAnswer` is whoever holds an `IAsyncAnswer`.

**TaskThreadPool.** One action is one critical section of the pool's mutex, or a
step outside of it. A task may block until others have been run, as a callback
that calls `connect()` does: this is what temporary threads are for. `busy` is
decremented in a critical section of its own (`Idle`), so a thread may be back
from its task and still be counted busy.

**UdpArq.** The sending side of one `UDPIOBuffer`, the receiving side of its
peer's, and two bags of datagrams that are lost, repeated and taken in any order.
`SendData`, `Resend` and `ForceSync` are the branches of `prepareSendingPackage()`
with the padding of `paddingResendPackages()`; `unconformed` keeps the order of
`_sentQueue`. `Receive` takes a datagram in, the `Parse…` and `Cache…` actions are
the branches of `processReliableAndMonitoredPackage()` for one package of it, and
`ReturnRecvToken` tells the sender's half of that end what to acknowledge. `made`
and `cut` are history: which message each package carried, and which have expired.
Time is left out, so what the code does after an interval may happen at any
moment: every run of the code with any clock is a run of the module. `parsed.una`
stands for two flags of the code (`canbeFeedbackUNA`, `receivedPriorSeqs`) that
lead to the same UNA.

**UdpSend.** The same sender seen from inside: packages are objects on the heap,
and the threads that may send on a connection (an application thread, which holds
the mutex of the map, the loop thread, the timeout thread) pass `_sendToken`.
`Prepare…` are the branches of `prepareSendingPackage()` under the mutex; `Sent`,
`NotSent`, `Refused` what `::send()` does outside of it, while `ReturnRecvToken`
takes acknowledgements in. `resending` and `doomed` are the flags `resending`
and `requireDeleted` by which the two sides agree on who deletes a package. Which
packages are due is decided anew by each call (`due`), and decreases within it. A sender
looks at `_ecdhPackageReference` twice under the mutex, and the loop thread clears
it without the mutex: `CheckKey` is the test, `ResendKey` and `KeyUnderWay` go on
with the pointer that was read, `UseClearedKey` reads it again and finds NULL. What
the program does then is not modelled: it has ended (`Crashed`).

**UdpClient.** Callers in `connect()` and `close()`, step by step between
critical sections of the client's mutex, and the engine, which may close the
connection at any moment from `Join` on. An info is a number; its connection goes
`none → made → mapped → taken → discarded → reported → freed`, and its socket is
handed out again after that.

## 3. Runs

| run | configuration | states | checks |
|---|---|---|---|
| `quest_callbacks` | one TCP, one UDP connection, a synchronous quest, pings | 114 000 | `SingleOwner`, `NoLostQuest`, `SignedAlive`, refinement of `QuestContract` with its liveness, `ReferencesReturned` |
| `engine_loop` | two connections, two descriptors, each up to renaming | 2 220 000 | `ReadSetKept`, `InUseAlive`, `NoLostWakeup`, `MappedWatched` |
| `tcp_client` | two attempts, a quest, a thread in `connect()` | 3 420 000 | `EventsTold`, `StatusFits`, `CacheHasOwner` |
| `send_buffer` | three senders, the loop, the connected event, with and without encryption | 57 000 | `KeyFirst`, `NothingStuck`, refinement of `SendStream` with its liveness |
| `tcp_duplex` | four streams of at most two messages, three receivers | 83 000 | `InStep`, `AnswerHasOwner`, refinement of `AnswerContract` with its liveness |
| `task_pool` | four tasks, two of which wait for another one, one to three threads, a queue of three | 85 000 | `NoLostWakeup`, `EnoughThreads`, `CountsAgree`, refinement of `Executor` with its liveness, `ReleaseReturns` |
| `udp_arq` | three messages, two unconfirmed at most, two packages in a datagram, two datagrams on the way, both modes of parsing | 3 340 000 | `OnceAndInOrder`, `ConfirmedHasArrived`, `ReceivedIsKept` |
| `udp_send` | the key-exchange package and two others, two messages, one of which may get lost | 649 000 | `PackagesOwned`, `CloseCompletes` |
| `udp_client` | two callers, two descriptors, two connections one after the other | 38 000 | `StatusFits`, `AlwaysWoken`, `NoOrphan` |
| `engine_interest`, `connect_hang`, `cached_quest` | smallest instances | | violations, see section 6 |

Each passing run also checks the `TypeOK` (`ClientTypeOK`) of its module, which says
more than types where the code has an agreement between variables to keep (in `UdpSend`:
who has the token; in `UdpClient`: no two live connections on one descriptor).

What each shows:

- `quest_callbacks`: answer, timeout, close, ping and reclaim race for a callback;
  it has one owner and is completed once. A connection is not destroyed under a
  reference, and every reference to a closed one is given back for good. That the
  connection is then destroyed is not claimed: it takes two ticks of the loop after
  its `quit()`, and nothing in the code guarantees the second.
- `engine_loop`: a descriptor number that was closed and handed out again is never
  taken for the old connection, and no request to the loop sleeps. A mapped
  connection is watched once its `join()` is over. The descriptors the loop watches
  are open, but for those that a `join()` overtaken by a `quit()` has handed in late
  (section 6).
- `tcp_client`: the processor hears of every connection in order and completely;
  the client's status belongs to a connection or an attempt that is there.
- `send_buffer`: the token passes between threads that may all leave at once;
  packages are written whole, in order, and none stays behind.
- `tcp_duplex`: from the bytes of a quest to its answer, with the stream cut
  anywhere, answers in advance, asynchronous, by the handler or by nobody.
- `task_pool`: a notification that goes to a thread that ends leaves no task
  behind; a task that waits for another one does not keep it from running below
  the limit of threads; `release()` returns, and only after the last task.
- `udp_arq`: a network that loses, repeats and reorders delivers each message once
  and in order, and nobody forgets a package too early.
- `udp_send`: nothing points to a deleted package though packages are acknowledged
  while they are being sent; the close an application asks for gets through,
  whoever has the token and whether the socket takes the package. A sender may use
  NULL for the reference to the key-exchange package (section 6), but not once the
  close has been requested.
- `udp_client`: the engine may close a connection before `connect()` says that it
  is connected; the status fits all the same, each waiting caller is woken, and
  each connection the client has let go of is closed.

Deadlock is not checked: every instance has finitely many connections, quests,
packages and tasks, and stops when they are used up, as a process with nothing
to do.

*Bounds.* One quest is enough in `quest_callbacks`: callbacks meet only in the walk
of a closer and in one extraction, and the ping is a second callback in both. The
invariant `IInv` of `QuestCallbacksProofs` was checked with two quests as well, and
is proved for any number. Two connections over two descriptors are enough for
every reuse: an old and a new connection on the same number with another one
beside them; `MCEngineLoop` counts states that differ in names only as one, which is
sound because the properties are invariants that name neither. Two attempts let an old pool task meet a new connection;
`cached_quest` needs a third one, for the `close()` that undoes the second. Three
packages make an order that is not symmetric, with a sender that comes before, one
that comes while, and one that comes after the token has changed hands. `age`
counts to 2, which is all `releaseable()` asks. In `tcp_duplex` a header is two
units long, the longest message four, so that a message may be cut in its header,
behind it, and in its body; the streams hold each kind of message and one that is
too long. In `task_pool` there are more tasks than threads, a queue that overflows,
and two tasks that block at once. In `udp_arq` sequence numbers start at the last
one below the modulus, so that the second package has wrapped around; two datagrams
on the way, either of which may stay there after it was received, make every order
and an old copy after a new one; two packages in a datagram put a repeated one
before a new one; the third package can only go out when one of the first two has
been acknowledged, by UNA or selectively. A limit of two is below the limit of
early packages, so of `CacheEarly` and `CacheAhead` the run takes the branches
that cache or ignore; a session is closed by `InvalidSession`. In `udp_send` two
packages beside the key make a datagram of several that is acknowledged in part;
three threads is all there are. `udp_client` passes with three callers (623 000
states) and with three connections (352 000) too. `MaxInfo` and `Package` bound
how often `new` is called; the guards that use them say so.

*Fairness.* Weak fairness of each thread's own steps: the loop, the timeout
thread and the pool are never blocked by another thread for long, they only take
short critical sections. Strong fairness where a thread looks at the state
periodically and may find it changed each time: the timeout thread finds an
expired quest in some cycle. No fairness is assumed of the reclaiming of a given
connection, since that would be an assumption about the ticket. The socket that is
written to again and again takes something in the end. In `TcpDuplex`: handlers
return, and whoever holds an asynchronous answer sends or drops it (its
destructor answers). In `TaskThreadPool`: workers and `release()` go on; a wait need
not return without a notification, and nobody need hand in a task. In `UdpSend`:
each of the three threads goes on. In `UdpClient`: a caller goes on with a call it
has begun, and the engine with what it closes; that the engine closes a connection
that was asked to is part of `Engine`, justified by `CloseCompletes` of `UdpSend`.
Nothing is assumed of the application, of the peer, or of the order of the pool's
tasks.

`TcpClient` also states `EverythingReported`, that no attempt ends in silence. It
has no standing run, because it needs an instance of its own and minutes; with two
attempts, no quest and no waiting thread TLC finds it true of `Spec` (258 000
states).

## 4. Proofs

All for any set of connections, descriptors, quests, attempts, packages, senders,
tasks, threads and callers, and for any limits and any room in a datagram. Every
proof is of the form: a strengthening `IInv` holds initially, every action keeps it,
and it implies the property; the modules have one step per action. Properties marked * are parts of a property of a run, or
follow from one.

**EngineLoopProofs** proves `TypeOK`, `ReadSetKept`, `InUseAlive`, `NoLostWakeup`
and `MappedWatched`. None but `NoLostWakeup` is inductive.
- `LifeInv`: an opened connection has a descriptor; what is mapped is open; what
  is held or signed is not destroyed; two live connections have different
  descriptors. Inductive with `TypeOK`, and gives `InUseAlive`.
- `TicketInv` is the argument behind `_loopTicket`. A descriptor the loop watches,
  and no overtaken `join()` has handed in, belongs to a connection nobody has quit,
  or it is in `_quitSocketSet`; and then, as long as the loop has not begun to merge the sets, fewer ticks have passed
  since that connection's `quit()` than `releaseable()` asks for: none while it
  is in `select()`, one after. So the connection cannot have been destroyed, and
  after the merge the descriptor is no longer watched. It gives `ReadSetKept`.
- `JoinInv`: of a connection that joins and was not quit the loop has nothing yet: if
  its descriptor was another connection's, that one has been quit.
- `MapInv`: the descriptor of a mapped connection that has joined is not in
  `_quitSocketSet`: an older connection with that number had been merged before it
  was destroyed. It gives `MappedWatched`.

**SendBufferProofs** proves `TypeOK`, `OneSender`*, `NothingStuck`,
`StreamInOrder`*, `KeyFirst` and that the buffer implements `SendStream!Safety`.
- `TokenInv`: there is one token. It lies in the buffer, or one thread has it, or
  the connected event has yet to put it there.
- `StreamInv`: what was accepted is what was written whole, then the current
  buffer, then the queue; and half a package is on the wire only while it is
  the current buffer. One lemma (`LeftIsSuffix`) does the arithmetic of
  sequences, the rest cites it.
- `KeyInv`: the key is the first package or was never queued; a current buffer
  is encrypted iff it is not the key.

**QuestCallbacksProofs** proves `TypeOK`, `AtMostOnce`*, `SingleOwner`,
`NoLostQuest`, `SignedAlive` and that the map implements `QuestContract!Safety`.
- `PlaceInv`: a callback is in one place at a time: a connection's map, a closer's
  walk, the loop's hands, the timeout thread's list.
- `FillInv`: a place from which it will be completed holds it uncompleted; what a
  closed connection still lists has been completed by the walk.
- `RefInv`: the reference count of a connection is the number of its users
  (a cardinality), so a closer waits for them and nobody signs after it.

**TcpClientProofs** proves `TypeOK`, `EventsInOrder`*, `EventsComplete`*, `EventsTold`,
`ConnectedIsAlive`*, `ConnectingHasAttempt`*, `StatusFits` and `CacheHasOwner`.
- `EventInv`: the events of an attempt follow from where its two pool tasks are
  and from `ConnectionEventStatus`, whatever the client does meanwhile.
- `ClientInv`: as long as no `close()` has met a connecting client, at most one
  attempt is on its way to `perpareConnection()`, and the client waits for it.

**TaskThreadPoolProofs** proves `TypeOK`, `CountsAgree`, `NoLostWakeup`,
`EnoughThreads`, `ReleasedIsDrained`* and that the pool implements
`Executor!Safety`.
- `ThreadInv`, `StaffInv`: the threads that live are those that run a task, those
  on their way to the lock and those that wait, and the counters count them.
- `TaskInv`, `JobInv`: an accepted task is in the queue, or a thread has it, or it
  has been run. A thread ends only when it finds the queue empty, so it leaves
  enough of the others behind.

**UdpSendProofs** proves `TypeOK` (one thread at a time is in `realSend()`, and the
token is free exactly while none is) and `PackagesOwned`. The latter is nearly
inductive. What it lacks is `KeyInv`: while `_ecdhPackageReference` points to the
key-exchange package, or a sender has tested it and holds the mutex (`KeyReferred`),
that package is in the buffer: as at the beginning, and then unsent, so that nothing
confirms it, or as the one package that is being sent again, so that it is kept when
it is confirmed; only the close package takes its place. `ReturnRecvToken` deletes
under the mutex, so a sender that goes on with the pointer it has read is safe.

**UdpProofs** proves `TypeOK`, `OnceAndInOrder`, `ConfirmedHasArrived` and
`ReceivedIsKept` of `UdpArq`, and `ClientTypeOK` and `StatusFits` of `UdpClient`. The
two have no definition and no variable in common, and neither is used for the other.

Of `UdpArq`, the first lemmas are about sequence numbers: numbers that wrap compare as
the packages do (`NumbersInOrder`), and a run of numbers without a gap is a run
of packages (`RunOf`). `Only` and `Orderings` come next: what is kept of a
sequence is in its order and no more (`OnlyKeeps`). The invariant has five parts.
- `SendInv`: messages go into packages in order, and what is queued comes after them.
- `PackageInv`: every package, kept by the sender, in a datagram, in the inbox or in
  the cache, is one the sender has made, with the message it was made with, or with none if that has
  expired since.
- `ParserInv`: there is a package *l* that is the last one the parser does not
  wait for (`Parsed(l)`). Its number is `last`; all up to *l*, and those
  in `ahead`, have been handed on or had expired; what is cached lies behind *l*
  and has not been handed on. `OnceAndInOrder` and `ReceivedIsKept` follow from it.
- `FeedbackInv`: what feedback tells, on its way or yet to be sent, is true of
  packages up to a UNA, and of each one that is acknowledged: they have arrived.
- `ConfirmedInv`: a package that was made and is not kept any more has arrived.
  It gives `ConfirmedHasArrived`.

Once *arrived*, a package stays so (`ProceedKeeps`), so a feedback that is late,
repeated or out of order is still true.

Of `UdpClient`:
- `InfoInv`: a socket belongs to an info whose connection was made; infos are used
  in order.
- `CallerInv`: what a caller that connects may rely on between two critical
  sections. One such caller is connecting for the current info; there may be
  others that connected for earlier ones and do not know yet that the engine has
  closed their connections.

**TcpDuplexProofs** proves `TypeOK`, `InStep`, `AnswerHasOwner`, that no quest is
answered twice and no one-way quest at all, also after the connection is gone, and
that the client implements `AnswerContract!Safety`; for any streams of the peer.
- `OneRight`: a two-way quest has one right to answer, which its handler's thread
  has while it runs, uses, or passes on to an `IAsyncAnswer`, and which is lost only
  with the connection.
- `EndsGrow`: the recursive function that says where messages end has the values it
  is meant to have, in the order of the messages. It is proved by least
  counterexample (`Least`), from the well-founded order of the subsets of a finite set.
- `ReceiveInv`: as long as the loop may go on reading, the receiver is `Placed`: behind
  the messages it has handed on, in the header or in the body of the next one,
  whose length it knows. `InStep` says this while the connection is up, and is not
  inductive: a `read()` that is under way when another thread closes the connection
  goes on, and still hands on the right message. The contract needs that too.
- Messages that have arrived are a first part of the stream (`CompleteUpTo`), so what
  is dealt with next is one of them.

*Assumptions*, all of them about constants: `NoFdAssumption`; `KeyAssumption` (the key
package is none of the others) and `ThreadAssumption` (a sender is not the loop or the
connected event); `QuestAssumption`, `ConnAssumption`, `DisjointAssumption` (finitely many
quests, which are not connections); `InfoAssumption`, `BlankAssumption` (`new` does
not run out of infos); `CountAssumption`, `AwaitsAssumption` (the arguments of
`init()` are numbers, some thread may be started); `LengthAssumption`, `ScriptAssumption`,
`LimitAssumption` (what a stream of the peer is, and that it ends);
`UdpSendAssumption`, `UdpClientAssumption`; `RoomAssumption`, and
`SeqAssumption`: a connection makes fewer packages than half the sequence numbers, so
none is used a second time. With more than 2³¹ packages on one connection, the code
relies on copies not staying in the network that long; time is not in the model, and
this is not proved.

*Only model-checked*: all liveness, and with it the fairness half of the
refinements. Liveness under fairness, `ENABLED`, and induction over data with the
theorems of the library are out of reach of the installed backends. Every invariant
of a run is proved. No module has a `RECURSIVE` operator.

## 5. Not modelled

- Of UDP.v2: packages in segments, congestion control and the pace of resending,
  version 1 of the protocol.
- The embedded mode (a host program receives raw data): mirrors the ordinary
  path line by line.
- Encryption, hashing, encoding, logging, DNS, configuration: no interleaving,
  and no state the properties tell apart. Where their order matters (the key
  exchange before everything else, the cipher in step with the stream), it is in
  `SendBuffer`, `UdpSend` and `TcpReceive`.
- Starting and stopping the engine: the destructor of a process-wide singleton.
- When a ping is due (`KeepAliveInfos`); that it may be sent at any time is in
  `QuestCallbacks`.
- The error flag of the close event of a UDP connection.
- Memory is modelled only as *freed*: what a use after free would do is not.
- Most files of the repository are third-party code it carries along (`msgpack`,
  `rapidjson`, `micro-ecc`), or examples, tests and tools: sequential library code
  with specifications elsewhere. The modules stand for the core of
  `src/src/core` and for `TaskThreadPool`.

## 6. What the checks found

Each of these is a run that TLC ends with a counterexample.

- `engine_interest` – after *any* event the loop forgets that the descriptor was
  to be watched for writing; after a read event, unsent data stays behind.
- `connect_hang` – `willClose()` ends a connecting without notifying the
  condition variable `connect()` waits on. (`UdpClient` has the same `willClose()`,
  but there the connecting caller itself notifies at its next step: `AlwaysWoken`.)
- `cached_quest` – a `close()` before `perpareConnection()` and a new attempt leave
  quests in a cache no attempt will send or fail.

Observed while modelling; the modules have these behaviours, and no run is kept for
them:

- `ClientEngine.cpp:95`: a `join()` that is overtaken by a `quit()` of its own
  connection lets the loop watch a closed descriptor. `_connectionInfo` is set before
  `join()` (`TCPClient.cpp:534`), so a `close()` may find the connection as soon as it
  is in the map. TLC's trace: `JoinMap`, `Take`, `QuitSets`; the late `JoinSets` erases
  the descriptor from `_quitSocketSet` and adds it to `_newSocketSet`; `QuitTicket`;
  the loop's round `SelectReturn`, `ConsumeNotifyData`, `ClearDropped`, `TickFlags`
  ticks twice, so the connection is releasable, and `MergeSets` puts the descriptor
  into `allSocket`; `Reclaim` closes it. The next `select()` fails with `EBADF`, the
  case of the loop's message "EBADF when select()!" (`ClientEngine.cpp:400`), and the
  loop ends. `ReadSetOpen` of `EngineLoop` says that this cannot be; in the place of
  `ReadSetKept` in `EngineLoop.cfg` it makes TLC print the trace.
- `UDPIOBuffer.v2.cpp:442`: a sender tests `_ecdhPackageReference` under the mutex and
  reads it again in `checkECDHResending()` (557, 560); `checkEcdhSeq()` clears it on
  the loop thread without that mutex (670, 677). If that falls between the two, the
  sender uses NULL (`UseClearedKey`), and the program ends. `NoNullUse` of `UdpSend`
  says that this cannot be; as an invariant in `UdpSend.cfg` it makes TLC print the
  trace.

- `ConnectionMap.h:66`: the timeout thread marks connections for a ping, releases
  the lock, and puts a callback into one that may have been closed and cleared
  meanwhile; that callback is never completed or freed.
- `ClientEngine.cpp:117`: `waitSendEvent()` by a thread that still holds a quit
  connection puts a descriptor into `wantWriteSocket` that may be closed by the
  next `select()`: the `EBADF` the loop's log message asks users to report.
- `UnencryptedReceiver.cpp:46`: a receiver that has got fewer bytes than it asked
  for looks at an `errno` that may be left over from an earlier call, and closes
  the connection as failed.
- `TCPClientIOWorker.cpp:248`: the end of the stream in the middle of a message is
  reported as a normal close.
- `EncryptedPackageReceiver.cpp:84`: the length of a package is taken as it is; the
  maximum is only asked for where `recv()` is given a length.
- `TaskThreadPool.cpp:359`: `release()` leaves the threads it has joined in its list;
  a pool that is initialised again, as the documentation allows, joins them again
  when it is released.
- `UDPIOBuffer.v2.cpp:713`: after the close package has been made, a datagram that
  confirms the key-exchange package without being parsed to its end leaves
  `_ecdhPackageReference` dangling (`Exempt`).
- `UDPIOBuffer.v2.cpp:324`: a close package that meets `EAGAIN` is counted as sent;
  the peer finds out by its own timeout.
- `CurrentSendingBuffer::reset()` does not delete a package that was sent again
  alone and confirmed meanwhile.
- `UDPClientIOWorker.cpp:159`: the close of a UDP connection passes the error code
  for the flag that says whether there was an error.
- `UDPClient.cpp:317`: the branch whose log message says "impossible" is reached
  when the engine closes a connection before its `connect()` returns.
- `UDPClient.cpp:375`: `close()` asks the connection *number n* to close after it
  has let go of the mutex; it may meet the next connection with that number.

## 7. What would come next

The core is covered. What could be added, in this order: packages of `UdpArq` in
segments, with their expiry; delivery in `UdpArq` under a fair network, as a
refinement of an abstract channel, on an instance small enough for liveness.
