----------------------------- MODULE SendBuffer -----------------------------
(***************************************************************************)
(* The SendBuffer of one TCP connection (IOBuffer.h/.cpp): a queue of      *)
(* packages and a token.  Whoever finds the token takes it and writes to   *)
(* the socket until the queue is empty or the socket is full; everybody    *)
(* else only queues.  The token is withheld until the connected event has  *)
(* been handled (TCPClientConnection::connectedEventCompleted()).          *)
(*                                                                         *)
(* A sending thread is named by the package it sends.  Those that come     *)
(* through ConnectionMap hold its lock meanwhile; nothing here relies on   *)
(* that.  A package takes two writes: the first may be partial.            *)
(***************************************************************************)
EXTENDS Naturals, Sequences

CONSTANTS Msg,      \* packages the application sends, and their threads
          Key,      \* the package of the key exchange
          None      \* no package

ASSUME KeyAssumption == Key \notin Msg /\ None \notin Msg \cup {Key}
ASSUME ThreadAssumption == {"loop", "event"} \cap Msg = {}

VARIABLES
  token,        \* _sendToken
  queue,        \* _outQueue
  curr,         \* _currBuffer
  offset,       \* _offset, in writes
  cipher,       \* the current buffer has been encrypted
  sentPackage,  \* _sentPackage
  encryptor,    \* _encryptor is set (and _encryptAfterFirstPackage)
  want,         \* the engine waits for the socket to become writable
  broken,       \* the socket has reported an error
  pc,           \* [Thread -> where the thread is]
  accepted,     \* history: packages in the order they were queued
  wire          \* what was written to the socket

bufferVars == <<token, queue, curr, offset, cipher, sentPackage, encryptor>>
vars == <<bufferVars, want, broken, pc, accepted, wire>>

Thread == Msg \cup {"loop", "event"}
Package == Msg \cup {Key}
Piece == [package : Package, part : 1..2, cipher : BOOLEAN]
Pc == {"idle", "allowed", "fetch", "write", "full", "done"}

TypeOK ==
  /\ token \in BOOLEAN
  /\ queue \in Seq(Package)
  /\ curr \in Package \cup {None}
  /\ offset \in 0..1
  /\ cipher \in BOOLEAN
  /\ sentPackage \in Nat
  /\ encryptor \in BOOLEAN
  /\ want \in BOOLEAN
  /\ broken \in BOOLEAN
  /\ pc \in [Thread -> Pc]
  /\ accepted \in Seq(Package)
  /\ wire \in Seq(Piece)

\* perpareConnection(): the key exchange, if there is one, is configured and
\* appended, and then sending is disabled, all before the connection is joined.
Init ==
  /\ encryptor \in BOOLEAN
  /\ queue = IF encryptor THEN <<Key>> ELSE <<>>
  /\ accepted = queue
  /\ token = FALSE
  /\ curr = None /\ offset = 0 /\ cipher = FALSE
  /\ sentPackage = 0
  /\ want = FALSE /\ broken = FALSE
  /\ pc = [t \in Thread |-> "idle"]
  /\ wire = <<>>

-----------------------------------------------------------------------------
(* send() *)

\* A thread that leaves send(): the loop thread will be back.
Leave(t) == pc' = [pc EXCEPT ![t] = IF t = "loop" THEN "idle" ELSE "done"]

\* Mutant: the token is looked at, but not taken.
GetTokenKeeps(t) ==
  /\ IF token THEN pc' = [pc EXCEPT ![t] = "fetch"] ELSE Leave(t)
  /\ UNCHANGED token

\* The critical section of send(), without new data.
GetToken(t) ==
  IF token
    THEN /\ token' = FALSE
         /\ pc' = [pc EXCEPT ![t] = "fetch"]
    ELSE /\ Leave(t)
         /\ UNCHANGED token

\* send(..., data): the data is queued whether the token is there or not.
Send(m) ==
  /\ pc[m] = "idle"
  /\ queue' = Append(queue, m)
  /\ accepted' = Append(accepted, m)
  /\ GetToken(m)
  /\ UNCHANGED <<curr, offset, cipher, sentPackage, encryptor, want, broken, wire>>

\* The loop thread: the socket is writable.
SendEvent ==
  /\ want /\ pc["loop"] = "idle"
  /\ want' = FALSE
  /\ GetToken("loop")
  /\ UNCHANGED <<queue, curr, offset, cipher, sentPackage, encryptor, broken,
                 accepted, wire>>

\* connectedEventCompleted(): allowSending() ...
AllowSending ==
  /\ pc["event"] = "idle"
  /\ token' = TRUE
  /\ pc' = [pc EXCEPT !["event"] = "allowed"]
  /\ UNCHANGED <<queue, curr, offset, cipher, sentPackage, encryptor, want, broken,
                 accepted, wire>>

\* Mutant: sending is allowed, but what was queued before is not sent.
SendQueuedNot ==
  /\ pc["event"] = "allowed"
  /\ Leave("event")
  /\ UNCHANGED <<bufferVars, want, broken, accepted, wire>>

\* ... and send().
SendQueued ==
  /\ pc["event"] = "allowed"
  /\ GetToken("event")
  /\ UNCHANGED <<queue, curr, offset, cipher, sentPackage, encryptor, want, broken,
                 accepted, wire>>

-----------------------------------------------------------------------------
(* realSend(), by the thread that has the token *)

\* Mutant: the key exchange is encrypted as well.
EncryptedAlways == encryptor

\* encryptData(): the key exchange itself goes out in plain text.
Encrypted == encryptor /\ sentPackage > 0

\* The next package, if there is no current one.
Fetch(t) ==
  /\ pc[t] = "fetch"
  /\ \/ /\ curr # None
        /\ pc' = [pc EXCEPT ![t] = "write"]
        /\ UNCHANGED bufferVars
     \/ /\ curr = None /\ queue # <<>>
        /\ curr' = Head(queue)
        /\ queue' = Tail(queue)
        /\ offset' = 0
        /\ cipher' = Encrypted
        /\ pc' = [pc EXCEPT ![t] = "write"]
        /\ UNCHANGED <<token, sentPackage, encryptor>>
     \/ /\ curr = None /\ queue = <<>>
        /\ token' = TRUE
        /\ Leave(t)
        /\ UNCHANGED <<queue, curr, offset, cipher, sentPackage, encryptor>>
  /\ UNCHANGED <<want, broken, accepted, wire>>

\* Mutant: the offset of a finished package is not reset.
WriteKeepsOffset(t) ==
  /\ pc[t] = "write" /\ ~broken
  /\ wire' = Append(wire, [package |-> curr, part |-> offset + 1, cipher |-> cipher])
  /\ offset' = offset + 1
  /\ IF offset = 0
       THEN UNCHANGED <<curr, sentPackage, pc>>
       ELSE /\ curr' = None
            /\ sentPackage' = sentPackage + 1
            /\ pc' = [pc EXCEPT ![t] = "fetch"]
  /\ UNCHANGED <<token, queue, cipher, encryptor, want, broken, accepted>>

\* write(2) takes a part of the package, or what is left of it.
Write(t) ==
  /\ pc[t] = "write" /\ ~broken
  /\ wire' = Append(wire, [package |-> curr, part |-> offset + 1, cipher |-> cipher])
  /\ IF offset = 0
       THEN /\ offset' = 1
            /\ UNCHANGED <<curr, sentPackage, pc>>
       ELSE /\ offset' = 0
            /\ curr' = None
            /\ sentPackage' = sentPackage + 1
            /\ pc' = [pc EXCEPT ![t] = "fetch"]
  /\ UNCHANGED <<token, queue, cipher, encryptor, want, broken, accepted>>

\* Mutant: the package that did not fit is dropped.
SocketFullDrops(t) ==
  /\ pc[t] = "write" /\ ~broken
  /\ token' = TRUE
  /\ curr' = None /\ offset' = 0
  /\ pc' = [pc EXCEPT ![t] = "full"]
  /\ UNCHANGED <<queue, cipher, sentPackage, encryptor, want, broken, accepted, wire>>

\* Mutant: the caller is not told to wait for the socket.
SocketFullSilent(t) ==
  /\ pc[t] = "write" /\ ~broken
  /\ token' = TRUE
  /\ Leave(t)
  /\ UNCHANGED <<queue, curr, offset, cipher, sentPackage, encryptor, want, broken,
                 accepted, wire>>

\* EAGAIN: the token is returned, with the rest of the package still current.
SocketFull(t) ==
  /\ pc[t] = "write" /\ ~broken
  /\ token' = TRUE
  /\ pc' = [pc EXCEPT ![t] = "full"]
  /\ UNCHANGED <<queue, curr, offset, cipher, sentPackage, encryptor, want, broken,
                 accepted, wire>>

\* Any other error: left to the thread that gets the next event.
SocketError(t) ==
  /\ pc[t] = "write"
  /\ broken' = TRUE
  /\ token' = TRUE
  /\ Leave(t)
  /\ UNCHANGED <<queue, curr, offset, cipher, sentPackage, encryptor, want,
                 accepted, wire>>

\* waitForSendEvent(), after send() said so.
WaitForSendEvent(t) ==
  /\ pc[t] = "full"
  /\ want' = TRUE
  /\ Leave(t)
  /\ UNCHANGED <<bufferVars, broken, accepted, wire>>

-----------------------------------------------------------------------------
RealSend(t) ==
  Fetch(t) \/ Write(t) \/ SocketFull(t) \/ SocketError(t) \/ WaitForSendEvent(t)

Next ==
  \/ \E m \in Msg : Send(m)
  \/ SendEvent \/ AllowSending \/ SendQueued
  \/ \E t \in Thread : RealSend(t)

Safety == Init /\ [][Next]_vars

\* Threads go on, the connected event is handled, and a socket the engine waits
\* for is reported writable.  A socket that is written to again and again takes
\* something in the end.
Fairness ==
  /\ WF_vars(SendEvent) /\ WF_vars(AllowSending) /\ WF_vars(SendQueued)
  /\ \A t \in Thread : WF_vars(RealSend(t))
  /\ SF_vars(\E t \in Thread : Write(t))

Spec == Safety /\ Fairness

-----------------------------------------------------------------------------
(* Properties *)

Sending(t) == pc[t] \in {"fetch", "write"}

\* The token has one taker: two threads never write to the socket at a time,
\* nobody writes while the token lies there, and nobody before the connected
\* event has been handled.
OneSender ==
  /\ \A t, u \in Thread : Sending(t) /\ Sending(u) => t = u
  /\ \A t \in Thread : Sending(t) => ~token /\ pc["event"] # "idle"

\* The packages left to be written: the current one and those queued.
Left == (IF curr = None THEN <<>> ELSE <<curr>>) \o queue

\* Number of packages written completely.
Whole == Len(accepted) - Len(Left)

\* Nothing is lost, repeated, reordered or torn: what is on the wire are the
\* halves of the packages in the order they were accepted, up to where the
\* current one is, however threads hand the token to each other.
StreamInOrder ==
  /\ sentPackage = Whole
  /\ Left = SubSeq(accepted, Whole + 1, Len(accepted))
  /\ Len(wire) = 2 * Whole + offset
  /\ \A i \in 1..Len(wire) :
       /\ wire[i].package = accepted[(i + 1) \div 2]
       /\ wire[i].part = 2 - (i % 2)

\* With encryption, the key exchange goes out in plain text and everything
\* after it encrypted, both halves of a package alike.
KeyFirst ==
  \A i \in 1..Len(wire) :
    wire[i].cipher <=> encryptor /\ wire[i].package # Key

\* Data does not stay behind: somebody has the token, or is about to look for
\* it, or the engine waits, or is about to wait, for the socket to be writable.
NothingStuck ==
  Left # <<>> =>
    \/ broken
    \/ want
    \/ pc["event"] \in {"idle", "allowed"}
    \/ \E t \in Thread : pc[t] \in {"fetch", "write", "full"}

-----------------------------------------------------------------------------
(* Refinement of SendStream *)

Stream == INSTANCE SendStream WITH
  Package <- Package,
  delivered <- SubSeq(accepted, 1, Whole)

\* The packages reach the wire in order and, unless the socket breaks, all of
\* them.
ImplementsStream == Stream!Spec

=============================================================================
