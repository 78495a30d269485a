----------------------------- MODULE TcpReceive -----------------------------
(***************************************************************************)
(* The receiving side of a TCP connection: RecvBuffer (IOBuffer.h), the    *)
(* three receivers (UnencryptedReceiver.cpp, EncryptedPackageReceiver.cpp, *)
(* EncryptedStreamReceiver.cpp) and TCPClientIOProcessor::read().          *)
(*                                                                         *)
(*   - the peer and the network: bytes arrive, the stream ends;            *)
(*   - the loop thread: read(), one ::read() call per action, and          *)
(*     everything else it does, which leaves an errno behind;              *)
(*   - another thread that takes the connection away.                      *)
(*                                                                         *)
(* Bytes are numbered by their position in the stream; a byte is known by  *)
(* its position and never by its value.  Decryption in stream mode is      *)
(* right exactly when it is applied at the position it has come to.  The   *)
(* embedded mode (raw data for a delegate) is left out.                    *)
(***************************************************************************)
EXTENDS Integers, Sequences, FiniteSets

CONSTANTS
  Scripts,        \* what the peer may send: sequences of [size, what]
  HeaderLength,   \* FPMessage::_HeaderLength, in units of the model
  LengthField,    \* sizeof(uint32_t), in the same units
  MaxPackage      \* Config::_max_recv_package_length

ASSUME LengthAssumption == {HeaderLength, LengthField, MaxPackage} \subseteq Nat \ {0}
ASSUME ScriptAssumption ==
  Scripts \subseteq
    Seq([size : Nat \ {0}, what : {"twoWay", "oneWay", "answer", "garbled"}])

VARIABLES
  mode,         \* which receiver
  script,       \* what the peer sends
  arrived,      \* bytes in the socket or read from it
  peer,         \* the peer's end: "open", "fin", "reset"
  errno,        \* errno of the loop thread: "none" (0, EINTR), "again", "other"
  token,        \* RecvBuffer::_token
  pc,           \* "connecting", "waiting" for an event, "reading", or finished:
                \* reported as "closed" or as "failed", or "gone" unreported
  taken,        \* bytes read from the socket
  curr, total,  \* Receiver::_curr, _total
  getLength,    \* EncryptedPackageReceiver::_getLength
  key,          \* position of the StreamEncryptor
  handed,       \* the messages handed on, by their number in the script
  up            \* the connection is in the map of the engine

peerVars == <<mode, script, arrived, peer>>
bufferVars == <<taken, curr, total, getLength, key, handed>>
receiveVars == <<peerVars, errno, token, pc, bufferVars, up>>

-----------------------------------------------------------------------------
(* The stream *)

\* What a receiver reads first: the length, or the header.
First == IF mode = "package" THEN LengthField ELSE HeaderLength

OnWire(m) == (IF mode = "package" THEN LengthField ELSE 0) + HeaderLength + m.size

\* Where the messages of the script end.
Ends == LET f[n \in 0..Len(script)] == IF n = 0 THEN 0 ELSE f[n - 1] + OnWire(script[n])
        IN f

\* The messages that begin at position p: one, or none.
At(p) == {n \in 1..Len(script) : Ends[n - 1] = p}

\* The messages that have arrived as a whole.
Complete == {n \in 1..Len(script) : Ends[n] <= arrived}

ReceiveTypeOK ==
  /\ mode \in {"plain", "package", "stream"}
  /\ script \in Scripts
  /\ arrived \in 0..Ends[Len(script)]
  /\ peer \in {"open", "fin", "reset"}
  /\ errno \in {"none", "again", "other"}
  /\ token \in BOOLEAN
  /\ pc \in {"connecting", "waiting", "reading", "closed", "failed", "gone"}
  /\ taken \in 0..arrived
  /\ total \in Nat /\ curr \in 0..total
  /\ getLength \in BOOLEAN
  /\ key \in Nat
  /\ handed \in Seq(1..Len(script))
  /\ up \in BOOLEAN

\* The connection is set up, and its connected event has not been handled:
\* perpareConnection() has taken the token away and chosen the receiver.
ReceiveInit ==
  /\ mode \in {"plain", "package", "stream"}
  /\ script \in Scripts
  /\ arrived = 0 /\ peer = "open"
  /\ errno = "none"
  /\ token = FALSE
  /\ pc = "connecting"
  /\ taken = 0 /\ curr = 0 /\ total = First /\ getLength = FALSE
  /\ key = 0
  /\ handed = <<>>
  /\ up = TRUE

-----------------------------------------------------------------------------
(* Peer, network and other threads *)

Arrive ==
  /\ peer = "open"
  /\ \E n \in 1..Ends[Len(script)] - arrived : arrived' = arrived + n
  /\ UNCHANGED <<mode, script, peer, errno, token, pc, bufferVars, up>>

PeerEnds ==
  /\ peer = "open"
  /\ peer' \in {"fin", "reset"}
  /\ UNCHANGED <<mode, script, arrived, errno, token, pc, bufferVars, up>>

\* connectedEventCompleted() of a connection that has just been connected.
AllowReceiving ==
  /\ pc = "connecting"
  /\ pc' = "waiting" /\ token' = TRUE
  /\ UNCHANGED <<peerVars, errno, bufferVars, up>>

\* The loop thread serves other connections; a failed call of it, say connect()
\* in isConnected(), sets errno, and nothing sets it back.
ServeOthers ==
  /\ pc \in {"connecting", "waiting"}
  /\ errno' \in {"none", "again", "other"} \ {errno}
  /\ UNCHANGED <<peerVars, token, pc, bufferVars, up>>

\* Any thread closes the connection (takeConnection()); a read() that is under
\* way goes on.
CloseByOther ==
  /\ up
  /\ up' = FALSE
  /\ UNCHANGED <<peerVars, errno, token, pc, bufferVars>>

-----------------------------------------------------------------------------
(* read() *)

\* getToken() after a read event of a connection that is still in the map.
Event ==
  /\ pc = "waiting" /\ up /\ token
  /\ arrived > taken \/ peer # "open"
  /\ pc' = "reading" /\ token' = FALSE
  /\ UNCHANGED <<peerVars, errno, bufferVars, up>>

\* Mutant: the token is not returned.
WaitForEventKeepsToken == pc' = "waiting" /\ UNCHANGED <<token, up>>

\* Return to the loop, until the next event or for good.
WaitForEvent == pc' = "waiting" /\ token' = TRUE /\ UNCHANGED up

\* closeConnection(), which reports nothing if another thread has been faster.
Close(how) ==
  /\ pc' = IF up THEN how ELSE "gone"
  /\ token' = TRUE
  /\ up' = FALSE
Fail == Close("failed")

Missing == total - curr
Available == arrived - taken
InHeader == IF mode = "package" THEN ~getLength ELSE total = HeaderLength

\* The length or the header is complete.  Only a receiver that has a header to
\* look at refuses a long message.
BeginBody(n) ==
  LET length == HeaderLength + script[n].size
  IN  /\ IF mode = "package"
           THEN curr' = 0 /\ getLength' = TRUE
           ELSE curr' = total /\ UNCHANGED getLength
      /\ total' = length
      /\ key' = IF mode = "stream" THEN key + HeaderLength ELSE key
      /\ IF mode # "package" /\ length > MaxPackage
           THEN Fail
           ELSE UNCHANGED <<pc, token, up>>

\* A position that is not the beginning of a message, or a header that is
\* decrypted at the wrong position, gives no header.
ReadHeader ==
  /\ pc = "reading" /\ InHeader
  /\ Missing > 0 /\ Available >= Missing
  /\ taken' = taken + Missing
  /\ \/ \E n \in At(taken' - First) :
          /\ mode = "stream" => key = taken' - First
          /\ BeginBody(n)
     \/ /\ \/ At(taken' - First) = {}
           \/ mode = "stream" /\ key # taken' - First
        /\ Fail
        /\ UNCHANGED <<curr, total, getLength, key>>
  /\ UNCHANGED <<peerVars, errno, handed>>

ReadBody ==
  /\ pc = "reading" /\ ~InHeader
  /\ Missing > 0 /\ Available >= Missing
  /\ taken' = taken + Missing
  /\ curr' = total
  /\ UNCHANGED <<peerVars, errno, token, pc, total, getLength, key, handed, up>>

\* Mutant: what a read before EAGAIN has got is not counted.
ReadSomeUncounted ==
  /\ pc = "reading"
  /\ 0 < Available /\ Available < Missing
  /\ taken' = taken + Available
  /\ \/ errno = "again" /\ UNCHANGED curr /\ WaitForEvent
     \/ errno = "none" /\ curr' = curr + Available /\ UNCHANGED <<pc, token, up>>
     \/ errno = "other" /\ UNCHANGED curr /\ Fail
  /\ UNCHANGED <<peerVars, errno, total, getLength, key, handed>>

\* A short read succeeds, so errno is the one an earlier call has left behind;
\* recv() looks at it all the same.
ReadSome ==
  /\ pc = "reading"
  /\ 0 < Available /\ Available < Missing
  /\ taken' = taken + Available
  /\ \/ errno = "again" /\ curr' = curr + Available /\ WaitForEvent
     \/ errno = "none" /\ curr' = curr + Available /\ UNCHANGED <<pc, token, up>>
     \/ errno = "other" /\ UNCHANGED curr /\ Fail
  /\ UNCHANGED <<peerVars, errno, total, getLength, key, handed>>

\* EAGAIN.
ReadNothing ==
  /\ pc = "reading"
  /\ Available = 0 /\ Missing > 0 /\ peer = "open"
  /\ errno' = "again"
  /\ WaitForEvent
  /\ UNCHANGED <<peerVars, bufferVars>>

\* The end of the stream.  In the middle of a message recv() calls it an error,
\* but processConnectionIO() asks isClosed() first.
ReadEnd ==
  /\ pc = "reading"
  /\ Available = 0 /\ Missing > 0 /\ peer = "fin"
  /\ Close("closed")
  /\ UNCHANGED <<peerVars, errno, bufferVars>>

ReadReset ==
  /\ pc = "reading"
  /\ Available = 0 /\ Missing > 0 /\ peer = "reset"
  /\ errno' = "other"
  /\ Fail
  /\ UNCHANGED <<peerVars, bufferVars>>

\* Mutant: what has been read of the message is kept.
FetchedKeepsCurr(n) ==
  /\ pc = "reading" /\ ~InHeader /\ Missing = 0
  /\ n \in At(taken - total - (IF mode = "package" THEN LengthField ELSE 0))
  /\ mode = "stream" => key = taken - total + HeaderLength
  /\ key' = IF mode = "stream" THEN key + total - HeaderLength ELSE key
  /\ UNCHANGED curr /\ total' = First /\ getLength' = FALSE
  /\ UNCHANGED <<peerVars, errno, taken>>

\* fetch() of the message that has been read, which is number n of the script.
Fetched(n) ==
  /\ pc = "reading" /\ ~InHeader /\ Missing = 0
  /\ n \in At(taken - total - (IF mode = "package" THEN LengthField ELSE 0))
  /\ mode = "stream" => key = taken - total + HeaderLength
  /\ key' = IF mode = "stream" THEN key + total - HeaderLength ELSE key
  /\ curr' = 0 /\ total' = First /\ getLength' = FALSE
  /\ UNCHANGED <<peerVars, errno, taken>>

HandOn(n) ==
  /\ Fetched(n)
  /\ script[n].what # "garbled"
  /\ handed' = Append(handed, n)
  /\ UNCHANGED <<token, pc, up>>

\* It cannot be decoded, or the client has been destroyed since its connection
\* was taken away.
NotHandedOn(n) ==
  /\ Fetched(n)
  /\ script[n].what = "garbled" \/ ~up
  /\ UNCHANGED handed
  /\ Fail

ReadCall ==
  ReadHeader \/ ReadBody \/ ReadSome \/ ReadNothing \/ ReadEnd \/ ReadReset

Environment ==
  Arrive \/ PeerEnds \/ AllowReceiving \/ ServeOthers \/ CloseByOther

-----------------------------------------------------------------------------
(* Properties *)

\* The receiver knows where it is in the stream: however the bytes are cut into
\* pieces by the network, by EAGAIN and by stale error numbers, what it has read
\* is the messages it has handed on, in their order, and its progress in the
\* next one; the decryption has come to the same place.
Progress == curr + (IF mode = "package" /\ getLength THEN LengthField ELSE 0)
InStep ==
  up =>
    /\ handed = [i \in DOMAIN handed |-> i]
    /\ taken = Ends[Len(handed)] + Progress
    /\ mode = "stream" =>
         key = Ends[Len(handed)] + (IF InHeader THEN 0 ELSE HeaderLength)

=============================================================================
