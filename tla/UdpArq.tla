------------------------------- MODULE UdpArq -------------------------------
(***************************************************************************)
(* Reliable packages over UDP (UDP.v2, protocol version 2), one direction. *)
(*                                                                         *)
(*   - the sending side of one UDPIOBuffer: the data queue of its          *)
(*     UDPAssembler, its UDPUnconformedMap, the packages it assembles into *)
(*     datagrams, and what it does with UNA and acknowledgements;          *)
(*   - the receiving side of its peer's UDPIOBuffer, which runs the same   *)
(*     protocol: ARQParser and ARQPeerSeqManager;                          *)
(*   - a network that loses, repeats and reorders datagrams.               *)
(*                                                                         *)
(* Time is left out: a package may be due for resending, data expired, an  *)
(* acknowledgement old enough to be repeated, at any moment.  A package    *)
(* stands for the sections it combines; all have the same size, and a      *)
(* datagram has room for Room of them.  Nothing is discardable here but    *)
(* the feedback.  The checksum of an honest peer always fits.              *)
(***************************************************************************)
EXTENDS Naturals, Sequences, FiniteSetsExt

CONSTANTS Data,         \* number of messages the application has sent
          Expirable,    \* those that may expire before they are confirmed
          Modulus,      \* sequence numbers are modulo this (2^32)
          First,        \* the first of them (UDPAssembler::_UDPSeqBase)
          Limit,        \* _unconfiremed_package_limitation
          Urgent,       \* _arq_urgent_seqs_sync_triggered_threshold
          Tolerance,    \* _disordered_seq_tolerance
          EarlyLimit,   \* _disordered_seq_tolerance_before_first_package_received
          Room,         \* packages in a datagram
          AckRoom,      \* acknowledgements in a datagram
          NetBound,     \* datagrams in the network
          BackBound,    \* and feedback
          Orders        \* which of the two modes of parsing to begin with

ASSUME SeqAssumption ==
  /\ Modulus \in Nat \ {0} /\ First \in 0..(Modulus - 1)
  /\ Data \in Nat /\ Expirable \subseteq 1..Data
  /\ 2 * Data < Modulus        \* no number is used again
ASSUME UrgentAssumption == 2 * Urgent > Limit
ASSUME OrderAssumption == Orders \subseteq BOOLEAN
ASSUME RoomAssumption == Room \in Nat \ {0} /\ AckRoom \in Nat \ {0}

VARIABLES
  inOrder,     \* data is encrypted as a stream, and so parsed in order
  queue,       \* _dataQueue
  made,        \* history: made[i] is the message of the i-th package
  unconformed, \* _unconformedMap, in the order of _sentQueue
  cut,         \* history: messages dropped because they had expired
  net,         \* datagrams on their way
  feedback,    \* feedback on its way
  started,     \* _arqChecksum is set: the first package has come
  last,        \* lastUDPSeq
  ahead,       \* unprocessedReceivedSeqs
  cache,       \* _disorderedCache
  delivered,   \* messages handed on, in order
  invalid,     \* SessionInvalidChecker has counted since the last valid package
  closed,      \* requireClose
  reading,     \* the loop thread has the receive token
  inbox,       \* packages of the datagram it has still to parse
  parsed,      \* ParseResult: canbeFeedbackUNA or receivedPriorSeqs, requireForceSync
  owed,        \* in ARQPeerSeqManager: unaUpdated or repeatUNA, requireForceSync
  received,    \* ARQPeerSeqManager::receivedSeqs
  recent       \* the keys of feedbackedSeqs within the interval of reAck

\* inOrder is a setting of both sides.
senderVars == <<inOrder, queue, made, unconformed, cut>>
parserVars == <<inOrder, started, last, ahead, cache, delivered, invalid, closed>>
readVars == <<reading, inbox, parsed>>
peerVars == <<owed, received, recent>>
vars == <<senderVars, net, feedback, parserVars, readVars, peerVars>>

Seqs == 0..(Modulus - 1)
Package == [seq : Seqs, data : 0..Data, first : BOOLEAN]   \* data 0: cut
Flags == [una : BOOLEAN, force : BOOLEAN]
Datagram == [force : BOOLEAN, packages : Seq(Package)]
Feedback == [una : SUBSET Seqs, acks : SUBSET Seqs]         \* at most one UNA

NoFlags == [una |-> FALSE, force |-> FALSE]

TypeOK ==
  /\ inOrder \in Orders
  /\ queue \in Seq(1..Data) /\ made \in Seq(1..Data)
  /\ unconformed \in Seq(Package)
  /\ cut \in SUBSET (1..Data)
  /\ net \in SUBSET Datagram /\ feedback \in SUBSET Feedback
  /\ started \in BOOLEAN /\ last \in Seqs
  /\ ahead \in SUBSET Seqs /\ cache \in SUBSET Package
  /\ delivered \in Seq(1..Data)
  /\ invalid \in BOOLEAN /\ closed \in BOOLEAN
  /\ reading \in BOOLEAN /\ inbox \in Seq(Package)
  /\ parsed \in Flags /\ owed \in Flags
  /\ received \in SUBSET Seqs /\ recent \in SUBSET Seqs

Init ==
  /\ inOrder \in Orders
  /\ queue = [i \in 1..Data |-> i]
  /\ made = <<>> /\ unconformed = <<>> /\ cut = {}
  /\ net = {} /\ feedback = {}
  /\ started = FALSE /\ last = 0
  /\ ahead = {} /\ cache = {} /\ delivered = <<>>
  /\ invalid = FALSE /\ closed = FALSE
  /\ reading = FALSE /\ inbox = <<>>
  /\ parsed = NoFlags /\ owed = NoFlags
  /\ received = {} /\ recent = {}

-----------------------------------------------------------------------------
(* Sequences *)

\* The elements of S in any order.
Orderings(S) ==
  {f \in [1..Cardinality(S) -> S] :
     Range(f) = S /\ \A i, j \in DOMAIN f : i # j => f[i] # f[j]}

\* What s has at the places in K, in the order of s: the only element of a set.
Only(s, K) ==
  {[i \in DOMAIN f |-> s[f[i]]] :
     f \in {f \in Orderings(K) : \A i, j \in DOMAIN f : i < j => f[i] < f[j]}}

-----------------------------------------------------------------------------
(* Sequence numbers *)

Minus(a, b) == (a + Modulus - b) % Modulus
Plus(a, k) == (a + k) % Modulus

\* Mutant: sequence numbers are compared as they are.
WithinNoWrap(a, una) == a <= una

\* a is una or before it: all comparisons of the code come down to this one.
Within(a, una) == Minus(una, a) <= Minus(a, una)

Number(i) == Plus(First, i - 1)

-----------------------------------------------------------------------------
(* The sending side *)

Take(n) == SubSeq(unconformed, 1, n)
Rest(n) == SubSeq(unconformed, n + 1, Len(unconformed))

\* expireCheck(): the package stays, without its data.
Expire(ps, X) ==
  [i \in DOMAIN ps |-> IF ps[i].data \in X THEN [ps[i] EXCEPT !.data = 0] ELSE ps[i]]

\* The messages of ps that may be found expired; none with a data encryptor,
\* which calls disableExpireCheck().
MayExpire(ps) ==
  IF inOrder THEN {{}} ELSE SUBSET (Expirable \cap {p.data : p \in Range(ps)})

Transmit(force, ps) ==
  /\ Cardinality(net) < NetBound
  /\ net' = net \cup {[force |-> force, packages |-> ps]}

\* fillDataSection() drops the first k messages, which have expired, and
\* prepareCommonPackage() takes the next; the datagram is padded with the first
\* n packages of _sentQueue.
SendData(k, n) ==
  /\ Len(unconformed) < Limit
  /\ k < Len(queue) /\ n < Room /\ n <= Len(unconformed)
  /\ LET p == [seq |-> Number(Len(made) + 1), data |-> queue[k + 1],
               first |-> made = <<>>]
     IN \E X \in MayExpire(Take(n)) :
          /\ \A i \in 1..k : queue[i] \in Expirable
          /\ cut' = cut \cup X \cup {queue[i] : i \in 1..k}
          /\ queue' = SubSeq(queue, k + 2, Len(queue))
          /\ made' = Append(made, p.data)
          /\ unconformed' = Rest(n) \o <<p>> \o Expire(Take(n), X)
          /\ Transmit(FALSE, <<p>> \o Expire(Take(n), X))
  /\ UNCHANGED <<feedback, parserVars, readVars, peerVars>>

\* The same, but nothing is left to be sent.
DropData ==
  /\ Len(unconformed) < Limit
  /\ queue # <<>> /\ Range(queue) \subseteq Expirable
  /\ cut' = cut \cup Range(queue)
  /\ queue' = <<>>
  /\ UNCHANGED <<made, unconformed, net, feedback, parserVars, readVars, peerVars>>

\* prepareResentPackage_normalMode(): the packages at the head of _sentQueue
\* that are due, and fit, go to its end and are sent again.
Resend(n) ==
  /\ n \in 1..Room /\ n <= Len(unconformed)
  /\ \E X \in MayExpire(Take(n)) :
       /\ cut' = cut \cup X
       /\ unconformed' = Rest(n) \o Expire(Take(n), X)
       /\ Transmit(FALSE, Expire(Take(n), X))
  /\ UNCHANGED <<queue, made, feedback, parserVars, readVars, peerVars>>

\* prepareUrgentARQSyncPackage() asks the peer for its UNA, padded likewise.
\* With so many unconfirmed packages it takes no data along.
ForceSync(n) ==
  /\ Len(unconformed) >= Urgent
  /\ n \in 0..(Room - 1) /\ n <= Len(unconformed)
  /\ \E X \in MayExpire(Take(n)) :
       /\ cut' = cut \cup X
       /\ unconformed' = Rest(n) \o Expire(Take(n), X)
       /\ Transmit(TRUE, Expire(Take(n), X))
  /\ UNCHANGED <<queue, made, feedback, parserVars, readVars, peerVars>>

\* conformFeedbackSeqs(): first by UNA, then by the acknowledgements.
Conform(f) ==
  LET confirmed(p) == p.seq \in f.acks \/ \E una \in f.una : Within(p.seq, una)
  IN unconformed' \in
       Only(unconformed, {i \in DOMAIN unconformed : ~confirmed(unconformed[i])})

ReceiveFeedback(f) ==
  /\ f \in feedback
  /\ feedback' \in {feedback, feedback \ {f}}
  /\ Conform(f)
  /\ UNCHANGED <<queue, made, cut, net, parserVars, readVars, peerVars>>

-----------------------------------------------------------------------------
(* The parser *)

\* Mutant: an expired package is handed on as an empty message.
DeliverEmpty(ds) == delivered' = delivered \o ds

\* Messages handed on: data 0 is a package whose data has expired.
Deliver(ds) ==
  \E out \in Only(ds, {i \in DOMAIN ds : ds[i] # 0}) : delivered' = delivered \o out

\* How many sequence numbers after s are in S without a gap.
RunLength(s, S) == Max({k \in 0..Cardinality(S) : \A i \in 1..k : Plus(s, i) \in S})

\* Messages of the cached packages with the sequence numbers ss.
CachedData(ss) == [i \in DOMAIN ss |-> (CHOOSE p \in cache : p.seq = ss[i]).data]

SeqsOf(ps) == {p.seq : p \in ps}

\* The check is made on plain numbers, as in the code.
BeyondTolerance(s) ==
  LET tolerance == Plus(last, Tolerance)
  IN s > tolerance /\ (last < tolerance \/ s < last)

Parsing(p) == inbox # <<>> /\ p = Head(inbox)

Receive(d) ==
  /\ ~closed /\ inbox = <<>>
  /\ d \in net
  /\ net' \in {net, net \ {d}}
  /\ reading' = TRUE
  /\ inbox' = d.packages
  /\ parsed' = [parsed EXCEPT !.force = @ \/ d.force]
  /\ UNCHANGED <<senderVars, feedback, parserVars, peerVars>>

\* The package has been received before.  parse() returns false, and with it
\* ends the datagram, whatever else is in it.
ParsePrior(p) ==
  /\ Parsing(p) /\ started /\ Within(p.seq, last)
  /\ parsed' = [parsed EXCEPT !.una = TRUE]
  /\ invalid' = (invalid \/ cache # {})
  /\ inbox' = <<>>
  /\ UNCHANGED <<senderVars, net, feedback, started, last, ahead, cache, delivered,
                 closed, reading, peerVars>>

\* Mutant: cached packages count as received, and are cleared unprocessed.
ProceedDrops(s, data, early) ==
  LET n == RunLength(s, ahead \cup early) IN
  /\ last' = Plus(s, n)
  /\ Deliver(<<data>>)
  /\ cache' = {}
  /\ ahead' = (ahead \cup early) \ {Plus(s, i) : i \in 0..n}

\* checkLastUDPSeq() or processCachedPackageFromSeq(), after package s: what
\* follows it without a gap has been processed, or is now.  The code takes the
\* cached packages before the first one (early) in the order of a hash table.
Proceed(s, data, early) ==
  IF inOrder
    THEN LET n == RunLength(s, SeqsOf(cache)) IN
         /\ last' = Plus(s, n)
         /\ Deliver(<<data>> \o CachedData([i \in 1..n |-> Plus(s, i)]))
         /\ cache' = {p \in cache : \A i \in 1..n : p.seq # Plus(s, i)}
         /\ ahead' = (ahead \cup early) \ {Plus(s, i) : i \in 0..n}
    ELSE LET n == RunLength(s, ahead \cup early)
         IN
         /\ last' = Plus(s, n)
         /\ \E order \in Orderings(early) : Deliver(<<data>> \o CachedData(order))
         /\ cache' = {}
         /\ ahead' = (ahead \cup early) \ {Plus(s, i) : i \in 0..n}

\* The package that was waited for.
ParseNext(p) ==
  /\ Parsing(p) /\ started
  /\ p.seq = Plus(last, 1)
  /\ Proceed(p.seq, p.data, {})
  /\ parsed' = [parsed EXCEPT !.una = TRUE]
  /\ invalid' = FALSE
  /\ inbox' = Tail(inbox)
  /\ UNCHANGED <<senderVars, net, feedback, started, closed, reading, peerVars>>

\* The first package of the connection.  The cached ones are taken at once.
ParseFirst(p) ==
  /\ Parsing(p) /\ ~started /\ p.first
  /\ started' = TRUE
  /\ Proceed(p.seq, p.data, SeqsOf(cache))
  /\ parsed' = [parsed EXCEPT !.una = TRUE]
  /\ invalid' = FALSE
  /\ inbox' = Tail(inbox)
  /\ UNCHANGED <<senderVars, net, feedback, closed, reading, peerVars>>

\* Mutant: a package ahead of the others is not looked up in what was received.
ParseAheadAgain(p) ==
  /\ Parsing(p) /\ started /\ ~inOrder
  /\ ~Within(p.seq, last) /\ p.seq # Plus(last, 1)
  /\ ahead' = ahead \cup {p.seq}
  /\ Deliver(<<p.data>>)
  /\ invalid' = TRUE
  /\ inbox' = Tail(inbox)
  /\ UNCHANGED <<senderVars, net, feedback, started, last, cache, closed, reading,
                 parsed, peerVars>>

\* aheadProcessReliableAndMonitoredPackage(): processed out of order.
ParseAhead(p) ==
  /\ Parsing(p) /\ started /\ ~inOrder
  /\ ~Within(p.seq, last) /\ p.seq # Plus(last, 1)
  /\ IF p.seq \in ahead \/ BeyondTolerance(p.seq)
       THEN UNCHANGED <<ahead, delivered>>
       ELSE /\ ahead' = ahead \cup {p.seq}
            /\ Deliver(<<p.data>>)
  /\ invalid' = TRUE
  /\ inbox' = Tail(inbox)
  /\ UNCHANGED <<senderVars, net, feedback, started, last, cache, closed, reading,
                 parsed, peerVars>>

\* cacheCurrentUDPPackage(), after the first package ...
CacheAhead(p) ==
  /\ Parsing(p) /\ started /\ inOrder
  /\ ~Within(p.seq, last) /\ p.seq # Plus(last, 1)
  /\ IF p.seq \in SeqsOf(cache) \/ BeyondTolerance(p.seq)
       THEN UNCHANGED <<ahead, cache, closed>>
       ELSE IF Cardinality(cache) > Tolerance
         THEN closed' = TRUE /\ UNCHANGED <<ahead, cache>>
         ELSE /\ ahead' = ahead \cup {p.seq}
              /\ cache' = cache \cup {p}
              /\ UNCHANGED closed
  /\ invalid' = TRUE
  /\ inbox' = Tail(inbox)
  /\ UNCHANGED <<senderVars, net, feedback, started, last, delivered, reading,
                 parsed, peerVars>>

\* ... and before it.
CacheEarly(p) ==
  /\ Parsing(p) /\ ~started /\ ~p.first
  /\ IF p.seq \in SeqsOf(cache)
       THEN UNCHANGED <<cache, closed>>
       ELSE IF Cardinality(cache) >= EarlyLimit
         THEN closed' = TRUE /\ UNCHANGED cache
         ELSE cache' = cache \cup {p} /\ UNCHANGED closed
  /\ inbox' = Tail(inbox)
  /\ UNCHANGED <<senderVars, net, feedback, started, last, ahead, delivered, invalid,
                 reading, parsed, peerVars>>

\* No valid package has come for too long.
InvalidSession ==
  /\ invalid
  /\ closed' = TRUE
  /\ UNCHANGED <<senderVars, net, feedback, started, last, ahead, cache, delivered,
                 invalid, readVars, peerVars>>

-----------------------------------------------------------------------------
(* Feedback *)

\* returnRecvToken(), with SyncARQStatus().
ReturnRecvToken ==
  /\ reading /\ inbox = <<>>
  /\ reading' = FALSE
  /\ owed' = [una |-> owed.una \/ parsed.una, force |-> parsed.force]
  /\ received' = ahead
  /\ recent' = {s \in recent : ~Within(s, last)}
  /\ parsed' = NoFlags
  /\ UNCHANGED <<senderVars, net, feedback, parserVars, inbox>>

\* cleanReceivedSeqs(): what has not been acknowledged lately.
Due == {s \in received : s \notin recent /\ (started => ~Within(s, last))}

\* prepareUrgentARQSyncPackage() for the UNA and the acknowledgements.  It may
\* run while the loop thread is reading, but sees nothing of that before
\* returnRecvToken(): as if it had run before.
SendFeedback(acks) ==
  /\ ~reading
  /\ owed # NoFlags \/ Due # {}
  /\ acks \in kSubset(Min({AckRoom, Cardinality(Due)}), Due)
  /\ LET una == IF started /\ owed # NoFlags THEN {last} ELSE {} IN
       IF una \cup acks = {}
         THEN UNCHANGED feedback
         ELSE /\ Cardinality(feedback) < BackBound
              /\ feedback' = feedback \cup {[una |-> una, acks |-> acks]}
  /\ owed' = NoFlags
  /\ received' = Due \ acks
  /\ recent' = recent \cup acks
  /\ UNCHANGED <<senderVars, net, parserVars, readVars>>

\* _arq_reAck_interval_milliseconds have passed since s was acknowledged.
ReAck(s) ==
  /\ s \in recent
  /\ recent' = recent \ {s}
  /\ UNCHANGED <<senderVars, net, feedback, parserVars, readVars, owed, received>>

-----------------------------------------------------------------------------
(* The network *)

Lose(d) ==
  /\ d \in net
  /\ net' = net \ {d}
  /\ UNCHANGED <<senderVars, feedback, parserVars, readVars, peerVars>>

LoseFeedback(f) ==
  /\ f \in feedback
  /\ feedback' = feedback \ {f}
  /\ UNCHANGED <<senderVars, net, parserVars, readVars, peerVars>>

-----------------------------------------------------------------------------
Sender ==
  \/ \E k \in 0..Data, n \in 0..Room : SendData(k, n)
  \/ DropData
  \/ \E n \in 0..Room : Resend(n)
  \/ \E n \in 0..Room : ForceSync(n)
  \/ \E f \in feedback : ReceiveFeedback(f)

Parse ==
  \/ \E p \in Range(inbox) : ParsePrior(p)
  \/ \E p \in Range(inbox) : ParseNext(p)
  \/ \E p \in Range(inbox) : ParseFirst(p)
  \/ \E p \in Range(inbox) : ParseAhead(p)
  \/ \E p \in Range(inbox) : CacheAhead(p)
  \/ \E p \in Range(inbox) : CacheEarly(p)

Receiver ==
  \/ \E d \in net : Receive(d)
  \/ Parse
  \/ InvalidSession
  \/ ReturnRecvToken
  \/ \E acks \in SUBSET Due : SendFeedback(acks)
  \/ \E s \in recent : ReAck(s)

Network == (\E d \in net : Lose(d)) \/ \E f \in feedback : LoseFeedback(f)

Next == Sender \/ Receiver \/ Network

Safety == Init /\ [][Next]_vars

-----------------------------------------------------------------------------
(* Properties *)

Confirmed == {i \in 1..Len(made) : Number(i) \notin SeqsOf(Range(unconformed))}

\* However datagrams are lost, repeated and reordered, no message is handed on
\* twice, and with a data encryptor, none before an earlier one.
OnceAndInOrder ==
  \A i, j \in 1..Len(delivered) : i < j =>
    /\ delivered[i] # delivered[j]
    /\ inOrder => delivered[i] < delivered[j]

\* What the sender has forgotten has reached the peer: it has been handed on, or
\* is cached there to be handed on, unless it had expired.
ConfirmedHasArrived ==
  \A i \in Confirmed :
    made[i] \in Range(delivered) \cup cut \cup {p.data : p \in cache}

\* The parser has no holes: what it calls received has been handed on, or is
\* cached, unless it had expired, and what is cached is not handed on yet.
ReceivedIsKept ==
  started =>
    \A i \in 1..Len(made) :
      /\ Within(Number(i), last) => made[i] \in Range(delivered) \cup cut
      /\ Number(i) \in ahead =>
           made[i] \in Range(delivered) \cup cut \cup {p.data : p \in cache}

=============================================================================
