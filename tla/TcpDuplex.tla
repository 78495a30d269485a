----------------------------- MODULE TcpDuplex -----------------------------
(***************************************************************************)
(* The receiving side of a TCP client as a whole: the loop thread reads    *)
(* the stream (TcpReceive) and hands each quest to dealQuest()             *)
(* (ServerQuest), TCPClientIOProcessor::deliverQuest(); both close the     *)
(* same connection.  Quests are known by the number of their message.      *)
(***************************************************************************)
EXTENDS TcpReceive

CONSTANT Limit        \* longest script

ASSUME LimitAssumption == Limit \in Nat /\ \A s \in Scripts : Len(s) \in 0..Limit

VARIABLES stage, twoWay, answered, async, answers, lost

vars == <<receiveVars, stage, twoWay, answered, async, answers, lost>>
sideVars == <<stage, twoWay, answered, async, answers, lost>>

Q == INSTANCE ServerQuest WITH Quest <- 1..Limit, linked <- up

TypeOK == ReceiveTypeOK /\ Q!QuestTypeOK

Init == ReceiveInit /\ Q!QuestInit

-----------------------------------------------------------------------------
(* read() delivers *)

DeliverQuest(n) ==
  /\ HandOn(n)
  /\ script[n].what \in {"oneWay", "twoWay"}
  /\ Q!Deal(n, script[n].what = "twoWay")

\* deliverAnswer(), for the callbacks of QuestCallbacks.
DeliverAnswer(n) ==
  /\ HandOn(n)
  /\ script[n].what = "answer"
  /\ UNCHANGED sideVars

DeliverNothing(n) == NotHandedOn(n) /\ UNCHANGED sideVars

Deliver == \E n \in 1..Len(script) :
  DeliverQuest(n) \/ DeliverAnswer(n) \/ DeliverNothing(n)

\* What a quest does changes nothing on the receiving side but the link.
BesideReading == UNCHANGED <<peerVars, errno, token, pc, bufferVars>>

Next ==
  \/ Environment /\ UNCHANGED sideVars
  \/ Event /\ UNCHANGED sideVars
  \/ ReadCall /\ UNCHANGED sideVars
  \/ Deliver
  \/ \E n \in 1..Limit : Q!Handler(n) /\ BesideReading
  \/ \E n \in 1..Limit : Q!Task(n) /\ BesideReading
  \/ \E n \in 1..Limit : Q!AsyncAnswer(n) /\ BesideReading

Safety == Init /\ [][Next]_vars

\* The connected event is handled and the loop thread serves the connection; the
\* pool runs tasks, and handlers return; somebody sends or drops every
\* asynchronous answer.  Nothing need arrive.
Fairness ==
  /\ WF_vars(AllowReceiving /\ UNCHANGED sideVars)
  /\ WF_vars(((Event \/ ReadCall) /\ UNCHANGED sideVars) \/ Deliver)
  /\ \A n \in 1..Limit :
       /\ WF_vars(Q!Task(n) /\ BesideReading)
       /\ WF_vars(Q!AsyncAnswer(n) /\ BesideReading)

Spec == Safety /\ Fairness

-----------------------------------------------------------------------------
(* Properties *)

\* See ServerQuest: a two-way quest has exactly one of an answer, somebody who
\* will give it one, or a reason why it cannot have one.
AnswerHasOwner == Q!AnswerHasOwner

\* From the bytes of a quest to its answer: the stream of the peer is dealt with
\* message by message, each two-way quest is answered once, and none is forgotten
\* while the connection is up.
Contract == INSTANCE AnswerContract WITH
  arrived <- Cardinality(Complete),
  dealt <- Len(handed),
  down <- ~up

ImplementsAnswerContract == Contract!Spec

=============================================================================
