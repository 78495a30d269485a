---------------------------- MODULE ServerQuest ----------------------------
(***************************************************************************)
(* Quests of the server on a client's connection: TCPClient::dealQuest()   *)
(* and its QuestTask, Client::processQuest(), the advance answer of        *)
(* IQuestProcessor::sendAnswer(), and the asynchronous answer of           *)
(* IQuestProcessor::genAsyncAnswer() and AsyncAnswerImp.                   *)
(*                                                                         *)
(*   - the loop thread: dealQuest();                                       *)
(*   - a pool thread per quest: processQuest() with the user's handler,    *)
(*     which may throw, return an answer or none, and use both interfaces; *)
(*   - a thread of the user that holds an IAsyncAnswer; that only one      *)
(*     thread at a time uses it is assumed: sendAnswer() of it tests _sent *)
(*     and sets it without a lock.                                         *)
(*                                                                         *)
(* An answer that cannot be encoded makes raw() throw; the code then tries *)
(* an error answer, and has a path for that one failing as well.  A client *)
(* without quest processor drops quests; it is left out.                   *)
(***************************************************************************)
EXTENDS Naturals

CONSTANT Quest        \* the quests the server sends

VARIABLES
  stage,      \* [Quest -> where it is]
  twoWay,     \* the quests that ask for an answer
  answered,   \* AnswerStatus::_answered of quests whose handler runs
  async,      \* [Quest -> its IAsyncAnswer: "none", "held", "sent", "gone"]
  answers,    \* [Quest -> how often an answer was given to sendTCPData()]
  lost,       \* quests whose error answer could not be encoded
  linked      \* the connection is in the map of the engine

questVars == <<stage, twoWay, answered, async, answers, lost, linked>>

\* A "fatal" quest's task will close the client when it is destroyed.
Stage == {"unseen", "queued", "running", "fatal", "done"}

QuestTypeOK ==
  /\ stage \in [Quest -> Stage]
  /\ twoWay \in SUBSET Quest
  /\ answered \in SUBSET twoWay
  /\ async \in [Quest -> {"none", "held", "sent", "gone"}]
  /\ answers \in [Quest -> Nat]
  /\ lost \in SUBSET twoWay
  /\ linked \in BOOLEAN

QuestInit ==
  /\ stage = [q \in Quest |-> "unseen"]
  /\ twoWay = {} /\ answered = {} /\ lost = {}
  /\ async = [q \in Quest |-> "none"]
  /\ answers = [q \in Quest |-> 0]
  /\ linked = TRUE

Move(q, s) == stage' = [stage EXCEPT ![q] = s]

\* An answer is given to the engine, which drops it if the connection is gone.
Answer(q) == answers' = [answers EXCEPT ![q] = @ + 1] /\ UNCHANGED lost
Lose(q) == lost' = lost \cup {q} /\ UNCHANGED answers

-----------------------------------------------------------------------------
(* dealQuest() *)

\* The pool takes the quest, or refuses it; then the peer is told.
Deal(q, isTwoWay) ==
  /\ stage[q] = "unseen"
  /\ twoWay' = IF isTwoWay THEN twoWay \cup {q} ELSE twoWay
  /\ \/ Move(q, "queued") /\ UNCHANGED <<answers, lost>>
     \/ /\ Move(q, "done")
        /\ IF isTwoWay THEN Answer(q) \/ Lose(q) ELSE UNCHANGED <<answers, lost>>
  /\ UNCHANGED <<answered, async, linked>>

-----------------------------------------------------------------------------
(* processQuest() and the handler *)

\* initAnswerStatus().
Begin(q) ==
  /\ stage[q] = "queued"
  /\ Move(q, "running")
  /\ UNCHANGED <<twoWay, answered, async, answers, lost, linked>>

\* The handler calls sendAnswer().  If it may not, or the answer cannot be
\* encoded, nothing changes.
Advance(q) ==
  /\ stage[q] = "running"
  /\ q \in twoWay \ answered
  /\ Answer(q)
  /\ answered' = answered \cup {q}
  /\ UNCHANGED <<stage, twoWay, async, linked>>

\* The handler calls genAsyncAnswer().
GenAsync(q) ==
  /\ stage[q] = "running"
  /\ q \in twoWay \ answered
  /\ answered' = answered \cup {q}
  /\ async' = [async EXCEPT ![q] = "held"]
  /\ UNCHANGED <<stage, twoWay, answers, lost, linked>>

\* Mutant: an exception of the handler makes an error answer without asking
\* getQuestAnsweredStatus(), and finishAnswerStatus() is not looked at.
ConcludeUnasked(q) ==
  /\ stage[q] = "running"
  /\ answered' = answered \ {q}
  /\ \/ /\ Move(q, "done")
        /\ IF q \in twoWay THEN Answer(q) ELSE UNCHANGED <<answers, lost>>
     \/ /\ q \in twoWay \ answered
        /\ Move(q, "fatal")
        /\ UNCHANGED <<answers, lost>>
  /\ UNCHANGED <<twoWay, async, linked>>

\* The handler returns, with an answer or without, or throws.  A two-way quest
\* that has not been answered is now, with the answer of the handler or with an
\* error answer; an answer to any other quest is dropped.  If the error answer
\* that stands for an answer that cannot be encoded fails too, the exception
\* reaches the task.
Conclude(q) ==
  /\ stage[q] = "running"
  /\ answered' = answered \ {q}
  /\ \/ /\ Move(q, "done")
        /\ IF q \in twoWay \ answered THEN Answer(q) ELSE UNCHANGED <<answers, lost>>
     \/ /\ q \in twoWay \ answered
        /\ Move(q, "fatal")
        /\ UNCHANGED <<answers, lost>>
  /\ UNCHANGED <<twoWay, async, linked>>

\* ~QuestTask(): client->close(), which takes the client's connection, be it
\* still the one of the quest or not.
FatalClose(q) ==
  /\ stage[q] = "fatal"
  /\ Move(q, "done")
  /\ linked' = FALSE
  /\ UNCHANGED <<twoWay, answered, async, answers, lost>>

-----------------------------------------------------------------------------
(* AsyncAnswerImp *)

AsyncSend(q) ==
  /\ async[q] = "held"
  /\ async' = [async EXCEPT ![q] = "sent"]
  /\ Answer(q)
  /\ UNCHANGED <<stage, twoWay, answered, linked>>

\* The last reference is dropped: ~AsyncAnswerImp().
AsyncRelease(q) ==
  /\ async[q] \in {"held", "sent"}
  /\ async' = [async EXCEPT ![q] = "gone"]
  /\ IF async[q] = "held" THEN Answer(q) \/ Lose(q) ELSE UNCHANGED <<answers, lost>>
  /\ UNCHANGED <<stage, twoWay, answered, linked>>

Handler(q) == Advance(q) \/ GenAsync(q)
Task(q) == Begin(q) \/ Conclude(q) \/ FatalClose(q)
AsyncAnswer(q) == AsyncSend(q) \/ AsyncRelease(q)

-----------------------------------------------------------------------------
(* Properties *)

\* A two-way quest that has been dealt with and has no answer yet has somebody
\* who will give it one: the status of its handler and its asynchronous answer
\* never both believe that the other does, nor both that they must.
AnswerHasOwner ==
  \A q \in twoWay : stage[q] \in {"running", "done"} /\ linked =>
    (IF stage[q] = "running" /\ q \notin answered THEN 1 ELSE 0)
    + (IF async[q] = "held" THEN 1 ELSE 0)
    + (IF q \in lost THEN 1 ELSE 0)
    + answers[q] = 1

=============================================================================
