--------------------------- MODULE AnswerContract ---------------------------
(***************************************************************************)
(* What a peer that sends quests to a client may expect: its messages are  *)
(* dealt with in the order of its stream; a two-way quest is answered at   *)
(* most once, a one-way quest never; and as long as the connection stays   *)
(* up, every message is dealt with and every two-way quest is answered in  *)
(* the end, unless not even an error answer can be encoded.                *)
(***************************************************************************)
EXTENDS Naturals

CONSTANT Limit         \* messages a peer sends at most

VARIABLES arrived,     \* how many messages have arrived as a whole
          dealt,       \* how many of them have been dealt with
          twoWay,      \* those of them that ask for an answer
          answers,     \* [1..Limit -> how often each has been answered]
          lost,        \* those whose answer could not be encoded
          down         \* the connection is closed

vars == <<arrived, dealt, twoWay, answers, lost, down>>

Init ==
  /\ arrived = 0 /\ dealt = 0
  /\ twoWay = {} /\ lost = {}
  /\ answers = [n \in 1..Limit |-> 0]
  /\ down = FALSE

Arrive ==
  /\ arrived' \in arrived + 1..Limit
  /\ UNCHANGED <<dealt, twoWay, answers, lost, down>>

May(n) == n \in twoWay \ lost /\ answers[n] = 0

Answer(n) ==
  /\ May(n)
  /\ answers' = [answers EXCEPT ![n] = 1]
  /\ UNCHANGED <<arrived, dealt, twoWay, lost, down>>

Lose(n) ==
  /\ May(n)
  /\ lost' = lost \cup {n}
  /\ UNCHANGED <<arrived, dealt, twoWay, answers, down>>

\* The next message is dealt with; if there is no room for it in the pool, it is
\* answered, or its answer lost, at once.
Deal ==
  /\ dealt < arrived
  /\ dealt' = dealt + 1
  /\ \/ UNCHANGED <<twoWay, answers, lost>>
     \/ twoWay' = twoWay \cup {dealt'} /\ UNCHANGED <<answers, lost>>
     \/ /\ twoWay' = twoWay \cup {dealt'}
        /\ \/ answers' = [answers EXCEPT ![dealt'] = 1] /\ UNCHANGED lost
           \/ lost' = lost \cup {dealt'} /\ UNCHANGED answers
  /\ UNCHANGED <<arrived, down>>

GoDown ==
  /\ down' = TRUE
  /\ UNCHANGED <<arrived, dealt, twoWay, answers, lost>>

Next == Arrive \/ Deal \/ GoDown \/ \E n \in 1..Limit : Answer(n) \/ Lose(n)

Safety == Init /\ [][Next]_vars

Live ==
  \A n \in 1..Limit :
    /\ arrived >= n ~> dealt >= n \/ down
    /\ n \in twoWay ~> answers[n] = 1 \/ n \in lost \/ down

Spec == Safety /\ Live

=============================================================================
