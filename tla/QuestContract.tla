--------------------------- MODULE QuestContract ---------------------------
(***************************************************************************)
(* What the SDK promises to the caller of an asynchronous or synchronous   *)
(* sendQuest(): the quest is either refused at once, and then the SDK      *)
(* never touches its callback again, or it is accepted, and then its       *)
(* callback is completed exactly once.                                     *)
(***************************************************************************)
CONSTANT Quest        \* the callbacks handed to sendQuest()

VARIABLE status       \* [Quest -> "idle" | "refused" | "accepted" | "completed"]

Init == status = [q \in Quest |-> "idle"]

Accept(q) ==
    /\ status[q] = "idle"
    /\ status' = [status EXCEPT ![q] = "accepted"]

Refuse(q) ==
    /\ status[q] = "idle"
    /\ status' = [status EXCEPT ![q] = "refused"]

Complete(q) ==
    /\ status[q] = "accepted"
    /\ status' = [status EXCEPT ![q] = "completed"]

Next == \E q \in Quest : Accept(q) \/ Refuse(q) \/ Complete(q)

Safety == Init /\ [][Next]_status

Spec == Safety /\ \A q \in Quest : WF_status(Complete(q))

=============================================================================
