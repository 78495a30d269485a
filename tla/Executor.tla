------------------------------ MODULE Executor ------------------------------
(***************************************************************************)
(* What the rest of the SDK relies on when it hands a task to a pool:      *)
(* tasks are begun in the order in which they were accepted, each accepted *)
(* task is run once and in the end, and release() returns only when all of *)
(* them have been run.                                                     *)
(***************************************************************************)
EXTENDS Naturals, Sequences

CONSTANTS Task,       \* tasks
          Awaits      \* [Task -> SUBSET Task], tasks it blocks for while it runs

VARIABLES accepted,   \* the tasks accepted so far, in order
          begun,      \* how many of them have been begun
          finished,   \* those that have been run
          open        \* tasks may be accepted

vars == <<accepted, begun, finished, open>>

Tasks(s) == {s[i] : i \in DOMAIN s}

Init ==
  /\ accepted = <<>>
  /\ begun = 0
  /\ finished = {}
  /\ open = FALSE

Open ==
  /\ open' = TRUE
  /\ UNCHANGED <<accepted, begun, finished>>

Accept(t) ==
  /\ open
  /\ t \notin Tasks(accepted)
  /\ accepted' = Append(accepted, t)
  /\ UNCHANGED <<begun, finished, open>>

Begin ==
  /\ begun < Len(accepted)
  /\ begun' = begun + 1
  /\ UNCHANGED <<accepted, finished, open>>

Finish(t) ==
  /\ \E i \in 1..begun : accepted[i] = t
  /\ t \notin finished
  /\ Awaits[t] \subseteq finished
  /\ finished' = finished \cup {t}
  /\ UNCHANGED <<accepted, begun, open>>

Close ==
  /\ Tasks(accepted) \subseteq finished
  /\ open' = FALSE
  /\ UNCHANGED <<accepted, begun, finished>>

Next == Open \/ Begin \/ Close \/ \E t \in Task : Accept(t) \/ Finish(t)

Safety == Init /\ [][Next]_vars

Spec == Safety /\ WF_vars(Begin) /\ \A t \in Task : WF_vars(Finish(t))

=============================================================================
