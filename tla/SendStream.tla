----------------------------- MODULE SendStream -----------------------------
(***************************************************************************)
(* What a connection promises to those who send on it: the packages reach  *)
(* the peer whole, once, and in the order in which send() accepted them,   *)
(* until the connection breaks.                                            *)
(***************************************************************************)
EXTENDS Naturals, Sequences

CONSTANT Package      \* packages

VARIABLES accepted,   \* the packages accepted, in order
          delivered,  \* the packages written completely, in order
          broken      \* the connection is lost

Init ==
    /\ accepted \in {<<>>} \cup {<<p>> : p \in Package}
    /\ delivered = <<>>
    /\ broken = FALSE

Accept(p) ==
    /\ accepted' = Append(accepted, p)
    /\ UNCHANGED <<delivered, broken>>

Deliver ==
    /\ ~broken
    /\ Len(delivered) < Len(accepted)
    /\ delivered' = Append(delivered, accepted[Len(delivered) + 1])
    /\ UNCHANGED <<accepted, broken>>

Break ==
    /\ broken' = TRUE
    /\ UNCHANGED <<accepted, delivered>>

Next == Deliver \/ Break \/ \E p \in Package : Accept(p)

vars == <<accepted, delivered, broken>>

Safety == Init /\ [][Next]_vars

Spec == Safety /\ WF_vars(Deliver)

=============================================================================
