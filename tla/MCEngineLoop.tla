---------------------------- MODULE MCEngineLoop ----------------------------
(***************************************************************************)
(* EngineLoop on a small instance.  Its safety properties name no          *)
(* connection and no descriptor, so states that differ only in such names  *)
(* count as one.                                                           *)
(***************************************************************************)
EXTENDS EngineLoop, TLC

Renamings == Permutations(Conn) \cup Permutations(Fd)

=============================================================================
