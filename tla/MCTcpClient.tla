---------------------------- MODULE MCTcpClient ----------------------------
(***************************************************************************)
(* TcpClient for TLC.  Attempts are interchangeable: only NewInfo and      *)
(* FirstInfo choose, and they choose blank connection infos.               *)
(***************************************************************************)
EXTENDS TcpClient, TLC

Symmetry == Permutations(Attempt)

=============================================================================
