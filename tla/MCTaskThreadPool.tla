-------------------------- MODULE MCTaskThreadPool --------------------------
(* Four tasks; the first blocks until the second has been run, the third   *)
(* until the fourth.                                                       *)
EXTENDS TaskThreadPool

CONSTANTS t1, t2, t3, t4

MCTask == {t1, t2, t3, t4}
MCAwaits == [t \in MCTask |-> CASE t = t1 -> {t2} [] t = t3 -> {t4} [] OTHER -> {}]
=============================================================================
