---------------------------- MODULE MCTcpDuplex ----------------------------
(* Scripts of a peer: quests of both kinds, an answer, a garbled message,  *)
(* and a message that is too long.                                         *)
EXTENDS TcpDuplex

Message(s, w) == [size |-> s, what |-> w]

MCScripts == {
  <<Message(2, "twoWay"), Message(1, "twoWay")>>,
  <<Message(1, "oneWay"), Message(1, "twoWay")>>,
  <<Message(1, "answer"), Message(2, "garbled")>>,
  <<Message(4, "oneWay")>>}
=============================================================================
