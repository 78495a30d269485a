-------------------------- MODULE EngineLoopProofs --------------------------
(***************************************************************************)
(* Proofs about EngineLoop, for any set of connections and descriptors.    *)
(*                                                                         *)
(* The ticket argument: a descriptor the loop watches belongs to a         *)
(* connection that has not been quit, or it is in _quitSocketSet, and then *)
(* fewer ticks have passed since quit() than releaseable() asks for.  It   *)
(* fails for a descriptor that join() hands in after the quit(): these are *)
(* in the history variable overtaken, and the invariant leaves them out.   *)
(***************************************************************************)
EXTENDS EngineLoop, TLAPS

\* The loop has not yet begun to merge the sets of this round.
Watching == pc \in {"select", "consume", "errors", "io"}

\* The ticks a quit connection may have seen while the loop still watches it.
AgeBound == IF pc = "select" THEN 0 ELSE 1

\* f belongs to a connection nobody has quit.
Unquit(f) == \E c \in Conn : fd[c] = f /\ stage[c] \in {"open", "taken"}

\* f belongs to a quit connection that the ticket protects.
Protected(f) ==
  \E c \in Conn :
    /\ fd[c] = f
    /\ \/ stage[c] = "quit"
       \/ stage[c] = "reclaimed" /\ age[c] <= AgeBound

TicketInv ==
  /\ \A f \in newSet \ overtaken : Unquit(f)
  /\ pc # "dead" => \A f \in (all \ quitSet) \ overtaken : Unquit(f)
  /\ Watching => \A f \in (all \cap quitSet) \ overtaken : Protected(f)
  /\ Watching => all \cap newSet \subseteq overtaken
  /\ pc \in {"consume", "errors"} => dropped \subseteq all

\* The loop has nothing yet of a connection that join() has still to hand in:
\* if its descriptor was another connection's, that one has been quit.
JoinInv ==
  \A c \in joining :
    stage[c] \in {"open", "taken"} /\ fd[c] \notin overtaken =>
      /\ fd[c] \notin newSet
      /\ pc # "dead" => fd[c] \notin all \ quitSet
      /\ Watching => fd[c] \notin all

\* Life cycle of connections, and who may be in use.
LifeInv ==
  /\ \A c \in Conn : stage[c] # "new" => fd[c] \in Fd
  /\ \A c \in Conn : stage[c] = "new" => fd[c] = NoFd
  /\ map \subseteq {c \in Conn : stage[c] = "open"}
  /\ \A c \in joining : stage[c] # "new"
  /\ \A c \in held \cup signed : stage[c] \notin {"new", "freed"}
  /\ \A c, d \in Conn :
       stage[c] \notin {"new", "freed"} /\ stage[d] \notin {"new", "freed"} /\ fd[c] = fd[d]
         => c = d

\* The descriptor of a mapped connection is not about to leave the loop, once
\* join() has handed it in.
MapInv == \A c \in map \ joining : fd[c] \notin quitSet

-----------------------------------------------------------------------------
(* Type correctness and the life cycle of connections *)

\* TypeOK alone is not inductive: a thread hands the loop the descriptor of a
\* connection it found in the map or holds, which LifeInv says is open.
LEMMA LifeInit == Init => TypeOK /\ LifeInv
<1> SUFFICES ASSUME Init PROVE TypeOK /\ LifeInv
  OBVIOUS
<1>1. TypeOK
  <2>1. stage \in [Conn -> Stage] /\ fd \in [Conn -> Fd \cup {NoFd}] /\ age \in [Conn -> 0..2]
    BY DEF Init, Stage
  <2>2. writable \in SUBSET ready /\ closing \in SUBSET signed
    BY DEF Init
  <2>. QED
    BY <2>1, <2>2 DEF Init, TypeOK, LoopPc
<1>2. LifeInv
  BY DEF Init, LifeInv
<1>. QED
  BY <1>1, <1>2

\* Every step keeps the types and the life cycle.
LEMMA LifeStep == TypeOK /\ LifeInv /\ [Next]_vars => TypeOK' /\ LifeInv'
<1>. SUFFICES ASSUME TypeOK, LifeInv, [Next]_vars
              PROVE  TypeOK' /\ LifeInv'
  OBVIOUS
<1>. USE DEF joinVars
<1>1. ASSUME NEW c \in Conn, NEW f \in Fd, JoinMap(c, f)
       PROVE  TypeOK' /\ LifeInv'
  <2>1. TypeOK'
    BY <1>1 DEF JoinMap, engineVars, loopVars, TypeOK, Stage, LoopPc, LifeInv
  <2>2. LifeInv'
    BY <1>1 DEF JoinMap, engineVars, loopVars, LifeInv, TypeOK, Stage, Open
  <2>. QED
    BY <2>1, <2>2
<1>23. ASSUME NEW c \in Conn, NEW w \in BOOLEAN, JoinSets(c, w)
       PROVE  TypeOK' /\ LifeInv'
  <2>1. TypeOK'
    BY <1>23 DEF JoinSets, connVars, loopVars, TypeOK, Stage, LoopPc, LifeInv
  <2>2. LifeInv'
    BY <1>23 DEF JoinSets, connVars, loopVars, LifeInv, TypeOK, Stage, Open
  <2>. QED
    BY <2>1, <2>2
<1>2. ASSUME NEW c \in Conn, SendAll(c)
       PROVE  TypeOK' /\ LifeInv'
  <2>1. TypeOK'
    BY <1>2 DEF SendAll, engineVars, loopVars, TypeOK, Stage, LoopPc, LifeInv
  <2>2. LifeInv'
    BY <1>2 DEF SendAll, engineVars, loopVars, LifeInv, TypeOK, Stage, Open
  <2>. QED
    BY <2>1, <2>2
<1>3. ASSUME NEW c \in Conn, SendBlocks(c)
       PROVE  TypeOK' /\ LifeInv'
  <2>1. TypeOK'
    <3>1. fd[c] \in Fd
      BY <1>3 DEF SendBlocks, LifeInv, TypeOK
    <3>2. waitWrite' \in SUBSET Fd /\ notified' \in BOOLEAN
      BY <1>3, <3>1 DEF SendBlocks, WaitSendEvent, TypeOK
    <3>. QED
      BY <1>3, <3>2 DEF SendBlocks, loopVars, TypeOK, Stage, LoopPc
  <2>2. LifeInv'
    BY <1>3 DEF SendBlocks, WaitSendEvent, loopVars, LifeInv, TypeOK,
       Stage, Open
  <2>. QED
    BY <2>1, <2>2
<1>4. ASSUME NEW c \in Conn, Take(c)
       PROVE  TypeOK' /\ LifeInv'
  <2>1. TypeOK'
    BY <1>4 DEF Take, engineVars, loopVars, TypeOK, Stage, LoopPc, LifeInv
  <2>2. LifeInv'
    BY <1>4 DEF Take, engineVars, loopVars, LifeInv, TypeOK, Stage, Open
  <2>. QED
    BY <2>1, <2>2
<1>5. ASSUME NEW c \in Conn, Hold(c)
       PROVE  TypeOK' /\ LifeInv'
  <2>1. TypeOK'
    BY <1>5 DEF Hold, connVars, engineVars, loopVars, TypeOK, Stage,
       LoopPc, LifeInv
  <2>2. LifeInv'
    BY <1>5 DEF Hold, connVars, engineVars, loopVars, LifeInv, TypeOK,
       Stage, Open
  <2>. QED
    BY <2>1, <2>2
<1>6. ASSUME NEW c \in Conn, HolderBlocks(c)
       PROVE  TypeOK' /\ LifeInv'
  <2>1. TypeOK'
    <3>1. fd[c] \in Fd
      BY <1>6 DEF HolderBlocks, LifeInv, TypeOK
    <3>2. waitWrite' \in SUBSET Fd /\ notified' \in BOOLEAN
      BY <1>6, <3>1 DEF HolderBlocks, WaitSendEvent, TypeOK
    <3>. QED
      BY <1>6, <3>2 DEF HolderBlocks, loopVars, TypeOK, Stage, LoopPc
  <2>2. LifeInv'
    BY <1>6 DEF HolderBlocks, WaitSendEvent, loopVars, LifeInv, TypeOK,
       Stage, Open
  <2>. QED
    BY <2>1, <2>2
<1>7. ASSUME NEW c \in Conn, Release(c)
       PROVE  TypeOK' /\ LifeInv'
  <2>1. TypeOK'
    BY <1>7 DEF Release, connVars, engineVars, loopVars, TypeOK, Stage,
       LoopPc, LifeInv
  <2>2. LifeInv'
    BY <1>7 DEF Release, connVars, engineVars, loopVars, LifeInv, TypeOK,
       Stage, Open
  <2>. QED
    BY <2>1, <2>2
<1>8. ASSUME NEW c \in Conn, QuitSets(c)
       PROVE  TypeOK' /\ LifeInv'
  <2>1. TypeOK'
    BY <1>8 DEF QuitSets, loopVars, TypeOK, Stage, LoopPc, LifeInv
  <2>2. LifeInv'
    BY <1>8 DEF QuitSets, loopVars, LifeInv, TypeOK, Stage, Open
  <2>. QED
    BY <2>1, <2>2
<1>9. ASSUME NEW c \in Conn, QuitTicket(c)
       PROVE  TypeOK' /\ LifeInv'
  <2>1. TypeOK'
    BY <1>9 DEF QuitTicket, loopVars, TypeOK, Stage, LoopPc, LifeInv
  <2>2. LifeInv'
    BY <1>9 DEF QuitTicket, loopVars, LifeInv, TypeOK, Stage, Open
  <2>. QED
    BY <2>1, <2>2
<1>10. ASSUME NEW R \in SUBSET Fd, NEW W \in SUBSET Fd, NEW X \in SUBSET Fd,
               SelectReturn(R, W, X)
       PROVE  TypeOK' /\ LifeInv'
  <2>1. TypeOK'
    BY <1>10 DEF SelectReturn, Tick, engineVars, TypeOK, Stage, LoopPc, LifeInv
  <2>2. LifeInv'
    BY <1>10 DEF SelectReturn, Tick, engineVars, LifeInv, TypeOK, Stage, Open
  <2>. QED
    BY <2>1, <2>2
<1>11. ASSUME SelectFails
       PROVE  TypeOK' /\ LifeInv'
  <2>1. TypeOK'
    BY <1>11 DEF SelectFails, connVars, engineVars, TypeOK, Stage, LoopPc,
       LifeInv
  <2>2. LifeInv'
    BY <1>11 DEF SelectFails, connVars, engineVars, LifeInv, TypeOK, Stage, Open
  <2>. QED
    BY <2>1, <2>2
<1>12. ASSUME ConsumeNotifyData
       PROVE  TypeOK' /\ LifeInv'
  <2>1. TypeOK'
    BY <1>12 DEF ConsumeNotifyData, connVars, TypeOK, Stage, LoopPc, LifeInv
  <2>2. LifeInv'
    BY <1>12 DEF ConsumeNotifyData, connVars, LifeInv, TypeOK, Stage, Open
  <2>. QED
    BY <2>1, <2>2
<1>13. ASSUME TickFlags
       PROVE  TypeOK' /\ LifeInv'
  <2>1. TypeOK'
    BY <1>13 DEF TickFlags, Tick, engineVars, TypeOK, Stage, LoopPc, LifeInv
  <2>2. LifeInv'
    BY <1>13 DEF TickFlags, Tick, engineVars, LifeInv, TypeOK, Stage, Open
  <2>. QED
    BY <2>1, <2>2
<1>14. ASSUME MergeSets
       PROVE  TypeOK' /\ LifeInv'
  <2>1. TypeOK'
    BY <1>14 DEF MergeSets, connVars, TypeOK, Stage, LoopPc, LifeInv
  <2>2. LifeInv'
    BY <1>14 DEF MergeSets, connVars, LifeInv, TypeOK, Stage, Open
  <2>. QED
    BY <2>1, <2>2
<1>15. ASSUME NEW f \in Fd, Sign(f)
       PROVE  TypeOK' /\ LifeInv'
  <2>1. TypeOK'
    BY <1>15 DEF Sign, connVars, engineVars, TypeOK, Stage, LoopPc, LifeInv
  <2>2. LifeInv'
    BY <1>15 DEF Sign, connVars, engineVars, LifeInv, TypeOK, Stage, Open
  <2>. QED
    BY <2>1, <2>2
<1>16. ASSUME NEW c \in Conn, ServeDone(c)
       PROVE  TypeOK' /\ LifeInv'
  <2>1. TypeOK'
    BY <1>16 DEF ServeDone, Served, engineVars, TypeOK, Stage, LoopPc, LifeInv
  <2>2. LifeInv'
    BY <1>16 DEF ServeDone, Served, engineVars, LifeInv, TypeOK, Stage, Open
  <2>. QED
    BY <2>1, <2>2
<1>17. ASSUME NEW c \in Conn, ServeBlocks(c)
       PROVE  TypeOK' /\ LifeInv'
  <2>1. TypeOK'
    <3>1. fd[c] \in Fd
      BY <1>17 DEF ServeBlocks, LifeInv, TypeOK
    <3>2. waitWrite' \in SUBSET Fd /\ notified' \in BOOLEAN
      BY <1>17, <3>1 DEF ServeBlocks, WaitSendEvent, TypeOK
    <3>. QED
      BY <1>17, <3>2 DEF ServeBlocks, Served, TypeOK, Stage, LoopPc
  <2>2. LifeInv'
    BY <1>17 DEF ServeBlocks, WaitSendEvent, Served, LifeInv, TypeOK,
       Stage, Open
  <2>. QED
    BY <2>1, <2>2
<1>18. ASSUME NEW c \in Conn, ServeCloses(c)
       PROVE  TypeOK' /\ LifeInv'
  <2>1. TypeOK'
    BY <1>18 DEF ServeCloses, engineVars, TypeOK, Stage, LoopPc, LifeInv
  <2>2. LifeInv'
    BY <1>18 DEF ServeCloses, engineVars, LifeInv, TypeOK, Stage, Open
  <2>. QED
    BY <2>1, <2>2
<1>19. ASSUME NEW c \in Conn, ServeClosed(c)
       PROVE  TypeOK' /\ LifeInv'
  <2>1. TypeOK'
    BY <1>19 DEF ServeClosed, Served, connVars, engineVars, TypeOK, Stage,
       LoopPc, LifeInv
  <2>2. LifeInv'
    BY <1>19 DEF ServeClosed, Served, connVars, engineVars, LifeInv,
       TypeOK, Stage, Open
  <2>. QED
    BY <2>1, <2>2
<1>20. ASSUME NEW c \in Conn, Reclaim(c)
       PROVE  TypeOK' /\ LifeInv'
  <2>1. TypeOK'
    BY <1>20 DEF Reclaim, engineVars, loopVars, TypeOK, Stage, LoopPc, LifeInv
  <2>2. LifeInv'
    BY <1>20 DEF Reclaim, engineVars, loopVars, LifeInv, TypeOK, Stage, Open
  <2>. QED
    BY <2>1, <2>2
<1>21. ASSUME UNCHANGED vars
       PROVE  TypeOK' /\ LifeInv'
  <2>1. TypeOK'
    BY <1>21 DEF vars, connVars, engineVars, loopVars, TypeOK, Stage,
       LoopPc, LifeInv
  <2>2. LifeInv'
    BY <1>21 DEF vars, connVars, engineVars, loopVars, LifeInv, TypeOK,
       Stage, Open
  <2>. QED
    BY <2>1, <2>2
<1>22. ASSUME ClearDropped
       PROVE  TypeOK' /\ LifeInv'
  <2>1. TypeOK'
    BY <1>22 DEF ClearDropped, engineVars, TypeOK, Stage, LoopPc, LifeInv
  <2>2. LifeInv'
    BY <1>22 DEF ClearDropped, engineVars, LifeInv, TypeOK, Stage, Open
  <2>. QED
    BY <2>1, <2>2
<1>. QED
    BY <1>1, <1>2, <1>3, <1>4, <1>5, <1>6, <1>7, <1>8, <1>9, <1>10, <1>11,
       <1>12, <1>13, <1>14, <1>15, <1>16, <1>17, <1>18, <1>19, <1>20,
       <1>21, <1>22, <1>23
    DEF Next, Application, Holder, Closer, Loop, Checker

\* Every variable keeps its type: no step of any thread takes the loop's sets,
\* the life cycle of a connection or its ticket age out of their range.
THEOREM TypeCorrect == Safety => []TypeOK
<1>1. TypeOK /\ LifeInv /\ [Next]_vars => TypeOK' /\ LifeInv'
  BY LifeStep
<1>. QED
  BY LifeInit, <1>1, PTL DEF Safety

\* The two invariants every other proof of this module starts from.
LEMMA LifeCorrect == Safety => [](TypeOK /\ LifeInv)
<1>. QED
  BY LifeInit, LifeStep, PTL DEF Safety

\* A connection the loop serves, or a holder refers to, is never destroyed, and
\* no other connection gets its descriptor meanwhile: the reference counts do
\* what processConnectionIO() and periodUDPSendingCheck() rely on.
THEOREM InUseStaysAlive == Safety => []InUseAlive
<1>1. TypeOK /\ LifeInv => InUseAlive
  <2>. SUFFICES ASSUME TypeOK, LifeInv, NEW c \in signed \cup held, NEW d \in Conn,
                       fd[d] = fd[c], stage[d] # "freed"
                PROVE  stage[c] # "freed" /\ d = c
    BY DEF InUseAlive, TypeOK, LifeInv
  <2>1. c \in Conn /\ stage[c] \notin {"new", "freed"} /\ fd[c] \in Fd
    BY DEF TypeOK, LifeInv
  <2>2. stage[d] # "new"
    BY <2>1, NoFdAssumption DEF LifeInv
  <2>. QED
    BY <2>1, <2>2 DEF LifeInv
<1>. QED
  BY <1>1, LifeCorrect, PTL

-----------------------------------------------------------------------------
(* The ticket *)

\* Every step keeps the ticket argument.
LEMMA TicketStep ==
  TypeOK /\ LifeInv /\ TicketInv /\ JoinInv /\ [Next]_vars => TicketInv' /\ JoinInv'
<1>. SUFFICES ASSUME TypeOK, LifeInv, TicketInv, JoinInv, [Next]_vars
              PROVE  TicketInv' /\ JoinInv'
  OBVIOUS
<1>. USE DEF joinVars, JoinInv
<1>1. ASSUME NEW c \in Conn, NEW f \in Fd, JoinMap(c, f)
       PROVE  TicketInv' /\ JoinInv'
  BY <1>1 DEF JoinMap, engineVars, loopVars, TicketInv, Unquit, Protected, Watching,
     AgeBound, TypeOK, Stage, LoopPc, LifeInv, Open
<1>23. ASSUME NEW c \in Conn, NEW w \in BOOLEAN, JoinSets(c, w)
       PROVE  TicketInv' /\ JoinInv'
  BY <1>23 DEF JoinSets, connVars, loopVars, TicketInv, Unquit, Protected, Watching,
     AgeBound, TypeOK, Stage, LoopPc, LifeInv, Open
<1>2. ASSUME NEW c \in Conn, SendAll(c)
       PROVE  TicketInv' /\ JoinInv'
  BY <1>2 DEF SendAll, engineVars, loopVars, TicketInv, Unquit, Protected,
     Watching, AgeBound, TypeOK, Stage, LoopPc, LifeInv, Open
<1>3. ASSUME NEW c \in Conn, SendBlocks(c)
       PROVE  TicketInv' /\ JoinInv'
  BY <1>3 DEF SendBlocks, WaitSendEvent, loopVars, TicketInv, Unquit,
     Protected, Watching, AgeBound, TypeOK, Stage, LoopPc, LifeInv, Open
<1>4. ASSUME NEW c \in Conn, Take(c)
       PROVE  TicketInv' /\ JoinInv'
  BY <1>4 DEF Take, engineVars, loopVars, TicketInv, Unquit, Protected,
     Watching, AgeBound, TypeOK, Stage, LoopPc, LifeInv, Open
<1>5. ASSUME NEW c \in Conn, Hold(c)
       PROVE  TicketInv' /\ JoinInv'
  BY <1>5 DEF Hold, connVars, engineVars, loopVars, TicketInv, Unquit,
     Protected, Watching, AgeBound, TypeOK, Stage, LoopPc, LifeInv, Open
<1>6. ASSUME NEW c \in Conn, HolderBlocks(c)
       PROVE  TicketInv' /\ JoinInv'
  BY <1>6 DEF HolderBlocks, WaitSendEvent, loopVars, TicketInv, Unquit,
     Protected, Watching, AgeBound, TypeOK, Stage, LoopPc, LifeInv, Open
<1>7. ASSUME NEW c \in Conn, Release(c)
       PROVE  TicketInv' /\ JoinInv'
  BY <1>7 DEF Release, connVars, engineVars, loopVars, TicketInv, Unquit,
     Protected, Watching, AgeBound, TypeOK, Stage, LoopPc, LifeInv, Open
<1>8. ASSUME NEW c \in Conn, QuitSets(c)
       PROVE  TicketInv' /\ JoinInv'
  BY <1>8 DEF QuitSets, loopVars, TicketInv, Unquit, Protected, Watching,
     AgeBound, TypeOK, Stage, LoopPc, LifeInv, Open
<1>9. ASSUME NEW c \in Conn, QuitTicket(c)
       PROVE  TicketInv' /\ JoinInv'
  BY <1>9 DEF QuitTicket, loopVars, TicketInv, Unquit, Protected, Watching,
     AgeBound, TypeOK, Stage, LoopPc, LifeInv, Open
<1>10. ASSUME NEW R \in SUBSET Fd, NEW W \in SUBSET Fd, NEW X \in SUBSET Fd,
               SelectReturn(R, W, X)
       PROVE  TicketInv' /\ JoinInv'
  BY <1>10 DEF SelectReturn, Tick, engineVars, TicketInv, Unquit, Protected,
     Watching, AgeBound, TypeOK, Stage, LoopPc, LifeInv, Open
<1>11. ASSUME SelectFails
       PROVE  TicketInv' /\ JoinInv'
  BY <1>11 DEF SelectFails, connVars, engineVars, TicketInv, Unquit,
     Protected, Watching, AgeBound, TypeOK, Stage, LoopPc, LifeInv, Open
<1>12. ASSUME ConsumeNotifyData
       PROVE  TicketInv' /\ JoinInv'
  BY <1>12 DEF ConsumeNotifyData, connVars, TicketInv, Unquit, Protected,
     Watching, AgeBound, TypeOK, Stage, LoopPc, LifeInv, Open
<1>13. ASSUME TickFlags
       PROVE  TicketInv' /\ JoinInv'
  BY <1>13 DEF TickFlags, Tick, engineVars, TicketInv, Unquit, Protected,
     Watching, AgeBound, TypeOK, Stage, LoopPc, LifeInv, Open
<1>14. ASSUME MergeSets
       PROVE  TicketInv' /\ JoinInv'
  BY <1>14 DEF MergeSets, connVars, TicketInv, Unquit, Protected, Watching,
     AgeBound, TypeOK, Stage, LoopPc, LifeInv, Open
<1>15. ASSUME NEW f \in Fd, Sign(f)
       PROVE  TicketInv' /\ JoinInv'
  BY <1>15 DEF Sign, connVars, engineVars, TicketInv, Unquit, Protected,
     Watching, AgeBound, TypeOK, Stage, LoopPc, LifeInv, Open
<1>16. ASSUME NEW c \in Conn, ServeDone(c)
       PROVE  TicketInv' /\ JoinInv'
  BY <1>16 DEF ServeDone, Served, engineVars, TicketInv, Unquit, Protected,
     Watching, AgeBound, TypeOK, Stage, LoopPc, LifeInv, Open
<1>17. ASSUME NEW c \in Conn, ServeBlocks(c)
       PROVE  TicketInv' /\ JoinInv'
  BY <1>17 DEF ServeBlocks, WaitSendEvent, Served, TicketInv, Unquit,
     Protected, Watching, AgeBound, TypeOK, Stage, LoopPc, LifeInv, Open
<1>18. ASSUME NEW c \in Conn, ServeCloses(c)
       PROVE  TicketInv' /\ JoinInv'
  BY <1>18 DEF ServeCloses, engineVars, TicketInv, Unquit, Protected,
     Watching, AgeBound, TypeOK, Stage, LoopPc, LifeInv, Open
<1>19. ASSUME NEW c \in Conn, ServeClosed(c)
       PROVE  TicketInv' /\ JoinInv'
  BY <1>19 DEF ServeClosed, Served, connVars, engineVars, TicketInv, Unquit,
     Protected, Watching, AgeBound, TypeOK, Stage, LoopPc, LifeInv, Open
<1>20. ASSUME NEW c \in Conn, Reclaim(c)
       PROVE  TicketInv' /\ JoinInv'
  BY <1>20 DEF Reclaim, engineVars, loopVars, TicketInv, Unquit, Protected,
     Watching, AgeBound, TypeOK, Stage, LoopPc, LifeInv, Open
<1>21. ASSUME UNCHANGED vars
       PROVE  TicketInv' /\ JoinInv'
  BY <1>21 DEF vars, connVars, engineVars, loopVars, TicketInv, Unquit,
     Protected, Watching, AgeBound, TypeOK, Stage, LoopPc, LifeInv, Open
<1>22. ASSUME ClearDropped
       PROVE  TicketInv' /\ JoinInv'
  BY <1>22 DEF ClearDropped, engineVars, TicketInv, Unquit, Protected, Watching,
     AgeBound, TypeOK, Stage, LoopPc, LifeInv, Open
<1>. QED
  BY <1>1, <1>2, <1>3, <1>4, <1>5, <1>6, <1>7, <1>8, <1>9, <1>10, <1>11,
     <1>12, <1>13, <1>14, <1>15, <1>16, <1>17, <1>18, <1>19, <1>20, <1>21, <1>22, <1>23
  DEF Next, Application, Holder, Closer, Loop, Checker

\* When the loop is about to select(), no descriptor it reads from has been
\* closed, except for those a join() handed in after their quit():
\* releaseable() asks for more ticks than the loop can make before it takes a
\* quit descriptor out of its sets.  This is the part of the ticket logic that
\* does hold; a late join() and the write set escape it (ReadSetOpen and
\* WriteSetOpen are violated).
THEOREM ReadSetStaysOpen == Safety => []ReadSetKept
<1>1. Init => TicketInv /\ JoinInv
  BY DEF Init, TicketInv, JoinInv
<1>2. TypeOK /\ TicketInv => ReadSetKept
  BY DEF TypeOK, TicketInv, ReadSetKept, Unquit, Protected, Watching
<1>. QED
  BY <1>1, <1>2, TicketStep, LifeCorrect, PTL DEF Safety

-----------------------------------------------------------------------------
(* Wake-ups and the merge of the sets *)

\* Every step that fills a set notifies, or is followed by one that does.
LEMMA WakeupStep == TypeOK /\ LifeInv /\ NoLostWakeup /\ [Next]_vars => NoLostWakeup'
<1>. SUFFICES ASSUME TypeOK, LifeInv, NoLostWakeup, [Next]_vars
              PROVE  NoLostWakeup'
  OBVIOUS
<1>. USE DEF joinVars
<1>1. ASSUME NEW c \in Conn, NEW f \in Fd, JoinMap(c, f)
       PROVE  NoLostWakeup'
  BY <1>1 DEF JoinMap, engineVars, loopVars, NoLostWakeup, LifeInv, TypeOK, Stage, LoopPc
<1>23. ASSUME NEW c \in Conn, NEW w \in BOOLEAN, JoinSets(c, w)
       PROVE  NoLostWakeup'
  BY <1>23 DEF JoinSets, connVars, loopVars, NoLostWakeup, LifeInv, TypeOK, Stage, LoopPc
<1>2. ASSUME NEW c \in Conn, SendAll(c)
       PROVE  NoLostWakeup'
  BY <1>2 DEF SendAll, engineVars, loopVars, NoLostWakeup, LifeInv, TypeOK,
     Stage, LoopPc
<1>3. ASSUME NEW c \in Conn, SendBlocks(c)
       PROVE  NoLostWakeup'
  BY <1>3 DEF SendBlocks, WaitSendEvent, loopVars, NoLostWakeup, LifeInv,
     TypeOK, Stage, LoopPc
<1>4. ASSUME NEW c \in Conn, Take(c)
       PROVE  NoLostWakeup'
  BY <1>4 DEF Take, engineVars, loopVars, NoLostWakeup, LifeInv, TypeOK,
     Stage, LoopPc
<1>5. ASSUME NEW c \in Conn, Hold(c)
       PROVE  NoLostWakeup'
  BY <1>5 DEF Hold, connVars, engineVars, loopVars, NoLostWakeup, LifeInv,
     TypeOK, Stage, LoopPc
<1>6. ASSUME NEW c \in Conn, HolderBlocks(c)
       PROVE  NoLostWakeup'
  BY <1>6 DEF HolderBlocks, WaitSendEvent, loopVars, NoLostWakeup, LifeInv,
     TypeOK, Stage, LoopPc
<1>7. ASSUME NEW c \in Conn, Release(c)
       PROVE  NoLostWakeup'
  BY <1>7 DEF Release, connVars, engineVars, loopVars, NoLostWakeup,
     LifeInv, TypeOK, Stage, LoopPc
<1>8. ASSUME NEW c \in Conn, QuitSets(c)
       PROVE  NoLostWakeup'
  BY <1>8 DEF QuitSets, loopVars, NoLostWakeup, LifeInv, TypeOK, Stage, LoopPc
<1>9. ASSUME NEW c \in Conn, QuitTicket(c)
       PROVE  NoLostWakeup'
  BY <1>9 DEF QuitTicket, loopVars, NoLostWakeup, LifeInv, TypeOK, Stage, LoopPc
<1>10. ASSUME NEW R \in SUBSET Fd, NEW W \in SUBSET Fd, NEW X \in SUBSET Fd,
               SelectReturn(R, W, X)
       PROVE  NoLostWakeup'
  BY <1>10 DEF SelectReturn, Tick, engineVars, NoLostWakeup, LifeInv,
     TypeOK, Stage, LoopPc
<1>11. ASSUME SelectFails
       PROVE  NoLostWakeup'
  BY <1>11 DEF SelectFails, connVars, engineVars, NoLostWakeup, LifeInv,
     TypeOK, Stage, LoopPc
<1>12. ASSUME ConsumeNotifyData
       PROVE  NoLostWakeup'
  BY <1>12 DEF ConsumeNotifyData, connVars, NoLostWakeup, LifeInv, TypeOK,
     Stage, LoopPc
<1>13. ASSUME TickFlags
       PROVE  NoLostWakeup'
  BY <1>13 DEF TickFlags, Tick, engineVars, NoLostWakeup, LifeInv, TypeOK,
     Stage, LoopPc
<1>14. ASSUME MergeSets
       PROVE  NoLostWakeup'
  BY <1>14 DEF MergeSets, connVars, NoLostWakeup, LifeInv, TypeOK, Stage, LoopPc
<1>15. ASSUME NEW f \in Fd, Sign(f)
       PROVE  NoLostWakeup'
  BY <1>15 DEF Sign, connVars, engineVars, NoLostWakeup, LifeInv, TypeOK,
     Stage, LoopPc
<1>16. ASSUME NEW c \in Conn, ServeDone(c)
       PROVE  NoLostWakeup'
  BY <1>16 DEF ServeDone, Served, engineVars, NoLostWakeup, LifeInv, TypeOK,
     Stage, LoopPc
<1>17. ASSUME NEW c \in Conn, ServeBlocks(c)
       PROVE  NoLostWakeup'
  BY <1>17 DEF ServeBlocks, WaitSendEvent, Served, NoLostWakeup, LifeInv,
     TypeOK, Stage, LoopPc
<1>18. ASSUME NEW c \in Conn, ServeCloses(c)
       PROVE  NoLostWakeup'
  BY <1>18 DEF ServeCloses, engineVars, NoLostWakeup, LifeInv, TypeOK,
     Stage, LoopPc
<1>19. ASSUME NEW c \in Conn, ServeClosed(c)
       PROVE  NoLostWakeup'
  BY <1>19 DEF ServeClosed, Served, connVars, engineVars, NoLostWakeup,
     LifeInv, TypeOK, Stage, LoopPc
<1>20. ASSUME NEW c \in Conn, Reclaim(c)
       PROVE  NoLostWakeup'
  BY <1>20 DEF Reclaim, engineVars, loopVars, NoLostWakeup, LifeInv, TypeOK,
     Stage, LoopPc
<1>21. ASSUME UNCHANGED vars
       PROVE  NoLostWakeup'
  BY <1>21 DEF vars, connVars, engineVars, loopVars, NoLostWakeup, LifeInv,
     TypeOK, Stage, LoopPc
<1>22. ASSUME ClearDropped
       PROVE  NoLostWakeup'
  BY <1>22 DEF ClearDropped, engineVars, NoLostWakeup, LifeInv, TypeOK, Stage, LoopPc
<1>. QED
  BY <1>1, <1>2, <1>3, <1>4, <1>5, <1>6, <1>7, <1>8, <1>9, <1>10, <1>11,
     <1>12, <1>13, <1>14, <1>15, <1>16, <1>17, <1>18, <1>19, <1>20, <1>21, <1>22, <1>23
  DEF Next, Application, Holder, Closer, Loop, Checker

\* No request of another thread is forgotten: when the loop goes to sleep, the
\* sets are empty, or the pipe has the byte that wakes it, or the thread that
\* changed the sets in quit() is about to write that byte.
THEOREM WakeupsAreNotLost == Safety => []NoLostWakeup
<1>1. Init => NoLostWakeup
  BY DEF Init, NoLostWakeup
<1>. QED
  BY <1>1, WakeupStep, LifeCorrect, PTL DEF Safety

\* Every step keeps the mapped connections in the loop's reach.
LEMMA MapStep ==
  TypeOK /\ LifeInv /\ MapInv /\ MappedWatched /\ [Next]_vars
    => MapInv' /\ MappedWatched'
<1>. SUFFICES ASSUME TypeOK, LifeInv, MapInv, MappedWatched, [Next]_vars
              PROVE  MapInv' /\ MappedWatched'
  OBVIOUS
<1>. USE DEF joinVars
<1>1. ASSUME NEW c \in Conn, NEW f \in Fd, JoinMap(c, f)
       PROVE  MapInv' /\ MappedWatched'
  <2>1. MapInv'
    BY <1>1 DEF JoinMap, engineVars, loopVars, MapInv, TypeOK, LifeInv, Open
  <2>2. MappedWatched'
    BY <1>1 DEF JoinMap, engineVars, loopVars, MappedWatched, MapInv, TypeOK, LifeInv, Open
  <2>. QED
    BY <2>1, <2>2
<1>23. ASSUME NEW c \in Conn, NEW w \in BOOLEAN, JoinSets(c, w)
       PROVE  MapInv' /\ MappedWatched'
  <2>1. MapInv'
    BY <1>23 DEF JoinSets, connVars, loopVars, MapInv, TypeOK, LifeInv, Open
  <2>2. MappedWatched'
    BY <1>23 DEF JoinSets, connVars, loopVars, MappedWatched, MapInv, TypeOK, LifeInv, Open
  <2>. QED
    BY <2>1, <2>2
<1>2. ASSUME NEW c \in Conn, SendAll(c)
       PROVE  MapInv' /\ MappedWatched'
  <2>1. MapInv'
    BY <1>2 DEF SendAll, engineVars, loopVars, MapInv, TypeOK, LifeInv, Open
  <2>2. MappedWatched'
    BY <1>2 DEF SendAll, engineVars, loopVars, MappedWatched, MapInv,
       TypeOK, LifeInv, Open
  <2>. QED
    BY <2>1, <2>2
<1>3. ASSUME NEW c \in Conn, SendBlocks(c)
       PROVE  MapInv' /\ MappedWatched'
  <2>1. MapInv'
    BY <1>3 DEF SendBlocks, WaitSendEvent, loopVars, MapInv, TypeOK,
       LifeInv, Open
  <2>2. MappedWatched'
    BY <1>3 DEF SendBlocks, WaitSendEvent, loopVars, MappedWatched,
       MapInv, TypeOK, LifeInv, Open
  <2>. QED
    BY <2>1, <2>2
<1>4. ASSUME NEW c \in Conn, Take(c)
       PROVE  MapInv' /\ MappedWatched'
  <2>1. MapInv'
    BY <1>4 DEF Take, engineVars, loopVars, MapInv, TypeOK, LifeInv, Open
  <2>2. MappedWatched'
    BY <1>4 DEF Take, engineVars, loopVars, MappedWatched, MapInv, TypeOK,
       LifeInv, Open
  <2>. QED
    BY <2>1, <2>2
<1>5. ASSUME NEW c \in Conn, Hold(c)
       PROVE  MapInv' /\ MappedWatched'
  <2>1. MapInv'
    BY <1>5 DEF Hold, connVars, engineVars, loopVars, MapInv, TypeOK,
       LifeInv, Open
  <2>2. MappedWatched'
    BY <1>5 DEF Hold, connVars, engineVars, loopVars, MappedWatched,
       MapInv, TypeOK, LifeInv, Open
  <2>. QED
    BY <2>1, <2>2
<1>6. ASSUME NEW c \in Conn, HolderBlocks(c)
       PROVE  MapInv' /\ MappedWatched'
  <2>1. MapInv'
    BY <1>6 DEF HolderBlocks, WaitSendEvent, loopVars, MapInv, TypeOK,
       LifeInv, Open
  <2>2. MappedWatched'
    BY <1>6 DEF HolderBlocks, WaitSendEvent, loopVars, MappedWatched,
       MapInv, TypeOK, LifeInv, Open
  <2>. QED
    BY <2>1, <2>2
<1>7. ASSUME NEW c \in Conn, Release(c)
       PROVE  MapInv' /\ MappedWatched'
  <2>1. MapInv'
    BY <1>7 DEF Release, connVars, engineVars, loopVars, MapInv, TypeOK,
       LifeInv, Open
  <2>2. MappedWatched'
    BY <1>7 DEF Release, connVars, engineVars, loopVars, MappedWatched,
       MapInv, TypeOK, LifeInv, Open
  <2>. QED
    BY <2>1, <2>2
<1>8. ASSUME NEW c \in Conn, QuitSets(c)
       PROVE  MapInv' /\ MappedWatched'
  <2>1. MapInv'
    BY <1>8 DEF QuitSets, loopVars, MapInv, TypeOK, LifeInv, Open
  <2>2. MappedWatched'
    BY <1>8 DEF QuitSets, loopVars, MappedWatched, MapInv, TypeOK, LifeInv, Open
  <2>. QED
    BY <2>1, <2>2
<1>9. ASSUME NEW c \in Conn, QuitTicket(c)
       PROVE  MapInv' /\ MappedWatched'
  <2>1. MapInv'
    BY <1>9 DEF QuitTicket, loopVars, MapInv, TypeOK, LifeInv, Open
  <2>2. MappedWatched'
    BY <1>9 DEF QuitTicket, loopVars, MappedWatched, MapInv, TypeOK,
       LifeInv, Open
  <2>. QED
    BY <2>1, <2>2
<1>10. ASSUME NEW R \in SUBSET Fd, NEW W \in SUBSET Fd, NEW X \in SUBSET Fd,
               SelectReturn(R, W, X)
       PROVE  MapInv' /\ MappedWatched'
  <2>1. MapInv'
    BY <1>10 DEF SelectReturn, Tick, engineVars, MapInv, TypeOK, LifeInv, Open
  <2>2. MappedWatched'
    BY <1>10 DEF SelectReturn, Tick, engineVars, MappedWatched, MapInv,
       TypeOK, LifeInv, Open
  <2>. QED
    BY <2>1, <2>2
<1>11. ASSUME SelectFails
       PROVE  MapInv' /\ MappedWatched'
  <2>1. MapInv'
    BY <1>11 DEF SelectFails, connVars, engineVars, MapInv, TypeOK,
       LifeInv, Open
  <2>2. MappedWatched'
    BY <1>11 DEF SelectFails, connVars, engineVars, MappedWatched, MapInv,
       TypeOK, LifeInv, Open
  <2>. QED
    BY <2>1, <2>2
<1>12. ASSUME ConsumeNotifyData
       PROVE  MapInv' /\ MappedWatched'
  <2>1. MapInv'
    BY <1>12 DEF ConsumeNotifyData, connVars, MapInv, TypeOK, LifeInv, Open
  <2>2. MappedWatched'
    BY <1>12 DEF ConsumeNotifyData, connVars, MappedWatched, MapInv,
       TypeOK, LifeInv, Open
  <2>. QED
    BY <2>1, <2>2
<1>13. ASSUME TickFlags
       PROVE  MapInv' /\ MappedWatched'
  <2>1. MapInv'
    BY <1>13 DEF TickFlags, Tick, engineVars, MapInv, TypeOK, LifeInv, Open
  <2>2. MappedWatched'
    BY <1>13 DEF TickFlags, Tick, engineVars, MappedWatched, MapInv,
       TypeOK, LifeInv, Open
  <2>. QED
    BY <2>1, <2>2
<1>14. ASSUME MergeSets
       PROVE  MapInv' /\ MappedWatched'
  <2>1. MapInv'
    BY <1>14 DEF MergeSets, connVars, MapInv, TypeOK, LifeInv, Open
  <2>2. MappedWatched'
    BY <1>14 DEF MergeSets, connVars, MappedWatched, MapInv, TypeOK,
       LifeInv, Open
  <2>. QED
    BY <2>1, <2>2
<1>15. ASSUME NEW f \in Fd, Sign(f)
       PROVE  MapInv' /\ MappedWatched'
  <2>1. MapInv'
    BY <1>15 DEF Sign, connVars, engineVars, MapInv, TypeOK, LifeInv, Open
  <2>2. MappedWatched'
    BY <1>15 DEF Sign, connVars, engineVars, MappedWatched, MapInv,
       TypeOK, LifeInv, Open
  <2>. QED
    BY <2>1, <2>2
<1>16. ASSUME NEW c \in Conn, ServeDone(c)
       PROVE  MapInv' /\ MappedWatched'
  <2>1. MapInv'
    BY <1>16 DEF ServeDone, Served, engineVars, MapInv, TypeOK, LifeInv, Open
  <2>2. MappedWatched'
    BY <1>16 DEF ServeDone, Served, engineVars, MappedWatched, MapInv,
       TypeOK, LifeInv, Open
  <2>. QED
    BY <2>1, <2>2
<1>17. ASSUME NEW c \in Conn, ServeBlocks(c)
       PROVE  MapInv' /\ MappedWatched'
  <2>1. MapInv'
    BY <1>17 DEF ServeBlocks, WaitSendEvent, Served, MapInv, TypeOK,
       LifeInv, Open
  <2>2. MappedWatched'
    BY <1>17 DEF ServeBlocks, WaitSendEvent, Served, MappedWatched,
       MapInv, TypeOK, LifeInv, Open
  <2>. QED
    BY <2>1, <2>2
<1>18. ASSUME NEW c \in Conn, ServeCloses(c)
       PROVE  MapInv' /\ MappedWatched'
  <2>1. MapInv'
    BY <1>18 DEF ServeCloses, engineVars, MapInv, TypeOK, LifeInv, Open
  <2>2. MappedWatched'
    BY <1>18 DEF ServeCloses, engineVars, MappedWatched, MapInv, TypeOK,
       LifeInv, Open
  <2>. QED
    BY <2>1, <2>2
<1>19. ASSUME NEW c \in Conn, ServeClosed(c)
       PROVE  MapInv' /\ MappedWatched'
  <2>1. MapInv'
    BY <1>19 DEF ServeClosed, Served, connVars, engineVars, MapInv,
       TypeOK, LifeInv, Open
  <2>2. MappedWatched'
    BY <1>19 DEF ServeClosed, Served, connVars, engineVars, MappedWatched,
       MapInv, TypeOK, LifeInv, Open
  <2>. QED
    BY <2>1, <2>2
<1>20. ASSUME NEW c \in Conn, Reclaim(c)
       PROVE  MapInv' /\ MappedWatched'
  <2>1. MapInv'
    BY <1>20 DEF Reclaim, engineVars, loopVars, MapInv, TypeOK, LifeInv, Open
  <2>2. MappedWatched'
    BY <1>20 DEF Reclaim, engineVars, loopVars, MappedWatched, MapInv,
       TypeOK, LifeInv, Open
  <2>. QED
    BY <2>1, <2>2
<1>21. ASSUME UNCHANGED vars
       PROVE  MapInv' /\ MappedWatched'
  <2>1. MapInv'
    BY <1>21 DEF vars, connVars, engineVars, loopVars, MapInv, TypeOK,
       LifeInv, Open
  <2>2. MappedWatched'
    BY <1>21 DEF vars, connVars, engineVars, loopVars, MappedWatched,
       MapInv, TypeOK, LifeInv, Open
  <2>. QED
    BY <2>1, <2>2
<1>22. ASSUME ClearDropped
       PROVE  MapInv' /\ MappedWatched'
  <2>1. MapInv'
    BY <1>22 DEF ClearDropped, engineVars, MapInv, TypeOK, LifeInv, Open
  <2>2. MappedWatched'
    BY <1>22 DEF ClearDropped, engineVars, MappedWatched, MapInv, TypeOK,
       LifeInv, Open
  <2>. QED
    BY <2>1, <2>2
<1>. QED
  BY <1>1, <1>2, <1>3, <1>4, <1>5, <1>6, <1>7, <1>8, <1>9, <1>10, <1>11,
     <1>12, <1>13, <1>14, <1>15, <1>16, <1>17, <1>18, <1>19, <1>20, <1>21, <1>22, <1>23
  DEF Next, Application, Holder, Closer, Loop, Checker

\* A connection in the map is read from: its descriptor is in the loop's set,
\* or waits in _newSocketSet, or is about to be put there by join().  The order of the merge (quit, then new) and the
\* two erasures, in join() and in quit(), keep a descriptor that is handed out
\* again from leaving the loop with its former connection.
THEOREM MappedStaysWatched == Safety => []MappedWatched
<1>1. Init => MapInv /\ MappedWatched
  BY DEF Init, MapInv, MappedWatched
<1>. QED
  BY <1>1, MapStep, LifeCorrect, PTL DEF Safety

=============================================================================
