------------------------ MODULE QuestCallbacksProofs ------------------------
(***************************************************************************)
(* Proofs about QuestCallbacks, for any quests and connections.            *)
(*                                                                         *)
(* A callback is in one place at a time; every place from which it will    *)
(* be completed holds it uncompleted; and what a closed connection still   *)
(* lists has been completed by the walk.  The reference count of a         *)
(* connection is the number of its users.                                  *)
(***************************************************************************)
EXTENDS QuestCallbacks, FiniteSetTheorems, TLAPS

\* The places from which callback q will be completed.
InMap(q) == \E c \in Conn : conn[c] \in {"mapped", "taken"} /\ q \in cbs[c]
InWalk(q) == \E c \in Conn : q \in todo[c]
Held(q) == InMap(q) \/ InWalk(q) \/ q \in answered \/ q \in timeouted

\* Where a callback can be.
PlaceInv ==
  /\ \A c \in Conn : conn[c] = "new" => cbs[c] = {}
  /\ \A c \in Conn : todo[c] \subseteq cbs[c]
  /\ \A c \in Conn : todo[c] # {} => conn[c] = "clearing"
  /\ \A c \in Conn : cbs[c] \subseteq Quest \cup {c}
  /\ \A c, d \in Conn : \A q \in cbs[c] : q \in cbs[d] => c = d
  /\ \A q \in answered \cup timeouted : \A c \in Conn : q \notin cbs[c]
  /\ \A q \in answered : q \notin timeouted
  /\ \A q \in Fresh : q \notin answered \cup timeouted /\ \A c \in Conn : q \notin cbs[c]
  /\ phase = "ping" => \A c \in marked : c \in Fresh

\* Which callbacks have been completed.
FillInv ==
  /\ \A q \in Callback : fills[q] \in {0, 1} /\ fired[q] \in {0, 1} /\ fired[q] <= fills[q]
  /\ \A q \in Callback : Held(q) => fills[q] = 0
  /\ \A q \in Callback : sent[q] # "accepted" => fills[q] = 0 /\ ~Held(q)
  /\ \A c \in Conn : conn[c] \in {"clearing", "discarded", "freed"} =>
       \A q \in cbs[c] \cap Quest : q \in todo[c] \/ fills[q] = 1

\* Who uses connection c: the loop thread, the timeout thread, and a
\* key-exchange callback.
One(P) == IF P THEN 1 ELSE 0
Users(c) == One(c \in signed) + One(c \in marked) + One(\E q \in Callback : c \in pins[q])

RefInv ==
  /\ \A c \in Conn : refs[c] = Users(c)
  /\ \A q, r \in Callback : \A c \in pins[q] : c \in pins[r] => q = r
  /\ \A q \in Fresh : pins[q] = {}
  /\ \A c, d \in signed : c = d
  /\ phase \notin {"udpSend", "ping"} => marked = {}
  /\ \A c \in Conn : conn[c] \in {"new", "freed"} => refs[c] = 0
  /\ \A c \in Conn : conn[c] \in {"new", "mapped"} => closer[c] = "none"
  /\ \A c \in Conn : conn[c] \in {"taken", "clearing"} /\ closer[c] = "loop" => c \in signed

IInv == TypeOK /\ PlaceInv /\ FillInv /\ RefInv

-----------------------------------------------------------------------------
(* Helpers *)

\* At most one key-exchange callback is joined with a connection.
LEMMA Singles ==
  ASSUME NEW S \in SUBSET Quest, Cardinality(S) <= 1
  PROVE  \/ S = {} /\ Cardinality(S) = 0
         \/ \E q \in Quest : S = {q} /\ Cardinality(S) = 1
<1>1. IsFiniteSet(S) /\ Cardinality(S) \in Nat
  BY QuestAssumption, FS_Subset, FS_CardinalityType
<1>2. CASE S = {}
  BY <1>2, FS_EmptySet
<1>3. CASE S # {}
  <2>1. Cardinality(S) # 0
    BY <1>1, <1>3, FS_EmptySet
  <2>2. Cardinality(S) = 1
    BY <1>1, <2>1
  <2>3. \E q : S = {q}
    BY <1>1, <2>2, FS_Singleton
  <2>. QED
    BY <2>2, <2>3
<1>. QED
  BY <1>2, <1>3

-----------------------------------------------------------------------------
(* Types and references *)

LEMMA RefStep == TypeOK /\ RefInv /\ [Next]_vars => RefInv'
<1>. SUFFICES ASSUME TypeOK, RefInv, [Next]_vars PROVE RefInv'
  OBVIOUS
<1>1. ASSUME NEW c \in Conn, UserClose(c) PROVE RefInv'
  BY <1>1 DEF UserClose, cbVars, loopVars, checkerVars, TakenFromMap, TypeOK, RefInv,
     Fresh, Users, One
<1>2. ASSUME NEW c \in Conn, NEW S \in SUBSET Quest, Join(c, S) PROVE RefInv'
  <2>1. \/ S = {} /\ Cardinality(S) = 0
        \/ \E q \in Quest : S = {q} /\ Cardinality(S) = 1
    BY <1>2, Singles DEF Join
  <2>2. /\ conn[c] = "new" /\ refs[c] = 0 /\ closer[c] = "none"
        /\ conn' = [conn EXCEPT ![c] = "mapped"]
        /\ refs' = [refs EXCEPT ![c] = Cardinality(S)]
        /\ pins' = [q \in Callback |-> IF q \in S THEN {c} ELSE pins[q]]
        /\ sent' = [q \in Callback |-> IF q \in S THEN "accepted" ELSE sent[q]]
        /\ UNCHANGED <<closer, signed, phase, marked>>
        /\ S \subseteq Callback
    BY <1>2 DEF Join, RefInv, loopVars, checkerVars, Callback
  <2>3. c \notin signed /\ c \notin marked /\ \A q \in Callback : c \notin pins[q]
    BY <2>2 DEF RefInv, Users, One
  <2>4. \A q \in S : pins[q] = {}
    BY <1>2 DEF Join, Fresh, RefInv
  <2>5. ASSUME NEW d \in Conn PROVE refs'[d] = Users(d)'
    <3>1. CASE d = c
      <4>1. refs'[c] = One(\E q \in Callback : c \in pins'[q])
        BY <2>1, <2>2, <2>3 DEF TypeOK, One
      <4>. QED
        BY <2>1, <2>2, <2>3, <3>1, <4>1 DEF Users, One
    <3>2. CASE d # c
      <4>1. \A q \in Callback : d \in pins'[q] <=> d \in pins[q]
        BY <2>2, <2>4, <3>2
      <4>. QED
        BY <2>2, <3>2, <4>1 DEF TypeOK, RefInv, Users, One
    <3>. QED
      BY <3>1, <3>2
  <2>6. \A q, r \in Callback : \A d \in pins'[q] : d \in pins'[r] => q = r
    BY <2>1, <2>2, <2>3, <2>4 DEF RefInv
  <2>7. \A q \in Fresh' : pins'[q] = {}
    BY <2>2 DEF Fresh, RefInv
  <2>. QED
    BY <2>2, <2>5, <2>6, <2>7 DEF TypeOK, RefInv
<1>3. ASSUME NEW q \in Quest, NEW c \in Conn, SendQuest(q, c) PROVE RefInv'
  BY <1>3 DEF SendQuest, loopVars, checkerVars, Fresh, TypeOK, RefInv, Users, One
<1>4. ASSUME NEW q \in Quest, SyncReturn(q) PROVE RefInv'
  BY <1>4 DEF SyncReturn, connVars, loopVars, checkerVars, TypeOK, RefInv, Fresh,
     Users, One
<1>5. ASSUME NEW q \in Callback, RunTask(q) PROVE RefInv'
  BY <1>5 DEF RunTask, loopVars, checkerVars, DropRefs, Fresh, TypeOK, RefInv, Users,
     One
<1>6. ASSUME NEW c \in Conn, BeginClear(c) PROVE RefInv'
  BY <1>6 DEF BeginClear, cbVars, loopVars, checkerVars, TypeOK, RefInv, Fresh,
     Users, One
<1>7. ASSUME NEW c \in Conn, NEW q \in Callback, ClearOne(c, q) PROVE RefInv'
  BY <1>7 DEF ClearOne, loopVars, checkerVars, TypeOK, RefInv, Fresh, Users, One
<1>8. ASSUME NEW c \in Conn, Discard(c) PROVE RefInv'
  BY <1>8 DEF Discard, cbVars, checkerVars, DropRefs, TypeOK, RefInv, Fresh, Users, One
<1>9. ASSUME NEW c \in Conn, SignConnection(c) PROVE RefInv'
  BY <1>9 DEF SignConnection, cbVars, checkerVars, AddRefs, TypeOK, RefInv, Fresh,
     Users, One
<1>10. ASSUME NEW c \in Conn, LeaveIO(c) PROVE RefInv'
  BY <1>10 DEF LeaveIO, cbVars, checkerVars, DropRefs, Reading, TypeOK, RefInv,
     Fresh, Users, One
<1>11. ASSUME NEW c \in Conn, LoopClose(c) PROVE RefInv'
  BY <1>11 DEF LoopClose, cbVars, checkerVars, DropRefs, TakenFromMap, Reading,
     TypeOK, RefInv, Fresh, Users, One
<1>12. ASSUME NEW c \in Conn, NEW q \in Callback, TakeCallback(c, q) PROVE RefInv'
  BY <1>12 DEF TakeCallback, cbVars, checkerVars, Reading, TypeOK, RefInv, Fresh,
     Users, One
<1>13. ASSUME NEW q \in Callback, DealAnswer(q) PROVE RefInv'
  BY <1>13 DEF DealAnswer, connVars, checkerVars, TypeOK, RefInv, Fresh, Users, One
<1>14. ASSUME NEW L \in SUBSET Conn, UdpCheck(L) PROVE RefInv'
  BY <1>14 DEF UdpCheck, cbVars, loopVars, AddRefs, TakenFromMap, Mapped, TypeOK,
     RefInv, Fresh, Users, One
<1>15. ASSUME UdpSend PROVE RefInv'
  BY <1>15 DEF UdpSend, cbVars, loopVars, DropRefs, TypeOK, RefInv, Fresh, Users, One
<1>16. ASSUME UdpClosed PROVE RefInv'
  BY <1>16 DEF UdpClosed, connVars, cbVars, loopVars, TypeOK, RefInv, Fresh, Users, One
<1>17. ASSUME NEW L \in SUBSET Conn, NEW P \in SUBSET Conn, KeepAliveCheck(L, P)
       PROVE  RefInv'
  BY <1>17 DEF KeepAliveCheck, cbVars, loopVars, AddRefs, TakenFromMap, Mapped,
     Fresh, TcpConn, TypeOK, RefInv, Users, One
<1>18. ASSUME SendPings PROVE RefInv'
  BY <1>18 DEF SendPings, loopVars, DropRefs, Callback, Fresh, TypeOK, RefInv, Users,
     One
<1>19. ASSUME NEW E \in SUBSET Callback, ExtractTimeouted(E) PROVE RefInv'
  BY <1>19 DEF ExtractTimeouted, cbVars, loopVars, TypeOK, RefInv, Fresh, Users, One
<1>20. ASSUME NEW q \in Callback, FillTimeouted(q) PROVE RefInv'
  BY <1>20 DEF FillTimeouted, connVars, loopVars, TypeOK, RefInv, Fresh, Users, One
<1>21. ASSUME NEW D \in SUBSET Conn, Reclaim(D) PROVE RefInv'
  BY <1>21 DEF Reclaim, cbVars, loopVars, TypeOK, RefInv, Fresh, Users, One
<1>22. CASE UNCHANGED vars
  BY <1>22 DEF vars, connVars, cbVars, loopVars, checkerVars, TypeOK, RefInv, Fresh,
     Users, One
<1>. QED
  BY <1>1, <1>2, <1>3, <1>4, <1>5, <1>6, <1>7, <1>8, <1>9, <1>10, <1>11,
     <1>12, <1>13, <1>14, <1>15, <1>16, <1>17, <1>18, <1>19, <1>20, <1>21, <1>22
     DEF Next, User, Pool, Closer, Loop, Checker

LEMMA TypeStep == TypeOK /\ RefInv /\ [Next]_vars => TypeOK'
<1>. SUFFICES ASSUME TypeOK, RefInv, [Next]_vars PROVE TypeOK'
  OBVIOUS
<1>1. ASSUME NEW c \in Conn, UserClose(c) PROVE TypeOK'
  BY <1>1 DEF UserClose, cbVars, loopVars, checkerVars, TakenFromMap, Stage, Thread,
     TypeOK
<1>2. ASSUME NEW c \in Conn, NEW S \in SUBSET Quest, Join(c, S) PROVE TypeOK'
  BY <1>2, Singles DEF Join, loopVars, checkerVars, Callback, Stage, TypeOK
<1>3. ASSUME NEW q \in Quest, NEW c \in Conn, SendQuest(q, c) PROVE TypeOK'
  BY <1>3 DEF SendQuest, loopVars, checkerVars, Callback, TypeOK
<1>4. ASSUME NEW q \in Quest, SyncReturn(q) PROVE TypeOK'
  BY <1>4 DEF SyncReturn, connVars, loopVars, checkerVars, TypeOK
<1>5. ASSUME NEW q \in Callback, RunTask(q) PROVE TypeOK'
  BY <1>5 DEF RunTask, loopVars, checkerVars, DropRefs, RefInv, Users, One, TypeOK
<1>6. ASSUME NEW c \in Conn, BeginClear(c) PROVE TypeOK'
  BY <1>6 DEF BeginClear, cbVars, loopVars, checkerVars, Stage, TypeOK
<1>7. ASSUME NEW c \in Conn, NEW q \in Callback, ClearOne(c, q) PROVE TypeOK'
  BY <1>7 DEF ClearOne, loopVars, checkerVars, FillResult, TypeOK
<1>8. ASSUME NEW c \in Conn, Discard(c) PROVE TypeOK'
  BY <1>8 DEF Discard, cbVars, checkerVars, DropRefs, RefInv, Users, One, Stage, TypeOK
<1>9. ASSUME NEW c \in Conn, SignConnection(c) PROVE TypeOK'
  BY <1>9 DEF SignConnection, cbVars, checkerVars, AddRefs, TypeOK
<1>10. ASSUME NEW c \in Conn, LeaveIO(c) PROVE TypeOK'
  BY <1>10 DEF LeaveIO, cbVars, checkerVars, DropRefs, Reading, RefInv, Users, One,
     TypeOK
<1>11. ASSUME NEW c \in Conn, LoopClose(c) PROVE TypeOK'
  BY <1>11 DEF LoopClose, cbVars, checkerVars, DropRefs, TakenFromMap, Reading,
     RefInv, Users, One, Stage, Thread, TypeOK
<1>12. ASSUME NEW c \in Conn, NEW q \in Callback, TakeCallback(c, q) PROVE TypeOK'
  BY <1>12 DEF TakeCallback, cbVars, checkerVars, Reading, TypeOK
<1>13. ASSUME NEW q \in Callback, DealAnswer(q) PROVE TypeOK'
  BY <1>13 DEF DealAnswer, connVars, checkerVars, FillResult, TypeOK
<1>14. ASSUME NEW L \in SUBSET Conn, UdpCheck(L) PROVE TypeOK'
  BY <1>14 DEF UdpCheck, cbVars, loopVars, AddRefs, TakenFromMap, Mapped, Phase,
     Stage, Thread, TypeOK
<1>15. ASSUME UdpSend PROVE TypeOK'
  BY <1>15 DEF UdpSend, cbVars, loopVars, DropRefs, RefInv, Users, One, Phase, TypeOK
<1>16. ASSUME UdpClosed PROVE TypeOK'
  BY <1>16 DEF UdpClosed, connVars, cbVars, loopVars, Phase, TypeOK
<1>17. ASSUME NEW L \in SUBSET Conn, NEW P \in SUBSET Conn, KeepAliveCheck(L, P)
       PROVE  TypeOK'
  BY <1>17 DEF KeepAliveCheck, cbVars, loopVars, AddRefs, TakenFromMap, Mapped,
     Phase, Stage, Thread, TypeOK
<1>18. ASSUME SendPings PROVE TypeOK'
  <2>1. PICK seen \in SUBSET {c \in marked : conn[c] = "clearing"} :
          todo' = [c \in Conn |-> IF c \in seen THEN todo[c] \cup {c} ELSE todo[c]]
    BY <1>18 DEF SendPings
  <2>2. /\ cbs' = [c \in Conn |-> IF c \in marked THEN cbs[c] \cup {c} ELSE cbs[c]]
        /\ sent' = [q \in Callback |-> IF q \in marked THEN "accepted" ELSE sent[q]]
        /\ phase = "ping" /\ phase' = "close" /\ marked' = {}
        /\ UNCHANGED <<conn, closer, pins, fills, fired, answered, signed, timeouted>>
    BY <1>18 DEF SendPings, loopVars
  <2>3. refs' \in [Conn -> Nat]
    BY <1>18 DEF SendPings, DropRefs, TypeOK, RefInv, Users, One
  <2>. QED
    BY <2>1, <2>2, <2>3 DEF TypeOK, Phase, Callback
<1>19. ASSUME NEW E \in SUBSET Callback, ExtractTimeouted(E) PROVE TypeOK'
  BY <1>19 DEF ExtractTimeouted, cbVars, loopVars, Outstanding, Mapped, Phase, TypeOK
<1>20. ASSUME NEW q \in Callback, FillTimeouted(q) PROVE TypeOK'
  BY <1>20 DEF FillTimeouted, connVars, loopVars, FillResult, TypeOK
<1>21. ASSUME NEW D \in SUBSET Conn, Reclaim(D) PROVE TypeOK'
  BY <1>21 DEF Reclaim, cbVars, loopVars, Phase, Stage, TypeOK
<1>22. CASE UNCHANGED vars
  BY <1>22 DEF vars, connVars, cbVars, loopVars, checkerVars, TypeOK
<1>. QED
  BY <1>1, <1>2, <1>3, <1>4, <1>5, <1>6, <1>7, <1>8, <1>9, <1>10, <1>11,
     <1>12, <1>13, <1>14, <1>15, <1>16, <1>17, <1>18, <1>19, <1>20, <1>21, <1>22
     DEF Next, User, Pool, Closer, Loop, Checker

-----------------------------------------------------------------------------
(* Places *)

LEMMA PlaceStep == TypeOK /\ RefInv /\ PlaceInv /\ [Next]_vars => PlaceInv'
<1>. SUFFICES ASSUME TypeOK, RefInv, PlaceInv, [Next]_vars PROVE PlaceInv'
  OBVIOUS
<1>1. ASSUME NEW c \in Conn, UserClose(c) PROVE PlaceInv'
  BY <1>1 DEF UserClose, cbVars, loopVars, checkerVars, TakenFromMap, TypeOK,
     PlaceInv, Fresh
<1>2. ASSUME NEW c \in Conn, NEW S \in SUBSET Quest, Join(c, S) PROVE PlaceInv'
  <2>1. /\ conn[c] = "new" /\ conn' = [conn EXCEPT ![c] = "mapped"]
        /\ cbs' = [cbs EXCEPT ![c] = S]
        /\ sent' = [q \in Callback |-> IF q \in S THEN "accepted" ELSE sent[q]]
        /\ S \subseteq Quest /\ \A q \in S : q \in Fresh
        /\ UNCHANGED <<todo, answered, timeouted, phase, marked>>
    BY <1>2 DEF Join, loopVars, checkerVars
  <2>2. /\ \A d \in Conn : cbs'[d] = IF d = c THEN S ELSE cbs[d]
        /\ \A d \in Conn : conn'[d] = IF d = c THEN "mapped" ELSE conn[d]
    BY <2>1 DEF TypeOK
  <2>3. \A q \in S : q \notin answered \cup timeouted /\ \A d \in Conn : q \notin cbs[d]
    BY <2>1 DEF PlaceInv
  <2>4. \A q \in Fresh' : q \in Fresh /\ q \notin S
    BY <2>1 DEF Fresh
  <2>5. todo[c] = {}
    BY <2>1 DEF PlaceInv
  <2>6. \A d \in marked : phase = "ping" => d \in Fresh'
    BY <2>1, DisjointAssumption DEF PlaceInv, TypeOK, Fresh, Callback
  <2>. QED
    BY <2>1, <2>2, <2>3, <2>4, <2>5, <2>6 DEF PlaceInv
<1>3. ASSUME NEW q \in Quest, NEW c \in Conn, SendQuest(q, c) PROVE PlaceInv'
  <2>1. /\ q \in Fresh /\ conn[c] # "new"
        /\ \/ cbs' = cbs
           \/ cbs' = [cbs EXCEPT ![c] = @ \cup {q}] /\ conn[c] = "mapped" /\ sent'[q] = "accepted"
        /\ \A r \in Callback : r # q => sent'[r] = sent[r]
        /\ sent'[q] # "idle"
        /\ UNCHANGED <<conn, todo, answered, timeouted, phase, marked>>
    BY <1>3 DEF SendQuest, TypeOK, Fresh, Callback, loopVars, checkerVars
  <2>2. q \notin answered \cup timeouted /\ \A d \in Conn : q \notin cbs[d]
    BY <2>1 DEF PlaceInv
  <2>3. /\ \A d \in Conn : cbs[d] \subseteq cbs'[d] /\ cbs'[d] \subseteq cbs[d] \cup {q}
        /\ \A d \in Conn : q \in cbs'[d] => d = c
    BY <2>1, <2>2 DEF TypeOK
  <2>4. \A r \in Fresh' : r \in Fresh /\ r # q
    BY <2>1 DEF Fresh
  <2>5. \A d \in marked : phase = "ping" => d \in Fresh'
    BY <2>1, DisjointAssumption DEF PlaceInv, TypeOK, Fresh, Callback
  <2>6. \A d \in Conn : conn'[d] = "new" => cbs'[d] = {}
    BY <2>1 DEF PlaceInv, TypeOK
  <2>. QED
    BY <2>1, <2>2, <2>3, <2>4, <2>5, <2>6 DEF PlaceInv
<1>4. ASSUME NEW q \in Quest, SyncReturn(q) PROVE PlaceInv'
  BY <1>4 DEF SyncReturn, connVars, loopVars, checkerVars, TypeOK, PlaceInv, Fresh
<1>5. ASSUME NEW q \in Callback, RunTask(q) PROVE PlaceInv'
  BY <1>5 DEF RunTask, loopVars, checkerVars, TypeOK, PlaceInv, Fresh
<1>6. ASSUME NEW c \in Conn, BeginClear(c) PROVE PlaceInv'
  BY <1>6 DEF BeginClear, cbVars, loopVars, checkerVars, TypeOK, PlaceInv, Fresh
<1>7. ASSUME NEW c \in Conn, NEW q \in Callback, ClearOne(c, q) PROVE PlaceInv'
  BY <1>7 DEF ClearOne, loopVars, checkerVars, TypeOK, PlaceInv, Fresh
<1>8. ASSUME NEW c \in Conn, Discard(c) PROVE PlaceInv'
  BY <1>8 DEF Discard, cbVars, checkerVars, TypeOK, PlaceInv, Fresh
<1>9. ASSUME NEW c \in Conn, SignConnection(c) PROVE PlaceInv'
  BY <1>9 DEF SignConnection, cbVars, checkerVars, TypeOK, PlaceInv, Fresh
<1>10. ASSUME NEW c \in Conn, LeaveIO(c) PROVE PlaceInv'
  BY <1>10 DEF LeaveIO, cbVars, checkerVars, Reading, TypeOK, PlaceInv, Fresh
<1>11. ASSUME NEW c \in Conn, LoopClose(c) PROVE PlaceInv'
  BY <1>11 DEF LoopClose, cbVars, checkerVars, TakenFromMap, Reading, TypeOK,
     PlaceInv, Fresh
<1>12. ASSUME NEW c \in Conn, NEW q \in Callback, TakeCallback(c, q) PROVE PlaceInv'
  BY <1>12 DEF TakeCallback, cbVars, checkerVars, Reading, TypeOK, PlaceInv, Fresh
<1>13. ASSUME NEW q \in Callback, DealAnswer(q) PROVE PlaceInv'
  BY <1>13 DEF DealAnswer, connVars, checkerVars, TypeOK, PlaceInv, Fresh
<1>14. ASSUME NEW L \in SUBSET Conn, UdpCheck(L) PROVE PlaceInv'
  BY <1>14 DEF UdpCheck, cbVars, loopVars, TakenFromMap, Mapped, TypeOK, PlaceInv, Fresh
<1>15. ASSUME UdpSend PROVE PlaceInv'
  BY <1>15 DEF UdpSend, cbVars, loopVars, TypeOK, PlaceInv, Fresh
<1>16. ASSUME UdpClosed PROVE PlaceInv'
  BY <1>16 DEF UdpClosed, connVars, cbVars, loopVars, TypeOK, PlaceInv, Fresh
<1>17. ASSUME NEW L \in SUBSET Conn, NEW P \in SUBSET Conn, KeepAliveCheck(L, P)
       PROVE  PlaceInv'
  BY <1>17 DEF KeepAliveCheck, cbVars, loopVars, TakenFromMap, Mapped, Fresh,
     TcpConn, TypeOK, PlaceInv
<1>18. ASSUME SendPings PROVE PlaceInv'
  <2>1. PICK seen \in SUBSET {c \in marked : conn[c] = "clearing"} :
          todo' = [c \in Conn |-> IF c \in seen THEN todo[c] \cup {c} ELSE todo[c]]
    BY <1>18 DEF SendPings
  <2>2. /\ cbs' = [c \in Conn |-> IF c \in marked THEN cbs[c] \cup {c} ELSE cbs[c]]
        /\ sent' = [q \in Callback |-> IF q \in marked THEN "accepted" ELSE sent[q]]
        /\ phase = "ping" /\ phase' = "close" /\ marked' = {}
        /\ UNCHANGED <<conn, closer, pins, fills, fired, answered, signed, timeouted>>
    BY <1>18 DEF SendPings, loopVars
  <2>3. \A c \in marked : c \in Conn /\ c \in Fresh
    BY <2>2 DEF PlaceInv, TypeOK
  <2>4. \A c \in marked : c \notin answered \cup timeouted /\ \A d \in Conn : c \notin cbs[d]
    BY <2>3 DEF PlaceInv
  <2>5. \A c \in marked : conn[c] # "new"
    BY <2>3 DEF RefInv, Users, One
  <2>6. \A c \in Conn : \A q \in cbs'[c] : q \in cbs[c] \/ (q = c /\ c \in marked)
    BY <2>2
  <2>7. \A c, d \in Conn : \A q \in cbs'[c] : q \in cbs'[d] => c = d
    BY <2>4, <2>6 DEF PlaceInv
  <2>8. \A q \in Fresh' : q \in Fresh /\ q \notin marked
    BY <2>2 DEF Fresh
  <2>9. \A c \in Conn : todo'[c] \subseteq cbs'[c] /\ (todo'[c] # {} => conn[c] = "clearing")
    BY <2>1, <2>2 DEF PlaceInv
  <2>. QED
    BY <2>2, <2>4, <2>5, <2>6, <2>7, <2>8, <2>9 DEF PlaceInv
<1>19. ASSUME NEW E \in SUBSET Callback, ExtractTimeouted(E) PROVE PlaceInv'
  BY <1>19 DEF ExtractTimeouted, cbVars, loopVars, Outstanding, Mapped, TypeOK,
     PlaceInv, Fresh
<1>20. ASSUME NEW q \in Callback, FillTimeouted(q) PROVE PlaceInv'
  BY <1>20 DEF FillTimeouted, connVars, loopVars, TypeOK, PlaceInv, Fresh
<1>21. ASSUME NEW D \in SUBSET Conn, Reclaim(D) PROVE PlaceInv'
  BY <1>21 DEF Reclaim, cbVars, loopVars, TypeOK, PlaceInv, Fresh
<1>22. CASE UNCHANGED vars
  BY <1>22 DEF vars, connVars, cbVars, loopVars, checkerVars, TypeOK, PlaceInv, Fresh
<1>. QED
  BY <1>1, <1>2, <1>3, <1>4, <1>5, <1>6, <1>7, <1>8, <1>9, <1>10, <1>11,
     <1>12, <1>13, <1>14, <1>15, <1>16, <1>17, <1>18, <1>19, <1>20, <1>21, <1>22
     DEF Next, User, Pool, Closer, Loop, Checker

LEMMA FillStep == TypeOK /\ PlaceInv /\ FillInv /\ [Next]_vars => FillInv'
<1>. SUFFICES ASSUME TypeOK, PlaceInv, FillInv, [Next]_vars PROVE FillInv'
  OBVIOUS
<1>1. ASSUME NEW c \in Conn, UserClose(c) PROVE FillInv'
  BY <1>1 DEF UserClose, cbVars, loopVars, checkerVars, TakenFromMap, TypeOK,
     PlaceInv, FillInv, InMap, InWalk, Held
<1>2. ASSUME NEW c \in Conn, NEW S \in SUBSET Quest, Join(c, S) PROVE FillInv'
  BY <1>2 DEF Join, loopVars, checkerVars, Fresh, Callback, TypeOK, PlaceInv,
     FillInv, InMap, InWalk, Held
<1>3. ASSUME NEW q \in Quest, NEW c \in Conn, SendQuest(q, c) PROVE FillInv'
  <2>1. /\ sent[q] = "idle" /\ q \in Callback
        /\ \/ cbs' = cbs
           \/ /\ conn[c] = "mapped" /\ sent'[q] = "accepted"
              /\ cbs' = [cbs EXCEPT ![c] = @ \cup {q}]
        /\ \A r \in Callback : r # q => sent'[r] = sent[r]
        /\ UNCHANGED <<conn, todo, fills, fired, answered, timeouted>>
    BY <1>3 DEF SendQuest, TypeOK, Callback, loopVars, checkerVars
  <2>2. fills[q] = 0 /\ ~Held(q)
    BY <2>1 DEF FillInv
  <2>3. /\ \A d \in Conn : cbs'[d] \subseteq cbs[d] \cup {q}
        /\ \A d \in Conn : conn[d] # "mapped" => cbs'[d] = cbs[d]
    BY <2>1 DEF TypeOK
  <2>4. \A r \in Callback : Held(r)' => Held(r) \/ (r = q /\ sent'[q] = "accepted")
    BY <2>1, <2>2, <2>3 DEF Held, InMap, InWalk
  <2>5. \A d \in Conn : conn'[d] \in {"clearing", "discarded", "freed"} => cbs'[d] = cbs[d]
    BY <2>1, <2>3
  <2>. QED
    BY <2>1, <2>2, <2>4, <2>5 DEF FillInv
<1>4. ASSUME NEW q \in Quest, SyncReturn(q) PROVE FillInv'
  BY <1>4 DEF SyncReturn, connVars, loopVars, checkerVars, TypeOK, PlaceInv, FillInv,
     InMap, InWalk, Held
<1>5. ASSUME NEW q \in Callback, RunTask(q) PROVE FillInv'
  BY <1>5 DEF RunTask, loopVars, checkerVars, TypeOK, PlaceInv, FillInv, InMap,
     InWalk, Held
<1>6. ASSUME NEW c \in Conn, BeginClear(c) PROVE FillInv'
  BY <1>6 DEF BeginClear, cbVars, loopVars, checkerVars, TypeOK, PlaceInv, FillInv,
     InMap, InWalk, Held
<1>7. ASSUME NEW c \in Conn, NEW q \in Callback, ClearOne(c, q) PROVE FillInv'
  BY <1>7 DEF ClearOne, loopVars, checkerVars, FillResult, TypeOK, PlaceInv, FillInv,
     InMap, InWalk, Held
<1>8. ASSUME NEW c \in Conn, Discard(c) PROVE FillInv'
  BY <1>8 DEF Discard, cbVars, checkerVars, TypeOK, PlaceInv, FillInv, InMap, InWalk,
     Held
<1>9. ASSUME NEW c \in Conn, SignConnection(c) PROVE FillInv'
  BY <1>9 DEF SignConnection, cbVars, checkerVars, TypeOK, PlaceInv, FillInv, InMap,
     InWalk, Held
<1>10. ASSUME NEW c \in Conn, LeaveIO(c) PROVE FillInv'
  BY <1>10 DEF LeaveIO, cbVars, checkerVars, Reading, TypeOK, PlaceInv, FillInv,
     InMap, InWalk, Held
<1>11. ASSUME NEW c \in Conn, LoopClose(c) PROVE FillInv'
  BY <1>11 DEF LoopClose, cbVars, checkerVars, TakenFromMap, Reading, TypeOK,
     PlaceInv, FillInv, InMap, InWalk, Held
<1>12. ASSUME NEW c \in Conn, NEW q \in Callback, TakeCallback(c, q) PROVE FillInv'
  BY <1>12 DEF TakeCallback, cbVars, checkerVars, Reading, TypeOK, PlaceInv, FillInv,
     InMap, InWalk, Held
<1>13. ASSUME NEW q \in Callback, DealAnswer(q) PROVE FillInv'
  BY <1>13 DEF DealAnswer, connVars, checkerVars, FillResult, TypeOK, PlaceInv,
     FillInv, InMap, InWalk, Held
<1>14. ASSUME NEW L \in SUBSET Conn, UdpCheck(L) PROVE FillInv'
  BY <1>14 DEF UdpCheck, cbVars, loopVars, TakenFromMap, Mapped, TypeOK, PlaceInv,
     FillInv, InMap, InWalk, Held
<1>15. ASSUME UdpSend PROVE FillInv'
  BY <1>15 DEF UdpSend, cbVars, loopVars, TypeOK, PlaceInv, FillInv, InMap, InWalk, Held
<1>16. ASSUME UdpClosed PROVE FillInv'
  BY <1>16 DEF UdpClosed, connVars, cbVars, loopVars, TypeOK, PlaceInv, FillInv,
     InMap, InWalk, Held
<1>17. ASSUME NEW L \in SUBSET Conn, NEW P \in SUBSET Conn, KeepAliveCheck(L, P)
       PROVE  FillInv'
  BY <1>17 DEF KeepAliveCheck, cbVars, loopVars, TakenFromMap, Mapped, Fresh,
     TcpConn, TypeOK, PlaceInv, FillInv, InMap, InWalk, Held
<1>18. ASSUME SendPings PROVE FillInv'
  <2>1. PICK seen \in SUBSET {c \in marked : conn[c] = "clearing"} :
          todo' = [c \in Conn |-> IF c \in seen THEN todo[c] \cup {c} ELSE todo[c]]
    BY <1>18 DEF SendPings
  <2>2. /\ cbs' = [c \in Conn |-> IF c \in marked THEN cbs[c] \cup {c} ELSE cbs[c]]
        /\ sent' = [q \in Callback |-> IF q \in marked THEN "accepted" ELSE sent[q]]
        /\ phase = "ping" /\ phase' = "close" /\ marked' = {}
        /\ UNCHANGED <<conn, closer, pins, fills, fired, answered, signed, timeouted>>
    BY <1>18 DEF SendPings, loopVars
  <2>3. \A c \in marked : c \in Conn /\ sent[c] = "idle" /\ fills[c] = 0
    BY <2>2 DEF PlaceInv, FillInv, TypeOK, Fresh, Callback
  <2>4. /\ \A c \in Conn : \A q \in cbs'[c] : q \in cbs[c] \/ q \in marked
        /\ \A c \in Conn : \A q \in todo'[c] : q \in todo[c] \/ q \in marked
        /\ \A c \in Conn : todo[c] \subseteq todo'[c]
    BY <2>1, <2>2
  <2>5. \A q \in Callback : Held(q)' => Held(q) \/ q \in marked
    BY <2>2, <2>4 DEF Held, InMap, InWalk
  <2>6. \A q \in Callback : sent'[q] # "accepted" => sent[q] # "accepted" /\ q \notin marked
    BY <2>2
  <2>7. \A c \in Conn : \A q \in cbs'[c] \cap Quest : q \in cbs[c]
    BY <2>3, <2>4, DisjointAssumption
  <2>. QED
    BY <2>2, <2>3, <2>4, <2>5, <2>6, <2>7 DEF FillInv
<1>19. ASSUME NEW E \in SUBSET Callback, ExtractTimeouted(E) PROVE FillInv'
  BY <1>19 DEF ExtractTimeouted, cbVars, loopVars, Outstanding, Mapped, TypeOK,
     PlaceInv, FillInv, InMap, InWalk, Held
<1>20. ASSUME NEW q \in Callback, FillTimeouted(q) PROVE FillInv'
  BY <1>20 DEF FillTimeouted, connVars, loopVars, FillResult, TypeOK, PlaceInv,
     FillInv, InMap, InWalk, Held
<1>21. ASSUME NEW D \in SUBSET Conn, Reclaim(D) PROVE FillInv'
  BY <1>21 DEF Reclaim, cbVars, loopVars, TypeOK, PlaceInv, FillInv, InMap, InWalk, Held
<1>22. CASE UNCHANGED vars
  BY <1>22 DEF vars, connVars, cbVars, loopVars, checkerVars, TypeOK, PlaceInv,
     FillInv, InMap, InWalk, Held
<1>. QED
  BY <1>1, <1>2, <1>3, <1>4, <1>5, <1>6, <1>7, <1>8, <1>9, <1>10, <1>11,
     <1>12, <1>13, <1>14, <1>15, <1>16, <1>17, <1>18, <1>19, <1>20, <1>21, <1>22
     DEF Next, User, Pool, Closer, Loop, Checker

-----------------------------------------------------------------------------
(* The invariant and what follows from it *)

LEMMA InvInit == Init => IInv
<1>. SUFFICES ASSUME Init PROVE IInv
  OBVIOUS
<1>1. TypeOK
  BY DEF Init, TypeOK, Stage, Thread, Phase
<1>2. PlaceInv
  BY DEF Init, PlaceInv
<1>3. FillInv
  BY DEF Init, FillInv, Held, InMap, InWalk
<1>4. RefInv
  <2>1. \A c \in Conn : refs[c] = 0 /\ Users(c) = 0
    BY DEF Init, Users, One
  <2>2. /\ \A q \in Callback : pins[q] = {}
        /\ \A c \in Conn : closer[c] = "none"
        /\ signed = {} /\ marked = {}
    BY DEF Init
  <2>3. \A q \in Fresh : q \in Callback
    BY DEF Fresh
  <2>. QED
    BY <2>1, <2>2, <2>3 DEF RefInv
<1>. QED
  BY <1>1, <1>2, <1>3, <1>4 DEF IInv

LEMMA Invariant == Safety => []IInv
<1>1. IInv /\ [Next]_vars => IInv'
  BY TypeStep, RefStep, PlaceStep, FillStep DEF IInv
<1>. QED
  BY InvInit, <1>1, PTL DEF Safety

\* The variables keep their types: no reference is given back twice.
THEOREM TypeCorrect == Safety => []TypeOK
<1>1. IInv => TypeOK
  BY DEF IInv
<1>. QED
  BY <1>1, Invariant, PTL

\* A callback is completed at most once, and never if it was refused.
THEOREM CompletedAtMostOnce == Safety => []AtMostOnce
<1>1. IInv => AtMostOnce
  BY DEF IInv, FillInv, AtMostOnce
<1>. QED
  BY <1>1, Invariant, PTL

\* Whoever holds a callback holds it alone, and uncompleted.
THEOREM OneOwner == Safety => []SingleOwner
<1>1. IInv => SingleOwner
  <2>. SUFFICES ASSUME IInv, NEW q \in Callback
                PROVE  /\ \A x, y \in Owners(q) : x = y
                       /\ Owners(q) # {} => fills[q] = 0
    BY DEF SingleOwner
  <2>1. PlaceInv /\ FillInv
    BY DEF IInv
  <2>2. \A x \in Owners(q) :
          \/ \E c \in Conn : x = <<"map", c>> /\ conn[c] \in {"mapped", "taken"} /\ q \in cbs[c]
          \/ \E c \in Conn : x = <<"walk", c>> /\ q \in todo[c]
          \/ x = <<"loop">> /\ q \in answered
          \/ x = <<"checker">> /\ q \in timeouted
    BY DEF Owners
  <2>3. \A c \in Conn : q \in todo[c] => q \in cbs[c] /\ conn[c] = "clearing"
    BY <2>1 DEF PlaceInv
  <2>4. \A c, d \in Conn : q \in cbs[c] /\ q \in cbs[d] => c = d
    BY <2>1 DEF PlaceInv
  <2>5. q \in answered \/ q \in timeouted => \A c \in Conn : q \notin cbs[c]
    BY <2>1 DEF PlaceInv
  <2>6. ~(q \in answered /\ q \in timeouted)
    BY <2>1 DEF PlaceInv
  <2>7. ASSUME NEW x \in Owners(q), NEW y \in Owners(q) PROVE x = y
    BY <2>2, <2>3, <2>4, <2>5, <2>6
  <2>8. Owners(q) # {} => Held(q)
    BY <2>2 DEF Held, InMap, InWalk
  <2>. QED
    BY <2>1, <2>7, <2>8 DEF FillInv
<1>. QED
  BY <1>1, Invariant, PTL

\* No quest is lost with its connection.
THEOREM QuestsAreNotLost == Safety => []NoLostQuest
<1>1. IInv => NoLostQuest
  BY DEF IInv, PlaceInv, FillInv, NoLostQuest
<1>. QED
  BY <1>1, Invariant, PTL

\* A signed connection is not destroyed.
THEOREM SignedStaysAlive == Safety => []SignedAlive
<1>1. IInv => SignedAlive
  BY DEF IInv, TypeOK, RefInv, Users, One, SignedAlive
<1>. QED
  BY <1>1, Invariant, PTL

-----------------------------------------------------------------------------
(* Refinement of QuestContract *)

Status == [q \in Quest |-> IF fired[q] > 0 THEN "completed" ELSE sent[q]]

\* A step that neither sends nor completes a quest.
LEMMA ContractStutter ==
  ASSUME UNCHANGED <<sent, fired>>
  PROVE  Status' = Status
BY DEF Status

\* A step that changes the status of one quest.
LEMMA StatusOf ==
  ASSUME NEW q \in Quest, NEW v,
         \A r \in Quest : r # q => sent'[r] = sent[r] /\ fired'[r] = fired[r],
         v = IF fired'[q] > 0 THEN "completed" ELSE sent'[q]
  PROVE  Status' = [Status EXCEPT ![q] = v]
<1>1. \A r \in Quest : Status'[r] = IF r = q THEN v ELSE Status[r]
  BY DEF Status
<1>2. Status' = [r \in Quest |-> Status'[r]] /\ DOMAIN Status = Quest
  BY DEF Status
<1>. QED
  BY <1>1, <1>2

LEMMA ContractStep == IInv /\ [Next]_vars => [Contract!Next]_Status
<1>. SUFFICES ASSUME IInv, [Next]_vars PROVE Contract!Next \/ Status' = Status
  OBVIOUS
<1>types.
      /\ sent \in [Callback -> {"idle", "accepted", "refused"}]
      /\ fired \in [Callback -> Nat] /\ fills \in [Callback -> Nat]
      /\ Quest \subseteq Callback
  BY DEF IInv, TypeOK, Callback
<1>fired.
      \A q \in Callback :
        /\ fired[q] <= fills[q] /\ fills[q] <= 1
        /\ fills[q] > 0 => sent[q] = "accepted"
  BY DEF IInv, FillInv
<1>1. ASSUME NEW c \in Conn, NEW S \in SUBSET Quest, Join(c, S)
      PROVE  Contract!Next \/ Status' = Status
  <2>1. /\ S = {} \/ \E q \in Quest : S = {q}
        /\ \A q \in S : sent[q] = "idle"
        /\ sent' = [q \in Callback |-> IF q \in S THEN "accepted" ELSE sent[q]]
        /\ fired' = fired
    BY <1>1, Singles DEF Join, Fresh
  <2>2. CASE S = {}
    BY <1>types, <2>1, <2>2 DEF Status
  <2>3. ASSUME NEW q \in Quest, S = {q} PROVE Contract!Accept(q)
    <3>1. sent[q] = "idle" /\ fired[q] = 0
      BY <1>types, <1>fired, <2>1, <2>3
    <3>2. Status[q] = "idle"
      BY <3>1 DEF Status
    <3>3. /\ \A r \in Quest : r # q => sent'[r] = sent[r] /\ fired'[r] = fired[r]
          /\ "accepted" = IF fired'[q] > 0 THEN "completed" ELSE sent'[q]
      BY <1>types, <2>1, <2>3, <3>1
    <3>4. Status' = [Status EXCEPT ![q] = "accepted"]
      BY <3>3, StatusOf
    <3>. QED
      BY <3>2, <3>4 DEF Contract!Accept, Status
  <2>. QED
    BY <2>1, <2>2, <2>3 DEF Contract!Next
<1>2. ASSUME NEW q \in Quest, NEW c \in Conn, SendQuest(q, c)
      PROVE  Contract!Next
  <2>1. /\ sent[q] = "idle" /\ fired' = fired
        /\ \/ sent' = [sent EXCEPT ![q] = "accepted"]
           \/ sent' = [sent EXCEPT ![q] = "refused"]
    BY <1>2 DEF SendQuest
  <2>2. fired[q] = 0
    BY <1>types, <1>fired, <2>1
  <2>3. Status[q] = "idle"
    BY <2>1, <2>2 DEF Status
  <2>4. \A r \in Quest : r # q => sent'[r] = sent[r] /\ fired'[r] = fired[r]
    BY <1>types, <2>1
  <2>5. sent'[q] \in {"accepted", "refused"}
        /\ sent'[q] = IF fired'[q] > 0 THEN "completed" ELSE sent'[q]
    BY <1>types, <2>1, <2>2
  <2>6. Status' = [Status EXCEPT ![q] = sent'[q]]
    BY <2>4, <2>5, StatusOf
  <2>. QED
    BY <2>3, <2>5, <2>6 DEF Contract!Next, Contract!Accept, Contract!Refuse, Status
<1>3. ASSUME NEW q \in Callback, RunTask(q) \/ (q \in Quest /\ SyncReturn(q))
      PROVE  Contract!Next \/ Status' = Status
  <2>1. /\ fired[q] < fills[q] /\ fired' = [fired EXCEPT ![q] = 1] /\ sent' = sent
    BY <1>types, <1>fired, <1>3 DEF RunTask, SyncReturn
  <2>2. fired[q] = 0 /\ sent[q] = "accepted"
    BY <1>types, <1>fired, <2>1
  <2>3. CASE q \in Quest
    <3>1. Status[q] = "accepted"
      BY <2>2, <2>3 DEF Status
    <3>2. /\ \A r \in Quest : r # q => sent'[r] = sent[r] /\ fired'[r] = fired[r]
          /\ "completed" = IF fired'[q] > 0 THEN "completed" ELSE sent'[q]
      BY <1>types, <2>1, <2>3
    <3>3. Status' = [Status EXCEPT ![q] = "completed"]
      BY <2>3, <3>2, StatusOf
    <3>. QED
      BY <2>3, <3>1, <3>3 DEF Contract!Next, Contract!Complete, Status
  <2>4. CASE q \notin Quest
    BY <1>types, <2>1, <2>4 DEF Status
  <2>. QED
    BY <2>3, <2>4
<1>4. ASSUME SendPings PROVE Status' = Status
  <2>1. /\ sent' = [q \in Callback |-> IF q \in marked THEN "accepted" ELSE sent[q]]
        /\ fired' = fired /\ marked \subseteq Conn
    BY <1>4 DEF SendPings, IInv, TypeOK
  <2>2. \A q \in Quest : q \notin marked
    BY <2>1, DisjointAssumption
  <2>. QED
    BY <1>types, <2>1, <2>2 DEF Status
<1>5. CASE UNCHANGED <<sent, fired>>
  BY <1>5, ContractStutter
<1>6. Closer \/ Loop \/ UNCHANGED vars => UNCHANGED <<sent, fired>>
  BY DEF Closer, Loop, BeginClear, ClearOne, Discard, SignConnection, LeaveIO, LoopClose,
     TakeCallback, DealAnswer, vars, cbVars
<1>7. Checker => SendPings \/ UNCHANGED <<sent, fired>>
  BY DEF Checker, UdpCheck, UdpSend, UdpClosed, KeepAliveCheck, ExtractTimeouted,
     FillTimeouted, Reclaim, cbVars
<1>8. ASSUME NEW c \in Conn, UserClose(c) PROVE UNCHANGED <<sent, fired>>
  BY <1>8 DEF UserClose, cbVars
<1>. QED
  BY <1>1, <1>2, <1>3, <1>4, <1>5, <1>6, <1>7, <1>8, <1>types DEF Next, User, Pool

\* Every quest is refused or accepted, once, and an accepted one is completed
\* at most once.
THEOREM ContractHolds == Safety => Contract!Safety
<1>1. Init => Contract!Init
  BY DEF Init, Contract!Init, Callback
<1>2. IInv /\ [Next]_vars => [Contract!Next]_Status
  BY ContractStep
<1>. QED
  BY <1>1, <1>2, Invariant, PTL DEF Safety, Contract!Safety, Status

=============================================================================
