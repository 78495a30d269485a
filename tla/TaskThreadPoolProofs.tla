------------------------ MODULE TaskThreadPoolProofs -----------------------
(***************************************************************************)
(* Proofs about TaskThreadPool, for any number of tasks and threads and    *)
(* any arguments of init().                                                *)
(*                                                                         *)
(* The counting argument: the threads that live are those that run a task, *)
(* those on their way to the lock and those that wait, and the counters    *)
(* count them; so a thread that ends, which it does only when it finds the *)
(* queue empty, leaves enough of the others behind.                        *)
(***************************************************************************)
EXTENDS TaskThreadPool, FiniteSetTheorems, TLAPS

Busy == In({"running", "returning"})
AtLock == In({"locking", "woken"})
Waiting == In({"waiting"})

\* What the counters count.
Normals == {x \in threadList : pc[x] # "ended"}
Temps == {x \in Thread \ threadList : pc[x] # "unused"}

\* Names of threads, and how far release() has come.
ThreadInv ==
  /\ \A x \in threadList : pc[x] # "unused"
  /\ \A x \in Thread \ threadList : pc[x] # "ended"
  /\ \A x \in joined : pc[x] = "ended"
  /\ releasing = "joining" => inited /\ willExit /\ threadList \ toJoin \subseteq joined

\* There is a thread for the queue.
StaffInv ==
  /\ queue # <<>> => normal + temp > 0
  /\ inited /\ ~willExit => normal >= InitCount
  /\ inited /\ ~willExit /\ temp > 0 => normal = PerfectCount

Begun == Len(accepted) - Len(queue)

\* Every accepted task is in one place: queued, run by one thread, or finished.
TaskInv ==
  /\ Len(queue) <= Len(accepted)
  /\ \A i \in 1..Len(queue) : queue[i] = accepted[Begun + i]
  /\ \A i, j \in 1..Len(accepted) : accepted[i] = accepted[j] => i = j
  /\ \A i \in 1..Begun : accepted[i] \in finished \/ \E x \in Thread : accepted[i] \in job[x]
  /\ \A t \in finished : \E i \in 1..Begun : accepted[i] = t

JobInv ==
  /\ \A x \in Thread : pc[x] # "running" => job[x] = {}
  /\ \A x \in Thread : pc[x] = "running" => \E t \in Task : job[x] = {t}
  /\ \A x \in Thread : \A t \in job[x] :
       t \notin finished /\ \E i \in 1..Begun : accepted[i] = t
  /\ \A x, y \in Thread : job[x] \cap job[y] # {} => x = y

IInv ==
  /\ TypeOK /\ ThreadInv
  /\ CountsAgree /\ StaffInv /\ EnoughThreads /\ NoLostWakeup
  /\ TaskInv /\ JobInv /\ ReleasedIsDrained
-----------------------------------------------------------------------------
(* Helpers *)

\* The limits init() works out are consistent.
LEMMA Limits ==
  /\ MaxCount \in Nat /\ PerfectCount \in Nat
  /\ InitCount \in Nat /\ AppendCount \in Nat /\ InitCount + AppendCount > 0
  /\ InitCount <= PerfectCount
  /\ MaxCount > 0 => PerfectCount <= MaxCount
BY CountAssumption DEF MaxCount, PerfectCount, Least, Greatest

\* Sets of threads can be counted.
LEMMA Counting ==
  ASSUME NEW S \in SUBSET Thread
  PROVE  /\ IsFiniteSet(S) /\ Cardinality(S) \in Nat
         /\ Cardinality(S) = 0 <=> S = {}
         /\ \A x \in S : IsFiniteSet(S \ {x}) /\ Cardinality(S \ {x}) = Cardinality(S) - 1
         /\ \A x \in Thread \ S : Cardinality(S \cup {x}) = Cardinality(S) + 1
<1>1. IsFiniteSet(S)
  BY CountAssumption, FS_Subset
<1>. QED
  BY <1>1, FS_CardinalityType, FS_EmptySet, FS_RemoveElement, FS_AddElement

\* So can the union of two disjoint ones.
LEMMA CountingUnion ==
  ASSUME NEW S \in SUBSET Thread, NEW T \in SUBSET Thread, S \cap T = {}
  PROVE  Cardinality(S \cup T) = Cardinality(S) + Cardinality(T)
<1>1. IsFiniteSet(S) /\ IsFiniteSet(T)
  BY Counting
<1>2. Cardinality(S) \in Nat /\ Cardinality(T) \in Nat
  BY Counting
<1>3. Cardinality(S \cap T) = 0
  BY FS_EmptySet
<1>4. Cardinality(S \cup T) = Cardinality(S) + Cardinality(T) - Cardinality(S \cap T)
  BY <1>1, FS_Union
<1>. QED
  BY <1>2, <1>3, <1>4

\* The names of new threads are unused.
LEMMA NewThreadsFound ==
  ASSUME NEW n, CanStart(n)
  PROVE  NewThreads(n) \in SUBSET In({"unused"}) /\ Cardinality(NewThreads(n)) = n
BY DEF CanStart, NewThreads

\* append() starts normal or temporary threads, within the limits, and starts
\* some unless there is a limit.
LEMMA Appended ==
  ASSUME TypeOK, CountsAgree
  PROVE  /\ AppendNormal \in Nat /\ AppendTemp \in {0, 1}
         /\ AppendNormal > 0 => AppendTemp = 0 /\ normal + AppendNormal <= PerfectCount
         /\ AppendTemp = 1 => normal = PerfectCount /\ (MaxCount > 0 => temp + normal < MaxCount)
         /\ AppendNormal = 0 /\ AppendTemp = 0 <=> AtLimit
<1>1. /\ normal \in Nat /\ temp \in Nat /\ normal <= PerfectCount
      /\ MaxCount \in Nat /\ PerfectCount \in Nat /\ AppendCount \in Nat
  BY Limits DEF TypeOK, CountsAgree
<1>2. CASE normal < PerfectCount
  <2>1. AppendTemp = 0
    BY <1>1, <1>2 DEF AppendTemp
  <2>2. AppendNormal \in Nat /\ normal + AppendNormal <= PerfectCount
    BY <1>1, <1>2 DEF AppendNormal, Least
  <2>3. AppendNormal = 0 <=> AppendCount = 0
    BY <1>1, <1>2 DEF AppendNormal, Least
  <2>. QED
    BY <1>1, <1>2, <2>1, <2>2, <2>3 DEF AtLimit
<1>3. CASE normal >= PerfectCount
  <2>1. AppendNormal = 0
    BY <1>1, <1>3 DEF AppendNormal
  <2>. QED
    BY <1>1, <1>3, <2>1 DEF AppendTemp, AtLimit
<1>. QED
  BY <1>1, <1>2, <1>3

\* wakeUp() starts the threads of some set S, n normal or m temporary ones, and
\* wakes those of W: one of the threads that wait, if there is one.
Grown(n, m, S, W) ==
  /\ normal' = normal + n /\ temp' = temp + m
  /\ Cardinality(S) = n + m
  /\ n > 0 => m = 0 /\ normal + n <= PerfectCount
  /\ m = 1 => normal = PerfectCount /\ (MaxCount > 0 => temp + normal < MaxCount)
  /\ TooBusy => n > 0 \/ m = 1 \/ AtLimit
  /\ ~TooBusy \/ AtLimit => n = 0 /\ m = 0
  /\ threadList' = IF n > 0 THEN threadList \cup S ELSE threadList
  /\ W = {} => Waiting = {}
  /\ W # {} => \E w \in Waiting : W = {w}
  /\ pc' = [x \in Thread |-> IF x \in W THEN "woken"
                            ELSE IF x \in S THEN "locking" ELSE pc[x]]

LEMMA WokenUp ==
  ASSUME TypeOK, CountsAgree, NEW t \in Task, WakeUp(t)
  PROVE  \E n \in Nat, m \in {0, 1} : \E S \in SUBSET In({"unused"}), W \in SUBSET Waiting :
           Grown(n, m, S, W)
<1>. DEFINE n == IF TooBusy THEN AppendNormal ELSE 0
            m == IF TooBusy THEN AppendTemp ELSE 0
            S == NewThreads(n + m)
<1>1. /\ CanStart(n + m)
      /\ normal' = normal + n /\ temp' = temp + m
      /\ threadList' = IF n > 0 THEN threadList \cup S ELSE threadList
      /\ StartAndNotifyOne(S)
  BY DEF WakeUp
<1>2. /\ n \in Nat /\ m \in {0, 1}
      /\ n > 0 => m = 0 /\ normal + n <= PerfectCount
      /\ m = 1 => normal = PerfectCount /\ (MaxCount > 0 => temp + normal < MaxCount)
      /\ TooBusy => n > 0 \/ m = 1 \/ AtLimit
      /\ ~TooBusy \/ AtLimit => n = 0 /\ m = 0
  BY Appended
<1>3. S \in SUBSET In({"unused"}) /\ Cardinality(S) = n + m
  BY <1>1, NewThreadsFound
<1>4. PICK W \in SUBSET Waiting :
        /\ W = {} => Waiting = {}
        /\ W # {} => \E w \in Waiting : W = {w}
        /\ pc' = [x \in Thread |-> IF x \in W THEN "woken"
                                  ELSE IF x \in S THEN "locking" ELSE pc[x]]
  <2>1. CASE /\ In({"waiting"}) = {}
             /\ pc' = [x \in Thread |-> IF x \in S THEN "locking" ELSE pc[x]]
    BY <2>1 DEF Waiting
  <2>2. CASE \E w \in In({"waiting"}) :
               pc' = [x \in Thread |-> IF x = w THEN "woken"
                                       ELSE IF x \in S THEN "locking" ELSE pc[x]]
    <3>1. PICK w \in In({"waiting"}) :
               pc' = [x \in Thread |-> IF x = w THEN "woken"
                                       ELSE IF x \in S THEN "locking" ELSE pc[x]]
      BY <2>2
    <3>2. \A x : x \in {w} <=> x = w
      OBVIOUS
    <3>3. pc' = [x \in Thread |-> IF x \in {w} THEN "woken"
                                 ELSE IF x \in S THEN "locking" ELSE pc[x]]
      BY <3>1, <3>2
    <3>. QED
      BY <3>3 DEF Waiting
  <2>. QED
    BY <1>1, <2>1, <2>2 DEF StartAndNotifyOne
<1>. HIDE DEF n, m, S
<1>5. Grown(n, m, S, W)
  BY <1>1, <1>2, <1>3, <1>4 DEF Grown
<1>. QED
  BY <1>2, <1>3, <1>5

-----------------------------------------------------------------------------
(* Types and names of threads *)

\* A counter that a thread is about to lower is not zero: that thread is counted.
LEMMA Counted ==
  ASSUME TypeOK, ThreadInv, CountsAgree, NEW x \in Thread
  PROVE  /\ x \in threadList /\ pc[x] # "ended" => normal > 0
         /\ x \notin threadList /\ pc[x] # "unused" => temp > 0
         /\ pc[x] \in {"running", "returning"} => busy > 0
<1>1. /\ Normals \in SUBSET Thread /\ Temps \in SUBSET Thread /\ Busy \in SUBSET Thread
      /\ normal = Cardinality(Normals) /\ temp = Cardinality(Temps)
      /\ busy = Cardinality(Busy)
  BY DEF TypeOK, CountsAgree, Normals, Temps, Busy, In
<1>2. /\ x \in threadList /\ pc[x] # "ended" => x \in Normals
      /\ x \notin threadList /\ pc[x] # "unused" => x \in Temps
      /\ pc[x] \in {"running", "returning"} => x \in Busy
  BY DEF Normals, Temps, Busy, In
<1>3. /\ normal \in Nat /\ (normal = 0 <=> Normals = {})
      /\ temp \in Nat /\ (temp = 0 <=> Temps = {})
      /\ busy \in Nat /\ (busy = 0 <=> Busy = {})
  BY <1>1, Counting
<1>. QED
  BY <1>2, <1>3

LEMMA ThreadInit == Init => TypeOK /\ ThreadInv
<1>. SUFFICES ASSUME Init PROVE TypeOK /\ ThreadInv
  OBVIOUS
<1>1. queue \in Seq(Task) /\ accepted \in Seq(Task)
  BY DEF Init
<1>2. pc \in [Thread -> Pc] /\ job \in [Thread -> SUBSET Task]
  BY DEF Init, Pc
<1>. QED
  BY <1>1, <1>2 DEF Init, TypeOK, ThreadInv

\* Every step keeps the types, the names of threads, and the order of release().
LEMMA ThreadStep ==
  TypeOK /\ ThreadInv /\ CountsAgree /\ [Next]_vars => TypeOK' /\ ThreadInv'
<1>. SUFFICES ASSUME TypeOK, ThreadInv, CountsAgree, [Next]_vars
              PROVE  TypeOK' /\ ThreadInv'
  OBVIOUS
<1>1. ASSUME Initialize PROVE TypeOK' /\ ThreadInv'
  <2>1. NewThreads(InitCount) \in SUBSET In({"unused"})
    BY <1>1, NewThreadsFound DEF Initialize
  <2>2. NewThreads(InitCount) \in SUBSET Thread
    BY <2>1 DEF In
  <2>3. TypeOK'
    BY <1>1, <2>2, Limits DEF Initialize, TypeOK, Pc, releaseVars
  <2>4. ThreadInv'
    BY <1>1, <2>1 DEF Initialize, TypeOK, ThreadInv, releaseVars, In
  <2>. QED
    BY <2>3, <2>4
<1>2. ASSUME Release PROVE TypeOK' /\ ThreadInv'
  <2>1. TypeOK'
    BY <1>2 DEF Release, TypeOK, Pc, countVars
  <2>2. ThreadInv'
    BY <1>2 DEF Release, TypeOK, ThreadInv
  <2>. QED
    BY <2>1, <2>2
<1>3. ASSUME NEW x \in Thread, Join(x) PROVE TypeOK' /\ ThreadInv'
  BY <1>3 DEF Join, TypeOK, ThreadInv, countVars
<1>4. ASSUME Released PROVE TypeOK' /\ ThreadInv'
  BY <1>4 DEF Released, TypeOK, ThreadInv, countVars
<1>5. ASSUME NEW t \in Task, WakeUp(t) PROVE TypeOK' /\ ThreadInv'
  <2>1. PICK n \in Nat, m \in {0, 1}, S \in SUBSET In({"unused"}), W \in SUBSET Waiting :
          Grown(n, m, S, W)
    BY <1>5, WokenUp
  <2>2. /\ queue' = Append(queue, t) /\ accepted' = Append(accepted, t)
        /\ UNCHANGED <<inited, willExit, joined, busy, job, releaseVars, finished>>
        /\ ~willExit
    BY <1>5 DEF WakeUp
  <2>3. S \in SUBSET Thread
    BY DEF In
  <2>4. TypeOK'
    <3>1. queue' \in Seq(Task) /\ accepted' \in Seq(Task)
      BY <2>2 DEF TypeOK
    <3>2. normal' \in Nat /\ temp' \in Nat
      BY <2>1 DEF Grown, TypeOK
    <3>3. pc' \in [Thread -> Pc] /\ threadList' \in SUBSET Thread /\ threadList \subseteq threadList'
      BY <2>1, <2>3 DEF Grown, TypeOK, Pc
    <3>. QED
      BY <2>2, <3>1, <3>2, <3>3 DEF TypeOK, releaseVars
  <2>5. ThreadInv'
    BY <2>1, <2>2, <2>3 DEF Grown, TypeOK, ThreadInv, In, Waiting, releaseVars
  <2>. QED
    BY <2>4, <2>5
<1>6. ASSUME NEW x \in Thread, Take(x) PROVE TypeOK' /\ ThreadInv'
  <2>1. Head(queue) \in Task /\ Tail(queue) \in Seq(Task)
    BY <1>6 DEF Take, TypeOK
  <2>2. TypeOK'
    BY <1>6, <2>1 DEF Take, TypeOK, Pc, poolVars, releaseVars
  <2>3. ThreadInv'
    BY <1>6 DEF Take, TypeOK, ThreadInv, poolVars, releaseVars
  <2>. QED
    BY <2>2, <2>3
<1>7. ASSUME NEW x \in Thread, Wait(x) PROVE TypeOK' /\ ThreadInv'
  BY <1>7 DEF Wait, TypeOK, ThreadInv, Pc, poolVars, countVars, releaseVars
<1>8. ASSUME NEW x \in Thread, Return(x) PROVE TypeOK' /\ ThreadInv'
  BY <1>8 DEF Return, TypeOK, ThreadInv, Pc, poolVars, countVars, releaseVars
<1>9. ASSUME NEW x \in Thread, End(x) PROVE TypeOK' /\ ThreadInv'
  <2>1. normal' \in Nat /\ temp' \in Nat
    BY <1>9, Counted DEF End, IsTemp, TypeOK
  <2>2. TypeOK'
    BY <1>9, <2>1 DEF End, TypeOK, Pc, poolVars, releaseVars
  <2>3. ThreadInv'
    BY <1>9 DEF End, IsTemp, TypeOK, ThreadInv, poolVars, releaseVars
  <2>. QED
    BY <2>2, <2>3
<1>10. ASSUME NEW x \in Thread, Finish(x) PROVE TypeOK' /\ ThreadInv'
  BY <1>10 DEF Finish, TypeOK, ThreadInv, Pc, poolVars, countVars, releaseVars
<1>11. ASSUME NEW x \in Thread, Idle(x) PROVE TypeOK' /\ ThreadInv'
  <2>1. busy' \in Nat
    BY <1>11, Counted DEF Idle, TypeOK
  <2>. QED
    BY <1>11, <2>1 DEF Idle, TypeOK, ThreadInv, Pc, poolVars, releaseVars
<1>12. CASE UNCHANGED vars
  BY <1>12 DEF vars, TypeOK, ThreadInv, poolVars, countVars, releaseVars
<1>. QED
  BY <1>1, <1>2, <1>3, <1>4, <1>5, <1>6, <1>7, <1>8, <1>9, <1>10, <1>11, <1>12
     DEF Next, Owner, Worker

-----------------------------------------------------------------------------
(* The counters *)

LEMMA CountsForm ==
  CountsAgree <=>
    /\ normal = Cardinality(Normals) /\ temp = Cardinality(Temps)
    /\ busy = Cardinality(Busy)
    /\ normal <= PerfectCount
    /\ MaxCount > 0 => temp + normal <= MaxCount
BY DEF CountsAgree, Normals, Temps, Busy

LEMMA CountsFormPrimed ==
  CountsAgree' <=>
    /\ normal' = Cardinality(Normals') /\ temp' = Cardinality(Temps')
    /\ busy' = Cardinality(Busy')
    /\ normal' <= PerfectCount
    /\ MaxCount > 0 => temp' + normal' <= MaxCount
BY DEF CountsAgree, Normals, Temps, Busy, In, PerfectCount, MaxCount

\* A step that moves no thread from one of these sets to another and counts none.
LEMMA CountsUntouched ==
  ASSUME CountsAgree, UNCHANGED countVars,
         Normals' = Normals, Temps' = Temps, Busy' = Busy
  PROVE  CountsAgree'
BY CountsForm, CountsFormPrimed DEF countVars

\* Every step counts the threads it starts, ends, or gives and takes work.
LEMMA CountStep ==
  TypeOK /\ ThreadInv /\ CountsAgree /\ StaffInv /\ ReleasedIsDrained /\ [Next]_vars
    => CountsAgree'
<1>. SUFFICES ASSUME TypeOK, ThreadInv, CountsAgree, StaffInv, ReleasedIsDrained, [Next]_vars
              PROVE  CountsAgree'
  OBVIOUS
<1>types.
      /\ Normals \in SUBSET Thread /\ Temps \in SUBSET Thread /\ Busy \in SUBSET Thread
      /\ threadList \in SUBSET Thread /\ pc \in [Thread -> Pc]
      /\ normal \in Nat /\ temp \in Nat /\ busy \in Nat
      /\ MaxCount \in Nat /\ PerfectCount \in Nat
  BY Limits DEF TypeOK, Normals, Temps, Busy, In
<1>counts.
      /\ normal = Cardinality(Normals) /\ temp = Cardinality(Temps)
      /\ busy = Cardinality(Busy)
      /\ normal <= PerfectCount
      /\ MaxCount > 0 => temp + normal <= MaxCount
  BY CountsForm
<1>1. ASSUME Initialize PROVE CountsAgree'
  <2>. DEFINE S == NewThreads(InitCount)
  <2>1. S \in SUBSET In({"unused"}) /\ Cardinality(S) = InitCount
    BY <1>1, NewThreadsFound DEF Initialize
  <2>2. \A x \in threadList : pc[x] = "ended"
    BY <1>types, <1>1 DEF Initialize, ReleasedIsDrained, ThreadInv
  <2>3. \A x \in Thread \ threadList : pc[x] = "unused"
    BY <1>types, <1>1 DEF Initialize, ReleasedIsDrained, ThreadInv
  <2>4. /\ pc' = [x \in Thread |-> IF x \in S THEN "locking" ELSE pc[x]]
        /\ threadList' = threadList \cup S
        /\ normal' = InitCount /\ temp' = 0 /\ busy' = 0
    BY <1>1 DEF Initialize
  <2>. HIDE DEF S
  <2>5. S \subseteq Thread
    BY <2>1 DEF In
  <2>6. Normals' = S
    BY <1>types, <2>1, <2>2, <2>4, <2>5 DEF Normals, In
  <2>7. Temps' = {} /\ Busy' = {}
    BY <1>types, <2>1, <2>2, <2>3, <2>4, <2>5 DEF Temps, Busy, In
  <2>. QED
    BY <2>1, <2>4, <2>6, <2>7, Limits, FS_EmptySet, CountsFormPrimed
<1>2. ASSUME Release PROVE CountsAgree'
  <2>1. Normals' = Normals /\ Temps' = Temps /\ Busy' = Busy
    BY <1>types, <1>2 DEF Release, Normals, Temps, Busy, In
  <2>. QED
    BY <1>2, <2>1, CountsUntouched DEF Release
<1>3. ASSUME NEW x \in Thread, Join(x) PROVE CountsAgree'
  BY <1>3, CountsUntouched DEF Join, Normals, Temps, Busy, In
<1>4. ASSUME Released PROVE CountsAgree'
  BY <1>4, CountsUntouched DEF Released, Normals, Temps, Busy, In
<1>5. ASSUME NEW t \in Task, WakeUp(t) PROVE CountsAgree'
  <2>1. PICK n \in Nat, m \in {0, 1}, S \in SUBSET In({"unused"}), W \in SUBSET Waiting :
          Grown(n, m, S, W)
    BY <1>5, WokenUp
  <2>2. /\ normal' = normal + n /\ temp' = temp + m /\ busy' = busy
        /\ Cardinality(S) = n + m
        /\ n > 0 => m = 0 /\ normal + n <= PerfectCount
        /\ m = 1 => normal = PerfectCount /\ (MaxCount > 0 => temp + normal < MaxCount)
        /\ threadList' = IF n > 0 THEN threadList \cup S ELSE threadList
        /\ pc' = [x \in Thread |-> IF x \in W THEN "woken"
                                  ELSE IF x \in S THEN "locking" ELSE pc[x]]
    BY <1>5, <2>1 DEF Grown, WakeUp
  <2>3. /\ S \in SUBSET Thread /\ W \in SUBSET Thread
        /\ \A x \in S : pc[x] = "unused" /\ x \notin threadList
        /\ \A x \in W : pc[x] = "waiting"
    BY DEF In, Waiting, ThreadInv
  <2>4. Busy' = Busy
    BY <1>types, <2>2, <2>3 DEF Busy, In
  <2>5. CASE n > 0
    <3>1. Normals' = Normals \cup S
      BY <1>types, <2>2, <2>3, <2>5 DEF Normals
    <3>2. Temps' = Temps
      BY <1>types, <2>2, <2>3, <2>5 DEF Temps
    <3>3. Normals \cap S = {}
      BY <2>3 DEF Normals
    <3>4. Cardinality(Normals') = normal + n
      BY <1>types, <1>counts, <2>2, <2>3, <2>5, <3>1, <3>3, CountingUnion
    <3>5. normal < PerfectCount /\ temp = 0
      BY <1>types, <1>5, <2>2, <2>5 DEF StaffInv, WakeUp
    <3>. QED
      BY <1>types, <1>counts, <2>2, <2>4, <2>5, <3>2, <3>4, <3>5, Limits, CountsFormPrimed
  <2>6. CASE n = 0
    <3>1. Normals' = Normals
      BY <1>types, <2>2, <2>3, <2>6 DEF Normals
    <3>2. Temps' = Temps \cup S
      BY <1>types, <2>2, <2>3, <2>6 DEF Temps
    <3>3. Temps \cap S = {}
      BY <2>3 DEF Temps
    <3>4. Cardinality(Temps') = temp + m
      BY <1>types, <1>counts, <2>2, <2>3, <2>6, <3>2, <3>3, CountingUnion
    <3>. QED
      BY <1>types, <1>counts, <2>2, <2>4, <2>6, <3>1, <3>4, CountsFormPrimed
  <2>. QED
    BY <2>5, <2>6
<1>6. ASSUME NEW x \in Thread, Take(x) PROVE CountsAgree'
  <2>1. /\ pc[x] \in {"locking", "woken"} /\ pc' = [pc EXCEPT ![x] = "running"]
        /\ busy' = busy + 1 /\ UNCHANGED <<normal, temp, threadList>>
    BY <1>6 DEF Take, poolVars
  <2>2. Normals' = Normals /\ Temps' = Temps
    BY <1>types, <2>1 DEF Normals, Temps
  <2>3. x \notin Busy /\ Busy' = Busy \cup {x}
    BY <1>types, <2>1 DEF Busy, In
  <2>4. Cardinality(Busy') = busy + 1
    BY <1>types, <1>counts, <2>3, Counting
  <2>. QED
    BY <1>counts, <2>1, <2>2, <2>4, CountsFormPrimed
<1>7. ASSUME NEW x \in Thread, Wait(x) PROVE CountsAgree'
  <2>1. Normals' = Normals /\ Temps' = Temps /\ Busy' = Busy
    BY <1>types, <1>7 DEF Wait, poolVars, Normals, Temps, Busy, In
  <2>. QED
    BY <1>7, <2>1, CountsUntouched DEF Wait
<1>8. ASSUME NEW x \in Thread, Return(x) PROVE CountsAgree'
  <2>1. Normals' = Normals /\ Temps' = Temps /\ Busy' = Busy
    BY <1>types, <1>8 DEF Return, poolVars, Normals, Temps, Busy, In
  <2>. QED
    BY <1>8, <2>1, CountsUntouched DEF Return
<1>9. ASSUME NEW x \in Thread, End(x) PROVE CountsAgree'
  <2>1. /\ pc[x] \in {"locking", "woken"}
        /\ UNCHANGED <<threadList, busy>>
    BY <1>9 DEF End, poolVars
  <2>2. CASE IsTemp(x)
    <3>1. temp' = temp - 1 /\ normal' = normal /\ pc' = [pc EXCEPT ![x] = "unused"]
      BY <1>9, <2>2 DEF End
    <3>2. Normals' = Normals /\ Busy' = Busy
      BY <1>types, <2>1, <2>2, <3>1 DEF Normals, Busy, In, IsTemp
    <3>3. x \in Temps /\ Temps' = Temps \ {x}
      BY <1>types, <2>1, <2>2, <3>1 DEF Temps, IsTemp
    <3>4. Cardinality(Temps') = temp - 1
      BY <1>types, <1>counts, <3>3, Counting
    <3>. QED
      BY <1>types, <1>counts, <2>1, <3>1, <3>2, <3>4, CountsFormPrimed
  <2>3. CASE ~IsTemp(x)
    <3>1. normal' = normal - 1 /\ temp' = temp /\ pc' = [pc EXCEPT ![x] = "ended"]
      BY <1>9, <2>3 DEF End
    <3>2. Temps' = Temps /\ Busy' = Busy
      BY <1>types, <2>1, <2>3, <3>1 DEF Temps, Busy, In, IsTemp
    <3>3. x \in Normals /\ Normals' = Normals \ {x}
      BY <1>types, <2>1, <2>3, <3>1 DEF Normals, IsTemp
    <3>4. Cardinality(Normals') = normal - 1
      BY <1>types, <1>counts, <3>3, Counting
    <3>. QED
      BY <1>types, <1>counts, <2>1, <3>1, <3>2, <3>4, CountsFormPrimed
  <2>. QED
    BY <2>2, <2>3
<1>10. ASSUME NEW x \in Thread, Finish(x) PROVE CountsAgree'
  <2>1. Normals' = Normals /\ Temps' = Temps /\ Busy' = Busy
    BY <1>types, <1>10 DEF Finish, poolVars, Normals, Temps, Busy, In
  <2>. QED
    BY <1>10, <2>1, CountsUntouched DEF Finish
<1>11. ASSUME NEW x \in Thread, Idle(x) PROVE CountsAgree'
  <2>1. /\ pc[x] = "returning" /\ pc' = [pc EXCEPT ![x] = "locking"]
        /\ busy' = busy - 1 /\ UNCHANGED <<normal, temp, threadList>>
    BY <1>11 DEF Idle, poolVars
  <2>2. Normals' = Normals /\ Temps' = Temps
    BY <1>types, <2>1 DEF Normals, Temps
  <2>3. x \in Busy /\ Busy' = Busy \ {x}
    BY <1>types, <2>1 DEF Busy, In
  <2>4. Cardinality(Busy') = busy - 1
    BY <1>types, <1>counts, <2>3, Counting
  <2>. QED
    BY <1>counts, <2>1, <2>2, <2>4, CountsFormPrimed
<1>12. CASE UNCHANGED vars
  BY <1>12, CountsUntouched DEF vars, poolVars, Normals, Temps, Busy, In
<1>. QED
  BY <1>1, <1>2, <1>3, <1>4, <1>5, <1>6, <1>7, <1>8, <1>9, <1>10, <1>11, <1>12
     DEF Next, Owner, Worker

-----------------------------------------------------------------------------
(* Threads for the queue *)

\* Every thread there is runs a task, is on its way to the lock, or waits.
LEMMA Staff ==
  ASSUME TypeOK, ThreadInv, CountsAgree
  PROVE  /\ normal + temp = busy + Cardinality(AtLock) + Cardinality(Waiting)
         /\ Cardinality(AtLock) \in Nat /\ Cardinality(Waiting) \in Nat
<1>1. /\ Normals \in SUBSET Thread /\ Temps \in SUBSET Thread /\ Busy \in SUBSET Thread
      /\ AtLock \in SUBSET Thread /\ Waiting \in SUBSET Thread
  BY DEF TypeOK, Normals, Temps, Busy, AtLock, Waiting, In
<1>2. /\ Normals \cap Temps = {}
      /\ Busy \cap AtLock = {}
      /\ (Busy \cup AtLock) \cap Waiting = {}
  BY DEF Normals, Temps, Busy, AtLock, Waiting, In
<1>3. Normals \cup Temps = (Busy \cup AtLock) \cup Waiting
  BY DEF TypeOK, ThreadInv, Pc, Normals, Temps, Busy, AtLock, Waiting, In
<1>4. Cardinality(Normals \cup Temps) = Cardinality(Normals) + Cardinality(Temps)
  BY <1>1, <1>2, CountingUnion
<1>5. Cardinality(Busy \cup AtLock) = Cardinality(Busy) + Cardinality(AtLock)
  BY <1>1, <1>2, CountingUnion
<1>6. Busy \cup AtLock \in SUBSET Thread
  BY <1>1
<1>7. Cardinality((Busy \cup AtLock) \cup Waiting)
        = Cardinality(Busy \cup AtLock) + Cardinality(Waiting)
  BY <1>1, <1>2, <1>6, CountingUnion
<1>8. /\ normal = Cardinality(Normals) /\ temp = Cardinality(Temps)
      /\ busy = Cardinality(Busy)
  BY CountsForm
<1>9. Cardinality(AtLock) \in Nat /\ Cardinality(Waiting) \in Nat
  BY <1>1, Counting
<1>. QED
  BY <1>3, <1>4, <1>5, <1>7, <1>8, <1>9

LEMMA StaffPrimed ==
  ASSUME TypeOK', ThreadInv', CountsAgree'
  PROVE  busy' <= normal' + temp'
<1>1. /\ Normals' \in SUBSET Thread /\ Temps' \in SUBSET Thread /\ Busy' \in SUBSET Thread
  BY DEF TypeOK, Normals, Temps, Busy, In
<1>2. Normals' \cap Temps' = {} /\ Busy' \subseteq Normals' \cup Temps'
  BY DEF TypeOK, ThreadInv, Pc, Normals, Temps, Busy, In
<1>3. Cardinality(Normals' \cup Temps') = Cardinality(Normals') + Cardinality(Temps')
  BY <1>1, <1>2, CountingUnion
<1>4. Normals' \cup Temps' \in SUBSET Thread
  BY <1>1
<1>5. IsFiniteSet(Normals' \cup Temps')
  BY <1>4, Counting
<1>6. Cardinality(Busy') <= Cardinality(Normals' \cup Temps')
  BY <1>2, <1>5, FS_Subset
<1>. QED
  BY <1>3, <1>6, CountsFormPrimed

\* Adding nothing keeps a bound.
LEMMA AddNothing ==
  ASSUME NEW m \in Nat, NEW k, m <= k, NEW l, l = 0
  PROVE  m + l <= k
OBVIOUS

\* A larger set of threads has more of them.
LEMMA CountingMore ==
  ASSUME NEW S \in SUBSET Thread, NEW T \in SUBSET S
  PROVE  Cardinality(T) <= Cardinality(S)
BY Counting, FS_Subset

\* Every step leaves a thread for what is queued.
LEMMA StaffStep ==
  TypeOK /\ ThreadInv /\ CountsAgree /\ StaffInv /\ EnoughThreads /\ NoLostWakeup
    /\ ReleasedIsDrained /\ [Next]_vars
    /\ TypeOK' /\ ThreadInv' /\ CountsAgree'
    => StaffInv' /\ EnoughThreads' /\ NoLostWakeup'
<1>. SUFFICES ASSUME TypeOK, ThreadInv, CountsAgree, StaffInv, EnoughThreads, NoLostWakeup,
                     ReleasedIsDrained, [Next]_vars,
                     TypeOK', ThreadInv', CountsAgree'
              PROVE  StaffInv' /\ EnoughThreads' /\ NoLostWakeup'
  OBVIOUS
<1>. DEFINE Roster ==
       /\ AtLock \in SUBSET Thread /\ Waiting \in SUBSET Thread
       /\ pc \in [Thread -> Pc]
       /\ normal \in Nat /\ temp \in Nat /\ busy \in Nat
       /\ queue \in Seq(Task) /\ Len(queue) \in Nat
       /\ MaxCount \in Nat /\ PerfectCount \in Nat /\ InitCount \in Nat /\ AppendCount \in Nat
       /\ Cardinality(AtLock) \in Nat
<1>types. Roster
  BY Limits, Staff DEF TypeOK, AtLock, Waiting, In
<1>sets. AtLock' \in SUBSET Thread /\ Waiting' \in SUBSET Thread
  BY DEF AtLock, Waiting, In
<1>nat.
      /\ normal' \in Nat /\ temp' \in Nat /\ busy' \in Nat
      /\ busy' <= normal' + temp'
  BY StaffPrimed DEF TypeOK
<1>lost.
      /\ NoLostWakeup <=> (Waiting # {} => Len(queue) <= Cardinality(AtLock))
      /\ NoLostWakeup' <=> (Waiting' # {} => Len(queue') <= Cardinality(AtLock'))
  BY DEF NoLostWakeup, Waiting, AtLock, In
<1>enough.
      /\ EnoughThreads <=> busy + Len(queue) <= normal + temp \/ AtLimit
      /\ EnoughThreads' <=> busy' + Len(queue') <= normal' + temp' \/ AtLimit'
  BY DEF EnoughThreads, AtLimit, PerfectCount, MaxCount
<1>. HIDE DEF Roster
\* A step at the end of which nothing is queued.
<1>empty. ASSUME queue' = <<>>,
              inited' /\ ~willExit' =>
                normal' >= InitCount /\ (temp' > 0 => normal' = PerfectCount)
       PROVE  StaffInv' /\ EnoughThreads' /\ NoLostWakeup'
  <2>1. Len(queue') = 0
    BY <1>empty
  <2>2. Waiting' # {} => Len(queue') <= Cardinality(AtLock')
    BY <1>sets, <2>1, Counting
  <2>3. busy' + Len(queue') <= normal' + temp'
    BY <1>nat, <2>1, AddNothing
  <2>4. StaffInv'
    BY <1>empty DEF StaffInv, PerfectCount, MaxCount
  <2>. QED
    BY <1>lost, <1>enough, <2>2, <2>3, <2>4
\* A step that leaves the counters and the queue alone, after which no more
\* threads wait, nor fewer are on their way to the lock.
<1>same. ASSUME UNCHANGED <<queue, normal, temp>>,
              busy' <= busy,
              inited' /\ ~willExit' => inited /\ ~willExit,
              Waiting' \subseteq Waiting, AtLock \subseteq AtLock'
       PROVE  StaffInv' /\ EnoughThreads' /\ NoLostWakeup'
  <2>1. StaffInv'
    BY <1>same DEF StaffInv, PerfectCount, MaxCount
  <2>2. EnoughThreads'
    BY <1>types, <1>nat, <1>enough, <1>same DEF Roster, AtLimit, PerfectCount, MaxCount
  <2>3. Cardinality(AtLock) <= Cardinality(AtLock')
    BY <1>sets, <1>same, CountingMore
  <2>4. Cardinality(AtLock') \in Nat
    BY <1>sets, Counting
  <2>5. Len(queue') = Len(queue)
    BY <1>same
  <2>6. NoLostWakeup'
    BY <1>types, <1>lost, <1>same, <2>3, <2>4, <2>5 DEF Roster
  <2>. QED
    BY <2>1, <2>2, <2>6
<1>1. ASSUME Initialize PROVE StaffInv' /\ EnoughThreads' /\ NoLostWakeup'
  <2>1. queue' = <<>> /\ normal' = InitCount /\ temp' = 0
    BY <1>1 DEF Initialize, ReleasedIsDrained
  <2>. QED
    BY <1>types, <1>empty, <2>1 DEF Roster
<1>2. ASSUME Release PROVE StaffInv' /\ EnoughThreads' /\ NoLostWakeup'
  <2>1. Waiting' \subseteq Waiting /\ AtLock \subseteq AtLock'
    BY <1>types, <1>2 DEF Roster, Release, Waiting, AtLock, In
  <2>2. UNCHANGED <<queue, normal, temp, busy>> /\ willExit'
    BY <1>2 DEF Release, countVars
  <2>. QED
    BY <1>types, <1>same, <2>1, <2>2 DEF Roster
<1>3. ASSUME NEW x \in Thread, Join(x) PROVE StaffInv' /\ EnoughThreads' /\ NoLostWakeup'
  <2>1. UNCHANGED <<queue, normal, temp, busy, inited, willExit, pc>>
    BY <1>3 DEF Join, countVars
  <2>. QED
    BY <1>types, <1>same, <2>1 DEF Roster, Waiting, AtLock, In
<1>4. ASSUME Released PROVE StaffInv' /\ EnoughThreads' /\ NoLostWakeup'
  <2>1. UNCHANGED <<queue, normal, temp, busy, pc>> /\ ~inited'
    BY <1>4 DEF Released, countVars
  <2>. QED
    BY <1>types, <1>same, <2>1 DEF Roster, Waiting, AtLock, In
<1>5. ASSUME NEW t \in Task, WakeUp(t) PROVE StaffInv' /\ EnoughThreads' /\ NoLostWakeup'
  <2>1. PICK n \in Nat, m \in {0, 1}, S \in SUBSET In({"unused"}), W \in SUBSET Waiting :
          Grown(n, m, S, W)
    BY <1>5, WokenUp
  <2>2. /\ normal' = normal + n /\ temp' = temp + m
        /\ n > 0 => m = 0 /\ normal + n <= PerfectCount
        /\ m = 1 => normal = PerfectCount /\ (MaxCount > 0 => temp + normal < MaxCount)
        /\ TooBusy => n > 0 \/ m = 1 \/ AtLimit
        /\ ~TooBusy \/ AtLimit => n = 0 /\ m = 0
        /\ W = {} => Waiting = {}
        /\ W # {} => \E w \in Waiting : W = {w}
        /\ pc' = [x \in Thread |-> IF x \in W THEN "woken"
                                  ELSE IF x \in S THEN "locking" ELSE pc[x]]
    BY <2>1 DEF Grown
  <2>3. /\ busy' = busy /\ inited /\ ~willExit /\ UNCHANGED <<inited, willExit>>
        /\ Len(queue') = Len(queue) + 1
    BY <1>types, <1>5 DEF WakeUp, Roster
  <2>4. normal >= InitCount /\ (temp > 0 => normal = PerfectCount)
    BY <2>3 DEF StaffInv
  <2>5. normal' + temp' > 0
    <3>1. CASE normal + temp > 0
      BY <1>types, <2>2, <3>1 DEF Roster
    <3>2. CASE normal + temp = 0
      <4>1. TooBusy
        BY <1>types, <3>2 DEF TooBusy, Roster
      <4>2. normal = 0 /\ temp = 0 /\ InitCount = 0
        BY <1>types, <2>4, <3>2 DEF Roster
      <4>3. ~AtLimit
        BY <1>types, <4>2, Limits DEF AtLimit, Roster
      <4>. QED
        BY <1>types, <2>2, <4>1, <4>2, <4>3 DEF Roster
    <3>. QED
      BY <1>types, <3>1, <3>2 DEF Roster
  <2>6. StaffInv'
    <3>1. normal' >= InitCount
      BY <1>types, <2>2, <2>4 DEF Roster
    <3>2. temp' > 0 => normal' = PerfectCount
      BY <1>types, <2>2, <2>4 DEF Roster
    <3>. QED
      BY <2>5, <3>1, <3>2 DEF StaffInv, PerfectCount, MaxCount
  <2>7. EnoughThreads'
    <3>1. CASE AtLimit
      <4>1. AtLimit'
        BY <1>types, <2>2, <3>1 DEF Roster, AtLimit, PerfectCount, MaxCount
      <4>. QED
        BY <1>enough, <4>1
    <3>2. CASE ~AtLimit /\ TooBusy
      BY <1>types, <1>enough, <2>2, <2>3, <3>2 DEF Roster
    <3>3. CASE ~AtLimit /\ ~TooBusy
      BY <1>types, <1>enough, <2>2, <2>3, <3>3 DEF Roster, TooBusy
    <3>. QED
      BY <3>1, <3>2, <3>3
  <2>8. NoLostWakeup'
    <3>1. SUFFICES ASSUME Waiting' # {} PROVE Len(queue') <= Cardinality(AtLock')
      BY <1>lost
    <3>2. Waiting' \subseteq Waiting
      BY <1>types, <2>2 DEF Roster, Waiting, In
    <3>3. PICK w \in Waiting : W = {w}
      BY <2>2, <3>1, <3>2
    <3>4. w \in Thread \ AtLock
      BY DEF Waiting, AtLock, In
    <3>5. AtLock \cup {w} \in SUBSET AtLock'
      BY <1>types, <2>2, <3>3 DEF Roster, Waiting, AtLock, In
    <3>6. Cardinality(AtLock \cup {w}) = Cardinality(AtLock) + 1
      BY <1>types, <3>4, Counting DEF Roster
    <3>7. Cardinality(AtLock \cup {w}) <= Cardinality(AtLock')
      BY <1>sets, <3>5, CountingMore
    <3>8. Cardinality(AtLock') \in Nat
      BY <1>sets, Counting
    <3>9. Len(queue) <= Cardinality(AtLock)
      BY <1>lost, <3>1, <3>2
    <3>. QED
      BY <1>types, <2>3, <3>6, <3>7, <3>8, <3>9 DEF Roster
  <2>. QED
    BY <2>6, <2>7, <2>8
<1>6. ASSUME NEW x \in Thread, Take(x) PROVE StaffInv' /\ EnoughThreads' /\ NoLostWakeup'
  <2>1. /\ pc[x] \in {"locking", "woken"} /\ pc' = [pc EXCEPT ![x] = "running"]
        /\ busy' = busy + 1 /\ UNCHANGED <<normal, temp, inited, willExit>>
        /\ queue # <<>> /\ queue' = Tail(queue)
    BY <1>6 DEF Take, poolVars
  <2>2. Len(queue') = Len(queue) - 1
    BY <1>types, <2>1 DEF Roster
  <2>3. StaffInv'
    BY <2>1 DEF StaffInv, PerfectCount, MaxCount
  <2>4. EnoughThreads'
    BY <1>types, <1>enough, <2>1, <2>2 DEF Roster, AtLimit, PerfectCount, MaxCount
  <2>5. Waiting' = Waiting /\ x \in AtLock /\ AtLock' = AtLock \ {x}
    BY <1>types, <2>1 DEF Roster, Waiting, AtLock, In
  <2>6. Cardinality(AtLock') = Cardinality(AtLock) - 1
    BY <1>types, <2>5, Counting DEF Roster
  <2>7. NoLostWakeup'
    BY <1>types, <1>lost, <2>2, <2>5, <2>6 DEF Roster
  <2>. QED
    BY <2>3, <2>4, <2>7
<1>7. ASSUME NEW x \in Thread, Wait(x) PROVE StaffInv' /\ EnoughThreads' /\ NoLostWakeup'
  BY <1>7, <1>empty DEF Wait, StaffInv, poolVars, countVars
<1>8. ASSUME NEW x \in Thread, Return(x) PROVE StaffInv' /\ EnoughThreads' /\ NoLostWakeup'
  <2>1. Waiting' \subseteq Waiting /\ AtLock \subseteq AtLock'
    BY <1>types, <1>8 DEF Roster, Return, Waiting, AtLock, In
  <2>2. UNCHANGED <<queue, normal, temp, busy, inited, willExit>>
    BY <1>8 DEF Return, countVars, poolVars
  <2>. QED
    BY <1>types, <1>same, <2>1, <2>2 DEF Roster
<1>9. ASSUME NEW x \in Thread, End(x) PROVE StaffInv' /\ EnoughThreads' /\ NoLostWakeup'
  <2>1. queue' = <<>> /\ UNCHANGED <<inited, willExit>>
    BY <1>9 DEF End, poolVars
  <2>2. willExit \/ (normal' = normal /\ temp' = temp - 1)
    BY <1>9 DEF End
  <2>3. inited /\ ~willExit =>
          normal' >= InitCount /\ (temp' > 0 => normal' = PerfectCount)
    BY <1>types, <2>2 DEF Roster, StaffInv
  <2>. QED
    BY <1>empty, <2>1, <2>3
<1>10. ASSUME NEW x \in Thread, Finish(x) PROVE StaffInv' /\ EnoughThreads' /\ NoLostWakeup'
  <2>1. Waiting' \subseteq Waiting /\ AtLock \subseteq AtLock'
    BY <1>types, <1>10 DEF Roster, Finish, Waiting, AtLock, In
  <2>2. UNCHANGED <<queue, normal, temp, busy, inited, willExit>>
    BY <1>10 DEF Finish, countVars, poolVars
  <2>. QED
    BY <1>types, <1>same, <2>1, <2>2 DEF Roster
<1>11. ASSUME NEW x \in Thread, Idle(x) PROVE StaffInv' /\ EnoughThreads' /\ NoLostWakeup'
  <2>1. Waiting' \subseteq Waiting /\ AtLock \subseteq AtLock'
    BY <1>types, <1>11 DEF Roster, Idle, Waiting, AtLock, In
  <2>2. UNCHANGED <<queue, normal, temp, inited, willExit>> /\ busy' <= busy
    BY <1>types, <1>11 DEF Idle, poolVars, Roster
  <2>. QED
    BY <1>same, <2>1, <2>2
<1>12. CASE UNCHANGED vars
  <2>1. UNCHANGED <<queue, normal, temp, busy, inited, willExit, pc>>
    BY <1>12 DEF vars, poolVars, countVars
  <2>. QED
    BY <1>types, <1>same, <2>1 DEF Roster, Waiting, AtLock, In
<1>. QED
  BY <1>1, <1>2, <1>3, <1>4, <1>5, <1>6, <1>7, <1>8, <1>9, <1>10, <1>11, <1>12
     DEF Next, Owner, Worker

-----------------------------------------------------------------------------
(* Tasks *)

LEMMA TaskInit == Init => TaskInv /\ JobInv
<1>. SUFFICES ASSUME Init PROVE TaskInv /\ JobInv
  OBVIOUS
<1>1. /\ Len(queue) = 0 /\ Len(accepted) = 0 /\ finished = {}
      /\ \A x \in Thread : job[x] = {} /\ pc[x] = "unused"
  BY DEF Init
<1>2. Begun = 0
  BY <1>1 DEF Begun
<1>. QED
  BY <1>1, <1>2 DEF TaskInv, JobInv

\* A step that leaves the tasks where they are.
LEMMA TasksUntouched ==
  ASSUME TypeOK, TaskInv, JobInv, UNCHANGED <<queue, accepted, finished, job>>,
         \A x \in Thread : pc'[x] = "running" <=> pc[x] = "running"
  PROVE  TaskInv' /\ JobInv'
BY DEF TaskInv, JobInv, Begun

LEMMA TaskStep == TypeOK /\ TaskInv /\ JobInv /\ [Next]_vars => TaskInv' /\ JobInv'
<1>. SUFFICES ASSUME TypeOK, TaskInv, JobInv, [Next]_vars
              PROVE  TaskInv' /\ JobInv'
  OBVIOUS
<1>types.
      /\ queue \in Seq(Task) /\ Len(queue) \in Nat
      /\ accepted \in Seq(Task) /\ Len(accepted) \in Nat
      /\ pc \in [Thread -> Pc] /\ job \in [Thread -> SUBSET Task]
      /\ Len(queue) <= Len(accepted)
      /\ Begun = Len(accepted) - Len(queue) /\ Begun \in Nat
  BY DEF TypeOK, TaskInv, Begun
<1>1. ASSUME Initialize PROVE TaskInv' /\ JobInv'
  <2>1. UNCHANGED <<queue, accepted, finished, job>>
    BY <1>1 DEF Initialize
  <2>2. \A x \in NewThreads(InitCount) : pc[x] = "unused"
    BY <1>1, NewThreadsFound DEF Initialize, In
  <2>3. \A x \in Thread : pc'[x] = "running" <=> pc[x] = "running"
    BY <1>1, <2>2 DEF Initialize
  <2>. QED
    BY <2>1, <2>3, TasksUntouched
<1>2. ASSUME Release PROVE TaskInv' /\ JobInv'
  BY <1>2, TasksUntouched DEF Release
<1>3. ASSUME NEW x \in Thread, Join(x) PROVE TaskInv' /\ JobInv'
  BY <1>3, TasksUntouched DEF Join
<1>4. ASSUME Released PROVE TaskInv' /\ JobInv'
  BY <1>4, TasksUntouched DEF Released
<1>5. ASSUME NEW t \in Task, WakeUp(t) PROVE TaskInv' /\ JobInv'
  <2>1. /\ queue' = Append(queue, t) /\ accepted' = Append(accepted, t)
        /\ t \notin Tasks(accepted)
        /\ UNCHANGED <<finished, job>>
    BY <1>5 DEF WakeUp
  <2>2. \A x \in Thread : pc'[x] = "running" <=> pc[x] = "running"
    BY <1>5, <1>types DEF WakeUp, StartAndNotifyOne, NewThreads, CanStart, In
  <2>3. /\ Len(queue') = Len(queue) + 1 /\ Len(accepted') = Len(accepted) + 1
        /\ Begun' = Begun
    BY <1>types, <2>1 DEF Begun
  <2>4. /\ \A i \in 1..Len(queue) : queue'[i] = queue[i]
        /\ queue'[Len(queue) + 1] = t
        /\ \A i \in 1..Len(accepted) : accepted'[i] = accepted[i]
        /\ accepted'[Len(accepted) + 1] = t
    BY <1>types, <2>1
  <2>5. \A i \in 1..Len(accepted) : accepted[i] # t
    <3>1. 1..Len(accepted) = DOMAIN accepted
      BY <1>types
    <3>. QED
      BY <2>1, <3>1 DEF Tasks
  <2>6. TaskInv'
    <3>1. Len(queue') <= Len(accepted')
      BY <1>types, <2>3
    <3>2. ASSUME NEW i \in 1..Len(queue') PROVE queue'[i] = accepted'[Begun' + i]
      <4>1. CASE i <= Len(queue)
        <5>1. i \in 1..Len(queue) /\ Begun + i \in 1..Len(accepted)
          BY <1>types, <2>3, <4>1
        <5>2. queue[i] = accepted[Begun + i]
          BY <5>1 DEF TaskInv
        <5>. QED
          BY <2>3, <2>4, <5>1, <5>2
      <4>2. CASE i = Len(queue) + 1
        BY <1>types, <2>3, <2>4, <4>2
      <4>. QED
        BY <1>types, <2>3, <4>1, <4>2
    <3>3. ASSUME NEW i \in 1..Len(accepted'), NEW j \in 1..Len(accepted'),
                 accepted'[i] = accepted'[j]
          PROVE  i = j
      BY <1>types, <2>3, <2>4, <2>5, <3>3 DEF TaskInv
    <3>4. \A i \in 1..Begun' : i \in 1..Begun /\ accepted'[i] = accepted[i]
      BY <1>types, <2>3, <2>4
    <3>5. \A i \in 1..Begun' :
            accepted'[i] \in finished' \/ \E x \in Thread : accepted'[i] \in job'[x]
      BY <2>1, <3>4 DEF TaskInv
    <3>6. \A u \in finished' : \E i \in 1..Begun' : accepted'[i] = u
      BY <2>1, <2>3, <3>4 DEF TaskInv
    <3>. QED
      BY <3>1, <3>2, <3>3, <3>5, <3>6 DEF TaskInv
  <2>7. JobInv'
    <3>1. \A i \in 1..Begun' : i \in 1..Begun /\ accepted'[i] = accepted[i]
      BY <1>types, <2>3, <2>4
    <3>2. \A x \in Thread : \A u \in job[x] :
            u \notin finished' /\ \E i \in 1..Begun' : accepted'[i] = u
      BY <2>1, <2>3, <3>1 DEF JobInv
    <3>3. \A x, y \in Thread : job'[x] \cap job'[y] # {} => x = y
      BY <2>1 DEF JobInv
    <3>4. \A x \in Thread :
            /\ pc'[x] # "running" => job'[x] = {}
            /\ pc'[x] = "running" => \E u \in Task : job'[x] = {u}
      BY <2>1, <2>2 DEF JobInv
    <3>. QED
      BY <2>1, <3>2, <3>3, <3>4 DEF JobInv
  <2>. QED
    BY <2>6, <2>7
<1>6. ASSUME NEW x \in Thread, Take(x) PROVE TaskInv' /\ JobInv'
  <2>. DEFINE t == accepted[Begun + 1]
  <2>1. /\ pc[x] \in {"locking", "woken"} /\ pc' = [pc EXCEPT ![x] = "running"]
        /\ queue # <<>> /\ queue' = Tail(queue)
        /\ job' = [job EXCEPT ![x] = {Head(queue)}]
        /\ UNCHANGED <<accepted, finished>>
    BY <1>6 DEF Take
  <2>2. /\ Len(queue) > 0 /\ Len(queue') = Len(queue) - 1
        /\ \A i \in 1..Len(queue) - 1 : queue'[i] = queue[i + 1]
        /\ Head(queue) = queue[1]
    BY <1>types, <2>1
  <2>3. Begun' = Begun + 1 /\ Begun + 1 \in 1..Len(accepted)
    BY <1>types, <2>1, <2>2 DEF Begun
  <2>4. Head(queue) = t /\ t \in Task
    BY <1>types, <2>2, <2>3 DEF TaskInv
  <2>5. job' = [job EXCEPT ![x] = {t}]
    BY <2>1, <2>4
  <2>6. \A i \in 1..Begun : accepted[i] # t
    BY <1>types, <2>3 DEF TaskInv
  <2>7. t \notin finished /\ \A y \in Thread : t \notin job[y]
    BY <2>6 DEF TaskInv, JobInv
  <2>8. job[x] = {}
    BY <2>1 DEF JobInv
  <2>9. \A i \in 1..Begun' : i \in 1..Begun \/ i = Begun + 1
    BY <1>types, <2>3
  <2>10. 1..Begun \subseteq 1..Begun' /\ Begun + 1 \in 1..Begun'
    BY <1>types, <2>3
  <2>11. TaskInv'
    <3>1. Len(queue') <= Len(accepted')
      BY <1>types, <2>1, <2>2
    <3>2. ASSUME NEW i \in 1..Len(queue') PROVE queue'[i] = accepted'[Begun' + i]
      <4>1. i + 1 \in 1..Len(queue) /\ i \in 1..Len(queue) - 1
        BY <1>types, <2>2
      <4>2. queue[i + 1] = accepted[Begun + (i + 1)]
        BY <4>1 DEF TaskInv
      <4>3. Begun + (i + 1) = Begun' + i
        BY <1>types, <2>3
      <4>. QED
        BY <2>1, <2>2, <4>1, <4>2, <4>3
    <3>3. \A i \in 1..Begun' : accepted[i] \in finished \/ \E y \in Thread : accepted[i] \in job'[y]
      <4>1. ASSUME NEW i \in 1..Begun
            PROVE  accepted[i] \in finished \/ \E y \in Thread : accepted[i] \in job'[y]
        BY <1>types, <2>5, <2>8 DEF TaskInv
      <4>2. t \in job'[x]
        BY <1>types, <2>5
      <4>. QED
        BY <2>9, <4>1, <4>2
    <3>4. \A u \in finished : \E i \in 1..Begun' : accepted[i] = u
      BY <2>10 DEF TaskInv
    <3>. QED
      BY <2>1, <3>1, <3>2, <3>3, <3>4 DEF TaskInv
  <2>. HIDE DEF t
  <2>12. JobInv'
    <3>1. \A y \in Thread : pc'[y] # "running" => job'[y] = {}
      BY <1>types, <2>1, <2>5 DEF JobInv
    <3>2. \A y \in Thread : pc'[y] = "running" => \E u \in Task : job'[y] = {u}
      <4>1. job'[x] = {t} /\ t \in Task
        BY <1>types, <2>4, <2>5
      <4>2. \A y \in Thread : y # x => pc'[y] = pc[y] /\ job'[y] = job[y]
        BY <1>types, <2>1, <2>5
      <4>. QED
        BY <4>1, <4>2 DEF JobInv
    <3>3. ASSUME NEW y \in Thread, NEW u \in job'[y]
          PROVE  u \notin finished' /\ \E i \in 1..Begun' : accepted'[i] = u
      <4>1. CASE y = x
        <5>1. u = t
          BY <1>types, <2>5, <4>1
        <5>2. accepted[Begun + 1] = t
          BY DEF t
        <5>. QED
          BY <2>1, <2>7, <2>10, <5>1, <5>2
      <4>2. CASE y # x
        <5>1. u \in job[y]
          BY <1>types, <2>5, <4>2
        <5>. QED
          BY <2>1, <2>10, <5>1 DEF JobInv
      <4>. QED
        BY <4>1, <4>2
    <3>4. \A y, z \in Thread : job'[y] \cap job'[z] # {} => y = z
      BY <1>types, <2>5, <2>7 DEF JobInv
    <3>. QED
      BY <3>1, <3>2, <3>3, <3>4 DEF JobInv
  <2>. QED
    BY <2>11, <2>12
<1>7. ASSUME NEW x \in Thread, Wait(x) PROVE TaskInv' /\ JobInv'
  BY <1>7, <1>types, TasksUntouched DEF Wait
<1>8. ASSUME NEW x \in Thread, Return(x) PROVE TaskInv' /\ JobInv'
  BY <1>8, <1>types, TasksUntouched DEF Return
<1>9. ASSUME NEW x \in Thread, End(x) PROVE TaskInv' /\ JobInv'
  <2>1. \A y \in Thread : pc'[y] = "running" <=> pc[y] = "running"
    BY <1>9, <1>types DEF End
  <2>2. UNCHANGED <<queue, accepted, finished, job>>
    BY <1>9 DEF End
  <2>. QED
    BY <2>1, <2>2, TasksUntouched
<1>10. ASSUME NEW x \in Thread, Finish(x) PROVE TaskInv' /\ JobInv'
  <2>1. /\ pc[x] = "running" /\ pc' = [pc EXCEPT ![x] = "returning"]
        /\ finished' = finished \cup job[x]
        /\ job' = [job EXCEPT ![x] = {}]
        /\ UNCHANGED <<queue, accepted>>
    BY <1>10 DEF Finish
  <2>2. Begun' = Begun
    BY <2>1 DEF Begun
  <2>3. TaskInv'
    <3>1. \A i \in 1..Begun : accepted[i] \in finished' \/ \E y \in Thread : accepted[i] \in job'[y]
      BY <1>types, <2>1 DEF TaskInv
    <3>2. \A u \in finished' : \E i \in 1..Begun : accepted[i] = u
      BY <2>1 DEF TaskInv, JobInv
    <3>. QED
      BY <2>1, <2>2, <3>1, <3>2 DEF TaskInv
  <2>4. JobInv'
    <3>1. \A y \in Thread : pc'[y] # "running" => job'[y] = {}
      BY <1>types, <2>1 DEF JobInv
    <3>2. \A y \in Thread : pc'[y] = "running" => \E u \in Task : job'[y] = {u}
      BY <1>types, <2>1 DEF JobInv
    <3>3. \A y \in Thread : \A u \in job'[y] :
            y # x /\ u \in job[y] /\ u \notin job[x]
      BY <1>types, <2>1 DEF JobInv
    <3>4. \A y, z \in Thread : job'[y] \cap job'[z] # {} => y = z
      BY <3>3 DEF JobInv
    <3>. QED
      BY <2>1, <2>2, <3>1, <3>2, <3>3, <3>4 DEF JobInv
  <2>. QED
    BY <2>3, <2>4
<1>11. ASSUME NEW x \in Thread, Idle(x) PROVE TaskInv' /\ JobInv'
  BY <1>11, <1>types, TasksUntouched DEF Idle
<1>12. CASE UNCHANGED vars
  BY <1>12, TasksUntouched DEF vars
<1>. QED
  BY <1>1, <1>2, <1>3, <1>4, <1>5, <1>6, <1>7, <1>8, <1>9, <1>10, <1>11, <1>12
     DEF Next, Owner, Worker

-----------------------------------------------------------------------------
(* The invariant *)

\* release() returns to a pool that has run everything.
LEMMA DrainedStep ==
  TypeOK /\ ThreadInv /\ CountsAgree /\ StaffInv /\ TaskInv /\ JobInv /\ ReleasedIsDrained
    /\ [Next]_vars
    => ReleasedIsDrained'
<1>. SUFFICES ASSUME TypeOK, ThreadInv, CountsAgree, StaffInv, TaskInv, JobInv,
                     ReleasedIsDrained, [Next]_vars, ~inited'
              PROVE  /\ queue' = <<>>
                     /\ Tasks(accepted') \subseteq finished'
                     /\ \A x \in Thread : pc'[x] \in {"unused", "ended"}
  BY DEF ReleasedIsDrained, Tasks
<1>1. CASE Released
  <2>1. /\ releasing = "joining" /\ toJoin = {} /\ temp = 0
        /\ UNCHANGED <<queue, accepted, finished, pc>>
    BY <1>1 DEF Released
  <2>2. threadList \subseteq joined
    BY <2>1 DEF ThreadInv
  <2>3. \A x \in threadList : pc[x] = "ended"
    BY <2>2 DEF ThreadInv
  <2>4. /\ Normals \in SUBSET Thread /\ Temps \in SUBSET Thread
        /\ normal = Cardinality(Normals) /\ temp = Cardinality(Temps)
    BY CountsForm DEF TypeOK, Normals, Temps
  <2>5. Normals = {}
    BY <2>3 DEF Normals
  <2>6. Temps = {}
    BY <2>1, <2>4, Counting
  <2>7. normal = 0
    BY <2>4, <2>5, Counting
  <2>8. queue = <<>>
    BY <2>1, <2>7 DEF StaffInv
  <2>9. \A x \in Thread : pc[x] \in {"unused", "ended"}
    BY <2>3, <2>6 DEF Temps, TypeOK
  <2>10. \A x \in Thread : job[x] = {}
    BY <2>9 DEF JobInv
  <2>11. Begun = Len(accepted)
    BY <2>8 DEF Begun, TypeOK
  <2>12. \A i \in 1..Len(accepted) : accepted[i] \in finished
    BY <2>10, <2>11 DEF TaskInv
  <2>13. Tasks(accepted) \subseteq finished
    BY <2>12 DEF Tasks, TypeOK
  <2>. QED
    BY <2>1, <2>8, <2>9, <2>13
<1>2. CASE ~inited /\ ~Released
  <2>1. /\ queue = <<>> /\ Tasks(accepted) \subseteq finished
        /\ \A x \in Thread : pc[x] \in {"unused", "ended"}
    BY <1>2 DEF ReleasedIsDrained
  <2>2. ~Initialize
    BY DEF Initialize
  <2>3. ~Release /\ \A t \in Task : ~WakeUp(t)
    BY <1>2 DEF Release, WakeUp
  <2>4. \A x \in Thread : ~Take(x) /\ ~Wait(x) /\ ~End(x) /\ ~Finish(x) /\ ~Idle(x) /\ ~Return(x)
    BY <2>1 DEF Take, Wait, End, Finish, Idle, Return
  <2>5. (\E x \in Thread : Join(x)) \/ UNCHANGED vars
    BY <1>2, <2>2, <2>3, <2>4 DEF Next, Owner, Worker
  <2>6. UNCHANGED <<queue, accepted, finished, pc>>
    BY <2>5 DEF Join, vars
  <2>. QED
    BY <2>1, <2>6
<1>3. CASE inited /\ ~Released
  BY <1>3 DEF Next, Owner, Worker, Initialize, Release, Join, WakeUp, Take, Wait, Return,
     End, Finish, Idle, vars, poolVars
<1>. QED
  BY <1>1, <1>2, <1>3

LEMMA InvInit == Init => IInv
<1>. SUFFICES ASSUME Init PROVE IInv
  OBVIOUS
<1>1. /\ queue = <<>> /\ Len(queue) = 0 /\ accepted = <<>>
      /\ \A x \in Thread : pc[x] = "unused"
      /\ threadList = {} /\ normal = 0 /\ temp = 0 /\ busy = 0
      /\ ~inited
  BY DEF Init
<1>2. Normals = {} /\ Temps = {} /\ Busy = {} /\ Waiting = {}
  BY <1>1 DEF Normals, Temps, Busy, Waiting, In
<1>3. CountsAgree
  BY <1>1, <1>2, CountsForm, FS_EmptySet, Limits
<1>4. StaffInv /\ EnoughThreads
  BY <1>1 DEF StaffInv, EnoughThreads
<1>5. NoLostWakeup
  BY <1>2 DEF NoLostWakeup, Waiting
<1>6. ReleasedIsDrained
  BY <1>1 DEF ReleasedIsDrained, Tasks
<1>. QED
  BY <1>3, <1>4, <1>5, <1>6, ThreadInit, TaskInit DEF IInv

LEMMA InvStep == IInv /\ [Next]_vars => IInv'
BY ThreadStep, CountStep, StaffStep, TaskStep, DrainedStep DEF IInv

LEMMA Invariant == Safety => []IInv
<1>. QED
  BY InvInit, InvStep, PTL DEF Safety

-----------------------------------------------------------------------------
(* Theorems *)

\* The variables keep their types: no counter drops below zero.
THEOREM TypeCorrect == Safety => []TypeOK
<1>1. IInv => TypeOK
  BY DEF IInv
<1>. QED
  BY <1>1, Invariant, PTL

\* _normalThreadCount, _tempThreadCount and _busyThreadCount agree with the
\* threads there are, and the pool keeps to its limits.
THEOREM CountersAreRight == Safety => []CountsAgree
<1>1. IInv => CountsAgree
  BY DEF IInv
<1>. QED
  BY <1>1, Invariant, PTL

\* No task stays queued while threads sleep, unless one is on its way for it.
THEOREM WakeupsAreNotLost == Safety => []NoLostWakeup
<1>1. IInv => NoLostWakeup
  BY DEF IInv
<1>. QED
  BY <1>1, Invariant, PTL

\* A task waits behind a blocked one only in a pool that is at its limit.
THEOREM ThreadsSuffice == Safety => []EnoughThreads
<1>1. IInv => EnoughThreads
  BY DEF IInv
<1>. QED
  BY <1>1, Invariant, PTL

\* When release() has returned, every accepted task has been run and no thread
\* is left.
THEOREM ReleaseDrains == Safety => []ReleasedIsDrained
<1>1. IInv => ReleasedIsDrained
  BY DEF IInv
<1>. QED
  BY <1>1, Invariant, PTL

-----------------------------------------------------------------------------
(* The pool is an executor, as far as safety goes *)

LEMMA ExecutorInit == Init => Exec!Init
<1>. SUFFICES ASSUME Init PROVE Exec!Init
  OBVIOUS
<1>1. Len(accepted) - Len(queue) = 0
  BY DEF Init
<1>. QED
  BY <1>1 DEF Init, Exec!Init

LEMMA ExecutorStep == IInv /\ IInv' /\ [Next]_vars => [Exec!Next]_(Exec!vars)
<1>. SUFFICES ASSUME IInv, IInv', [Next]_vars PROVE [Exec!Next]_(Exec!vars)
  OBVIOUS
<1>types.
      /\ TypeOK
      /\ queue \in Seq(Task) /\ Len(queue) \in Nat
      /\ accepted \in Seq(Task) /\ Len(accepted) \in Nat
      /\ Len(queue) <= Len(accepted)
  BY DEF IInv, TypeOK, TaskInv
<1>1. ASSUME Initialize PROVE Exec!Open
  BY <1>1 DEF Initialize, Exec!Open
<1>2. ASSUME UNCHANGED <<queue, accepted, finished, inited>> PROVE UNCHANGED Exec!vars
  BY <1>2 DEF Exec!vars
<1>3. ASSUME Released PROVE Exec!Close
  <2>1. UNCHANGED <<queue, accepted, finished>> /\ inited' = FALSE
    BY <1>3 DEF Released
  <2>2. Tasks(accepted') \subseteq finished'
    BY <2>1 DEF IInv, ReleasedIsDrained, Tasks
  <2>. QED
    BY <2>1, <2>2 DEF Exec!Close, Exec!Tasks, Tasks
<1>4. ASSUME NEW t \in Task, WakeUp(t) PROVE Exec!Accept(t)
  <2>1. /\ queue' = Append(queue, t) /\ accepted' = Append(accepted, t)
        /\ t \notin Tasks(accepted) /\ inited
        /\ UNCHANGED <<finished, inited>>
    BY <1>4 DEF WakeUp
  <2>2. Len(accepted') - Len(queue') = Len(accepted) - Len(queue)
    BY <1>types, <2>1
  <2>. QED
    BY <2>1, <2>2 DEF Exec!Accept, Exec!Tasks, Tasks
<1>5. ASSUME NEW x \in Thread, Take(x) PROVE Exec!Begin
  <2>1. /\ queue # <<>> /\ queue' = Tail(queue)
        /\ UNCHANGED <<accepted, finished, inited>>
    BY <1>5 DEF Take, poolVars
  <2>2. Len(accepted') - Len(queue') = Len(accepted) - Len(queue) + 1
    BY <1>types, <2>1
  <2>3. Len(accepted) - Len(queue) < Len(accepted)
    BY <1>types, <2>1
  <2>. QED
    BY <2>1, <2>2, <2>3 DEF Exec!Begin
<1>6. ASSUME NEW x \in Thread, Finish(x) PROVE \E t \in Task : Exec!Finish(t)
  <2>1. /\ pc[x] = "running"
        /\ \A t \in job[x] : Awaits[t] \subseteq finished
        /\ finished' = finished \cup job[x]
        /\ UNCHANGED <<queue, accepted, inited>>
    BY <1>6 DEF Finish, poolVars
  <2>2. PICK t \in Task : job[x] = {t}
    BY <2>1 DEF IInv, JobInv
  <2>3. t \notin finished /\ \E i \in 1..Begun : accepted[i] = t
    BY <2>2 DEF IInv, JobInv
  <2>4. Exec!Finish(t)
    BY <2>1, <2>2, <2>3 DEF Exec!Finish, Begun
  <2>. QED
    BY <2>4
<1>7. CASE \/ Release \/ UNCHANGED vars
           \/ \E x \in Thread : Join(x) \/ Wait(x) \/ Return(x) \/ End(x) \/ Idle(x)
  <2>1. UNCHANGED <<queue, accepted, finished, inited>>
    BY <1>7 DEF Release, Join, Wait, Return, End, Idle, poolVars, vars
  <2>. QED
    BY <1>2, <2>1
<1>. QED
  BY <1>1, <1>3, <1>4, <1>5, <1>6, <1>7 DEF Next, Owner, Worker, Exec!Next

\* Tasks are begun in the order of wakeUp(), each once, and release() returns
\* when they have all been run.
THEOREM PoolIsExecutor == Safety => Exec!Safety
<1>. QED
  BY ExecutorInit, ExecutorStep, Invariant, PTL DEF Safety, Exec!Safety

=============================================================================
