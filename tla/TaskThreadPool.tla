--------------------------- MODULE TaskThreadPool ---------------------------
(***************************************************************************)
(* TaskThreadPool (base/TaskThreadPool.h/.cpp): the pool that runs every   *)
(* callback, connection event and close task of the SDK.                   *)
(*                                                                         *)
(*   - any thread: wakeUp(), also from inside a task;                      *)
(*   - normal threads, process(), kept until the pool is released;         *)
(*   - temporary threads, temporaryProcess(), detached, which end when     *)
(*     they have been idle for a while;                                    *)
(*   - one thread that calls init() and release().                         *)
(*                                                                         *)
(* One action is one critical section of _mutex, or a step outside of it.  *)
(* No caller hands in an empty task, so `if (!task) continue' is left out. *)
(* A task may block until other tasks have been run, as connect() does in  *)
(* a callback; what it throws is swallowed.  wakeUp() reads _inited before *)
(* it locks; _willExit stays true from release() to the next init(), so    *)
(* the outcome is that of reading both under the lock.                     *)
(***************************************************************************)
EXTENDS Integers, Sequences, FiniteSets

CONSTANTS
  Task,             \* tasks that are handed to wakeUp(), each once
  Awaits,           \* [Task -> SUBSET Task], tasks it blocks for while it runs
  Thread,           \* names of threads (a bound on how many can be started)
  InitCount, AppendCount, PerfectArg, MaxArg,   \* arguments of init(); a
  MaxQueueLength,                               \* MaxArg or MaxQueueLength of
  Latency                                       \* 0 stands for "no limit", and a
                                                \* pool may start some thread

ASSUME CountAssumption ==
  /\ {InitCount, AppendCount, PerfectArg, MaxArg, MaxQueueLength, Latency} \subseteq Nat
  /\ InitCount + AppendCount > 0
  /\ IsFiniteSet(Thread)
ASSUME AwaitsAssumption == Awaits \in [Task -> SUBSET Task]

\* ReviseDataRelation(): 0 <= InitCount <= PerfectCount <= MaxCount, if there is
\* a maximum.
Least(m, n) == IF m < n THEN m ELSE n
Greatest(m, n) == IF m < n THEN n ELSE m
MaxCount == IF MaxArg > 0 THEN Greatest(MaxArg, InitCount) ELSE 0
PerfectCount ==
  Greatest(IF MaxArg > 0 THEN Least(PerfectArg, MaxCount) ELSE PerfectArg, InitCount)

VARIABLES
  inited, willExit,     \* _inited, _willExit
  queue,                \* _taskQueue
  normal, temp, busy,   \* _normalThreadCount, _tempThreadCount, _busyThreadCount
  threadList,           \* _threadList: the normal threads ever started
  joined,               \* those of them that have been joined
  pc,                   \* [Thread -> where the thread is]
  job,                  \* [Thread -> the task it runs, as a set of at most one]
  releasing,            \* where release() is
  toJoin,               \* the threads release() has still to join
  accepted, finished    \* history: tasks accepted (in order), tasks run

countVars == <<normal, temp, busy>>
poolVars == <<inited, willExit, threadList, joined>>
releaseVars == <<releasing, toJoin>>
vars == <<poolVars, queue, countVars, pc, job, releaseVars, accepted, finished>>

\* A thread waits for the lock ("locking", or "woken" if it has been waiting for
\* _condition), waits for _condition, runs a task, or has run it.  A temporary
\* thread that has ended leaves nothing behind: its name is unused again.
Pc == {"unused", "locking", "woken", "waiting", "running", "returning", "ended"}

TypeOK ==
  /\ inited \in BOOLEAN /\ willExit \in BOOLEAN
  /\ queue \in Seq(Task)
  /\ normal \in Nat /\ temp \in Nat /\ busy \in Nat
  /\ threadList \in SUBSET Thread
  /\ joined \in SUBSET threadList
  /\ pc \in [Thread -> Pc]
  /\ job \in [Thread -> SUBSET Task]
  /\ releasing \in {"no", "joining", "failed"}
  /\ toJoin \in SUBSET threadList
  /\ accepted \in Seq(Task)
  /\ finished \in SUBSET Task

Init ==
  /\ inited = FALSE /\ willExit = FALSE
  /\ queue = <<>>
  /\ normal = 0 /\ temp = 0 /\ busy = 0
  /\ threadList = {} /\ joined = {}
  /\ pc = [x \in Thread |-> "unused"]
  /\ job = [x \in Thread |-> {}]
  /\ releasing = "no" /\ toJoin = {}
  /\ accepted = <<>> /\ finished = {}

-----------------------------------------------------------------------------
(* Helpers *)

In(s) == {x \in Thread : pc[x] \in s}
Tasks(s) == {s[i] : i \in DOMAIN s}

\* Some n threads that have not been started.
CanStart(n) == \E S \in SUBSET In({"unused"}) : Cardinality(S) = n
NewThreads(n) == CHOOSE S \in SUBSET In({"unused"}) : Cardinality(S) = n

\* Mutant: the maximum is not looked at.
AppendTempUnbounded == IF AppendCount > 0 /\ normal >= PerfectCount THEN 1 ELSE 0

\* append(): how many normal and how many temporary threads it starts.
AppendNormal == IF normal < PerfectCount THEN Least(AppendCount, PerfectCount - normal) ELSE 0
AppendTemp ==
  IF /\ AppendCount > 0 /\ normal >= PerfectCount
     /\ MaxCount > 0 => temp + normal < MaxCount
    THEN 1 ELSE 0

\* Mutant: a thread is appended only when all of them are busy already.
TooBusyLate == busy + Len(queue) > normal + temp

\* The condition under which wakeUp() appends threads, once the task is queued.
TooBusy == busy + Len(queue) + 1 > normal + temp

\* Mutant: a thread is notified only when the queue was empty.
StartAndNotifyIfEmpty(S) ==
  \/ /\ In({"waiting"}) = {} \/ queue # <<>>
     /\ pc' = [x \in Thread |-> IF x \in S THEN "locking" ELSE pc[x]]
  \/ \E w \in In({"waiting"}) :
       /\ queue = <<>>
       /\ pc' = [x \in Thread |-> IF x = w THEN "woken"
                                  ELSE IF x \in S THEN "locking" ELSE pc[x]]

\* The threads of S start; one waiting thread, if there is one, is notified.
StartAndNotifyOne(S) ==
  \/ /\ In({"waiting"}) = {}
     /\ pc' = [x \in Thread |-> IF x \in S THEN "locking" ELSE pc[x]]
  \/ \E w \in In({"waiting"}) :
       pc' = [x \in Thread |-> IF x = w THEN "woken"
                               ELSE IF x \in S THEN "locking" ELSE pc[x]]

-----------------------------------------------------------------------------
(* The owner of the pool *)

\* init().  A pool that is initialised already is left alone.
Initialize ==
  /\ ~inited /\ releasing = "no"
  /\ CanStart(InitCount)
  /\ LET S == NewThreads(InitCount)
     IN  /\ pc' = [x \in Thread |-> IF x \in S THEN "locking" ELSE pc[x]]
         /\ threadList' = threadList \cup S
  /\ inited' = TRUE /\ willExit' = FALSE
  /\ normal' = InitCount /\ temp' = 0 /\ busy' = 0
  /\ UNCHANGED <<joined, queue, job, releaseVars, accepted, finished>>

\* Mutant: the waiting threads are not told.
ReleaseSilently ==
  /\ inited /\ releasing = "no"
  /\ willExit' = TRUE
  /\ releasing' = "joining"
  /\ toJoin' = threadList
  /\ UNCHANGED <<pc, inited, threadList, joined, queue, countVars, job, accepted, finished>>

\* release(): the threads are told to end once the queue is empty ...
Release ==
  /\ inited /\ releasing = "no"
  /\ willExit' = TRUE
  /\ pc' = [x \in Thread |-> IF pc[x] = "waiting" THEN "woken" ELSE pc[x]]
  /\ releasing' = "joining"
  /\ toJoin' = threadList
  /\ UNCHANGED <<inited, threadList, joined, queue, countVars, job, accepted, finished>>

\* ... the normal ones are joined; _threadList is never emptied, so a thread of
\* an earlier life of the pool is joined again, and join() throws.
Join(x) ==
  /\ releasing = "joining" /\ x \in toJoin
  /\ IF x \in joined
       THEN releasing' = "failed" /\ UNCHANGED <<toJoin, joined>>
       ELSE /\ pc[x] = "ended"
            /\ joined' = joined \cup {x}
            /\ toJoin' = toJoin \ {x}
            /\ UNCHANGED releasing
  /\ UNCHANGED <<inited, willExit, threadList, queue, countVars, pc, job, accepted, finished>>

\* Mutant: release() does not wait for the temporary threads.
ReleasedEarly ==
  /\ releasing = "joining" /\ toJoin = {}
  /\ releasing' = "no"
  /\ inited' = FALSE
  /\ UNCHANGED <<willExit, threadList, joined, queue, countVars, pc, job, toJoin,
                 accepted, finished>>

\* ... and the temporary ones are waited for.
Released ==
  /\ releasing = "joining" /\ toJoin = {}
  /\ temp = 0
  /\ releasing' = "no"
  /\ inited' = FALSE
  /\ UNCHANGED <<willExit, threadList, joined, queue, countVars, pc, job, toJoin,
                 accepted, finished>>

-----------------------------------------------------------------------------
(* wakeUp() *)

\* The task is accepted.  A pool that is not initialised, is being released or
\* has a full queue refuses it and changes nothing, which is not an action.
WakeUp(t) ==
  /\ t \notin Tasks(accepted)
  /\ inited /\ ~willExit
  /\ MaxQueueLength > 0 => Len(queue) < MaxQueueLength
  /\ queue' = Append(queue, t)
  /\ accepted' = Append(accepted, t)
  /\ LET n == IF TooBusy THEN AppendNormal ELSE 0
         m == IF TooBusy THEN AppendTemp ELSE 0
         S == NewThreads(n + m)
     IN  /\ CanStart(n + m)
         /\ normal' = normal + n
         /\ temp' = temp + m
         /\ threadList' = IF n > 0 THEN threadList \cup S ELSE threadList
         /\ StartAndNotifyOne(S)
  /\ UNCHANGED <<inited, willExit, joined, busy, job, releaseVars, finished>>

-----------------------------------------------------------------------------
(* The threads of the pool *)

IsTemp(x) == x \notin threadList

\* The thread has the lock and finds a task.
Take(x) ==
  /\ pc[x] \in {"locking", "woken"}
  /\ queue # <<>>
  /\ queue' = Tail(queue)
  /\ busy' = busy + 1
  /\ job' = [job EXCEPT ![x] = {Head(queue)}]
  /\ pc' = [pc EXCEPT ![x] = "running"]
  /\ UNCHANGED <<poolVars, normal, temp, releaseVars, accepted, finished>>

\* It finds none, and waits.
Wait(x) ==
  /\ pc[x] \in {"locking", "woken"}
  /\ queue = <<>> /\ ~willExit
  /\ IsTemp(x) => Latency > 0
  /\ pc' = [pc EXCEPT ![x] = "waiting"]
  /\ UNCHANGED <<poolVars, queue, countVars, job, releaseVars, accepted, finished>>

\* wait() or wait_for() returns without a notification: spuriously, or because
\* the latency of a temporary thread is over.
Return(x) ==
  /\ pc[x] = "waiting"
  /\ pc' = [pc EXCEPT ![x] = "woken"]
  /\ UNCHANGED <<poolVars, queue, countVars, job, releaseVars, accepted, finished>>

\* Mutant: temporaryProcess() counts the normal threads, as process() does.
EndCountsNormal(x) ==
  /\ pc[x] \in {"locking", "woken"}
  /\ queue = <<>>
  /\ \/ willExit
     \/ IsTemp(x) /\ (Latency = 0 \/ pc[x] = "woken")
  /\ normal' = normal - 1
  /\ pc' = [pc EXCEPT ![x] = IF IsTemp(x) THEN "unused" ELSE "ended"]
  /\ UNCHANGED <<poolVars, queue, temp, busy, job, releaseVars, accepted, finished>>

\* Mutant: a temporary thread does not look at the queue again when its latency
\* is over.
EndWithTask(x) ==
  /\ pc[x] \in {"locking", "woken"}
  /\ \/ queue = <<>> /\ willExit
     \/ IsTemp(x) /\ ((queue = <<>> /\ Latency = 0) \/ pc[x] = "woken")
  /\ IF IsTemp(x)
       THEN temp' = temp - 1 /\ pc' = [pc EXCEPT ![x] = "unused"] /\ UNCHANGED normal
       ELSE normal' = normal - 1 /\ pc' = [pc EXCEPT ![x] = "ended"] /\ UNCHANGED temp
  /\ UNCHANGED <<poolVars, queue, busy, job, releaseVars, accepted, finished>>

\* It finds none and ends, because the pool is being released, or because it is
\* temporary and its latency is over (which it may be after any wait).
End(x) ==
  /\ pc[x] \in {"locking", "woken"}
  /\ queue = <<>>
  /\ \/ willExit
     \/ IsTemp(x) /\ (Latency = 0 \/ pc[x] = "woken")
  /\ IF IsTemp(x)
       THEN temp' = temp - 1 /\ pc' = [pc EXCEPT ![x] = "unused"] /\ UNCHANGED normal
       ELSE normal' = normal - 1 /\ pc' = [pc EXCEPT ![x] = "ended"] /\ UNCHANGED temp
  /\ UNCHANGED <<poolVars, queue, busy, job, releaseVars, accepted, finished>>

\* The task returns or throws, outside of the lock ...
Finish(x) ==
  /\ pc[x] = "running"
  /\ \A t \in job[x] : Awaits[t] \subseteq finished
  /\ finished' = finished \cup job[x]
  /\ job' = [job EXCEPT ![x] = {}]
  /\ pc' = [pc EXCEPT ![x] = "returning"]
  /\ UNCHANGED <<poolVars, queue, countVars, releaseVars, accepted>>

\* ... and the thread locks to count itself out.
Idle(x) ==
  /\ pc[x] = "returning"
  /\ busy' = busy - 1
  /\ pc' = [pc EXCEPT ![x] = "locking"]
  /\ UNCHANGED <<poolVars, queue, normal, temp, job, releaseVars, accepted, finished>>

-----------------------------------------------------------------------------
Owner == Initialize \/ Release \/ Released \/ \E x \in Thread : Join(x)

Worker(x) == Take(x) \/ Wait(x) \/ End(x) \/ Finish(x) \/ Idle(x)

Next ==
  \/ Owner
  \/ \E t \in Task : WakeUp(t)
  \/ \E x \in Thread : Worker(x) \/ Return(x)

Safety == Init /\ [][Next]_vars

\* The threads of the pool run, and so does the one in release().  Nobody need
\* hand in a task, and no wait need return without a notification.
Fairness ==
  /\ \A x \in Thread : WF_vars(Worker(x)) /\ WF_vars(Join(x))
  /\ WF_vars(Released)

Spec == Safety /\ Fairness

-----------------------------------------------------------------------------
(* Properties *)

\* Threads that wait while tasks are queued are not needed for them: for every
\* queued task some thread is on its way to the lock.  A notification that goes
\* to a thread that ends, or to nobody because all threads were busy, must not
\* leave a task behind.
NoLostWakeup ==
  In({"waiting"}) # {} => Len(queue) <= Cardinality(In({"locking", "woken"}))

\* The pool has a thread of its own for every task it has accepted and not
\* finished, or as many as it may have: a task waits behind a blocked one only
\* at the limit.
AtLimit ==
  \/ AppendCount = 0
  \/ normal >= PerfectCount /\ MaxCount > 0 /\ temp + normal >= MaxCount
EnoughThreads == busy + Len(queue) <= normal + temp \/ AtLimit

\* The counters that decide this agree with the threads there are, and the pool
\* never has more than it may.
CountsAgree ==
  /\ normal = Cardinality({x \in threadList : pc[x] # "ended"})
  /\ temp = Cardinality({x \in Thread \ threadList : pc[x] # "unused"})
  /\ busy = Cardinality(In({"running", "returning"}))
  /\ normal <= PerfectCount
  /\ MaxCount > 0 => temp + normal <= MaxCount

\* When release() has returned, every accepted task has been run, and no thread
\* is left that would touch the pool.
ReleasedIsDrained ==
  ~inited =>
    /\ queue = <<>>
    /\ Tasks(accepted) \subseteq finished
    /\ \A x \in Thread : pc[x] \in {"unused", "ended"}

\* release() returns: no thread sleeps on.  (It waits for ever, as it must, if
\* a task blocks for one that was never accepted.)
BlockedForEver == \E t \in Tasks(accepted) : ~(Awaits[t] \subseteq Tasks(accepted))
ReleaseReturns ==
  releasing = "joining" /\ ~BlockedForEver ~> releasing # "joining"

\* release() does what it is for.
ReleaseSucceeds == releasing # "failed"

\* The pool is an executor.
Exec == INSTANCE Executor WITH
  begun <- Len(accepted) - Len(queue),
  open <- inited

ImplementsExecutor == Exec!Spec

=============================================================================
