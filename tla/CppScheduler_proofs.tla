------------------------ MODULE CppScheduler_proofs ------------------------
(***************************************************************************)
(* Safety of CppScheduler for any callers, threads, workloads and calls.   *)
(* ThreadsJoined and AllExecuted hold even if workloads throw; the rest is *)
(* about workloads that do not: TLC refutes it once they may.              *)
(***************************************************************************)
EXTENDS CppScheduler, TLAPS

Resizing == {"destroy", "stop", "join"}

\* A worker that has been given work, or runs it.
Engaged(w) == wait_for_work[w] \/ state[w] = "running"

MutexHeld == \A c \in Callers : mutex = c <=> pc[c] # "idle"

PoolWhole ==
  (\A c \in Callers : pc[c] \notin Resizing) => threads = num_threads - 1

CallerOK(c) ==
  /\ pc[c] \in InCall =>
       /\ 1 <= team[c] /\ team[c] <= threads + 1
       /\ team[c] <= size[c] /\ team[c] <= feeder[c]
  /\ pc[c] = "start" => t[c] <= team[c] - 1
  /\ pc[c] = "raise" => t[c] < team[c] - 1 /\ workloads[t[c]] = Current(c)
  /\ pc[c] = "stop" => workloads[t[c]] = NoCall
  /\ pc[c] \in {"wait", "asleep", "destroy"} => t[c] <= threads
  /\ pc[c] \in {"stop", "join"} => t[c] < threads
  /\ pc[c] \in {"wait", "asleep", "return"} => size[c] <= feeder[c]
  /\ pc[c] = "own" =>
       index[c] \in {team[c] - 1} \cup (team[c] .. feeder[c] - 1)

CallerSane == \A c \in Callers : CallerOK(c)

\* Worker w is one of those the call has reached and not waited for.
InTeam(c, w) ==
  /\ w < team[c] - 1
  /\ pc[c] \in {"start", "raise"} => w < t[c]
  /\ pc[c] \in {"wait", "asleep"} => t[c] <= w

EngagedSane(w) ==
  Engaged(w) => /\ mutex \in Callers /\ w < threads /\ ~job_complete[w]
                /\ pc[mutex] \in InCall \cup {"join"}
                /\ pc[mutex] \in InCall => InTeam(mutex, w)

WaitingSane(w) ==
  wait_for_work[w] =>
    IF pc[mutex] = "join" THEN w = t[mutex] /\ workloads[w] = NoCall
                          ELSE workloads[w] = Current(mutex)

RunningSane(w) ==
  state[w] = "running" =>
    /\ ~wait_for_work[w]
    /\ pc[mutex] \in InCall
    /\ serving[w] = Current(mutex)
    /\ item[w] < size[mutex]
    /\ item[w] \in {w} \cup (team[mutex] .. feeder[mutex] - 1)

ExitedSane(w) ==
  state[w] = "exited" =>
    /\ ~wait_for_work[w]
    /\ mutex \in Callers /\ pc[mutex] \in Resizing
    /\ IF pc[mutex] = "join" THEN w <= t[mutex] ELSE w < t[mutex]

WorkerOK(w) ==
  EngagedSane(w) /\ WaitingSane(w) /\ RunningSane(w) /\ ExitedSane(w)

WorkerSane == \A w \in Workers : WorkerOK(w)

\* Workload i of c is being run, or is still to be handed out.
Busy(c, i) ==
  \/ pc[c] = "own" /\ index[c] = i
  \/ \E w \in Workers : state[w] = "running" /\ item[w] = i
Awaited(c, i) ==
  \/ feeder[c] <= i
  \/ i = team[c] - 1 /\ pc[c] \in {"start", "raise"}
  \/ i < team[c] - 1 /\ (wait_for_work[i] \/ (pc[c] \in {"start", "raise"} /\ t[c] <= i))

ItemsDistinct ==
  \A w \in Workers : state[w] = "running" =>
    /\ \A v \in Workers : state[v] = "running" /\ v # w => item[v] # item[w]
    /\ pc[mutex] = "own" => index[mutex] # item[w]

RunsCounted ==
  \A c \in Callers : pc[c] \in InCall \cup {"return"} =>
    \A i \in 0 .. size[c] - 1 :
      runs[c][i] = IF Busy(c, i) \/ Awaited(c, i) THEN 0 ELSE 1

NoException == \A w \in Workers : ~exception[w]

IInv ==
  /\ TypeOK /\ MutexHeld /\ PoolWhole /\ CallerSane /\ WorkerSane
  /\ ItemsDistinct /\ RunsCounted /\ NoException
-----------------------------------------------------------------------------
\* If no workload throws, the steps that a thrown exception leads to are never
\* taken.
LEMMA StepCases ==
  ASSUME ~MayThrow, IInv, [Next]_vars
  PROVE  \/ \E c \in Callers, n \in 0 .. MaxWorkloads : Lock(c, n)
         \/ \E c \in Callers, n \in 1 .. MaxThreads, k \in 0 .. threads :
              LockToResize(c, n, k)
         \/ \E c \in Callers :
              \/ StartThread(c) \/ RaiseFlags(c) \/ BeginOwn(c) \/ NextOwn(c)
              \/ WaitForThread(c) \/ WakeSpuriously(c) \/ AllWaited(c)
              \/ Return(c) \/ Destroy(c) \/ Stop(c) \/ Join(c) \/ Create(c)
         \/ \E w \in Workers :
              \/ TakeWork(w) \/ Sleep(w) \/ WakeWorkerSpuriously(w)
              \/ NextItem(w)
         \/ UNCHANGED vars
<1>1. \A w \in Workers : ~NextItemDangling(w)
  BY
     DEF IInv, WorkerSane, WorkerOK, RunningSane, EngagedSane, TypeOK,
         NextItemDangling, Alive, Current, Engaged
<1>2. /\ \A c \in Callers : ~ThrowOwn(c)
      /\ \A w \in Workers : ~ThrowItem(w)
  BY DEF ThrowOwn, ThrowItem
<1>3. \A n \in 1 .. MaxThreads : Smaller(n - 1, threads) \in 0 .. threads
  BY SchedulerAssumption DEF Smaller, IInv, TypeOK, PoolType
<1>4. 0 \in 0 .. threads
  BY SchedulerAssumption DEF IInv, TypeOK, PoolType
<1>5. ASSUME NEW c \in Callers, Call(c)
      PROVE  \/ \E n \in 0 .. MaxWorkloads : Lock(c, n)
             \/ \E n \in 1 .. MaxThreads, k \in 0 .. threads :
                  LockToResize(c, n, k)
  BY <1>3, <1>4, <1>5 DEF Call
<1> QED
  BY <1>1, <1>2, <1>5 DEF Next, CallerStep, WorkerStep

\* A worker that has been given work is in the team of the call that holds
\* the mutex, and has been given that call; or it is being stopped.
LEMMA WorkIsOwed ==
  ASSUME IInv, NEW w \in Workers, wait_for_work[w]
  PROVE  /\ mutex \in Callers /\ w < threads
         /\ \/ /\ pc[mutex] \in InCall
               /\ workloads[w] = Current(mutex) /\ workloads[w] # NoCall
               /\ InTeam(mutex, w) /\ w < team[mutex] /\ team[mutex] <= size[mutex]
            \/ pc[mutex] = "join" /\ w = t[mutex] /\ workloads[w] = NoCall
<1>1. \A c \in Callers : Current(c) # NoCall
  BY DEF Current, NoCall
<1>2. mutex \in Callers /\ w < threads /\ pc[mutex] \in InCall \cup {"join"}
      /\ (pc[mutex] \in InCall => InTeam(mutex, w))
  BY DEF IInv, WorkerSane, WorkerOK, EngagedSane, RunningSane, Engaged
<1>3. IF pc[mutex] = "join" THEN w = t[mutex] /\ workloads[w] = NoCall
                            ELSE workloads[w] = Current(mutex)
  BY DEF IInv, WorkerSane, WorkerOK, WaitingSane
<1>4. pc[mutex] \in InCall => team[mutex] <= size[mutex]
  BY <1>2 DEF IInv, CallerSane, CallerOK
<1>5. w < team[mutex] - 1 => w < team[mutex]
  BY <1>2 DEF IInv, TypeOK, CallType, Workers
<1> QED
  BY <1>1, <1>2, <1>3, <1>4, <1>5 DEF InTeam, InCall

\* A running worker runs for the call that holds the mutex.
LEMMA Runner ==
  ASSUME IInv, NEW w \in Workers, state[w] = "running"
  PROVE  /\ mutex \in Callers /\ pc[mutex] \in InCall
         /\ serving[w] = Current(mutex) /\ serving[w][1] = mutex
         /\ w < threads /\ InTeam(mutex, w) /\ Alive(serving[w])
         /\ ~wait_for_work[w] /\ ~job_complete[w]
BY
   DEF IInv, WorkerSane, WorkerOK, EngagedSane, RunningSane, Engaged, Current,
       Alive

\* Between calls, when one returns and while no thread is being stopped, no
\* worker has work.
LEMMA NobodyWorks ==
  ASSUME IInv, NEW w \in Workers,
         mutex \notin Callers \/ pc[mutex] \in {"return", "destroy", "stop"}
  PROVE  ~wait_for_work[w] /\ state[w] # "running"
BY DEF IInv, WorkerSane, WorkerOK, EngagedSane, Engaged, InCall

\* A caller waits for a thread of the pool.
LEMMA WaitsInPool ==
  ASSUME IInv, NEW c \in Callers, WaitForThread(c)
  PROVE  t[c] < threads /\ t[c] \in Workers
<1>1. t[c] \in Nat /\ threads \in 0 .. MaxThreads - 1
  BY SchedulerAssumption DEF IInv, TypeOK, PoolType, CallType
<1>2. t[c] <= threads /\ t[c] # threads
  BY DEF WaitForThread, Lockable, WaitedForAll, IInv, CallerSane, CallerOK
<1> QED
  BY <1>1, <1>2, SchedulerAssumption DEF Workers

\* Every step keeps the types.
LEMMA TypeStep ==
  ASSUME ~MayThrow, IInv, [Next]_vars
  PROVE  TypeOK'
<1> USE SchedulerAssumption DEF callVars, workVars, flagVars, poolVars
<1> PoolType /\ CallType /\ FeedType /\ WorkType /\ FlagType
  BY DEF IInv, TypeOK
<1>c. NoCall \in Call_s /\ \A c \in Callers : Current(c) \in Call_s
  BY DEF NoCall, Call_s, Current, CallType
<1>1. ASSUME NEW c \in Callers, NEW n \in 0 .. MaxWorkloads, Lock(c, n)
      PROVE  TypeOK'
  <2>1. FirstFed(Smaller(num_threads, n)) \in Nat
        /\ Smaller(num_threads, n) \in 0 .. MaxThreads
    BY DEF FirstFed, Smaller, PoolType
  <2>2. PoolType' /\ WorkType' /\ FlagType'
    BY <1>1 DEF Lock, PoolType, WorkType, FlagType
  <2>3. CallType'
    BY <1>1, <2>1 DEF Lock, Goto, CallType, InCall
  <2>4. FeedType'
    BY <1>1, <2>1 DEF Lock, Goto, FeedType, CallType
  <2> QED
    BY <2>2, <2>3, <2>4 DEF TypeOK
<1>2. ASSUME NEW c \in Callers, NEW n \in 1 .. MaxThreads,
             NEW k \in 0 .. threads, LockToResize(c, n, k)
      PROVE  TypeOK'
  <2>1. PoolType' /\ WorkType' /\ FlagType'
    BY <1>2 DEF LockToResize, PoolType, WorkType, FlagType
  <2>2. CallType' /\ FeedType'
    BY <1>2 DEF LockToResize, Goto, CallType, FeedType, PoolType
  <2> QED
    BY <2>1, <2>2 DEF TypeOK
<1>3. ASSUME NEW c \in Callers, StartThread(c) PROVE TypeOK'
  <2>1. PoolType' /\ WorkType' /\ FlagType'
    BY <1>3, <1>c DEF StartThread, PoolType, WorkType, FlagType
  <2>2. CallType' /\ FeedType'
    BY <1>3 DEF StartThread, Goto, CallType, FeedType, InCall
  <2> QED
    BY <2>1, <2>2 DEF TypeOK
<1>4. ASSUME NEW c \in Callers, RaiseFlags(c) PROVE TypeOK'
  <2>1. t[c] + 1 \in 0 .. MaxThreads - 1
    BY <1>4
       DEF RaiseFlags, Lockable, IInv, CallerSane, CallerOK, CallType, InCall, PoolType
  <2>2. PoolType' /\ WorkType' /\ FlagType'
    BY <1>4 DEF RaiseFlags, Lockable, Raise, WakeWorker, PoolType, WorkType, FlagType
  <2>3. CallType'
    BY <1>4, <2>1 DEF RaiseFlags, Lockable, Goto, CallType, InCall
  <2>4. FeedType'
    BY <1>4 DEF RaiseFlags, Lockable, Goto, CallType, FeedType
  <2> QED
    BY <2>2, <2>3, <2>4 DEF TypeOK
<1>5. ASSUME NEW c \in Callers, BeginOwn(c) PROVE TypeOK'
  <2>1. t[c] \in 0 .. size[c] - 1
    BY <1>5 DEF BeginOwn, IInv, CallerSane, CallerOK, InCall, CallType
  <2>2. PoolType' /\ WorkType' /\ FlagType'
    BY <1>5 DEF BeginOwn, PoolType, WorkType, FlagType
  <2>3. CallType' /\ FeedType'
    BY <1>5, <2>1 DEF BeginOwn, Goto, CallType, FeedType, InCall
  <2> QED
    BY <2>2, <2>3 DEF TypeOK
<1>6. ASSUME NEW c \in Callers, NextOwn(c) PROVE TypeOK'
  <2>1. PoolType' /\ WorkType' /\ FlagType'
    BY <1>6 DEF NextOwn, PoolType, WorkType, FlagType
  <2>2. CallType'
    BY <1>6 DEF NextOwn, Goto, CallType, InCall
  <2>3. runs' \in [Callers -> [Indices -> Nat]] /\ feeder' \in [Callers -> Nat]
    <3>1. index[c] \in Indices
      BY <1>6 DEF NextOwn, FeedType, CallType, Indices
    <3> QED
      BY <1>6, <3>1 DEF NextOwn, RanOne, FeedType
  <2>4. index' \in [Callers -> Nat]
    BY <1>6 DEF NextOwn, FeedType
  <2>5. \A d \in Callers : pc'[d] = "own" => index'[d] \in 0 .. size'[d] - 1
    <3>1. FeedOver(c) \/ feeder[c] \in 0 .. size[c] - 1
      BY DEF FeedOver, FeedType, CallType
    <3> QED
      BY <1>6, <3>1 DEF NextOwn, Goto, CallType, FeedType
  <2>6. FeedType'
    BY <2>3, <2>4, <2>5 DEF FeedType
  <2> QED
    BY <2>1, <2>2, <2>6 DEF TypeOK
<1>7. ASSUME NEW c \in Callers, WaitForThread(c) PROVE TypeOK'
  <2>1. t[c] < threads
    BY <1>7
       DEF WaitForThread, Lockable, WaitedForAll, IInv, CallerSane, CallerOK, CallType,
           PoolType
  <2>2. PoolType' /\ WorkType' /\ FlagType'
    BY <1>7 DEF WaitForThread, Lockable, PoolType, WorkType, FlagType
  <2>3. CallType'
    BY <1>7, <2>1 DEF WaitForThread, Lockable, Goto, CallType, InCall, PoolType
  <2>4. FeedType'
    BY <1>7 DEF WaitForThread, Lockable, Goto, CallType, FeedType
  <2> QED
    BY <2>2, <2>3, <2>4 DEF TypeOK
<1>8. ASSUME NEW c \in Callers, WakeSpuriously(c) PROVE TypeOK'
  <2>1. PoolType' /\ WorkType' /\ FlagType'
    BY <1>8 DEF WakeSpuriously, PoolType, WorkType, FlagType
  <2>2. CallType' /\ FeedType'
    BY <1>8 DEF WakeSpuriously, Goto, CallType, FeedType, InCall
  <2> QED
    BY <2>1, <2>2 DEF TypeOK
<1>9. ASSUME NEW c \in Callers, AllWaited(c) PROVE TypeOK'
  <2>1. PoolType' /\ WorkType' /\ FlagType'
    BY <1>9 DEF AllWaited, PoolType, WorkType, FlagType
  <2>2. CallType' /\ FeedType'
    BY <1>9 DEF AllWaited, Goto, CallType, FeedType, InCall
  <2> QED
    BY <2>1, <2>2 DEF TypeOK
<1>10. ASSUME NEW c \in Callers, Return(c) PROVE TypeOK'
  <2>1. PoolType' /\ WorkType' /\ FlagType'
    BY <1>10 DEF Return, PoolType, WorkType, FlagType
  <2>2. CallType' /\ FeedType'
    BY <1>10 DEF Return, Goto, CallType, FeedType, InCall
  <2> QED
    BY <2>1, <2>2 DEF TypeOK
<1>11. ASSUME NEW c \in Callers, Destroy(c) PROVE TypeOK'
  <2>1. PoolType' /\ WorkType' /\ FlagType'
    BY <1>11, <1>c DEF Destroy, PoolType, WorkType, FlagType
  <2>2. CallType' /\ FeedType'
    BY <1>11 DEF Destroy, Goto, CallType, FeedType, InCall
  <2> QED
    BY <2>1, <2>2 DEF TypeOK
<1>12. ASSUME NEW c \in Callers, Stop(c) PROVE TypeOK'
  <2>1. PoolType' /\ WorkType' /\ FlagType'
    BY <1>12 DEF Stop, Lockable, Raise, WakeWorker, PoolType, WorkType, FlagType
  <2>2. CallType' /\ FeedType'
    BY <1>12 DEF Stop, Lockable, Goto, CallType, FeedType, InCall
  <2> QED
    BY <2>1, <2>2 DEF TypeOK
<1>13. ASSUME NEW c \in Callers, Join(c) PROVE TypeOK'
  <2>1. t[c] < threads
    BY <1>13 DEF Join, IInv, CallerSane, CallerOK
  <2>2. PoolType' /\ WorkType' /\ FlagType'
    BY <1>13 DEF Join, PoolType, WorkType, FlagType
  <2>3. CallType' /\ FeedType'
    BY <1>13, <2>1 DEF Join, Goto, CallType, FeedType, PoolType
  <2> QED
    BY <2>2, <2>3 DEF TypeOK
<1>14. ASSUME NEW c \in Callers, Create(c) PROVE TypeOK'
  <2>1. PoolType'
    BY <1>14 DEF Create, PoolType
  <2>2. WorkType'
    BY <1>14, <1>c DEF Create, WorkType
  <2>4. FlagType'
    BY <1>14, Zenon DEF Create, NewComplete, FlagType
  <2>3. CallType' /\ FeedType'
    BY <1>14 DEF Create, Goto, CallType, FeedType
  <2> QED
    BY <2>1, <2>2, <2>3, <2>4 DEF TypeOK
<1>15. ASSUME NEW w \in Workers, TakeWork(w) PROVE TypeOK'
  <2>1. workloads[w] # NoCall => w \in Indices
    BY <1>15, WorkIsOwed DEF TakeWork, Workers, Indices, CallType, PoolType
  <2>2. PoolType' /\ FlagType'
    BY <1>15 DEF TakeWork, ClearException, PoolType, FlagType
  <2>3. WorkType'
    BY <1>15, <2>1 DEF TakeWork, WorkType, Workers
  <2>4. CallType' /\ FeedType'
    BY <1>15 DEF TakeWork, CallType, FeedType
  <2> QED
    BY <2>2, <2>3, <2>4 DEF TypeOK
<1>16. ASSUME NEW w \in Workers, Sleep(w) PROVE TypeOK'
  <2>1. PoolType' /\ WorkType' /\ FlagType'
    BY <1>16 DEF Sleep, PoolType, WorkType, FlagType
  <2>2. CallType' /\ FeedType'
    BY <1>16 DEF Sleep, Goto, CallType, FeedType, InCall
  <2> QED
    BY <2>1, <2>2 DEF TypeOK
<1>17. ASSUME NEW w \in Workers, WakeWorkerSpuriously(w) PROVE TypeOK'
  <2>1. PoolType' /\ WorkType' /\ FlagType'
    BY <1>17 DEF WakeWorkerSpuriously, WakeWorker, PoolType, WorkType, FlagType
  <2>2. CallType' /\ FeedType'
    BY <1>17 DEF WakeWorkerSpuriously, Goto, CallType, FeedType, InCall
  <2> QED
    BY <2>1, <2>2 DEF TypeOK
<1>18. ASSUME NEW w \in Workers, NextItem(w) PROVE TypeOK'
  <2> DEFINE c == serving[w][1]
  <2>1. c \in Callers /\ item[w] \in Indices
    BY <1>18, Runner DEF NextItem, WorkType
  <2>2. FeedOver(c) \/ feeder[c] \in Indices
    BY <2>1, SMTT(60) DEF FeedOver, Indices, FeedType, CallType
  <2>3. PoolType' /\ FlagType'
    BY <1>18 DEF NextItem, Complete, PoolType, FlagType
  <2>4. WorkType'
    BY <1>18, <2>1, <2>2 DEF NextItem, Complete, WorkType, Indices
  <2>5. CallType'
    BY <1>18 DEF NextItem, Complete, WakeCaller, CallType, InCall
  <2>6. runs' \in [Callers -> [Indices -> Nat]] /\ feeder' \in [Callers -> Nat]
    BY <1>18, <2>1 DEF NextItem, RanOne, FeedType
  <2>7. FeedType'
    BY <1>18, <2>6 DEF NextItem, Complete, WakeCaller, CallType, FeedType
  <2> QED
    BY <2>3, <2>4, <2>5, <2>7 DEF TypeOK
<1>19. CASE UNCHANGED vars
  BY <1>19 DEF vars, TypeOK, PoolType, CallType, FeedType, WorkType, FlagType
<1> QED
  BY <1>1, <1>2, <1>3, <1>4, <1>5, <1>6, <1>7, <1>8, <1>9, <1>10, <1>11, <1>12,
     <1>13, <1>14, <1>15, <1>16, <1>17, <1>18, <1>19, StepCases

\* A caller is inside the scheduler exactly while it holds the mutex.
LEMMA MutexStep ==
  ASSUME ~MayThrow, IInv, [Next]_vars
  PROVE  MutexHeld'
<1> USE SchedulerAssumption
    DEF IInv, TypeOK, PoolType, CallType, MutexHeld, InCall, callVars, workVars,
        flagVars, poolVars
<1>1. ASSUME NEW c \in Callers, NEW n \in 0 .. MaxWorkloads, Lock(c, n)
      PROVE  MutexHeld'
  BY <1>1 DEF Lock, MutexFree, Smaller, FirstFed, Goto
<1>2. ASSUME NEW c \in Callers, NEW n \in 1 .. MaxThreads,
             NEW k \in 0 .. threads, LockToResize(c, n, k)
      PROVE  MutexHeld'
  BY <1>2 DEF LockToResize, MutexFree, Goto
<1>3. ASSUME NEW c \in Callers, StartThread(c) PROVE MutexHeld'
  BY <1>3 DEF StartThread, Goto
<1>4. ASSUME NEW c \in Callers, RaiseFlags(c) PROVE MutexHeld'
  BY <1>4 DEF RaiseFlags, Lockable, Raise, WakeWorker, Goto
<1>5. ASSUME NEW c \in Callers, BeginOwn(c) PROVE MutexHeld'
  BY <1>5 DEF BeginOwn, Goto
<1>6. ASSUME NEW c \in Callers, NextOwn(c) PROVE MutexHeld'
  BY <1>6 DEF NextOwn, RanOne, FeedOver, Goto
<1>7. ASSUME NEW c \in Callers, WaitForThread(c) PROVE MutexHeld'
  BY <1>7 DEF WaitForThread, Lockable, WaitedForAll, Goto
<1>8. ASSUME NEW c \in Callers, WakeSpuriously(c) PROVE MutexHeld'
  BY <1>8 DEF WakeSpuriously, Goto
<1>9. ASSUME NEW c \in Callers, AllWaited(c) PROVE MutexHeld'
  BY <1>9 DEF AllWaited, WaitedForAll, Goto
<1>10. ASSUME NEW c \in Callers, Return(c) PROVE MutexHeld'
  BY <1>10 DEF Return, Goto
<1>11. ASSUME NEW c \in Callers, Destroy(c) PROVE MutexHeld'
  BY <1>11 DEF Destroy, Goto
<1>12. ASSUME NEW c \in Callers, Stop(c) PROVE MutexHeld'
  BY <1>12 DEF Stop, Lockable, Raise, WakeWorker, Goto
<1>13. ASSUME NEW c \in Callers, Join(c) PROVE MutexHeld'
  BY <1>13 DEF Join, Joinable, Goto
<1>14. ASSUME NEW c \in Callers, Create(c) PROVE MutexHeld'
  BY <1>14 DEF Create, Goto, NewComplete
<1>15. ASSUME NEW w \in Workers, TakeWork(w) PROVE MutexHeld'
  BY <1>15 DEF TakeWork, ClearException
<1>16. ASSUME NEW w \in Workers, Sleep(w) PROVE MutexHeld'
  BY <1>16 DEF Sleep
<1>17. ASSUME NEW w \in Workers, WakeWorkerSpuriously(w) PROVE MutexHeld'
  BY <1>17 DEF WakeWorkerSpuriously, WakeWorker
<1>18. ASSUME NEW w \in Workers, NextItem(w) PROVE MutexHeld'
  BY <1>18 DEF NextItem, RanOne, FeedOver, Complete, WakeCaller, Alive
<1>19. CASE UNCHANGED vars
  BY <1>19 DEF vars, poolVars, callVars, workVars, flagVars
<1> QED
  BY <1>1, <1>2, <1>3, <1>4, <1>5, <1>6, <1>7, <1>8, <1>9, <1>10, <1>11, <1>12,
     <1>13, <1>14, <1>15, <1>16, <1>17, <1>18, <1>19, StepCases

\* The pool is complete whenever it is not being changed.
LEMMA PoolStep ==
  ASSUME ~MayThrow, IInv, [Next]_vars
  PROVE  PoolWhole'
<1> USE SchedulerAssumption
    DEF IInv, TypeOK, PoolType, CallType, MutexHeld, PoolWhole, Resizing,
        InCall, callVars, workVars, flagVars, poolVars
<1>1. ASSUME NEW c \in Callers, NEW n \in 0 .. MaxWorkloads, Lock(c, n)
      PROVE  PoolWhole'
  BY <1>1 DEF Lock, MutexFree, Smaller, FirstFed, Goto
<1>2. ASSUME NEW c \in Callers, NEW n \in 1 .. MaxThreads,
             NEW k \in 0 .. threads, LockToResize(c, n, k)
      PROVE  PoolWhole'
  BY <1>2 DEF LockToResize, MutexFree, Goto
<1>3. ASSUME NEW c \in Callers, StartThread(c) PROVE PoolWhole'
  BY <1>3 DEF StartThread, Goto
<1>4. ASSUME NEW c \in Callers, RaiseFlags(c) PROVE PoolWhole'
  BY <1>4 DEF RaiseFlags, Lockable, Raise, WakeWorker, Goto
<1>5. ASSUME NEW c \in Callers, BeginOwn(c) PROVE PoolWhole'
  BY <1>5 DEF BeginOwn, Goto
<1>6. ASSUME NEW c \in Callers, NextOwn(c) PROVE PoolWhole'
  BY <1>6 DEF NextOwn, RanOne, FeedOver, Goto
<1>7. ASSUME NEW c \in Callers, WaitForThread(c) PROVE PoolWhole'
  BY <1>7 DEF WaitForThread, Lockable, WaitedForAll, Goto
<1>8. ASSUME NEW c \in Callers, WakeSpuriously(c) PROVE PoolWhole'
  BY <1>8 DEF WakeSpuriously, Goto
<1>9. ASSUME NEW c \in Callers, AllWaited(c) PROVE PoolWhole'
  BY <1>9 DEF AllWaited, WaitedForAll, Goto
<1>10. ASSUME NEW c \in Callers, Return(c) PROVE PoolWhole'
  BY <1>10 DEF Return, Goto
<1>11. ASSUME NEW c \in Callers, Destroy(c) PROVE PoolWhole'
  BY <1>11 DEF Destroy, Goto
<1>12. ASSUME NEW c \in Callers, Stop(c) PROVE PoolWhole'
  BY <1>12 DEF Stop, Lockable, Raise, WakeWorker, Goto
<1>13. ASSUME NEW c \in Callers, Join(c) PROVE PoolWhole'
  BY <1>13 DEF Join, Joinable, Goto
<1>14. ASSUME NEW c \in Callers, Create(c) PROVE PoolWhole'
  BY <1>14 DEF Create, Goto, NewComplete
<1>15. ASSUME NEW w \in Workers, TakeWork(w) PROVE PoolWhole'
  BY <1>15 DEF TakeWork, ClearException
<1>16. ASSUME NEW w \in Workers, Sleep(w) PROVE PoolWhole'
  BY <1>16 DEF Sleep
<1>17. ASSUME NEW w \in Workers, WakeWorkerSpuriously(w) PROVE PoolWhole'
  BY <1>17 DEF WakeWorkerSpuriously, WakeWorker
<1>18. ASSUME NEW w \in Workers, NextItem(w) PROVE PoolWhole'
  BY <1>18 DEF NextItem, RanOne, FeedOver, Complete, WakeCaller, Alive
<1>19. CASE UNCHANGED vars
  BY <1>19 DEF vars, poolVars, callVars, workVars, flagVars
<1> QED
  BY <1>1, <1>2, <1>3, <1>4, <1>5, <1>6, <1>7, <1>8, <1>9, <1>10, <1>11, <1>12,
     <1>13, <1>14, <1>15, <1>16, <1>17, <1>18, <1>19, StepCases

\* No worker has an exception to hand over.
LEMMA ExceptionStep ==
  ASSUME ~MayThrow, IInv, [Next]_vars
  PROVE  NoException'
<1> USE SchedulerAssumption
    DEF IInv, TypeOK, FlagType, NoException, callVars, workVars, flagVars,
        poolVars
<1>1. ASSUME NEW c \in Callers, NEW n \in 0 .. MaxWorkloads, Lock(c, n)
      PROVE  NoException'
  BY <1>1 DEF Lock, MutexFree, Smaller, FirstFed, Goto
<1>2. ASSUME NEW c \in Callers, NEW n \in 1 .. MaxThreads,
             NEW k \in 0 .. threads, LockToResize(c, n, k)
      PROVE  NoException'
  BY <1>2 DEF LockToResize, MutexFree, Goto
<1>3. ASSUME NEW c \in Callers, StartThread(c) PROVE NoException'
  BY <1>3 DEF StartThread, Goto
<1>4. ASSUME NEW c \in Callers, RaiseFlags(c) PROVE NoException'
  BY <1>4 DEF RaiseFlags, Lockable, Raise, WakeWorker, Goto
<1>5. ASSUME NEW c \in Callers, BeginOwn(c) PROVE NoException'
  BY <1>5 DEF BeginOwn, Goto
<1>6. ASSUME NEW c \in Callers, NextOwn(c) PROVE NoException'
  BY <1>6 DEF NextOwn, RanOne, FeedOver, Goto
<1>7. ASSUME NEW c \in Callers, WaitForThread(c) PROVE NoException'
  BY <1>7 DEF WaitForThread, Lockable, WaitedForAll, Goto
<1>8. ASSUME NEW c \in Callers, WakeSpuriously(c) PROVE NoException'
  BY <1>8 DEF WakeSpuriously, Goto
<1>9. ASSUME NEW c \in Callers, AllWaited(c) PROVE NoException'
  BY <1>9 DEF AllWaited, WaitedForAll, Goto
<1>10. ASSUME NEW c \in Callers, Return(c) PROVE NoException'
  BY <1>10 DEF Return, Goto
<1>11. ASSUME NEW c \in Callers, Destroy(c) PROVE NoException'
  BY <1>11 DEF Destroy, Goto
<1>12. ASSUME NEW c \in Callers, Stop(c) PROVE NoException'
  BY <1>12 DEF Stop, Lockable, Raise, WakeWorker, Goto
<1>13. ASSUME NEW c \in Callers, Join(c) PROVE NoException'
  BY <1>13 DEF Join, Joinable, Goto
<1>14. ASSUME NEW c \in Callers, Create(c) PROVE NoException'
  BY <1>14 DEF Create, Goto, NewComplete
<1>15. ASSUME NEW w \in Workers, TakeWork(w) PROVE NoException'
  BY <1>15 DEF TakeWork, ClearException
<1>16. ASSUME NEW w \in Workers, Sleep(w) PROVE NoException'
  BY <1>16 DEF Sleep
<1>17. ASSUME NEW w \in Workers, WakeWorkerSpuriously(w) PROVE NoException'
  BY <1>17 DEF WakeWorkerSpuriously, WakeWorker
<1>18. ASSUME NEW w \in Workers, NextItem(w) PROVE NoException'
  BY <1>18 DEF NextItem, RanOne, FeedOver, Complete, WakeCaller, Alive
<1>19. CASE UNCHANGED vars
  BY <1>19 DEF vars, poolVars, callVars, workVars, flagVars
<1> QED
  BY <1>1, <1>2, <1>3, <1>4, <1>5, <1>6, <1>7, <1>8, <1>9, <1>10, <1>11, <1>12,
     <1>13, <1>14, <1>15, <1>16, <1>17, <1>18, <1>19, StepCases

\* What run_workloads and the destruction of threads keep of a caller.
LEMMA CallerStepSane ==
  ASSUME ~MayThrow, IInv, [Next]_vars
  PROVE  CallerSane'
<1> USE SchedulerAssumption
    DEF IInv, TypeOK, PoolType, CallType, FeedType, MutexHeld, PoolWhole,
        CallerSane, CallerOK, Current, Resizing, InCall, callVars, workVars,
        flagVars, poolVars
<1>1. ASSUME NEW c \in Callers, NEW n \in 0 .. MaxWorkloads, Lock(c, n)
      PROVE  CallerSane'
  BY <1>1 DEF Lock, MutexFree, Smaller, FirstFed, Goto
<1>2. ASSUME NEW c \in Callers, NEW n \in 1 .. MaxThreads,
             NEW k \in 0 .. threads, LockToResize(c, n, k)
      PROVE  CallerSane'
  BY <1>2 DEF LockToResize, MutexFree, Goto
<1>3. ASSUME NEW c \in Callers, StartThread(c) PROVE CallerSane'
  <2>1. t[c] \in Workers
    BY <1>3 DEF StartThread, Workers
  <2>2. workloads'[t[c]] = Current(c) /\ t' = t
        /\ pc' = [pc EXCEPT ![c] = "raise"]
    BY <1>3, <2>1 DEF StartThread, Goto, WorkType
  <2>3. \A d \in Callers : d # c => pc[d] = "idle"
    BY <1>3 DEF StartThread
  <2> QED
    BY <1>3, <2>2, <2>3 DEF StartThread
<1>4. ASSUME NEW c \in Callers, RaiseFlags(c) PROVE CallerSane'
  BY <1>4 DEF RaiseFlags, Lockable, Raise, WakeWorker, Goto
<1>5. ASSUME NEW c \in Callers, BeginOwn(c) PROVE CallerSane'
  BY <1>5 DEF BeginOwn, Goto
<1>6. ASSUME NEW c \in Callers, NextOwn(c) PROVE CallerSane'
  BY <1>6 DEF NextOwn, RanOne, FeedOver, Goto
<1>7. ASSUME NEW c \in Callers, WaitForThread(c) PROVE CallerSane'
  <2>1. t[c] < threads /\ t[c] \in Workers
    BY <1>7, WaitsInPool
  <2>2. ~exception[t[c]]
    BY <2>1 DEF NoException
  <2>3. /\ pc[c] = "wait" /\ t[c] # threads
        /\ UNCHANGED <<mutex, poolVars, calls, size, team, feeder, index, runs,
                       threw, left_behind, workVars, flagVars>>
        /\ \/ t' = [t EXCEPT ![c] = @ + 1] /\ UNCHANGED pc
           \/ pc' = [pc EXCEPT ![c] = "asleep"] /\ UNCHANGED t
    BY <1>7, <2>2 DEF WaitForThread, WaitedForAll, Goto
  <2>4. CASE t' = [t EXCEPT ![c] = @ + 1] /\ UNCHANGED pc
    BY <2>1, <2>3, <2>4
  <2>5. CASE pc' = [pc EXCEPT ![c] = "asleep"] /\ UNCHANGED t
    BY <2>1, <2>3, <2>5
  <2> QED
    BY <2>3, <2>4, <2>5
<1>8. ASSUME NEW c \in Callers, WakeSpuriously(c) PROVE CallerSane'
  BY <1>8 DEF WakeSpuriously, Goto
<1>9. ASSUME NEW c \in Callers, AllWaited(c) PROVE CallerSane'
  BY <1>9 DEF AllWaited, WaitedForAll, Goto
<1>10. ASSUME NEW c \in Callers, Return(c) PROVE CallerSane'
  BY <1>10 DEF Return, Goto
<1>11. ASSUME NEW c \in Callers, Destroy(c) PROVE CallerSane'
  <2>1. t[c] \in Workers
    BY <1>11 DEF Destroy, Workers
  <2>2. workloads'[t[c]] = NoCall /\ t' = t
        /\ pc' = [pc EXCEPT ![c] = "stop"]
    BY <1>11, <2>1 DEF Destroy, Goto, WorkType
  <2>3. \A d \in Callers : d # c => pc[d] = "idle"
    BY <1>11 DEF Destroy
  <2> QED
    BY <1>11, <2>2, <2>3 DEF Destroy
<1>12. ASSUME NEW c \in Callers, Stop(c) PROVE CallerSane'
  BY <1>12 DEF Stop, Lockable, Raise, WakeWorker, Goto
<1>13. ASSUME NEW c \in Callers, Join(c) PROVE CallerSane'
  BY <1>13 DEF Join, Joinable, Goto
<1>14. ASSUME NEW c \in Callers, Create(c) PROVE CallerSane'
  BY <1>14 DEF Create, Goto, NewComplete
<1>15. ASSUME NEW w \in Workers, TakeWork(w) PROVE CallerSane'
  BY <1>15 DEF TakeWork, ClearException
<1>16. ASSUME NEW w \in Workers, Sleep(w) PROVE CallerSane'
  BY <1>16 DEF Sleep
<1>17. ASSUME NEW w \in Workers, WakeWorkerSpuriously(w) PROVE CallerSane'
  BY <1>17 DEF WakeWorkerSpuriously, WakeWorker
<1>18. ASSUME NEW w \in Workers, NextItem(w) PROVE CallerSane'
  BY <1>18 DEF NextItem, RanOne, FeedOver, Complete, WakeCaller, Alive
<1>19. CASE UNCHANGED vars
  BY <1>19 DEF vars, poolVars, callVars, workVars, flagVars
<1> QED
  BY <1>1, <1>2, <1>3, <1>4, <1>5, <1>6, <1>7, <1>8, <1>9, <1>10, <1>11, <1>12,
     <1>13, <1>14, <1>15, <1>16, <1>17, <1>18, <1>19, StepCases

\* A worker that has work belongs to the call that holds the mutex.
LEMMA WorkerStepSane ==
  ASSUME ~MayThrow, IInv, [Next]_vars, NEW v \in Workers
  PROVE  WorkerOK(v)'
<1> USE SchedulerAssumption
    DEF WorkerOK, callVars, workVars, flagVars, poolVars
<1> /\ PoolType /\ CallType /\ FeedType /\ WorkType /\ FlagType
    /\ EngagedSane(v) /\ WaitingSane(v) /\ RunningSane(v) /\ ExitedSane(v)
  BY DEF IInv, TypeOK, WorkerSane
<1>h. \A c \in Callers : (mutex = c <=> pc[c] # "idle") /\ CallerOK(c)
  BY DEF IInv, MutexHeld, CallerSane
<1>v. v \in Int /\ 0 <= v /\ threads \in Int
  BY DEF Workers, PoolType
<1>1. ASSUME NEW c \in Callers, NEW n \in 0 .. MaxWorkloads, Lock(c, n)
      PROVE  WorkerOK(v)'
  <2>1. mutex \notin Callers
    BY <1>1 DEF Lock, MutexFree
  <2> QED
    BY <1>1, <2>1, NobodyWorks
    DEF Lock, EngagedSane, Engaged, WaitingSane, RunningSane, ExitedSane
<1>2. ASSUME NEW c \in Callers, NEW n \in 1 .. MaxThreads,
             NEW k \in 0 .. threads, LockToResize(c, n, k)
      PROVE  WorkerOK(v)'
  <2>1. mutex \notin Callers
    BY <1>2 DEF LockToResize, MutexFree
  <2> QED
    BY <1>2, <2>1, NobodyWorks
    DEF LockToResize, EngagedSane, Engaged, WaitingSane, RunningSane, ExitedSane
<1>3. ASSUME NEW c \in Callers, StartThread(c) PROVE WorkerOK(v)'
  <2>1. mutex = c /\ mutex' = c /\ t[c] \in Workers /\ pc[c] = "start"
        /\ pc' = [pc EXCEPT ![c] = "raise"]
    BY <1>3, <1>h
       DEF StartThread, CallerOK, InCall, PoolType, CallType, Workers, Goto
  <2>2. EngagedSane(v)'
    BY <1>3, <2>1
       DEF StartThread, EngagedSane, Engaged, InTeam, InCall, CallType
  <2>3. wait_for_work[v] => v < t[c]
    BY <2>1 DEF EngagedSane, Engaged, InTeam, InCall
  <2>4. WaitingSane(v)'
    BY <1>3, <1>v, <2>1, <2>3
       DEF StartThread, WaitingSane, Current, CallType, WorkType
  <2>5. RunningSane(v)' /\ ExitedSane(v)'
    BY <1>3, <2>1 DEF StartThread, RunningSane, ExitedSane, Current, InCall,
       Resizing, CallType
  <2> QED
    BY <2>2, <2>4, <2>5
<1>4. ASSUME NEW c \in Callers, RaiseFlags(c) PROVE WorkerOK(v)'
  <2>1. mutex = c /\ mutex' = c /\ t[c] \in Workers /\ pc[c] = "raise"
        /\ pc' = [pc EXCEPT ![c] = "start"] /\ CallerOK(c)
    BY <1>4, <1>h
       DEF RaiseFlags, Lockable, CallerOK, InCall, PoolType, CallType, Workers, Goto
  <2>2. EngagedSane(v)'
    BY <1>4, <1>v, <2>1
       DEF RaiseFlags, Lockable, Raise, WakeWorker, CallerOK, EngagedSane,
       Engaged, InTeam, InCall, PoolType, CallType, WorkType, FlagType
  <2>3. WaitingSane(v)'
    BY <1>4, <1>v, <2>1 DEF RaiseFlags, Lockable, Raise, CallerOK, WaitingSane, Current,
       CallType, WorkType, FlagType
  <2>4. RunningSane(v)' /\ ExitedSane(v)'
    BY <1>4, <2>1 DEF RaiseFlags, Lockable, Raise, WakeWorker, RunningSane, ExitedSane,
       Current, InCall, Resizing, CallType, WorkType, FlagType
  <2> QED
    BY <2>2, <2>3, <2>4
<1>5. ASSUME NEW c \in Callers, BeginOwn(c) PROVE WorkerOK(v)'
  BY <1>5, <1>h DEF BeginOwn, Goto, EngagedSane, Engaged, InTeam, WaitingSane,
     RunningSane, ExitedSane, Current, InCall, Resizing, CallType
<1>6. ASSUME NEW c \in Callers, NextOwn(c) PROVE WorkerOK(v)'
  <2>1. mutex = c /\ mutex' = c /\ pc[c] = "own" /\ pc'[c] \in {"own", "wait"}
        /\ t'[c] \in {t[c], 0} /\ (pc'[c] = "wait" => t'[c] = 0)
    BY <1>6, <1>h DEF NextOwn, Goto, CallType
  <2>2. EngagedSane(v)' /\ WaitingSane(v)' /\ ExitedSane(v)'
    BY <1>6, <1>v, <2>1 DEF NextOwn, EngagedSane, Engaged, InTeam, InCall,
       WaitingSane, ExitedSane, Current, Resizing
  <2>3. RunningSane(v)'
    BY <1>6, <2>1
       DEF NextOwn, RanOne, RunningSane, Current, InCall, CallType, FeedType
  <2> QED
    BY <2>2, <2>3
<1>7. ASSUME NEW c \in Callers, WaitForThread(c) PROVE WorkerOK(v)'
  <2>1. mutex = c /\ mutex' = c /\ t[c] \in Workers /\ pc[c] = "wait"
    BY <1>7, <1>h DEF WaitForThread, Lockable, WaitedForAll, CallerOK, InCall, PoolType,
       CallType, Workers
  <2>2. \/ pc'[c] = "asleep" /\ t'[c] = t[c]
        \/ pc'[c] = "wait" /\ t'[c] = t[c] + 1 /\ job_complete[t[c]]
    BY <1>7, <2>1 DEF WaitForThread, Lockable, Goto, CallType, IInv, NoException
  <2>3. Engaged(v) /\ t'[c] = t[c] + 1 => v # t[c]
    BY <1>7, <2>1, <2>2 DEF WaitForThread, Lockable, EngagedSane, Engaged, CallType
  <2>4. EngagedSane(v)'
    BY <1>7, <1>v, <2>1, <2>2, <2>3 DEF WaitForThread, Lockable, EngagedSane, Engaged,
       InTeam, InCall, CallType
  <2>5. WaitingSane(v)' /\ RunningSane(v)' /\ ExitedSane(v)'
    BY <1>7, <2>1, <2>2
       DEF WaitForThread, Lockable, WaitingSane, RunningSane, ExitedSane,
       Current, InCall, Resizing
  <2> QED
    BY <2>4, <2>5
<1>8. ASSUME NEW c \in Callers, WakeSpuriously(c) PROVE WorkerOK(v)'
  BY <1>8, <1>h DEF WakeSpuriously, Goto, EngagedSane, Engaged, InTeam,
     WaitingSane, RunningSane, ExitedSane, Current, InCall, Resizing, CallType
<1>9. ASSUME NEW c \in Callers, AllWaited(c) PROVE WorkerOK(v)'
  <2>1. mutex = c /\ pc[c] = "wait"
    BY <1>9, <1>h DEF AllWaited
  <2>2. ~Engaged(v)
    BY <1>9, <1>v, <2>1
       DEF AllWaited, WaitedForAll, EngagedSane, InTeam, InCall,
       CallType
  <2> QED
    BY <1>9, <2>1, <2>2 DEF AllWaited, EngagedSane, Engaged, WaitingSane,
       RunningSane, ExitedSane, Resizing
<1>10. ASSUME NEW c \in Callers, Return(c) PROVE WorkerOK(v)'
  <2>1. mutex = c /\ pc[c] = "return"
    BY <1>10, <1>h DEF Return
  <2> QED
    BY <1>10, <2>1, NobodyWorks DEF Return, EngagedSane, Engaged, WaitingSane,
       RunningSane, ExitedSane, Resizing
<1>11. ASSUME NEW c \in Callers, Destroy(c) PROVE WorkerOK(v)'
  <2>1. mutex = c /\ mutex' = c /\ pc[c] = "destroy"
        /\ pc' = [pc EXCEPT ![c] = "stop"]
    BY <1>11, <1>h DEF Destroy, Goto
  <2> QED
    BY <1>11, <2>1, NobodyWorks DEF Destroy, EngagedSane, Engaged, WaitingSane,
       RunningSane, ExitedSane, Resizing, CallType
<1>12. ASSUME NEW c \in Callers, Stop(c) PROVE WorkerOK(v)'
  <2>1. mutex = c /\ mutex' = c /\ t' = t /\ t[c] < threads /\ t[c] \in Workers
        /\ pc[c] = "stop" /\ pc' = [pc EXCEPT ![c] = "join"]
        /\ workloads' = workloads /\ workloads[t[c]] = NoCall
    BY <1>12, <1>h DEF Stop, Lockable, Goto, CallerOK, PoolType, CallType, Workers
  <2>2. ~wait_for_work[v] /\ state[v] # "running"
    BY <2>1, NobodyWorks
  <2>3. wait_for_work'[v] <=> v = t[c]
    BY <1>12, <2>1, <2>2 DEF Stop, Lockable, Raise, FlagType
  <2>4. EngagedSane(v)' /\ WaitingSane(v)'
    BY <1>12, <2>1, <2>2, <2>3
       DEF Stop, Lockable, Raise, WakeWorker, EngagedSane, Engaged,
       WaitingSane, InCall, CallType, WorkType, FlagType
  <2>5. RunningSane(v)' /\ ExitedSane(v)'
    BY <1>12, <1>v, <2>1, <2>2, <2>3
       DEF Stop, Lockable, WakeWorker, RunningSane, ExitedSane,
       Resizing, CallType, WorkType
  <2> QED
    BY <2>4, <2>5
<1>13. ASSUME NEW c \in Callers, Join(c) PROVE WorkerOK(v)'
  <2>1. mutex = c /\ mutex' = c /\ pc[c] = "join" /\ t[c] \in Nat
        /\ pc' = [pc EXCEPT ![c] = "destroy"] /\ t'[c] = t[c] + 1
    BY <1>13, <1>h DEF Join, Goto, CallType
  <2>2. ~wait_for_work[v] /\ state[v] # "running"
    BY <1>13, <2>1
       DEF Join, Joinable, WaitingSane, RunningSane, ExitedSane, InCall
  <2> QED
    BY <1>13, <1>v, <2>1, <2>2 DEF Join, EngagedSane, Engaged, WaitingSane,
       RunningSane, ExitedSane, Resizing, CallType
<1>14. ASSUME NEW c \in Callers, Create(c) PROVE WorkerOK(v)'
  <2>1. mutex = c /\ pc[c] = "destroy"
    BY <1>14, <1>h DEF Create
  <2>2. ~wait_for_work[v] /\ state[v] # "running"
    BY <2>1, NobodyWorks
  <2>3. ~wait_for_work'[v] /\ state'[v] # "running" /\ state'[v] # "exited"
    BY <1>14, <2>2 DEF Create
  <2> QED
    BY <2>3 DEF EngagedSane, Engaged, WaitingSane, RunningSane, ExitedSane
<1>15. ASSUME NEW w \in Workers, TakeWork(w) PROVE WorkerOK(v)'
  <2>1. CASE v # w
    BY <1>15, <2>1 DEF TakeWork, ClearException, EngagedSane, Engaged, InTeam,
       WaitingSane, RunningSane, ExitedSane, Current, WorkType, FlagType
  <2>2. CASE v = w
    <3>1. /\ mutex \in Callers /\ pc[mutex] \in InCall \cup {"join"}
          /\ wait_for_work[v] /\ ~wait_for_work'[v] /\ state[v] = "check"
      BY <1>15, <2>2 DEF TakeWork, EngagedSane, Engaged, FlagType
    <3>2. EngagedSane(v)' /\ WaitingSane(v)'
      BY <1>15, <2>2, <3>1, WorkIsOwed DEF TakeWork, EngagedSane, Engaged,
         WaitingSane, InTeam, InCall, WorkType
    <3>3. RunningSane(v)'
      BY <1>15, <1>v, <2>2, <3>1, WorkIsOwed DEF TakeWork, RunningSane, InTeam,
         Current, InCall, CallType, WorkType, FlagType
    <3>4. ExitedSane(v)'
      BY <1>15, <1>v, <2>2, <3>1, WorkIsOwed
         DEF TakeWork, ExitedSane, Resizing,
         InCall, CallType, WorkType, FlagType
    <3> QED
      BY <3>2, <3>3, <3>4
  <2> QED
    BY <2>1, <2>2
<1>16. ASSUME NEW w \in Workers, Sleep(w) PROVE WorkerOK(v)'
  BY <1>16 DEF Sleep, EngagedSane, Engaged, InTeam, WaitingSane, RunningSane,
     ExitedSane, Current, WorkType
<1>17. ASSUME NEW w \in Workers, WakeWorkerSpuriously(w) PROVE WorkerOK(v)'
  BY <1>17 DEF WakeWorkerSpuriously, WakeWorker, EngagedSane, Engaged, InTeam,
     WaitingSane, RunningSane, ExitedSane, Current, WorkType
<1>18. ASSUME NEW w \in Workers, NextItem(w) PROVE WorkerOK(v)'
  <2> DEFINE c == mutex
  <2>1. /\ c \in Callers /\ pc[c] \in InCall /\ serving[w][1] = c
        /\ mutex' = mutex /\ t' = t /\ size' = size /\ team' = team
        /\ calls' = calls /\ threads' = threads /\ serving' = serving
        /\ workloads' = workloads /\ wait_for_work' = wait_for_work
        /\ feeder' = [feeder EXCEPT ![c] = @ + 1]
    BY <1>18, Runner DEF NextItem, RanOne
  <2>2. /\ pc'[c] \in InCall
        /\ pc'[c] \in {"start", "raise"} => pc[c] \in {"start", "raise"}
        /\ pc'[c] \in {"wait", "asleep"} => pc[c] \in {"wait", "asleep"}
    BY <1>18, <2>1 DEF NextItem, Complete, WakeCaller, InCall
  <2>3. Engaged(v)' => Engaged(v) /\ job_complete'[v] = job_complete[v]
    BY <1>18, <2>1, Runner DEF NextItem, Complete, Engaged, WorkType, FlagType
  <2>4. EngagedSane(v)' /\ WaitingSane(v)'
    BY <2>1, <2>2, <2>3
       DEF EngagedSane, Engaged, InTeam, WaitingSane, Current, InCall
  <2>5. CASE v = w
    <3>1. state'[v] = "running" =>
            item'[v] = feeder[c] /\ feeder[c] < size[c] /\ team[c] <= feeder[c]
      BY <1>18, <1>h, <2>1, <2>5 DEF NextItem, FeedOver, Complete, CallerOK,
         WorkType, CallType, FeedType
    <3>2. RunningSane(v)'
      BY <1>18, <2>1, <2>2, <2>5, <3>1
         DEF NextItem, RunningSane, Current, CallType,
         FeedType
    <3> QED
      BY <1>18, <2>4, <2>5, <3>2 DEF NextItem, Complete, ExitedSane, WorkType
  <2>6. CASE v # w
    <3>1. state'[v] = state[v] /\ item'[v] = item[v]
      BY <1>18, <2>6 DEF NextItem, Complete, WorkType
    <3>2. RunningSane(v)'
      BY <2>1, <2>2, <3>1 DEF RunningSane, Current, CallType, FeedType
    <3>3. ExitedSane(v)'
      BY <2>1, <3>1 DEF ExitedSane, Resizing, InCall
    <3> QED
      BY <2>4, <3>2, <3>3
  <2> QED
    BY <2>5, <2>6
<1>19. CASE UNCHANGED vars
  BY <1>19 DEF vars, EngagedSane, Engaged, InTeam, WaitingSane, RunningSane,
     ExitedSane, Current
<1> QED
  BY <1>1, <1>2, <1>3, <1>4, <1>5, <1>6, <1>7, <1>8, <1>9, <1>10, <1>11, <1>12,
     <1>13, <1>14, <1>15, <1>16, <1>17, <1>18, <1>19, StepCases

\* No two threads run the same workload.
LEMMA ItemsStep ==
  ASSUME ~MayThrow, IInv, [Next]_vars
  PROVE  ItemsDistinct'
<1> USE SchedulerAssumption DEF callVars, workVars, flagVars, poolVars
<1> CallType /\ FeedType /\ WorkType /\ ItemsDistinct
  BY DEF IInv, TypeOK
<1>h. \A c \in Callers : (mutex = c <=> pc[c] # "idle") /\ CallerOK(c)
  BY DEF IInv, MutexHeld, CallerSane
<1>w. \A w \in Workers : state[w] = "running" =>
        /\ mutex \in Callers /\ pc[mutex] \in InCall
        /\ item[w] < feeder[mutex] /\ w \in Int
        /\ (item[w] = w \/ team[mutex] <= item[w])
        /\ w < team[mutex] - 1 /\ serving[w][1] = mutex
  <2> SUFFICES ASSUME NEW w \in Workers, state[w] = "running"
               PROVE  /\ mutex \in Callers /\ pc[mutex] \in InCall
                      /\ item[w] < feeder[mutex] /\ w \in Int
                      /\ (item[w] = w \/ team[mutex] <= item[w])
                      /\ w < team[mutex] - 1 /\ serving[w][1] = mutex
    OBVIOUS
  <2>1. mutex \in Callers /\ pc[mutex] \in InCall /\ w < team[mutex] - 1
        /\ serving[w][1] = mutex /\ w \in Int
    BY Runner DEF InTeam, Workers
  <2>2. team[mutex] <= feeder[mutex] /\ team[mutex] \in Int /\ feeder[mutex] \in Int
    BY <1>h, <2>1 DEF CallerOK, CallType, FeedType
  <2>3. item[w] \in {w} \cup (team[mutex] .. feeder[mutex] - 1)
    BY DEF IInv, WorkerSane, WorkerOK, RunningSane
  <2> QED
    BY <2>1, <2>2, <2>3
<1>1. ASSUME pc' = pc \/ \E c \in Callers : \E p : p # "own" /\ pc' = [pc EXCEPT ![c] = p],
             UNCHANGED <<state, item>>, index' = index,
             mutex' = mutex \/ \A w \in Workers : state[w] # "running"
      PROVE  ItemsDistinct'
  BY <1>1, <1>w DEF ItemsDistinct, CallType
<1>2. ASSUME NEW c \in Callers, BeginOwn(c) PROVE ItemsDistinct'
  <2>1. mutex = c /\ t[c] = team[c] - 1
    BY <1>2, <1>h DEF BeginOwn
  <2>2. \A w \in Workers : state[w] = "running" => item[w] # t[c]
    BY <1>w, <2>1 DEF CallType, FeedType, WorkType
  <2> QED
    BY <1>2, <2>1, <2>2 DEF BeginOwn, ItemsDistinct, FeedType
<1>3. ASSUME NEW c \in Callers, NextOwn(c) PROVE ItemsDistinct'
  <2>1. mutex = c
    BY <1>3, <1>h DEF NextOwn
  <2>2. \A w \in Workers : state[w] = "running" => item[w] # feeder[c]
    BY <1>w, <2>1 DEF FeedType, WorkType
  <2> QED
    BY <1>3, <2>1, <2>2 DEF NextOwn, Goto, ItemsDistinct, FeedType, CallType
<1>4. ASSUME NEW w \in Workers, TakeWork(w) PROVE ItemsDistinct'
  <2>1. ASSUME NEW v \in Workers, v # w, state[v] = "running"
        PROVE  item[v] # w
    <3>1. mutex \in Callers /\ pc[mutex] \in InCall /\ wait_for_work[w]
          /\ (item[v] = v \/ team[mutex] <= item[v])
      BY <1>4, <1>w, <2>1 DEF TakeWork
    <3>2. w < team[mutex] /\ team[mutex] \in Int /\ w \in Int
      BY <3>1, WorkIsOwed DEF InCall, CallType, Workers
    <3> QED
      BY <2>1, <3>1, <3>2
  <2>2. state'[w] = "running" /\ pc[mutex] = "own" => index[mutex] # w
    <3> SUFFICES ASSUME state'[w] = "running", pc[mutex] = "own"
                 PROVE  index[mutex] # w
      OBVIOUS
    <3>1. mutex \in Callers /\ w < team[mutex] - 1 /\ CallerOK(mutex)
      BY <1>4, <1>h, WorkIsOwed DEF TakeWork, InTeam, WorkType
    <3> QED
      BY <3>1 DEF CallerOK, Workers, CallType, FeedType
  <2> QED
    BY <1>4, <2>1, <2>2 DEF TakeWork, ItemsDistinct, WorkType
<1>5. ASSUME NEW w \in Workers, NextItem(w) PROVE ItemsDistinct'
  <2>1. \A v \in Workers : state[v] = "running" => item[v] # feeder[mutex]
    BY <1>w DEF FeedType, WorkType
  <2>2. pc[mutex] = "own" => index[mutex] # feeder[mutex]
    BY <1>5, <1>h, <1>w DEF NextItem, CallerOK, InCall, CallType, FeedType
  <2>3. mutex' = mutex /\ index' = index /\ (pc'[mutex] = "own" => pc[mutex] = "own")
        /\ \A v \in Workers : v # w => state'[v] = state[v] /\ item'[v] = item[v]
    BY <1>5, <1>w DEF NextItem, Complete, WakeCaller, WorkType
  <2>4. state'[w] = "running" => item'[w] = feeder[mutex]
    BY <1>5, <1>w DEF NextItem, Complete, WorkType
  <2> QED
    BY <1>5, <2>1, <2>2, <2>3, <2>4 DEF NextItem, ItemsDistinct
<1>6. ASSUME NEW w \in Workers, Sleep(w) \/ WakeWorkerSpuriously(w)
      PROVE  ItemsDistinct'
  BY <1>6 DEF Sleep, WakeWorkerSpuriously, WakeWorker, ItemsDistinct, WorkType
<1>7. ASSUME NEW c \in Callers, RaiseFlags(c) \/ Stop(c) PROVE ItemsDistinct'
  BY <1>7, <1>w
     DEF RaiseFlags, Lockable, Stop, WakeWorker, Goto, ItemsDistinct, WorkType,
     CallType
<1>8. ASSUME NEW c \in Callers, NEW n \in 0 .. MaxWorkloads, Lock(c, n)
      PROVE  ItemsDistinct'
  BY <1>1, <1>8, NobodyWorks DEF Lock, MutexFree, Goto
<1>9. ASSUME NEW c \in Callers, NEW n \in 1 .. MaxThreads,
             NEW k \in 0 .. threads, LockToResize(c, n, k)
      PROVE  ItemsDistinct'
  BY <1>1, <1>9, NobodyWorks DEF LockToResize, MutexFree, Goto
<1>10. ASSUME NEW c \in Callers,
              StartThread(c) \/ WaitForThread(c) \/ WakeSpuriously(c)
              \/ AllWaited(c) \/ Destroy(c) \/ Join(c)
       PROVE  ItemsDistinct'
  BY <1>1, <1>10
  DEF StartThread, WaitForThread, Lockable, WakeSpuriously, AllWaited, Destroy, Join, Goto
<1>11. ASSUME NEW c \in Callers, Return(c) PROVE ItemsDistinct'
  <2>1. \A w \in Workers : state[w] # "running"
    BY <1>11, <1>h, NobodyWorks DEF Return
  <2> QED
    BY <1>11, <2>1 DEF Return, ItemsDistinct
<1>12. ASSUME NEW c \in Callers, Create(c) PROVE ItemsDistinct'
  <2>1. \A w \in Workers : state[w] # "running"
    BY <1>12, <1>h, NobodyWorks DEF Create
  <2>2. \A w \in Workers : state'[w] # "running"
    BY <1>12, <2>1 DEF Create
  <2> QED
    BY <2>2 DEF ItemsDistinct
<1>13. CASE UNCHANGED vars
  BY <1>13 DEF vars, ItemsDistinct
<1> QED
  BY <1>2, <1>3, <1>4, <1>5, <1>6, <1>7, <1>8, <1>9, <1>10, <1>11, <1>12, <1>13,
     StepCases

\* Each workload is still to be handed out, being run, or run once.
LEMMA RunsStep ==
  ASSUME ~MayThrow, IInv, [Next]_vars
  PROVE  RunsCounted'
<1> USE SchedulerAssumption DEF callVars, workVars, flagVars, poolVars
<1> CallType /\ FeedType /\ WorkType /\ FlagType /\ ItemsDistinct
  BY DEF IInv, TypeOK
<1>r. \A c \in Callers : pc[c] \in InCall \cup {"return"} =>
        \A i \in 0 .. size[c] - 1 :
          runs[c][i] = IF Busy(c, i) \/ Awaited(c, i) THEN 0 ELSE 1
  BY DEF IInv, RunsCounted
<1>h. \A c \in Callers : (mutex = c <=> pc[c] # "idle") /\ CallerOK(c)
  BY DEF IInv, MutexHeld, CallerSane
<1>w. \A w \in Workers : state[w] = "running" =>
        /\ mutex \in Callers /\ pc[mutex] \in InCall /\ serving[w][1] = mutex
        /\ ~wait_for_work[w] /\ InTeam(mutex, w)
        /\ item[w] < size[mutex]
        /\ item[w] \in {w} \cup (team[mutex] .. feeder[mutex] - 1)
  BY Runner DEF IInv, WorkerSane, WorkerOK, RunningSane
\* A step that changes neither who runs and awaits what, nor what was run.
<1>1. ASSUME NEW c \in Callers, mutex = c, pc[c] \in InCall,
             runs' = runs, size' = size, pc'[c] \in InCall \cup {"return"},
             \A d \in Callers : d # c => pc'[d] = "idle",
             \A i \in 0 .. size[c] - 1 :
               (Busy(c, i) \/ Awaited(c, i))' <=> Busy(c, i) \/ Awaited(c, i)
      PROVE  RunsCounted'
  BY <1>1, <1>r DEF RunsCounted, InCall
<1>o. ASSUME NEW c \in Callers, pc[c] # "idle"
      PROVE  mutex = c /\ \A d \in Callers : d # c => pc[d] = "idle"
  BY <1>o, <1>h
<1>2. ASSUME NEW c \in Callers, NEW n \in 0 .. MaxWorkloads, Lock(c, n)
      PROVE  RunsCounted'
  <2>1. \A d \in Callers : pc[d] = "idle"
    BY <1>2, <1>h DEF Lock, MutexFree
  <2>2. \A d \in Callers : pc'[d] \in InCall \cup {"return"} => d = c
    BY <1>2, <2>1 DEF Lock, Goto, InCall
  <2>3. \A i \in 0 .. n - 1 : i \in Indices /\ runs'[c][i] = 0
    BY <1>2 DEF Lock, Indices, FeedType
  <2>4. ASSUME NEW i \in 0 .. n - 1 PROVE Awaited(c, i)'
    <3>1. pc'[c] = "start" /\ t'[c] = 0
      BY <1>2, <2>4 DEF Lock, Goto, CallType
    <3>2. feeder'[c] = team'[c] /\ team'[c] \in Int
      BY <1>2
         DEF Lock, FirstFed, Smaller, IInv, TypeOK, PoolType, CallType,
             FeedType
    <3> QED
      BY <3>1, <3>2 DEF Awaited
  <2> QED
    BY <1>2, <2>2, <2>3, <2>4 DEF Lock, RunsCounted, CallType
<1>3. ASSUME NEW c \in Callers, NEW n \in 1 .. MaxThreads,
             NEW k \in 0 .. threads, LockToResize(c, n, k)
      PROVE  RunsCounted'
  <2>1. \A d \in Callers : pc[d] = "idle"
    BY <1>3, <1>h DEF LockToResize, MutexFree
  <2> QED
    BY <1>3, <2>1 DEF LockToResize, Goto, InCall, RunsCounted
<1>4. ASSUME NEW c \in Callers, StartThread(c) PROVE RunsCounted'
  <2>1. pc[c] = "start" /\ pc' = [pc EXCEPT ![c] = "raise"]
    BY <1>4 DEF StartThread, Goto
  <2> QED
    BY <1>1, <1>4, <1>o, <2>1 DEF StartThread, Busy, Awaited, InCall
<1>5. ASSUME NEW c \in Callers, RaiseFlags(c) PROVE RunsCounted'
  <2>1. pc[c] = "raise" /\ pc' = [pc EXCEPT ![c] = "start"]
        /\ t'[c] = t[c] + 1 /\ t[c] \in Nat /\ t[c] < team[c] - 1
        /\ state[t[c]] # "running" /\ t[c] \in Workers
    BY <1>5, <1>h DEF RaiseFlags, Lockable, Goto, CallerOK, Workers, CallType
  <2>2. \A w \in Workers :
          /\ wait_for_work'[w] <=> wait_for_work[w] \/ w = t[c]
          /\ state'[w] = "running" <=> state[w] = "running"
    BY <1>5, <2>1 DEF RaiseFlags, Lockable, Raise, WakeWorker, WorkType, FlagType
  <2> QED
    BY <1>1, <1>5, <1>o, <2>1, <2>2
       DEF RaiseFlags, Lockable, Busy, Awaited, InCall, CallType, Workers
<1>6. ASSUME NEW c \in Callers, BeginOwn(c) PROVE RunsCounted'
  <2>1. /\ pc[c] = "start" /\ pc' = [pc EXCEPT ![c] = "own"] /\ pc'[c] = "own"
        /\ t[c] = team[c] - 1 /\ index'[c] = t[c] /\ team' = team /\ t' = t
        /\ feeder' = feeder /\ state' = state /\ item' = item
        /\ wait_for_work' = wait_for_work
    BY <1>6 DEF BeginOwn, Goto, CallType, FeedType
  <2> QED
    BY <1>1, <1>6, <1>o, <2>1
       DEF BeginOwn, Busy, Awaited, InCall, CallType, FeedType
<1>7. ASSUME NEW c \in Callers, NextOwn(c) PROVE RunsCounted'
  <2>a. mutex = c /\ pc[c] = "own" /\ CallerOK(c)
    BY <1>7, <1>o, <1>h DEF NextOwn
  <2>b. /\ team[c] <= feeder[c] /\ index[c] \in 0 .. size[c] - 1
        /\ index[c] < feeder[c]
    BY <2>a DEF CallerOK, InCall, CallType, FeedType
  <2>1. /\ mutex = c /\ pc[c] = "own" /\ pc'[c] \in {"own", "wait"} /\ size' = size
        /\ \A d \in Callers : d # c => pc'[d] = "idle"
        /\ feeder'[c] = feeder[c] + 1 /\ team' = team
        /\ state' = state /\ item' = item /\ wait_for_work' = wait_for_work
    BY <1>7, <1>o DEF NextOwn, RanOne, Goto, CallType, FeedType
  <2>2. pc'[c] = "own" => index'[c] = feeder[c]
    BY <1>7, <2>1 DEF NextOwn, Goto, CallType, FeedType
  <2>3. pc'[c] = "wait" => size[c] <= feeder[c]
    BY <1>7, <2>1 DEF NextOwn, FeedOver, Goto, CallType
  <2> SUFFICES ASSUME NEW i \in 0 .. size[c] - 1
               PROVE  runs'[c][i] = IF (Busy(c, i) \/ Awaited(c, i))' THEN 0 ELSE 1
    BY <2>1 DEF RunsCounted, InCall
  <2>4. runs'[c][i] = IF i = index[c] THEN runs[c][i] + 1 ELSE runs[c][i]
    <3>1. i \in Indices /\ index[c] \in Indices
      BY <2>b DEF CallType, Indices
    <3> QED
      BY <1>7, <3>1 DEF NextOwn, RanOne, FeedType
  <2>5. runs[c][i] = IF Busy(c, i) \/ Awaited(c, i) THEN 0 ELSE 1
    BY <1>r, <2>1 DEF InCall
  <2>6. i # index[c] =>
          ((Busy(c, i) \/ Awaited(c, i))' <=> Busy(c, i) \/ Awaited(c, i))
    BY <2>1, <2>b, <2>2, <2>3 DEF Busy, Awaited, CallType, FeedType
  <2>7. i = index[c] => Busy(c, i) /\ ~Busy(c, i)' /\ ~Awaited(c, i)'
    <3> SUFFICES ASSUME i = index[c]
                 PROVE  Busy(c, i) /\ ~Busy(c, i)' /\ ~Awaited(c, i)'
      OBVIOUS
    <3>1. \A w \in Workers : state[w] = "running" => item[w] # i
      BY <2>1 DEF ItemsDistinct
    <3>2. Busy(c, i) /\ ~Busy(c, i)'
      BY <2>1, <2>b, <2>2, <3>1 DEF Busy, FeedType
    <3>3. team[c] - 1 <= i
      BY <2>a DEF CallerOK, CallType, FeedType
    <3> QED
      BY <2>1, <2>b, <3>2, <3>3 DEF Awaited, CallType, FeedType
  <2> QED
    BY <2>4, <2>5, <2>6, <2>7
<1>8. ASSUME NEW c \in Callers, WaitForThread(c) PROVE RunsCounted'
  <2>1. /\ mutex = c /\ pc[c] = "wait" /\ pc'[c] \in {"wait", "asleep", "return"}
        /\ \A d \in Callers : d # c => pc'[d] = "idle"
    BY <1>8, <1>o DEF WaitForThread, Lockable, Goto, CallType
  <2> QED
    BY <1>1, <1>8, <2>1 DEF WaitForThread, Lockable, Busy, Awaited, InCall
<1>9. ASSUME NEW c \in Callers, WakeSpuriously(c) \/ AllWaited(c)
      PROVE  RunsCounted'
  <2>1. /\ mutex = c /\ pc[c] \in {"wait", "asleep"} /\ pc'[c] \in {"wait", "return"}
        /\ \A d \in Callers : d # c => pc'[d] = "idle"
    BY <1>9, <1>o DEF WakeSpuriously, AllWaited, Goto, CallType
  <2> QED
    BY <1>1, <1>9, <2>1 DEF WakeSpuriously, AllWaited, Busy, Awaited, InCall
<1>10. ASSUME NEW c \in Callers,
              Return(c) \/ Destroy(c) \/ Stop(c) \/ Join(c) \/ Create(c)
       PROVE  RunsCounted'
  <2>1. \A d \in Callers : pc'[d] \notin InCall \cup {"return"}
    BY <1>10, <1>o
       DEF Return, Destroy, Stop, Lockable, Join, Create, Goto, InCall, CallType
  <2> QED
    BY <2>1 DEF RunsCounted
<1>11. ASSUME NEW w \in Workers, TakeWork(w) PROVE RunsCounted'
  <2>1. CASE pc[mutex] = "join"
    <3>1. \A d \in Callers : pc'[d] \notin InCall \cup {"return"}
      BY <1>11, <1>o, <2>1, WorkIsOwed DEF TakeWork, InCall
    <3> QED
      BY <3>1 DEF RunsCounted
  <2>2. CASE pc[mutex] # "join"
    <3> DEFINE c == mutex
    <3>1. /\ c \in Callers /\ pc[c] \in InCall /\ workloads[w] # NoCall
          /\ InTeam(c, w) /\ wait_for_work[w] /\ state[w] = "check"
      BY <1>11, <2>2, WorkIsOwed DEF TakeWork
    <3>2. \A v \in Workers :
            /\ wait_for_work'[v] <=> wait_for_work[v] /\ v # w
            /\ (state'[v] = "running" <=> state[v] = "running" \/ v = w)
            /\ item'[v] = IF v = w THEN w ELSE item[v]
      BY <1>11, <3>1 DEF TakeWork, WorkType, FlagType
    <3>3. UNCHANGED <<mutex, pc, index, feeder, team, t, size, runs>>
      BY <1>11 DEF TakeWork
    <3>4. \A d \in Callers : d # c => pc'[d] = "idle"
      BY <1>o, <3>1, <3>3 DEF InCall
    <3>5. Awaited(c, w)
      BY <3>1 DEF Awaited, InTeam
    <3>6. \A i \in 0 .. size[c] - 1 :
            (Busy(c, i) \/ Awaited(c, i))' <=> Busy(c, i) \/ Awaited(c, i)
      <4> SUFFICES ASSUME NEW i \in 0 .. size[c] - 1
            PROVE (Busy(c, i) \/ Awaited(c, i))' <=> Busy(c, i) \/ Awaited(c, i)
        OBVIOUS
      <4>1. CASE i = w
        BY <3>2, <3>5, <4>1 DEF Busy
      <4>2. CASE i # w
        <5>1. i < team[c] - 1 => i \in Workers
          BY <3>1 DEF CallType, Workers
        <5>2. Busy(c, i)' <=> Busy(c, i)
          BY <3>1, <3>2, <3>3, <4>2 DEF Busy
        <5>3. Awaited(c, i)' <=> Awaited(c, i)
          BY <3>2, <3>3, <4>2, <5>1 DEF Awaited
        <5> QED
          BY <5>2, <5>3
      <4> QED
        BY <4>1, <4>2
    <3> QED
      BY <1>1, <3>1, <3>3, <3>4, <3>6
  <2> QED
    BY <2>1, <2>2
<1>12. ASSUME NEW w \in Workers, Sleep(w) \/ WakeWorkerSpuriously(w)
       PROVE  RunsCounted'
  <2>1. \A v \in Workers : state'[v] = "running" <=> state[v] = "running"
    BY <1>12 DEF Sleep, WakeWorkerSpuriously, WakeWorker, WorkType
  <2>2. UNCHANGED <<pc, index, feeder, team, t, size, runs, item, wait_for_work>>
    BY <1>12 DEF Sleep, WakeWorkerSpuriously
  <2> QED
    BY <1>r, <2>1, <2>2 DEF RunsCounted, Busy, Awaited
<1>13. ASSUME NEW w \in Workers, NextItem(w) PROVE RunsCounted'
  <2>c. PICK c \in Callers : c = mutex
    BY <1>13, <1>w DEF NextItem
  <2>1. /\ c \in Callers /\ pc[c] \in InCall /\ serving[w][1] = c
        /\ state[w] = "running" /\ InTeam(c, w) /\ ~wait_for_work[w]
        /\ item[w] < size[c] /\ item[w] \in {w} \cup (team[c] .. feeder[c] - 1)
    BY <1>13, <1>w, <2>c DEF NextItem
  <2>2. /\ CallerOK(c) /\ team[c] <= feeder[c] /\ team[c] \in Int /\ feeder[c] \in Int
        /\ \A d \in Callers : d # c => pc[d] = "idle"
    BY <1>h, <1>o, <2>1 DEF CallerOK, InCall, CallType, FeedType
  <2>3. item[w] \in 0 .. size[c] - 1 /\ item[w] < feeder[c]
    <3>1. w \in Int /\ 0 <= w /\ size[c] \in Int /\ w < team[c] - 1
      BY <2>1 DEF InTeam, Workers, CallType
    <3>2. CASE item[w] = w
      BY <2>1, <2>2, <3>1, <3>2
    <3>3. CASE item[w] \in team[c] .. feeder[c] - 1
      BY <2>1, <2>2, <3>1, <3>3
    <3> QED
      BY <2>1, <3>2, <3>3
  <2>4. /\ pc'[c] \in InCall /\ \A d \in Callers : d # c => pc'[d] = "idle"
        /\ pc'[c] = "own" <=> pc[c] = "own"
        /\ pc'[c] \in {"start", "raise"} <=> pc[c] \in {"start", "raise"}
        /\ UNCHANGED <<team, t, size, index, wait_for_work>>
        /\ feeder'[c] = feeder[c] + 1
        /\ \A v \in Workers : v # w => state'[v] = state[v] /\ item'[v] = item[v]
        /\ state'[w] = "running" => item'[w] = feeder[c]
        /\ state'[w] # "running" => size[c] <= feeder[c]
    BY <1>13, <2>1, <2>2
    DEF NextItem, RanOne, FeedOver, Complete, WakeCaller, InCall, CallType,
        FeedType,
        WorkType
  <2> SUFFICES ASSUME NEW i \in 0 .. size[c] - 1
               PROVE  runs'[c][i] = IF (Busy(c, i) \/ Awaited(c, i))' THEN 0 ELSE 1
    BY <2>1, <2>4 DEF RunsCounted, InCall
  <2>5. runs'[c][i] = IF i = item[w] THEN runs[c][i] + 1 ELSE runs[c][i]
    <3>1. i \in Indices /\ item[w] \in Indices
      BY <2>1, <2>3 DEF CallType, Indices
    <3> QED
      BY <1>13, <2>1, <3>1 DEF NextItem, RanOne, FeedType
  <2>6. runs[c][i] = IF Busy(c, i) \/ Awaited(c, i) THEN 0 ELSE 1
    BY <1>r, <2>1 DEF InCall
  <2>7. i # item[w] =>
          ((Busy(c, i) \/ Awaited(c, i))' <=> Busy(c, i) \/ Awaited(c, i))
    <3> SUFFICES ASSUME i # item[w]
          PROVE (Busy(c, i) \/ Awaited(c, i))' <=> Busy(c, i) \/ Awaited(c, i)
      OBVIOUS
    <3>1. Awaited(c, i) <=> Awaited(c, i)' \/ i = feeder[c]
      BY <2>2, <2>4 DEF Awaited
    <3>2. Busy(c, i) => Busy(c, i)'
      BY <2>4 DEF Busy
    <3>3. i = feeder[c] => Busy(c, i)'
      BY <2>1, <2>4 DEF Busy, CallType
    <3>4. Busy(c, i)' => Busy(c, i) \/ i = feeder[c]
      BY <2>4 DEF Busy
    <3> QED
      BY <3>1, <3>2, <3>3, <3>4
  <2>8. i = item[w] => Busy(c, i) /\ ~Busy(c, i)' /\ ~Awaited(c, i)'
    <3> SUFFICES ASSUME i = item[w]
                 PROVE  Busy(c, i) /\ ~Busy(c, i)' /\ ~Awaited(c, i)'
      OBVIOUS
    <3>1. Busy(c, i)
      BY <2>1 DEF Busy
    <3>2. ~Busy(c, i)'
      BY <2>c, <2>1, <2>2, <2>3, <2>4 DEF Busy, ItemsDistinct, WorkType
    <3>3. i = w \/ team[c] <= i
      BY <2>1
    <3>4. ~Awaited(c, i)'
      <4>1. ~(feeder'[c] <= i) /\ i # team'[c] - 1
        BY <2>1, <2>2, <2>3, <2>4, <3>3 DEF InTeam, Workers
      <4>2. i < team'[c] - 1 => i = w
        BY <2>2, <2>4, <3>3
      <4>3. pc'[c] \in {"start", "raise"} => ~(t'[c] <= w)
        BY <2>1, <2>4 DEF InTeam, Workers, CallType
      <4> QED
        BY <2>1, <2>4, <4>1, <4>2, <4>3 DEF Awaited
    <3> QED
      BY <3>1, <3>2, <3>4
  <2> QED
    BY <2>5, <2>6, <2>7, <2>8
<1>14. CASE UNCHANGED vars
  BY <1>14, <1>r DEF vars, RunsCounted, Busy, Awaited
<1> QED
  BY <1>2, <1>3, <1>4, <1>5, <1>6, <1>7, <1>8, <1>9, <1>10, <1>11, <1>12, <1>13,
     <1>14, StepCases

-----------------------------------------------------------------------------
\* The inductive invariant.
LEMMA Initially == ASSUME Init PROVE IInv
<1> USE SchedulerAssumption DEF Init, Workers, Indices
<1>1. PoolType /\ CallType
  BY DEF PoolType, CallType
<1>2. FeedType /\ FlagType
  BY DEF FeedType, FlagType
<1>3. WorkType
  BY DEF WorkType, Call_s, NoCall
<1>4. MutexHeld /\ PoolWhole /\ CallerSane /\ NoException
  BY DEF MutexHeld, PoolWhole, CallerSane, CallerOK, InCall, NoException
<1>5. WorkerSane
  BY DEF WorkerSane, WorkerOK, EngagedSane, Engaged, WaitingSane, RunningSane,
     ExitedSane
<1>6. ItemsDistinct /\ RunsCounted
  BY DEF ItemsDistinct, RunsCounted, InCall
<1> QED
  BY <1>1, <1>2, <1>3, <1>4, <1>5, <1>6 DEF IInv, TypeOK

\* Every step keeps it.
LEMMA Inductive == ASSUME ~MayThrow, IInv, [Next]_vars PROVE IInv'
<1>1. WorkerSane'
  BY WorkerStepSane DEF WorkerSane, Workers
<1> QED
  BY <1>1, TypeStep, MutexStep, PoolStep, CallerStepSane, ItemsStep, RunsStep,
     ExceptionStep DEF IInv

\* It always holds.
LEMMA Invariant == ASSUME ~MayThrow PROVE Spec => []IInv
<1>1. Init => IInv
  BY Initially
<1>2. IInv /\ [Next]_vars => IInv'
  BY Inductive
<1> QED
  BY <1>1, <1>2, PTL DEF Spec

\* Type correctness: in particular no thread is ever given an index outside
\* the vector of workloads, which process_workloads asserts.
THEOREM SchedulerTypeCorrect == ASSUME ~MayThrow PROVE Spec => []TypeOK
<1>1. IInv => TypeOK
  BY DEF IInv
<1> QED
  BY <1>1, Invariant, PTL

\* run_workloads returns after every workload has been run exactly once,
\* whatever the numbers of threads and workloads and however the caller and
\* the workers share them through the ThreadFeeder.
THEOREM RunsEachWorkloadOnce == ASSUME ~MayThrow PROVE Spec => []EachWorkloadOnce
<1>1. ASSUME IInv PROVE EachWorkloadOnce
  <2> SUFFICES ASSUME NEW c \in Callers, pc[c] = "return",
                      NEW i \in 0 .. size[c] - 1
               PROVE  runs[c][i] = 1
    BY DEF EachWorkloadOnce
  <2>1. mutex = c /\ size[c] <= feeder[c] /\ size[c] \in Int /\ feeder[c] \in Int
        /\ team[c] \in 0 .. MaxThreads
    BY <1>1
       DEF IInv, MutexHeld, CallerSane, CallerOK, TypeOK, CallType, FeedType
  <2>2. \A w \in Workers : ~wait_for_work[w] /\ state[w] # "running"
    BY <1>1, <2>1, NobodyWorks
  <2>3. ~Busy(c, i)
    BY <2>2 DEF Busy
  <2>4. i < team[c] - 1 => i \in Workers
    BY <2>1, SchedulerAssumption DEF Workers
  <2>5. ~Awaited(c, i)
    BY <2>1, <2>2, <2>4 DEF Awaited
  <2> QED
    BY <1>1, <2>3, <2>5 DEF IInv, RunsCounted
<1> QED
  BY <1>1, Invariant, PTL

\* The workloads of two calls never run at the same time, and no worker holds
\* on to those of a call that is over.
THEOREM OneCallAtATime == ASSUME ~MayThrow PROVE Spec => []CallsDoNotOverlap
<1>1. ASSUME IInv PROVE CallsDoNotOverlap
  <2>1. \A w \in Workers :
          state[w] = "running" => Alive(serving[w]) /\ serving[w][1] = mutex
    BY <1>1, Runner
  <2>2. \A c \in Callers : pc[c] = "own" => mutex = c
    BY <1>1 DEF IInv, MutexHeld
  <2> QED
    BY <2>1, <2>2 DEF CallsDoNotOverlap
<1> QED
  BY <1>1, Invariant, PTL

\* Thread::start may write its fields with no lock held: the worker is then
\* neither using them nor about to.
THEOREM StartDoesNotRace == ASSUME ~MayThrow PROVE Spec => FieldsNotRaced
<1> DEFINE Unraced == \A w \in Workers : workloads'[w] # workloads[w] =>
                        state[w] # "running" /\ ~wait_for_work[w]
<1>1. ASSUME IInv, [Next]_vars PROVE Unraced
  <2> SUFFICES ASSUME NEW w \in Workers, workloads'[w] # workloads[w]
               PROVE  state[w] # "running" /\ ~wait_for_work[w]
    OBVIOUS
  <2>h. \A c \in Callers : pc[c] # "idle" => mutex = c
    BY <1>1 DEF IInv, MutexHeld
  <2>1. ASSUME NEW c \in Callers, StartThread(c)
        PROVE  state[w] # "running" /\ ~wait_for_work[w]
    <3>1. mutex = c /\ pc[c] = "start" /\ w = t[c] /\ t[c] \in Int
      BY <1>1, <2>1, <2>h
      DEF StartThread, IInv, TypeOK, CallType, WorkType
    <3> QED
      BY <1>1, <3>1
         DEF IInv, WorkerSane, WorkerOK, EngagedSane, Engaged, InTeam, InCall
  <2>2. ASSUME NEW c \in Callers, Destroy(c) \/ Create(c)
        PROVE  state[w] # "running" /\ ~wait_for_work[w]
    <3>1. mutex = c /\ pc[c] = "destroy"
      BY <2>2, <2>h DEF Destroy, Create
    <3> QED
      BY <1>1, <3>1, NobodyWorks
  <2>3. CASE UNCHANGED workloads
    BY <2>3
  <2>4. \/ UNCHANGED workloads
        \/ \E c \in Callers : StartThread(c) \/ Destroy(c) \/ Create(c)
    BY <1>1
       DEF Next, Call, CallerStep, WorkerStep, Lock, LockToResize, RaiseFlags, Lockable,
       BeginOwn, NextOwn, ThrowOwn, WaitForThread, WakeSpuriously, AllWaited, Return,
       Stop, Join, TakeWork, Sleep, WakeWorkerSpuriously, NextItem,
       NextItemDangling, ThrowItem, vars, workVars
  <2> QED
    BY <2>1, <2>2, <2>3, <2>4
<1>2. IInv /\ [Next]_vars => [Unraced]_vars
  BY <1>1
<1> QED
  BY <1>2, Invariant, PTL DEF Spec, FieldsNotRaced

\* The pool of threads changes only while none of them runs a workload.
THEOREM PoolChangesBetweenCalls == ASSUME ~MayThrow PROVE Spec => PoolStable
<1> DEFINE Stable == threads' # threads \/ num_threads' # num_threads =>
                       \A w \in Workers : state[w] # "running"
<1>1. ASSUME IInv, [Next]_vars PROVE Stable
  <2>1. ASSUME NEW c \in Callers, Create(c) PROVE Stable
    <3>1. mutex = c /\ pc[c] = "destroy"
      BY <1>1, <2>1 DEF Create, IInv, MutexHeld
    <3> QED
      BY <1>1, <3>1, NobodyWorks
  <2>2. ASSUME mutex = Nobody PROVE Stable
    BY <1>1, <2>2, NobodyWorks, SchedulerAssumption
  <2>3. \/ UNCHANGED poolVars
        \/ mutex = Nobody
        \/ \E c \in Callers : Create(c)
    BY <1>1
       DEF Next, Call, CallerStep, WorkerStep, Lock, LockToResize, MutexFree,
       StartThread, RaiseFlags, Lockable, BeginOwn, NextOwn, ThrowOwn, WaitForThread,
       WakeSpuriously, AllWaited, Return, Destroy, Stop, Join, TakeWork, Sleep,
       WakeWorkerSpuriously, NextItem, NextItemDangling, ThrowItem, vars
  <2> QED
    BY <2>1, <2>2, <2>3 DEF poolVars
<1>2. IInv /\ [Next]_vars => [Stable]_vars
  BY <1>1
<1> QED
  BY <1>2, Invariant, PTL DEF Spec, PoolStable

-----------------------------------------------------------------------------
(***************************************************************************)
(* What holds even if workloads throw: a Thread is only ever destroyed     *)
(* after its thread has ended.                                             *)
(***************************************************************************)
JoinInv ==
  /\ num_threads \in Int /\ threads \in Int /\ t \in [Callers -> Int]
  /\ pc \in [Callers -> InCall \cup Resizing \cup {"idle", "return"}]
  /\ state \in [Workers -> {"check", "asleep", "running", "exited"}]
  /\ MutexHeld
  /\ \A c \in Callers : pc[c] \in Resizing =>
       \A w \in Workers : num_threads - 1 <= w /\ w < t[c] => state[w] = "exited"

\* Every step keeps JoinInv.
LEMMA JoinStep ==
  ASSUME JoinInv, [Next]_vars
  PROVE  JoinInv'
<1> USE SchedulerAssumption
    DEF JoinInv, MutexHeld, Resizing, InCall, Workers, callVars, workVars,
        flagVars, poolVars
<1>1. ASSUME NEW c \in Callers, NEW n \in 0 .. MaxWorkloads, Lock(c, n)
      PROVE  JoinInv'
  BY <1>1 DEF Lock, MutexFree, Goto
<1>2. ASSUME NEW c \in Callers, NEW n \in 1 .. MaxThreads,
             NEW k \in {0, Smaller(n - 1, threads)}, LockToResize(c, n, k)
      PROVE  JoinInv'
  <2>1. k \in Int /\ k <= n - 1
    BY DEF Smaller
  <2> QED
    BY <1>2, <2>1 DEF LockToResize, MutexFree, Goto
<1>3. ASSUME NEW c \in Callers, StartThread(c) \/ BeginOwn(c) PROVE JoinInv'
  BY <1>3 DEF StartThread, BeginOwn, Goto
<1>4. ASSUME NEW c \in Callers, RaiseFlags(c) PROVE JoinInv'
  <2>1. /\ mutex = c /\ pc' = [pc EXCEPT ![c] = "start"] /\ t' \in [Callers -> Int]
        /\ UNCHANGED <<mutex, num_threads, threads>>
    BY <1>4 DEF RaiseFlags, Lockable, Goto
  <2>2. state' \in [Workers -> {"check", "asleep", "running", "exited"}]
    BY <1>4 DEF RaiseFlags, Lockable, WakeWorker
  <2> QED
    BY <2>1, <2>2
<1>5. ASSUME NEW c \in Callers, NextOwn(c) PROVE JoinInv'
  BY <1>5 DEF NextOwn, Goto
<1>6. ASSUME NEW c \in Callers, ThrowOwn(c) \/ WakeSpuriously(c) \/ AllWaited(c)
      PROVE  JoinInv'
  BY <1>6 DEF ThrowOwn, WakeSpuriously, AllWaited, Goto
<1>7. ASSUME NEW c \in Callers, WaitForThread(c) PROVE JoinInv'
  <2>1. /\ mutex = c /\ t' \in [Callers -> Int]
        /\ \E p \in {"wait", "asleep", "return"} : pc' = [pc EXCEPT ![c] = p]
        /\ UNCHANGED <<mutex, num_threads, threads, state>>
    <3>1. pc[c] = "wait" /\ pc = [pc EXCEPT ![c] = "wait"]
      BY <1>7 DEF WaitForThread, Lockable
    <3> QED
      BY <1>7, <3>1 DEF WaitForThread, Lockable, Goto
  <2> QED
    BY <2>1
<1>8. ASSUME NEW c \in Callers, Return(c) PROVE JoinInv'
  BY <1>8 DEF Return, Goto
<1>9. ASSUME NEW c \in Callers, Destroy(c) PROVE JoinInv'
  BY <1>9 DEF Destroy, Goto
<1>10. ASSUME NEW c \in Callers, Stop(c) PROVE JoinInv'
  BY <1>10 DEF Stop, Lockable, WakeWorker, Goto
<1>11. ASSUME NEW c \in Callers, Join(c) PROVE JoinInv'
  BY <1>11 DEF Join, Joinable, Goto
<1>12. ASSUME NEW c \in Callers, Create(c) PROVE JoinInv'
  <2>1. /\ mutex = c /\ mutex' = Nobody /\ pc' = [pc EXCEPT ![c] = "idle"]
        /\ UNCHANGED <<num_threads, t>> /\ threads' \in Int
    BY <1>12 DEF Create, Goto
  <2>2. state' \in [Workers -> {"check", "asleep", "running", "exited"}]
    BY <1>12 DEF Create
  <2> QED
    BY <2>1, <2>2
<1>13. ASSUME NEW w \in Workers,
              TakeWork(w) \/ Sleep(w) \/ WakeWorkerSpuriously(w)
       PROVE  JoinInv'
  BY <1>13 DEF TakeWork, Sleep, WakeWorkerSpuriously, WakeWorker
<1>14. ASSUME NEW w \in Workers,
              NextItem(w) \/ NextItemDangling(w) \/ ThrowItem(w)
       PROVE  JoinInv'
  <2>1. /\ UNCHANGED <<mutex, num_threads, threads, t>>
        /\ \/ UNCHANGED <<pc, state>>
           \/ state' = [state EXCEPT ![w] = "check"] /\ state[w] = "running"
              /\ WakeCaller(w)
    BY <1>14 DEF NextItem, NextItemDangling, FetchAstray, FetchNowhere, ThrowItem, Complete
  <2> QED
    BY <2>1 DEF WakeCaller
<1>15. CASE UNCHANGED vars
  BY <1>15 DEF vars
<1>16. ASSUME NEW c \in Callers, Call(c) PROVE JoinInv'
  BY <1>1, <1>2, <1>16 DEF Call
<1> QED
  BY <1>3, <1>4, <1>5, <1>6, <1>7, <1>8, <1>9, <1>10, <1>11, <1>12, <1>13,
     <1>14,
     <1>15, <1>16 DEF Next, CallerStep, WorkerStep

\* Shrinking or rebinding the pool frees no Thread whose thread still runs,
\* even after calls that ended by an exception and left workers behind.
THEOREM NoThreadLeftRunning == Spec => ThreadsJoined
<1> DEFINE Joined == \A w \in Workers :
      threads' # threads /\ threads' <= w /\ w < threads => state[w] = "exited"
<1>1. Init => JoinInv
  BY SchedulerAssumption DEF Init, JoinInv, MutexHeld, Resizing, Workers
<1>2. JoinInv /\ [Next]_vars => JoinInv'
  BY JoinStep
<1>3. ASSUME JoinInv, [Next]_vars PROVE Joined
  <2>1. ASSUME NEW c \in Callers, Create(c) PROVE Joined
    BY <1>3, <2>1 DEF Create, JoinInv, Resizing, Workers
  <2>2. threads' = threads \/ \E c \in Callers : Create(c)
    BY <1>3 DEF Next, Call, CallerStep, WorkerStep, Lock, LockToResize,
       StartThread, RaiseFlags, Lockable, BeginOwn, NextOwn, ThrowOwn, WaitForThread,
       WakeSpuriously, AllWaited, Return, Destroy, Stop, Join, TakeWork, Sleep,
       WakeWorkerSpuriously, NextItem, NextItemDangling, ThrowItem, vars, poolVars
  <2> QED
    BY <2>1, <2>2
<1>4. JoinInv /\ [Next]_vars => [Joined]_vars
  BY <1>3
<1> QED
  BY <1>1, <1>2, <1>4, PTL DEF Spec, ThreadsJoined

-----------------------------------------------------------------------------
(***************************************************************************)
(* A call that none of its own workloads has thrown in runs them all, even *)
(* after calls that threw and left workers behind.                         *)
(***************************************************************************)
\* Who has been handed the current call of c.
Given(c, w) ==
  /\ pc[c] \in InCall \cup {"return"} /\ w < team[c] - 1
  /\ pc[c] = "start" => w < t[c]
  /\ pc[c] = "raise" => w <= t[c]

\* Who has been started by it.
Raised(c, w) ==
  pc[c] \in InCall /\ w < team[c] - 1 /\ (pc[c] \in {"start", "raise"} =>
    w < t[c])

\* Who still has to run something for it.
WorksFor(c, w) ==
  \/ wait_for_work[w] /\ workloads[w] = Current(c)
  \/ state[w] = "running" /\ serving[w] = Current(c)

ThrowCallType ==
  /\ pc \in [Callers -> InCall \cup Resizing \cup {"idle", "return"}]
  /\ calls \in [Callers -> Nat] /\ t \in [Callers -> Nat]
  /\ size \in [Callers -> 0 .. MaxWorkloads]
  /\ team \in [Callers -> 0 .. MaxThreads]
  /\ threw \in [Callers -> BOOLEAN]
  /\ left_behind \in [Callers -> BOOLEAN]

ThrowFeedType ==
  /\ feeder \in [Callers -> Nat] /\ index \in [Callers -> Nat]
  /\ runs \in [Callers -> [Indices -> Nat]]

ThrowWorkType ==
  /\ state \in [Workers -> {"check", "asleep", "running", "exited"}]
  /\ workloads \in [Workers -> Call_s] /\ serving \in [Workers -> Call_s]
  /\ item \in [Workers -> Nat]

ThrowType ==
  PoolType /\ ThrowCallType /\ ThrowFeedType /\ ThrowWorkType /\ FlagType

\* A call is handed to its own team, and to nobody after it has ended.
Belongs(k, w) ==
  \A c \in Callers, n \in Nat :
    k = <<c, n>> => n < calls[c] \/ (n = calls[c] /\ Given(c, w))

HandedOver ==
  \A w \in Workers :
    /\ workloads[w] # NoCall => w \in Indices
    /\ Belongs(workloads[w], w) /\ Belongs(serving[w], w)

FlagsAgree ==
  \A w \in Workers :
    /\ Engaged(w) => ~job_complete[w]
    /\ state[w] = "running" =>
         ~wait_for_work[w] /\ item[w] \in Indices /\ serving[w] # NoCall

TeamOK(c) ==
  /\ pc[c] \in InCall => 1 <= team[c] /\ team[c] <= size[c]
       /\ team[c] <= threads + 1
  /\ pc[c] = "start" => t[c] <= team[c] - 1
  /\ pc[c] = "raise" => t[c] < team[c] - 1 /\ workloads[t[c]] = Current(c)
  /\ pc[c] = "own" => index[c] \in 0 .. size[c] - 1
  /\ pc[c] \in {"wait", "asleep"} => size[c] <= feeder[c] /\ t[c] <= threads

\* A worker that the call has started serves it, and has an exception only
\* of it, or an old one until it takes the work.
Started(c, w) ==
  Raised(c, w) =>
    /\ workloads[w] = Current(c)
    /\ state[w] = "running" => serving[w] = Current(c)
    /\ exception[w] /\ ~threw[c] => wait_for_work[w]

StartedOK(c) == \A w \in Workers : Started(c, w)

\* A worker that its caller has waited for has nothing left to run.
Waited(c, w) == pc[c] \in {"wait", "asleep"} /\ WorksFor(c, w) => t[c] <= w

WaitedOK(c) == \A w \in Workers : Waited(c, w)

\* A call that began with no worker left by its caller has none later: what a
\* worker has of that caller is this call.
AloneAt(c, w) ==
  ~left_behind[c] /\ pc[c] \in InCall =>
    /\ state[w] = "running" /\ serving[w][1] = c => serving[w] = Current(c)
    /\ wait_for_work[w] /\ workloads[w] # NoCall /\ workloads[w][1] = c
         => workloads[w] = Current(c)

Alone(c) == \A w \in Workers : AloneAt(c, w)

\* What has not been run is being run, or will be.
Owed(c, i) ==
  \/ pc[c] = "own" /\ index[c] = i
  \/ \E w \in Workers : state[w] = "running" /\ serving[w] = Current(c)
       /\ item[w] = i
  \/ feeder[c] <= i
  \/ i = team[c] - 1 /\ pc[c] \in {"start", "raise"}
  \/ i < team[c] - 1 /\ pc[c] \in {"start", "raise"} /\ t[c] <= i
  \/ i \in Workers /\ wait_for_work[i] /\ workloads[i] = Current(c)

Settled(c, i) == runs[c][i] > 0 \/ (pc[c] # "return" /\ Owed(c, i))

ExecutedOK(c) ==
  ~threw[c] /\ ~left_behind[c] /\ pc[c] \in InCall \cup {"return"} =>
    \A i \in 0 .. size[c] - 1 : Settled(c, i)

CallsOK == \A c \in Callers : TeamOK(c) /\ StartedOK(c) /\ WaitedOK(c)
  /\ Alone(c) /\ ExecutedOK(c)

ThrowInv == ThrowType /\ MutexHeld /\ PoolWhole /\ HandedOver /\ FlagsAgree
  /\ CallsOK

\* Every step is one of these, workloads that throw included.
LEMMA StepsThrow ==
  ASSUME ThrowInv, [Next]_vars
  PROVE  \/ \E c \in Callers, n \in 0 .. MaxWorkloads : Lock(c, n)
         \/ \E c \in Callers, n \in 1 .. MaxThreads,
              k \in Nat : LockToResize(c, n, k)
         \/ \E c \in Callers : StartThread(c)
         \/ \E c \in Callers : RaiseFlags(c)
         \/ \E c \in Callers : BeginOwn(c)
         \/ \E c \in Callers : NextOwn(c)
         \/ \E c \in Callers : ThrowOwn(c)
         \/ \E c \in Callers : WaitForThread(c)
         \/ \E c \in Callers : WakeSpuriously(c)
         \/ \E c \in Callers : AllWaited(c)
         \/ \E c \in Callers : Return(c)
         \/ \E c \in Callers : Destroy(c)
         \/ \E c \in Callers : Stop(c)
         \/ \E c \in Callers : Join(c)
         \/ \E c \in Callers : Create(c)
         \/ \E w \in Workers : TakeWork(w)
         \/ \E w \in Workers : Sleep(w)
         \/ \E w \in Workers : WakeWorkerSpuriously(w)
         \/ \E w \in Workers : NextItem(w)
         \/ \E w \in Workers : NextItemDangling(w)
         \/ \E w \in Workers : ThrowItem(w)
         \/ UNCHANGED vars
<1>1. \A n \in 1 .. MaxThreads : Smaller(n - 1, threads) \in Nat /\ 0 \in Nat
  BY SchedulerAssumption DEF ThrowInv, ThrowType, PoolType, Smaller
<1> QED
  BY <1>1 DEF Next, Call, CallerStep, WorkerStep

\* Two callers are never in the scheduler at once.
LEMMA Sole ==
  ASSUME ThrowInv, NEW c \in Callers, NEW d \in Callers, d # c, pc[c] # "idle"
  PROVE  pc[d] = "idle"
BY DEF ThrowInv, MutexHeld

\* A call that has not ended is the current one of a caller that is in it.
LEMMA LiveCall ==
  ASSUME NEW k \in Call_s, Alive(k)
  PROVE  k[1] \in Callers /\ k = Current(k[1]) /\ pc[k[1]] \in InCall
<1>1. k = <<k[1], calls[k[1]]>>
  BY DEF Alive, Current
<1>2. k # NoCall
  BY <1>1 DEF NoCall
<1> QED
  BY <1>1, <1>2 DEF Call_s, Alive

\* So is the call of a worker that is not left behind.
LEMMA Runs ==
  ASSUME ThrowInv, NEW w \in Workers, Alive(serving[w])
  PROVE  /\ serving[w][1] \in Callers /\ serving[w] = Current(serving[w][1])
         /\ pc[serving[w][1]] \in InCall
BY LiveCall DEF ThrowInv, ThrowType, ThrowWorkType

\* The current call of a caller is a call, not nullptr.
LEMMA CurrentType ==
  ASSUME ThrowInv, NEW c \in Callers
  PROVE  Current(c) \in Call_s /\ Current(c) # NoCall
BY DEF ThrowInv, ThrowType, ThrowCallType, Current, Call_s, NoCall

\* The call of d stays handed to worker v, or ends.
GivenKept(d, v) ==
  \/ calls[d] < calls'[d]
  \/ calls'[d] = calls[d] /\ (Given(d, v) => Given(d, v)')

\* What a worker left behind leaves alone, and what it may do to the feeder
\* and the runs of the caller whose frames it holds, and of nobody else.
Dangles(w) ==
  /\ state[w] = "running"
  /\ \/ Complete(w) /\ UNCHANGED item
     \/ UNCHANGED <<job_complete, state, pc>>
  /\ UNCHANGED <<mutex, poolVars, calls, size, team, t, index, threw,
                 left_behind, workloads, serving, wait_for_work, exception>>

LEMMA Dangling ==
  ASSUME ThrowInv, NEW w \in Workers, NextItemDangling(w)
  PROVE  /\ Dangles(w)
         /\ \A v \in Workers : v # w => item'[v] = item[v]
         /\ item' \in [Workers -> Nat]
         /\ state'[w] = "running" => item'[w] \in Indices
         /\ feeder' \in [Callers -> Nat] /\ runs' \in [Callers -> [Indices -> Nat]]
         /\ \A d \in Callers : feeder[d] <= feeder'[d]
         /\ ~(pc[serving[w][1]] \in InCall) => UNCHANGED <<feeder, runs>>
<1> USE DEF ThrowInv, ThrowType
<1> DEFINE c == serving[w][1]
<1>1. /\ feeder \in [Callers -> Nat] /\ runs \in [Callers -> [Indices -> Nat]]
      /\ item \in [Workers -> Nat] /\ size \in [Callers -> 0 .. MaxWorkloads]
      /\ Indices \subseteq Nat
  BY DEF ThrowFeedType, ThrowWorkType, ThrowCallType, Indices
<1>2. state[w] = "running" /\ item[w] \in Indices /\ c \in Callers
  <2>1. state[w] = "running"
    BY DEF NextItemDangling
  <2>2. serving[w] \in Callers \X Nat /\ item[w] \in Indices
    BY <2>1 DEF FlagsAgree, ThrowWorkType, Call_s
  <2> QED
    BY <2>1, <2>2
<1>3. UNCHANGED <<mutex, poolVars, calls, size, team, t, index, threw,
                  left_behind, workloads, serving, wait_for_work, exception>>
  BY DEF NextItemDangling
<1>4. CASE FetchNowhere(w)
  <2>1. /\ UNCHANGED <<feeder, runs>>
        /\ \/ Complete(w) /\ UNCHANGED item
           \/ /\ \E i \in Indices : item' = [item EXCEPT ![w] = i]
              /\ UNCHANGED <<job_complete, state, pc>>
    BY <1>4 DEF FetchNowhere
  <2>2. Dangles(w)
    BY <1>2, <1>3, <2>1 DEF Dangles
  <2>3. /\ \A v \in Workers : v # w => item'[v] = item[v]
        /\ item' \in [Workers -> Nat] /\ item'[w] \in Indices
    BY <1>1, <1>2, <2>1
  <2>4. \A d \in Callers : feeder[d] <= feeder'[d]
    BY <1>1, <2>1
  <2> QED
    BY <1>1, <2>1, <2>2, <2>3, <2>4
<1>5. CASE FetchAstray(w)
  <2>1. /\ pc[c] \in InCall
        /\ feeder' = [feeder EXCEPT ![c] = @ + 1]
        /\ UNCHANGED runs \/ runs' = [runs EXCEPT ![c][item[w]] = @ + 1]
    BY <1>5 DEF FetchAstray
  <2>2. \/ Complete(w) /\ UNCHANGED item
        \/ /\ feeder[c] < size[c] /\ item' = [item EXCEPT ![w] = feeder[c]]
           /\ UNCHANGED <<job_complete, state, pc>>
    <3>1. feeder[c] \in Nat /\ size[c] \in Nat
      BY <1>1, <1>2
    <3> QED
      BY <1>5, <3>1 DEF FetchAstray, FeedOver
  <2>3. Dangles(w)
    BY <1>2, <1>3, <2>2 DEF Dangles
  <2>4. /\ \A v \in Workers : v # w => item'[v] = item[v]
        /\ item' \in [Workers -> Nat] /\ item'[w] \in Indices
    <3>1. feeder[c] \in Nat /\ (feeder[c] < size[c] => feeder[c] \in Indices)
      BY <1>1, <1>2, SchedulerAssumption DEF Indices
    <3> HIDE DEF c
    <3> QED
      BY <1>1, <1>2, <2>2, <3>1
  <2>5. /\ feeder' \in [Callers -> Nat]
        /\ \A d \in Callers : feeder[d] <= feeder'[d]
    <3> HIDE DEF c
    <3> QED
      BY <1>1, <1>2, <2>1
  <2>6. runs' \in [Callers -> [Indices -> Nat]]
    <3> HIDE DEF c
    <3>1. runs[c] \in [Indices -> Nat] /\ runs[c][item[w]] \in Nat
      BY <1>1, <1>2
    <3>2. [runs[c] EXCEPT ![item[w]] = @ + 1] \in [Indices -> Nat]
      BY <1>2, <3>1
    <3> QED
      BY <1>1, <2>1, <3>2
  <2> QED
    BY <2>1, <2>3, <2>4, <2>5, <2>6
<1> QED
  BY <1>4, <1>5 DEF NextItemDangling

\* While one caller is in the scheduler the others are idle, and stay so.
LEMMA OthersIdle ==
  ASSUME ThrowInv, NEW c \in Callers, NEW d \in Callers, d # c,
         pc[c] # "idle" \/ mutex = Nobody, pc'[d] = pc[d]
  PROVE  pc'[d] = "idle"
BY SchedulerAssumption DEF ThrowInv, MutexHeld

\* A step that leaves alone a workload's runs and its owner leaves it settled.
LEMMA SettledKeeps ==
  ASSUME NEW d \in Callers, NEW i \in Int, Settled(d, i),
         UNCHANGED <<calls, index, team, t, runs, feeder, workloads,
                     wait_for_work>>,
         pc'[d] = pc[d] \/ {pc[d], pc'[d]} \subseteq {"wait", "asleep"},
         \A w \in Workers :
           state[w] = "running" /\ serving[w] = Current(d) /\ item[w] = i =>
             state'[w] = "running" /\ serving'[w] = serving[w] /\ item'[w] = i
  PROVE  Settled(d, i)'
<1> USE DEF Current
<1>1. CASE runs[d][i] > 0
  BY <1>1 DEF Settled
<1>2. ASSUME Owed(d, i), pc[d] # "return" PROVE Owed(d, i)'
               /\ pc'[d] # "return"
  BY <1>2 DEF Owed
<1> QED
  BY <1>1, <1>2 DEF Settled

\* Once the caller has waited for its whole team, every workload has been run.
LEMMA TeamDone ==
  ASSUME ThrowInv, NEW c \in Callers, pc[c] = "wait", ~threw[c], ~left_behind[c],
         team[c] - 1 <= t[c], NEW i \in 0 .. size[c] - 1
  PROVE  runs[c][i] > 0
<1> USE DEF ThrowInv, ThrowType
<1>1. Settled(c, i) /\ WaitedOK(c) /\ TeamOK(c)
  BY DEF CallsOK, ExecutedOK, InCall
<1>2. calls[c] \in Nat /\ t[c] \in Nat /\ team[c] \in Nat /\ size[c] \in Nat
        /\ feeder[c] \in Nat
  BY DEF ThrowCallType, ThrowFeedType
<1>3. ASSUME NEW w \in Workers, WorksFor(c, w) PROVE FALSE
  <2>1. t[c] <= w /\ w \in Int
    BY <1>1, <1>3 DEF WaitedOK, Waited, Workers, InCall
  <2>2. workloads[w] = <<c, calls[c]>> \/ serving[w] = <<c, calls[c]>>
    BY <1>3 DEF WorksFor, Current
  <2>3. Belongs(workloads[w], w) /\ Belongs(serving[w], w)
    BY DEF HandedOver
  <2>4. Given(c, w)
    BY <1>2, <2>2, <2>3 DEF Belongs
  <2> QED
    BY <1>2, <2>1, <2>4 DEF Given
<1>4. ~Owed(c, i)
  BY <1>1, <1>2, <1>3 DEF Owed, WorksFor, TeamOK
<1> QED
  BY <1>1, <1>4 DEF Settled

\* A step of a worker leaves the caller's team as it was.
LEMMA TeamKeeps ==
  ASSUME NEW d \in Callers, TeamOK(d), pc[d] \in InCall,
         UNCHANGED <<team, size, threads, t, index, calls, workloads>>,
         pc'[d] = pc[d] \/ {pc[d], pc'[d]} \subseteq {"wait", "asleep"},
         feeder[d] \in Nat, feeder'[d] \in Nat, feeder[d] <= feeder'[d],
         size[d] \in Nat
  PROVE  TeamOK(d)'
BY DEF TeamOK, InCall, Current

\* The pool keeps its bounds.
LEMMA ThrowPoolStep ==
  ASSUME ThrowInv, [Next]_vars
  PROVE  PoolType'
<1> USE SchedulerAssumption
    DEF callVars, workVars, flagVars, poolVars, ThrowInv, ThrowType, PoolType,
        vars
<1>1. ASSUME NEW c \in Callers, NEW n \in 0 .. MaxWorkloads, Lock(c, n)
      PROVE  PoolType'
  BY <1>1 DEF Lock, MutexFree, FirstFed, Smaller, Goto
<1>2. ASSUME NEW c \in Callers, NEW n \in 1 .. MaxThreads, NEW k \in Nat,
               LockToResize(c, n, k)
      PROVE  PoolType'
  BY <1>2 DEF LockToResize, MutexFree, Goto
<1>3. ASSUME NEW c \in Callers, StartThread(c)
      PROVE  PoolType'
  BY <1>3 DEF StartThread, Goto
<1>4. ASSUME NEW c \in Callers, RaiseFlags(c)
      PROVE  PoolType'
  BY <1>4 DEF RaiseFlags, Lockable, Raise, WakeWorker, Goto
<1>5. ASSUME NEW c \in Callers, BeginOwn(c)
      PROVE  PoolType'
  BY <1>5 DEF BeginOwn, Goto
<1>6. ASSUME NEW c \in Callers, NextOwn(c)
      PROVE  PoolType'
  BY <1>6 DEF NextOwn, RanOne, FeedOver, Goto
<1>7. ASSUME NEW c \in Callers, ThrowOwn(c)
      PROVE  PoolType'
  BY <1>7 DEF ThrowOwn, Goto
<1>8. ASSUME NEW c \in Callers, WaitForThread(c)
      PROVE  PoolType'
  BY <1>8 DEF WaitForThread, Lockable, WaitedForAll, Goto
<1>9. ASSUME NEW c \in Callers, WakeSpuriously(c)
      PROVE  PoolType'
  BY <1>9 DEF WakeSpuriously, Goto
<1>10. ASSUME NEW c \in Callers, AllWaited(c)
      PROVE  PoolType'
  BY <1>10 DEF AllWaited, WaitedForAll, Goto
<1>11. ASSUME NEW c \in Callers, Return(c)
      PROVE  PoolType'
  BY <1>11 DEF Return, Goto
<1>12. ASSUME NEW c \in Callers, Destroy(c)
      PROVE  PoolType'
  BY <1>12 DEF Destroy, Goto
<1>13. ASSUME NEW c \in Callers, Stop(c)
      PROVE  PoolType'
  BY <1>13 DEF Stop, Lockable, Raise, WakeWorker, Goto
<1>14. ASSUME NEW c \in Callers, Join(c)
      PROVE  PoolType'
  BY <1>14 DEF Join, Goto
<1>15. ASSUME NEW c \in Callers, Create(c)
      PROVE  PoolType'
  BY <1>15 DEF Create, NewComplete, Goto
<1>16. ASSUME NEW w \in Workers, TakeWork(w)
      PROVE  PoolType'
  BY <1>16 DEF TakeWork, ClearException
<1>17. ASSUME NEW w \in Workers, Sleep(w)
      PROVE  PoolType'
  BY <1>17 DEF Sleep
<1>18. ASSUME NEW w \in Workers, WakeWorkerSpuriously(w)
      PROVE  PoolType'
  BY <1>18 DEF WakeWorkerSpuriously, WakeWorker
<1>19. ASSUME NEW w \in Workers, NextItem(w)
      PROVE  PoolType'
  BY <1>19 DEF NextItem, RanOne, FeedOver, Complete, WakeCaller
<1>20. ASSUME NEW w \in Workers, NextItemDangling(w)
      PROVE  PoolType'
  BY <1>20, Dangling DEF Dangles, Complete, WakeCaller
<1>21. ASSUME NEW w \in Workers, ThrowItem(w)
      PROVE  PoolType'
  BY <1>21 DEF ThrowItem, Complete, WakeCaller
<1>22. CASE UNCHANGED vars
  BY <1>22 DEF vars
<1> QED
  BY <1>1, <1>2, <1>3, <1>4, <1>5, <1>6, <1>7, <1>8, <1>9, <1>10, <1>11, <1>12,
     <1>13, <1>14, <1>15, <1>16, <1>17, <1>18, <1>19, <1>20, <1>21, <1>22,
     StepsThrow

\* The callers' variables keep their types.
LEMMA ThrowCallStep ==
  ASSUME ThrowInv, [Next]_vars
  PROVE  ThrowCallType'
<1> USE SchedulerAssumption
    DEF callVars, workVars, flagVars, poolVars, ThrowInv, ThrowType,
        ThrowCallType, InCall, Resizing, PoolType
<1>1. ASSUME NEW c \in Callers, NEW n \in 0 .. MaxWorkloads, Lock(c, n)
      PROVE  ThrowCallType'
  <2>1. Smaller(num_threads, n) \in 0 .. MaxThreads
    BY DEF Smaller
  <2> QED
    BY <1>1, <2>1 DEF Lock, Goto
<1>2. ASSUME NEW c \in Callers, NEW n \in 1 .. MaxThreads, NEW k \in Nat,
               LockToResize(c, n, k)
      PROVE  ThrowCallType'
  BY <1>2 DEF LockToResize, MutexFree, Goto
<1>3. ASSUME NEW c \in Callers, StartThread(c)
      PROVE  ThrowCallType'
  BY <1>3 DEF StartThread, Goto
<1>4. ASSUME NEW c \in Callers, RaiseFlags(c)
      PROVE  ThrowCallType'
  BY <1>4 DEF RaiseFlags, Lockable, Raise, WakeWorker, Goto
<1>5. ASSUME NEW c \in Callers, BeginOwn(c)
      PROVE  ThrowCallType'
  BY <1>5 DEF BeginOwn, Goto
<1>6. ASSUME NEW c \in Callers, NextOwn(c)
      PROVE  ThrowCallType'
  BY <1>6 DEF NextOwn, RanOne, FeedOver, Goto
<1>7. ASSUME NEW c \in Callers, ThrowOwn(c)
      PROVE  ThrowCallType'
  BY <1>7 DEF ThrowOwn, Goto
<1>8. ASSUME NEW c \in Callers, WaitForThread(c)
      PROVE  ThrowCallType'
  BY <1>8 DEF WaitForThread, Lockable, WaitedForAll, Goto
<1>9. ASSUME NEW c \in Callers, WakeSpuriously(c)
      PROVE  ThrowCallType'
  BY <1>9 DEF WakeSpuriously, Goto
<1>10. ASSUME NEW c \in Callers, AllWaited(c)
      PROVE  ThrowCallType'
  BY <1>10 DEF AllWaited, WaitedForAll, Goto
<1>11. ASSUME NEW c \in Callers, Return(c)
      PROVE  ThrowCallType'
  BY <1>11 DEF Return, Goto
<1>12. ASSUME NEW c \in Callers, Destroy(c)
      PROVE  ThrowCallType'
  BY <1>12 DEF Destroy, Goto
<1>13. ASSUME NEW c \in Callers, Stop(c)
      PROVE  ThrowCallType'
  BY <1>13 DEF Stop, Lockable, Raise, WakeWorker, Goto
<1>14. ASSUME NEW c \in Callers, Join(c)
      PROVE  ThrowCallType'
  BY <1>14 DEF Join, Goto
<1>15. ASSUME NEW c \in Callers, Create(c)
      PROVE  ThrowCallType'
  BY <1>15 DEF Create, NewComplete, Goto
<1>16. ASSUME NEW w \in Workers, TakeWork(w)
      PROVE  ThrowCallType'
  BY <1>16 DEF TakeWork, ClearException
<1>17. ASSUME NEW w \in Workers, Sleep(w)
      PROVE  ThrowCallType'
  BY <1>17 DEF Sleep
<1>18. ASSUME NEW w \in Workers, WakeWorkerSpuriously(w)
      PROVE  ThrowCallType'
  BY <1>18 DEF WakeWorkerSpuriously, WakeWorker
<1>19. ASSUME NEW w \in Workers, NextItem(w)
      PROVE  ThrowCallType'
  BY <1>19 DEF NextItem, RanOne, FeedOver, Complete, WakeCaller
<1>20. ASSUME NEW w \in Workers, NextItemDangling(w)
      PROVE  ThrowCallType'
  BY <1>20, Dangling DEF Dangles, Complete, WakeCaller
<1>21. ASSUME NEW w \in Workers, ThrowItem(w)
      PROVE  ThrowCallType'
  BY <1>21 DEF ThrowItem, Complete, WakeCaller
<1>22. CASE UNCHANGED vars
  BY <1>22 DEF vars
<1> QED
  BY <1>1, <1>2, <1>3, <1>4, <1>5, <1>6, <1>7, <1>8, <1>9, <1>10, <1>11, <1>12,
     <1>13, <1>14, <1>15, <1>16, <1>17, <1>18, <1>19, <1>20, <1>21, <1>22,
     StepsThrow

\* The feeder and the counts of runs keep their types.
LEMMA ThrowFeedStep ==
  ASSUME ThrowInv, [Next]_vars
  PROVE  ThrowFeedType'
<1> USE SchedulerAssumption
    DEF callVars, workVars, flagVars, poolVars, ThrowInv, ThrowType,
        ThrowFeedType
<1>1. ASSUME NEW c \in Callers, NEW n \in 0 .. MaxWorkloads, Lock(c, n)
      PROVE  ThrowFeedType'
  <2>1. Smaller(num_threads, n) \in Nat
    BY DEF Smaller, PoolType
  <2> QED
    BY <1>1, <2>1 DEF Lock, FirstFed
<1>2. ASSUME NEW c \in Callers, NEW n \in 1 .. MaxThreads, NEW k \in Nat,
               LockToResize(c, n, k)
      PROVE  ThrowFeedType'
  BY <1>2 DEF LockToResize, MutexFree, Goto
<1>3. ASSUME NEW c \in Callers, StartThread(c)
      PROVE  ThrowFeedType'
  BY <1>3 DEF StartThread, Goto
<1>4. ASSUME NEW c \in Callers, RaiseFlags(c)
      PROVE  ThrowFeedType'
  BY <1>4 DEF RaiseFlags, Lockable, Raise, WakeWorker, Goto
<1>5. ASSUME NEW c \in Callers, BeginOwn(c)
      PROVE  ThrowFeedType'
  BY <1>5 DEF BeginOwn, ThrowCallType
<1>6. ASSUME NEW c \in Callers, NextOwn(c)
      PROVE  ThrowFeedType'
  <2>1. index[c] \in Indices
    BY <1>6 DEF NextOwn, CallsOK, TeamOK, ThrowCallType, Indices
  <2> QED
    BY <1>6, <2>1 DEF NextOwn, RanOne
<1>7. ASSUME NEW c \in Callers, ThrowOwn(c)
      PROVE  ThrowFeedType'
  BY <1>7 DEF ThrowOwn, Goto
<1>8. ASSUME NEW c \in Callers, WaitForThread(c)
      PROVE  ThrowFeedType'
  BY <1>8 DEF WaitForThread, Lockable, WaitedForAll, Goto
<1>9. ASSUME NEW c \in Callers, WakeSpuriously(c)
      PROVE  ThrowFeedType'
  BY <1>9 DEF WakeSpuriously, Goto
<1>10. ASSUME NEW c \in Callers, AllWaited(c)
      PROVE  ThrowFeedType'
  BY <1>10 DEF AllWaited, WaitedForAll, Goto
<1>11. ASSUME NEW c \in Callers, Return(c)
      PROVE  ThrowFeedType'
  BY <1>11 DEF Return, Goto
<1>12. ASSUME NEW c \in Callers, Destroy(c)
      PROVE  ThrowFeedType'
  BY <1>12 DEF Destroy, Goto
<1>13. ASSUME NEW c \in Callers, Stop(c)
      PROVE  ThrowFeedType'
  BY <1>13 DEF Stop, Lockable, Raise, WakeWorker, Goto
<1>14. ASSUME NEW c \in Callers, Join(c)
      PROVE  ThrowFeedType'
  BY <1>14 DEF Join, Goto
<1>15. ASSUME NEW c \in Callers, Create(c)
      PROVE  ThrowFeedType'
  BY <1>15 DEF Create, NewComplete, Goto
<1>16. ASSUME NEW w \in Workers, TakeWork(w)
      PROVE  ThrowFeedType'
  BY <1>16 DEF TakeWork, ClearException
<1>17. ASSUME NEW w \in Workers, Sleep(w)
      PROVE  ThrowFeedType'
  BY <1>17 DEF Sleep
<1>18. ASSUME NEW w \in Workers, WakeWorkerSpuriously(w)
      PROVE  ThrowFeedType'
  BY <1>18 DEF WakeWorkerSpuriously, WakeWorker
<1>19. ASSUME NEW w \in Workers, NextItem(w)
      PROVE  ThrowFeedType'
  <2>1. serving[w][1] \in Callers /\ item[w] \in Indices
    BY <1>19, Runs DEF NextItem, FlagsAgree
  <2> QED
    BY <1>19, <2>1 DEF NextItem, RanOne
<1>20. ASSUME NEW w \in Workers, NextItemDangling(w)
      PROVE  ThrowFeedType'
  BY <1>20, Dangling DEF Dangles, Complete, WakeCaller
<1>21. ASSUME NEW w \in Workers, ThrowItem(w)
      PROVE  ThrowFeedType'
  BY <1>21 DEF ThrowItem, Complete, WakeCaller
<1>22. CASE UNCHANGED vars
  BY <1>22 DEF vars
<1> QED
  BY <1>1, <1>2, <1>3, <1>4, <1>5, <1>6, <1>7, <1>8, <1>9, <1>10, <1>11, <1>12,
     <1>13, <1>14, <1>15, <1>16, <1>17, <1>18, <1>19, <1>20, <1>21, <1>22,
     StepsThrow

\* The workers' variables keep their types.
LEMMA ThrowWorkStep ==
  ASSUME ThrowInv, [Next]_vars
  PROVE  ThrowWorkType'
<1> USE SchedulerAssumption
    DEF callVars, workVars, flagVars, poolVars, ThrowInv, ThrowType,
        ThrowWorkType
<1>1. ASSUME NEW c \in Callers, NEW n \in 0 .. MaxWorkloads, Lock(c, n)
      PROVE  ThrowWorkType'
  BY <1>1 DEF Lock, MutexFree, FirstFed, Smaller, Goto
<1>2. ASSUME NEW c \in Callers, NEW n \in 1 .. MaxThreads, NEW k \in Nat,
               LockToResize(c, n, k)
      PROVE  ThrowWorkType'
  BY <1>2 DEF LockToResize, MutexFree, Goto
<1>3. ASSUME NEW c \in Callers, StartThread(c)
      PROVE  ThrowWorkType'
  BY <1>3, CurrentType DEF StartThread
<1>4. ASSUME NEW c \in Callers, RaiseFlags(c)
      PROVE  ThrowWorkType'
  BY <1>4 DEF RaiseFlags, Lockable, Raise, WakeWorker, Goto
<1>5. ASSUME NEW c \in Callers, BeginOwn(c)
      PROVE  ThrowWorkType'
  BY <1>5 DEF BeginOwn, Goto
<1>6. ASSUME NEW c \in Callers, NextOwn(c)
      PROVE  ThrowWorkType'
  BY <1>6 DEF NextOwn, RanOne, FeedOver, Goto
<1>7. ASSUME NEW c \in Callers, ThrowOwn(c)
      PROVE  ThrowWorkType'
  BY <1>7 DEF ThrowOwn, Goto
<1>8. ASSUME NEW c \in Callers, WaitForThread(c)
      PROVE  ThrowWorkType'
  BY <1>8 DEF WaitForThread, Lockable, WaitedForAll, Goto
<1>9. ASSUME NEW c \in Callers, WakeSpuriously(c)
      PROVE  ThrowWorkType'
  BY <1>9 DEF WakeSpuriously, Goto
<1>10. ASSUME NEW c \in Callers, AllWaited(c)
      PROVE  ThrowWorkType'
  BY <1>10 DEF AllWaited, WaitedForAll, Goto
<1>11. ASSUME NEW c \in Callers, Return(c)
      PROVE  ThrowWorkType'
  BY <1>11 DEF Return, Goto
<1>12. ASSUME NEW c \in Callers, Destroy(c)
      PROVE  ThrowWorkType'
  BY <1>12 DEF Destroy, Call_s
<1>13. ASSUME NEW c \in Callers, Stop(c)
      PROVE  ThrowWorkType'
  BY <1>13 DEF Stop, Lockable, Raise, WakeWorker, Goto
<1>14. ASSUME NEW c \in Callers, Join(c)
      PROVE  ThrowWorkType'
  BY <1>14 DEF Join, Goto
<1>15. ASSUME NEW c \in Callers, Create(c)
      PROVE  ThrowWorkType'
  <2>1. /\ state' \in [Workers -> {"check", "asleep", "running", "exited"}]
        /\ UNCHANGED <<serving, item>>
    BY <1>15 DEF Create
  <2>2. NoCall \in Call_s
    BY DEF Call_s
  <2>3. workloads' \in [Workers -> Call_s]
    BY <1>15, <2>2 DEF Create
  <2> QED
    BY <2>1, <2>3
<1>16. ASSUME NEW w \in Workers, TakeWork(w)
      PROVE  ThrowWorkType'
  BY <1>16 DEF TakeWork, Workers
<1>17. ASSUME NEW w \in Workers, Sleep(w)
      PROVE  ThrowWorkType'
  BY <1>17 DEF Sleep
<1>18. ASSUME NEW w \in Workers, WakeWorkerSpuriously(w)
      PROVE  ThrowWorkType'
  BY <1>18 DEF WakeWorkerSpuriously, WakeWorker
<1>19. ASSUME NEW w \in Workers, NextItem(w)
      PROVE  ThrowWorkType'
  <2>1. feeder[serving[w][1]] \in Nat
    BY <1>19, Runs DEF NextItem, ThrowFeedType
  <2>2. state' \in [Workers -> {"check", "asleep", "running", "exited"}]
    BY <1>19 DEF NextItem, Complete
  <2>3. item' \in [Workers -> Nat]
    BY <1>19, <2>1 DEF NextItem
  <2> QED
    BY <1>19, <2>2, <2>3 DEF NextItem
<1>20. ASSUME NEW w \in Workers, NextItemDangling(w)
      PROVE  ThrowWorkType'
  <2>2. state' \in [Workers -> {"check", "asleep", "running", "exited"}]
    BY <1>20, Dangling DEF Dangles, Complete
  <2>3. item' \in [Workers -> Nat]
    BY <1>20, Dangling DEF Dangles, Indices
  <2> QED
    BY <1>20, Dangling, <2>2, <2>3 DEF Dangles
<1>21. ASSUME NEW w \in Workers, ThrowItem(w)
      PROVE  ThrowWorkType'
  BY <1>21 DEF ThrowItem, Complete, WakeCaller
<1>22. CASE UNCHANGED vars
  BY <1>22 DEF vars
<1> QED
  BY <1>1, <1>2, <1>3, <1>4, <1>5, <1>6, <1>7, <1>8, <1>9, <1>10, <1>11, <1>12,
     <1>13, <1>14, <1>15, <1>16, <1>17, <1>18, <1>19, <1>20, <1>21, <1>22,
     StepsThrow

\* The flags stay Boolean.
LEMMA ThrowFlagStep ==
  ASSUME ThrowInv, [Next]_vars
  PROVE  FlagType'
<1> USE SchedulerAssumption
    DEF callVars, workVars, flagVars, poolVars, ThrowInv, ThrowType, FlagType
<1>1. ASSUME NEW c \in Callers, NEW n \in 0 .. MaxWorkloads, Lock(c, n)
      PROVE  FlagType'
  BY <1>1 DEF Lock, MutexFree, FirstFed, Smaller, Goto
<1>2. ASSUME NEW c \in Callers, NEW n \in 1 .. MaxThreads, NEW k \in Nat,
               LockToResize(c, n, k)
      PROVE  FlagType'
  BY <1>2 DEF LockToResize, MutexFree, Goto
<1>3. ASSUME NEW c \in Callers, StartThread(c)
      PROVE  FlagType'
  BY <1>3 DEF StartThread, Goto
<1>4. ASSUME NEW c \in Callers, RaiseFlags(c)
      PROVE  FlagType'
  BY <1>4 DEF RaiseFlags, Lockable, Raise, WakeWorker, Goto
<1>5. ASSUME NEW c \in Callers, BeginOwn(c)
      PROVE  FlagType'
  BY <1>5 DEF BeginOwn, Goto
<1>6. ASSUME NEW c \in Callers, NextOwn(c)
      PROVE  FlagType'
  BY <1>6 DEF NextOwn, RanOne, FeedOver, Goto
<1>7. ASSUME NEW c \in Callers, ThrowOwn(c)
      PROVE  FlagType'
  BY <1>7 DEF ThrowOwn, Goto
<1>8. ASSUME NEW c \in Callers, WaitForThread(c)
      PROVE  FlagType'
  BY <1>8 DEF WaitForThread, Lockable, WaitedForAll, Goto
<1>9. ASSUME NEW c \in Callers, WakeSpuriously(c)
      PROVE  FlagType'
  BY <1>9 DEF WakeSpuriously, Goto
<1>10. ASSUME NEW c \in Callers, AllWaited(c)
      PROVE  FlagType'
  BY <1>10 DEF AllWaited, WaitedForAll, Goto
<1>11. ASSUME NEW c \in Callers, Return(c)
      PROVE  FlagType'
  BY <1>11 DEF Return, Goto
<1>12. ASSUME NEW c \in Callers, Destroy(c)
      PROVE  FlagType'
  BY <1>12 DEF Destroy, Goto
<1>13. ASSUME NEW c \in Callers, Stop(c)
      PROVE  FlagType'
  BY <1>13 DEF Stop, Lockable, Raise, WakeWorker, Goto
<1>14. ASSUME NEW c \in Callers, Join(c)
      PROVE  FlagType'
  BY <1>14 DEF Join, Goto
<1>15. ASSUME NEW c \in Callers, Create(c)
      PROVE  FlagType'
  BY <1>15 DEF Create, NewComplete, Goto
<1>16. ASSUME NEW w \in Workers, TakeWork(w)
      PROVE  FlagType'
  BY <1>16 DEF TakeWork, ClearException
<1>17. ASSUME NEW w \in Workers, Sleep(w)
      PROVE  FlagType'
  BY <1>17 DEF Sleep
<1>18. ASSUME NEW w \in Workers, WakeWorkerSpuriously(w)
      PROVE  FlagType'
  BY <1>18 DEF WakeWorkerSpuriously, WakeWorker
<1>19. ASSUME NEW w \in Workers, NextItem(w)
      PROVE  FlagType'
  BY <1>19 DEF NextItem, RanOne, FeedOver, Complete, WakeCaller
<1>20. ASSUME NEW w \in Workers, NextItemDangling(w)
      PROVE  FlagType'
  BY <1>20, Dangling DEF Dangles, Complete, WakeCaller
<1>21. ASSUME NEW w \in Workers, ThrowItem(w)
      PROVE  FlagType'
  BY <1>21 DEF ThrowItem, Complete, WakeCaller
<1>22. CASE UNCHANGED vars
  BY <1>22 DEF vars
<1> QED
  BY <1>1, <1>2, <1>3, <1>4, <1>5, <1>6, <1>7, <1>8, <1>9, <1>10, <1>11, <1>12,
     <1>13, <1>14, <1>15, <1>16, <1>17, <1>18, <1>19, <1>20, <1>21, <1>22,
     StepsThrow

\* The mutex is held by who is inside, whatever is thrown.
LEMMA ThrowMutexStep ==
  ASSUME ThrowInv, [Next]_vars
  PROVE  MutexHeld' /\ PoolWhole'
<1> USE SchedulerAssumption
    DEF callVars, workVars, flagVars, poolVars, ThrowInv, MutexHeld, PoolWhole,
        ThrowType, ThrowCallType, PoolType, InCall, Resizing
<1>1. ASSUME NEW c \in Callers, NEW n \in 0 .. MaxWorkloads, Lock(c, n)
      PROVE  MutexHeld' /\ PoolWhole'
  BY <1>1 DEF Lock, MutexFree, FirstFed, Smaller, Goto
<1>2. ASSUME NEW c \in Callers, NEW n \in 1 .. MaxThreads, NEW k \in Nat,
               LockToResize(c, n, k)
      PROVE  MutexHeld' /\ PoolWhole'
  BY <1>2 DEF LockToResize, MutexFree, Goto
<1>3. ASSUME NEW c \in Callers, StartThread(c)
      PROVE  MutexHeld' /\ PoolWhole'
  BY <1>3 DEF StartThread, Goto
<1>4. ASSUME NEW c \in Callers, RaiseFlags(c)
      PROVE  MutexHeld' /\ PoolWhole'
  BY <1>4 DEF RaiseFlags, Lockable, Raise, WakeWorker, Goto
<1>5. ASSUME NEW c \in Callers, BeginOwn(c)
      PROVE  MutexHeld' /\ PoolWhole'
  BY <1>5 DEF BeginOwn, Goto
<1>6. ASSUME NEW c \in Callers, NextOwn(c)
      PROVE  MutexHeld' /\ PoolWhole'
  BY <1>6 DEF NextOwn, RanOne, FeedOver, Goto
<1>7. ASSUME NEW c \in Callers, ThrowOwn(c)
      PROVE  MutexHeld' /\ PoolWhole'
  BY <1>7 DEF ThrowOwn, Goto
<1>8. ASSUME NEW c \in Callers, WaitForThread(c)
      PROVE  MutexHeld' /\ PoolWhole'
  BY <1>8 DEF WaitForThread, Lockable, WaitedForAll, Goto
<1>9. ASSUME NEW c \in Callers, WakeSpuriously(c)
      PROVE  MutexHeld' /\ PoolWhole'
  BY <1>9 DEF WakeSpuriously, Goto
<1>10. ASSUME NEW c \in Callers, AllWaited(c)
      PROVE  MutexHeld' /\ PoolWhole'
  BY <1>10 DEF AllWaited, WaitedForAll, Goto
<1>11. ASSUME NEW c \in Callers, Return(c)
      PROVE  MutexHeld' /\ PoolWhole'
  BY <1>11 DEF Return, Goto
<1>12. ASSUME NEW c \in Callers, Destroy(c)
      PROVE  MutexHeld' /\ PoolWhole'
  BY <1>12 DEF Destroy, Goto
<1>13. ASSUME NEW c \in Callers, Stop(c)
      PROVE  MutexHeld' /\ PoolWhole'
  BY <1>13 DEF Stop, Lockable, Raise, WakeWorker, Goto
<1>14. ASSUME NEW c \in Callers, Join(c)
      PROVE  MutexHeld' /\ PoolWhole'
  BY <1>14 DEF Join, Goto
<1>15. ASSUME NEW c \in Callers, Create(c)
      PROVE  MutexHeld' /\ PoolWhole'
  BY <1>15 DEF Create, NewComplete, Goto
<1>16. ASSUME NEW w \in Workers, TakeWork(w)
      PROVE  MutexHeld' /\ PoolWhole'
  BY <1>16 DEF TakeWork, ClearException
<1>17. ASSUME NEW w \in Workers, Sleep(w)
      PROVE  MutexHeld' /\ PoolWhole'
  BY <1>17 DEF Sleep
<1>18. ASSUME NEW w \in Workers, WakeWorkerSpuriously(w)
      PROVE  MutexHeld' /\ PoolWhole'
  BY <1>18 DEF WakeWorkerSpuriously, WakeWorker
<1>19. ASSUME NEW w \in Workers, NextItem(w)
      PROVE  MutexHeld' /\ PoolWhole'
  BY <1>19 DEF NextItem, RanOne, FeedOver, Complete, WakeCaller
<1>20. ASSUME NEW w \in Workers, NextItemDangling(w)
      PROVE  MutexHeld' /\ PoolWhole'
  <2>1. UNCHANGED <<mutex, num_threads, threads>>
    BY <1>20, Dangling DEF Dangles
  <2>2. \A c \in Callers :
          pc'[c] = pc[c] \/ {pc[c], pc'[c]} \subseteq {"wait", "asleep"}
    BY <1>20, Dangling DEF Dangles, Complete, WakeCaller
  <2> QED
    BY <2>1, <2>2
<1>21. ASSUME NEW w \in Workers, ThrowItem(w)
      PROVE  MutexHeld' /\ PoolWhole'
  BY <1>21 DEF ThrowItem, Complete, WakeCaller
<1>22. CASE UNCHANGED vars
  BY <1>22 DEF vars
<1> QED
  BY <1>1, <1>2, <1>3, <1>4, <1>5, <1>6, <1>7, <1>8, <1>9, <1>10, <1>11, <1>12,
     <1>13, <1>14, <1>15, <1>16, <1>17, <1>18, <1>19, <1>20, <1>21, <1>22,
     StepsThrow

\* A worker that has been handed a call stays handed it until the call ends.
LEMMA GivenStep ==
  ASSUME ThrowInv, [Next]_vars, NEW d \in Callers, NEW v \in Workers
  PROVE  GivenKept(d, v)
<1> USE SchedulerAssumption
    DEF callVars, workVars, flagVars, poolVars, ThrowInv, ThrowType,
        ThrowCallType, InCall, Resizing
<1>1. ASSUME NEW c \in Callers, NEW n \in 0 .. MaxWorkloads, Lock(c, n)
      PROVE  GivenKept(d, v)
  BY <1>1 DEF GivenKept, Given, Lock, MutexFree, FirstFed, Smaller, Goto
<1>2. ASSUME NEW c \in Callers, NEW n \in 1 .. MaxThreads, NEW k \in Nat,
               LockToResize(c, n, k)
      PROVE  GivenKept(d, v)
  BY <1>2 DEF GivenKept, Given, LockToResize, MutexFree, Goto
<1>3. ASSUME NEW c \in Callers, StartThread(c)
      PROVE  GivenKept(d, v)
  <2>1. c = d \/ pc'[d] = "idle"
    BY <1>3, OthersIdle DEF StartThread, Goto
  <2>2. UNCHANGED <<calls, t, team>>
    BY <1>3 DEF StartThread
  <2>3. c = d => pc[d] = "start" /\ pc'[d] = "raise"
    BY <1>3 DEF StartThread, Goto
  <2>4. c # d => pc'[d] = pc[d]
    BY <1>3 DEF StartThread, Goto
  <2> QED
    BY <2>2, <2>3, <2>4 DEF GivenKept, Given, Workers
<1>4. ASSUME NEW c \in Callers, RaiseFlags(c)
      PROVE  GivenKept(d, v)
  <2>1. UNCHANGED <<calls, team>> /\ (d # c => pc'[d] = pc[d] /\ t'[d] = t[d])
    BY <1>4 DEF RaiseFlags, Lockable, Goto
  <2>2. c = d => pc[d] = "raise" /\ pc'[d] = "start" /\ t'[d] = t[d] + 1
    BY <1>4 DEF RaiseFlags, Lockable, Goto
  <2> QED
    BY <2>1, <2>2 DEF GivenKept, Given, Workers
<1>5. ASSUME NEW c \in Callers, BeginOwn(c)
      PROVE  GivenKept(d, v)
  BY <1>5 DEF GivenKept, Given, BeginOwn, Goto
<1>6. ASSUME NEW c \in Callers, NextOwn(c)
      PROVE  GivenKept(d, v)
  BY <1>6 DEF GivenKept, Given, NextOwn, RanOne, FeedOver, Goto
<1>7. ASSUME NEW c \in Callers, ThrowOwn(c)
      PROVE  GivenKept(d, v)
  BY <1>7 DEF GivenKept, Given, ThrowOwn, Goto
<1>8. ASSUME NEW c \in Callers, WaitForThread(c)
      PROVE  GivenKept(d, v)
  BY <1>8 DEF GivenKept, Given, WaitForThread, Lockable, WaitedForAll, Goto
<1>9. ASSUME NEW c \in Callers, WakeSpuriously(c)
      PROVE  GivenKept(d, v)
  BY <1>9 DEF GivenKept, Given, WakeSpuriously, Goto
<1>10. ASSUME NEW c \in Callers, AllWaited(c)
      PROVE  GivenKept(d, v)
  BY <1>10 DEF GivenKept, Given, AllWaited, WaitedForAll, Goto
<1>11. ASSUME NEW c \in Callers, Return(c)
      PROVE  GivenKept(d, v)
  BY <1>11 DEF GivenKept, Given, Return, Goto
<1>12. ASSUME NEW c \in Callers, Destroy(c)
      PROVE  GivenKept(d, v)
  BY <1>12 DEF GivenKept, Given, Destroy, Goto
<1>13. ASSUME NEW c \in Callers, Stop(c)
      PROVE  GivenKept(d, v)
  BY <1>13 DEF GivenKept, Given, Stop, Lockable, Raise, WakeWorker, Goto
<1>14. ASSUME NEW c \in Callers, Join(c)
      PROVE  GivenKept(d, v)
  BY <1>14 DEF GivenKept, Given, Join, Goto
<1>15. ASSUME NEW c \in Callers, Create(c)
      PROVE  GivenKept(d, v)
  BY <1>15 DEF GivenKept, Given, Create, NewComplete, Goto
<1>16. ASSUME NEW w \in Workers, TakeWork(w)
      PROVE  GivenKept(d, v)
  BY <1>16 DEF GivenKept, Given, TakeWork, ClearException
<1>17. ASSUME NEW w \in Workers, Sleep(w)
      PROVE  GivenKept(d, v)
  BY <1>17 DEF GivenKept, Given, Sleep
<1>18. ASSUME NEW w \in Workers, WakeWorkerSpuriously(w)
      PROVE  GivenKept(d, v)
  BY <1>18 DEF GivenKept, Given, WakeWorkerSpuriously, WakeWorker
<1>19. ASSUME NEW w \in Workers, NextItem(w)
      PROVE  GivenKept(d, v)
  BY <1>19
     DEF GivenKept, Given, NextItem, RanOne, FeedOver, Complete, WakeCaller
<1>20. ASSUME NEW w \in Workers, NextItemDangling(w)
      PROVE  GivenKept(d, v)
  BY <1>20, Dangling DEF GivenKept, Given, Dangles, Complete, WakeCaller
<1>21. ASSUME NEW w \in Workers, ThrowItem(w)
      PROVE  GivenKept(d, v)
  BY <1>21 DEF GivenKept, Given, ThrowItem, Complete, WakeCaller
<1>22. CASE UNCHANGED vars
  BY <1>22 DEF GivenKept, Given, vars
<1> QED
  BY <1>1, <1>2, <1>3, <1>4, <1>5, <1>6, <1>7, <1>8, <1>9, <1>10, <1>11, <1>12,
     <1>13, <1>14, <1>15, <1>16, <1>17, <1>18, <1>19, <1>20, <1>21, <1>22,
     StepsThrow

\* A call in flight is handed to no worker outside its team, and a call that
\* has ended is handed to nobody.
LEMMA BelongsKeeps ==
  ASSUME ThrowInv, [Next]_vars, NEW k \in Call_s, NEW w \in Workers, Belongs(k,
           w)
  PROVE  \A c \in Callers, n \in Nat :
           k = <<c, n>> => n < calls'[c] \/ (n = calls'[c] /\ Given(c, w)')
<1> SUFFICES ASSUME NEW c \in Callers, NEW n \in Nat, k = <<c, n>>
             PROVE  n < calls'[c] \/ (n = calls'[c] /\ Given(c, w)')
  OBVIOUS
<1>1. n < calls[c] \/ (n = calls[c] /\ Given(c, w))
  BY DEF Belongs
<1>2. GivenKept(c, w)
  BY GivenStep
<1>3. calls[c] \in Nat /\ calls'[c] \in Nat
  BY ThrowCallStep DEF ThrowInv, ThrowType, ThrowCallType
<1> QED
  BY <1>1, <1>2, <1>3 DEF GivenKept

\* What a step hands to a worker, or gives it to run.
LEMMA HandedStep ==
  ASSUME ThrowInv, [Next]_vars
  PROVE  HandedOver'
<1> SUFFICES ASSUME NEW w \in Workers
             PROVE  /\ workloads'[w] # NoCall => w \in Indices
                    /\ \A c \in Callers, n \in Nat :
                         workloads'[w] = <<c, n>> => n < calls'[c]
                           \/ (n = calls'[c] /\ Given(c, w)')
                    /\ \A c \in Callers, n \in Nat :
                         serving'[w] = <<c, n>> => n < calls'[c]
                           \/ (n = calls'[c] /\ Given(c, w)')
  BY DEF HandedOver, Belongs
<1>1. /\ workloads[w] \in Call_s /\ serving[w] \in Call_s
      /\ Belongs(workloads[w], w) /\ Belongs(serving[w], w)
      /\ workloads[w] # NoCall => w \in Indices
  BY DEF ThrowInv, HandedOver, ThrowType, ThrowWorkType
<1>2. /\ \A c \in Callers, n \in Nat :
           workloads[w] = <<c, n>> => n < calls'[c] \/ (n = calls'[c]
             /\ Given(c, w)')
      /\ \A c \in Callers, n \in Nat :
           serving[w] = <<c, n>> => n < calls'[c] \/ (n = calls'[c] /\ Given(c,
             w)')
  BY <1>1, BelongsKeeps
<1>3. \A c \in Callers, n \in Nat : NoCall # <<c, n>>
  BY DEF NoCall
<1>4. ASSUME NEW d \in Callers, StartThread(d), t[d] = w
      PROVE  /\ w \in Indices /\ workloads'[w] = Current(d)
                  /\ serving'[w] = serving[w]
             /\ calls'[d] = calls[d] /\ Given(d, w)'
  <2>1. /\ t[d] < team[d] - 1 /\ team[d] <= size[d]
             /\ size[d] \in 0 .. MaxWorkloads
        /\ team[d] \in Nat
    BY <1>4
       DEF StartThread, ThrowInv, CallsOK, TeamOK, InCall, ThrowType,
           ThrowCallType
  <2>2. w \in Indices
    BY <1>4, <2>1, SchedulerAssumption DEF Indices, Workers
  <2>3. workloads'[w] = Current(d)
    BY <1>4 DEF StartThread, ThrowInv, ThrowType, ThrowWorkType
  <2>4. pc'[d] = "raise" /\ UNCHANGED <<calls, t, team, serving>>
    BY <1>4 DEF StartThread, Goto, ThrowInv, ThrowType, ThrowCallType, callVars
  <2> QED
    BY <1>4, <2>1, <2>2, <2>3, <2>4 DEF Given, InCall, Workers
<1>5. \/ workloads'[w] \in {workloads[w], NoCall}
           /\ serving'[w] \in {serving[w], workloads[w]}
      \/ \E d \in Callers : StartThread(d) /\ t[d] = w
  <2>1. ASSUME NEW d \in Callers, StartThread(d)
        PROVE  (workloads'[w] = workloads[w] \/ t[d] = w)
                 /\ serving'[w] = serving[w]
    BY <2>1 DEF StartThread, ThrowInv, ThrowType, ThrowWorkType
  <2>2. ASSUME NEW d \in Callers, Destroy(d) \/ Create(d)
        PROVE  workloads'[w] \in {workloads[w], NoCall}
                 /\ serving'[w] = serving[w]
    BY <2>2 DEF Destroy, Create, ThrowInv, ThrowType, ThrowWorkType
  <2>3. ASSUME NEW v \in Workers, TakeWork(v)
        PROVE  workloads'[w] = workloads[w] /\ serving'[w] \in {serving[w],
                 workloads[w]}
    BY <2>3 DEF TakeWork, ThrowInv, ThrowType, ThrowWorkType
  <2>4. \/ UNCHANGED <<workloads, serving>>
        \/ \E d \in Callers : StartThread(d) \/ Destroy(d) \/ Create(d)
        \/ \E v \in Workers : TakeWork(v)
    BY DEF Next, Call, CallerStep, WorkerStep, Lock, LockToResize, RaiseFlags, Lockable,
       BeginOwn, NextOwn, ThrowOwn, WaitForThread, WakeSpuriously, AllWaited,
       Return, Stop, Join, Sleep, WakeWorkerSpuriously, NextItem,
       NextItemDangling, ThrowItem, vars, workVars
  <2> QED
    BY <2>1, <2>2, <2>3, <2>4
<1>6. CASE \E d \in Callers : StartThread(d) /\ t[d] = w
  <2>1. PICK d \in Callers : StartThread(d) /\ t[d] = w
    BY <1>6
  <2>2. /\ w \in Indices /\ workloads'[w] = <<d, calls'[d]>>
             /\ serving'[w] = serving[w]
        /\ Given(d, w)'
    BY <2>1, <1>4 DEF Current
  <2>3. \A c \in Callers, n \in Nat : <<d, calls'[d]>> = <<c, n>> => c = d
          /\ n = calls'[c]
    OBVIOUS
  <2> QED
    BY <1>2, <2>2, <2>3
<1>7. CASE workloads'[w] \in {workloads[w], NoCall}
             /\ serving'[w] \in {serving[w], workloads[w]}
  BY <1>1, <1>2, <1>3, <1>7
<1> QED
  BY <1>5, <1>6, <1>7

\* A worker with work is not complete, and runs an index of the vector.
LEMMA FlagsAgreeStep ==
  ASSUME ThrowInv, [Next]_vars
  PROVE  FlagsAgree'
<1> USE SchedulerAssumption
    DEF callVars, workVars, flagVars, poolVars, ThrowInv, FlagsAgree,
        ThrowType, ThrowWorkType, FlagType, Engaged
<1>1. ASSUME NEW c \in Callers, NEW n \in 0 .. MaxWorkloads, Lock(c, n)
      PROVE  FlagsAgree'
  BY <1>1 DEF Lock, MutexFree, FirstFed, Smaller, Goto
<1>2. ASSUME NEW c \in Callers, NEW n \in 1 .. MaxThreads, NEW k \in Nat,
               LockToResize(c, n, k)
      PROVE  FlagsAgree'
  BY <1>2 DEF LockToResize, MutexFree, Goto
<1>3. ASSUME NEW c \in Callers, StartThread(c)
      PROVE  FlagsAgree'
  BY <1>3 DEF StartThread, Goto
<1>4. ASSUME NEW c \in Callers, RaiseFlags(c)
      PROVE  FlagsAgree'
  BY <1>4 DEF RaiseFlags, Lockable, Raise, WakeWorker, Goto
<1>5. ASSUME NEW c \in Callers, BeginOwn(c)
      PROVE  FlagsAgree'
  BY <1>5 DEF BeginOwn, Goto
<1>6. ASSUME NEW c \in Callers, NextOwn(c)
      PROVE  FlagsAgree'
  BY <1>6 DEF NextOwn, RanOne, FeedOver, Goto
<1>7. ASSUME NEW c \in Callers, ThrowOwn(c)
      PROVE  FlagsAgree'
  BY <1>7 DEF ThrowOwn, Goto
<1>8. ASSUME NEW c \in Callers, WaitForThread(c)
      PROVE  FlagsAgree'
  BY <1>8 DEF WaitForThread, Lockable, WaitedForAll, Goto
<1>9. ASSUME NEW c \in Callers, WakeSpuriously(c)
      PROVE  FlagsAgree'
  BY <1>9 DEF WakeSpuriously, Goto
<1>10. ASSUME NEW c \in Callers, AllWaited(c)
      PROVE  FlagsAgree'
  BY <1>10 DEF AllWaited, WaitedForAll, Goto
<1>11. ASSUME NEW c \in Callers, Return(c)
      PROVE  FlagsAgree'
  BY <1>11 DEF Return, Goto
<1>12. ASSUME NEW c \in Callers, Destroy(c)
      PROVE  FlagsAgree'
  BY <1>12 DEF Destroy, Goto
<1>13. ASSUME NEW c \in Callers, Stop(c)
      PROVE  FlagsAgree'
  BY <1>13 DEF Stop, Lockable, Raise, WakeWorker, Goto
<1>14. ASSUME NEW c \in Callers, Join(c)
      PROVE  FlagsAgree'
  BY <1>14 DEF Join, Goto
<1>15. ASSUME NEW c \in Callers, Create(c)
      PROVE  FlagsAgree'
  BY <1>15 DEF Create, NewComplete
<1>16. ASSUME NEW w \in Workers, TakeWork(w)
      PROVE  FlagsAgree'
  BY <1>16 DEF TakeWork, ClearException, HandedOver
<1>17. ASSUME NEW w \in Workers, Sleep(w)
      PROVE  FlagsAgree'
  BY <1>17 DEF Sleep
<1>18. ASSUME NEW w \in Workers, WakeWorkerSpuriously(w)
      PROVE  FlagsAgree'
  BY <1>18 DEF WakeWorkerSpuriously, WakeWorker
<1>19. ASSUME NEW w \in Workers, NextItem(w)
      PROVE  FlagsAgree'
  <2> DEFINE c == serving[w][1]
  <2>1. c \in Callers
    BY <1>19, Runs DEF NextItem
  <2>2. FeedOver(c) \/ feeder[c] \in Indices
    BY <2>1 DEF FeedOver, Indices, ThrowFeedType, ThrowCallType
  <2> HIDE DEF c
  <2>3. item' = item \/ (~FeedOver(c)
          /\ item' = [item EXCEPT ![w] = feeder[c]])
    BY <1>19 DEF NextItem, c
  <2>4. \A v \in Workers : state'[v] = "running" => state[v] = "running"
          /\ item'[v] \in Indices
    BY <1>19, <2>2, <2>3 DEF NextItem, Complete
  <2>5. UNCHANGED <<wait_for_work, serving>> /\ \A v \in Workers :
          Engaged(v)' => ~job_complete'[v]
    BY <1>19 DEF NextItem, Complete
  <2> QED
    BY <2>4, <2>5
<1>20. ASSUME NEW w \in Workers, NextItemDangling(w)
      PROVE  FlagsAgree'
  <2>1. UNCHANGED <<wait_for_work, serving>>
    BY <1>20, Dangling DEF Dangles
  <2>2. ASSUME NEW v \in Workers PROVE Engaged(v)' => ~job_complete'[v]
    BY <1>20, Dangling, <2>1 DEF Dangles, Complete
  <2>3. ASSUME NEW v \in Workers, state'[v] = "running"
        PROVE  state[v] = "running" /\ item'[v] \in Indices
    BY <1>20, Dangling, <2>3 DEF Dangles, Complete
  <2> QED
    BY <2>1, <2>2, <2>3
<1>21. ASSUME NEW w \in Workers, ThrowItem(w)
      PROVE  FlagsAgree'
  BY <1>21 DEF ThrowItem, Complete, WakeCaller
<1>22. CASE UNCHANGED vars
  BY <1>22 DEF vars
<1> QED
  BY <1>1, <1>2, <1>3, <1>4, <1>5, <1>6, <1>7, <1>8, <1>9, <1>10, <1>11, <1>12,
     <1>13, <1>14, <1>15, <1>16, <1>17, <1>18, <1>19, <1>20, <1>21, <1>22,
     StepsThrow

\* The team stays within the pool and the vector.
LEMMA TeamStep ==
  ASSUME ThrowInv, [Next]_vars, NEW d \in Callers
  PROVE  TeamOK(d)'
<1> USE SchedulerAssumption
    DEF callVars, workVars, flagVars, poolVars, ThrowInv, ThrowType,
        ThrowCallType, InCall
<1>b. TeamOK(d)
  BY DEF CallsOK
<1>1. ASSUME NEW c \in Callers, NEW n \in 0 .. MaxWorkloads, Lock(c, n)
      PROVE  TeamOK(d)'
  <2>1. c = d \/ pc'[d] = "idle"
    BY <1>1, OthersIdle DEF TeamOK, PoolType, Lock, Goto, MutexFree
  <2>2. CASE c = d
    <3>1. pc'[d] \in {"start", "return"} /\ t'[d] = 0
            /\ team'[d] = Smaller(num_threads, n) /\ size'[d] = n
          /\ threads' = threads /\ (n = 0 <=> pc'[d] = "return")
      BY <1>1, <2>2 DEF Lock, Goto
    <3>2. threads = num_threads - 1
      BY <1>1 DEF Lock, MutexFree, MutexHeld, PoolWhole, Resizing
    <3> QED
      BY <3>1, <3>2 DEF TeamOK, Smaller, PoolType
  <2> QED
    BY <2>1, <2>2 DEF TeamOK
<1>2. ASSUME NEW c \in Callers, NEW n \in 1 .. MaxThreads, NEW k \in Nat,
               LockToResize(c, n, k)
      PROVE  TeamOK(d)'
  <2>1. c = d \/ pc'[d] = "idle"
    BY <1>2, OthersIdle DEF TeamOK, PoolType, LockToResize, Goto, MutexFree
  <2> QED
    BY <1>2, <2>1 DEF LockToResize, Goto, TeamOK
<1>3. ASSUME NEW c \in Callers, StartThread(c)
      PROVE  TeamOK(d)'
  <2>1. c = d \/ pc'[d] = "idle"
    BY <1>3, OthersIdle DEF TeamOK, PoolType, StartThread, Goto
  <2>2. CASE c = d
    <3>1. t[d] < team[d] - 1 /\ team[d] <= threads + 1 /\ 1 <= team[d]
            /\ team[d] <= size[d] /\ t[d] \in Nat
      BY <1>3, <2>2 DEF StartThread, CallsOK, TeamOK
    <3>2. t[d] \in Workers
      BY <3>1 DEF Workers, PoolType
    <3>3. workloads'[t[d]] = Current(d)
      BY <1>3, <2>2, <3>2 DEF StartThread, ThrowWorkType
    <3>4. pc'[d] = "raise" /\ UNCHANGED <<calls, t, team, size, threads,
            feeder, index>>
      BY <1>3, <2>2 DEF StartThread, Goto
    <3> QED
      BY <3>1, <3>3, <3>4 DEF TeamOK, Current
  <2> QED
    BY <2>1, <2>2 DEF TeamOK
<1>4. ASSUME NEW c \in Callers, RaiseFlags(c)
      PROVE  TeamOK(d)'
  BY <1>4, <1>b, OthersIdle
     DEF TeamOK, PoolType, RaiseFlags, Lockable, Raise, WakeWorker, Goto
<1>5. ASSUME NEW c \in Callers, BeginOwn(c)
      PROVE  TeamOK(d)'
  BY <1>5, <1>b, OthersIdle
     DEF TeamOK, PoolType, TeamOK, PoolType, ThrowFeedType, BeginOwn, Goto
<1>6. ASSUME NEW c \in Callers, NextOwn(c)
      PROVE  TeamOK(d)'
  <2>1. c = d \/ pc'[d] = "idle"
    BY <1>6, OthersIdle DEF TeamOK, PoolType, NextOwn, Goto
  <2>2. CASE c = d
    <3>1. 1 <= team[d] /\ team[d] <= threads + 1 /\ team[d] <= size[d]
            /\ feeder[d] \in Nat
      BY <1>6, <2>2 DEF NextOwn, CallsOK, TeamOK, ThrowFeedType
    <3>2. /\ feeder'[d] = feeder[d] + 1 /\ UNCHANGED <<team, size, threads>>
          /\ \/ pc'[d] = "wait" /\ t'[d] = 0 /\ feeder[d] >= size[d]
             \/ pc'[d] = "own" /\ index'[d] = feeder[d] /\ feeder[d] < size[d]
      BY <1>6, <2>2, <3>1 DEF NextOwn, Goto, RanOne, FeedOver, ThrowFeedType
    <3> QED
      BY <3>1, <3>2 DEF TeamOK, PoolType
  <2> QED
    BY <2>1, <2>2 DEF TeamOK
<1>7. ASSUME NEW c \in Callers, ThrowOwn(c)
      PROVE  TeamOK(d)'
  <2>1. c = d \/ pc'[d] = "idle"
    BY <1>7, OthersIdle DEF TeamOK, PoolType, ThrowOwn, Goto, MutexFree
  <2> QED
    BY <1>7, <2>1 DEF ThrowOwn, Goto, TeamOK
<1>8. ASSUME NEW c \in Callers, WaitForThread(c)
      PROVE  TeamOK(d)'
  <2>1. c = d \/ pc'[d] = "idle"
    BY <1>8, OthersIdle DEF TeamOK, PoolType, WaitForThread, Lockable, Goto
  <2>2. CASE c = d
    <3>1. TeamOK(d) /\ pc[d] = "wait" /\ t[d] # threads
      BY <1>8, <2>2 DEF WaitForThread, Lockable, WaitedForAll, CallsOK
    <3>2. /\ UNCHANGED <<team, size, threads, feeder>> /\ pc'[d] \in {"wait",
               "asleep", "return"}
          /\ t'[d] = t[d] \/ t'[d] = t[d] + 1
      BY <1>8, <2>2 DEF WaitForThread, Lockable, Goto
    <3> QED
      BY <3>1, <3>2 DEF TeamOK, PoolType
  <2> QED
    BY <2>1, <2>2 DEF TeamOK
<1>9. ASSUME NEW c \in Callers, WakeSpuriously(c)
      PROVE  TeamOK(d)'
  BY <1>9, <1>b, OthersIdle DEF TeamOK, PoolType, WakeSpuriously, Goto
<1>10. ASSUME NEW c \in Callers, AllWaited(c)
      PROVE  TeamOK(d)'
  BY <1>10, <1>b, OthersIdle
     DEF TeamOK, PoolType, AllWaited, WaitedForAll, Goto
<1>11. ASSUME NEW c \in Callers, Return(c)
      PROVE  TeamOK(d)'
  <2>1. c = d \/ pc'[d] = "idle"
    BY <1>11, OthersIdle DEF TeamOK, PoolType, Return, Goto, MutexFree
  <2> QED
    BY <1>11, <2>1 DEF Return, Goto, TeamOK
<1>12. ASSUME NEW c \in Callers, Destroy(c)
      PROVE  TeamOK(d)'
  <2>1. c = d \/ pc'[d] = "idle"
    BY <1>12, OthersIdle DEF TeamOK, PoolType, Destroy, Goto, MutexFree
  <2> QED
    BY <1>12, <2>1 DEF Destroy, Goto, TeamOK
<1>13. ASSUME NEW c \in Callers, Stop(c)
      PROVE  TeamOK(d)'
  <2>1. c = d \/ pc'[d] = "idle"
    BY <1>13, OthersIdle DEF TeamOK, PoolType, Stop, Lockable, Goto, MutexFree
  <2> QED
    BY <1>13, <2>1 DEF Stop, Lockable, Goto, TeamOK
<1>14. ASSUME NEW c \in Callers, Join(c)
      PROVE  TeamOK(d)'
  <2>1. c = d \/ pc'[d] = "idle"
    BY <1>14, OthersIdle DEF TeamOK, PoolType, Join, Goto, MutexFree
  <2> QED
    BY <1>14, <2>1 DEF Join, Goto, TeamOK
<1>15. ASSUME NEW c \in Callers, Create(c)
      PROVE  TeamOK(d)'
  <2>1. c = d \/ pc'[d] = "idle"
    BY <1>15, OthersIdle DEF TeamOK, PoolType, Create, Goto, MutexFree
  <2> QED
    BY <1>15, <2>1 DEF Create, Goto, TeamOK
<1>16. ASSUME NEW w \in Workers, TakeWork(w)
      PROVE  TeamOK(d)'
  <2>1. CASE pc[d] \in InCall
    <3>1. /\ UNCHANGED <<team, size, threads, t, index, calls, workloads>>
          /\ pc'[d] = pc[d] \/ {pc[d], pc'[d]} \subseteq {"wait", "asleep"}
      BY <1>16 DEF TakeWork
    <3>2. feeder'[d] \in Nat /\ feeder[d] <= feeder'[d] /\ feeder[d] \in Nat
      BY <1>16 DEF TakeWork, ThrowFeedType
    <3> QED
      BY <2>1, <3>1, <3>2, TeamKeeps DEF CallsOK
  <2>2. CASE pc[d] \notin InCall
    <3>1. pc'[d] = pc[d]
      BY <1>16, <2>2 DEF TakeWork
    <3> QED
      BY <2>2, <3>1 DEF TeamOK
  <2> QED
    BY <2>1, <2>2
<1>17. ASSUME NEW w \in Workers, Sleep(w)
      PROVE  TeamOK(d)'
  <2>1. CASE pc[d] \in InCall
    <3>1. /\ UNCHANGED <<team, size, threads, t, index, calls, workloads>>
          /\ pc'[d] = pc[d] \/ {pc[d], pc'[d]} \subseteq {"wait", "asleep"}
      BY <1>17 DEF Sleep
    <3>2. feeder'[d] \in Nat /\ feeder[d] <= feeder'[d] /\ feeder[d] \in Nat
      BY <1>17 DEF Sleep, ThrowFeedType
    <3> QED
      BY <2>1, <3>1, <3>2, TeamKeeps DEF CallsOK
  <2>2. CASE pc[d] \notin InCall
    <3>1. pc'[d] = pc[d]
      BY <1>17, <2>2 DEF Sleep
    <3> QED
      BY <2>2, <3>1 DEF TeamOK
  <2> QED
    BY <2>1, <2>2
<1>18. ASSUME NEW w \in Workers, WakeWorkerSpuriously(w)
      PROVE  TeamOK(d)'
  <2>1. CASE pc[d] \in InCall
    <3>1. /\ UNCHANGED <<team, size, threads, t, index, calls, workloads>>
          /\ pc'[d] = pc[d] \/ {pc[d], pc'[d]} \subseteq {"wait", "asleep"}
      BY <1>18 DEF WakeWorkerSpuriously
    <3>2. feeder'[d] \in Nat /\ feeder[d] <= feeder'[d] /\ feeder[d] \in Nat
      BY <1>18 DEF WakeWorkerSpuriously, ThrowFeedType
    <3> QED
      BY <2>1, <3>1, <3>2, TeamKeeps DEF CallsOK
  <2>2. CASE pc[d] \notin InCall
    <3>1. pc'[d] = pc[d]
      BY <1>18, <2>2 DEF WakeWorkerSpuriously
    <3> QED
      BY <2>2, <3>1 DEF TeamOK
  <2> QED
    BY <2>1, <2>2
<1>19. ASSUME NEW w \in Workers, NextItem(w)
      PROVE  TeamOK(d)'
  <2>1. CASE pc[d] \in InCall
    <3>1. /\ UNCHANGED <<team, size, threads, t, index, calls, workloads>>
          /\ pc'[d] = pc[d] \/ {pc[d], pc'[d]} \subseteq {"wait", "asleep"}
      BY <1>19 DEF NextItem, RanOne, Complete, WakeCaller
    <3>2. feeder'[d] \in Nat /\ feeder[d] <= feeder'[d] /\ feeder[d] \in Nat
      BY <1>19, Runs DEF NextItem, RanOne, Complete, WakeCaller, ThrowFeedType
    <3> QED
      BY <2>1, <3>1, <3>2, TeamKeeps DEF CallsOK
  <2>2. CASE pc[d] \notin InCall
    <3>1. pc'[d] = pc[d]
      BY <1>19, <2>2 DEF NextItem, RanOne, Complete, WakeCaller
    <3> QED
      BY <2>2, <3>1 DEF TeamOK
  <2> QED
    BY <2>1, <2>2
<1>20. ASSUME NEW w \in Workers, NextItemDangling(w)
      PROVE  TeamOK(d)'
  <2>1. CASE pc[d] \in InCall
    <3>1. /\ UNCHANGED <<team, size, threads, t, index, calls, workloads>>
          /\ pc'[d] = pc[d] \/ {pc[d], pc'[d]} \subseteq {"wait", "asleep"}
      BY <1>20, Dangling DEF Dangles, Complete, WakeCaller
    <3>2. feeder'[d] \in Nat /\ feeder[d] <= feeder'[d] /\ feeder[d] \in Nat
      BY <1>20, Dangling DEF Dangles, Complete, WakeCaller, ThrowFeedType
    <3> QED
      BY <2>1, <3>1, <3>2, TeamKeeps DEF CallsOK
  <2>2. CASE pc[d] \notin InCall
    <3>1. pc'[d] = pc[d]
      BY <1>20, Dangling, <2>2 DEF Dangles, Complete, WakeCaller
    <3> QED
      BY <2>2, <3>1 DEF TeamOK
  <2> QED
    BY <2>1, <2>2
<1>21. ASSUME NEW w \in Workers, ThrowItem(w)
      PROVE  TeamOK(d)'
  <2>1. CASE pc[d] \in InCall
    <3>1. /\ UNCHANGED <<team, size, threads, t, index, calls, workloads>>
          /\ pc'[d] = pc[d] \/ {pc[d], pc'[d]} \subseteq {"wait", "asleep"}
      BY <1>21 DEF ThrowItem, Complete, WakeCaller
    <3>2. feeder'[d] \in Nat /\ feeder[d] <= feeder'[d] /\ feeder[d] \in Nat
      BY <1>21 DEF ThrowItem, Complete, WakeCaller, ThrowFeedType
    <3> QED
      BY <2>1, <3>1, <3>2, TeamKeeps DEF CallsOK
  <2>2. CASE pc[d] \notin InCall
    <3>1. pc'[d] = pc[d]
      BY <1>21, <2>2 DEF ThrowItem, Complete, WakeCaller
    <3> QED
      BY <2>2, <3>1 DEF TeamOK
  <2> QED
    BY <2>1, <2>2
<1>22. CASE UNCHANGED vars
  <2>1. CASE pc[d] \in InCall
    <3>1. /\ UNCHANGED <<team, size, threads, t, index, calls, workloads>>
          /\ pc'[d] = pc[d] \/ {pc[d], pc'[d]} \subseteq {"wait", "asleep"}
      BY <1>22 DEF vars
    <3>2. feeder'[d] \in Nat /\ feeder[d] <= feeder'[d] /\ feeder[d] \in Nat
      BY <1>22 DEF vars, ThrowFeedType
    <3> QED
      BY <2>1, <3>1, <3>2, TeamKeeps DEF CallsOK
  <2>2. CASE pc[d] \notin InCall
    <3>1. pc'[d] = pc[d]
      BY <1>22, <2>2 DEF vars
    <3> QED
      BY <2>2, <3>1 DEF TeamOK
  <2> QED
    BY <2>1, <2>2
<1> QED
  BY <1>1, <1>2, <1>3, <1>4, <1>5, <1>6, <1>7, <1>8, <1>9, <1>10, <1>11, <1>12,
     <1>13, <1>14, <1>15, <1>16, <1>17, <1>18, <1>19, <1>20, <1>21, <1>22,
     StepsThrow

\* A worker that was started serves the call, and an exception it shows is of it.
LEMMA StartedStep ==
  ASSUME ThrowInv, [Next]_vars, NEW d \in Callers, NEW v \in Workers
  PROVE  Started(d, v)'
<1> USE SchedulerAssumption
    DEF callVars, workVars, flagVars, poolVars, ThrowInv, ThrowType,
        ThrowCallType, InCall
<1>b. Started(d, v)
  BY DEF CallsOK, StartedOK
<1>1. ASSUME NEW c \in Callers, NEW n \in 0 .. MaxWorkloads, Lock(c, n)
      PROVE  Started(d, v)'
  <2>1. ~Raised(d, v)'
    <3>1. c = d \/ pc'[d] = "idle"
      BY <1>1, OthersIdle
         DEF Started, Raised, ThrowWorkType, FlagType, Current, Lock, Goto,
             MutexFree
    <3>2. c = d => t'[d] = 0 /\ pc'[d] \in {"start", "return"}
      BY <1>1 DEF Lock, Goto
    <3> QED
      BY <3>1, <3>2 DEF Raised, Workers
  <2> QED
    BY <2>1 DEF Started
<1>2. ASSUME NEW c \in Callers, NEW n \in 1 .. MaxThreads, NEW k \in Nat,
               LockToResize(c, n, k)
      PROVE  Started(d, v)'
  BY <1>2, <1>b, OthersIdle
     DEF Started, Raised, ThrowWorkType, FlagType, Current, LockToResize,
         MutexFree, Goto
<1>3. ASSUME NEW c \in Callers, StartThread(c)
      PROVE  Started(d, v)'
  BY <1>3, <1>b, OthersIdle
     DEF Started, Raised, ThrowWorkType, FlagType, Current, StartThread, Goto
<1>4. ASSUME NEW c \in Callers, RaiseFlags(c)
      PROVE  Started(d, v)'
  <2>1. c = d \/ pc'[d] = "idle"
    BY <1>4, OthersIdle
       DEF Started, Raised, ThrowWorkType, FlagType, Current, RaiseFlags, Lockable, Goto
  <2>2. CASE pc'[d] = "idle"
    BY <2>2 DEF Started, Raised
  <2>3. CASE c = d /\ v # t[d]
    <3>1. Raised(d, v)' => Raised(d, v)
      BY <1>4, <2>3 DEF RaiseFlags, Lockable, Goto, Raised, Workers
    <3>2. UNCHANGED <<calls, workloads, serving, exception, threw>>
            /\ wait_for_work'[v] = wait_for_work[v] /\ state'[v] = state[v]
      BY <1>4, <2>3 DEF RaiseFlags, Lockable, Raise, WakeWorker, FlagType, ThrowWorkType
    <3> QED
      BY <1>b, <3>1, <3>2 DEF Started, Current
  <2>4. CASE c = d /\ v = t[d]
    <3>1. workloads[v] = Current(d)
      BY <1>4, <2>4 DEF CallsOK, TeamOK, RaiseFlags, Lockable
    <3>2. UNCHANGED <<calls, workloads>> /\ wait_for_work'[v]
            /\ state'[v] # "running"
      BY <1>4, <2>4 DEF RaiseFlags, Lockable, Raise, WakeWorker, FlagType, ThrowWorkType
    <3> QED
      BY <3>1, <3>2 DEF Started, Current
  <2> QED
    BY <2>1, <2>2, <2>3, <2>4
<1>5. ASSUME NEW c \in Callers, BeginOwn(c)
      PROVE  Started(d, v)'
  BY <1>5, <1>b, OthersIdle
     DEF Started, Raised, ThrowWorkType, FlagType, Current, BeginOwn, Goto
<1>6. ASSUME NEW c \in Callers, NextOwn(c)
      PROVE  Started(d, v)'
  BY <1>6, <1>b, OthersIdle
     DEF Started, Raised, ThrowWorkType, FlagType, Current, NextOwn, RanOne,
         FeedOver, Goto
<1>7. ASSUME NEW c \in Callers, ThrowOwn(c)
      PROVE  Started(d, v)'
  BY <1>7, <1>b, OthersIdle
     DEF Started, Raised, ThrowWorkType, FlagType, Current, ThrowOwn, Goto
<1>8. ASSUME NEW c \in Callers, WaitForThread(c)
      PROVE  Started(d, v)'
  BY <1>8, <1>b, OthersIdle
     DEF Started, Raised, ThrowWorkType, FlagType, Current, WaitForThread, Lockable,
         WaitedForAll, Goto
<1>9. ASSUME NEW c \in Callers, WakeSpuriously(c)
      PROVE  Started(d, v)'
  BY <1>9, <1>b, OthersIdle
     DEF Started, Raised, ThrowWorkType, FlagType, Current, WakeSpuriously,
         Goto
<1>10. ASSUME NEW c \in Callers, AllWaited(c)
      PROVE  Started(d, v)'
  BY <1>10, <1>b, OthersIdle
     DEF Started, Raised, ThrowWorkType, FlagType, Current, AllWaited,
         WaitedForAll, Goto
<1>11. ASSUME NEW c \in Callers, Return(c)
      PROVE  Started(d, v)'
  BY <1>11, <1>b, OthersIdle
     DEF Started, Raised, ThrowWorkType, FlagType, Current, Return, Goto
<1>12. ASSUME NEW c \in Callers, Destroy(c)
      PROVE  Started(d, v)'
  BY <1>12, <1>b, OthersIdle
     DEF Started, Raised, ThrowWorkType, FlagType, Current, Destroy, Goto
<1>13. ASSUME NEW c \in Callers, Stop(c)
      PROVE  Started(d, v)'
  BY <1>13, <1>b, OthersIdle
     DEF Started, Raised, ThrowWorkType, FlagType, Current, Stop, Lockable, Raise,
         WakeWorker, Goto
<1>14. ASSUME NEW c \in Callers, Join(c)
      PROVE  Started(d, v)'
  BY <1>14, <1>b, OthersIdle
     DEF Started, Raised, ThrowWorkType, FlagType, Current, Join, Goto
<1>15. ASSUME NEW c \in Callers, Create(c)
      PROVE  Started(d, v)'
  BY <1>15, <1>b, OthersIdle
     DEF Started, Raised, ThrowWorkType, FlagType, Current, Create,
         NewComplete, Goto
<1>16. ASSUME NEW w \in Workers, TakeWork(w)
      PROVE  Started(d, v)'
  BY <1>16, <1>b, OthersIdle
     DEF Started, Raised, ThrowWorkType, FlagType, Current, TakeWork,
         ClearException
<1>17. ASSUME NEW w \in Workers, Sleep(w)
      PROVE  Started(d, v)'
  BY <1>17, <1>b, OthersIdle
     DEF Started, Raised, ThrowWorkType, FlagType, Current, Sleep
<1>18. ASSUME NEW w \in Workers, WakeWorkerSpuriously(w)
      PROVE  Started(d, v)'
  BY <1>18, <1>b, OthersIdle
     DEF Started, Raised, ThrowWorkType, FlagType, Current,
         WakeWorkerSpuriously, WakeWorker
<1>19. ASSUME NEW w \in Workers, NextItem(w)
      PROVE  Started(d, v)'
  BY <1>19, <1>b, OthersIdle
     DEF Started, Raised, ThrowWorkType, FlagType, Current, NextItem, RanOne,
         FeedOver, Complete, WakeCaller
<1>20. ASSUME NEW w \in Workers, NextItemDangling(w)
      PROVE  Started(d, v)'
  BY <1>20, Dangling, <1>b, OthersIdle
     DEF Started, Raised, ThrowWorkType, FlagType, Current, Dangles,
         Complete, WakeCaller
<1>21. ASSUME NEW w \in Workers, ThrowItem(w)
      PROVE  Started(d, v)'
  <2>1. Raised(d, v)' => Raised(d, v)
    BY <1>21 DEF ThrowItem, Complete, WakeCaller, Raised
  <2>2. /\ UNCHANGED <<calls, workloads, serving, wait_for_work>>
        /\ threw[d] => threw'[d]
        /\ v # w => state'[v] = state[v] /\ exception'[v] = exception[v]
        /\ state'[w] = "check"
    BY <1>21 DEF ThrowItem, Complete, FlagType, ThrowWorkType
  <2>3. CASE v # w
    BY <1>b, <2>1, <2>2, <2>3 DEF Started, Current
  <2>4. CASE v = w
    <3>1. Raised(d, w) => threw'[d]
      <4>1. ASSUME Raised(d, w) PROVE Alive(serving[w]) /\ serving[w][1] = d
        BY <1>21, <1>b, <2>4, <4>1
           DEF Started, Raised, Alive, Current, ThrowItem
      <4> QED
        BY <1>21, <4>1 DEF ThrowItem
    <3> QED
      BY <1>b, <2>1, <2>2, <2>4, <3>1 DEF Started, Current
  <2> QED
    BY <2>3, <2>4
<1>22. CASE UNCHANGED vars
  BY <1>22, <1>b, OthersIdle
     DEF Started, Raised, ThrowWorkType, FlagType, Current, vars
<1> QED
  BY <1>1, <1>2, <1>3, <1>4, <1>5, <1>6, <1>7, <1>8, <1>9, <1>10, <1>11, <1>12,
     <1>13, <1>14, <1>15, <1>16, <1>17, <1>18, <1>19, <1>20, <1>21, <1>22,
     StepsThrow

\* A worker that has been waited for has nothing to run.
LEMMA WaitedStep ==
  ASSUME ThrowInv, [Next]_vars, NEW d \in Callers, NEW v \in Workers
  PROVE  Waited(d, v)'
<1> USE SchedulerAssumption
    DEF callVars, workVars, flagVars, poolVars, ThrowInv, ThrowType,
        ThrowCallType, InCall
<1>b. Waited(d, v)
  BY DEF CallsOK, WaitedOK
<1>1. ASSUME NEW c \in Callers, NEW n \in 0 .. MaxWorkloads, Lock(c, n)
      PROVE  Waited(d, v)'
  BY <1>1, <1>b, OthersIdle
     DEF Waited, WorksFor, ThrowWorkType, FlagType, Current, Lock, MutexFree,
         FirstFed, Smaller, Goto
<1>2. ASSUME NEW c \in Callers, NEW n \in 1 .. MaxThreads, NEW k \in Nat,
               LockToResize(c, n, k)
      PROVE  Waited(d, v)'
  BY <1>2, <1>b, OthersIdle
     DEF Waited, WorksFor, ThrowWorkType, FlagType, Current, LockToResize,
         MutexFree, Goto
<1>3. ASSUME NEW c \in Callers, StartThread(c)
      PROVE  Waited(d, v)'
  BY <1>3, <1>b, OthersIdle
     DEF Waited, WorksFor, ThrowWorkType, FlagType, Current, StartThread, Goto
<1>4. ASSUME NEW c \in Callers, RaiseFlags(c)
      PROVE  Waited(d, v)'
  BY <1>4, <1>b, OthersIdle
     DEF Waited, WorksFor, ThrowWorkType, FlagType, Current, RaiseFlags, Lockable,
         Raise, WakeWorker, Goto
<1>5. ASSUME NEW c \in Callers, BeginOwn(c)
      PROVE  Waited(d, v)'
  BY <1>5, <1>b, OthersIdle
     DEF Waited, WorksFor, ThrowWorkType, FlagType, Current, BeginOwn, Goto
<1>6. ASSUME NEW c \in Callers, NextOwn(c)
      PROVE  Waited(d, v)'
  <2>1. c = d \/ pc'[d] = "idle"
    BY <1>6, OthersIdle DEF NextOwn, Goto
  <2>2. CASE c = d
    BY <1>6, <2>2 DEF Waited, NextOwn, Goto, Workers
  <2> QED
    BY <2>1, <2>2 DEF Waited
<1>7. ASSUME NEW c \in Callers, ThrowOwn(c)
      PROVE  Waited(d, v)'
  BY <1>7, <1>b, OthersIdle
     DEF Waited, WorksFor, ThrowWorkType, FlagType, Current, ThrowOwn, Goto
<1>8. ASSUME NEW c \in Callers, WaitForThread(c)
      PROVE  Waited(d, v)'
  <2>1. c = d \/ pc'[d] = "idle"
    BY <1>8, OthersIdle DEF WaitForThread, Lockable, Goto
  <2>2. CASE c = d
    <3>1. pc[d] = "wait" /\ UNCHANGED <<calls, wait_for_work, workloads, state,
            serving>>
      BY <1>8, <2>2 DEF WaitForThread, Lockable
    <3>2. t'[d] = t[d] \/ (t'[d] = t[d] + 1 /\ job_complete[t[d]])
      BY <1>8, <2>2 DEF WaitForThread, Lockable
    <3>3. v = t[d] /\ job_complete[v] => ~WorksFor(d, v)
      BY DEF FlagsAgree, Engaged, WorksFor
    <3> QED
      BY <1>b, <3>1, <3>2, <3>3 DEF Waited, WorksFor, Current, Workers
  <2> QED
    BY <2>1, <2>2 DEF Waited
<1>9. ASSUME NEW c \in Callers, WakeSpuriously(c)
      PROVE  Waited(d, v)'
  BY <1>9, <1>b, OthersIdle
     DEF Waited, WorksFor, ThrowWorkType, FlagType, Current, WakeSpuriously,
         Goto
<1>10. ASSUME NEW c \in Callers, AllWaited(c)
      PROVE  Waited(d, v)'
  BY <1>10, <1>b, OthersIdle
     DEF Waited, WorksFor, ThrowWorkType, FlagType, Current, AllWaited,
         WaitedForAll, Goto
<1>11. ASSUME NEW c \in Callers, Return(c)
      PROVE  Waited(d, v)'
  BY <1>11, <1>b, OthersIdle
     DEF Waited, WorksFor, ThrowWorkType, FlagType, Current, Return, Goto
<1>12. ASSUME NEW c \in Callers, Destroy(c)
      PROVE  Waited(d, v)'
  BY <1>12, <1>b, OthersIdle
     DEF Waited, WorksFor, ThrowWorkType, FlagType, Current, Destroy, Goto
<1>13. ASSUME NEW c \in Callers, Stop(c)
      PROVE  Waited(d, v)'
  BY <1>13, <1>b, OthersIdle
     DEF Waited, WorksFor, ThrowWorkType, FlagType, Current, Stop, Lockable, Raise,
         WakeWorker, Goto
<1>14. ASSUME NEW c \in Callers, Join(c)
      PROVE  Waited(d, v)'
  BY <1>14, <1>b, OthersIdle
     DEF Waited, WorksFor, ThrowWorkType, FlagType, Current, Join, Goto
<1>15. ASSUME NEW c \in Callers, Create(c)
      PROVE  Waited(d, v)'
  BY <1>15, <1>b, OthersIdle
     DEF Waited, WorksFor, ThrowWorkType, FlagType, Current, Create,
         NewComplete, Goto
<1>16. ASSUME NEW w \in Workers, TakeWork(w)
      PROVE  Waited(d, v)'
  BY <1>16, <1>b, OthersIdle
     DEF Waited, WorksFor, ThrowWorkType, FlagType, Current, TakeWork,
         ClearException
<1>17. ASSUME NEW w \in Workers, Sleep(w)
      PROVE  Waited(d, v)'
  BY <1>17, <1>b, OthersIdle
     DEF Waited, WorksFor, ThrowWorkType, FlagType, Current, Sleep
<1>18. ASSUME NEW w \in Workers, WakeWorkerSpuriously(w)
      PROVE  Waited(d, v)'
  BY <1>18, <1>b, OthersIdle
     DEF Waited, WorksFor, ThrowWorkType, FlagType, Current,
         WakeWorkerSpuriously, WakeWorker
<1>19. ASSUME NEW w \in Workers, NextItem(w)
      PROVE  Waited(d, v)'
  BY <1>19, <1>b, OthersIdle
     DEF Waited, WorksFor, ThrowWorkType, FlagType, Current, NextItem, RanOne,
         FeedOver, Complete, WakeCaller
<1>20. ASSUME NEW w \in Workers, NextItemDangling(w)
      PROVE  Waited(d, v)'
  BY <1>20, Dangling, <1>b, OthersIdle
     DEF Waited, WorksFor, ThrowWorkType, FlagType, Current, Dangles,
         Complete, WakeCaller
<1>21. ASSUME NEW w \in Workers, ThrowItem(w)
      PROVE  Waited(d, v)'
  BY <1>21, <1>b, OthersIdle
     DEF Waited, WorksFor, ThrowWorkType, FlagType, Current, ThrowItem,
         Complete, WakeCaller
<1>22. CASE UNCHANGED vars
  BY <1>22, <1>b, OthersIdle
     DEF Waited, WorksFor, ThrowWorkType, FlagType, Current, vars
<1> QED
  BY <1>1, <1>2, <1>3, <1>4, <1>5, <1>6, <1>7, <1>8, <1>9, <1>10, <1>11, <1>12,
     <1>13, <1>14, <1>15, <1>16, <1>17, <1>18, <1>19, <1>20, <1>21, <1>22,
     StepsThrow

\* A step that gives the worker nothing new leaves its caller alone.
LEMMA AloneKeeps ==
  ASSUME NEW d \in Callers, NEW v \in Workers, AloneAt(d, v),
         UNCHANGED <<calls, left_behind>>, pc'[d] \in InCall => pc[d] \in InCall,
         state'[v] = "running" => state[v] = "running" /\ serving'[v] = serving[v],
         wait_for_work'[v] => wait_for_work[v] /\ workloads'[v] = workloads[v]
  PROVE  AloneAt(d, v)'
BY DEF AloneAt, Current

\* Alone is kept: Lock looks at every worker, and until the call is over its
\* caller hands out nothing but this call.
LEMMA AloneStep ==
  ASSUME ThrowInv, [Next]_vars, NEW d \in Callers, NEW v \in Workers
  PROVE  AloneAt(d, v)'
<1> USE SchedulerAssumption
    DEF callVars, workVars, flagVars, poolVars, ThrowInv, ThrowType,
        ThrowCallType, InCall
<1>b. AloneAt(d, v)
  BY DEF CallsOK, Alone
<1>1. ASSUME NEW c \in Callers, NEW n \in 0 .. MaxWorkloads, Lock(c, n)
      PROVE  AloneAt(d, v)'
  <2>1. c = d \/ pc'[d] = "idle"
    BY <1>1, OthersIdle DEF Lock, Goto, MutexFree
  <2>2. CASE c = d
    <3>1. left_behind'[d] = (\E w \in Workers : Has(w, d))
      BY <1>1, <2>2 DEF Lock
    <3>2. ~left_behind'[d] => ~Has(v, d)
      BY <3>1
    <3> QED
      BY <1>1, <3>2 DEF Lock, Has, AloneAt
  <2> QED
    BY <2>1, <2>2 DEF AloneAt
<1>2. ASSUME NEW c \in Callers, NEW n \in 1 .. MaxThreads, NEW k \in Nat,
               LockToResize(c, n, k)
      PROVE  AloneAt(d, v)'
  <2>1. c = d \/ pc'[d] = "idle"
    BY <1>2, OthersIdle DEF LockToResize, Goto, MutexFree
  <2>2. c = d => pc'[d] = "destroy"
    BY <1>2 DEF LockToResize, Goto
  <2> QED
    BY <2>1, <2>2 DEF AloneAt
<1>3. ASSUME NEW c \in Callers, StartThread(c)
      PROVE  AloneAt(d, v)'
  <2>1. c = d \/ pc'[d] = "idle"
    BY <1>3, OthersIdle DEF StartThread, Goto
  <2>2. CASE c = d
    <3>1. /\ UNCHANGED <<calls, left_behind, state, serving, wait_for_work>>
          /\ pc[d] \in InCall
          /\ workloads' = [workloads EXCEPT ![t[d]] = Current(d)]
      BY <1>3, <2>2 DEF StartThread
    <3>2. workloads'[v] \in {workloads[v], Current(d)}
      BY <3>1 DEF ThrowWorkType
    <3> QED
      BY <1>b, <3>1, <3>2 DEF AloneAt, Current
  <2> QED
    BY <2>1, <2>2 DEF AloneAt
<1>4. ASSUME NEW c \in Callers, RaiseFlags(c)
      PROVE  AloneAt(d, v)'
  <2>1. c = d \/ pc'[d] = "idle"
    BY <1>4, OthersIdle DEF RaiseFlags, Goto
  <2>2. CASE c = d
    <3>1. /\ UNCHANGED <<calls, left_behind, serving, workloads>>
          /\ pc[d] = "raise"
          /\ wait_for_work' = [wait_for_work EXCEPT ![t[d]] = TRUE]
          /\ state'[v] = "running" => state[v] = "running"
      BY <1>4, <2>2 DEF RaiseFlags, Raise, WakeWorker, ThrowWorkType
    <3>2. workloads[t[d]] = Current(d)
      BY <3>1 DEF CallsOK, TeamOK
    <3>3. v # t[d] => wait_for_work'[v] = wait_for_work[v]
      BY <3>1 DEF FlagType
    <3> QED
      BY <1>b, <3>1, <3>2, <3>3 DEF AloneAt, Current
  <2> QED
    BY <2>1, <2>2 DEF AloneAt
<1>5. ASSUME NEW c \in Callers, BeginOwn(c)
      PROVE  AloneAt(d, v)'
  BY <1>5, <1>b, OthersIdle, AloneKeeps DEF BeginOwn, Goto
<1>6. ASSUME NEW c \in Callers, NextOwn(c)
      PROVE  AloneAt(d, v)'
  BY <1>6, <1>b, OthersIdle, AloneKeeps DEF NextOwn, Goto
<1>7. ASSUME NEW c \in Callers, ThrowOwn(c)
      PROVE  AloneAt(d, v)'
  <2>1. c = d \/ pc'[d] = "idle"
    BY <1>7, OthersIdle DEF ThrowOwn, Goto
  <2>2. c = d => pc'[d] \notin InCall
    BY <1>7 DEF ThrowOwn, Goto
  <2> QED
    BY <2>1, <2>2 DEF AloneAt
<1>8. ASSUME NEW c \in Callers, WaitForThread(c)
      PROVE  AloneAt(d, v)'
  BY <1>8, <1>b, OthersIdle, AloneKeeps DEF WaitForThread, Goto
<1>9. ASSUME NEW c \in Callers, WakeSpuriously(c)
      PROVE  AloneAt(d, v)'
  BY <1>9, <1>b, OthersIdle, AloneKeeps DEF WakeSpuriously, Goto
<1>10. ASSUME NEW c \in Callers, AllWaited(c)
      PROVE  AloneAt(d, v)'
  <2>1. c = d \/ pc'[d] = "idle"
    BY <1>10, OthersIdle DEF AllWaited, Goto
  <2>2. c = d => pc'[d] \notin InCall
    BY <1>10 DEF AllWaited, Goto
  <2> QED
    BY <2>1, <2>2 DEF AloneAt
<1>11. ASSUME NEW c \in Callers, Return(c)
      PROVE  AloneAt(d, v)'
  <2>1. c = d \/ pc'[d] = "idle"
    BY <1>11, OthersIdle DEF Return, Goto
  <2>2. c = d => pc'[d] \notin InCall
    BY <1>11 DEF Return, Goto
  <2> QED
    BY <2>1, <2>2 DEF AloneAt
<1>12. ASSUME NEW c \in Callers, Destroy(c)
      PROVE  AloneAt(d, v)'
  <2>1. c = d \/ pc'[d] = "idle"
    BY <1>12, OthersIdle DEF Destroy, Goto
  <2>2. c = d => pc'[d] \notin InCall
    BY <1>12 DEF Destroy, Goto
  <2> QED
    BY <2>1, <2>2 DEF AloneAt
<1>13. ASSUME NEW c \in Callers, Stop(c)
      PROVE  AloneAt(d, v)'
  <2>1. c = d \/ pc'[d] = "idle"
    BY <1>13, OthersIdle DEF Stop, Goto
  <2>2. c = d => pc'[d] \notin InCall
    BY <1>13 DEF Stop, Goto
  <2> QED
    BY <2>1, <2>2 DEF AloneAt
<1>14. ASSUME NEW c \in Callers, Join(c)
      PROVE  AloneAt(d, v)'
  <2>1. c = d \/ pc'[d] = "idle"
    BY <1>14, OthersIdle DEF Join, Goto
  <2>2. c = d => pc'[d] \notin InCall
    BY <1>14 DEF Join, Goto
  <2> QED
    BY <2>1, <2>2 DEF AloneAt
<1>15. ASSUME NEW c \in Callers, Create(c)
      PROVE  AloneAt(d, v)'
  <2>1. c = d \/ pc'[d] = "idle"
    BY <1>15, OthersIdle DEF Create, Goto
  <2>2. c = d => pc'[d] \notin InCall
    BY <1>15 DEF Create, Goto
  <2> QED
    BY <2>1, <2>2 DEF AloneAt
<1>16. ASSUME NEW w \in Workers, TakeWork(w)
      PROVE  AloneAt(d, v)'
  <2>1. CASE v = w
    <3>1. /\ UNCHANGED <<calls, left_behind, pc>> /\ wait_for_work[v] /\ ~wait_for_work'[v]
          /\ serving'[v] = workloads[v]
          /\ state'[v] = "running" => workloads[v] # NoCall
      BY <1>16, <2>1 DEF TakeWork, ThrowWorkType, FlagType
    <3> QED
      BY <1>b, <3>1 DEF AloneAt, Current
  <2>2. CASE v # w
    BY <1>16, <1>b, <2>2, AloneKeeps DEF TakeWork
  <2> QED
    BY <2>1, <2>2
<1>17. ASSUME NEW w \in Workers, Sleep(w)
      PROVE  AloneAt(d, v)'
  BY <1>17, <1>b, AloneKeeps DEF Sleep
<1>18. ASSUME NEW w \in Workers, WakeWorkerSpuriously(w)
      PROVE  AloneAt(d, v)'
  BY <1>18, <1>b, AloneKeeps DEF WakeWorkerSpuriously, WakeWorker
<1>19. ASSUME NEW w \in Workers, NextItem(w)
      PROVE  AloneAt(d, v)'
  <2>1. UNCHANGED <<calls, left_behind, serving, wait_for_work, workloads>>
    BY <1>19 DEF NextItem
  <2>2. pc'[d] \in InCall => pc[d] \in InCall
    BY <1>19 DEF NextItem, Complete, WakeCaller
  <2>3. state'[v] = "running" => state[v] = "running"
    BY <1>19 DEF NextItem, Complete, ThrowWorkType
  <2> QED
    BY <1>b, <2>1, <2>2, <2>3, AloneKeeps
<1>20. ASSUME NEW w \in Workers, NextItemDangling(w)
      PROVE  AloneAt(d, v)'
  <2>1. UNCHANGED <<calls, left_behind, serving, wait_for_work, workloads>>
    BY <1>20, Dangling DEF Dangles
  <2>2. pc'[d] \in InCall => pc[d] \in InCall
    BY <1>20, Dangling DEF Dangles, Complete, WakeCaller
  <2>3. state'[v] = "running" => state[v] = "running"
    BY <1>20, Dangling DEF Dangles, Complete, ThrowWorkType
  <2> QED
    BY <1>b, <2>1, <2>2, <2>3, AloneKeeps
<1>21. ASSUME NEW w \in Workers, ThrowItem(w)
      PROVE  AloneAt(d, v)'
  <2>1. UNCHANGED <<calls, left_behind, serving, wait_for_work, workloads>>
    BY <1>21 DEF ThrowItem
  <2>2. pc'[d] \in InCall => pc[d] \in InCall
    BY <1>21 DEF ThrowItem, Complete, WakeCaller
  <2>3. state'[v] = "running" => state[v] = "running"
    BY <1>21 DEF ThrowItem, Complete, ThrowWorkType
  <2> QED
    BY <1>b, <2>1, <2>2, <2>3, AloneKeeps
<1>22. CASE UNCHANGED vars
  BY <1>22, <1>b, AloneKeeps DEF vars
<1> QED
  BY <1>1, <1>2, <1>3, <1>4, <1>5, <1>6, <1>7, <1>8, <1>9, <1>10, <1>11, <1>12,
     <1>13, <1>14, <1>15, <1>16, <1>17, <1>18, <1>19, <1>20, <1>21, <1>22,
     StepsThrow

\* Every workload of a call is run, or somebody still owes it, until one throws.
LEMMA ExecutedStep ==
  ASSUME ThrowInv, [Next]_vars, NEW d \in Callers, ~threw'[d], ~left_behind'[d],
         pc'[d] \in InCall \cup {"return"}, NEW i \in 0 .. size'[d] - 1
  PROVE  Settled(d, i)'
<1> USE SchedulerAssumption
    DEF callVars, workVars, flagVars, poolVars, ThrowInv, ThrowType,
        ThrowCallType, InCall
<1>b. ~threw[d] /\ ~left_behind[d] /\ pc[d] \in InCall \cup {"return"}
        /\ size'[d] = size[d] => Settled(d, i)
  BY DEF CallsOK, ExecutedOK
<1>1. ASSUME NEW c \in Callers, NEW n \in 0 .. MaxWorkloads, Lock(c, n)
      PROVE  Settled(d, i)'
  <2>1. c = d
    BY <1>1, OthersIdle DEF Lock, Goto, MutexFree
  <2>2. /\ size'[d] = n /\ t'[d] = 0 /\ team'[d] = Smaller(num_threads, n)
        /\ feeder'[d] = team'[d]
             /\ pc'[d] = (IF n = 0 THEN "return" ELSE "start")
    BY <1>1, <2>1 DEF Lock, Goto, FirstFed, ThrowFeedType
  <2>3. team'[d] \in Nat /\ pc'[d] = "start" /\ i \in Nat
    BY <2>2 DEF Smaller, PoolType
  <2> QED
    BY <2>2, <2>3 DEF Settled, Owed
<1>2. ASSUME NEW c \in Callers, NEW n \in 1 .. MaxThreads, NEW k \in Nat,
               LockToResize(c, n, k)
      PROVE  Settled(d, i)'
  <2>1. c = d
    BY <1>2, OthersIdle DEF LockToResize, Goto, MutexFree
  <2> QED
    BY <1>2, <2>1 DEF LockToResize, Goto
<1>3. ASSUME NEW c \in Callers, StartThread(c)
      PROVE  Settled(d, i)'
  <2>1. c = d
    BY <1>3, OthersIdle DEF StartThread, Goto
  <2>2. Settled(d, i)
    BY <1>3, <2>1, <1>b DEF StartThread
  <2>3. /\ pc[d] = "start" /\ pc'[d] = "raise" /\ UNCHANGED <<runs, feeder,
             calls, t, team, wait_for_work, state, serving, item>>
        /\ workloads' = [workloads EXCEPT ![t[d]] = Current(d)]
    BY <1>3, <2>1 DEF StartThread, Goto
  <2>4. ASSUME NEW j \in Workers, workloads[j] = Current(d)
        PROVE  workloads'[j] = Current(d)
    BY <2>3, <2>4
  <2> QED
    BY <2>2, <2>3, <2>4 DEF Settled, Owed, Current
<1>4. ASSUME NEW c \in Callers, RaiseFlags(c)
      PROVE  Settled(d, i)'
  <2>1. c = d
    BY <1>4, OthersIdle DEF RaiseFlags, Lockable, Goto
  <2>2. Settled(d, i)
    BY <1>4, <2>1, <1>b DEF RaiseFlags, Lockable
  <2>3. /\ pc[d] = "raise" /\ pc'[d] = "start" /\ UNCHANGED <<runs, feeder,
             calls, team, workloads, serving, item>>
        /\ t'[d] = t[d] + 1
             /\ wait_for_work' = [wait_for_work EXCEPT ![t[d]] = TRUE]
        /\ \A w \in Workers : state[w] = "running" => state'[w] = "running"
    BY <1>4, <2>1 DEF RaiseFlags, Lockable, Raise, WakeWorker, Goto
  <2>4. TeamOK(d) /\ threads <= MaxThreads - 1 /\ threads \in Nat
    BY DEF CallsOK, PoolType
  <2>5. t[d] \in Workers /\ workloads[t[d]] = Current(d) /\ t[d] \in Nat
    BY <2>3, <2>4 DEF TeamOK, Workers, InCall
  <2>6. i = t[d] => i \in Workers /\ wait_for_work'[i]
          /\ workloads'[i] = Current(d)'
    BY <2>3, <2>5 DEF Current, FlagType
  <2>7. \A j \in Workers : wait_for_work[j] => wait_for_work'[j]
    BY <2>3
  <2> QED
    BY <2>2, <2>3, <2>5, <2>6, <2>7 DEF Settled, Owed, Current
<1>5. ASSUME NEW c \in Callers, BeginOwn(c)
      PROVE  Settled(d, i)'
  <2>1. c = d
    BY <1>5, OthersIdle DEF BeginOwn, Goto
  <2>2. Settled(d, i)
    BY <1>5, <2>1, <1>b DEF BeginOwn
  <2>3. /\ pc[d] = "start" /\ pc'[d] = "own" /\ UNCHANGED <<runs, feeder,
             calls, team, workloads, serving, item, state, wait_for_work>>
        /\ t[d] = team[d] - 1 /\ index'[d] = t[d]
    BY <1>5, <2>1 DEF BeginOwn, Goto, ThrowFeedType
  <2> QED
    BY <2>2, <2>3 DEF Settled, Owed, Current
<1>6. ASSUME NEW c \in Callers, NextOwn(c)
      PROVE  Settled(d, i)'
  <2>1. c = d
    BY <1>6, OthersIdle DEF NextOwn, Goto
  <2>2. Settled(d, i)
    BY <1>6, <2>1, <1>b DEF NextOwn
  <2>3. index[d] \in Indices /\ index[d] \in Nat /\ feeder[d] \in Nat
          /\ i \in Indices
    BY <1>6, <2>1 DEF NextOwn, CallsOK, TeamOK, Indices, ThrowFeedType
  <2>4. /\ pc[d] = "own" /\ pc'[d] \in {"own", "wait"} /\ UNCHANGED <<calls,
             team, size, workloads, serving, item, state, wait_for_work>>
        /\ feeder'[d] = feeder[d] + 1
        /\ feeder[d] >= size[d] \/ (pc'[d] = "own" /\ index'[d] = feeder[d])
        /\ runs' = [runs EXCEPT ![d][index[d]] = @ + 1]
    BY <1>6, <2>1 DEF NextOwn, Goto, RanOne, FeedOver, ThrowFeedType
  <2>5. runs[d][i] \in Nat
          /\ runs'[d][i] = IF i = index[d] THEN runs[d][i] + 1 ELSE runs[d][i]
    BY <2>3, <2>4 DEF ThrowFeedType
  <2>6. feeder[d] <= i => feeder'[d] <= i \/ (pc'[d] = "own" /\ index'[d] = i)
    BY <2>3, <2>4
  <2> QED
    BY <2>2, <2>4, <2>5, <2>6 DEF Settled, Owed, Current
<1>7. ASSUME NEW c \in Callers, ThrowOwn(c)
      PROVE  Settled(d, i)'
  <2>1. c = d
    BY <1>7, OthersIdle DEF ThrowOwn, Goto, MutexFree
  <2> QED
    BY <1>7, <2>1 DEF ThrowOwn, Goto
<1>8. ASSUME NEW c \in Callers, WaitForThread(c)
      PROVE  Settled(d, i)'
  <2>1. c = d
    BY <1>8, OthersIdle DEF WaitForThread, Lockable, Goto
  <2>2. Settled(d, i) /\ TeamOK(d)
    BY <1>8, <2>1, <1>b DEF WaitForThread, Lockable, CallsOK
  <2>3. /\ pc[d] = "wait" /\ pc'[d] \in {"wait", "asleep", "return"}
        /\ UNCHANGED <<runs, feeder, calls, size, team, threw, left_behind,
             workloads, serving, item, state, wait_for_work>>
        /\ t[d] # threads
        /\ pc'[d] = "return" => job_complete[t[d]] /\ exception[t[d]]
    BY <1>8, <2>1 DEF WaitForThread, Lockable, WaitedForAll, Goto
  <2>4. CASE pc'[d] = "return"
    <3>1. t[d] \in Workers
      BY <2>2, <2>3 DEF TeamOK, Workers, PoolType
    <3>2. ~wait_for_work[t[d]]
      BY <2>3, <2>4, <3>1 DEF FlagsAgree, Engaged
    <3>3. ~Raised(d, t[d])
      BY <2>3, <2>4, <3>1, <3>2 DEF CallsOK, StartedOK, Started
    <3>4. team[d] - 1 <= t[d]
      BY <2>3, <3>3 DEF Raised, InCall
    <3> QED
      BY <2>3, <3>4, TeamDone DEF Settled
  <2>5. CASE pc'[d] # "return"
    BY <2>2, <2>3, <2>5 DEF Settled, Owed, Current
  <2> QED
    BY <2>4, <2>5
<1>9. ASSUME NEW c \in Callers, WakeSpuriously(c)
      PROVE  Settled(d, i)'
  <2>1. Settled(d, i)
    BY <1>9, <1>b DEF WakeSpuriously, Goto, InCall
  <2> QED
    BY <1>9, <2>1, SettledKeeps DEF WakeSpuriously, Goto
<1>10. ASSUME NEW c \in Callers, AllWaited(c)
      PROVE  Settled(d, i)'
  <2>1. c = d
    BY <1>10, OthersIdle DEF AllWaited, Goto
  <2>2. TeamOK(d) /\ threads \in Nat
    BY <1>10 DEF CallsOK, PoolType
  <2>3. /\ pc[d] = "wait" /\ t[d] = threads
        /\ UNCHANGED <<runs, size, team, threw, left_behind>>
    BY <1>10, <2>1 DEF AllWaited, WaitedForAll
  <2>4. team[d] - 1 <= t[d]
    BY <2>2, <2>3 DEF TeamOK, InCall
  <2> QED
    BY <2>3, <2>4, TeamDone DEF Settled
<1>11. ASSUME NEW c \in Callers, Return(c)
      PROVE  Settled(d, i)'
  <2>1. c = d
    BY <1>11, OthersIdle DEF Return, Goto, MutexFree
  <2> QED
    BY <1>11, <2>1 DEF Return, Goto
<1>12. ASSUME NEW c \in Callers, Destroy(c)
      PROVE  Settled(d, i)'
  <2>1. c = d
    BY <1>12, OthersIdle DEF Destroy, Goto, MutexFree
  <2> QED
    BY <1>12, <2>1 DEF Destroy, Goto
<1>13. ASSUME NEW c \in Callers, Stop(c)
      PROVE  Settled(d, i)'
  <2>1. c = d
    BY <1>13, OthersIdle DEF Stop, Lockable, Goto, MutexFree
  <2> QED
    BY <1>13, <2>1 DEF Stop, Lockable, Goto
<1>14. ASSUME NEW c \in Callers, Join(c)
      PROVE  Settled(d, i)'
  <2>1. c = d
    BY <1>14, OthersIdle DEF Join, Goto, MutexFree
  <2> QED
    BY <1>14, <2>1 DEF Join, Goto
<1>15. ASSUME NEW c \in Callers, Create(c)
      PROVE  Settled(d, i)'
  <2>1. c = d
    BY <1>15, OthersIdle DEF Create, Goto, MutexFree
  <2> QED
    BY <1>15, <2>1 DEF Create, Goto
<1>16. ASSUME NEW w \in Workers, TakeWork(w)
      PROVE  Settled(d, i)'
  <2>1. Settled(d, i)
    BY <1>16, <1>b DEF TakeWork, InCall
  <2>2. /\ UNCHANGED <<pc, runs, feeder, calls, t, team, index, workloads>>
        /\ state[w] = "check" /\ item'[w] = w /\ serving'[w] = workloads[w]
             /\ ~wait_for_work'[w]
        /\ workloads[w] # NoCall => state'[w] = "running"
        /\ \A v \in Workers : v # w =>
             /\ state'[v] = state[v] /\ item'[v] = item[v]
                  /\ serving'[v] = serving[v]
             /\ wait_for_work'[v] = wait_for_work[v]
    BY <1>16 DEF TakeWork, ThrowWorkType, FlagType
  <2>3. Current(d) # NoCall
    BY DEF Current, NoCall
  <2>4. ASSUME Owed(d, i) PROVE Owed(d, i)'
    <3>1. CASE i \in Workers /\ wait_for_work[i] /\ workloads[i] = Current(d)
      <4>1. CASE i = w
        BY <2>2, <2>3, <3>1, <4>1 DEF Owed, Current
      <4>2. CASE i # w
        BY <2>2, <3>1, <4>2 DEF Owed, Current
      <4> QED
        BY <4>1, <4>2
    <3>2. CASE \E v \in Workers : state[v] = "running"
                 /\ serving[v] = Current(d) /\ item[v] = i
      <4>1. PICK v \in Workers : state[v] = "running"
              /\ serving[v] = Current(d) /\ item[v] = i
        BY <3>2
      <4>2. v # w
        BY <2>2, <4>1
      <4> QED
        BY <2>2, <4>1, <4>2 DEF Owed, Current
    <3>3. CASE ~(i \in Workers /\ wait_for_work[i]
                 /\ workloads[i] = Current(d))
               /\ ~(\E v \in Workers : state[v] = "running"
                    /\ serving[v] = Current(d) /\ item[v] = i)
      BY <2>2, <2>4, <3>3 DEF Owed
    <3> QED
      BY <3>1, <3>2, <3>3
  <2> QED
    BY <2>1, <2>2, <2>4 DEF Settled
<1>17. ASSUME NEW w \in Workers, Sleep(w)
      PROVE  Settled(d, i)'
  <2>1. Settled(d, i)
    BY <1>17, <1>b DEF Sleep, InCall
  <2> QED
    BY <1>17, <2>1, SettledKeeps DEF Sleep
<1>18. ASSUME NEW w \in Workers, WakeWorkerSpuriously(w)
      PROVE  Settled(d, i)'
  <2>1. Settled(d, i)
    BY <1>18, <1>b DEF WakeWorkerSpuriously, WakeWorker, InCall
  <2> QED
    BY <1>18, <2>1, SettledKeeps DEF WakeWorkerSpuriously, WakeWorker
<1>19. ASSUME NEW w \in Workers, NextItem(w)
      PROVE  Settled(d, i)'
  <2> DEFINE c == serving[w][1]
  <2>0. c \in Callers /\ serving[w] = Current(c) /\ pc[c] \in InCall
          /\ item[w] \in Indices
    BY <1>19, Runs DEF NextItem, FlagsAgree
  <2>1. Settled(d, i)
    BY <1>19, <1>b DEF NextItem, Complete, WakeCaller, InCall
  <2>2. c = d
    <3>1. pc[d] # "idle"
      BY <1>19 DEF NextItem, Complete, WakeCaller, InCall
    <3>2. pc[c] # "idle"
      BY <2>0 DEF InCall
    <3> HIDE DEF c
    <3> QED
      BY <2>0, <3>1, <3>2, Sole
  <2>3. /\ UNCHANGED <<calls, t, team, index, workloads, wait_for_work,
             serving, size>>
        /\ runs' = [runs EXCEPT ![d][item[w]] = @ + 1]
        /\ feeder' = [feeder EXCEPT ![d] = @ + 1]
        /\ \/ feeder[d] >= size[d]
           \/ item'[w] = feeder[d] /\ state'[w] = "running"
        /\ \A v \in Workers : v # w => state'[v] = state[v]
             /\ item'[v] = item[v]
        /\ pc'[d] = pc[d] \/ {pc[d], pc'[d]} \subseteq {"wait", "asleep"}
    BY <1>19, <2>2
       DEF NextItem, RanOne, FeedOver, Complete, WakeCaller, ThrowWorkType
  <2> HIDE DEF c
  <2>4. feeder[d] \in Nat /\ size[d] \in Nat /\ i \in Indices
          /\ feeder'[d] = feeder[d] + 1
    BY <2>3 DEF ThrowFeedType, ThrowCallType, Indices
  <2>5. runs[d][i] \in Nat
          /\ runs'[d][i] = IF i = item[w] THEN runs[d][i] + 1 ELSE runs[d][i]
    BY <2>0, <2>3, <2>4 DEF ThrowFeedType
  <2>6. ASSUME Owed(d, i), i # item[w] PROVE Owed(d, i)'
    <3>1. CASE feeder[d] <= i
      <4>1. feeder'[d] <= i \/ (item'[w] = i /\ state'[w] = "running"
              /\ serving'[w] = Current(d)')
        BY <2>0, <2>2, <2>3, <2>4, <3>1 DEF Current
      <4> QED
        BY <4>1 DEF Owed
    <3>2. CASE ~(feeder[d] <= i)
      BY <2>3, <2>6, <3>2 DEF Owed, Current
    <3> QED
      BY <3>1, <3>2
  <2>7. Settled(d, i) => runs[d][i] > 0 \/ (Owed(d, i) /\ pc[d] # "return")
    BY DEF Settled
  <2> QED
    BY <2>1, <2>3, <2>5, <2>6, <2>7 DEF Settled
<1>20. ASSUME NEW w \in Workers, NextItemDangling(w)
      PROVE  Settled(d, i)'
  <2>1. /\ UNCHANGED <<calls, index, team, t, size, threw, left_behind, workloads,
                       serving, wait_for_work>>
        /\ state[w] = "running"
        /\ pc'[d] = pc[d] \/ {pc[d], pc'[d]} \subseteq {"wait", "asleep"}
    BY <1>20, Dangling DEF Dangles, Complete, WakeCaller
  <2>2. Settled(d, i) /\ pc[d] \in InCall \cup {"return"}
    BY <1>b, <2>1
  <2>3. serving[w][1] \in Callers
    BY <2>1 DEF FlagsAgree, ThrowWorkType, Call_s
  <2>4. ASSUME pc[serving[w][1]] \in InCall PROVE FALSE
    <3> DEFINE c == serving[w][1]
    <3>1. c = d
      <4> HIDE DEF c
      <4>1. c \in Callers /\ pc[c] # "idle" /\ pc[d] # "idle"
        BY <2>2, <2>3, <2>4 DEF c
      <4> QED
        BY <4>1, Sole
    <3>2. serving[w] = Current(d)
      BY <2>1, <2>4, <3>1 DEF CallsOK, Alone, AloneAt
    <3>3. Alive(serving[w])
      BY <2>4, <3>1, <3>2 DEF Alive
    <3> QED
      BY <1>20, <3>3 DEF NextItemDangling
  <2>5. UNCHANGED <<feeder, runs>>
    BY <1>20, <2>4, Dangling
  <2>6. CASE runs[d][i] > 0
    BY <2>5, <2>6 DEF Settled
  <2>7. CASE pc[d] \in InCall
    <3>1. serving[w] # Current(d)
      BY <2>4, <2>7 DEF Current
    <3>2. \A v \in Workers : v # w => state'[v] = state[v]
            /\ item'[v] = item[v]
      BY <1>20, Dangling DEF Dangles, Complete, ThrowWorkType
    <3>3. i \in Int
      OBVIOUS
    <3> QED
      BY <2>1, <2>2, <2>5, <3>1, <3>2, <3>3, SettledKeeps
  <2> QED
    BY <2>2, <2>6, <2>7 DEF Settled
<1>21. ASSUME NEW w \in Workers, ThrowItem(w)
      PROVE  Settled(d, i)'
  <2>1. Settled(d, i)
    BY <1>21, <1>b DEF ThrowItem, Complete, WakeCaller, InCall
  <2>2. Settled(d, i) => runs[d][i] > 0 \/ pc[d] \in InCall
    BY <1>21 DEF Settled, ThrowItem, Complete, WakeCaller, InCall
  <2>3. CASE runs[d][i] > 0
    BY <1>21, <2>3 DEF ThrowItem, Settled
  <2>4. CASE pc[d] \in InCall
    <3>1. serving[w] # Current(d)
      <4>1. ASSUME serving[w] = Current(d) PROVE Alive(serving[w])
                     /\ serving[w][1] = d
        BY <2>4, <4>1 DEF Alive, Current
      <4> QED
        BY <1>21, <4>1 DEF ThrowItem
    <3>2. \A v \in Workers : v # w => state'[v] = state[v]
            /\ item'[v] = item[v]
      BY <1>21 DEF ThrowItem, Complete
    <3>3. pc'[d] = pc[d] \/ {pc[d], pc'[d]} \subseteq {"wait", "asleep"}
      BY <1>21 DEF ThrowItem, Complete, WakeCaller
    <3> QED
      BY <1>21, <2>1, <3>1, <3>2, <3>3, SettledKeeps DEF ThrowItem
  <2> QED
    BY <2>1, <2>2, <2>3, <2>4
<1>22. CASE UNCHANGED vars
  <2>1. Settled(d, i)
    BY <1>22, <1>b DEF vars, InCall
  <2> QED
    BY <1>22, <2>1, SettledKeeps DEF vars
<1> QED
  BY <1>1, <1>2, <1>3, <1>4, <1>5, <1>6, <1>7, <1>8, <1>9, <1>10, <1>11, <1>12,
     <1>13, <1>14, <1>15, <1>16, <1>17, <1>18, <1>19, <1>20, <1>21, <1>22,
     StepsThrow

\* Every step keeps ThrowInv.
LEMMA ThrowStep ==
  ASSUME ThrowInv, [Next]_vars
  PROVE  ThrowInv'
<1>1. ThrowType'
  BY ThrowPoolStep, ThrowCallStep, ThrowFeedStep, ThrowWorkStep, ThrowFlagStep
     DEF ThrowType
<1>2. MutexHeld' /\ PoolWhole' /\ HandedOver' /\ FlagsAgree'
  BY ThrowMutexStep, HandedStep, FlagsAgreeStep
<1>3. ASSUME NEW c \in Callers PROVE TeamOK(c)' /\ StartedOK(c)'
               /\ WaitedOK(c)' /\ Alone(c)'
  <2>1. ASSUME NEW w \in Workers
        PROVE  Started(c, w)' /\ Waited(c, w)' /\ AloneAt(c, w)'
    BY StartedStep, WaitedStep, AloneStep
  <2>2. TeamOK(c)'
    BY TeamStep
  <2>3. StartedOK(c)' /\ WaitedOK(c)' /\ Alone(c)'
    BY <2>1 DEF StartedOK, WaitedOK, Alone
  <2> QED
    BY <2>2, <2>3
<1>4. ASSUME NEW c \in Callers PROVE ExecutedOK(c)'
  <2>1. ASSUME ~threw'[c], ~left_behind'[c], pc'[c] \in InCall \cup {"return"},
               NEW i \in 0 .. size'[c] - 1
        PROVE  Settled(c, i)'
    BY <2>1, ExecutedStep
  <2> QED
    BY <2>1 DEF ExecutedOK, InCall
<1>5. CallsOK'
  BY <1>3, <1>4 DEF CallsOK
<1> QED
  BY <1>1, <1>2, <1>5 DEF ThrowInv

\* Whatever the workloads throw, and at whatever point: a call that none of
\* its own workloads has thrown in, and that began with no worker still at an
\* earlier call of its caller, returns only when each has been run.  An
\* exception left by an earlier call cannot end its wait too soon, because a
\* worker of its team has cleared it before it is waited for; and a worker
\* that another caller's call has left behind moves only that caller's feeder.
THEOREM WorkloadsExecuted == Spec => []AllExecuted
<1>1. Init => ThrowInv
  <2> SUFFICES ASSUME Init PROVE ThrowInv
    OBVIOUS
  <2> USE SchedulerAssumption DEF Init
  <2>1. PoolType /\ ThrowCallType /\ ThrowFeedType /\ FlagType
    BY DEF PoolType, ThrowCallType, ThrowFeedType, FlagType
  <2>2. ThrowWorkType
    BY DEF ThrowWorkType, Call_s
  <2>3. MutexHeld /\ PoolWhole
    BY DEF MutexHeld, PoolWhole
  <2>4. HandedOver /\ FlagsAgree
    BY DEF HandedOver, Belongs, NoCall, FlagsAgree, Engaged
  <2>5. CallsOK
    BY DEF CallsOK, TeamOK, StartedOK, Started, Raised, WaitedOK, Waited,
           Alone, AloneAt, ExecutedOK, InCall
  <2> QED
    BY <2>1, <2>2, <2>3, <2>4, <2>5 DEF ThrowInv, ThrowType
<1>2. ThrowInv /\ [Next]_vars => ThrowInv'
  BY ThrowStep
<1>3. ThrowInv => AllExecuted
  BY DEF ThrowInv, CallsOK, ExecutedOK, Settled, AllExecuted
<1> QED
  BY <1>1, <1>2, <1>3, PTL DEF Spec
=============================================================================
