---------------------------- MODULE CppScheduler ----------------------------
(***************************************************************************)
(* CPPScheduler: callers hand vectors of workloads to a pool of worker     *)
(* threads, one call at a time under _run_workloads_mutex.  Worker w is    *)
(* the Thread at position w of _threads; it always runs with thread_id w.  *)
(*                                                                         *)
(* A call is <<caller, number>>.  Its workloads and its ThreadFeeder live  *)
(* in the caller's frames: a reference to them dangles once it is over.    *)
(***************************************************************************)
EXTENDS Integers

CONSTANTS
  Callers,       \* the threads that use the scheduler
  Nobody,        \* not one of them
  MaxThreads,    \* bound on num_threads
  MaxWorkloads,  \* bound on workloads.size()
  MaxCalls,      \* bound on the calls of each caller
  MayThrow       \* workloads may throw (any exception: see WaitForThread)

ASSUME SchedulerAssumption ==
  /\ Nobody \notin Callers
  /\ MaxThreads \in Nat \ {0}
  /\ MaxWorkloads \in Nat
  /\ MaxCalls \in Nat
  /\ MayThrow \in BOOLEAN

Workers == 0 .. MaxThreads - 2
Indices == 0 .. MaxWorkloads - 1
NoCall == <<>>                      \* nullptr

VARIABLES
  mutex,             \* the holder of _run_workloads_mutex, or Nobody
  num_threads,       \* _num_threads
  threads,           \* _threads.size()
  pc, calls,         \* of each caller: place, and the calls it has made
  size, team,        \* workloads.size(); num_threads of run_workloads
  t,                 \* the Thread its loop has reached
  feeder,            \* _atomic_counter of its ThreadFeeder
  index,             \* the workload it runs itself
  runs,              \* how often each workload of the call has been run
  threw,             \* has one of them thrown
  left_behind,       \* history, read by no guard: did the call begin while a
                     \* worker still had an earlier call of its caller
  state,             \* of each worker: place
  workloads,         \* _workloads and _feeder: the call, or NoCall
  serving, item,     \* the call and workload it runs
  wait_for_work, job_complete, exception

callVars == <<size, team, t, feeder, index, runs, threw, left_behind>>
workVars == <<state, workloads, serving, item>>
flagVars == <<wait_for_work, job_complete, exception>>
poolVars == <<num_threads, threads>>
vars == <<mutex, poolVars, pc, calls, callVars, workVars, flagVars>>

Init ==
  /\ mutex = Nobody
  /\ num_threads = MaxThreads
  /\ threads = MaxThreads - 1
  /\ pc = [c \in Callers |-> "idle"]
  /\ calls = [c \in Callers |-> 0]
  /\ size = [c \in Callers |-> 0]
  /\ team = [c \in Callers |-> 0]
  /\ t = [c \in Callers |-> 0]
  /\ feeder = [c \in Callers |-> 0]
  /\ index = [c \in Callers |-> 0]
  /\ runs = [c \in Callers |-> [i \in Indices |-> 0]]
  /\ threw = [c \in Callers |-> FALSE]
  /\ left_behind = [c \in Callers |-> FALSE]
  /\ state = [w \in Workers |-> "check"]
  /\ workloads = [w \in Workers |-> NoCall]
  /\ serving = [w \in Workers |-> NoCall]
  /\ item = [w \in Workers |-> 0]
  /\ wait_for_work = [w \in Workers |-> FALSE]
  /\ job_complete = [w \in Workers |-> TRUE]
  /\ exception = [w \in Workers |-> FALSE]

Smaller(m, n) == IF m < n THEN m ELSE n
Current(c) == <<c, calls[c]>>
InCall == {"start", "raise", "own", "wait", "asleep"}
Alive(k) == k = Current(k[1]) /\ pc[k[1]] \in InCall

Goto(c, place) == pc' = [pc EXCEPT ![c] = place]

(***************************************************************************)
(* run_workloads.                                                          *)
(***************************************************************************)
NoLock == TRUE                                            \* a mutant
MutexFree == mutex = Nobody

FedTwice(n) == n - 1                                      \* a mutant
FirstFed(n) == n

\* Worker w runs workloads of a call of c, or has yet to pick them up.
Has(w, c) ==
  \/ state[w] = "running" /\ serving[w][1] = c
  \/ wait_for_work[w] /\ workloads[w] # NoCall /\ workloads[w][1] = c

Lock(c, n) ==
  /\ pc[c] = "idle" /\ MutexFree /\ calls[c] < MaxCalls
  /\ mutex' = c
  /\ size' = [size EXCEPT ![c] = n]
  /\ team' = [team EXCEPT ![c] = Smaller(num_threads, n)]
  /\ t' = [t EXCEPT ![c] = 0]
  /\ feeder' = [feeder EXCEPT ![c] = FirstFed(Smaller(num_threads, n))]
  /\ runs' = [runs EXCEPT ![c] = [i \in Indices |-> 0]]
  /\ threw' = [threw EXCEPT ![c] = FALSE]
  /\ left_behind' = [left_behind EXCEPT ![c] = \E w \in Workers : Has(w, c)]
  /\ Goto(c, IF n = 0 THEN "return" ELSE "start")
  /\ UNCHANGED <<poolVars, calls, index, workVars, flagVars>>

\* Thread::start writes the fields with no lock held ...
StartThread(c) ==
  /\ pc[c] = "start" /\ t[c] < team[c] - 1
  /\ workloads' = [workloads EXCEPT ![t[c]] = Current(c)]
  /\ Goto(c, "raise")
  /\ UNCHANGED <<mutex, poolVars, calls, callVars, state, serving, item,
                 flagVars>>

\* ... then raises the flags under _m, which a worker holds while it runs
\* workloads, and notifies it.
KeepComplete(w) ==                                        \* a mutant
  wait_for_work' = [wait_for_work EXCEPT ![w] = TRUE] /\ UNCHANGED job_complete
Raise(w) ==
  /\ wait_for_work' = [wait_for_work EXCEPT ![w] = TRUE]
  /\ job_complete' = [job_complete EXCEPT ![w] = FALSE]

WakeWorker(w) ==
  state' = [state EXCEPT ![w] = IF @ = "asleep" THEN "check" ELSE @]

RaisedUnlocked(w) == TRUE                                 \* a mutant
Lockable(w) == state[w] # "running"

RaiseFlags(c) ==
  /\ pc[c] = "raise" /\ Lockable(t[c])
  /\ Raise(t[c])
  /\ WakeWorker(t[c])
  /\ t' = [t EXCEPT ![c] = @ + 1]
  /\ Goto(c, "start")
  /\ UNCHANGED <<mutex, poolVars, calls, size, team, feeder, index, runs, threw,
                 left_behind, workloads, serving, item, exception>>

\* process_workloads on the caller: first workloads[info.thread_id].
BeginOwn(c) ==
  /\ pc[c] = "start" /\ t[c] = team[c] - 1
  /\ index' = [index EXCEPT ![c] = t[c]]
  /\ Goto(c, "own")
  /\ UNCHANGED <<mutex, poolVars, calls, size, team, t, feeder, runs,
                 threw, left_behind, workVars, flagVars>>

\* ThreadFeeder::get_next returns false.
FedPastEnd(c) == feeder[c] > size[c]                      \* a mutant
FeedOver(c) == feeder[c] >= size[c]

\* A workload of the call has run, and the next is fetched.
RanOne(c, i) ==
  /\ runs' = [runs EXCEPT ![c][i] = @ + 1]
  /\ feeder' = [feeder EXCEPT ![c] = @ + 1]

NextOwn(c) ==
  /\ pc[c] = "own"
  /\ RanOne(c, index[c])
  /\ IF FeedOver(c)
     THEN /\ Goto(c, "wait")
          /\ t' = [t EXCEPT ![c] = 0]
          /\ UNCHANGED index
     ELSE /\ index' = [index EXCEPT ![c] = feeder[c]]
          /\ UNCHANGED <<pc, t>>
  /\ UNCHANGED <<mutex, poolVars, calls, size, team, threw, left_behind,
                 workVars, flagVars>>

\* process_workloads is outside the try: the exception ends the call.
ThrowOwn(c) ==
  /\ pc[c] = "own" /\ MayThrow
  /\ threw' = [threw EXCEPT ![c] = TRUE]
  /\ Goto(c, "return")
  /\ UNCHANGED <<mutex, poolVars, calls, size, team, t, feeder, index, runs,
                 left_behind, workVars, flagVars>>

AllButLast(c) == t[c] >= threads - 1                      \* a mutant
WaitedForAll(c) == t[c] = threads

\* Thread::wait on every thread of the pool, started or not.  An exception a
\* worker has stored ends the loop: a system_error is caught and logged, and
\* any other leaves run_workloads.
WaitForThread(c) ==
  /\ pc[c] = "wait" /\ ~WaitedForAll(c) /\ Lockable(t[c])
  /\ IF ~job_complete[t[c]]
     THEN Goto(c, "asleep") /\ UNCHANGED t
     ELSE IF ~exception[t[c]]
     THEN t' = [t EXCEPT ![c] = @ + 1] /\ UNCHANGED pc
     ELSE Goto(c, "return") /\ UNCHANGED t
  /\ UNCHANGED <<mutex, poolVars, calls, size, team, feeder, index, runs, threw,
                 left_behind, workVars, flagVars>>

WakeSpuriously(c) ==
  /\ pc[c] = "asleep"
  /\ Goto(c, "wait")
  /\ UNCHANGED <<mutex, poolVars, calls, callVars, workVars, flagVars>>

AllWaited(c) ==
  /\ pc[c] = "wait" /\ WaitedForAll(c)
  /\ Goto(c, "return")
  /\ UNCHANGED <<mutex, poolVars, calls, callVars, workVars, flagVars>>

\* The frames of the call go and lock_guard releases the mutex.
Return(c) ==
  /\ pc[c] = "return"
  /\ mutex' = Nobody
  /\ calls' = [calls EXCEPT ![c] = @ + 1]
  /\ Goto(c, "idle")
  /\ UNCHANGED <<poolVars, callVars, workVars, flagVars>>

(***************************************************************************)
(* Thread::worker_thread.                                                  *)
(***************************************************************************)
KeepException(w) == UNCHANGED exception                   \* a mutant
ClearException(w) == exception' = [exception EXCEPT ![w] = FALSE]

TakeWork(w) ==
  /\ state[w] = "check" /\ w < threads /\ wait_for_work[w]
  /\ wait_for_work' = [wait_for_work EXCEPT ![w] = FALSE]
  /\ ClearException(w)
  /\ serving' = [serving EXCEPT ![w] = workloads[w]]
  /\ item' = [item EXCEPT ![w] = w]
  /\ state' = [state EXCEPT ![w] =
                 IF workloads[w] = NoCall THEN "exited" ELSE "running"]
  /\ UNCHANGED <<mutex, poolVars, pc, calls, callVars, workloads, job_complete>>

Sleep(w) ==
  /\ state[w] = "check" /\ w < threads /\ ~wait_for_work[w]
  /\ state' = [state EXCEPT ![w] = "asleep"]
  /\ UNCHANGED <<mutex, poolVars, pc, calls, callVars, workloads, serving,
                 item, flagVars>>

WakeWorkerSpuriously(w) ==
  /\ state[w] = "asleep"
  /\ WakeWorker(w)
  /\ UNCHANGED <<mutex, poolVars, pc, calls, callVars, workloads, serving,
                 item, flagVars>>

LeaveAsleep(w) == UNCHANGED pc                            \* a mutant
WakeCaller(w) ==
  pc' = [c \in Callers |->
           IF pc[c] = "asleep" /\ t[c] = w THEN "wait" ELSE pc[c]]

\* _job_complete is set, _m released and the waiting caller notified.
Complete(w) ==
  /\ job_complete' = [job_complete EXCEPT ![w] = TRUE]
  /\ state' = [state EXCEPT ![w] = "check"]
  /\ WakeCaller(w)

NextItem(w) ==
  LET c == serving[w][1] IN
  /\ state[w] = "running" /\ Alive(serving[w])
  /\ RanOne(c, item[w])
  /\ IF FeedOver(c)
     THEN Complete(w) /\ UNCHANGED item
     ELSE /\ item' = [item EXCEPT ![w] = feeder[c]]
          /\ UNCHANGED <<job_complete, state, pc>>
  /\ UNCHANGED <<mutex, poolVars, calls, size, team, t, index, threw,
                 left_behind, workloads, serving, wait_for_work, exception>>

\* The call is over, its vector and its ThreadFeeder freed.  What lies there
\* now may be those of the caller's next call, whose counter the fetch_add then
\* moves, and one of whose workloads may have been what the worker ran ...
FetchAstray(w) ==
  LET c == serving[w][1] IN
  /\ pc[c] \in InCall
  /\ feeder' = [feeder EXCEPT ![c] = @ + 1]
  /\ UNCHANGED runs \/ runs' = [runs EXCEPT ![c][item[w]] = @ + 1]
  /\ IF FeedOver(c)
     THEN Complete(w) /\ UNCHANGED item
     ELSE /\ item' = [item EXCEPT ![w] = feeder[c]]
          /\ UNCHANGED <<job_complete, state, pc>>

\* ... or anything else: the worker stops or goes on with some index.
FetchNowhere(w) ==
  /\ \/ Complete(w) /\ UNCHANGED item
     \/ /\ \E i \in Indices : item' = [item EXCEPT ![w] = i]
        /\ UNCHANGED <<job_complete, state, pc>>
  /\ UNCHANGED <<feeder, runs>>

NextItemDangling(w) ==
  /\ state[w] = "running" /\ ~Alive(serving[w])
  /\ FetchAstray(w) \/ FetchNowhere(w)
  /\ UNCHANGED <<mutex, poolVars, calls, size, team, t, index, threw,
                 left_behind, workloads, serving, wait_for_work, exception>>

ThrowItem(w) ==
  /\ state[w] = "running" /\ MayThrow
  /\ exception' = [exception EXCEPT ![w] = TRUE]
  /\ Complete(w)
  /\ threw' = [c \in Callers |->
                threw[c] \/ (Alive(serving[w]) /\ c = serving[w][1])]
  /\ UNCHANGED <<mutex, poolVars, calls, size, team, t, feeder, index, runs,
                 left_behind, workloads, serving, item, wait_for_work>>

(***************************************************************************)
(* set_num_threads keeps the first threads (_threads.resize);              *)
(* set_num_threads_with_affinity keeps none (_threads.clear).  ~Thread     *)
(* starts the thread with nullptr and joins it.                            *)
(***************************************************************************)
LockToResize(c, n, kept) ==
  /\ pc[c] = "idle" /\ MutexFree /\ calls[c] < MaxCalls
  /\ mutex' = c
  /\ num_threads' = n
  /\ t' = [t EXCEPT ![c] = kept]
  /\ Goto(c, "destroy")
  /\ UNCHANGED <<threads, calls, size, team, feeder, index, runs, threw,
                 left_behind, workVars, flagVars>>

Destroy(c) ==
  /\ pc[c] = "destroy" /\ t[c] < threads
  /\ workloads' = [workloads EXCEPT ![t[c]] = NoCall]
  /\ Goto(c, "stop")
  /\ UNCHANGED <<mutex, poolVars, calls, callVars, state, serving, item,
                 flagVars>>

Stop(c) ==
  /\ pc[c] = "stop" /\ Lockable(t[c])
  /\ Raise(t[c])
  /\ WakeWorker(t[c])
  /\ Goto(c, "join")
  /\ UNCHANGED <<mutex, poolVars, calls, callVars, workloads, serving, item,
                 exception>>

Detached(w) == TRUE                                       \* a mutant
Joinable(w) == state[w] = "exited"

Join(c) ==
  /\ pc[c] = "join" /\ Joinable(t[c])
  /\ t' = [t EXCEPT ![c] = @ + 1]
  /\ Goto(c, "destroy")
  /\ UNCHANGED <<mutex, poolVars, calls, size, team, feeder, index, runs, threw,
                 left_behind, workVars, flagVars>>

NeverStarted == FALSE                                     \* a mutant
NewComplete == TRUE

\* The threads the pool lacks are made, and the mutex released.
Create(c) ==
  LET kept(w) == w < threads /\ state[w] # "exited" IN
  /\ pc[c] = "destroy" /\ t[c] >= threads
  /\ threads' = num_threads - 1
  /\ state' = [w \in Workers |-> IF kept(w) THEN state[w] ELSE "check"]
  /\ workloads' = [w \in Workers |-> IF kept(w) THEN workloads[w] ELSE NoCall]
  /\ wait_for_work' = [w \in Workers |-> kept(w) /\ wait_for_work[w]]
  /\ job_complete' =
       [w \in Workers |-> IF kept(w) THEN job_complete[w] ELSE NewComplete]
  /\ exception' = [w \in Workers |-> kept(w) /\ exception[w]]
  /\ mutex' = Nobody
  /\ calls' = [calls EXCEPT ![c] = @ + 1]
  /\ Goto(c, "idle")
  /\ UNCHANGED <<num_threads, callVars, serving, item>>

CallerStep(c) ==
  \/ StartThread(c) \/ RaiseFlags(c) \/ BeginOwn(c) \/ NextOwn(c)
  \/ WaitForThread(c) \/ AllWaited(c) \/ Return(c)
  \/ Destroy(c) \/ Stop(c) \/ Join(c) \/ Create(c)

Call(c) ==
  \/ \E n \in 0 .. MaxWorkloads : Lock(c, n)
  \/ \E n \in 1 .. MaxThreads :
       LockToResize(c, n, 0) \/ LockToResize(c, n, Smaller(n - 1, threads))

WorkerStep(w) == TakeWork(w) \/ Sleep(w) \/ NextItem(w)

Next ==
  \/ \E c \in Callers : Call(c) \/ CallerStep(c) \/ ThrowOwn(c)
                        \/ WakeSpuriously(c)
  \/ \E w \in Workers : WorkerStep(w) \/ NextItemDangling(w) \/ ThrowItem(w)
                        \/ WakeWorkerSpuriously(w)

Spec == Init /\ [][Next]_vars

\* Threads are scheduled and workloads end; nobody has to call, and no
\* spurious wakeup is promised.
Fairness ==
  /\ \A c \in Callers : WF_vars(CallerStep(c))
  /\ \A w \in Workers : WF_vars(WorkerStep(w))

FairSpec == Spec /\ Fairness

-----------------------------------------------------------------------------
(***************************************************************************)
(* Properties.                                                             *)
(***************************************************************************)
Call_s == (Callers \X Nat) \cup {NoCall}

PoolType ==
  /\ mutex \in Callers \cup {Nobody}
  /\ num_threads \in 1 .. MaxThreads
  /\ threads \in 0 .. MaxThreads - 1

CallType ==
  /\ pc \in [Callers -> InCall \cup {"idle", "return", "destroy", "stop", "join"}]
  /\ calls \in [Callers -> Nat]
  /\ size \in [Callers -> 0 .. MaxWorkloads]
  /\ team \in [Callers -> 0 .. MaxThreads]
  /\ t \in [Callers -> 0 .. MaxThreads - 1]
  /\ threw \in [Callers -> BOOLEAN]
  /\ left_behind \in [Callers -> BOOLEAN]

FeedType ==
  /\ feeder \in [Callers -> Nat]
  /\ index \in [Callers -> Nat]
  /\ runs \in [Callers -> [Indices -> Nat]]
  /\ \A c \in Callers : pc[c] = "own" => index[c] \in 0 .. size[c] - 1

WorkType ==
  /\ state \in [Workers -> {"check", "asleep", "running", "exited"}]
  /\ workloads \in [Workers -> Call_s]
  /\ serving \in [Workers -> Call_s]
  /\ item \in [Workers -> Nat]
  /\ \A w \in Workers : state[w] = "running" => item[w] \in Indices

FlagType ==
  /\ wait_for_work \in [Workers -> BOOLEAN]
  /\ job_complete \in [Workers -> BOOLEAN]
  /\ exception \in [Workers -> BOOLEAN]

\* Every variable holds a value of the kind the program gives it; in
\* particular no thread is given an index outside the vector, which
\* process_workloads asserts.
TypeOK == PoolType /\ CallType /\ FeedType /\ WorkType /\ FlagType

\* A call of which no workload threw returns only after each of them has been
\* run exactly once, by the caller or by a worker, as its share or fed to it.
EachWorkloadOnce ==
  \A c \in Callers : pc[c] = "return" /\ ~threw[c] =>
    \A i \in 0 .. size[c] - 1 : runs[c][i] = 1

\* Also where workloads may throw: a call of which none threw, and that began
\* with no worker left behind by an earlier call of its caller, executes them
\* all, whatever workers the calls of other callers have left behind.  (One of
\* its own caller may take a workload from its feeder: see FetchAstray.)
AllExecuted ==
  \A c \in Callers : pc[c] = "return" /\ ~threw[c] /\ ~left_behind[c] =>
    \A i \in 0 .. size[c] - 1 : runs[c][i] > 0

\* Workloads run only for the call that holds the mutex, and for it only while
\* its frames are there: the workloads of two calls never overlap.
CallsDoNotOverlap ==
  /\ \A w \in Workers :
       state[w] = "running" => Alive(serving[w]) /\ serving[w][1] = mutex
  /\ \A c \in Callers : pc[c] = "own" => mutex = c

\* Thread::start writes _workloads, _feeder and _info with no lock: it never
\* does so while the worker runs with them or has yet to pick them up.
FieldsNotRaced ==
  [][\A w \in Workers : workloads'[w] # workloads[w] =>
       state[w] # "running" /\ ~wait_for_work[w]]_vars

\* The pool changes only between calls: the threads a call has counted on are
\* there until it returns.
PoolStable ==
  [][threads' # threads \/ num_threads' # num_threads =>
       \A w \in Workers : state[w] # "running"]_vars

\* A Thread is destroyed only when its thread has ended, even one that a call
\* which threw has left behind with workloads to run.
ThreadsJoined ==
  [][\A w \in Workers : threads' # threads /\ threads' <= w /\ w < threads
       => state[w] = "exited"]_vars

\* Every call, and every change of the pool, returns.
EveryCallReturns == \A c \in Callers : pc[c] # "idle" ~> pc[c] = "idle"
=============================================================================
