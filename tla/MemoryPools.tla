----------------------------- MODULE MemoryPools -----------------------------
(***************************************************************************)
(* PoolManager and its users.  A function that has temporary tensors       *)
(* acquires a pool through its memory group when it runs and gives it back *)
(* when it is done (MemoryGroupResourceScope); functions on different      *)
(* threads that share a manager compete for its pools.  PoolManager keeps  *)
(* the pools in two lists under a mutex and counts the free ones with a    *)
(* semaphore, whose own mutex and condition variable are modelled too.     *)
(***************************************************************************)
EXTENDS Integers, Sequences, SequencesExt

CONSTANTS
  Threads,   \* each runs a function, with a memory group of its own
  NoThread,
  NumPools,  \* populate's num_pools
  Runs       \* of each function (a bound)

ASSUME PoolsAssumption ==
  NumPools \in Nat \ {0} /\ Runs \in Nat /\ NoThread \notin Threads /\ IsFiniteSet(Threads)

Pools == 1 .. NumPools
nullptr == 0

VARIABLES
  free_pools, occupied_pools,
  mtx,        \* holder of PoolManager::_mtx
  value,      \* Semaphore::_value; its mutex is held within one action
  pc, runs,
  pool,       \* MemoryGroup::_pool of each thread's function
  region      \* the pool that the group's tensors have their memory in

vars == <<free_pools, occupied_pools, mtx, value, pc, runs, pool, region>>


\* populate registers every pool at the front and makes a semaphore anew.
RegisteredPools == [i \in Pools |-> i]
Init ==
  /\ free_pools = RegisteredPools /\ occupied_pools = <<>>
  /\ mtx = NoThread
  /\ value = Len(RegisteredPools)
  /\ pc = [t \in Threads |-> "idle"] /\ runs = [t \in Threads |-> 0]
  /\ pool = [t \in Threads |-> nullptr]
  /\ region = [t \in Threads |-> nullptr]

Goto(t, from, to) == pc[t] = from /\ pc' = [pc EXCEPT ![t] = to]

-----------------------------------------------------------------------------
(* MemoryGroup::acquire and PoolManager::lock_pool.                        *)

\* Semaphore::wait from its first evaluation of the condition, or the next.
SemWait(t) ==
  /\ \/ pc[t] = "idle" /\ runs[t] < Runs
     \/ pc[t] = "woken"
  /\ \/ value > 0 /\ value' = value - 1 /\ pc' = [pc EXCEPT ![t] = "signalled"]
     \/ value = 0 /\ UNCHANGED value /\ pc' = [pc EXCEPT ![t] = "asleep"]
  /\ UNCHANGED <<free_pools, occupied_pools, mtx, runs, pool, region>>

\* A condition variable may wake a thread that nobody notified.
Spurious(t) ==
  /\ Goto(t, "asleep", "woken")
  /\ UNCHANGED <<free_pools, occupied_pools, mtx, value, runs, pool, region>>

\* a mutant: the pool stays in the list of free ones
LockPoolKept(t) ==
  /\ Goto(t, "signalled", "locked")
  /\ mtx = NoThread
  /\ free_pools # <<>>
  /\ occupied_pools' = <<Head(free_pools)>> \o occupied_pools
  /\ pool' = [pool EXCEPT ![t] = Head(free_pools)]
  /\ UNCHANGED <<free_pools, mtx, value, runs, region>>

\* The rest of lock_pool, under the mutex.
LockPool(t) ==
  /\ Goto(t, "signalled", "locked")
  /\ mtx = NoThread
  /\ free_pools # <<>>
  /\ occupied_pools' = <<Head(free_pools)>> \o occupied_pools
  /\ free_pools' = Tail(free_pools)
  /\ pool' = [pool EXCEPT ![t] = Head(free_pools)]
  /\ UNCHANGED <<mtx, value, runs, region>>

\* The pool's acquire gives the tensors of the group their memory; then the
\* function runs.
SetRegions(t) ==
  /\ Goto(t, "locked", "running")
  /\ region' = [region EXCEPT ![t] = pool[t]]
  /\ UNCHANGED <<free_pools, occupied_pools, mtx, value, runs, pool>>

-----------------------------------------------------------------------------
(* MemoryGroup::release and PoolManager::unlock_pool.                      *)

ClearRegions(t) ==
  /\ Goto(t, "running", "unlock")
  /\ region' = [region EXCEPT ![t] = nullptr]
  /\ UNCHANGED <<free_pools, occupied_pools, mtx, value, runs, pool>>

\* The pool changes lists and the semaphore is counted up.  Only the mutex
\* of the semaphore is given up before the notification.
UnlockPool(t) ==
  /\ Goto(t, "unlock", "notify")
  /\ mtx = NoThread /\ mtx' = t
  /\ \E it \in DOMAIN occupied_pools :
       /\ occupied_pools[it] = pool[t]
       /\ occupied_pools' = RemoveAt(occupied_pools, it)
  /\ free_pools' = <<pool[t]>> \o free_pools
  /\ value' = value + 1
  /\ UNCHANGED <<runs, pool, region>>

\* a mutant: nobody is notified
NotifyNobody(t) ==
  /\ Goto(t, "notify", "idle")
  /\ mtx' = NoThread
  /\ pool' = [pool EXCEPT ![t] = nullptr]
  /\ runs' = [runs EXCEPT ![t] = @ + 1]
  /\ UNCHANGED <<free_pools, occupied_pools, value, region>>

\* notify_one, the end of unlock_pool, and _pool = nullptr.
Notify(t) ==
  LET Asleep == {u \in Threads : pc[u] = "asleep"} IN
  /\ pc[t] = "notify"
  /\ mtx' = NoThread
  /\ pool' = [pool EXCEPT ![t] = nullptr]
  /\ runs' = [runs EXCEPT ![t] = @ + 1]
  /\ \/ Asleep = {} /\ pc' = [pc EXCEPT ![t] = "idle"]
     \/ \E u \in Asleep : pc' = [pc EXCEPT ![t] = "idle", ![u] = "woken"]
  /\ UNCHANGED <<free_pools, occupied_pools, value, region>>

-----------------------------------------------------------------------------
Step(t) == \/ SemWait(t) \/ LockPool(t) \/ SetRegions(t)
           \/ ClearRegions(t) \/ UnlockPool(t) \/ Notify(t)

Finished == \A t \in Threads : pc[t] = "idle" /\ runs[t] = Runs

Next == \/ \E t \in Threads : Step(t) \/ Spurious(t)
        \/ Finished /\ UNCHANGED vars

\* Every thread is scheduled again and again; nothing is promised about
\* which one gets the semaphore, the mutex or the notification.
Spec == Init /\ [][Next]_vars /\ \A t \in Threads : WF_vars(Step(t))

-----------------------------------------------------------------------------
(* Properties                                                              *)

HeldOnce ==
  /\ \A t, u \in Threads : t # u /\ pool[t] = pool[u] /\ pool[t] # nullptr
       => pc[t] = "notify" \/ pc[u] = "notify"
  /\ \A t, u \in Threads : t # u /\ region[t] = region[u] => region[t] = nullptr
  /\ \A t \in Threads : pc[t] \in {"running", "unlock"} => pool[t] \in Range(occupied_pools)

LetThrough == value + Cardinality({t \in Threads : pc[t] = "signalled"}) = Len(free_pools)

\* Two functions never hold one pool, so none finds its temporary tensors
\* overwritten by another; a pool that is held is among the occupied ones; and
\* a thread that the semaphore has let through finds a free pool, though
\* semaphore and lists are under different mutexes (both are assertions of
\* PoolManager).
PoolExclusive == HeldOnce /\ LetThrough

\* No function sleeps for ever while pools are free: every run of every
\* function comes to its end.
AllRunsEnd == <>[]Finished
=============================================================================
