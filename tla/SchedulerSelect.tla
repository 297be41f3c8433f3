--------------------------- MODULE SchedulerSelect ---------------------------
(***************************************************************************)
(* Scheduler::get(): every kernel of every stage asks it for the pool to   *)
(* run on.  It answers CPP, the pool bound to the little cores, or CPP2,   *)
(* the one bound to the big cores, after the core the caller is on; but it *)
(* keeps its answer in the static _scheduler_type, which it compares,      *)
(* writes and reads again with no lock.                                    *)
(***************************************************************************)
CONSTANTS
  Threads,  \* that run kernels; each stage pins itself to one core
  Big       \* those on a core from Little_cores up: the B and the G stages

ASSUME SelectAssumption == Big \subseteq Threads

VARIABLES
  scheduler_type,  \* _scheduler_type
  pc,              \* of each thread: place in get()
  chosen,          \* the pool its last get() returned, at first the right one
  overlapped       \* has another thread been inside get() during its call

vars == <<scheduler_type, pc, chosen, overlapped>>

BuiltWithoutCpp == "ST"                                   \* a mutant
InitialType == "CPP"

Init ==
  /\ scheduler_type = InitialType
  /\ pc = [th \in Threads |-> "kernel"]
  /\ chosen = [th \in Threads |-> IF th \in Big THEN "CPP2" ELSE "CPP"]
  /\ overlapped = [th \in Threads |-> FALSE]

Selecting(th) == pc[th] # "kernel"
Goto(th, place) == pc' = [pc EXCEPT ![th] = place]

Enter(th) ==
  /\ pc[th] = "kernel"
  /\ Goto(th, "compare big")
  /\ overlapped' = [x \in Threads |->
       IF x = th THEN \E y \in Threads \ {th} : Selecting(y)
                 ELSE Selecting(x) \/ overlapped[x]]
  /\ UNCHANGED <<scheduler_type, chosen>>

\* sched_getcpu() > Little_cores - 1, and sched_getcpu() < Little_cores.
OnBig(th) == th \in Big
BelowLast(th) == FALSE                                    \* a mutant
OnLittle(th) == th \notin Big

CompareBig(th) ==
  /\ pc[th] = "compare big"
  /\ Goto(th, IF OnBig(th) /\ scheduler_type = "CPP" THEN "write big"
                                                     ELSE "compare little")
  /\ UNCHANGED <<scheduler_type, chosen, overlapped>>

WriteBig(th) ==
  /\ pc[th] = "write big"
  /\ scheduler_type' = "CPP2"
  /\ Goto(th, "compare little")
  /\ UNCHANGED <<chosen, overlapped>>

CompareLittle(th) ==
  /\ pc[th] = "compare little"
  /\ Goto(th, IF OnLittle(th) /\ scheduler_type = "CPP2" THEN "write little"
                                                         ELSE "find")
  /\ UNCHANGED <<scheduler_type, chosen, overlapped>>

WriteLittle(th) ==
  /\ pc[th] = "write little"
  /\ scheduler_type' = "CPP"
  /\ Goto(th, "find")
  /\ UNCHANGED <<chosen, overlapped>>

\* No call lies between the second comparison and find: on a little core the
\* build may look up the value it has just compared or written.
Seen(th) == {scheduler_type} \cup (IF OnLittle(th) THEN {"CPP"} ELSE {})

Find(th) ==
  /\ pc[th] = "find"
  /\ \E s \in Seen(th) : chosen' = [chosen EXCEPT ![th] = s]
  /\ Goto(th, "kernel")
  /\ UNCHANGED <<scheduler_type, overlapped>>

Get(th) ==
  \/ Enter(th) \/ CompareBig(th) \/ WriteBig(th) \/ CompareLittle(th)
  \/ WriteLittle(th) \/ Find(th)

Next == \E th \in Threads : Get(th)

Spec == Init /\ [][Next]_vars

-----------------------------------------------------------------------------
Own(th) == IF th \in Big THEN "CPP2" ELSE "CPP"

\* get() answers one of the two CPPScheduler pools, never another scheduler.
TypeOK ==
  /\ scheduler_type \in {"CPP", "CPP2"}
  /\ pc \in [Threads -> {"kernel", "compare big", "write big", "compare little",
                         "write little", "find"}]
  /\ chosen \in [Threads -> {"CPP", "CPP2"}]
  /\ overlapped \in [Threads -> BOOLEAN]

\* A call that no other thread overlaps answers the pool of the caller's own
\* cores, whatever the calls before it have left in _scheduler_type.
AlonePicksOwn ==
  \A th \in Threads : ~Selecting(th) /\ ~overlapped[th] => chosen[th] = Own(th)

\* Every stage runs its kernels on the cluster it was ordered onto.
KernelsOnOwnCluster ==
  \A th \in Threads : ~Selecting(th) => chosen[th] = Own(th)
=============================================================================
