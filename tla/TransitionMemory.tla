-------------------------- MODULE TransitionMemory --------------------------
(***************************************************************************)
(* The tensors between the tasks of one graph and the memory they share.   *)
(* finalize_graph computes the lifetime of every transition tensor from    *)
(* the order of the tasks (CrossLayerMemoryManagerHelpers.cpp) and feeds   *)
(* it to a lifetime manager, then creates the pool; execute_graph runs the *)
(* tasks, in that order, again and again on that memory.                   *)
(*                                                                         *)
(* Each context has two lifetime managers: this is the cross-layer one.    *)
(* The other, intra-layer one serves the temporary tensors of functions,   *)
(* each in its own group, which are managed and allocated while functions  *)
(* are configured, one inside another, in an order of their own.  That     *)
(* manager's behaviours are those in which pc is "functions".              *)
(*                                                                         *)
(* The tensors at the input and output nodes, which the hand-off accessors *)
(* of a pipeline stage read and write, are not transition tensors.         *)
(***************************************************************************)
EXTENDS MemoryLifetime, Workload

CONSTANTS
  cross_group,  \* MemoryManagerContext::cross_group
  Workloads,    \* sequences of tasks, each with its input and output handles
  Temporaries   \* the objects that functions manage (a bound)

\* finalize_graph asserts that there is a task.
ASSUME WorkloadAssumption ==
  /\ cross_group \in Groups /\ Temporaries \subseteq Objects
  /\ \A w \in Workloads : /\ w \in Seq([ins : Seq(Objects), outs : Seq(Objects)])
                          /\ w # <<>> /\ WellFormed(w)

VARIABLES
  workload,
  pc,          \* "configure", "run" or, the outputs of task t written, "ran";
               \* "functions" for the intra-layer manager
  t, place,    \* task, and the place in its handles (configure)
  in_flight,   \* tensors_in_flight: how many reads are still to come
  blob_memory, \* for each blob, whose contents it has
  memory       \* for each byte of an offset pool, whose contents it has

run_vars == <<blob_memory, memory>>
vars == <<lifetime_vars, workload, pc, t, place, in_flight, run_vars>>

None == "nothing yet"

Init ==
  /\ LifetimeInit
  /\ \/ pc = "configure" /\ workload \in Workloads
     \/ pc = "functions" /\ workload = <<>>
  /\ t = 1 /\ place = 1
  /\ in_flight = <<>>
  /\ blob_memory = <<>> /\ memory = <<>>

-----------------------------------------------------------------------------
(* configure_handle_lifetime: for each task, acquire its inputs and its    *)
(* outputs, then release its inputs.                                       *)

\* The places in handles, the inputs or all handles of each task, that hold x.
PlacesOf(x, handles) ==
  UNION {{i} \X {k \in DOMAIN handles[i] : handles[i][k] = x} : i \in DOMAIN handles}

\* a mutant: counts the tasks that write x as well
InputCountAll(x) ==
  Cardinality(PlacesOf(x, [i \in DOMAIN workload |-> workload[i].ins \o workload[i].outs]))

InputCount(x) == Cardinality(PlacesOf(x, [i \in DOMAIN workload |-> workload[i].ins]))

Acquires(handles) == [k \in DOMAIN handles |-> <<"acquire", handles[k]>>]
Releases(handles) == [k \in DOMAIN handles |-> <<"release", handles[k]>>]

\* a mutant: releases the inputs before it acquires the outputs
StepsReleaseFirst ==
  LET task == workload[t]
  IN  Acquires(task.ins) \o Releases(task.ins) \o Acquires(task.outs)

Steps ==
  LET task == workload[t]
  IN  Acquires(task.ins) \o Acquires(task.outs) \o Releases(task.ins)

\* The next step of task t is to acquire or release x.
Doing(step, x) ==
  /\ pc = "configure" /\ t <= Len(workload)
  /\ place <= Len(Steps) /\ Steps[place] = <<step, x>>
  /\ place' = place + 1
  /\ UNCHANGED <<workload, pc, t, run_vars>>

Acquire(x) ==
  /\ Doing("acquire", x)
  /\ \/ x \in DOMAIN in_flight /\ UNCHANGED <<in_flight, lifetime_vars>>
     \/ /\ x \notin DOMAIN in_flight
        /\ in_flight' = With(in_flight, x, InputCount(x))
        /\ Start(cross_group, x)

Release(x) ==
  /\ Doing("release", x)
  /\ \/ /\ in_flight[x] > 1
        /\ in_flight' = [in_flight EXCEPT ![x] = @ - 1]
        /\ UNCHANGED lifetime_vars
     \/ /\ in_flight[x] <= 1
        /\ in_flight' = Without(in_flight, x)
        /\ \E s \in Sizes, a \in Alignments : End(x, s, a)

NextTask ==
  /\ pc = "configure" /\ t <= Len(workload) /\ place > Len(Steps)
  /\ t' = t + 1 /\ place' = 1
  /\ UNCHANGED <<lifetime_vars, workload, pc, in_flight, run_vars>>

\* GraphContext::finalize: one pool, of the memory found necessary.
Populate ==
  /\ pc = "configure" /\ t > Len(workload)
  /\ blob_memory' = [k \in DOMAIN blobs |-> None]
  /\ memory' = [b \in 0 .. blob.size - 1 |-> None]
  /\ pc' = "run" /\ t' = 1 /\ place' = 1
  /\ UNCHANGED <<lifetime_vars, workload, in_flight>>

-----------------------------------------------------------------------------
(* call_all_tasks.  The mapping of the cross group tells each tensor where *)
(* it is; the task writes all of its outputs.                              *)

BlobOf(x) == blob_mappings[cross_group][x] + 1
BytesOf(x) == LET at == offset_mappings[cross_group][x]
              IN  at .. at + finalized[x].info.size - 1

ExecuteTask ==
  /\ pc = "run"
  /\ blob_memory' = [k \in DOMAIN blob_memory |->
       IF \E x \in Range(workload[t].outs) : BlobOf(x) = k
       THEN CHOOSE x \in Range(workload[t].outs) : BlobOf(x) = k
       ELSE blob_memory[k]]
  /\ memory' = [b \in DOMAIN memory |->
       IF \E x \in Range(workload[t].outs) : b \in BytesOf(x)
       THEN CHOOSE x \in Range(workload[t].outs) : b \in BytesOf(x)
       ELSE memory[b]]
  /\ pc' = "ran"
  /\ UNCHANGED <<lifetime_vars, workload, t, place, in_flight>>

\* The next task, or the first one of the next run of the graph.
Proceed ==
  /\ pc = "ran"
  /\ t' = IF t = Len(workload) THEN 1 ELSE t + 1
  /\ pc' = "run"
  /\ UNCHANGED <<lifetime_vars, workload, place, in_flight, run_vars>>

(* The intra-layer manager.                                                *)

ManageTemporary ==
  /\ pc = "functions"
  /\ \E g \in Groups, o \in Temporaries : Start(g, o)
  /\ UNCHANGED <<workload, pc, t, place, in_flight, run_vars>>

AllocateTemporary ==
  /\ pc = "functions"
  /\ \E o \in Temporaries, s \in Sizes, a \in Alignments : End(o, s, a)
  /\ UNCHANGED <<workload, pc, t, place, in_flight, run_vars>>

\* Every function is configured.
AllConfigured ==
  /\ pc = "functions" /\ Temporaries \subseteq DOMAIN finalized
  /\ UNCHANGED vars

-----------------------------------------------------------------------------
Next == \/ \E x \in Objects : Acquire(x) \/ Release(x)
        \/ NextTask \/ Populate \/ ExecuteTask \/ Proceed
        \/ ManageTemporary \/ AllocateTemporary \/ AllConfigured

Spec == Init /\ [][Next]_vars

-----------------------------------------------------------------------------
(* Properties                                                              *)

\* Types; an object is alive in the manager while its tensor is in flight,
\* and every lifetime has ended when populate asserts so.
TypeOK ==
  /\ LifetimeTypeOK
  /\ pc \in {"configure", "run", "ran", "functions"}
  /\ t \in 1 .. Len(workload) + 1
  /\ IsPartial(in_flight, Objects, Nat \ {0})
  /\ pc = "configure" => DOMAIN in_flight = Alive
  /\ pc \in {"run", "ran"} => in_flight = <<>> /\ Alive = {}

\* Whenever a task runs, before and after it has written its outputs, each
\* of its inputs still is what its producer wrote: no tensor written in
\* between has been given a place that overlaps it, with blobs or with
\* offsets.
InputsIntact ==
  pc \in {"run", "ran"} =>
    \A x \in Range(workload[t].ins) :
      /\ blob_memory[BlobOf(x)] = x
      /\ \A b \in BytesOf(x) : memory[b] = x
=============================================================================
