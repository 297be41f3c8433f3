# A verification development of the n-stage inference pipeline

The repository is the Arm Compute Library with a pipeline added to it: a neural
network is cut into sub-graphs, each runs on one processor cluster (little CPU
cores, big CPU cores, GPU) in a thread of its own, and frames travel from one
to the next. Almost all of the code is numeric kernels. What is hard to get
right, and hard to test, is the small part that makes the stages run
concurrently (the hand-off of frames, the pools of worker threads, the choice
of a pool, the code that turns `--order` into stages and links) and the part
that prepares a stage to run at all: the graph, the passes that rewrite it, and
the memory that its tensors share. This directory models that part in TLA+, checks it with TLC and proves the main
results with TLAPS.

## The system

| Component | State | Operations | Talks to |
|---|---|---|---|
| Stage planner: `do_setup`, `Attach_Layer` (`examples/graph_*_n_pipe.cpp`) | `gr_layer`, `classes`, `targets`, `graphs`, `Layer`, `start_Layer`, `common_params`, the global vectors `Transmitters`, `Receivers`, `mx` … | parse a letter, add a layer, close a stage, open the next | makes the accessors below; finalizes each `Stream` |
| Stage threads: `do_run`, `run` | per graph: the loop counter; shared: `latency`, `start` | warm-up run, n timed runs, join and report | one thread per graph, calls `execute_graph` |
| Hand-off accessors: `SenderAccessor`, `ReceiverAccessor` (`utils/GraphUtils.cpp`) | per link: mutex, condition variable, `__waiting`, `__ready`, a queue `Qs`, one `buffer_tensors` entry; the two end tensors | take a frame, wait for one, copy it; queue one, hand one over | sender's thread and receiver's thread |
| Gate: `DummyAccessor` | `start_frame`, `inout`, `inout_cv` | wait and close; open and notify | last (or cut) stage to first stage |
| Graph execution: `execute_graph`, `call_all_tasks` | the tensors of the graph | inputs, tasks, outputs | accessors, kernels, scheduler |
| `Scheduler::get` (`runtime/Scheduler.cpp`) | static `_scheduler_type`, `_schedulers` | choose the pool by the core the caller is on | every kernel of every stage |
| `CPPScheduler` (`runtime/CPP/CPPScheduler.cpp`) | `_num_threads`, `_threads`, `_run_workloads_mutex`; per `Thread`: `_workloads`, `_feeder`, `_info`, `_m`, `_cv`, two flags, an exception | run a vector of workloads; resize the pool | callers and workers |
| Lifetime managers (`ISimpleLifetimeManager`, `Blob…`, `Offset…`), `MemoryGroup` | active group, live elements, free and occupied blobs, the mapping of each group | manage, allocate; lay out when nothing is alive | functions being configured; pools |
| Transition memory (`CrossLayerMemoryManagerHelpers.cpp`) | counts and tensors in flight; the cross group | lifetimes of the tensors between tasks; run the tasks on them | lifetime manager; `execute_graph` |
| `PoolManager`, `Semaphore` | free and occupied pools, a mutex, a count | acquire and release a pool | functions that run, through their `MemoryGroup` |
| `IScheduler` (`schedule_common`), `Window` | – | split a kernel's window into workloads | `CPPScheduler`; every kernel |
| `Graph`, `INode`, `TopologicalSort` | nodes, edges, tensors, handles | add, connect, remove; depth-first order | builder, mutators, `finalize_graph` |
| Mutators, `GraphBuilder` | – | fuse activations and batch normalisation, operate in place, concatenate by sub-tensors; add layers | `Graph` |
| OMP, CL, GLES schedulers, CL tuner | – | – | not modelled (below) |

Behaviour that is hard here: threads that share tensors guarded only by flags;
a copy made after the mutex is released; condition variables shared by two
waiters; a queue of pointers to one buffer; unlocked writes to fields a worker
reads; exceptions that leave a call while workers run for it; a static read and
written by all stages; an index that must agree across four vectors filled at
different times; a graph whose nodes, edges and tensors point at each other,
rewritten by passes each of which undoes part of what the one before built. There is no persistence and no network, so no crash recovery
and no unreliable delivery. `PROJECT.json` lists each hazard at its line with
the properties that would catch it.

### What makes each component correct

- **Hand-off and gate**: no hand-off is lost or invented; the sender writes the
  receiver's tensor only while the receiver is not reading it; no stage computes
  on half of one frame and half of another; results come out in order; nobody
  sleeps for ever.
- **Stage threads**: every stage makes its n + 1 runs; the latency samples join
  (each is measured from where the one before ended, the first from stage 0's
  start) and none is wiped out.
- **Planner**: stages are the runs of equal letters; both ends of a link use the
  same index, and exactly one copies; a stage is finalized for its own cluster
  with its own layers; the user's labels reach the last layer.
- **CPPScheduler**: every workload runs exactly once before its call returns;
  two calls never overlap; the unlocked writes do not race; the pool changes
  only when it is idle; every call returns; no thread object dies before its
  thread; a call that throws costs the calls of others nothing.
- **Scheduler::get**: a stage's kernels run on the pool of its own cluster.
- **Lifetime managers**: tensors alive together never share memory, and are in
  one group; every tensor fits where it is mapped.
- **Transition memory**: no task's output overwrites a tensor still to be read.
- **Pools**: two functions never hold one pool; nobody sleeps while one is free.
- **Kernel windows**: every iteration of a kernel is in exactly one workload,
  and is run, even if the pool is resized after the window was split.
- **Graph**: the two ends of an edge, the edge and its tensor name each other.
- **Order, mutators, execution**: layers run after those they read; what a
  rewritten graph puts out is what the network as built computes, at tensors
  that still have the accessors of the outputs.

## Modules

| Module | What it is |
|---|---|
| `Pipeline` | stage threads, hand-off accessors and gate, composed |
| `Lockstep` | the abstract specification of the gated pipeline: frames enter one at a time, each after the previous result is out, and results come out once, in order |
| `StagePlanner` | from `--order` to stages, links and accessors |
| `CppScheduler` | the thread pool |
| `SchedulerSelect` | the choice between the two pools |
| `MemoryLifetime` | base class and both derived classes of the lifetime managers |
| `TransitionMemory` | extends `MemoryLifetime`: the tensors between a graph's tasks, their lifetimes, layout and use |
| `Workload` | the form of the tasks that `GraphManager` shows and `TransitionMemory` takes |
| `MemoryPools` | the pools of a manager, and the functions that compete for them |
| `KernelWindow` | the arithmetic of splitting a window |
| `KernelSchedule` | extends `CppScheduler` and `KernelWindow`: kernels scheduled on the pool |
| `Graph` | the graph and the operations that keep it in step |
| `TopologicalSort` | extends `Graph`: the order of the nodes |
| `GraphMutators` | extends `TopologicalSort`: the passes |
| `GraphManager` | extends `GraphMutators`: the life of a graph, from the builder to its runs |
| `MCPipeline`, `MCStagePlanner`, `MCCppScheduler`, `MCKernelSchedule`, `MCSchedulerSelect`, `MCTransitionMemory`, `MCGraphManager` | instances for TLC |
| `Pipeline_proofs`, `StagePlanner_proofs`, `CppScheduler_proofs`, `SchedulerSelect_proofs`, `KernelSchedule_proofs`, `TransitionMemory_proofs`, `MemoryPools_proofs`, `GraphManager_proofs` | theorems and proofs |

A definition marked `a mutant` is the form a plausible bug would give to the
definition that follows it. No specification uses it; substituted for that
definition it makes the property named in `PROJECT.json` fail, which shows that
the property depends on the code that the definition models.

### Pipeline

`pc[s]` is the place of stage `s`'s thread inside one run of its graph: input
accessor, (copy), tasks, output accessor, between two runs. The critical
section of a mutex is one action, because everything that others may read or
write in it is guarded by that mutex. What the code does *outside* the mutex
takes two steps: the receiver's copy (`BeginCopy`, `EndCopy`) and the tasks
(`BeginTasks`, `EndTasks`) first see the source, later finish, and yield `Torn`
if it has changed in between. The contents of a tensor are the number of the
frame it holds. `waiting`, `ready`, `queued`, `buffer` are the link's flags,
the length of its queue and its one buffer tensor: every queue entry points to
that same buffer, so the length is all there is to a queue.

The index of a link in the model is the number of its sending stage. In the
code it is the number of links before it; `LinksJoin` of `StagePlanner` shows
that both ends of a link and its tensors have the same one, whatever the cuts.

`start` and `latency` are written with no lock. The model keeps what a stamp
stands for: the number of frames that the stage which took it had run (0: no
stamp yet). Stage 0 stamps after its warm-up frame; the last stage adds a
sample (`Sample`) and then stamps itself (`EndRun`), two steps between which
others write. `latency` is the number of samples.

Waiting: a thread whose condition is false goes to `asleep` and a notification
moves it to `woken`, where it evaluates the condition again. Spurious wakeups
are modelled and promised by no fairness.

### StagePlanner

One action per branch of the parsing loop, one for opening the first stage, and
one for each case of `Attach_Layer` together with the layer that is added
before it: the graph goes on, it ends before another stage, before a `-`, after
a `-`, or with the order. `Transmitters` and `Receivers` hold stages rather
than tensors; `finalized` records what `finalize` is called with. Orders that
begin with `-` read `classes[-1]` and orders longer than the network leave the
last stage open; `PlannerAssumption` excludes both.

### CppScheduler

A call is `<<caller, number>>`. `Thread::start` takes two steps: the unlocked
writes of `_workloads`, `_feeder` and `_info` (one step: the three travel
together), then the flags under `_m`. A worker holds `_m` for as long as it
runs workloads, so `RaiseFlags` and `WaitForThread` wait for `state # "running"`.
A worker takes one step per workload, with the fetch from the feeder. The
feeder and the workloads live in the caller's frames: once the call is over, a
worker that still runs for it fetches from whatever is there
(`NextItemDangling`). What is there may be the feeder of the same caller's next
call: the fetch then moves that counter, and may or may not have run that call's
workload of the index it had (`FetchAstray`). Or it is something else, and the
worker stops or goes on (`FetchNowhere`); what that write then spoils in the
caller's frames is not modelled, nor are the workloads such a worker runs
counted for any call. `left_behind` is a history variable, which no guard reads:
whether a call began while a worker still had an earlier one of its caller.
`MayThrow` lets any workload throw. `set_num_threads` keeps the first threads
and `set_num_threads_with_affinity` none; both destroy `Thread`s one by one
(`Destroy`, `Stop`, `Join`) and then make the missing ones (`Create`).

### SchedulerSelect

`get()` is split at each access to `_scheduler_type`. `Seen` allows for the two
values that a compiler may look up on the little-core path, where no call
separates the comparison from the lookup. `overlapped` remembers whether some
other thread was inside `get()` during the call.

### MemoryLifetime, TransitionMemory

`Start` is `MemoryGroup::manage` with the registration of the group, `End` is
`finalize_memory`; the last `End` of a round includes the layout. A blob in the
list has the maxima of size and alignment and the objects bound to it. The list
is kept in order, because the offsets depend on it; the sort of the blob manager
is modelled by the place it gives each blob (`Rank`). `met` remembers which
objects were ever alive together, `outermost` by which group the first of them
was managed. A tensor is managed once. An `ERROR_ON` on the
caller (an object managed twice) is a guard; in `TransitionMemory`, where the
caller is modelled too, TLC's deadlock check shows that it never fires.

`TransitionMemory` goes through the handles of each task as
`configure_handle_lifetime` does, then creates the pool, then runs the tasks
again and again. The contents of a blob or a byte is the tensor last written
there. The manager's own choice is one of the two layouts; both are run side by
side. Tensors of input and output nodes are const handles, so the memory that
the hand-off accessors of `Pipeline` copy from and to is never shared.

### MemoryPools

Each thread runs a function with a memory group again and again: `acquire` (wait
for the semaphore, take the mutex and the first free pool, give the tensors
their memory), the function, `release`. The semaphore and the lists are under
different mutexes. `unlock_pool` notifies while it holds the pool manager's
mutex and after the semaphore's, so `UnlockPool` and `Notify` are two steps and
`mtx` is held between them.

### KernelWindow, KernelSchedule

`schedule_common` reads the number of threads and splits the window
(`ScheduleAll`, `ScheduleAlong`); the call of `run_workloads` (`RunWindows`)
takes the mutex later, and from there on the steps are those of `CppScheduler`.
In between another caller may resize the pool. A window has two dimensions, as
many as are ever split. The rounded square root of `split_2d` is computed in
integers.

### Graph, TopologicalSort, GraphMutators, GraphManager

A graph is one value with four sequences (nodes, edges, tensors and their
handles), because one pass makes many calls of `Graph`; the indices are the
code's, plus one. `AddNode`, `AddConnection`, `RemoveConnection`, `RemoveNode`,
`SetOutputTensor` are its operations, and the passes are folds over its nodes.
Nodes have at most one output. Floats are assumed, so that quantisation never
stands in the way of a pass.

`fuse_layer` goes through `g.nodes()` while the fusion of a batch normalisation
appends a node to that vector. If the vector is moved, the loop goes on in the
freed one. `LastVisited` lets it stop at any convolution from which on it could
find nothing, or go on to the end.

`GraphManager` adds any layers in any order (`Add…`), then takes the steps of
`finalize_graph` one by one (`Finalize` configures the tensors, then each pass,
`Sort`, `Configure`) and runs the graph for ever (`CallInputs`, `ExecuteTask`,
`CallOutputs`). What a layer computes is a term, `<<layer, inputs>>`. A tensor
holds the term last written to it, a part of a parent's memory included.
`source` remembers the graph as built, with which the outputs are compared.
The memory of tensors is not shared in this module: `TasksHaveMemory` shows that
the tasks have the form that `TransitionMemory`, where it is, assumes.

## Runs

| Run | Checks | Shows |
|---|---|---|
| `pipeline_gated` | `TypeOK`, `InOrder`, `ImplementsLockstep`, `Completes` | dummy data, gate at both ends: the pipeline is `Lockstep`, and ends |
| `pipeline_images` | `FramesConserved`, `DirectWriteExclusive`, `SenderCopiesNeverTear`, `NeverBackwards`, `LastFrameArrives`, `MeasuredFromStart`, `LatencyComplete` | images, nothing throttles stage 0: what still holds |
| `pipeline_cut` | `Completes` | a `-` between two stages, so two stages open the gate |
| `images_lost` | `EveryImageHasResult` – violated | a queued frame is overwritten in the one buffer |
| `planner` | `TypeOK`, `LinksJoin`, `OneSideCopies`, `FinalizedOnItsCluster`, `LayersInPlace`, `ResultsGoOut` | all 768 orders of five letters, with and without labels |
| `scheduler` | `TypeOK`, `EachWorkloadOnce`, `IterationsOnce`, `CallsDoNotOverlap`, `FieldsNotRaced`, `PoolStable`, `EveryCallReturns` | two callers schedule kernels on one pool and resize it; nothing throws |
| `scheduler_throws` | `AllExecuted`, `ThreadsJoined` | workloads of two callers throw: what survives; the workers one leaves behind cost the other no workload |
| `scheduler_select` | `TypeOK`, `AlonePicksOwn` | three threads in `get()` |
| `wrong_cluster` | `KernelsOnOwnCluster` – violated | two overlapping calls of `get()` |
| `memory` | `TypeOK`, `InputsIntact`, `OutermostGroupMaps`, `MeetingApart`, `MemoryServes` | tensors managed by functions in any order, by two groups; and all small graphs, whose shared memory is never overwritten too early |
| `graph` | `EndsAgree`, `LayersInOrder`, `TasksHaveMemory`, `ValuesPreserved` | every small network, rewritten for either target and run |
| `pools` | `PoolExclusive`, `AllRunsEnd` | three functions, two pools |

The two violated properties are statements of the documentation;
`PROJECT.json` quotes them under `findings`.

`Completes` depends on `--labels` not being given without `--image`. The latter
decides whether the first stage waits at the gate, the former whether the last
one opens it: both of its runs have dummies at both ends. With `--labels` alone
(`DummyInput` true, `DummyOutput` false) the last stage writes predictions and
opens nothing, and the first stage waits for ever after its warm-up frame. No
run is kept for it: the theorem `GateStaysShut` says so for any number of stages.

`MeasuredFromStart` says that a sample is measured from the stamp of the frame
before it: of stage 0 for the first sample, of the last stage for the others.
It fails if the last stage takes no stamp of its own, and if stage 0 takes its
stamp again later.

When workloads throw, `EachWorkloadOnce` fails too: a worker that the broken
call has flagged may wake after the next call has written its fields and before
that call raises the flags; it then runs its share for that call, is flagged
again, and runs it a second time. So workers of a call that threw overlap the
calls after it.

Half of it, that nothing is left out, holds only where the dangling feeder is
nobody's. Without the condition `~left_behind[c]` in `AllExecuted` TLC finds this
run: the caller's own workload throws while a worker runs another; the caller's
next call has its feeder where the first had its own, the worker's fetch
(`CPPScheduler.cpp:68`) takes the number of a workload there, and that workload
is never run, though nothing in its call has thrown ("Execute all the passed
workloads", `IScheduler.h:204`). `AllExecuted` is therefore stated of the calls that began
with no worker at an earlier call of their caller: a caller that has never seen
an exception, among others, whatever other callers have seen. It still has to
hold against workers that other callers have left behind in the pool that the
call fills, and against old exceptions, its own caller's too, that could end its
wait too soon.

### Networks that the passes do not serve

`TasksHaveMemory` and `ValuesPreserved` are stated of the networks in which
`Plain` holds, and `LayersInOrder` of those without double edges. Each condition
is there because the property fails without it:

- `NoDoubleEdges`: a layer that reads one tensor twice (`x + x`) is pushed,
  configured and run twice (`TopologicalSort.cpp:184`).
- `OwnsInputs`: a concatenation along the depth makes its inputs parts of its
  output, even if another concatenation has done so before, if an input is the
  network's (its own handle is then never allocated) or if another layer reads
  it after the output was overwritten in place
  (`DepthConcatSubTensorMutator.cpp:90`).
- `ActivationsLast`: the fusion of a convolution with a batch normalisation
  gives the new node the activation of the second and drops one that was fused
  into the first (`NodeFusionMutator.cpp:70`).

The networks of the n-stage examples, as they are written, satisfy all three. Two things they do not depend on
either: the depth-first sort may put an input or a constant after a layer that
reads it (neither has a task), and a loop of `fuse_layer` that ends early leaves
layers unfused, which changes no result.

### Bounds

- *Pipeline*: three stages (a first, a middle and a last one; a middle stage is
  both receiver and sender), one link copied by the sender and one by the
  receiver, three frames (the warm-up and two timed ones, so that a queue can
  hold two entries and stage 0 can be two frames ahead).
- *StagePlanner*: five layers. An order can then have up to five stages, two
  cuts with stages on both sides, the same cluster on both sides of a cut, and
  cuts of more than one layer.
- *KernelSchedule*: two callers with two calls each (a kernel and a resize, in
  any order, of either caller), pools of one to three threads, at most four
  workloads, and four kernels: 5 iterations split statically, 7 split
  dynamically by a threshold of 4, 3 by 4 split along both dimensions, and one
  that is not parallelisable. Neither 5 nor 7 is a multiple of the parts. A
  split in both dimensions at once (2 by 2) needs four threads; that case is left
  to the theorem.
- *CppScheduler* with exceptions: three calls in all (a broken one and two after
  it), of one caller or of two, three workloads and pools of one to three
  threads. An old exception could end a wait too soon only in a pool of three. The two
  callers are interchangeable, which is sound here: no property is about
  liveness.
- *SchedulerSelect*: two threads on the big cluster, one on the little one.
- *MemoryLifetime*: four tensors, two groups, two sizes of which one is no
  multiple of the alignment, alignment 2 or none. Four tensors give two blobs
  used twice, blobs in two rounds with the order of sizes reversed, and a group
  inside another. This is the intra-layer manager (`pc = "functions"`).
- *TransitionMemory*: every graph of four tasks with at most two inputs and one
  output, a tensor read twice by a task and operations in place included, with
  every choice of sizes; and a residual and an inception block of seven tasks,
  on five tensors.
- *GraphManager*: every network of up to five layers, outputs included, with at
  most two convolutions, two batch normalisations and one each of activation,
  addition and concatenation, whose outputs are all read, for both targets: two
  fusions in one loop, chains of fusions, in-place operations on either side of
  a branch, and a concatenation of anything.
- *MemoryPools*: three threads, two pools, two runs each, so that one thread
  waits while two hold pools and a thread may come again before the one that
  was notified wakes.

### Deadlock and fairness

`CHECK_DEADLOCK` is off where the system really may stop: a planner that is
done, callers that call no more with every worker asleep or (after resizing)
gone.
`Pipeline` has an explicit `Terminated` step instead, and `MemoryPools` a `Finished`
one, so TLC's deadlock check is on there, as it is for `GraphManager` and
`TransitionMemory`, which run for ever.

`Pipeline` assumes weak fairness of each stage's thread and of the main thread:
they are OS threads, every critical section is finite, and a thread that can
take the mutex again and again is not starved. `CppScheduler` assumes the same
of the steps of a call and of a worker, hence that workloads end; it assumes
neither that anybody calls nor that anybody is woken spuriously. `MemoryPools`
assumes weak fairness of each thread's own steps, and nothing of who gets the
semaphore, the mutex or a notification.

## Proofs

All theorems hold for every value of the constants that the modules' `ASSUME`s
allow.

*Pipeline* (`Pipeline_proofs`): `TypeCorrect`, `HandOffsConserved`,
`DirectWritesExclusive`, `NeverTorn`, `FramesNeverGoBack`, for any number of
stages and frames, any cuts, gated or not. The type invariant is strengthened
with *only a stage whose receiver copies ever copies*. `LinksInv` then ties each
link's flags, queue and frame counts to the place of the two threads: it is what
makes `FramesConserved` inductive, since a step of the receiver changes flags,
queue and count at different times. `FlowInv` adds that the frame in each
tensor never exceeds the one upstream and is not torn.

`SamplesComplete`, `SamplesJoin` and `NewestFrameArrives` are about the
uncut pipeline, gated or not. No stage is ahead of one before it
(`FramesOrdered`), so the last stage has ended no timed run before all the
others have started, and the first has stamped its start, for the only time, and
before the last takes its own (`TimesInv`): nothing else keeps the unlocked
latency and start right. `GateStaysShut` is about the gated one whose last stage
does not open the gate: `GateInv` says that stage 0 has begun the warm-up frame
or has not, and with `FramesOrdered` no stage is further. That the last frame arrives
follows from `LastFrameInv`: once the sender of a link has made its last
hand-off, the link holds the last frame or the receiver has it, and nothing
comes after it that could overwrite it, whatever was lost before.

*Refinement* (also in `Pipeline_proofs`): `RefinesLockstep` and `DeliversInOrder`,
for the gated pipeline without cuts. The invariant follows a token that is in
the open gate, with the one stage that holds a frame, or on the one link it is
on (`OneHolder`); the stages after it are one frame behind the first
(`Counts`), and whoever has the token has the frame it stands for (`Contents`).
Nothing else is running, so the unlocked copies cannot tear. Every step then
maps to `Issue` (the gate is passed), `Deliver`, or a stutter.

*CppScheduler* (`CppScheduler_proofs`): `SchedulerTypeCorrect`,
`RunsEachWorkloadOnce`, `OneCallAtATime`, `StartDoesNotRace` and
`PoolChangesBetweenCalls`, under the assumption that workloads do not throw (TLC
refutes the stronger ones otherwise); `NoThreadLeftRunning` with or without
exceptions. The invariant says that a worker that is flagged or running is one
of the team of the call that holds the mutex (`WorkerSane`), that no two threads
hold the same workload (`ItemsDistinct`), and that a workload has run once, or
is being run or still awaited and has not (`RunsCounted`). Only the last makes
`EachWorkloadOnce` inductive.

`WorkloadsExecuted` is about workloads that throw. A call may then leave workers
behind that still run for it, or that have yet to take its work, and an exception
that nobody has looked at. It speaks of calls that began with no worker at an
earlier call of their caller, and of all the workers that other callers have left.
Its invariant, `ThrowInv`, therefore says nothing of
who runs; it says what a call has handed out. Work of a call is only ever with
workers of its team (`HandedOver`); a worker that the call has started shows an
exception only if it has not taken the work yet, or if the call's own workloads
threw (`StartedOK`): `worker_thread` clears the old one first. So `Thread::wait`
can return early only for a worker outside the team, when all of the team have
been waited for (`WaitedOK`), and then whatever has not run is owed by nobody
(`ExecutedOK`). While such a call runs, every worker that has anything of its
caller has this call (`Alone`), so a worker left behind moves some other
caller's feeder, and that caller is idle.

*StagePlanner* (`StagePlanner_proofs`): `PlannerTypeCorrect`,
`LayersInTheirPlace`, `StagesJoined`, `OneCopyPerLink`, `StagesFinalized` and
`ResultsWritten`, for a network of any length and every order that
`PlannerAssumption` allows. `PlanInv` gives each vector the length and the
entries it has while a layer is attached: senders up to the stage being built,
receivers only up to the last stage that was closed (`SendersInv`,
`ReceiversInv`), which is why they match when the last stage is closed though
neither counter is compared with the other. `RunInv` relates the static
`start_Layer` and the image label to the letters already passed.

*SchedulerSelect* (`SchedulerSelect_proofs`): `SelectTypeCorrect` and
`RightWhenAlone`, for any threads and cores: a thread that nobody has overlapped
is alone in `get()`, and `_scheduler_type` is what its place there has made of it.

*KernelSchedule* (`KernelSchedule_proofs`): `RunsEachIterationOnce`, for any
windows, hints, threads and resizes, if workloads do not throw. `Partition`
says that the parts of a dimension cover each of its iterations once
(`FirstOf` of the next part is where the last one ends). A step of the composed
specification is a step of the pool or leaves it alone (`SchedulesThroughPool`),
so `RunsEachWorkloadOnce` carries over; the invariant adds that the number of
workloads of a call is the number of parts of its kernel's window, whatever the
pool has become.

*MemoryLifetime* and *TransitionMemory* (`TransitionMemory_proofs`): for any
objects, groups, sizes, alignments and workloads that the assumptions allow,
`MappedByOutermostGroup`, `AliveTogetherApart` and `PoolServes` of the lifetime
managers, `TypesAndLifetimes` and `InputsAsWritten` of the tasks of a graph on
their memory. The managers' invariant (`LifetimeInvariant`) says what every blob
was given to: each object that has ended is bound to one blob and no two that
have met to the same one (`BoundInv`, `BoundOnce`, `MetInv`); a blob is as large
as what was bound to it, so the mapping made from it fits (`FitsInv`), for
offsets by adding up the sizes and paddings of the blobs before it. The tasks'
invariant (`Invariant`) says that `in_flight` counts the reads still to come
(`FlightInv`), hence that the tensors a task needs have met (`TogetherInv`); with
`AliveTogetherApart`, what was written and will be read keeps its place
(`ContentsInv`).

*MemoryPools* (`MemoryPools_proofs`): `PoolsNeverShared`, for any finite set of
threads and any number of pools. The invariant says that a pool is once in one
of the two lists (`ListsDistinct`), that who holds a pool holds one of the
occupied ones and nobody else holds it, and that the semaphore counts the free
pools that nobody has been let through to (`LetThrough`). The last is what makes
the assertion that there is a free pool hold though the two mutexes differ.

*GraphManager* (`GraphManager_proofs`): `EndsOfEdgesAgree` and `LayersOrdered`, for
every network that the builder makes, of any size, and whatever the passes find
in it.
`EndsAgree` is not inductive: `add_connection` breaks it when the sink's input is
taken (`ConnectsFreeInputs` says exactly when), so what has to be shown is that
no pass does that. The invariant is therefore what the passes rely on of their
graph (`Sound`, shown as `GraphStaysSound`): its parts agree, every input is fed,
weights come from constants, what is read has a tensor, and the nodes have a rank
that grows along every edge. Weights that are constants are needed because the
fused node takes its inputs from both nodes, and the second must not be one of
its own inputs; the rank because a node whose consumers are moved to one of them
would feed itself. `RemovesBothEnds` says that `remove_connection` frees the
input that the next connection takes.

A pass is a fold over nodes, edges or consumers, defined by recursion over a set.
What it computes is out of the provers' reach, but not that each of its steps
leads from one graph that has the invariant to another: `ClosedFold` shows that a
fold exists whose steps stay in a set, by the smallest number for which there is
none, and the graphs it goes through form a sequence whose neighbours differ by
one step. For each pass there is a lemma about one of its steps, seen through
who feeds whom (`Feed`) instead of through the numbers of edges, and one about
the fold (`NodeFusionSound`, `InPlaceOperationSound`,
`DepthConcatSubTensorSound`).

`LayersOrdered` needs more of `Sound`: that only the nodes without inputs are the
sources dfs starts from, and, of a network built without double edges, that no
pass makes one. A fusion could: where the consumers of one node are moved to
another that they read as well. What prevents it is that the node they are moved
to had a single consumer, and that weights are read by nobody else. The steps of
dfs have an invariant of their own (`Searched`): nothing is on the stack or in the
order twice, what is on the stack has its producers visited, and a node whose
producers are all in the order is in the order or on the stack. It is not enough
to show that a node is pushed once, because sources count as visited before they
are popped, so each source that a node reads could push it. `Searched` therefore
says that the sources lie below all other nodes on the stack (`Lowest`): what the
first of them has pushed is visited before the second is popped. `Dfs`, which
takes as many steps as there are nodes and edges, then empties its stack
(`DfsEnds`, by the pigeonhole principle), and no node is missing from the order,
because one of the smallest rank would be on the stack (`AllVisited`).

Only model-checked: liveness (`Completes`, `EveryCallReturns`, `AllRunsEnd`),
which needs fairness and `ENABLED`, and of `GraphManager` `TasksHaveMemory` and
`ValuesPreserved`. The first needs an invariant not yet worked out: which accessors
and handles every mutator leaves as they are, which tensors the in-place pass lets
nodes share, and that a parent of a handle is set before the handle is used. The
second compares terms, which are data that the model builds by recursion over the
network.

## Not modelled

- The kernels and functions: what they compute is out of reach, and they have no
  protocol. They are almost all of the source; the control that this directory
  models is a few thousand lines of it.
- The other networks' `*_n_pipe.cpp` and the fixed pipelines of
  `examples/pipe-all`: the same stages, with another network written out.
- OMP, single-thread, OpenCL and OpenGL ES schedulers: not the build's choice,
  or a driver call. The OpenCL tuner: timing on a device. Of `CPPScheduler`'s
  kernels, `adjust_num_of_windows`, which only some ask for.
- Graphs: nodes of several outputs (split layers), grouped and depthwise
  convolutions (grouped ones are unrolled by the builder; depthwise ones are
  fused by the templates that fuse the others), quantisation and the synthetic
  types, several targets in one graph, `force_target_to_graph`,
  `validate_all_nodes`, `prepare`, `bfs` (only a test calls it), tensor
  descriptors.
- `release_pool`, `clear_pools` and `release_group`, which only tests call.
- Orders with a `-` or shorter than the network leave layers out of every stage;
  the help's example for `--order`, `B-L-G`, is one. `planner` shows what holds of
  the layers that are left.
- Loading of images and weights, printing, per-layer timing, the OpenCL program
  cache, `del()` after the stages have joined.
- What a worker left behind by a call that threw writes into its caller's frames
  when they hold anything but the feeder of a later call. This is why nothing but
  `ThreadsJoined` is claimed of such a caller's calls and resizes while it runs.
- The first, unsynchronised call of `Scheduler::get`, which `do_setup` makes
  alone.

Seen while reading, in code that is not modelled or in a case the assumptions
exclude: `finalize_graph` dereferences `blocking_set` before it compares it with
`NULL` (`GraphManager.cpp:132`); `split_2d` divides by the iterations along the
first dimension, which may be 0 (excluded by `KernelAssumption`), and its comment
(`SchedulerUtils.cpp:38`) has the ratio of the threads the other way round than
the code (line 49).

## Plan

Done, in this order: `Pipeline` and `Lockstep`; `CppScheduler`;
`SchedulerSelect`; `StagePlanner`; `MemoryLifetime`, `TransitionMemory`;
`Graph`, `TopologicalSort`, `GraphMutators`, `GraphManager`; `KernelWindow`,
`KernelSchedule`; `MemoryPools`; the proofs listed above.

Next, proofs: `TasksHaveMemory`, which needs `LayersOrdered` and which tensors the
in-place pass makes nodes share.

Next, modules: a composition of `SchedulerSelect` with two pools, in which
stages choose a pool and run kernels on it; split layers and grouped
convolutions, which need nodes of several outputs.
