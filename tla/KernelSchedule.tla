---------------------------- MODULE KernelSchedule ----------------------------
(***************************************************************************)
(* IScheduler::schedule_common: a kernel's window is split into workloads  *)
(* for CPPScheduler, which CppScheduler models.  How many there are depends *)
(* on num_threads(), which is read without the mutex that run_workloads    *)
(* takes later: the pool may be resized in between.                        *)
(*                                                                         *)
(* A window has two dimensions; a kernel is split along one of them        *)
(* (split is 1 or 2) or along both (split_dimensions_all, 0).              *)
(***************************************************************************)
EXTENDS CppScheduler, KernelWindow

CONSTANT Kernels   \* what callers may schedule, each with its window and hints

Kernel == [window : [1 .. 2 -> Dimension], split : 0 .. 2, parallelisable : BOOLEAN,
           strategy : {"STATIC", "DYNAMIC"}, threshold : Int]

\* split_2d divides by the iterations along the first dimension.
ASSUME KernelAssumption ==
  /\ Kernels \subseteq Kernel
  /\ \A k \in Kernels : k.split = 0 => \A i \in 1 .. 2 : NumIterations(k.window[i]) > 0

VARIABLES
  kernel,    \* of each caller: the kernel it has scheduled, if it is in schedule_common
  step,      \* "none", "whole" (it runs the kernel itself) or "split"
  grid       \* m_threads and n_threads: how many parts along each dimension

kernel_vars == <<kernel, step, grid>>
all_vars == <<vars, kernel_vars>>

KernelInit ==
  /\ Init
  /\ kernel = [c \in Callers |-> <<>>]
  /\ step = [c \in Callers |-> "none"]
  /\ grid = [c \in Callers |-> <<1, 1>>]

\* The windows along the one dimension that is split.
NumWindows(k, num_iterations, threads_used) ==
  IF k.strategy = "STATIC" THEN threads_used
  ELSE Least(num_iterations, IF k.threshold <= 0 THEN threads_used ELSE k.threshold)

Begin(c, k, place, parts) ==
  /\ kernel' = [kernel EXCEPT ![c] = k]
  /\ step' = [step EXCEPT ![c] = place]
  /\ grid' = [grid EXCEPT ![c] = parts]
  /\ UNCHANGED vars

\* The bound on calls is that of CppScheduler.
Free(c) == pc[c] = "idle" /\ step[c] = "none" /\ calls[c] < MaxCalls

ScheduleAll(c, k) ==
  /\ Free(c) /\ k.split = 0
  /\ Begin(c, k, "split",
           Split2D(num_threads, NumIterations(k.window[1]), NumIterations(k.window[2])))

\* A kernel that has nothing to do returns at once.
ScheduleAlong(c, k) ==
  LET num_iterations == NumIterations(k.window[k.split])
      threads_used == Least(num_iterations, num_threads)
      windows == NumWindows(k, num_iterations, threads_used)
  IN  /\ Free(c) /\ k.split # 0 /\ num_iterations > 0
      /\ IF ~k.parallelisable \/ threads_used = 1
         THEN Begin(c, k, "whole", <<1, 1>>)
         ELSE Begin(c, k, "split", IF k.split = 1 THEN <<windows, 1>> ELSE <<1, windows>>)

End(c) ==
  /\ kernel' = [kernel EXCEPT ![c] = <<>>]
  /\ step' = [step EXCEPT ![c] = "none"]
  /\ grid' = [grid EXCEPT ![c] = <<1, 1>>]

\* On the caller's own thread, whatever the pool does.
RunWhole(c) == step[c] = "whole" /\ End(c) /\ UNCHANGED vars

RunWindows(c) ==
  /\ step[c] = "split"
  /\ grid[c][1] * grid[c][2] <= MaxWorkloads
  /\ Lock(c, grid[c][1] * grid[c][2])
  /\ UNCHANGED kernel_vars

InPool(c) ==
  /\ CallerStep(c) \/ ThrowOwn(c) \/ WakeSpuriously(c)
  /\ IF pc[c] = "return" THEN End(c) ELSE UNCHANGED kernel_vars

Resize(c) ==
  /\ Free(c)
  /\ \E n \in 1 .. MaxThreads :
       LockToResize(c, n, 0) \/ LockToResize(c, n, Smaller(n - 1, threads))
  /\ UNCHANGED kernel_vars

Worker(w) ==
  /\ WorkerStep(w) \/ NextItemDangling(w) \/ ThrowItem(w) \/ WakeWorkerSpuriously(w)
  /\ UNCHANGED kernel_vars

KernelNext ==
  \/ \E c \in Callers :
       \/ \E k \in Kernels : ScheduleAll(c, k) \/ ScheduleAlong(c, k)
       \/ RunWhole(c) \/ RunWindows(c) \/ InPool(c) \/ Resize(c)
  \/ \E w \in Workers : Worker(w)

KernelSpec == KernelInit /\ [][KernelNext]_all_vars

\* Threads are scheduled and workloads end.
KernelFairSpec == KernelSpec /\ Fairness

-----------------------------------------------------------------------------
\* The part of the window that is workload number mi + ni * m_threads.
Part(c, mi, ni) ==
  <<SplitWindow(kernel[c].window[1], mi, grid[c][1]),
    SplitWindow(kernel[c].window[2], ni, grid[c][2])>>

\* When a kernel has been run by the pool, every iteration of its window lies
\* in the part of exactly one workload, and that has been run exactly once,
\* even if the pool was resized after the window was split.
IterationsOnce ==
  \A c \in Callers : step[c] = "split" /\ pc[c] = "return" /\ ~threw[c] =>
    LET parts == (0 .. grid[c][1] - 1) \X (0 .. grid[c][2] - 1)
        holds(p, x, y) == /\ Contains(Part(c, p[1], p[2])[1], x)
                          /\ Contains(Part(c, p[1], p[2])[2], y)
        X == kernel[c].window[1]
        Y == kernel[c].window[2]
    IN  \A i \in 0 .. NumIterations(X) - 1, j \in 0 .. NumIterations(Y) - 1 :
          \E p \in parts :
            /\ holds(p, At(X, i), At(Y, j))
            /\ runs[c][p[1] + p[2] * grid[c][1]] = 1
            /\ \A q \in parts \ {p} : ~holds(q, At(X, i), At(Y, j))
=============================================================================
