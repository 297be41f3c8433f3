--------------------------- MODULE MCKernelSchedule ---------------------------
(***************************************************************************)
(* Instances of KernelSchedule: one kernel of each way to be split.  The   *)
(* callers are not interchangeable for the temporal properties, so no      *)
(* symmetry is declared.                                                   *)
(***************************************************************************)
EXTENDS KernelSchedule

Dim(start, iterations, step_) ==
  [start |-> start, end |-> start + iterations * step_, step |-> step_]

KernelOf(x, y, split, parallelisable, strategy, threshold) ==
  [window |-> <<x, y>>, split |-> split, parallelisable |-> parallelisable,
   strategy |-> strategy, threshold |-> threshold]

SomeKernels ==
  {KernelOf(Dim(0, 1, 1), Dim(2, 5, 4), 2, TRUE, "STATIC", 0),
   KernelOf(Dim(0, 7, 2), Dim(0, 1, 1), 1, TRUE, "DYNAMIC", 4),
   KernelOf(Dim(0, 3, 1), Dim(0, 4, 1), 0, TRUE, "STATIC", 0),
   KernelOf(Dim(0, 4, 1), Dim(0, 1, 1), 1, FALSE, "STATIC", 0)}
=============================================================================
