----------------------------- MODULE KernelWindow -----------------------------
(***************************************************************************)
(* The window of a kernel and its parts (arm_compute/core/Window.inl,      *)
(* SchedulerUtils.cpp).  A dimension goes from start to end by steps that  *)
(* divide it, as Window::validate demands.                                 *)
(***************************************************************************)
EXTENDS Integers, FiniteSetsExt

Least(m, n) == IF m < n THEN m ELSE n

Dimension == {d \in [start : Int, end : Int, step : Nat \ {0}] :
                d.start <= d.end /\ (d.end - d.start) % d.step = 0}

NumIterations(d) == (d.end - d.start) \div d.step

\* a mutant: the parts after those that take the remainder begin too early
FirstOfNoRemainder(num_it, id, total) ==
  (num_it \div total) * id + (IF id < num_it % total THEN id ELSE 0)

\* The first iteration of part id: the first parts take the remainder.
FirstOf(num_it, id, total) ==
  (num_it \div total) * id + Least(id, num_it % total)

SizeOf(num_it, id, total) ==
  (num_it \div total) + (IF id < num_it % total THEN 1 ELSE 0)

\* split_window along this dimension.
SplitWindow(d, id, total) ==
  LET first == d.start + FirstOf(NumIterations(d), id, total) * d.step
      last == first + SizeOf(NumIterations(d), id, total) * d.step
  IN  [start |-> first, end |-> Least(d.end, last), step |-> d.step]

\* Where the iterations of a dimension are.
At(d, k) == d.start + k * d.step
Contains(d, x) == d.start <= x /\ x < d.end

-----------------------------------------------------------------------------
\* std::round(std::sqrt(a / b)): r is not above it if r - 1/2 is at most the root.
RoundedRoot(a, b) ==
  Max({0} \cup {r \in 1 .. a + 1 : (2 * r - 1) * (2 * r - 1) * b <= 4 * a})

\* split_2d: m_threads and n_threads.  Their product is max_threads if a factor
\* of it is found near the root; the one below is tried first.
Split2D(max_threads, m, n) ==
  LET adjusted == RoundedRoot(max_threads * n, m)
      divides(f) == max_threads % f = 0
      found == {i \in 0 .. adjusted - 1 : divides(adjusted - i) \/ divides(adjusted + i)}
      factor == IF divides(adjusted - Min(found)) THEN adjusted - Min(found)
                ELSE adjusted + Min(found)
  IN  IF found # {} THEN <<factor, max_threads \div factor>>
      ELSE IF m > n THEN <<Least(m, max_threads), 1>>
      ELSE <<1, Least(n, max_threads)>>
=============================================================================
