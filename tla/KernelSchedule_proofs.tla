------------------------ MODULE KernelSchedule_proofs ------------------------
(***************************************************************************)
(* The parts that a window is split into make it up, for any window and    *)
(* any number of parts; so scheduling a kernel runs each of its iterations *)
(* exactly once, for any kernels, callers, threads and resizes.            *)
(***************************************************************************)
EXTENDS KernelSchedule, CppScheduler_proofs, WellFoundedInduction

-----------------------------------------------------------------------------
(* Arithmetic that the provers need in small steps.                        *)

LEMMA ScaledOrder == ASSUME NEW a \in Int, NEW b \in Int, NEW s \in Nat \ {0}
                     PROVE  /\ a <= b <=> a * s <= b * s
                            /\ a < b <=> a * s < b * s
<1>1. a <= b => a * s <= b * s
  <2> SUFFICES ASSUME a <= b PROVE a * s <= b * s
    OBVIOUS
  <2>1. (b - a) * s >= 0
    BY SMT
  <2>2. (b - a) * s = b * s - a * s
    BY SMT
  <2> QED
    BY <2>1, <2>2
<1>2. b < a => b * s < a * s
  <2> SUFFICES ASSUME b < a PROVE b * s < a * s
    OBVIOUS
  <2>1. (a - b) * s > 0
    BY SMT
  <2>2. (a - b) * s = a * s - b * s
    BY SMT
  <2> QED
    BY <2>1, <2>2
<1>3. a < b => a * s < b * s
  <2> SUFFICES ASSUME a < b PROVE a * s < b * s
    OBVIOUS
  <2>1. (b - a) * s > 0
    BY SMT
  <2>2. (b - a) * s = b * s - a * s
    BY SMT
  <2> QED
    BY <2>1, <2>2
<1>4. b <= a => b * s <= a * s
  <2> SUFFICES ASSUME b <= a PROVE b * s <= a * s
    OBVIOUS
  <2>1. (a - b) * s >= 0
    BY SMT
  <2>2. (a - b) * s = a * s - b * s
    BY SMT
  <2> QED
    BY <2>1, <2>2
<1>5. a * s \in Int /\ b * s \in Int
  OBVIOUS
<1> QED
  BY <1>1, <1>2, <1>3, <1>4, <1>5

\* Quotient and remainder.
LEMMA Division == ASSUME NEW n \in Nat, NEW m \in Nat \ {0}
                  PROVE  /\ n \div m \in Nat /\ n % m \in 0 .. m - 1
                         /\ n = (n \div m) * m + (n % m)
  BY SMT

-----------------------------------------------------------------------------
(* Parts of n iterations, by number.                                       *)

InPart(n, id, total, k) ==
  FirstOf(n, id, total) <= k /\ k < FirstOf(n, id, total) + SizeOf(n, id, total)

\* Where a part ends no later part has begun.
LEMMA PartsInOrder ==
  ASSUME NEW n \in Nat, NEW total \in Nat \ {0},
         NEW a \in 0 .. total - 1, NEW b \in 0 .. total - 1, a < b
  PROVE  FirstOf(n, a, total) + SizeOf(n, a, total) <= FirstOf(n, b, total)
<1> DEFINE w == n \div total
           r == n % total
<1>1. w \in Nat /\ r \in 0 .. total - 1
  BY Division
<1>2. w * (a + 1) <= w * b
  <2>1. w * (b - (a + 1)) >= 0
    BY <1>1, SMT
  <2>2. w * (b - (a + 1)) = w * b - w * (a + 1)
    BY <1>1, SMT
  <2> QED
    BY <1>1, <2>1, <2>2
<1>3. w * (a + 1) = w * a + w
  BY <1>1, SMT
<1>4. w * a \in Int /\ w * b \in Int
  BY <1>1
<1> HIDE DEF w, r
<1>5. FirstOf(n, a, total) = w * a + Least(a, r) /\ FirstOf(n, b, total) = w * b + Least(b, r)
  BY DEF FirstOf, w, r
<1>6. SizeOf(n, a, total) = w + (IF a < r THEN 1 ELSE 0)
  BY DEF SizeOf, w, r
<1>7. Least(a, r) + (IF a < r THEN 1 ELSE 0) <= Least(b, r)
  BY <1>1 DEF Least
<1> QED
  BY <1>1, <1>2, <1>3, <1>4, <1>5, <1>6, <1>7 DEF Least

\* Each iteration is in one.
LEMMA PartsCover ==
  ASSUME NEW n \in Nat, NEW total \in Nat \ {0}, NEW k \in 0 .. n - 1
  PROVE  \E id \in 0 .. total - 1 : InPart(n, id, total, k)
<1> DEFINE w == n \div total
           r == n % total
<1>1. w \in Nat /\ r \in 0 .. total - 1 /\ n = w * total + r
  BY Division
<1> HIDE DEF w, r
<1>2. \A id \in 0 .. total - 1 :
        InPart(n, id, total, k) <=>
          /\ w * id + Least(id, r) <= k
          /\ k < w * id + Least(id, r) + w + (IF id < r THEN 1 ELSE 0)
  BY <1>1 DEF InPart, FirstOf, SizeOf, Least, w, r
<1>3. CASE k < (w + 1) * r
  <2> DEFINE id == k \div (w + 1)
             e == k % (w + 1)
  <2>1. id \in Nat /\ e \in 0 .. w /\ k = id * (w + 1) + e
    <3>1. w + 1 \in Nat \ {0} /\ k \in Nat
      BY <1>1
    <3>2. id \in Nat /\ e \in 0 .. (w + 1) - 1 /\ k = id * (w + 1) + e
      BY <3>1, Division
    <3> QED
      BY <1>1, <3>2
  <2> HIDE DEF id, e
  <2>2. id < r
    <3> SUFFICES ASSUME r <= id PROVE FALSE
      BY <1>1, <2>1
    <3>1. r * (w + 1) <= id * (w + 1)
      BY <1>1, <2>1, ScaledOrder
    <3>2. r * (w + 1) = (w + 1) * r
      BY <1>1, SMT
    <3> QED
      BY <1>1, <1>3, <2>1, <3>1, <3>2
  <2>3. id * (w + 1) = w * id + id /\ w * id \in Int
    BY <1>1, <2>1, SMT
  <2>4. w * id + Least(id, r) <= k /\ k < w * id + Least(id, r) + w + 1
    BY <1>1, <2>1, <2>2, <2>3 DEF Least
  <2> QED
    BY <1>1, <1>2, <2>1, <2>2, <2>4
<1>4. CASE ~(k < (w + 1) * r)
  <2>1. (w + 1) * r = w * r + r /\ w * r \in Nat /\ w * total \in Nat
    BY <1>1, SMT
  <2>2. w # 0
    <3> SUFFICES ASSUME w = 0 PROVE FALSE
      OBVIOUS
    <3>1. w * total = 0 /\ w * r = 0
      BY <1>1
    <3> QED
      BY <1>1, <1>4, <2>1, <3>1
  <2> DEFINE j == k - (w + 1) * r
             q == j \div w
             e == j % w
  <2>3. j \in Nat
    BY <1>1, <1>4, <2>1
  <2>4. q \in Nat /\ e \in 0 .. w - 1 /\ j = q * w + e
    BY <1>1, <2>2, <2>3, Division
  <2>5. k = w * r + r + j
    BY <1>1, <2>1
  <2> HIDE DEF j, q, e
  <2>6. w * (r + q) = w * r + q * w /\ w * (r + q) \in Int /\ q * w \in Int
    BY <1>1, <2>4, SMT
  <2>7. r + q < total
    <3> SUFFICES ASSUME total <= r + q PROVE FALSE
      BY <1>1, <2>4
    <3>1. total * w <= (r + q) * w
      BY <1>1, <2>2, <2>4, ScaledOrder
    <3>2. total * w = w * total /\ (r + q) * w = w * (r + q)
      BY <1>1, <2>4, SMT
    <3> QED
      BY <1>1, <2>1, <2>4, <2>5, <2>6, <3>1, <3>2
  <2>8. Least(r + q, r) = r /\ ~(r + q < r)
    BY <1>1, <2>4 DEF Least
  <2>9. w * (r + q) + r <= k /\ k < w * (r + q) + r + w
    BY <1>1, <2>1, <2>4, <2>5, <2>6
  <2> QED
    BY <1>1, <1>2, <2>4, <2>7, <2>8, <2>9
<1> QED
  BY <1>3, <1>4

\* And in one only.
LEMMA Partition ==
  ASSUME NEW n \in Nat, NEW total \in Nat \ {0}, NEW k \in 0 .. n - 1
  PROVE  \E id \in 0 .. total - 1 :
           /\ InPart(n, id, total, k)
           /\ \A other \in (0 .. total - 1) \ {id} : ~InPart(n, other, total, k)
<1>1. PICK id \in 0 .. total - 1 : InPart(n, id, total, k)
  BY PartsCover
<1>2. ASSUME NEW p \in 0 .. total - 1 PROVE FirstOf(n, p, total) \in Int /\ SizeOf(n, p, total) \in Int
  <2>1. (n \div total) * p \in Int /\ n \div total \in Int /\ n % total \in Int
    BY Division
  <2> QED
    BY <2>1 DEF FirstOf, SizeOf, Least
<1>3. ASSUME NEW other \in (0 .. total - 1) \ {id}, InPart(n, other, total, k) PROVE FALSE
  <2>1. CASE other < id
    BY <1>1, <1>2, <1>3, <2>1, PartsInOrder DEF InPart
  <2>2. CASE id < other
    BY <1>1, <1>2, <1>3, <2>2, PartsInOrder DEF InPart
  <2> QED
    BY <2>1, <2>2
<1> QED
  BY <1>1, <1>3

-----------------------------------------------------------------------------
(* Parts of a dimension.                                                   *)

LEMMA DimensionSize ==
  ASSUME NEW d \in Dimension
  PROVE  /\ NumIterations(d) \in Nat
         /\ d.end = d.start + NumIterations(d) * d.step
         /\ d.start \in Int /\ d.end \in Int /\ d.step \in Nat \ {0}
<1>1. d.start \in Int /\ d.end \in Int /\ d.step \in Nat \ {0}
      /\ d.start <= d.end /\ (d.end - d.start) % d.step = 0
  BY DEF Dimension
<1> DEFINE length == d.end - d.start
<1>2. length \in Nat /\ length % d.step = 0
  BY <1>1
<1>3. NumIterations(d) = length \div d.step
  BY DEF NumIterations
<1> HIDE DEF length
<1>4. length \div d.step \in Nat /\ length = (length \div d.step) * d.step + (length % d.step)
  BY <1>1, <1>2, Division
<1>5. (length \div d.step) * d.step \in Int
  BY <1>1, <1>4
<1> QED
  BY <1>1, <1>2, <1>3, <1>4, <1>5 DEF length

\* Iteration k of the window lies in part id exactly if k is one of its numbers.
LEMMA PartContains ==
  ASSUME NEW d \in Dimension, NEW total \in Nat \ {0}, NEW id \in 0 .. total - 1,
         NEW k \in 0 .. NumIterations(d) - 1
  PROVE  Contains(SplitWindow(d, id, total), At(d, k)) <=> InPart(NumIterations(d), id, total, k)
<1> DEFINE n == NumIterations(d)
           f == FirstOf(n, id, total)
           z == SizeOf(n, id, total)
<1>1. n \in Nat /\ d.end = d.start + n * d.step
      /\ d.start \in Int /\ d.end \in Int /\ d.step \in Nat \ {0}
  BY DimensionSize
<1>2. f \in Int /\ z \in Int
  <2>1. (n \div total) * id \in Int /\ n \div total \in Int /\ n % total \in Int
    BY <1>1, Division
  <2> QED
    BY <2>1 DEF FirstOf, SizeOf, Least
<1>3. SplitWindow(d, id, total) =
        [start |-> d.start + f * d.step,
         end   |-> Least(d.end, d.start + f * d.step + z * d.step), step |-> d.step]
  BY DEF SplitWindow
<1>4. k \in Int /\ k < n
  BY <1>1
<1>5. InPart(n, id, total, k) <=> f <= k /\ k < f + z
  BY DEF InPart
<1> HIDE DEF n, f, z
<1>6. (f + z) * d.step = f * d.step + z * d.step
      /\ f * d.step \in Int /\ z * d.step \in Int /\ k * d.step \in Int /\ n * d.step \in Int
  BY <1>1, <1>2, <1>4, SMT
<1>7. /\ f <= k <=> f * d.step <= k * d.step
      /\ k < f + z <=> k * d.step < (f + z) * d.step
      /\ k * d.step < n * d.step
  BY <1>1, <1>2, <1>4, ScaledOrder
<1>8. Contains(SplitWindow(d, id, total), At(d, k)) <=> f <= k /\ k < f + z
  BY <1>1, <1>3, <1>6, <1>7 DEF Contains, At, Least
<1> QED
  BY <1>5, <1>8 DEF n

-----------------------------------------------------------------------------
(* split_2d gives at least one part along each dimension.                  *)

LEMMA SmallestNat == ASSUME NEW T, T \subseteq Nat, T # {} PROVE \E x \in T : \A y \in T : x <= y
<1> DEFINE R == {ss \in Nat \X Nat : ss[1] < ss[2]}
<1>1. R = OpToRel(<, Nat)
  BY DEF OpToRel
<1>2. IsWellFoundedOn(R, Nat)
  BY <1>1, NatLessThanWellFounded
<1>3. PICK x \in T : \A y \in T : ~(<<y, x>> \in R)
  BY <1>2, WFMin
<1>4. ASSUME NEW y \in T PROVE x <= y
  <2>1. x \in Nat /\ y \in Nat /\ ~(<<y, x>> \in R)
    BY <1>3
  <2>2. <<y, x>> \in R <=> y < x
    BY <2>1
  <2> QED
    BY <2>1, <2>2
<1> QED
  BY <1>4

LEMMA RootType == ASSUME NEW a \in Nat, NEW b \in Nat PROVE RoundedRoot(a, b) \in Nat
<1> DEFINE S == {0} \cup {r \in 1 .. a + 1 : (2 * r - 1) * (2 * r - 1) * b <= 4 * a}
           T == {a + 1 - r : r \in S}
<1>1. S \subseteq 0 .. a + 1 /\ 0 \in S
  OBVIOUS
<1> HIDE DEF S
<1>2. T \subseteq Nat /\ T # {}
  BY <1>1
<1>3. PICK x \in T : \A y \in T : x <= y
  BY <1>2, SmallestNat
<1>4. PICK r \in S : x = a + 1 - r
  BY <1>3
<1>5. ASSUME NEW q \in S PROVE r >= q
  <2>1. x <= a + 1 - q
    BY <1>3
  <2> QED
    BY <1>1, <1>4, <2>1
<1>6. Max(S) \in S
  BY <1>4, <1>5 DEF Max
<1> QED
  BY <1>1, <1>6 DEF RoundedRoot, S

LEMMA GridPositive ==
  ASSUME NEW max_threads \in Nat \ {0}, NEW m \in Nat \ {0}, NEW n \in Nat \ {0}
  PROVE  Split2D(max_threads, m, n) \in (Nat \ {0}) \X (Nat \ {0})
<1> DEFINE adjusted == RoundedRoot(max_threads * n, m)
           divides(f) == max_threads % f = 0
           found == {i \in 0 .. adjusted - 1 : divides(adjusted - i) \/ divides(adjusted + i)}
           i == Min(found)
           factor == IF divides(adjusted - i) THEN adjusted - i ELSE adjusted + i
<1>1. adjusted \in Nat
  <2>1. max_threads * n \in Nat
    BY SMT
  <2> QED
    BY <2>1, RootType
<1>2. CASE found # {}
  <2>1. found \subseteq Nat
    BY <1>1
  <2>2. PICK x \in found : \A y \in found : x <= y
    BY <1>2, <2>1, SmallestNat
  <2>3. i \in found
    BY <2>2 DEF Min
  <2>4. factor \in Nat \ {0} /\ divides(factor)
    <3>1. i \in 0 .. adjusted - 1 /\ (divides(adjusted - i) \/ divides(adjusted + i))
      BY <2>3
    <3> HIDE DEF i, found, adjusted
    <3> QED
      BY <1>1, <3>1
  <2> HIDE DEF factor
  <2>5. max_threads \div factor \in Nat /\ max_threads = (max_threads \div factor) * factor + (max_threads % factor)
    BY <2>4, Division
  <2>6. max_threads \div factor # 0
    <3> SUFFICES ASSUME max_threads \div factor = 0 PROVE FALSE
      OBVIOUS
    <3>1. (max_threads \div factor) * factor = 0
      BY <2>4
    <3> QED
      BY <2>4, <2>5, <3>1
  <2>7. Split2D(max_threads, m, n) = <<factor, max_threads \div factor>>
    BY <1>2 DEF Split2D, factor
  <2> QED
    BY <2>4, <2>5, <2>6, <2>7
<1>3. CASE found = {}
  BY <1>3 DEF Split2D, Least
<1> QED
  BY <1>2, <1>3

-----------------------------------------------------------------------------
(* Scheduling.                                                             *)

Places == InCall \cup {"idle", "return"} \cup Resizing

\* A kernel that has been split: the pool's call has one workload for each
\* part of the grid.
SplitSane(c) ==
  step[c] = "split" =>
    /\ kernel[c] \in Kernel
    /\ pc[c] \notin Resizing
    /\ pc[c] # "idle" => size[c] = grid[c][1] * grid[c][2]

NotSplitSane(c) == step[c] # "split" => pc[c] \in Resizing \cup {"idle"}

KernelType == /\ kernel \in [Callers -> {<<>>} \cup Kernel]
              /\ step \in [Callers -> {"none", "whole", "split"}]
              /\ grid \in [Callers -> (Nat \ {0}) \X (Nat \ {0})]
              /\ pc \in [Callers -> Places] /\ size \in [Callers -> Nat]
              /\ num_threads \in Nat \ {0}

KInv == KernelType /\ \A c \in Callers : SplitSane(c) /\ NotSplitSane(c)

\* What a caller's step in the pool does to its place.
LEMMA CallerEffect ==
  ASSUME pc \in [Callers -> Places], NEW c \in Callers,
         CallerStep(c) \/ ThrowOwn(c) \/ WakeSpuriously(c)
  PROVE  /\ size' = size /\ num_threads' = num_threads /\ pc' \in [Callers -> Places]
         /\ \A d \in Callers \ {c} : pc'[d] = pc[d]
         /\ \/ pc[c] \in InCall /\ pc'[c] \in InCall \cup {"return"}
            \/ pc[c] = "return" /\ pc'[c] = "idle"
            \/ pc[c] \in Resizing /\ pc'[c] \in Resizing \cup {"idle"}
<1> USE DEF Places, InCall, Resizing, Goto, poolVars
<1>1. CASE StartThread(c) \/ RaiseFlags(c) \/ BeginOwn(c)
  BY <1>1 DEF StartThread, RaiseFlags, Lockable, BeginOwn, callVars
<1>4. CASE NextOwn(c) \/ WaitForThread(c)
  BY <1>4 DEF NextOwn, WaitForThread, Lockable
<1>2. CASE AllWaited(c) \/ Return(c) \/ ThrowOwn(c) \/ WakeSpuriously(c)
  BY <1>2 DEF AllWaited, Return, ThrowOwn, WakeSpuriously, callVars
<1>3. CASE Destroy(c) \/ Stop(c) \/ Join(c) \/ Create(c)
  BY <1>3 DEF Destroy, Stop, Lockable, Join, Create, callVars
<1> QED
  BY <1>1, <1>2, <1>3, <1>4 DEF CallerStep

\* And a worker's: it wakes callers.
LEMMA WorkerEffect ==
  ASSUME pc \in [Callers -> Places], NEW w \in Workers,
         WorkerStep(w) \/ NextItemDangling(w) \/ ThrowItem(w) \/ WakeWorkerSpuriously(w)
  PROVE  /\ size' = size /\ num_threads' = num_threads /\ pc' \in [Callers -> Places]
         /\ \A d \in Callers : (pc'[d] = pc[d]) \/ (pc[d] = "asleep" /\ pc'[d] = "wait")
<1> USE DEF Places, InCall, Resizing, poolVars
<1>1. CASE TakeWork(w) \/ Sleep(w) \/ WakeWorkerSpuriously(w)
  BY <1>1 DEF TakeWork, Sleep, WakeWorkerSpuriously, callVars
<1>2. CASE NextItem(w) \/ NextItemDangling(w) \/ ThrowItem(w)
  BY <1>2 DEF NextItem, NextItemDangling, FetchAstray, FetchNowhere, ThrowItem,
              Complete, WakeCaller, callVars
<1> QED
  BY <1>1, <1>2 DEF WorkerStep

LEMMA KernelInitially == KernelInit => KInv
BY SchedulerAssumption
   DEF KernelInit, Init, KInv, KernelType, SplitSane, NotSplitSane, Places, Resizing

LEMMA BeginKeeps ==
  ASSUME KInv, NEW c \in Callers, NEW k \in Kernel, Free(c), NEW place \in {"whole", "split"},
         NEW parts \in (Nat \ {0}) \X (Nat \ {0}), Begin(c, k, place, parts)
  PROVE  KInv'
BY DEF KInv, KernelType, SplitSane, NotSplitSane, Free, Begin, vars, callVars, poolVars, Resizing

\* Along one dimension there are windows, too.
LEMMA WindowsPositive ==
  ASSUME num_threads \in Nat \ {0}, NEW k \in Kernel, k.split # 0,
         NumIterations(k.window[k.split]) > 0
  PROVE  NumWindows(k, NumIterations(k.window[k.split]),
                    Least(NumIterations(k.window[k.split]), num_threads)) \in Nat \ {0}
<1>1. k.window[k.split] \in Dimension /\ k.threshold \in Int
  BY DEF Kernel
<1>2. NumIterations(k.window[k.split]) \in Nat
  BY <1>1, DimensionSize
<1> QED
  BY <1>1, <1>2 DEF NumWindows, Least

LEMMA KernelInductive == ASSUME KInv, [KernelNext]_all_vars PROVE KInv'
<1>1. ASSUME NEW c \in Callers, NEW k \in Kernels, ScheduleAll(c, k) PROVE KInv'
  <2>1. k \in Kernel /\ k.split = 0
    BY <1>1, KernelAssumption DEF ScheduleAll
  <2>2. ASSUME NEW i \in 1 .. 2 PROVE NumIterations(k.window[i]) \in Nat \ {0}
    <3>1. k.window[i] \in Dimension
      BY <2>1 DEF Kernel
    <3>2. NumIterations(k.window[i]) > 0
      BY <2>1, KernelAssumption
    <3> QED
      BY <3>1, <3>2, DimensionSize
  <2>3. Split2D(num_threads, NumIterations(k.window[1]), NumIterations(k.window[2]))
          \in (Nat \ {0}) \X (Nat \ {0})
    <3>1. NumIterations(k.window[1]) \in Nat \ {0} /\ NumIterations(k.window[2]) \in Nat \ {0}
      BY <2>2
    <3>2. num_threads \in Nat \ {0}
      BY DEF KInv, KernelType
    <3> QED
      BY <3>1, <3>2, GridPositive
  <2> QED
    BY <1>1, <2>1, <2>3, BeginKeeps DEF ScheduleAll
<1>2. ASSUME NEW c \in Callers, NEW k \in Kernels, ScheduleAlong(c, k) PROVE KInv'
  <2> DEFINE n == NumIterations(k.window[k.split])
             w == NumWindows(k, n, Least(n, num_threads))
  <2>1. k \in Kernel /\ k.split # 0 /\ n > 0
    BY <1>2, KernelAssumption DEF ScheduleAlong
  <2>2. w \in Nat \ {0}
    BY <2>1, WindowsPositive DEF KInv, KernelType
  <2>3. /\ <<w, 1>> \in (Nat \ {0}) \X (Nat \ {0})
        /\ <<1, w>> \in (Nat \ {0}) \X (Nat \ {0})
        /\ <<1, 1>> \in (Nat \ {0}) \X (Nat \ {0})
    BY <2>2
  <2>4. \/ Begin(c, k, "whole", <<1, 1>>)
        \/ Begin(c, k, "split", <<w, 1>>)
        \/ Begin(c, k, "split", <<1, w>>)
    BY <1>2 DEF ScheduleAlong
  <2> QED
    <3> HIDE DEF w
    <3> QED
      BY <1>2, <2>1, <2>3, <2>4, BeginKeeps DEF ScheduleAlong
<1>3. ASSUME NEW c \in Callers, RunWhole(c) PROVE KInv'
  BY <1>3 DEF RunWhole, End, KInv, KernelType, SplitSane, NotSplitSane, vars, callVars, poolVars
<1>4. ASSUME NEW c \in Callers, RunWindows(c) PROVE KInv'
  <2> DEFINE n == grid[c][1] * grid[c][2]
  <2>1. n \in Nat
    <3>1. grid[c][1] \in Nat /\ grid[c][2] \in Nat
      BY DEF KInv, KernelType
    <3> QED
      BY <3>1
  <2>2. /\ pc[c] = "idle" /\ size' = [size EXCEPT ![c] = n]
        /\ pc' = [pc EXCEPT ![c] = IF n = 0 THEN "return" ELSE "start"]
        /\ UNCHANGED <<num_threads, kernel, step, grid>> /\ step[c] = "split"
    BY <1>4 DEF RunWindows, Lock, Goto, poolVars, kernel_vars
  <2>3. grid'[c][1] * grid'[c][2] = n
    BY <2>2
  <2> HIDE DEF n
  <2>4. KernelType'
    BY <2>1, <2>2 DEF KInv, KernelType, Places, InCall
  <2>5. ASSUME NEW d \in Callers PROVE SplitSane(d)' /\ NotSplitSane(d)'
    BY <2>2, <2>3 DEF KInv, KernelType, SplitSane, NotSplitSane, Resizing
  <2> QED
    BY <2>4, <2>5 DEF KInv
<1>5. ASSUME NEW c \in Callers, InPool(c) PROVE KInv'
  <2>1. KernelType
    BY DEF KInv
  <2>2. /\ size' = size /\ num_threads' = num_threads /\ pc' \in [Callers -> Places]
        /\ \A d \in Callers \ {c} : pc'[d] = pc[d]
        /\ \/ pc[c] \in InCall /\ pc'[c] \in InCall \cup {"return"}
           \/ pc[c] = "return" /\ pc'[c] = "idle"
           \/ pc[c] \in Resizing /\ pc'[c] \in Resizing \cup {"idle"}
    BY <1>5, <2>1, CallerEffect DEF InPool, KernelType
  <2>3. CASE pc[c] = "return"
    <3>1. /\ kernel' = [kernel EXCEPT ![c] = <<>>] /\ step' = [step EXCEPT ![c] = "none"]
          /\ grid' = [grid EXCEPT ![c] = <<1, 1>>] /\ pc'[c] = "idle"
      BY <1>5, <2>2, <2>3 DEF InPool, End, InCall, Resizing
    <3>2. KernelType'
      BY <2>1, <2>2, <3>1 DEF KernelType
    <3>3. ASSUME NEW d \in Callers PROVE SplitSane(d)' /\ NotSplitSane(d)'
      <4>1. CASE d = c
        BY <2>1, <3>1, <4>1 DEF KernelType, SplitSane, NotSplitSane, Resizing
      <4>2. CASE d # c
        BY <2>1, <2>2, <3>1, <4>2 DEF KInv, KernelType, SplitSane, NotSplitSane, Resizing
      <4> QED
        BY <4>1, <4>2
    <3> QED
      BY <3>2, <3>3 DEF KInv
  <2>4. CASE pc[c] # "return"
    BY <1>5, <2>1, <2>2, <2>4
       DEF InPool, kernel_vars, KInv, KernelType, SplitSane, NotSplitSane, InCall, Resizing
  <2> QED
    BY <2>3, <2>4
<1>6. ASSUME NEW c \in Callers, Resize(c) PROVE KInv'
  <2>1. PICK n \in 1 .. MaxThreads :
          LockToResize(c, n, 0) \/ LockToResize(c, n, Smaller(n - 1, threads))
    BY <1>6 DEF Resize
  <2>2. /\ step[c] = "none" /\ num_threads' = n /\ size' = size
        /\ pc' = [pc EXCEPT ![c] = "destroy"] /\ UNCHANGED <<kernel, step, grid>>
    BY <1>6, <2>1 DEF Resize, Free, LockToResize, Goto, kernel_vars
  <2>3. n \in Nat \ {0}
    BY SchedulerAssumption
  <2>4. KernelType'
    BY <2>2, <2>3 DEF KInv, KernelType, Places, Resizing
  <2>5. ASSUME NEW d \in Callers PROVE SplitSane(d)' /\ NotSplitSane(d)'
    BY <2>2 DEF KInv, KernelType, SplitSane, NotSplitSane, Resizing
  <2> QED
    BY <2>4, <2>5 DEF KInv
<1>7. ASSUME NEW w \in Workers, Worker(w) PROVE KInv'
  <2>1. KernelType
    BY DEF KInv
  <2>2. /\ size' = size /\ num_threads' = num_threads /\ pc' \in [Callers -> Places]
        /\ \A d \in Callers : (pc'[d] = pc[d]) \/ (pc[d] = "asleep" /\ pc'[d] = "wait")
    BY <1>7, <2>1, WorkerEffect DEF Worker, KernelType
  <2> QED
    BY <1>7, <2>1, <2>2
       DEF Worker, kernel_vars, KInv, KernelType, SplitSane, NotSplitSane, Resizing
<1>8. CASE UNCHANGED all_vars
  BY <1>8 DEF all_vars, vars, callVars, poolVars, kernel_vars, KInv, KernelType, SplitSane, NotSplitSane
<1> QED
  BY <1>1, <1>2, <1>3, <1>4, <1>5, <1>6, <1>7, <1>8 DEF KernelNext

LEMMA KernelInvariant == KernelSpec => []KInv
  BY KernelInitially, KernelInductive, PTL DEF KernelSpec

\* Every step of schedule_common is a step of the pool, or leaves it alone.
LEMMA StepsOfPool == ASSUME KInv, KernelNext PROVE [Next]_vars
<1>1. ASSUME NEW c \in Callers, NEW k \in Kernels, ScheduleAll(c, k) \/ ScheduleAlong(c, k)
      PROVE  UNCHANGED vars
  BY <1>1 DEF ScheduleAll, ScheduleAlong, Begin
<1>2. ASSUME NEW c \in Callers, RunWhole(c) PROVE UNCHANGED vars
  BY <1>2 DEF RunWhole
<1>3. ASSUME NEW c \in Callers, RunWindows(c) PROVE Next
  <2> DEFINE n == grid[c][1] * grid[c][2]
  <2>1. n \in 0 .. MaxWorkloads
    <3>1. grid[c][1] \in Nat /\ grid[c][2] \in Nat
      BY DEF KInv, KernelType
    <3>2. n \in Nat /\ n <= MaxWorkloads
      BY <1>3, <3>1 DEF RunWindows
    <3> QED
      BY <3>2, SchedulerAssumption
  <2>2. Lock(c, n)
    BY <1>3 DEF RunWindows
  <2> QED
    BY <2>1, <2>2 DEF Next, Call
<1>4. ASSUME NEW c \in Callers, InPool(c) PROVE Next
  BY <1>4 DEF InPool, Next
<1>5. ASSUME NEW c \in Callers, Resize(c) PROVE Next
  BY <1>5 DEF Resize, Next, Call
<1>6. ASSUME NEW w \in Workers, Worker(w) PROVE Next
  BY <1>6 DEF Worker, Next
<1> QED
  BY <1>1, <1>2, <1>3, <1>4, <1>5, <1>6 DEF KernelNext

\* Scheduling kernels uses the pool only as the pool's specification allows:
\* what is proved of CppScheduler holds of it (IScheduler::schedule_common
\* calls run_workloads and nothing else of the pool).
THEOREM SchedulesThroughPool == KernelSpec => Spec
<1>1. KernelInit => Init
  BY DEF KernelInit
<1>2. ASSUME KInv, [KernelNext]_all_vars PROVE [Next]_vars
  <2>1. CASE UNCHANGED all_vars
    BY <2>1 DEF all_vars
  <2> QED
    BY <1>2, <2>1, StepsOfPool
<1> QED
  BY <1>1, <1>2, KernelInvariant, PTL DEF KernelSpec, Spec

\* The element at (i, j) is in exactly one cell of the m by n grid.
InOneCell(X, Y, m, n, i, j) ==
  \E a \in 0 .. m - 1, b \in 0 .. n - 1 :
    /\ Contains(SplitWindow(X, a, m), At(X, i)) /\ Contains(SplitWindow(Y, b, n), At(Y, j))
    /\ \A p \in 0 .. m - 1, q \in 0 .. n - 1 :
         <<p, q>> # <<a, b>> =>
           ~(/\ Contains(SplitWindow(X, p, m), At(X, i))
             /\ Contains(SplitWindow(Y, q, n), At(Y, j)))

\* The iteration lies in one part of its dimension; so it is in one cell.
LEMMA OneCell ==
  ASSUME NEW X \in Dimension, NEW Y \in Dimension, NEW m \in Nat \ {0}, NEW n \in Nat \ {0},
         NEW i \in 0 .. NumIterations(X) - 1, NEW j \in 0 .. NumIterations(Y) - 1
  PROVE  InOneCell(X, Y, m, n, i, j)
<1>1. NumIterations(X) \in Nat /\ NumIterations(Y) \in Nat
  BY DimensionSize
<1>2. PICK a \in 0 .. m - 1 :
        /\ InPart(NumIterations(X), a, m, i)
        /\ \A p \in (0 .. m - 1) \ {a} : ~InPart(NumIterations(X), p, m, i)
  BY <1>1, Partition
<1>3. PICK b \in 0 .. n - 1 :
        /\ InPart(NumIterations(Y), b, n, j)
        /\ \A q \in (0 .. n - 1) \ {b} : ~InPart(NumIterations(Y), q, n, j)
  BY <1>1, Partition
<1>4. \A p \in 0 .. m - 1 :
        Contains(SplitWindow(X, p, m), At(X, i)) <=> InPart(NumIterations(X), p, m, i)
  BY PartContains
<1>5. \A q \in 0 .. n - 1 :
        Contains(SplitWindow(Y, q, n), At(Y, j)) <=> InPart(NumIterations(Y), q, n, j)
  BY PartContains
<1> QED
  BY <1>2, <1>3, <1>4, <1>5 DEF InOneCell

\* A cell's workload is one of the call's.
LEMMA CellNumber ==
  ASSUME NEW m \in Nat \ {0}, NEW n \in Nat \ {0}, NEW a \in 0 .. m - 1, NEW b \in 0 .. n - 1
  PROVE  a + b * m \in 0 .. m * n - 1
<1>1. (b + 1) * m <= n * m
  BY ScaledOrder
<1>2. (b + 1) * m = b * m + m /\ b * m \in Nat /\ n * m = m * n /\ m * n \in Nat
  BY SMT
<1> QED
  BY <1>1, <1>2

\* If no workload throws, a kernel that the pool has run has had each iteration
\* of its window run exactly once, whatever the window, the hints and the
\* number of threads, and even if the pool was resized between the splitting
\* of the window and the call (IScheduler.cpp:63, CPPScheduler.cpp:311).
THEOREM RunsEachIterationOnce == ASSUME ~MayThrow PROVE KernelSpec => []IterationsOnce
<1>1. ASSUME KInv, EachWorkloadOnce PROVE IterationsOnce
  <2> SUFFICES ASSUME NEW c \in Callers, step[c] = "split", pc[c] = "return", ~threw[c],
                      NEW i \in 0 .. NumIterations(kernel[c].window[1]) - 1,
                      NEW j \in 0 .. NumIterations(kernel[c].window[2]) - 1
               PROVE  \E p \in (0 .. grid[c][1] - 1) \X (0 .. grid[c][2] - 1) :
                        /\ Contains(Part(c, p[1], p[2])[1], At(kernel[c].window[1], i))
                        /\ Contains(Part(c, p[1], p[2])[2], At(kernel[c].window[2], j))
                        /\ runs[c][p[1] + p[2] * grid[c][1]] = 1
                        /\ \A q \in ((0 .. grid[c][1] - 1) \X (0 .. grid[c][2] - 1)) \ {p} :
                             ~(/\ Contains(Part(c, q[1], q[2])[1], At(kernel[c].window[1], i))
                               /\ Contains(Part(c, q[1], q[2])[2], At(kernel[c].window[2], j)))
    BY DEF IterationsOnce
  <2> DEFINE X == kernel[c].window[1]
             Y == kernel[c].window[2]
             m == grid[c][1]
             n == grid[c][2]
  <2>1. X \in Dimension /\ Y \in Dimension /\ m \in Nat \ {0} /\ n \in Nat \ {0}
        /\ size[c] = m * n
    BY <1>1 DEF KInv, KernelType, SplitSane, Kernel
  <2>2. \A a \in 0 .. m - 1, b \in 0 .. n - 1 :
          Part(c, a, b) = <<SplitWindow(X, a, m), SplitWindow(Y, b, n)>>
    BY DEF Part
  <2>3. ASSUME NEW a \in 0 .. m - 1, NEW b \in 0 .. n - 1 PROVE runs[c][a + b * m] = 1
    <3>1. a + b * m \in 0 .. size[c] - 1
      BY <2>1, CellNumber
    <3> QED
      BY <1>1, <3>1 DEF EachWorkloadOnce
  <2>a. i \in 0 .. NumIterations(X) - 1 /\ j \in 0 .. NumIterations(Y) - 1
    OBVIOUS
  <2> HIDE DEF X, Y, m, n
  <2>4. PICK a \in 0 .. m - 1, b \in 0 .. n - 1 :
          /\ Contains(SplitWindow(X, a, m), At(X, i)) /\ Contains(SplitWindow(Y, b, n), At(Y, j))
          /\ \A p \in 0 .. m - 1, q \in 0 .. n - 1 :
               <<p, q>> # <<a, b>> =>
                 ~(/\ Contains(SplitWindow(X, p, m), At(X, i))
                   /\ Contains(SplitWindow(Y, q, n), At(Y, j)))
    <3>1. InOneCell(X, Y, m, n, i, j)
      BY <2>1, <2>a, OneCell
    <3> QED
      BY <3>1 DEF InOneCell
  <2>5. <<a, b>> \in (0 .. m - 1) \X (0 .. n - 1)
    BY <2>4
  <2>6. /\ Contains(Part(c, a, b)[1], At(X, i)) /\ Contains(Part(c, a, b)[2], At(Y, j))
        /\ runs[c][a + b * m] = 1
    BY <2>2, <2>3, <2>4
  <2>7. ASSUME NEW q \in ((0 .. m - 1) \X (0 .. n - 1)) \ {<<a, b>>}
        PROVE  ~(/\ Contains(Part(c, q[1], q[2])[1], At(X, i))
                 /\ Contains(Part(c, q[1], q[2])[2], At(Y, j)))
    <3>1. q = <<q[1], q[2]>> /\ q[1] \in 0 .. m - 1 /\ q[2] \in 0 .. n - 1
      BY <2>7
    <3> QED
      BY <2>2, <2>4, <2>7, <3>1
  <2> QED
    BY <2>5, <2>6, <2>7 DEF X, Y, m, n
<1> QED
  BY <1>1, KernelInvariant, SchedulesThroughPool, RunsEachWorkloadOnce, PTL
=============================================================================
