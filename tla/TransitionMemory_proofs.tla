----------------------- MODULE TransitionMemory_proofs -----------------------
(***************************************************************************)
(* The memory of tensors that are alive together is apart, large enough,   *)
(* aligned, and mapped in one group, for any objects, groups, sizes and    *)
(* alignments and in whatever order they start and end; and so the tasks   *)
(* of a graph find their inputs as they were written, for any well-formed  *)
(* workload.                                                               *)
(***************************************************************************)
EXTENDS TransitionMemory, FiniteSetTheorems, SequenceTheorems, TLAPS

-----------------------------------------------------------------------------
(* Numbers.                                                                *)

LEMMA SmallestNat ==
  ASSUME NEW T, T \subseteq Nat, T # {} PROVE \E x \in T : \A y \in T : x <= y
<1> DEFINE R == {ss \in Nat \X Nat : ss[1] < ss[2]}
<1>1. R = OpToRel(<, Nat)
  BY DEF OpToRel
<1>2. IsWellFoundedOn(R, Nat)
  BY <1>1, NatLessThanWellFounded
<1>3. PICK x \in T : \A y \in T : ~(<<y, x>> \in R)
  BY <1>2, WFMin
<1>4. ASSUME NEW y \in T PROVE x <= y
  <2>1. x \in Nat /\ y \in Nat /\ ~(<<y, x>> \in R)
    BY <1>3
  <2>2. <<y, x>> \in R <=> y < x
    BY <2>1
  <2> QED
    BY <2>1, <2>2
<1> QED
  BY <1>4

\* What holds at 0 and is passed on by each number holds up to n.
LEMMA UpTo ==
  ASSUME NEW n \in Nat, NEW T, 0 \in T, \A m \in 0 .. n - 1 : m \in T => m + 1 \in T
  PROVE  0 .. n \subseteq T
<1> SUFFICES ASSUME (0 .. n) \ T # {} PROVE FALSE
  OBVIOUS
<1> DEFINE Rest == (0 .. n) \ T
<1>0. Rest \subseteq Nat /\ Rest # {}
  OBVIOUS
<1>1. PICK x \in Rest : \A y \in Rest : x <= y
  <2> HIDE DEF Rest
  <2> QED
    BY <1>0, SmallestNat
<1>2. x # 0 /\ x - 1 \in 0 .. n - 1 /\ x - 1 \notin Rest
  <2>1. x \in 0 .. n /\ x \notin T
    OBVIOUS
  <2>2. x # 0 /\ x - 1 \in 0 .. n - 1 /\ ~ x <= x - 1
    BY <2>1
  <2> QED
    BY <1>1, <2>2
<1>3. x - 1 \in T /\ (x - 1) + 1 = x
  BY <1>2
<1> QED
  BY <1>1, <1>2, <1>3

LEMMA Division == ASSUME NEW n \in Nat, NEW m \in Nat \ {0}
                  PROVE  /\ n \div m \in Nat /\ n % m \in 0 .. m - 1
                         /\ n = (n \div m) * m + (n % m)
  BY SMT

LEMMA Multiple == ASSUME NEW n \in Nat, NEW m \in Nat \ {0}
                  PROVE  n % m = 0 <=> \E q \in Nat : n = q * m
<1>1. n % m = 0 => \E q \in Nat : n = q * m
  <2>1. n \div m \in Nat /\ (n % m = 0 => n = (n \div m) * m)
    BY Division
  <2> QED
    BY <2>1
<1>2. ASSUME NEW q \in Nat, n = q * m PROVE n % m = 0
  <2> DEFINE d == n \div m
             r == n % m
  <2>1. d \in Nat /\ r \in 0 .. m - 1 /\ q * m = d * m + r
    BY <1>2, Division
  <2> HIDE DEF d, r
  <2>2. (q - d) * m = r
    BY <2>1, SMT
  <2>3. ~ q - d >= 1
    <3> SUFFICES ASSUME q - d >= 1 PROVE FALSE
      OBVIOUS
    <3>1. (q - d - 1) * m >= 0
      BY <2>1, SMT
    <3>2. (q - d - 1) * m = (q - d) * m - m
      BY <2>1, SMT
    <3> QED
      BY <2>1, <2>2, <3>1, <3>2
  <2>4. ~ d - q >= 1
    <3> SUFFICES ASSUME d - q >= 1 PROVE FALSE
      OBVIOUS
    <3>1. (d - q - 1) * m >= 0
      BY <2>1, SMT
    <3>2. (d - q - 1) * m = - ((q - d) * m) - m
      BY <2>1, SMT
    <3> QED
      BY <2>1, <2>2, <3>1, <3>2
  <2>5. q = d
    BY <2>1, <2>3, <2>4
  <2> QED
    BY <2>1, <2>5 DEF r
<1> QED
  BY <1>1, <1>2

LEMMA AlignedTwice ==
  ASSUME NEW n \in Nat, NEW b \in Nat \ {0}, NEW a \in Nat \ {0}, n % b = 0, b % a = 0
  PROVE  n % a = 0
<1>1. PICK q \in Nat : n = q * b
  BY Multiple
<1>2. PICK p \in Nat : b = p * a
  BY Multiple
<1>3. q * p \in Nat /\ n = (q * p) * a
  BY <1>1, <1>2, SMT
<1> QED
  BY <1>3, Multiple

\* align_offset rounds up, by less than the alignment.
LEMMA AlignOffsetFacts ==
  ASSUME NEW n \in Nat, NEW a \in Nat
  PROVE  /\ AlignOffset(n, a) \in Nat
         /\ n <= AlignOffset(n, a) /\ AlignOffset(n, a) <= n + a
         /\ Aligned(AlignOffset(n, a), a)
<1>1. CASE a = 0
  BY <1>1 DEF AlignOffset, Aligned
<1>2. CASE a # 0 /\ n % a = 0
  BY <1>2 DEF AlignOffset, Aligned
<1>3. CASE a # 0 /\ n % a # 0
  <2> DEFINE q == n \div a
  <2>1. q \in Nat /\ n % a \in 0 .. a - 1 /\ n = q * a + (n % a)
    BY <1>3, Division
  <2>2. AlignOffset(n, a) = n + (a - (n % a))
    BY <1>3 DEF AlignOffset
  <2> HIDE DEF q
  <2>3. (q + 1) * a = q * a + a
    BY <2>1, SMT
  <2>4. AlignOffset(n, a) = (q + 1) * a /\ AlignOffset(n, a) \in Nat /\ q + 1 \in Nat
    BY <2>1, <2>2, <2>3
  <2>5. AlignOffset(n, a) % a = 0
    BY <1>3, <2>4, Multiple
  <2> QED
    BY <2>1, <2>2, <2>4, <2>5 DEF Aligned
<1> QED
  BY <1>1, <1>2, <1>3

\* A set of numbers with a bound has a greatest.
LEMMA Greatest ==
  ASSUME NEW S, S \subseteq Nat, S # {}, NEW n \in Nat, \A x \in S : x <= n
  PROVE  Max(S) \in S /\ \A x \in S : x <= Max(S)
<1> DEFINE T == {n - x : x \in S}
<1>1. T \subseteq Nat /\ T # {}
  <2>1. \A x \in S : x \in Nat /\ x <= n /\ n - x \in Nat
    OBVIOUS
  <2> QED
    BY <2>1
<1>2. PICK m \in T : \A y \in T : m <= y
  BY <1>1, SmallestNat
<1>3. PICK g \in S : m = n - g
  BY <1>2
<1>4. ASSUME NEW x \in S PROVE g >= x
  <2>1. m <= n - x
    BY <1>2
  <2> QED
    BY <1>3, <2>1
<1>5. \E x \in S : \A y \in S : x >= y
  BY <1>4
<1>6. Max(S) \in S /\ \A y \in S : Max(S) >= y
  BY <1>5 DEF Max
<1> QED
  BY <1>6

LEMMA Bounded ==
  ASSUME NEW n \in Nat, NEW f \in [1 .. n -> Nat]
  PROVE  \E b \in Nat : \A i \in 1 .. n : f[i] <= b
<1> DEFINE T == {m \in Nat : m <= n => \E b \in Nat : \A i \in 1 .. m : f[i] <= b}
<1>1. 0 \in T
  OBVIOUS
<1>2. ASSUME NEW m \in 0 .. n - 1, m \in T PROVE m + 1 \in T
  <2>1. PICK b \in Nat : \A i \in 1 .. m : f[i] <= b
    BY <1>2
  <2>2. PICK c \in Nat : c >= b /\ c >= f[m + 1]
    <3>1. m + 1 \in 1 .. n /\ f[m + 1] \in Nat
      OBVIOUS
    <3>2. b + f[m + 1] \in Nat /\ b + f[m + 1] >= b /\ b + f[m + 1] >= f[m + 1]
      BY <3>1
    <3> QED
      BY <3>2
  <2>3. ASSUME NEW i \in 1 .. m + 1 PROVE f[i] <= c
    <3>1. CASE i = m + 1
      BY <2>2, <3>1
    <3>2. CASE i \in 1 .. m
      <4>1. f[i] <= b /\ f[i] \in Nat
        BY <2>1, <3>2
      <4> QED
        BY <2>2, <4>1
    <3> QED
      BY <3>1, <3>2
  <2> QED
    BY <2>3, SMTT(60)
<1>3. n \in T
  <2>1. \A m \in 0 .. n - 1 : m \in T => m + 1 \in T
    BY <1>2
  <2> HIDE DEF T
  <2>2. 0 .. n \subseteq T
    BY <1>1, <2>1, UpTo
  <2> QED
    BY <2>2
<1> QED
  BY <1>3

\* A function that each number passes on to the next exists.
LEMMA Iterated ==
  ASSUME NEW n \in Nat, NEW step \in [1 .. n -> [Nat -> Nat]]
  PROVE  \E f \in [0 .. n -> Nat] :
           f = [i \in 0 .. n |-> IF i = 0 THEN 0 ELSE step[i][f[i - 1]]]
<1> DEFINE Solves(f, m) == f[0] = 0 /\ \A i \in 1 .. m : f[i] = step[i][f[i - 1]]
           Solved(m) == \E f \in [0 .. m -> Nat] : Solves(f, m)
           T == {m \in Nat : m <= n => Solved(m)}
<1>1. Solved(0)
  <2>1. [i \in 0 .. 0 |-> 0] \in [0 .. 0 -> Nat] /\ Solves([i \in 0 .. 0 |-> 0], 0)
    OBVIOUS
  <2> QED
    BY <2>1
<1>2. ASSUME NEW m \in 0 .. n - 1, Solved(m) PROVE Solved(m + 1)
  <2>1. PICK f \in [0 .. m -> Nat] : Solves(f, m)
    BY <1>2
  <2> DEFINE g == [i \in 0 .. m + 1 |-> IF i = m + 1 THEN step[m + 1][f[m]] ELSE f[i]]
  <2>2. g \in [0 .. m + 1 -> Nat]
    <3>1. m + 1 \in 1 .. n /\ f[m] \in Nat /\ step[m + 1][f[m]] \in Nat
      OBVIOUS
    <3>2. \A i \in 0 .. m + 1 : i # m + 1 => f[i] \in Nat
      OBVIOUS
    <3> QED
      BY <3>1, <3>2
  <2>3. g[0] = 0
    BY <2>1
  <2>4. ASSUME NEW i \in 1 .. m + 1 PROVE g[i] = step[i][g[i - 1]]
    <3>1. i \in 0 .. m + 1 /\ i - 1 \in 0 .. m + 1 /\ i - 1 # m + 1
      OBVIOUS
    <3>2. CASE i = m + 1
      BY <3>1, <3>2
    <3>3. CASE i # m + 1
      <4>1. i \in 1 .. m
        BY <3>3
      <4>2. f[i] = step[i][f[i - 1]]
        BY <2>1, <4>1
      <4> QED
        BY <3>1, <3>3, <4>2
    <3> QED
      BY <3>2, <3>3
  <2> HIDE DEF g
  <2> WITNESS g \in [0 .. m + 1 -> Nat]
  <2> QED
    BY <2>3, <2>4
<1>3. Solved(n)
  <2> HIDE DEF Solved
  <2>1. 0 \in T /\ \A m \in 0 .. n - 1 : m \in T => m + 1 \in T
    BY <1>1, <1>2
  <2>2. n \in T => Solved(n)
    OBVIOUS
  <2> HIDE DEF T
  <2>3. 0 .. n \subseteq T
    BY <2>1, UpTo
  <2> QED
    BY <2>2, <2>3
<1>4. PICK f \in [0 .. n -> Nat] : Solves(f, n)
  BY <1>3
<1>5. f = [i \in 0 .. n |-> IF i = 0 THEN 0 ELSE step[i][f[i - 1]]]
  <2>1. \A i \in 0 .. n : i # 0 => i \in 1 .. n
    OBVIOUS
  <2>2. \A i \in 0 .. n : f[i] = IF i = 0 THEN 0 ELSE step[i][f[i - 1]]
    BY <1>4, <2>1
  <2> QED
    BY <1>4, <2>2
<1> QED
  BY <1>5

-----------------------------------------------------------------------------
(* What the manager makes of a list of free blobs.                         *)

LEMMA BlobType ==
  ASSUME NEW fs \in Seq(MemoryBlobs)
  PROVE  /\ Len(fs) \in Nat /\ DOMAIN fs = 1 .. Len(fs) /\ IsFiniteSet(DOMAIN fs)
         /\ \A i \in DOMAIN fs : /\ fs[i] \in MemoryBlobs /\ fs[i].info \in Infos
                                 /\ fs[i].info.size \in Nat /\ fs[i].info.alignment \in Nat
                                 /\ fs[i].bound \subseteq Objects
<1>1. Len(fs) \in Nat /\ DOMAIN fs = 1 .. Len(fs)
  OBVIOUS
<1>2. IsFiniteSet(DOMAIN fs)
  BY <1>1, FS_Interval
<1>3. ASSUME NEW i \in DOMAIN fs
      PROVE  /\ fs[i] \in MemoryBlobs /\ fs[i].info \in Infos
             /\ fs[i].info.size \in Nat /\ fs[i].info.alignment \in Nat
             /\ fs[i].bound \subseteq Objects
  <2>1. fs[i] \in MemoryBlobs
    OBVIOUS
  <2> QED
    BY <2>1 DEF MemoryBlobs, Infos
<1> QED
  BY <1>1, <1>2, <1>3

LEMMA InfoType ==
  /\ \A i \in Infos : i.size \in Nat /\ i.alignment \in Nat
  /\ Info(0, 0) \in Infos /\ Info(0, 0).size = 0 /\ Info(0, 0).alignment = 0
  /\ \A i, j \in Infos : /\ Widened(i, j) \in Infos
                         /\ i.size <= Widened(i, j).size /\ j.size <= Widened(i, j).size
                         /\ i.alignment <= Widened(i, j).alignment
                         /\ j.alignment <= Widened(i, j).alignment
                         /\ Widened(i, j).alignment \in {i.alignment, j.alignment}
  BY DEF Infos, Info, Widened, Larger

\* The sort gives each blob a place of its own, and each place a blob.
LEMMA RankFacts ==
  ASSUME NEW fs \in Seq(MemoryBlobs)
  PROVE  /\ \A i \in DOMAIN fs : Rank(fs, i) \in 0 .. Len(fs) - 1
         /\ \A i, j \in DOMAIN fs : i # j => Rank(fs, i) # Rank(fs, j)
         /\ \A r \in 0 .. Len(fs) - 1 : \E i \in DOMAIN fs : Rank(fs, i) = r
<1> DEFINE n == Len(fs)
           Before(i) == {j \in DOMAIN fs :
                           \/ fs[j].info.size > fs[i].info.size
                           \/ fs[j].info.size = fs[i].info.size /\ j < i}
<1>1. /\ n \in Nat /\ DOMAIN fs = 1 .. n /\ IsFiniteSet(DOMAIN fs)
      /\ \A i \in DOMAIN fs : fs[i].info.size \in Nat /\ i \in Nat
  BY BlobType
<1>2. \A i \in DOMAIN fs : Rank(fs, i) = Cardinality(Before(i))
  BY DEF Rank
<1> HIDE DEF n
<1>3. \A i \in DOMAIN fs : Before(i) \in SUBSET (DOMAIN fs) /\ i \notin Before(i)
  BY <1>1
<1>4. \A i, j \in DOMAIN fs : i # j => i \in Before(j) \/ j \in Before(i)
  BY <1>1
<1>5. \A i, j \in DOMAIN fs : i \in Before(j) => Before(i) \in SUBSET Before(j)
  <2> SUFFICES ASSUME NEW i \in DOMAIN fs, NEW j \in DOMAIN fs, i \in Before(j),
                      NEW k \in Before(i)
               PROVE  k \in Before(j)
    OBVIOUS
  <2>1. k \in DOMAIN fs /\ fs[i].info.size \in Nat /\ fs[j].info.size \in Nat
        /\ fs[k].info.size \in Nat /\ i \in Nat /\ j \in Nat /\ k \in Nat
    BY <1>1
  <2> QED
    BY <2>1
<1> HIDE DEF Before
<1>6. Cardinality(DOMAIN fs) = n
  <2>1. Cardinality(1 .. n) = IF 1 > n THEN 0 ELSE n - 1 + 1
    BY <1>1, FS_Interval
  <2> QED
    BY <1>1, <2>1
<1>7. ASSUME NEW i \in DOMAIN fs PROVE Rank(fs, i) \in 0 .. n - 1
  <2>1. /\ IsFiniteSet(Before(i)) /\ Cardinality(Before(i)) <= n
        /\ Cardinality(Before(i)) # n
    <3>1. DOMAIN fs # Before(i) /\ Before(i) \in SUBSET (DOMAIN fs)
      BY <1>3
    <3> QED
      BY <1>1, <1>6, <3>1, FS_Subset
  <2>2. Cardinality(Before(i)) \in Nat
    BY <2>1, FS_CardinalityType
  <2> QED
    BY <1>1, <1>2, <2>1, <2>2
<1>8. ASSUME NEW i \in DOMAIN fs, NEW j \in DOMAIN fs, i \in Before(j)
      PROVE  Rank(fs, i) # Rank(fs, j)
  <2>1. IsFiniteSet(Before(j)) /\ Before(i) \in SUBSET Before(j) /\ Before(j) # Before(i)
    <3>1. IsFiniteSet(Before(j))
      BY <1>1, <1>3, FS_Subset
    <3> QED
      BY <1>3, <1>5, <1>8, <3>1
  <2>2. Cardinality(Before(j)) # Cardinality(Before(i))
    BY <2>1, FS_Subset
  <2> QED
    BY <1>2, <2>2
<1>9. \A i, j \in DOMAIN fs : i # j => Rank(fs, i) # Rank(fs, j)
  BY <1>4, <1>8
<1>10. ASSUME NEW r \in 0 .. n - 1 PROVE \E i \in DOMAIN fs : Rank(fs, i) = r
  <2> DEFINE f == [i \in DOMAIN fs |-> Rank(fs, i)]
  <2>1. f \in Injection(DOMAIN fs, 0 .. n - 1)
    BY <1>7, <1>9 DEF Injection, IsInjective
  <2>2. IsFiniteSet(0 .. n - 1) /\ Cardinality(0 .. n - 1) = n
    BY <1>1, FS_Interval
  <2> HIDE DEF f
  <2>3. f \in Surjection(DOMAIN fs, 0 .. n - 1)
    BY <1>6, <2>1, <2>2, FS_Injection
  <2>4. \E i \in DOMAIN fs : f[i] = r
    BY <2>3 DEF Surjection
  <2> QED
    BY <2>4 DEF f
<1> QED
  BY <1>7, <1>9, <1>10 DEF n

\* The blobs only grow, and each of fs fits in the blob it is mapped to.
LEMMA UpdatedBlobsFacts ==
  ASSUME NEW fs \in Seq(MemoryBlobs), blobs \in Seq(Infos)
  PROVE  /\ UpdatedBlobs(fs) \in Seq(Infos)
         /\ \A k \in DOMAIN blobs :
              /\ k \in DOMAIN UpdatedBlobs(fs)
              /\ blobs[k].size <= UpdatedBlobs(fs)[k].size
              /\ blobs[k].alignment <= UpdatedBlobs(fs)[k].alignment
         /\ \A i \in DOMAIN fs :
              /\ Rank(fs, i) + 1 \in DOMAIN UpdatedBlobs(fs)
              /\ fs[i].info.size <= UpdatedBlobs(fs)[Rank(fs, i) + 1].size
              /\ fs[i].info.alignment <= UpdatedBlobs(fs)[Rank(fs, i) + 1].alignment
         /\ \A S : /\ 0 \in S
                   /\ \A k \in DOMAIN blobs : blobs[k].alignment \in S
                   /\ \A i \in DOMAIN fs : fs[i].info.alignment \in S
                   => \A k \in DOMAIN UpdatedBlobs(fs) : UpdatedBlobs(fs)[k].alignment \in S
<1> DEFINE n == Len(fs)
           m == Larger(Len(blobs), Len(fs))
           group_sizes == [k \in DOMAIN fs |-> fs[CHOOSE i \in DOMAIN fs : Rank(fs, i) = k - 1].info]
           new == [k \in 1 .. m |-> Widened(InfoAt(blobs, k), InfoAt(group_sizes, k))]
<1>1. UpdatedBlobs(fs) = new
  BY DEF UpdatedBlobs
<1>2. /\ n \in Nat /\ m \in Nat /\ Len(blobs) \in Nat /\ n <= m /\ Len(blobs) <= m
      /\ DOMAIN fs = 1 .. n /\ DOMAIN blobs = 1 .. Len(blobs)
  BY BlobType DEF Larger
<1>3. \A i \in DOMAIN fs : fs[i].info \in Infos
  BY BlobType
<1>4. ASSUME NEW k \in DOMAIN fs
      PROVE  \E i \in DOMAIN fs : Rank(fs, i) = k - 1 /\ group_sizes[k] = fs[i].info
  <2>1. k - 1 \in 0 .. n - 1
    BY <1>2
  <2>2. \E i \in DOMAIN fs : Rank(fs, i) = k - 1
    BY <2>1, RankFacts
  <2> QED
    BY <2>2
<1>5. ASSUME NEW i \in DOMAIN fs
      PROVE  Rank(fs, i) + 1 \in DOMAIN fs /\ group_sizes[Rank(fs, i) + 1] = fs[i].info
  <2>1. Rank(fs, i) \in 0 .. n - 1
    BY RankFacts
  <2>2. Rank(fs, i) + 1 \in DOMAIN fs /\ (Rank(fs, i) + 1) - 1 = Rank(fs, i)
    BY <1>2, <2>1
  <2>3. PICK j \in DOMAIN fs : /\ Rank(fs, j) = Rank(fs, i)
                               /\ group_sizes[Rank(fs, i) + 1] = fs[j].info
    BY <1>4, <2>2
  <2>4. j = i
    BY <2>3, RankFacts
  <2> QED
    BY <2>2, <2>3, <2>4
<1>6. DOMAIN group_sizes = DOMAIN fs
  OBVIOUS
<1> HIDE DEF group_sizes, n, m
<1>7. ASSUME NEW k \in 1 .. m
      PROVE  InfoAt(blobs, k) \in Infos /\ InfoAt(group_sizes, k) \in Infos
  <2>1. InfoAt(blobs, k) \in Infos
    BY InfoType DEF InfoAt
  <2>2. InfoAt(group_sizes, k) \in Infos
    BY <1>3, <1>4, <1>6, InfoType DEF InfoAt
  <2> QED
    BY <2>1, <2>2
<1>8. new \in Seq(Infos) /\ DOMAIN new = 1 .. m
  <2>1. \A k \in 1 .. m : new[k] \in Infos
    BY <1>7, InfoType
  <2> QED
    BY <1>2, <2>1
<1>9. ASSUME NEW k \in DOMAIN blobs
      PROVE  /\ k \in DOMAIN new /\ blobs[k].size <= new[k].size
             /\ blobs[k].alignment <= new[k].alignment
  <2>1. k \in 1 .. m /\ InfoAt(blobs, k) = blobs[k]
    BY <1>2 DEF InfoAt
  <2>2. new[k] = Widened(blobs[k], InfoAt(group_sizes, k))
    BY <2>1
  <2> HIDE DEF new
  <2> QED
    BY <1>7, <1>8, <2>1, <2>2, InfoType
<1>10. ASSUME NEW i \in DOMAIN fs
       PROVE  /\ Rank(fs, i) + 1 \in DOMAIN new
              /\ fs[i].info.size <= new[Rank(fs, i) + 1].size
              /\ fs[i].info.alignment <= new[Rank(fs, i) + 1].alignment
  <2> DEFINE k == Rank(fs, i) + 1
  <2>1. k \in 1 .. m /\ InfoAt(group_sizes, k) = fs[i].info
    BY <1>2, <1>5, <1>6 DEF InfoAt
  <2> HIDE DEF k
  <2>2. new[k] = Widened(InfoAt(blobs, k), fs[i].info)
    BY <2>1
  <2> HIDE DEF new
  <2>3. k \in DOMAIN new /\ fs[i].info.size <= new[k].size
        /\ fs[i].info.alignment <= new[k].alignment
    BY <1>7, <1>8, <2>1, <2>2, InfoType
  <2> QED
    BY <2>3 DEF k
<1>11. ASSUME NEW S, 0 \in S, \A k \in DOMAIN blobs : blobs[k].alignment \in S,
              \A i \in DOMAIN fs : fs[i].info.alignment \in S,
              NEW k \in DOMAIN new
       PROVE  new[k].alignment \in S
  <2>1. k \in 1 .. m /\ new[k] = Widened(InfoAt(blobs, k), InfoAt(group_sizes, k))
    OBVIOUS
  <2>2. InfoAt(blobs, k).alignment \in S
    BY <1>11, InfoType DEF InfoAt
  <2>3. InfoAt(group_sizes, k).alignment \in S
    BY <1>4, <1>6, <1>11, InfoType DEF InfoAt
  <2> HIDE DEF new
  <2> QED
    BY <1>7, <2>1, <2>2, <2>3, InfoType
<1> HIDE DEF new
<1> QED
  BY <1>1, <1>8, <1>9, <1>10, <1>11

\* The offset after each blob, and the size of all blobs up to it.
LEMMA OffsetsExist ==
  ASSUME NEW fs \in Seq(MemoryBlobs), NEW a \in Nat
  PROVE  \E offset \in [0 .. Len(fs) -> Nat] :
           /\ offset[0] = 0
           /\ \A i \in DOMAIN fs : offset[i] = AlignOffset(offset[i - 1] + fs[i].info.size, a)
           /\ OffsetOf(fs, a) = [i \in DOMAIN fs |-> offset[i - 1]]
<1> DEFINE n == Len(fs)
           Solves(f) == f = [i \in 0 .. n |-> IF i = 0 THEN 0
                               ELSE AlignOffset(f[i - 1] + fs[i].info.size, a)]
           offset == CHOOSE f : Solves(f)
           step == [i \in 1 .. n |-> [v \in Nat |-> AlignOffset(v + fs[i].info.size, a)]]
<1>1. n \in Nat /\ DOMAIN fs = 1 .. n /\ \A i \in 1 .. n : fs[i].info.size \in Nat
  BY BlobType
<1>2. OffsetOf(fs, a) = [i \in DOMAIN fs |-> offset[i - 1]]
  BY DEF OffsetOf
<1> HIDE DEF n
<1>3. step \in [1 .. n -> [Nat -> Nat]]
  <2>1. ASSUME NEW i \in 1 .. n, NEW v \in Nat
        PROVE  AlignOffset(v + fs[i].info.size, a) \in Nat
    <3>1. v + fs[i].info.size \in Nat
      BY <1>1
    <3> QED
      BY <3>1, AlignOffsetFacts
  <2> QED
    BY <2>1
<1>4. \E f \in [0 .. n -> Nat] : Solves(f)
  <2>1. PICK f \in [0 .. n -> Nat] :
             f = [i \in 0 .. n |-> IF i = 0 THEN 0 ELSE step[i][f[i - 1]]]
    <3> HIDE DEF step
    <3> QED
      BY <1>1, <1>3, Iterated
  <2>2. ASSUME NEW i \in 0 .. n, i # 0
        PROVE  step[i][f[i - 1]] = AlignOffset(f[i - 1] + fs[i].info.size, a)
    <3>1. i \in 1 .. n /\ f[i - 1] \in Nat
      BY <1>1, <2>2
    <3> QED
      BY <3>1
  <2> HIDE DEF step
  <2>3. \A i \in 0 .. n : f[i] = IF i = 0 THEN 0 ELSE step[i][f[i - 1]]
    BY <2>1
  <2>4. \A i \in 0 .. n : f[i] = IF i = 0 THEN 0
                                 ELSE AlignOffset(f[i - 1] + fs[i].info.size, a)
    BY <2>2, <2>3
  <2>5. Solves(f)
    BY <2>4
  <2> QED
    BY <2>5
<1>5. Solves(offset)
  <2> HIDE DEF Solves
  <2> QED
    BY <1>4
<1> HIDE DEF offset
<1>6. /\ DOMAIN offset = 0 .. n /\ offset[0] = 0
      /\ \A i \in 1 .. n : offset[i] = AlignOffset(offset[i - 1] + fs[i].info.size, a)
  <2>1. \A i \in 1 .. n : i \in 0 .. n /\ i # 0
    OBVIOUS
  <2>2. 0 \in 0 .. n
    BY <1>1
  <2> QED
    BY <1>5, <2>1, <2>2
<1>7. \A i \in 0 .. n : offset[i] \in Nat
  <2> DEFINE T == {i \in Nat : i <= n => offset[i] \in Nat}
  <2>1. 0 \in T
    BY <1>6
  <2>2. ASSUME NEW i \in 0 .. n - 1, i \in T PROVE i + 1 \in T
    <3>1. i + 1 \in 1 .. n /\ (i + 1) - 1 = i /\ offset[i] \in Nat
      BY <1>1, <2>2
    <3>2. offset[i + 1] = AlignOffset(offset[i] + fs[i + 1].info.size, a)
      BY <1>6, <3>1
    <3>3. offset[i] + fs[i + 1].info.size \in Nat
      BY <1>1, <3>1
    <3>4. offset[i + 1] \in Nat
      BY <3>2, <3>3, AlignOffsetFacts
    <3> QED
      BY <3>4
  <2>3. \A i \in 0 .. n - 1 : i \in T => i + 1 \in T
    BY <2>2
  <2>4. \A i \in 0 .. n : i \in T => offset[i] \in Nat
    BY <1>1
  <2> HIDE DEF T
  <2>5. 0 .. n \subseteq T
    BY <1>1, <2>1, <2>3, UpTo
  <2> QED
    BY <2>4, <2>5
<1>8. offset \in [0 .. n -> Nat]
  <2>1. offset = [i \in 0 .. n |-> offset[i]]
    BY <1>5
  <2> QED
    BY <1>7, <2>1
<1> QED
  BY <1>1, <1>2, <1>6, <1>8 DEF n

LEMMA SizesExist ==
  ASSUME NEW fs \in Seq(MemoryBlobs)
  PROVE  \E size \in [0 .. Len(fs) -> Nat] :
           /\ size[0] = 0
           /\ \A i \in DOMAIN fs : size[i] = size[i - 1] + fs[i].info.size
           /\ AggregatedSize(fs) = size[Len(fs)]
<1> DEFINE n == Len(fs)
           Solves(f) == f = [i \in 0 .. n |-> IF i = 0 THEN 0 ELSE f[i - 1] + fs[i].info.size]
           size == CHOOSE f : Solves(f)
           step == [i \in 1 .. n |-> [v \in Nat |-> v + fs[i].info.size]]
<1>1. n \in Nat /\ DOMAIN fs = 1 .. n /\ \A i \in 1 .. n : fs[i].info.size \in Nat
  BY BlobType
<1>2. AggregatedSize(fs) = size[n]
  BY DEF AggregatedSize
<1> HIDE DEF n
<1>3. step \in [1 .. n -> [Nat -> Nat]]
  BY <1>1
<1>4. \E f \in [0 .. n -> Nat] : Solves(f)
  <2>1. PICK f \in [0 .. n -> Nat] :
             f = [i \in 0 .. n |-> IF i = 0 THEN 0 ELSE step[i][f[i - 1]]]
    <3> HIDE DEF step
    <3> QED
      BY <1>1, <1>3, Iterated
  <2>2. ASSUME NEW i \in 0 .. n, i # 0
        PROVE  step[i][f[i - 1]] = f[i - 1] + fs[i].info.size
    <3>1. i \in 1 .. n /\ f[i - 1] \in Nat
      BY <1>1, <2>2
    <3> QED
      BY <3>1
  <2> HIDE DEF step
  <2>3. \A i \in 0 .. n : f[i] = IF i = 0 THEN 0 ELSE step[i][f[i - 1]]
    BY <2>1
  <2>4. \A i \in 0 .. n : f[i] = IF i = 0 THEN 0 ELSE f[i - 1] + fs[i].info.size
    BY <2>2, <2>3
  <2>5. Solves(f)
    BY <2>4
  <2> QED
    BY <2>5
<1>5. Solves(size)
  <2> HIDE DEF Solves
  <2> QED
    BY <1>4
<1> HIDE DEF size
<1>6. /\ DOMAIN size = 0 .. n /\ size[0] = 0
      /\ \A i \in 1 .. n : size[i] = size[i - 1] + fs[i].info.size
  <2>1. \A i \in 1 .. n : i \in 0 .. n /\ i # 0
    OBVIOUS
  <2>2. 0 \in 0 .. n
    BY <1>1
  <2> QED
    BY <1>5, <2>1, <2>2
<1>7. \A i \in 0 .. n : size[i] \in Nat
  <2> DEFINE T == {i \in Nat : i <= n => size[i] \in Nat}
  <2>1. 0 \in T
    BY <1>6
  <2>2. ASSUME NEW i \in 0 .. n - 1, i \in T PROVE i + 1 \in T
    <3>1. i + 1 \in 1 .. n /\ (i + 1) - 1 = i /\ size[i] \in Nat
      BY <1>1, <2>2
    <3>2. size[i + 1] = size[i] + fs[i + 1].info.size
      BY <1>6, <3>1
    <3>3. size[i + 1] \in Nat
      BY <1>1, <3>1, <3>2
    <3> QED
      BY <3>3
  <2>3. \A i \in 0 .. n - 1 : i \in T => i + 1 \in T
    BY <2>2
  <2>4. \A i \in 0 .. n : i \in T => size[i] \in Nat
    BY <1>1
  <2> HIDE DEF T
  <2>5. 0 .. n \subseteq T
    BY <1>1, <2>1, <2>3, UpTo
  <2> QED
    BY <2>4, <2>5
<1>8. size \in [0 .. n -> Nat]
  <2>1. size = [i \in 0 .. n |-> size[i]]
    BY <1>5
  <2> QED
    BY <1>7, <2>1
<1> QED
  BY <1>1, <1>2, <1>6, <1>8 DEF n

\* No blob reaches into the next, nor the last out of the whole, and each
\* begins where its alignment asks.
LEMMA OffsetFacts ==
  ASSUME NEW fs \in Seq(MemoryBlobs), NEW a \in Nat
  PROVE  LET at == OffsetOf(fs, a) IN
         /\ DOMAIN at = DOMAIN fs
         /\ AggregatedSize(fs) \in Nat
         /\ \A i \in DOMAIN fs :
              /\ at[i] \in Nat /\ Aligned(at[i], a)
              /\ at[i] + fs[i].info.size <= AggregatedSize(fs) + Len(fs) * a
         /\ \A i, j \in DOMAIN fs : i < j => at[i] + fs[i].info.size <= at[j]
<1> DEFINE n == Len(fs)
           at == OffsetOf(fs, a)
<1>1. n \in Nat /\ DOMAIN fs = 1 .. n /\ \A i \in 1 .. n : fs[i].info.size \in Nat
  BY BlobType
<1>2. PICK offset \in [0 .. n -> Nat] :
           /\ offset[0] = 0
           /\ \A i \in DOMAIN fs : offset[i] = AlignOffset(offset[i - 1] + fs[i].info.size, a)
           /\ at = [i \in DOMAIN fs |-> offset[i - 1]]
  BY OffsetsExist
<1>3. PICK size \in [0 .. n -> Nat] :
           /\ size[0] = 0
           /\ \A i \in DOMAIN fs : size[i] = size[i - 1] + fs[i].info.size
           /\ AggregatedSize(fs) = size[n]
  BY SizesExist
<1> HIDE DEF n, at
<1>4. ASSUME NEW i \in 1 .. n
      PROVE  /\ i \in Nat /\ i - 1 \in Nat /\ i \in 0 .. n /\ i - 1 \in 0 .. n
             /\ offset[i - 1] \in Nat /\ offset[i] \in Nat
             /\ size[i - 1] \in Nat /\ size[i] = size[i - 1] + fs[i].info.size
             /\ offset[i - 1] + fs[i].info.size <= offset[i]
             /\ offset[i] <= offset[i - 1] + fs[i].info.size + a
             /\ Aligned(offset[i], a)
  <2>1. /\ i \in Nat /\ i - 1 \in Nat /\ i \in 0 .. n /\ i - 1 \in 0 .. n
        /\ offset[i - 1] \in Nat /\ offset[i] \in Nat /\ size[i - 1] \in Nat
    BY <1>1
  <2>2. offset[i - 1] + fs[i].info.size \in Nat
    BY <1>1, <2>1, SMTT(60)
  <2>3. offset[i] = AlignOffset(offset[i - 1] + fs[i].info.size, a)
    BY <1>1, <1>2
  <2>4. size[i] = size[i - 1] + fs[i].info.size
    BY <1>1, <1>3
  <2> QED
    BY <2>1, <2>2, <2>3, <2>4, AlignOffsetFacts
<1>5. \A i \in DOMAIN fs : at[i] = offset[i - 1]
  BY <1>2
\* Padding is at most the alignment for each blob.
<1>6. \A i \in 0 .. n : offset[i] <= size[i] + i * a
  <2>0. ASSUME NEW i \in 0 .. n - 1, offset[i] <= size[i] + i * a
        PROVE  offset[i + 1] <= size[i + 1] + (i + 1) * a
    <3>1. i + 1 \in 1 .. n /\ (i + 1) - 1 = i /\ i \in Nat
      BY <1>1
    <3>2. /\ size[i] \in Nat /\ offset[i] \in Nat /\ offset[i + 1] \in Nat
          /\ size[i + 1] = size[i] + fs[i + 1].info.size
          /\ offset[i + 1] <= offset[i] + fs[i + 1].info.size + a
          /\ fs[i + 1].info.size \in Nat
      BY <1>1, <1>4, <3>1
    <3>3. (i + 1) * a = i * a + a /\ i * a \in Nat
      BY <3>1, SMT
    <3>4. \A x, y, s, o, f, b, p \in Nat :
             y <= o + f + b /\ o <= s + p /\ x = s + f => y <= x + (p + b)
      OBVIOUS
    <3>5. size[i + 1] \in Nat /\ a \in Nat
      BY <3>2
    <3>6. offset[i + 1] <= size[i + 1] + (i * a + a)
      BY <2>0, <3>2, <3>3, <3>4, <3>5, Zenon
    <3> QED
      BY <3>3, <3>6, Zenon
  <2> DEFINE T == {i \in Nat : i <= n => offset[i] <= size[i] + i * a}
  <2>1. 0 \in T
    <3>1. 0 * a = 0
      OBVIOUS
    <3> QED
      BY <1>2, <1>3, <3>1
  <2>2. ASSUME NEW i \in 0 .. n - 1, i \in T PROVE i + 1 \in T
    <3>1. i + 1 \in Nat /\ i <= n
      BY <1>1
    <3>2. offset[i + 1] <= size[i + 1] + (i + 1) * a
      BY <2>0, <2>2, <3>1, Zenon
    <3> QED
      BY <3>1, <3>2, Zenon
  <2>3. \A i \in 0 .. n - 1 : i \in T => i + 1 \in T
    BY <2>2
  <2>4. \A i \in 0 .. n : i \in T => offset[i] <= size[i] + i * a
    BY <1>1
  <2> HIDE DEF T
  <2>5. 0 .. n \subseteq T
    BY <1>1, <2>1, <2>3, UpTo
  <2> QED
    BY <2>4, <2>5
\* Both grow.
<1>7. ASSUME NEW i \in 0 .. n
      PROVE  \A j \in 0 .. n : i <= j => offset[i] <= offset[j] /\ size[i] <= size[j]
  <2> DEFINE T == {j \in Nat : j <= n /\ i <= j => offset[i] <= offset[j] /\ size[i] <= size[j]}
  <2>1. 0 \in T
    BY <1>1
  <2>2. ASSUME NEW j \in 0 .. n - 1, j \in T PROVE j + 1 \in T
    <3>1. j + 1 \in 1 .. n /\ (j + 1) - 1 = j /\ j \in 0 .. n
      BY <1>1
    <3>2. /\ size[j] \in Nat /\ offset[j] \in Nat /\ offset[j + 1] \in Nat
          /\ size[j + 1] = size[j] + fs[j + 1].info.size
          /\ offset[j] + fs[j + 1].info.size <= offset[j + 1]
          /\ fs[j + 1].info.size \in Nat /\ size[i] \in Nat /\ offset[i] \in Nat
      BY <1>1, <1>4, <3>1
    <3>3. offset[j] <= offset[j + 1] /\ size[j] <= size[j + 1] /\ size[j + 1] \in Nat
      BY <3>2, SMTT(60)
    <3>4. i <= j => offset[i] <= offset[j] /\ size[i] <= size[j]
      BY <2>2, <3>1
    <3>5. i <= j + 1 => offset[i] <= offset[j + 1] /\ size[i] <= size[j + 1]
      <4>1. CASE i <= j
        BY <3>2, <3>3, <3>4, <4>1
      <4>2. CASE i = j + 1
        BY <3>2, <3>3, <4>2
      <4> QED
        BY <4>1, <4>2
    <3> QED
      BY <3>5
  <2>3. \A j \in 0 .. n - 1 : j \in T => j + 1 \in T
    BY <2>2
  <2>4. \A j \in 0 .. n : j \in T /\ i <= j => offset[i] <= offset[j] /\ size[i] <= size[j]
    BY <1>1
  <2> HIDE DEF T
  <2>5. 0 .. n \subseteq T
    BY <1>1, <2>1, <2>3, UpTo
  <2> QED
    BY <2>4, <2>5
<1>8. ASSUME NEW i \in 1 .. n
      PROVE  /\ at[i] \in Nat /\ Aligned(at[i], a)
             /\ at[i] + fs[i].info.size <= AggregatedSize(fs) + n * a
  <2>0. at[i] = offset[i - 1]
    BY <1>1, <1>5
  <2>1. i - 1 \in 0 .. n /\ i \in 0 .. n /\ n \in 0 .. n /\ i - 1 \in Nat
    BY <1>1
  <2>2. Aligned(offset[i - 1], a)
    <3>1. CASE i = 1
      BY <1>2, <3>1, Multiple DEF Aligned
    <3>2. CASE i # 1
      <4>1. i - 1 \in 1 .. n
        BY <1>1, <3>2
      <4> QED
        BY <1>4, <4>1
    <3> QED
      BY <3>1, <3>2
  <2>3. /\ offset[i - 1] <= size[i - 1] + (i - 1) * a /\ size[i] <= size[n]
        /\ size[n] = AggregatedSize(fs)
    <3>1. offset[i - 1] <= size[i - 1] + (i - 1) * a
      BY <1>6, <2>1
    <3>2. size[i] <= size[n]
      BY <1>1, <1>7, <2>1
    <3> QED
      BY <1>3, <3>1, <3>2
  <2>4. (i - 1) * a \in Nat /\ n * a \in Nat /\ (i - 1) * a <= n * a
    <3>1. n - (i - 1) \in Nat
      BY <1>1
    <3>2. (n - (i - 1)) * a \in Nat /\ (i - 1) * a \in Nat /\ n * a \in Nat
      BY <1>1, <2>1, <3>1, SMT
    <3>3. (n - (i - 1)) * a = n * a - (i - 1) * a
      BY <1>1, <2>1, SMT
    <3> QED
      BY <3>2, <3>3
  <2>5. /\ size[i] = size[i - 1] + fs[i].info.size /\ size[i - 1] \in Nat
        /\ fs[i].info.size \in Nat /\ offset[i - 1] \in Nat /\ size[n] \in Nat
    BY <1>1, <1>4, <2>1
  <2>6. \A x, y, k, b, c, m \in Nat :
           x <= y + b /\ y + k <= m /\ b <= c => x + k <= m + c
    OBVIOUS
  <2>7. size[i - 1] + fs[i].info.size <= size[n]
    BY <2>3, <2>5
  <2>8. offset[i - 1] + fs[i].info.size <= size[n] + n * a
    BY <2>3, <2>4, <2>5, <2>6, <2>7, Zenon
  <2> QED
    BY <2>0, <2>2, <2>3, <2>5, <2>8, Zenon
<1>9. ASSUME NEW i \in 1 .. n, NEW j \in 1 .. n, i < j
      PROVE  at[i] + fs[i].info.size <= at[j]
  <2>1. /\ at[i] = offset[i - 1] /\ at[j] = offset[j - 1] /\ i \in 0 .. n /\ j - 1 \in 0 .. n
        /\ i <= j - 1
    <3>1. at[i] = offset[i - 1] /\ at[j] = offset[j - 1]
      BY <1>1, <1>5, Zenon
    <3>2. i \in 0 .. n /\ j - 1 \in 0 .. n
      BY <1>4, Zenon
    <3>3. i \in Nat /\ j \in Nat
      BY <1>4, Zenon
    <3>4. i <= j - 1
      BY <1>9, <3>3
    <3> QED
      BY <3>1, <3>2, <3>4, Zenon
  <2>2. offset[i] <= offset[j - 1] /\ offset[i - 1] + fs[i].info.size <= offset[i]
    <3>1. offset[i] <= offset[j - 1]
      BY <1>7, <2>1, Zenon
    <3>2. offset[i - 1] + fs[i].info.size <= offset[i]
      BY <1>4, Zenon
    <3> QED
      BY <3>1, <3>2
  <2>3. offset[i - 1] \in Nat /\ offset[i] \in Nat /\ offset[j - 1] \in Nat /\ fs[i].info.size \in Nat
    BY <1>1, <1>4
  <2> QED
    BY <2>1, <2>2, <2>3
<1>10. DOMAIN at = DOMAIN fs
  BY <1>2
<1>11. AggregatedSize(fs) \in Nat
  BY <1>1, <1>3
<1> QED
  BY <1>1, <1>8, <1>9, <1>10, <1>11 DEF n, at

LEMMA MaxAlignmentFacts ==
  ASSUME NEW fs \in Seq(MemoryBlobs), blob \in Infos
  PROVE  LET a == MaxAlignment(fs) IN
         /\ a \in Nat /\ a \in {blob.alignment} \cup {fs[i].info.alignment : i \in DOMAIN fs}
         /\ blob.alignment <= a /\ \A i \in DOMAIN fs : fs[i].info.alignment <= a
<1> DEFINE n == Len(fs)
           f == [i \in 1 .. n |-> fs[i].info.alignment]
           S == {blob.alignment} \cup {fs[i].info.alignment : i \in DOMAIN fs}
<1>1. /\ n \in Nat /\ DOMAIN fs = 1 .. n /\ blob.alignment \in Nat
      /\ \A i \in DOMAIN fs : fs[i].info.alignment \in Nat
  BY BlobType, InfoType
<1> HIDE DEF n
<1>2. PICK b \in Nat : \A i \in 1 .. n : fs[i].info.alignment <= b
  <2>1. f \in [1 .. n -> Nat]
    BY <1>1
  <2>2. \E b \in Nat : \A i \in 1 .. n : f[i] <= b
    <3> HIDE DEF f
    <3> QED
      BY <1>1, <2>1, Bounded
  <2>3. \A i \in 1 .. n : f[i] = fs[i].info.alignment
    OBVIOUS
  <2> HIDE DEF f
  <2> QED
    BY <2>2, <2>3
<1>3. /\ b + blob.alignment \in Nat /\ S \subseteq Nat /\ S # {}
      /\ \A x \in S : x <= b + blob.alignment
  <2>1. \A i \in DOMAIN fs : fs[i].info.alignment <= b + blob.alignment
    BY <1>1, <1>2
  <2> QED
    BY <1>1, <2>1
<1>4. blob.alignment \in S /\ \A i \in DOMAIN fs : fs[i].info.alignment \in S
  OBVIOUS
<1>5. MaxAlignment(fs) = Max(S)
  BY DEF MaxAlignment
<1>6. Max(S) \in S /\ \A x \in S : x <= Max(S)
  <2> HIDE DEF S
  <2> QED
    BY <1>3, Greatest
<1>7. Max(S) \in Nat
  BY <1>3, <1>6
<1>8. \A i \in DOMAIN fs : fs[i].info.alignment <= Max(S)
  BY <1>4, <1>6
<1> QED
  BY <1>4, <1>5, <1>6, <1>7, <1>8

\* The one blob only grows.
LEMMA UpdatedBlobFacts ==
  ASSUME NEW fs \in Seq(MemoryBlobs), blob \in Infos
  PROVE  /\ UpdatedBlob(fs) \in Infos
         /\ UpdatedBlob(fs).alignment = MaxAlignment(fs)
         /\ blob.size <= UpdatedBlob(fs).size
         /\ AggregatedSize(fs) + Len(fs) * MaxAlignment(fs) <= UpdatedBlob(fs).size
<1> DEFINE total == AggregatedSize(fs) + Len(fs) * MaxAlignment(fs)
<1>1. MaxAlignment(fs) \in Nat /\ Len(fs) \in Nat /\ blob.size \in Nat
  BY MaxAlignmentFacts, BlobType, InfoType
<1>2. AggregatedSize(fs) \in Nat
  BY <1>1, OffsetFacts
<1>3. Len(fs) * MaxAlignment(fs) \in Nat
  BY <1>1, SMT
<1>4. total \in Nat
  BY <1>2, <1>3
<1>5. UpdatedBlob(fs) = Info(Larger(blob.size, total), MaxAlignment(fs))
  BY DEF UpdatedBlob
<1> HIDE DEF total
<1>6. UpdatedBlob(fs) \in Infos /\ UpdatedBlob(fs).alignment = MaxAlignment(fs)
      /\ blob.size <= UpdatedBlob(fs).size /\ total <= UpdatedBlob(fs).size
  BY <1>1, <1>4, <1>5 DEF Info, Infos, Larger
<1> QED
  BY <1>6 DEF total

-----------------------------------------------------------------------------
(* Functions.                                                              *)

LEMMA Joined ==
  ASSUME NEW f, NEW h
  PROVE  /\ DOMAIN Over(f, h) = DOMAIN f \cup DOMAIN h
         /\ \A x \in DOMAIN f : Over(f, h)[x] = f[x]
         /\ \A x \in DOMAIN h : x \notin DOMAIN f => Over(f, h)[x] = h[x]
  BY DEF Over

LEMMA Shortened ==
  ASSUME NEW f, NEW x
  PROVE  /\ DOMAIN Without(f, x) = DOMAIN f \ {x}
         /\ \A y \in DOMAIN f : y # x => Without(f, x)[y] = f[y]
  BY DEF Without

\* A partial function, and the functions made from one, by their elements.
LEMMA PartialFacts ==
  ASSUME NEW f, NEW S, NEW T, DOMAIN f \subseteq S, \A x \in DOMAIN f : f[x] \in T,
         f = [x \in DOMAIN f |-> f[x]]
  PROVE  IsPartial(f, S, T)
  BY DEF IsPartial

LEMMA ExtendedPartial ==
  ASSUME NEW f, NEW S, NEW T, NEW x \in S, NEW v \in T, IsPartial(f, S, T)
  PROVE  IsPartial(With(f, x, v), S, T)
  BY DEF IsPartial, With

LEMMA JoinedPartial ==
  ASSUME NEW f, NEW h, NEW S, NEW T, IsPartial(f, S, T), IsPartial(h, S, T)
  PROVE  IsPartial(Over(f, h), S, T)
  BY DEF IsPartial, Over

LEMMA ShortenedPartial ==
  ASSUME NEW f, NEW S, NEW T, NEW x, IsPartial(f, S, T)
  PROVE  IsPartial(Without(f, x), S, T)
  BY DEF IsPartial, Without

\* No object is bound to two blobs of fs.
Disjoint(fs) == \A i, j \in DOMAIN fs : i # j => fs[i].bound \cap fs[j].bound = {}

\* What is bound to the blobs of fs is mapped to what f says.
LEMMA MappedAll ==
  ASSUME NEW fs \in Seq(MemoryBlobs), NEW f
  PROVE  DOMAIN Mapped(fs, f) = UNION {fs[i].bound : i \in DOMAIN fs}
  BY DEF Mapped

LEMMA MappedFacts ==
  ASSUME NEW fs \in Seq(MemoryBlobs), NEW f, Disjoint(fs),
         NEW i \in DOMAIN fs, NEW o \in fs[i].bound
  PROVE  Mapped(fs, f)[o] = f[i]
<1> DEFINE c == CHOOSE k \in DOMAIN fs : o \in fs[k].bound
<1>1. c \in DOMAIN fs /\ o \in fs[c].bound
  OBVIOUS
<1>2. Mapped(fs, f)[o] = f[c]
  BY DEF Mapped
<1> HIDE DEF c
<1>3. c = i
  BY <1>1 DEF Disjoint
<1> QED
  BY <1>2, <1>3

LEMMA MappedPartial ==
  ASSUME NEW fs \in Seq(MemoryBlobs), NEW f, \A i \in DOMAIN fs : f[i] \in Nat, Disjoint(fs)
  PROVE  IsPartial(Mapped(fs, f), Objects, Nat)
<1>1. DOMAIN Mapped(fs, f) \subseteq Objects
  <2>1. DOMAIN Mapped(fs, f) = UNION {fs[i].bound : i \in DOMAIN fs}
    BY MappedAll
  <2>2. \A i \in DOMAIN fs : fs[i].bound \subseteq Objects
    BY BlobType
  <2> QED
    BY <2>1, <2>2
<1>2. ASSUME NEW o \in DOMAIN Mapped(fs, f) PROVE Mapped(fs, f)[o] \in Nat
  <2> DEFINE c == CHOOSE k \in DOMAIN fs : o \in fs[k].bound
  <2>1. c \in DOMAIN fs /\ Mapped(fs, f)[o] = f[c]
    BY DEF Mapped
  <2> QED
    BY <2>1
<1>3. Mapped(fs, f) = [o \in DOMAIN Mapped(fs, f) |-> Mapped(fs, f)[o]]
  BY DEF Mapped
<1> QED
  BY <1>1, <1>2, <1>3, PartialFacts

-----------------------------------------------------------------------------
(* The invariants of the manager.                                          *)

Elements == DOMAIN active_elements
Ended == {q \in Elements : active_elements[q].ended}

\* A round is between the first start and the end of all that is alive.
RoundInv ==
  /\ Elements \cap DOMAIN finalized = {}
  /\ \A q \in Elements : outermost[q] = active_group
  /\ \A q \in Elements : active_elements[q].info.alignment \in Alignments \cup {0}
  /\ \A q \in DOMAIN finalized : finalized[q].info.alignment \in Alignments \cup {0}

\* A blob is as large and as aligned as the largest that was bound to it.
Carries(b) ==
  /\ b.info.alignment \in Alignments \cup {0}
  /\ \A q \in b.bound : /\ active_elements[q].info.size <= b.info.size
                        /\ active_elements[q].info.alignment <= b.info.alignment

\* What each blob was given to, one after the other.
BoundInv ==
  /\ \A o \in Alive : /\ occupied_blobs[o].bound \subseteq Ended \cup {o}
                      /\ Carries(occupied_blobs[o])
  /\ \A i \in DOMAIN free_blobs : /\ free_blobs[i].bound \subseteq Ended
                                  /\ Carries(free_blobs[i])
  /\ \A q \in Ended : \/ \E o \in Alive : q \in occupied_blobs[o].bound
                      \/ \E i \in DOMAIN free_blobs : q \in free_blobs[i].bound

\* No object is bound to two blobs.
BoundOnce ==
  /\ \A o, p \in Alive :
       o # p => occupied_blobs[o].bound \cap occupied_blobs[p].bound = {}
  /\ \A i, j \in DOMAIN free_blobs :
       i # j => free_blobs[i].bound \cap free_blobs[j].bound = {}
  /\ \A o \in Alive : \A i \in DOMAIN free_blobs :
       occupied_blobs[o].bound \cap free_blobs[i].bound = {}

\* Objects that meet are of one round, and never of one blob.
MetInv ==
  \A p \in met :
    /\ {p[1], p[2]} \subseteq Elements \/ {p[1], p[2]} \subseteq DOMAIN finalized
    /\ \A o \in Alive : ~ {p[1], p[2]} \subseteq occupied_blobs[o].bound \cup {o}
    /\ \A i \in DOMAIN free_blobs : ~ {p[1], p[2]} \subseteq free_blobs[i].bound

\* What was mapped is there, and what is asked of alignments is ordered.
Fits(o, g) ==
  LET info == finalized[o].info
      k == blob_mappings[g][o] + 1
      at == offset_mappings[g][o]
  IN  /\ k \in DOMAIN blobs
      /\ info.size <= blobs[k].size /\ info.alignment <= blobs[k].alignment
      /\ at + info.size <= blob.size /\ info.alignment <= blob.alignment
      /\ Aligned(at, info.alignment)

FitsInv ==
  /\ blob.alignment \in Alignments \cup {0}
  /\ \A k \in DOMAIN blobs : blobs[k].alignment \in Alignments \cup {0}
  /\ \A g \in Groups : \A o \in DOMAIN blob_mappings[g] : Fits(o, g)

LifetimeInv ==
  /\ LifetimeTypeOK /\ RoundInv /\ BoundInv /\ BoundOnce /\ MetInv /\ FitsInv
  /\ OutermostGroupMaps /\ MeetingApart

-----------------------------------------------------------------------------
(* The invariants of the tasks.                                            *)

Ins(i) == workload[i].ins
Outs(i) == workload[i].outs
Handles(i) == Range(Ins(i)) \cup Range(Outs(i))
Acquired(i) == Len(Ins(i)) + Len(Outs(i))

\* Step k of task i acquires x.
StepAcquires(i, k, x) ==
  \/ k \in DOMAIN Ins(i) /\ Ins(i)[k] = x
  \/ k - Len(Ins(i)) \in DOMAIN Outs(i) /\ Outs(i)[k - Len(Ins(i))] = x

\* Task i has acquired x, at the place that is reached.
HasAcquired(i, x) ==
  \/ i < t /\ x \in Handles(i)
  \/ i = t /\ \E k \in 1 .. place - 1 : StepAcquires(i, k, x)

\* The places where x is read, and those of them not released yet.
Reads(x) == PlacesOf(x, [i \in DOMAIN workload |-> Ins(i)])

ToRead(x) == {r \in Reads(x) : r[1] > t \/ (r[1] = t /\ Acquired(t) + r[2] >= place)}

InFlightInv ==
  pc = "configure" =>
    \A x \in Objects :
      /\ x \in DOMAIN in_flight <=> /\ \E i \in DOMAIN workload : HasAcquired(i, x)
                                    /\ ToRead(x) # {}
      /\ x \in DOMAIN in_flight => in_flight[x] = Cardinality(ToRead(x))

\* What in_flight says, and what is alive.
FlightInv ==
  /\ InFlightInv
  /\ IsPartial(in_flight, Objects, Nat \ {0})
  /\ pc = "configure" => DOMAIN in_flight = Alive
  /\ pc \in {"run", "ran"} => in_flight = <<>> /\ Alive = {}

\* Task i needs x, of itself or of one before it, for itself or one after it.
Needs(i, x) ==
  /\ \E j \in 1 .. i : x \in Handles(j)
  /\ \E j \in i .. Len(workload) : x \in Range(Ins(j))

\* The tensors that a task needs have met one another.
TogetherInv ==
  /\ pc = "configure" =>
       \A x, y \in DOMAIN in_flight : x # y => <<x, y>> \in met
  /\ \A i \in DOMAIN workload :
       pc # "configure" \/ i < t \/ (i = t /\ place > Acquired(t)) =>
         \A x, y \in Objects : x # y /\ Needs(i, x) /\ Needs(i, y) => <<x, y>> \in met

\* Every tensor that was acquired is managed, in the one group.
ManagedInv ==
  /\ pc # "functions" => \A x \in Managed : outermost[x] = cross_group
  /\ pc = "configure" =>
       \A i \in DOMAIN workload, x \in Objects : HasAcquired(i, x) => x \in Managed
  /\ pc \in {"run", "ran"} =>
       \A i \in DOMAIN workload : Handles(i) \subseteq Managed

\* What was written and will be read is still in its place.
Holds(x) == /\ blob_memory[BlobOf(x)] = x
            /\ \A b \in BytesOf(x) : memory[b] = x

ContentsInv ==
  pc \in {"run", "ran"} =>
    /\ DOMAIN blob_memory = DOMAIN blobs
    /\ DOMAIN memory = 0 .. blob.size - 1
    /\ \A x \in Objects :
         /\ \E j \in 1 .. t : x \in Range(Outs(j)) /\ (j < t \/ pc = "ran")
         /\ \E j \in t .. Len(workload) : x \in Range(Ins(j))
         => Holds(x)

WorkInv ==
  /\ IF pc = "functions" THEN workload = <<>> ELSE workload \in Workloads
  /\ pc \in {"configure", "run", "ran", "functions"}
  /\ t \in 1 .. Len(workload) + 1 /\ place \in Nat \ {0}
  /\ pc \in {"run", "ran"} => t <= Len(workload) /\ place = 1

IInv == LifetimeInv /\ WorkInv /\ FlightInv /\ TogetherInv /\ ManagedInv /\ ContentsInv

-----------------------------------------------------------------------------
(* The manager keeps its invariants.                                       *)

LEMMA LifetimeInitInv == LifetimeInit => LifetimeInv
<1> SUFFICES ASSUME LifetimeInit PROVE LifetimeInv
  OBVIOUS
<1> USE DEF LifetimeInit
<1>1. LifetimeTypeOK
  BY InfoType, LifetimeAssumption DEF LifetimeTypeOK, IsPartial, Managed, Alive
<1>2. RoundInv
  BY DEF RoundInv, Elements
<1>3. BoundInv /\ BoundOnce /\ MetInv
  BY DEF BoundInv, BoundOnce, MetInv, Alive, Ended, Elements
<1>4. FitsInv
  BY DEF FitsInv, Info
<1>5. OutermostGroupMaps /\ MeetingApart
  BY DEF OutermostGroupMaps, MeetingApart
<1> QED
  BY <1>1, <1>2, <1>3, <1>4, <1>5 DEF LifetimeInv

\* What the type invariant says of the objects of a round.
LEMMA RoundFacts ==
  ASSUME LifetimeInv
  PROVE  /\ Alive \subseteq Elements /\ Elements \subseteq Objects
         /\ Ended \cap Alive = {} /\ Elements = Ended \cup Alive
         /\ DOMAIN finalized \subseteq Objects /\ Elements \cap DOMAIN finalized = {}
         /\ \A q \in Elements : /\ active_elements[q] \in [info : Infos, ended : BOOLEAN]
                                /\ active_elements[q].info \in Infos
         /\ \A p \in Alive : /\ occupied_blobs[p] \in MemoryBlobs
                             /\ occupied_blobs[p].info \in Infos
                             /\ occupied_blobs[p].bound \subseteq Ended \cup {p}
         /\ free_blobs \in Seq(MemoryBlobs)
         /\ \A i \in DOMAIN free_blobs : free_blobs[i].bound \subseteq Ended
         /\ (active_group = NoGroup <=> Alive = {})
         /\ (Alive = {} => Elements = {} /\ free_blobs = <<>>)
         /\ \A p \in Alive : outermost[p] = active_group
         /\ DOMAIN outermost = Elements \cup DOMAIN finalized
         /\ active_group \in Groups \cup {NoGroup}
<1>1. LifetimeTypeOK /\ RoundInv /\ BoundInv
  BY DEF LifetimeInv
<1>2. /\ Alive = {q \in Elements : ~active_elements[q].ended} /\ Elements \subseteq Objects
      /\ \A q \in Elements : active_elements[q] \in [info : Infos, ended : BOOLEAN]
      /\ DOMAIN finalized \subseteq Objects
  BY <1>1 DEF LifetimeTypeOK, Elements, IsPartial
<1>3. \A p \in Alive : occupied_blobs[p] \in MemoryBlobs
  BY <1>1 DEF LifetimeTypeOK, IsPartial, Alive
<1>4. Alive = {} => Elements = {} /\ free_blobs = <<>>
  BY <1>1 DEF LifetimeTypeOK, Elements
<1>5. \A p \in Alive : outermost[p] = active_group
  BY <1>1, <1>2 DEF RoundInv
<1>6. Ended \cap Alive = {} /\ Elements = Ended \cup Alive /\ Alive \subseteq Elements
  BY <1>2 DEF Ended
<1>7. Elements \cap DOMAIN finalized = {}
  BY <1>1 DEF RoundInv
<1>8. /\ free_blobs \in Seq(MemoryBlobs) /\ (active_group = NoGroup <=> Alive = {})
      /\ DOMAIN outermost = Elements \cup DOMAIN finalized
      /\ active_group \in Groups \cup {NoGroup}
  BY <1>1 DEF LifetimeTypeOK, Managed, Elements
<1>9. /\ \A p \in Alive : occupied_blobs[p].bound \subseteq Ended \cup {p}
      /\ \A i \in DOMAIN free_blobs : free_blobs[i].bound \subseteq Ended
  BY <1>1 DEF BoundInv
<1>10. \A p \in Alive : occupied_blobs[p].info \in Infos
  BY <1>3 DEF MemoryBlobs
<1> QED
  BY <1>2, <1>3, <1>4, <1>5, <1>6, <1>7, <1>8, <1>9, <1>10

LEMMA StartFacts ==
  ASSUME LifetimeInv, NEW g \in Groups, NEW o \in Objects, Start(g, o)
  PROVE  /\ o \notin Elements /\ o \notin Alive /\ o \notin DOMAIN finalized
         /\ Elements' = Elements \cup {o} /\ Ended' = Ended /\ Alive' = Alive \cup {o}
         /\ active_elements'[o] = [info |-> Info(0, 0), ended |-> FALSE]
         /\ \A q \in Elements : active_elements'[q] = active_elements[q]
         /\ \A p \in Alive : occupied_blobs'[p] = occupied_blobs[p]
         /\ active_group' \in Groups /\ (Alive # {} => active_group' = active_group)
         /\ DOMAIN outermost' = DOMAIN outermost \cup {o} /\ outermost'[o] = active_group'
         /\ \A q \in DOMAIN outermost : outermost'[q] = outermost[q]
<1>1. o \notin Elements /\ o \notin DOMAIN finalized /\ o \notin Alive
  BY RoundFacts DEF Start, Managed, Elements
<1>2. /\ active_elements' = With(active_elements, o, [info |-> Info(0, 0), ended |-> FALSE])
      /\ outermost' = With(outermost, o, IF Alive = {} THEN g
                                         ELSE outermost[CHOOSE p \in Alive : TRUE])
      /\ active_group' = Registered(g)
  BY DEF Start
<1>3. /\ Elements' = Elements \cup {o}
      /\ active_elements'[o] = [info |-> Info(0, 0), ended |-> FALSE]
      /\ \A q \in Elements : active_elements'[q] = active_elements[q]
  BY <1>1, <1>2 DEF Elements, With
<1>4. Ended' = Ended
  <2>1. \A q : q \in Ended' <=> q \in Elements' /\ active_elements'[q].ended
    BY DEF Ended
  <2>2. ~active_elements'[o].ended
    BY <1>3
  <2> QED
    BY <1>1, <1>3, <2>1, <2>2 DEF Ended
<1>5. Alive' = Alive \cup {o} /\ \A p \in Alive : occupied_blobs'[p] = occupied_blobs[p]
  <2>1. PICK b : occupied_blobs' = With(occupied_blobs, o, b)
    BY DEF Start, TakeBlob
  <2> QED
    BY <1>1, <2>1 DEF Alive, With
<1>6. active_group' \in Groups /\ (Alive # {} => active_group' = active_group)
      /\ (Alive = {} => active_group' = g)
  BY <1>2, RoundFacts DEF Registered
<1>7. o \notin DOMAIN outermost
  BY <1>1, RoundFacts
<1>8. /\ DOMAIN outermost' = DOMAIN outermost \cup {o}
      /\ \A q \in DOMAIN outermost : outermost'[q] = outermost[q]
      /\ outermost'[o] = IF Alive = {} THEN g ELSE outermost[CHOOSE p \in Alive : TRUE]
  BY <1>2, <1>7 DEF With
<1>9. outermost'[o] = active_group'
  <2>1. Alive # {} => (CHOOSE p \in Alive : TRUE) \in Alive
    OBVIOUS
  <2> QED
    BY <1>6, <1>8, <2>1, RoundFacts
<1> QED
  BY <1>1, <1>3, <1>4, <1>5, <1>6, <1>8, <1>9

\* The blob that a new object is given is nobody else's.
LEMMA StartBlob ==
  ASSUME LifetimeInv, NEW g \in Groups, NEW o \in Objects, Start(g, o)
  PROVE  LET b == occupied_blobs'[o] IN
         /\ b \in MemoryBlobs /\ b.bound \subseteq Ended \cup {o}
         /\ b.info.alignment \in Alignments \cup {0}
         /\ \A q \in b.bound : /\ active_elements'[q].info.size <= b.info.size
                               /\ active_elements'[q].info.alignment <= b.info.alignment
         /\ \A p \in Alive : b.bound \cap occupied_blobs[p].bound = {}
         /\ free_blobs' \in Seq(MemoryBlobs)
         /\ \A i \in DOMAIN free_blobs' :
              /\ \E j \in DOMAIN free_blobs : free_blobs'[i] = free_blobs[j]
              /\ b.bound \cap free_blobs'[i].bound = {}
         /\ \A i, j \in DOMAIN free_blobs' :
              i # j => free_blobs'[i].bound \cap free_blobs'[j].bound = {}
         /\ \A j \in DOMAIN free_blobs :
              \/ \E i \in DOMAIN free_blobs' : free_blobs'[i] = free_blobs[j]
              \/ b.bound = free_blobs[j].bound
         /\ \A p \in met : ~ {p[1], p[2]} \subseteq b.bound \cup {o}
<1> DEFINE b == occupied_blobs'[o]
<1>1. /\ o \notin Elements /\ o \notin DOMAIN finalized
      /\ active_elements'[o].info = Info(0, 0)
      /\ \A q \in Elements : active_elements'[q] = active_elements[q]
  <2>1. active_elements'[o] = [info |-> Info(0, 0), ended |-> FALSE]
    BY StartFacts
  <2>2. active_elements'[o].info = Info(0, 0)
    BY <2>1
  <2> QED
    BY <2>2, StartFacts
<1>2. BoundInv /\ BoundOnce /\ MetInv
  BY DEF LifetimeInv
<1>3. \A p \in met : p[1] \in Elements \cup DOMAIN finalized /\ p[2] \in Elements \cup DOMAIN finalized
  BY <1>2 DEF MetInv
<1>4. CASE free_blobs = <<>>
  <2>1. b = [info |-> Info(0, 0), bound |-> {o}] /\ free_blobs' = free_blobs
    BY <1>4, StartFacts DEF Start, TakeBlob, With
  <2>2. DOMAIN free_blobs = {} /\ free_blobs' \in Seq(MemoryBlobs)
    BY <1>4, <2>1
  <2>3. b.info = Info(0, 0) /\ b.bound = {o}
    BY <2>1
  <2>4. b \in MemoryBlobs
    BY <2>1, InfoType DEF MemoryBlobs
  <2>5. \A p \in Alive : o \notin occupied_blobs[p].bound
    BY <1>1, RoundFacts
  <2>6. /\ b.info.alignment = 0 /\ active_elements'[o].info.size <= b.info.size
        /\ active_elements'[o].info.alignment <= b.info.alignment
    BY <1>1, <2>3, InfoType
  <2>7. \A p \in met : ~ {p[1], p[2]} \subseteq {o}
    BY <1>1, <1>3
  <2> HIDE DEF b
  <2> QED
    BY <2>1, <2>2, <2>3, <2>4, <2>5, <2>6, <2>7 DEF b
<1>5. CASE free_blobs # <<>>
  <2>1. b = Head(free_blobs) /\ free_blobs' = Tail(free_blobs)
    BY <1>5, StartFacts DEF Start, TakeBlob, With
  <2>2. /\ free_blobs \in Seq(MemoryBlobs) /\ 1 \in DOMAIN free_blobs
        /\ free_blobs' \in Seq(MemoryBlobs) /\ b = free_blobs[1]
        /\ \A i \in DOMAIN free_blobs' : /\ i + 1 \in DOMAIN free_blobs /\ i \in Nat /\ i >= 1
                                         /\ free_blobs'[i] = free_blobs[i + 1]
        /\ \A j \in DOMAIN free_blobs :
             j # 1 => j - 1 \in DOMAIN free_blobs' /\ free_blobs'[j - 1] = free_blobs[j]
    BY <1>5, <2>1, RoundFacts
  <2> HIDE DEF b
  <2>3. /\ b \in MemoryBlobs /\ b.bound \subseteq Ended /\ Carries(b)
        /\ \A p \in Alive : b.bound \cap occupied_blobs[p].bound = {}
        /\ \A j \in DOMAIN free_blobs : j # 1 => b.bound \cap free_blobs[j].bound = {}
        /\ \A p \in met : ~ {p[1], p[2]} \subseteq b.bound
    BY <1>2, <2>2 DEF BoundInv, BoundOnce, MetInv
  <2>4. /\ b.info.alignment \in Alignments \cup {0}
        /\ \A q \in b.bound : /\ active_elements'[q].info.size <= b.info.size
                              /\ active_elements'[q].info.alignment <= b.info.alignment
    BY <1>1, <2>3 DEF Carries, Ended
  <2>5. \A i \in DOMAIN free_blobs' : b.bound \cap free_blobs'[i].bound = {}
    <3>1. \A i \in DOMAIN free_blobs' : i + 1 # 1
      BY <2>2
    <3> QED
      BY <2>2, <2>3, <3>1
  <2>6. \A i, j \in DOMAIN free_blobs' :
          i # j => free_blobs'[i].bound \cap free_blobs'[j].bound = {}
    <3>1. \A i, j \in DOMAIN free_blobs' : i # j => i + 1 # j + 1
      BY <2>2
    <3> QED
      BY <1>2, <2>2, <3>1 DEF BoundOnce
  <2>7. \A j \in DOMAIN free_blobs : \/ \E i \in DOMAIN free_blobs' : free_blobs'[i] = free_blobs[j]
                                     \/ b.bound = free_blobs[j].bound
    BY <2>2
  <2>8. \A p \in met : ~ {p[1], p[2]} \subseteq b.bound \cup {o}
    BY <1>1, <1>3, <2>3
  <2> QED
    BY <2>2, <2>3, <2>4, <2>5, <2>6, <2>7, <2>8 DEF b
<1> QED
  BY <1>4, <1>5

LEMMA StartKeepsType ==
  ASSUME LifetimeInv, NEW g \in Groups, NEW o \in Objects, Start(g, o)
  PROVE  LifetimeTypeOK'
<1>0. LifetimeTypeOK
  BY DEF LifetimeInv
<1>1. IsPartial(active_elements', Objects, [info : Infos, ended : BOOLEAN])
  <2> DEFINE v == [info |-> Info(0, 0), ended |-> FALSE]
  <2>1. v \in [info : Infos, ended : BOOLEAN]
    BY InfoType
  <2>2. active_elements' = With(active_elements, o, v)
    BY DEF Start
  <2>3. IsPartial(active_elements, Objects, [info : Infos, ended : BOOLEAN])
    BY <1>0 DEF LifetimeTypeOK
  <2> HIDE DEF v
  <2> QED
    BY <2>1, <2>2, <2>3, ExtendedPartial
<1>2. IsPartial(occupied_blobs', Objects, MemoryBlobs)
  <2>1. PICK b : occupied_blobs' = With(occupied_blobs, o, b)
    BY DEF Start, TakeBlob
  <2>2. occupied_blobs'[o] = b /\ b \in MemoryBlobs
    <3>1. occupied_blobs'[o] = b
      BY <2>1 DEF With
    <3> QED
      BY <3>1, StartBlob
  <2>3. IsPartial(occupied_blobs, Objects, MemoryBlobs)
    BY <1>0 DEF LifetimeTypeOK
  <2> QED
    BY <2>1, <2>2, <2>3, ExtendedPartial
<1>3. free_blobs' \in Seq(MemoryBlobs)
  BY StartBlob
<1>4. UNCHANGED <<finalized, blobs, blob_mappings, blob, offset_mappings>>
  BY DEF Start, derived
<1>5. met' \subseteq Objects \X Objects
  <2>1. met' = met \cup (Alive \X {o}) \cup ({o} \X Alive) /\ Alive \subseteq Objects
    BY RoundFacts DEF Start
  <2>2. met \subseteq Objects \X Objects
    BY <1>0 DEF LifetimeTypeOK
  <2> QED
    BY <2>1, <2>2
<1>6. IsPartial(outermost', Objects, Groups)
  <2>1. PICK v : outermost' = With(outermost, o, v)
    BY DEF Start
  <2>2. outermost'[o] = v
    BY <2>1 DEF With
  <2>3. IsPartial(outermost, Objects, Groups) /\ v \in Groups
    BY <1>0, <2>2, StartFacts DEF LifetimeTypeOK
  <2> QED
    BY <2>1, <2>3, ExtendedPartial
<1>7. DOMAIN outermost' = Managed'
  <2>1. DOMAIN outermost = Elements \cup DOMAIN finalized
    BY RoundFacts
  <2>2. Managed' = Elements' \cup DOMAIN finalized
    BY <1>4 DEF Managed, Elements
  <2> QED
    BY <2>1, <2>2, StartFacts
<1>8. Alive' = {q \in DOMAIN active_elements' : ~active_elements'[q].ended}
  <2>1. Alive = {q \in Elements : ~active_elements[q].ended}
    BY <1>0 DEF LifetimeTypeOK, Elements
  <2>2. DOMAIN active_elements' = Elements \cup {o} /\ ~active_elements'[o].ended
    <3>1. active_elements'[o] = [info |-> Info(0, 0), ended |-> FALSE]
      BY StartFacts
    <3>2. ~active_elements'[o].ended
      BY <3>1
    <3>3. Elements' = Elements \cup {o} /\ Elements' = DOMAIN active_elements'
      BY StartFacts DEF Elements
    <3> QED
      BY <3>2, <3>3
  <2> QED
    BY <2>1, <2>2, StartFacts
<1>9. active_group' \in Groups /\ active_group' # NoGroup /\ Alive' # {}
  BY StartFacts, LifetimeAssumption DEF LifetimeAssumption
<1> QED
  BY <1>0, <1>1, <1>2, <1>3, <1>4, <1>5, <1>6, <1>7, <1>8, <1>9 DEF LifetimeTypeOK

LEMMA StartKeeps ==
  ASSUME LifetimeInv, NEW g \in Groups, NEW o \in Objects, Start(g, o)
  PROVE  LifetimeInv'
<1>0. RoundInv /\ BoundInv /\ BoundOnce /\ MetInv /\ FitsInv /\ OutermostGroupMaps /\ MeetingApart
  BY DEF LifetimeInv
<1>1. UNCHANGED <<finalized, blobs, blob_mappings, blob, offset_mappings>>
  BY DEF Start, derived
<1>2. met' = met \cup (Alive \X {o}) \cup ({o} \X Alive)
  BY DEF Start
<1>3. /\ o \notin Elements /\ o \notin Alive /\ o \notin DOMAIN finalized
      /\ Elements' = Elements \cup {o} /\ Ended' = Ended /\ Alive' = Alive \cup {o}
      /\ \A q \in Elements : active_elements'[q] = active_elements[q]
      /\ \A p \in Alive : occupied_blobs'[p] = occupied_blobs[p]
      /\ DOMAIN outermost' = DOMAIN outermost \cup {o} /\ outermost'[o] = active_group'
      /\ \A q \in DOMAIN outermost : outermost'[q] = outermost[q]
  BY StartFacts
<1>4. active_elements'[o].info = Info(0, 0) /\ Info(0, 0).alignment = 0
  <2>1. active_elements'[o] = [info |-> Info(0, 0), ended |-> FALSE]
    BY StartFacts
  <2> QED
    BY <2>1, InfoType
<1>5. RoundInv'
  <2>1. Elements' \cap DOMAIN finalized' = {}
    BY <1>0, <1>1, <1>3 DEF RoundInv
  <2>2. ASSUME NEW q \in Elements PROVE outermost'[q] = active_group'
    <3>1. Alive # {} /\ q \in DOMAIN outermost
      BY RoundFacts
    <3>2. active_group' = active_group
      BY <3>1, StartFacts
    <3> QED
      BY <1>0, <1>3, <3>1, <3>2 DEF RoundInv
  <2>3. \A q \in Elements' : outermost'[q] = active_group'
    BY <1>3, <2>2
  <2>4. \A q \in Elements' : active_elements'[q].info.alignment \in Alignments \cup {0}
    BY <1>0, <1>3, <1>4 DEF RoundInv
  <2>5. \A q \in DOMAIN finalized' : finalized'[q].info.alignment \in Alignments \cup {0}
    BY <1>0, <1>1 DEF RoundInv
  <2> QED
    BY <2>1, <2>3, <2>4, <2>5 DEF RoundInv
<1>6. BoundInv'
  <2>1. ASSUME NEW p \in Alive
        PROVE  occupied_blobs'[p].bound \subseteq Ended' \cup {p} /\ Carries(occupied_blobs[p])'
    <3>1. occupied_blobs[p].bound \subseteq Ended \cup {p} /\ Carries(occupied_blobs[p])
      BY <1>0 DEF BoundInv
    <3>2. occupied_blobs[p].bound \subseteq Elements
      BY <3>1, RoundFacts
    <3>3. occupied_blobs'[p] = occupied_blobs[p]
      BY <1>3
    <3> QED
      BY <1>3, <3>1, <3>2, <3>3 DEF Carries
  <2>2. occupied_blobs'[o].bound \subseteq Ended' \cup {o} /\ Carries(occupied_blobs[o])'
    BY <1>3, StartBlob DEF Carries
  <2>3. ASSUME NEW i \in DOMAIN free_blobs'
        PROVE  free_blobs'[i].bound \subseteq Ended' /\ Carries(free_blobs[i])'
    <3>1. PICK j \in DOMAIN free_blobs : free_blobs'[i] = free_blobs[j]
      BY StartBlob
    <3>2. free_blobs[j].bound \subseteq Ended /\ Carries(free_blobs[j])
      BY <1>0 DEF BoundInv
    <3>3. free_blobs[j].bound \subseteq Elements
      BY <3>2, RoundFacts
    <3> QED
      BY <1>3, <3>1, <3>2, <3>3 DEF Carries
  <2>4. ASSUME NEW q \in Ended'
        PROVE  \/ \E p \in Alive' : q \in occupied_blobs'[p].bound
               \/ \E i \in DOMAIN free_blobs' : q \in free_blobs'[i].bound
    <3>1. q \in Ended
      BY <1>3
    <3>2. CASE \E p \in Alive : q \in occupied_blobs[p].bound
      BY <1>3, <3>2
    <3>3. CASE \E j \in DOMAIN free_blobs : q \in free_blobs[j].bound
      <4>1. PICK j \in DOMAIN free_blobs : q \in free_blobs[j].bound
        BY <3>3
      <4>2. \/ \E i \in DOMAIN free_blobs' : free_blobs'[i] = free_blobs[j]
            \/ occupied_blobs'[o].bound = free_blobs[j].bound
        BY StartBlob
      <4> QED
        BY <1>3, <4>1, <4>2
    <3> QED
      BY <1>0, <3>1, <3>2, <3>3 DEF BoundInv
  <2>5. \A p \in Alive' : /\ occupied_blobs'[p].bound \subseteq Ended' \cup {p}
                          /\ Carries(occupied_blobs[p])'
    BY <1>3, <2>1, <2>2
  <2> QED
    BY <2>3, <2>4, <2>5 DEF BoundInv
<1>7. BoundOnce'
  <2>1. ASSUME NEW p \in Alive', NEW q \in Alive', p # q
        PROVE  occupied_blobs'[p].bound \cap occupied_blobs'[q].bound = {}
    <3>1. CASE p \in Alive /\ q \in Alive
      BY <1>0, <1>3, <2>1, <3>1 DEF BoundOnce
    <3>2. CASE p = o /\ q \in Alive
      BY <1>3, <3>2, StartBlob
    <3>3. CASE q = o /\ p \in Alive
      <4>1. occupied_blobs'[o].bound \cap occupied_blobs[p].bound = {}
        BY <3>3, StartBlob
      <4> QED
        BY <1>3, <3>3, <4>1
    <3> QED
      BY <1>3, <2>1, <3>1, <3>2, <3>3
  <2>2. \A i, j \in DOMAIN free_blobs' :
          i # j => free_blobs'[i].bound \cap free_blobs'[j].bound = {}
    BY StartBlob
  <2>3. ASSUME NEW p \in Alive', NEW i \in DOMAIN free_blobs'
        PROVE  occupied_blobs'[p].bound \cap free_blobs'[i].bound = {}
    <3>1. PICK j \in DOMAIN free_blobs : free_blobs'[i] = free_blobs[j]
      BY StartBlob
    <3>2. CASE p \in Alive
      <4>1. occupied_blobs[p].bound \cap free_blobs[j].bound = {}
        BY <1>0, <3>2 DEF BoundOnce
      <4> QED
        BY <1>3, <3>1, <3>2, <4>1
    <3>3. CASE p = o
      BY <3>3, StartBlob
    <3> QED
      BY <1>3, <3>2, <3>3
  <2> QED
    BY <2>1, <2>2, <2>3 DEF BoundOnce
<1>8. MetInv'
  <2> SUFFICES ASSUME NEW p \in met'
               PROVE  /\ \/ {p[1], p[2]} \subseteq Elements'
                         \/ {p[1], p[2]} \subseteq DOMAIN finalized'
                      /\ \A x \in Alive' : ~ {p[1], p[2]} \subseteq occupied_blobs'[x].bound \cup {x}
                      /\ \A i \in DOMAIN free_blobs' : ~ {p[1], p[2]} \subseteq free_blobs'[i].bound
    BY DEF MetInv
  <2>1. CASE p \in met
    <3>1. /\ {p[1], p[2]} \subseteq Elements \/ {p[1], p[2]} \subseteq DOMAIN finalized
          /\ \A x \in Alive : ~ {p[1], p[2]} \subseteq occupied_blobs[x].bound \cup {x}
          /\ \A j \in DOMAIN free_blobs : ~ {p[1], p[2]} \subseteq free_blobs[j].bound
      BY <1>0, <2>1 DEF MetInv
    <3>2. ~ {p[1], p[2]} \subseteq occupied_blobs'[o].bound \cup {o}
      BY <2>1, StartBlob
    <3>3. \A x \in Alive' : ~ {p[1], p[2]} \subseteq occupied_blobs'[x].bound \cup {x}
      BY <1>3, <3>1, <3>2
    <3>4. ASSUME NEW i \in DOMAIN free_blobs' PROVE ~ {p[1], p[2]} \subseteq free_blobs'[i].bound
      <4>1. PICK j \in DOMAIN free_blobs : free_blobs'[i] = free_blobs[j]
        BY StartBlob
      <4> QED
        BY <3>1, <4>1
    <3> QED
      BY <1>1, <1>3, <3>1, <3>3, <3>4
  <2>2. CASE p \notin met
    <3>1. PICK x \in Alive : {p[1], p[2]} = {x, o}
      BY <1>2, <2>2
    <3>2. x \in Elements /\ x \notin Ended /\ o \notin Ended /\ x # o
      BY <1>3, RoundFacts
    <3>3. ASSUME NEW y \in Alive' PROVE ~ {x, o} \subseteq occupied_blobs'[y].bound \cup {y}
      <4>1. occupied_blobs'[y].bound \subseteq Ended \cup {y}
        BY <1>3, StartBlob, RoundFacts
      <4> QED
        BY <3>2, <4>1
    <3>4. ASSUME NEW i \in DOMAIN free_blobs' PROVE ~ {x, o} \subseteq free_blobs'[i].bound
      <4>1. PICK j \in DOMAIN free_blobs : free_blobs'[i] = free_blobs[j]
        BY StartBlob
      <4> QED
        BY <3>2, <4>1, RoundFacts
    <3> QED
      BY <1>3, <3>1, <3>2, <3>3, <3>4
  <2> QED
    BY <2>1, <2>2
<1>9. FitsInv'
  BY <1>0, <1>1 DEF FitsInv, Fits
<1>10. \A k \in Groups : DOMAIN blob_mappings[k] \subseteq DOMAIN finalized
  BY <1>0 DEF OutermostGroupMaps
<1>11. OutermostGroupMaps'
  <2>1. \A q \in DOMAIN finalized : outermost'[q] = outermost[q]
    BY <1>3, RoundFacts
  <2> QED
    BY <1>0, <1>1, <2>1 DEF OutermostGroupMaps
<1>12. MeetingApart'
  <2> SUFFICES ASSUME NEW p \in met', NEW k \in Groups,
                      {p[1], p[2]} \subseteq DOMAIN blob_mappings[k]
               PROVE  BlobsApart(p[1], p[2], k)' /\ OffsetsApart(p[1], p[2], k)'
    BY <1>1 DEF MeetingApart
  <2>1. p \in met
    <3>1. o \notin {p[1], p[2]}
      BY <1>3, <1>10
    <3> QED
      BY <1>2, <3>1
  <2>2. BlobsApart(p[1], p[2], k) /\ OffsetsApart(p[1], p[2], k)
    BY <1>0, <2>1 DEF MeetingApart
  <2> QED
    BY <1>1, <2>2 DEF BlobsApart, OffsetsApart
<1> QED
  BY <1>5, <1>6, <1>7, <1>8, <1>9, <1>11, <1>12, StartKeepsType DEF LifetimeInv

\* The list of free blobs when o has ended, and the elements of the round.
FreedBlobs(o, info) == <<Freed(occupied_blobs[o], o, info)>> \o free_blobs
EndedElements(o, info) == [active_elements EXCEPT ![o] = [info |-> info, ended |-> TRUE]]

Freeing(o, fs, elements) ==
  /\ fs \in Seq(MemoryBlobs) /\ DOMAIN elements = Elements
  /\ \A q \in Elements : /\ elements[q] \in [info : Infos, ended : BOOLEAN]
                         /\ elements[q].info \in Infos
                         /\ elements[q].info.alignment \in Alignments \cup {0}
                         /\ (elements[q].ended <=> q \in Ended \cup {o})
  /\ \A q \in Elements : q # o => elements[q] = active_elements[q]
  /\ \A i \in DOMAIN fs :
       /\ fs[i].bound \subseteq Ended \cup {o} /\ fs[i].bound \subseteq Elements
       /\ fs[i].info.alignment \in Alignments \cup {0}
       /\ \A q \in fs[i].bound : /\ elements[q].info.size <= fs[i].info.size
                                 /\ elements[q].info.alignment <= fs[i].info.alignment
       /\ \A p \in Alive : p # o => occupied_blobs[p].bound \cap fs[i].bound = {}
       /\ \A p \in met : ~ {p[1], p[2]} \subseteq fs[i].bound
  /\ Disjoint(fs)
  /\ \A q \in Ended \cup {o} : \/ \E p \in Alive : p # o /\ q \in occupied_blobs[p].bound
                               \/ \E i \in DOMAIN fs : q \in fs[i].bound

LEMMA FreedList ==
  ASSUME LifetimeInv, NEW o \in Objects, o \in Alive, NEW size \in Sizes, NEW alignment \in Alignments
  PROVE  Freeing(o, FreedBlobs(o, Info(size, alignment)), EndedElements(o, Info(size, alignment)))
<1> DEFINE fs == FreedBlobs(o, Info(size, alignment))
           elements == EndedElements(o, Info(size, alignment))
           info == Info(size, alignment)
           b == occupied_blobs[o]
           head == Freed(b, o, info)
<1>0. BoundInv /\ BoundOnce /\ MetInv /\ RoundInv
  BY DEF LifetimeInv
<1>1. info \in Infos /\ info.alignment = alignment
  BY LifetimeAssumption DEF LifetimeAssumption, Info, Infos
<1>2. /\ b \in MemoryBlobs /\ b.info \in Infos /\ b.bound \subseteq Objects
      /\ b.bound \subseteq Ended \cup {o} /\ Carries(b)
  <2>1. b \in MemoryBlobs /\ b.info \in Infos /\ b.bound \subseteq Ended \cup {o}
    BY RoundFacts
  <2>2. b.bound \subseteq Objects
    BY <2>1 DEF MemoryBlobs
  <2> QED
    BY <1>0, <2>1, <2>2 DEF BoundInv
<1> HIDE DEF info, b, fs, elements
<1>3. /\ head.info = Widened(b.info, info) /\ head.bound = b.bound \cup {o}
      /\ head \in MemoryBlobs
  <2>1. Widened(b.info, info) \in Infos
    BY <1>1, <1>2, InfoType
  <2> QED
    BY <1>2, <2>1 DEF Freed, MemoryBlobs
<1> HIDE DEF head
<1>4. /\ fs \in Seq(MemoryBlobs) /\ 1 \in DOMAIN fs /\ fs[1] = head
      /\ \A i \in DOMAIN fs : i # 1 => i - 1 \in DOMAIN free_blobs /\ fs[i] = free_blobs[i - 1]
      /\ \A j \in DOMAIN free_blobs : j + 1 \in DOMAIN fs /\ fs[j + 1] = free_blobs[j]
      /\ \A i \in DOMAIN fs : i \in Nat /\ i >= 1
  <2>1. fs = <<head>> \o free_blobs /\ free_blobs \in Seq(MemoryBlobs)
    BY RoundFacts DEF head, b, info, fs, FreedBlobs
  <2> QED
    BY <1>3, <2>1
<1>5. /\ DOMAIN elements = Elements /\ elements[o] = [info |-> info, ended |-> TRUE]
      /\ \A q \in Elements : q # o => elements[q] = active_elements[q]
      /\ o \in Elements
  BY RoundFacts DEF Elements, info, elements, EndedElements
<1>6. elements[o].info = info /\ elements[o].ended
      /\ elements[o] \in [info : Infos, ended : BOOLEAN]
  BY <1>1, <1>5
<1>7. ASSUME NEW q \in Elements
      PROVE  /\ elements[q] \in [info : Infos, ended : BOOLEAN] /\ elements[q].info \in Infos
             /\ elements[q].info.alignment \in Alignments \cup {0}
             /\ (elements[q].ended <=> q \in Ended \cup {o})
  <2>1. CASE q = o
    BY <1>1, <1>6, <2>1
  <2>2. CASE q # o
    BY <1>0, <1>5, <2>2, RoundFacts DEF RoundInv, Ended
  <2> QED
    BY <2>1, <2>2
<1>8. ASSUME NEW i \in DOMAIN fs, i # 1
      PROVE  /\ fs[i].bound \subseteq Ended /\ Carries(fs[i])
             /\ \A p \in Alive : occupied_blobs[p].bound \cap fs[i].bound = {}
             /\ \A p \in met : ~ {p[1], p[2]} \subseteq fs[i].bound
  <2>1. i - 1 \in DOMAIN free_blobs /\ fs[i] = free_blobs[i - 1]
    BY <1>4, <1>8
  <2>2. fs[i].bound \subseteq Ended /\ Carries(fs[i])
    BY <1>0, <2>1 DEF BoundInv
  <2>3. \A p \in Alive : occupied_blobs[p].bound \cap fs[i].bound = {}
    BY <1>0, <2>1 DEF BoundOnce
  <2>4. \A p \in met : ~ {p[1], p[2]} \subseteq fs[i].bound
    BY <1>0, <2>1 DEF MetInv
  <2> QED
    BY <2>2, <2>3, <2>4
<1>9. ASSUME NEW i \in DOMAIN fs
      PROVE  /\ fs[i].bound \subseteq Ended \cup {o} /\ fs[i].bound \subseteq Elements
             /\ fs[i].info.alignment \in Alignments \cup {0}
             /\ \A q \in fs[i].bound : /\ elements[q].info.size <= fs[i].info.size
                                       /\ elements[q].info.alignment <= fs[i].info.alignment
             /\ \A p \in Alive : p # o => occupied_blobs[p].bound \cap fs[i].bound = {}
             /\ \A p \in met : ~ {p[1], p[2]} \subseteq fs[i].bound
  <2>1. CASE i # 1
    <3>1. o \notin Ended /\ Ended \subseteq Elements
      BY RoundFacts
    <3>2. \A q \in fs[i].bound : /\ elements[q].info.size <= fs[i].info.size
                                 /\ elements[q].info.alignment <= fs[i].info.alignment
      BY <1>5, <1>8, <2>1, <3>1 DEF Carries
    <3> QED
      BY <1>8, <2>1, <3>1, <3>2 DEF Carries
  <2>2. CASE i = 1
    <3>1. fs[i].info = Widened(b.info, info) /\ fs[i].bound = b.bound \cup {o}
      BY <1>3, <1>4, <2>2
    <3>2. fs[i].bound \subseteq Ended \cup {o} /\ fs[i].bound \subseteq Elements
      BY <1>2, <3>1, RoundFacts
    <3>3. /\ b.info.size \in Nat /\ b.info.alignment \in Nat /\ info.size \in Nat
          /\ info.alignment \in Nat /\ fs[i].info.size \in Nat /\ fs[i].info.alignment \in Nat
          /\ b.info.size <= fs[i].info.size /\ b.info.alignment <= fs[i].info.alignment
          /\ info.size <= fs[i].info.size /\ info.alignment <= fs[i].info.alignment
          /\ fs[i].info.alignment \in {b.info.alignment, info.alignment}
      BY <1>1, <1>2, <3>1, InfoType
    <3>4. fs[i].info.alignment \in Alignments \cup {0}
      BY <1>1, <1>2, <3>3 DEF Carries
    <3>5. ASSUME NEW q \in fs[i].bound
          PROVE  /\ elements[q].info.size <= fs[i].info.size
                 /\ elements[q].info.alignment <= fs[i].info.alignment
      <4>1. CASE q = o
        BY <1>6, <3>3, <4>1
      <4>2. CASE q # o
        <5>1. q \in b.bound /\ q \in Elements /\ elements[q] = active_elements[q]
          BY <1>5, <3>1, <3>2, <4>2
        <5>2. elements[q].info.size <= b.info.size /\ elements[q].info.alignment <= b.info.alignment
          BY <1>2, <5>1 DEF Carries
        <5>3. elements[q].info.size \in Nat /\ elements[q].info.alignment \in Nat
          BY <1>7, <5>1, InfoType
        <5> QED
          BY <3>3, <5>2, <5>3
      <4> QED
        BY <4>1, <4>2
    <3>6. ASSUME NEW p \in Alive, p # o PROVE occupied_blobs[p].bound \cap fs[i].bound = {}
      <4>1. occupied_blobs[p].bound \cap b.bound = {}
        BY <1>0, <3>6 DEF BoundOnce, b
      <4>2. o \notin occupied_blobs[p].bound
        BY <3>6, RoundFacts
      <4> QED
        BY <3>1, <4>1, <4>2
    <3>7. \A p \in met : ~ {p[1], p[2]} \subseteq fs[i].bound
      BY <1>0, <3>1 DEF MetInv, b
    <3> QED
      BY <3>2, <3>4, <3>5, <3>6, <3>7
  <2> QED
    BY <2>1, <2>2
<1>10. ASSUME NEW i \in DOMAIN fs, NEW j \in DOMAIN fs, i # j
       PROVE  fs[i].bound \cap fs[j].bound = {}
  <2>1. ASSUME NEW k \in DOMAIN fs, k # 1 PROVE fs[1].bound \cap fs[k].bound = {}
    <3>1. b.bound \cap fs[k].bound = {} /\ o \notin fs[k].bound
      BY <1>8, <2>1, RoundFacts DEF b
    <3> QED
      BY <1>3, <1>4, <3>1
  <2>2. CASE i # 1 /\ j # 1
    <3>1. /\ i - 1 \in DOMAIN free_blobs /\ fs[i] = free_blobs[i - 1]
          /\ j - 1 \in DOMAIN free_blobs /\ fs[j] = free_blobs[j - 1]
      BY <1>4, <2>2
    <3>2. i - 1 # j - 1
      BY <1>4, <1>10
    <3> QED
      BY <1>0, <3>1, <3>2 DEF BoundOnce
  <2> QED
    BY <1>10, <2>1, <2>2
<1>11. ASSUME NEW q \in Ended \cup {o}
       PROVE  \/ \E p \in Alive : p # o /\ q \in occupied_blobs[p].bound
              \/ \E i \in DOMAIN fs : q \in fs[i].bound
  <2>1. CASE q \in fs[1].bound
    BY <1>4, <2>1
  <2>2. CASE q \notin fs[1].bound
    <3>1. q # o /\ q \notin b.bound /\ q \in Ended
      BY <1>3, <1>4, <2>2
    <3>2. \/ \E p \in Alive : q \in occupied_blobs[p].bound
          \/ \E j \in DOMAIN free_blobs : q \in free_blobs[j].bound
      BY <1>0, <3>1 DEF BoundInv
    <3>3. CASE \E p \in Alive : q \in occupied_blobs[p].bound
      BY <3>1, <3>3 DEF b
    <3>4. CASE \E j \in DOMAIN free_blobs : q \in free_blobs[j].bound
      BY <1>4, <3>4
    <3> QED
      BY <3>2, <3>3, <3>4
  <2> QED
    BY <2>1, <2>2
<1> QED
  BY <1>4, <1>5, <1>7, <1>9, <1>10, <1>11 DEF Freeing, Disjoint, fs, elements

\* Others of the round are still alive.
LEMMA EndKeepsRound ==
  ASSUME LifetimeInv, NEW o \in Objects, NEW size \in Sizes, NEW alignment \in Alignments,
         End(o, size, alignment), finalized' = finalized, derived' = derived,
         active_group' = active_group,
         active_elements' = EndedElements(o, Info(size, alignment)),
         free_blobs' = FreedBlobs(o, Info(size, alignment)),
         \E p \in DOMAIN active_elements' : ~active_elements'[p].ended
  PROVE  LifetimeInv'
<1>0. /\ LifetimeTypeOK /\ RoundInv /\ BoundInv /\ BoundOnce /\ MetInv /\ FitsInv
      /\ OutermostGroupMaps /\ MeetingApart
  BY DEF LifetimeInv
<1>1. /\ o \in Alive /\ occupied_blobs' = Without(occupied_blobs, o)
      /\ met' = met /\ outermost' = outermost
  BY DEF End, history
<1>2. /\ blobs' = blobs /\ blob_mappings' = blob_mappings /\ blob' = blob
      /\ offset_mappings' = offset_mappings
  BY DEF derived
<1>freed. Freeing(o, free_blobs', active_elements')
  BY <1>1, FreedList
<1>3. /\ Elements' = Elements /\ free_blobs' \in Seq(MemoryBlobs)
      /\ \A q \in Elements : /\ active_elements'[q] \in [info : Infos, ended : BOOLEAN]
                             /\ active_elements'[q].info.alignment \in Alignments \cup {0}
                             /\ (active_elements'[q].ended <=> q \in Ended \cup {o})
      /\ \A q \in Elements : q # o => active_elements'[q] = active_elements[q]
      /\ \A q \in Ended \cup {o} : \/ \E p \in Alive : p # o /\ q \in occupied_blobs[p].bound
                                   \/ \E i \in DOMAIN free_blobs' : q \in free_blobs'[i].bound
  BY <1>freed DEF Elements, Freeing
<1>4. /\ \A i \in DOMAIN free_blobs' :
           /\ free_blobs'[i].bound \subseteq Ended \cup {o}
           /\ free_blobs'[i].info.alignment \in Alignments \cup {0}
           /\ \A q \in free_blobs'[i].bound :
                /\ active_elements'[q].info.size <= free_blobs'[i].info.size
                /\ active_elements'[q].info.alignment <= free_blobs'[i].info.alignment
           /\ \A p \in Alive : p # o => occupied_blobs[p].bound \cap free_blobs'[i].bound = {}
           /\ \A p \in met : ~ {p[1], p[2]} \subseteq free_blobs'[i].bound
      /\ \A i, j \in DOMAIN free_blobs' : i # j => free_blobs'[i].bound \cap free_blobs'[j].bound = {}
  BY <1>freed DEF Freeing, Disjoint
<1>5. Alive' = Alive \ {o} /\ \A p \in Alive' : p \in Alive /\ p # o /\ occupied_blobs'[p] = occupied_blobs[p]
  BY <1>1 DEF Alive, Without
<1>6. Ended' = Ended \cup {o}
  <2>1. \A q : q \in Ended' <=> q \in Elements' /\ active_elements'[q].ended
    BY DEF Ended
  <2>2. Ended \cup {o} \subseteq Elements
    BY <1>1, RoundFacts
  <2> QED
    BY <1>3, <2>1, <2>2
<1>7. Alive' # {} /\ Alive # {}
  <2>1. PICK p \in Elements : ~active_elements'[p].ended
    BY <1>3 DEF Elements
  <2>2. p \notin Ended \cup {o}
    BY <1>3, <2>1
  <2> QED
    BY <1>5, <2>2, RoundFacts
<1>8. LifetimeTypeOK'
  <2>1. IsPartial(active_elements', Objects, [info : Infos, ended : BOOLEAN])
    <3>1. active_elements' = [q \in DOMAIN active_elements' |-> active_elements'[q]]
      BY DEF EndedElements
    <3>2. DOMAIN active_elements' \subseteq Objects
      BY <1>3, RoundFacts DEF Elements
    <3>3. \A q \in DOMAIN active_elements' : active_elements'[q] \in [info : Infos, ended : BOOLEAN]
      BY <1>3 DEF Elements
    <3> QED
      BY <3>1, <3>2, <3>3, PartialFacts
  <2>2. IsPartial(occupied_blobs', Objects, MemoryBlobs)
    BY <1>0, <1>1, ShortenedPartial DEF LifetimeTypeOK
  <2>3. DOMAIN outermost' = Managed'
    BY <1>0, <1>1, <1>3 DEF LifetimeTypeOK, Managed, Elements
  <2>4. Alive' = {q \in DOMAIN active_elements' : ~active_elements'[q].ended}
    <3>1. \A q \in Elements : ~active_elements'[q].ended <=> q \in Alive \ {o}
      BY <1>3, RoundFacts
    <3>2. Alive \ {o} \subseteq Elements /\ DOMAIN active_elements' = Elements
      BY <1>3, RoundFacts DEF Elements
    <3> QED
      BY <1>5, <3>1, <3>2
  <2>5. active_group # NoGroup
    BY <1>7, RoundFacts
  <2>6. LifetimeTypeOK
    BY <1>0
  <2> QED
    BY <1>1, <1>2, <1>3, <1>7, <2>1, <2>2, <2>3, <2>4, <2>5, <2>6 DEF LifetimeTypeOK
<1>9. RoundInv'
  BY <1>0, <1>1, <1>3 DEF RoundInv
<1>10. BoundInv'
  <2>1. ASSUME NEW p \in Alive'
        PROVE  occupied_blobs'[p].bound \subseteq Ended' \cup {p} /\ Carries(occupied_blobs[p])'
    <3>1. /\ occupied_blobs[p].bound \subseteq Ended \cup {p} /\ Carries(occupied_blobs[p])
          /\ occupied_blobs'[p] = occupied_blobs[p] /\ p # o /\ p \in Alive
      BY <1>0, <1>5 DEF BoundInv
    <3>2. occupied_blobs[p].bound \subseteq Elements /\ o \notin occupied_blobs[p].bound
      BY <1>1, <3>1, RoundFacts
    <3> QED
      BY <1>3, <1>6, <3>1, <3>2 DEF Carries
  <2>2. ASSUME NEW i \in DOMAIN free_blobs'
        PROVE  free_blobs'[i].bound \subseteq Ended' /\ Carries(free_blobs[i])'
    BY <1>4, <1>6 DEF Carries
  <2>3. ASSUME NEW q \in Ended'
        PROVE  \/ \E p \in Alive' : q \in occupied_blobs'[p].bound
               \/ \E i \in DOMAIN free_blobs' : q \in free_blobs'[i].bound
    BY <1>3, <1>5, <1>6
  <2> QED
    BY <2>1, <2>2, <2>3 DEF BoundInv
<1>11. BoundOnce'
  <2>1. \A p, q \in Alive' : p # q => occupied_blobs'[p].bound \cap occupied_blobs'[q].bound = {}
    BY <1>0, <1>5 DEF BoundOnce
  <2>2. \A p \in Alive' : \A i \in DOMAIN free_blobs' :
          occupied_blobs'[p].bound \cap free_blobs'[i].bound = {}
    BY <1>4, <1>5
  <2> QED
    BY <1>4, <2>1, <2>2 DEF BoundOnce
<1>12. MetInv'
  <2>1. ASSUME NEW p \in met
        PROVE  /\ {p[1], p[2]} \subseteq Elements \/ {p[1], p[2]} \subseteq DOMAIN finalized
               /\ \A x \in Alive' : ~ {p[1], p[2]} \subseteq occupied_blobs'[x].bound \cup {x}
    BY <1>0, <1>5 DEF MetInv
  <2> QED
    BY <1>1, <1>3, <1>4, <2>1 DEF MetInv
<1>13. FitsInv'
  BY <1>0, <1>2 DEF FitsInv, Fits
<1>14. OutermostGroupMaps'
  BY <1>0, <1>1, <1>2 DEF OutermostGroupMaps
<1>15. MeetingApart'
  BY <1>0, <1>1, <1>2 DEF MeetingApart, BlobsApart, OffsetsApart
<1> QED
  BY <1>8, <1>9, <1>10, <1>11, <1>12, <1>13, <1>14, <1>15 DEF LifetimeInv

\* o was the last one alive: the round is over.
LEMMA EndClosesRound ==
  ASSUME LifetimeInv, NEW o \in Objects, NEW size \in Sizes, NEW alignment \in Alignments,
         o \in Alive, occupied_blobs' = Without(occupied_blobs, o), history' = history,
         NEW fs, fs = FreedBlobs(o, Info(size, alignment)),
         NEW elements, elements = EndedElements(o, Info(size, alignment)),
         \A p \in DOMAIN elements : elements[p].ended,
         UpdateBlobsAndMappings(fs),
         finalized' = Over(finalized, elements),
         active_elements' = <<>>, active_group' = NoGroup, free_blobs' = <<>>
  PROVE  LifetimeInv'
<1> DEFINE g == active_group
           alignments == Alignments \cup {0}
           at == OffsetOf(fs, MaxAlignment(fs))
<1>0. /\ LifetimeTypeOK /\ RoundInv /\ BoundInv /\ BoundOnce /\ MetInv /\ FitsInv
      /\ OutermostGroupMaps /\ MeetingApart
  BY DEF LifetimeInv
<1>1. met' = met /\ outermost' = outermost
  BY DEF history
<1>2. /\ fs \in Seq(MemoryBlobs) /\ DOMAIN elements = Elements
      /\ \A q \in Elements : /\ elements[q] \in [info : Infos, ended : BOOLEAN]
                             /\ elements[q].info \in Infos
                             /\ elements[q].info.alignment \in alignments
                             /\ q \in Ended \cup {o}
      /\ \A i \in DOMAIN fs :
           /\ fs[i].bound \subseteq Elements
           /\ fs[i].info.alignment \in alignments
           /\ \A q \in fs[i].bound : /\ elements[q].info.size <= fs[i].info.size
                                     /\ elements[q].info.alignment <= fs[i].info.alignment
           /\ \A p \in met : ~ {p[1], p[2]} \subseteq fs[i].bound
      /\ Disjoint(fs)
      /\ \A q \in Ended \cup {o} : \/ \E p \in Alive : p # o /\ q \in occupied_blobs[p].bound
                                   \/ \E i \in DOMAIN fs : q \in fs[i].bound
  <2>1. Freeing(o, fs, elements)
    BY FreedList
  <2> QED
    BY <2>1 DEF Freeing
<1>3. Alive = {o} /\ Alive' = {} /\ Elements' = {} /\ Ended' = {}
  <2>1. Alive = {o}
    BY <1>2, RoundFacts
  <2>2. Alive' = {}
    BY <2>1 DEF Alive, Without
  <2> QED
    BY <2>1, <2>2 DEF Elements, Ended
<1>4. /\ \A q \in Elements : \E i \in DOMAIN fs : q \in fs[i].bound
      /\ UNION {fs[i].bound : i \in DOMAIN fs} = Elements
  <2>1. ASSUME NEW q \in Elements PROVE \E i \in DOMAIN fs : q \in fs[i].bound
    <3>1. q \in Ended \cup {o}
      BY <1>2
    <3> QED
      BY <1>2, <1>3, <3>1
  <2>2. \A i \in DOMAIN fs : fs[i].bound \subseteq Elements
    BY <1>2
  <2> QED
    BY <2>1, <2>2
<1>5. g \in Groups
  BY RoundFacts
<1>6. /\ DOMAIN finalized' = DOMAIN finalized \cup Elements
      /\ \A q \in DOMAIN finalized : finalized'[q] = finalized[q]
      /\ \A q \in Elements : finalized'[q] = elements[q]
      /\ Elements \cap DOMAIN finalized = {}
  BY <1>2, RoundFacts DEF Over
<1>7. /\ blob \in Infos /\ blobs \in Seq(Infos)
      /\ DOMAIN blob_mappings = Groups /\ DOMAIN offset_mappings = Groups
      /\ \A k \in Groups : /\ IsPartial(blob_mappings[k], Objects, Nat)
                           /\ IsPartial(offset_mappings[k], Objects, Nat)
                           /\ DOMAIN blob_mappings[k] \subseteq DOMAIN finalized
                           /\ DOMAIN offset_mappings[k] = DOMAIN blob_mappings[k]
  BY <1>0 DEF LifetimeTypeOK, OutermostGroupMaps
<1>8. /\ blobs' = UpdatedBlobs(fs) /\ blob' = UpdatedBlob(fs)
      /\ blob' \in Infos /\ blob'.alignment = MaxAlignment(fs)
      /\ MaxAlignment(fs) \in Nat
  BY <1>2, <1>7, UpdatedBlobFacts, MaxAlignmentFacts DEF UpdateBlobsAndMappings
<1>9. /\ DOMAIN at = DOMAIN fs
      /\ \A i \in DOMAIN fs : /\ at[i] \in Nat /\ Aligned(at[i], MaxAlignment(fs))
                              /\ at[i] + fs[i].info.size <= blob'.size
      /\ \A i, j \in DOMAIN fs : i < j => at[i] + fs[i].info.size <= at[j]
  <2>1. /\ DOMAIN at = DOMAIN fs
        /\ \A i \in DOMAIN fs : /\ at[i] \in Nat /\ Aligned(at[i], MaxAlignment(fs))
                                /\ at[i] + fs[i].info.size <= AggregatedSize(fs) + Len(fs) * MaxAlignment(fs)
        /\ \A i, j \in DOMAIN fs : i < j => at[i] + fs[i].info.size <= at[j]
    <3>1. fs \in Seq(MemoryBlobs) /\ MaxAlignment(fs) \in Nat
      BY <1>2, <1>8
    <3> QED
      BY <3>1, OffsetFacts
  <2>2. PICK whole \in Nat : whole = AggregatedSize(fs) + Len(fs) * MaxAlignment(fs)
    <3>1. AggregatedSize(fs) \in Nat /\ Len(fs) \in Nat
      BY <1>2, <1>8, OffsetFacts, BlobType
    <3>2. Len(fs) * MaxAlignment(fs) \in Nat
      BY <1>8, <3>1, SMT
    <3> QED
      BY <3>1, <3>2
  <2>3. whole <= blob'.size /\ blob'.size \in Nat
    BY <1>2, <1>7, <1>8, <2>2, UpdatedBlobFacts, InfoType
  <2>4. \A i \in DOMAIN fs : fs[i].info.size \in Nat
    BY <1>2, BlobType
  <2>5. \A i \in DOMAIN fs : at[i] + fs[i].info.size <= whole
    BY <2>1, <2>2
  <2> HIDE DEF at
  <2>6. \A i \in DOMAIN fs : at[i] + fs[i].info.size <= blob'.size
    BY <2>1, <2>2, <2>3, <2>4, <2>5
  <2> QED
    BY <2>1, <2>6
<1> DEFINE places == [i \in DOMAIN fs |-> BlobIndex(fs, i)]
<1>10. /\ blob_mappings' = [blob_mappings EXCEPT ![g] = Over(Mapped(fs, places), blob_mappings[g])]
       /\ offset_mappings' = [offset_mappings EXCEPT ![g] = Over(Mapped(fs, at), offset_mappings[g])]
  <2>1. offset_mappings' = [offset_mappings EXCEPT ![g] =
                              Over(Mapped(fs, OffsetOf(fs, blob'.alignment)), offset_mappings[g])]
    BY DEF UpdateBlobsAndMappings
  <2> QED
    BY <1>8, <2>1 DEF UpdateBlobsAndMappings
<1>11. \A i \in DOMAIN fs : places[i] = Rank(fs, i) /\ places[i] \in Nat
  <2>1. \A i \in DOMAIN fs : Rank(fs, i) \in 0 .. Len(fs) - 1
    BY <1>2, RankFacts
  <2>2. Len(fs) \in Nat
    BY <1>2, BlobType
  <2>3. \A i \in DOMAIN fs : Rank(fs, i) \in Nat
    BY <2>1, <2>2
  <2> QED
    BY <2>3 DEF BlobIndex
<1> HIDE DEF g, at, places
\* The mappings, object by object.
<1>12. /\ DOMAIN blob_mappings' = Groups /\ DOMAIN offset_mappings' = Groups
       /\ \A k \in Groups : k # g => /\ blob_mappings'[k] = blob_mappings[k]
                                     /\ offset_mappings'[k] = offset_mappings[k]
       /\ blob_mappings'[g] = Over(Mapped(fs, places), blob_mappings[g])
       /\ offset_mappings'[g] = Over(Mapped(fs, at), offset_mappings[g])
  BY <1>5, <1>7, <1>10
<1>13. /\ DOMAIN blob_mappings'[g] = Elements \cup DOMAIN blob_mappings[g]
       /\ DOMAIN offset_mappings'[g] = Elements \cup DOMAIN offset_mappings[g]
       /\ \A q \in DOMAIN blob_mappings[g] :
            /\ blob_mappings'[g][q] = blob_mappings[g][q]
            /\ offset_mappings'[g][q] = offset_mappings[g][q]
       /\ \A i \in DOMAIN fs : \A q \in fs[i].bound :
            blob_mappings'[g][q] = Rank(fs, i) /\ offset_mappings'[g][q] = at[i]
  <2>1. /\ DOMAIN Mapped(fs, places) = Elements /\ DOMAIN Mapped(fs, at) = Elements
        /\ \A i \in DOMAIN fs : \A q \in fs[i].bound :
             Mapped(fs, places)[q] = places[i] /\ Mapped(fs, at)[q] = at[i]
    <3>1. Disjoint(fs) /\ fs \in Seq(MemoryBlobs)
      BY <1>2
    <3>2. DOMAIN Mapped(fs, places) = UNION {fs[i].bound : i \in DOMAIN fs}
      BY <3>1, MappedAll
    <3>3. DOMAIN Mapped(fs, at) = UNION {fs[i].bound : i \in DOMAIN fs}
      BY <3>1, MappedAll
    <3>4. ASSUME NEW i \in DOMAIN fs, NEW q \in fs[i].bound
          PROVE  Mapped(fs, places)[q] = places[i] /\ Mapped(fs, at)[q] = at[i]
      <4>1. Mapped(fs, places)[q] = places[i]
        BY <3>1, MappedFacts
      <4>2. Mapped(fs, at)[q] = at[i]
        BY <3>1, MappedFacts
      <4> QED
        BY <4>1, <4>2
    <3> QED
      BY <1>4, <3>2, <3>3, <3>4
  <2>2. \A q \in DOMAIN blob_mappings[g] : q \notin Elements /\ q \in DOMAIN offset_mappings[g]
    BY <1>5, <1>6, <1>7
  <2>3. \A i \in DOMAIN fs : \A q \in fs[i].bound : q \in Elements
    BY <1>2
  <2> QED
    BY <1>11, <1>12, <2>1, <2>2, <2>3 DEF Over
<1>14. LifetimeTypeOK'
  <2>1. IsPartial(<<>>, Objects, [info : Infos, ended : BOOLEAN])
    BY DEF IsPartial
  <2>2. IsPartial(occupied_blobs', Objects, MemoryBlobs)
    BY <1>0, ShortenedPartial DEF LifetimeTypeOK
  <2>3. IsPartial(finalized', Objects, [info : Infos, ended : {TRUE}])
    <3>1. \A q \in DOMAIN elements : elements[q] \in [info : Infos, ended : {TRUE}]
      BY <1>2
    <3>2. DOMAIN elements \subseteq Objects
      BY <1>2, RoundFacts
    <3>3. elements = [q \in DOMAIN elements |-> elements[q]]
      BY DEF EndedElements
    <3>4. IsPartial(elements, Objects, [info : Infos, ended : {TRUE}])
      BY <3>1, <3>2, <3>3, PartialFacts
    <3>5. IsPartial(finalized, Objects, [info : Infos, ended : {TRUE}])
      BY <1>0 DEF LifetimeTypeOK
    <3> QED
      BY <3>4, <3>5, JoinedPartial
  <2>4. blobs' \in Seq(Infos)
    BY <1>2, <1>7, <1>8, UpdatedBlobsFacts
  <2>5. ASSUME NEW k \in Groups
        PROVE  /\ IsPartial(blob_mappings'[k], Objects, Nat)
               /\ IsPartial(offset_mappings'[k], Objects, Nat)
    <3>1. CASE k # g
      BY <1>7, <1>12, <3>1
    <3>2. CASE k = g
      <4>1. fs \in Seq(MemoryBlobs) /\ Disjoint(fs)
        BY <1>2
      <4>2. \A i \in DOMAIN fs : places[i] \in Nat
        BY <1>11
      <4>3. \A i \in DOMAIN fs : at[i] \in Nat
        BY <1>9
      <4>4. IsPartial(Mapped(fs, places), Objects, Nat)
        BY <4>1, <4>2, MappedPartial
      <4>5. IsPartial(Mapped(fs, at), Objects, Nat)
        BY <4>1, <4>3, MappedPartial
      <4>6. IsPartial(blob_mappings[g], Objects, Nat) /\ IsPartial(offset_mappings[g], Objects, Nat)
        BY <1>5, <1>7
      <4> QED
        BY <1>12, <3>2, <4>4, <4>5, <4>6, JoinedPartial
    <3> QED
      BY <3>1, <3>2
  <2>6. DOMAIN outermost' = Managed'
    <3>1. DOMAIN outermost = Elements \cup DOMAIN finalized
      BY RoundFacts
    <3>2. Managed' = DOMAIN finalized'
      BY <1>3 DEF Managed, Elements
    <3> QED
      BY <1>1, <1>6, <3>1, <3>2
  <2>7. Alive' = {q \in DOMAIN active_elements' : ~active_elements'[q].ended}
    BY <1>3 DEF Elements
  <2>8. met' \subseteq Objects \X Objects /\ IsPartial(outermost', Objects, Groups)
    BY <1>0, <1>1 DEF LifetimeTypeOK
  <2>9. free_blobs' \in Seq(MemoryBlobs)
    OBVIOUS
  <2> QED
    BY <1>3, <1>8, <1>12, <2>1, <2>2, <2>3, <2>4, <2>5, <2>6, <2>7, <2>8, <2>9 DEF LifetimeTypeOK
<1>15. RoundInv'
  <2>1. \A q \in DOMAIN finalized : finalized[q].info.alignment \in alignments
    BY <1>0 DEF RoundInv
  <2>2. \A q \in DOMAIN finalized' : finalized'[q].info.alignment \in alignments
    BY <1>2, <1>6, <2>1
  <2> QED
    BY <1>3, <2>2 DEF RoundInv
<1>16. BoundInv' /\ BoundOnce' /\ MetInv'
  <2>1. DOMAIN free_blobs' = {}
    OBVIOUS
  <2>2. \A p \in met : {p[1], p[2]} \subseteq DOMAIN finalized'
    BY <1>0, <1>6 DEF MetInv
  <2> QED
    BY <1>1, <1>3, <2>1, <2>2 DEF BoundInv, BoundOnce, MetInv
<1>17. FitsInv'
  <2>1. blob'.alignment \in alignments
    <3>1. blob'.alignment \in {blob.alignment} \cup {fs[i].info.alignment : i \in DOMAIN fs}
      BY <1>2, <1>7, <1>8, MaxAlignmentFacts
    <3>2. blob.alignment \in alignments
      BY <1>0 DEF FitsInv
    <3> QED
      BY <1>2, <3>1, <3>2
  <2>2. \A k \in DOMAIN blobs' : blobs'[k].alignment \in alignments
    <3>1. /\ 0 \in alignments /\ \A k \in DOMAIN blobs : blobs[k].alignment \in alignments
          /\ \A i \in DOMAIN fs : fs[i].info.alignment \in alignments
      BY <1>0, <1>2 DEF FitsInv
    <3> HIDE DEF alignments
    <3> QED
      BY <1>2, <1>7, <1>8, <3>1, UpdatedBlobsFacts
  <2>3. ASSUME NEW k \in Groups, NEW q \in DOMAIN blob_mappings[k] PROVE Fits(q, k)'
    <3>1. Fits(q, k) /\ q \in DOMAIN finalized /\ q \in DOMAIN offset_mappings[k]
      BY <1>0, <1>7 DEF FitsInv
    <3>2. /\ finalized'[q] = finalized[q] /\ blob_mappings'[k][q] = blob_mappings[k][q]
          /\ offset_mappings'[k][q] = offset_mappings[k][q]
      BY <1>6, <1>12, <1>13, <3>1
    <3> DEFINE b == blob_mappings[k][q] + 1
               info == finalized[q].info
    <3>3. b \in DOMAIN blobs' /\ blobs[b].size <= blobs'[b].size
          /\ blobs[b].alignment <= blobs'[b].alignment
      BY <1>2, <1>7, <1>8, <3>1, UpdatedBlobsFacts DEF Fits
    <3>4. /\ info \in Infos /\ blobs[b] \in Infos /\ blobs'[b] \in Infos
          /\ offset_mappings[k][q] \in Nat
      <4>1. info \in Infos /\ offset_mappings[k][q] \in Nat
        BY <1>0, <3>1 DEF LifetimeTypeOK, IsPartial
      <4>2. blobs[b] \in Infos /\ blobs'[b] \in Infos
        BY <1>7, <1>14, <3>1, <3>3 DEF Fits, LifetimeTypeOK
      <4> QED
        BY <4>1, <4>2
    <3>5. blob.size <= blob'.size /\ blob.alignment <= blob'.alignment
      BY <1>2, <1>7, <1>8, UpdatedBlobFacts, MaxAlignmentFacts
    <3>6. info.size <= blobs'[b].size /\ info.alignment <= blobs'[b].alignment
      BY <3>1, <3>3, <3>4, InfoType DEF Fits
    <3>7. offset_mappings[k][q] + info.size <= blob'.size /\ info.alignment <= blob'.alignment
      <4>1. /\ info.size \in Nat /\ info.alignment \in Nat /\ blob.size \in Nat
            /\ blob.alignment \in Nat /\ blob'.size \in Nat /\ blob'.alignment \in Nat
        BY <1>7, <1>8, <3>4, InfoType
      <4>2. offset_mappings[k][q] + info.size <= blob.size /\ info.alignment <= blob.alignment
        BY <3>1 DEF Fits
      <4> QED
        BY <3>4, <3>5, <4>1, <4>2
    <3> QED
      BY <3>1, <3>2, <3>3, <3>6, <3>7 DEF Fits
  <2>4. ASSUME NEW k \in Groups, k = g, NEW q \in Elements PROVE Fits(q, k)'
    <3>1. PICK i \in DOMAIN fs : q \in fs[i].bound
      BY <1>4
    <3> DEFINE info == elements[q].info
               b == Rank(fs, i) + 1
    <3>2. /\ finalized'[q].info = info /\ blob_mappings'[k][q] + 1 = b
          /\ offset_mappings'[k][q] = at[i]
      BY <1>6, <1>13, <2>4, <3>1
    <3>3. /\ info \in Infos /\ fs[i].info \in Infos /\ info.alignment \in alignments
          /\ info.size <= fs[i].info.size /\ info.alignment <= fs[i].info.alignment
      BY <1>2, <3>1, BlobType
    <3>4. /\ b \in DOMAIN blobs' /\ fs[i].info.size <= blobs'[b].size
          /\ fs[i].info.alignment <= blobs'[b].alignment
      BY <1>2, <1>7, <1>8, UpdatedBlobsFacts
    <3>5. blobs'[b] \in Infos
      BY <1>14, <3>4 DEF LifetimeTypeOK
    <3>6. /\ info.size \in Nat /\ info.alignment \in Nat
          /\ fs[i].info.size \in Nat /\ fs[i].info.alignment \in Nat
          /\ blobs'[b].size \in Nat /\ blobs'[b].alignment \in Nat
          /\ blob'.size \in Nat /\ blob'.alignment \in Nat
      BY <1>8, <3>3, <3>5, InfoType
    <3>7. fs[i].info.alignment <= blob'.alignment
      BY <1>2, <1>7, <1>8, MaxAlignmentFacts
    <3>8. /\ at[i] \in Nat /\ Aligned(at[i], blob'.alignment)
          /\ at[i] + fs[i].info.size <= blob'.size
      BY <1>8, <1>9
    <3>9. Aligned(at[i], info.alignment)
      <4> SUFFICES ASSUME info.alignment # 0 PROVE at[i] % info.alignment = 0
        BY DEF Aligned
      <4>1. 0 < info.alignment /\ info.alignment <= blob'.alignment
        BY <3>3, <3>6, <3>7
      <4>2. info.alignment \in Alignments /\ blob'.alignment \in Alignments
        BY <2>1, <3>3, <3>6, <4>1
      <4>3. blob'.alignment % info.alignment = 0
        BY <4>1, <4>2, LifetimeAssumption DEF LifetimeAssumption
      <4>4. at[i] % blob'.alignment = 0
        BY <3>6, <3>8, <4>1 DEF Aligned
      <4> HIDE DEF info
      <4> QED
        BY <3>6, <3>8, <4>1, <4>3, <4>4, AlignedTwice
    <3> HIDE DEF info, b
    <3>10. /\ info.size <= blobs'[b].size /\ info.alignment <= blobs'[b].alignment
           /\ at[i] + info.size <= blob'.size /\ info.alignment <= blob'.alignment
      BY <3>3, <3>4, <3>6, <3>7, <3>8, SMTT(60)
    <3> QED
      BY <3>2, <3>4, <3>9, <3>10 DEF Fits
  <2>5. ASSUME NEW k \in Groups, NEW q \in DOMAIN blob_mappings'[k] PROVE Fits(q, k)'
    <3>1. q \in DOMAIN blob_mappings[k] \/ (k = g /\ q \in Elements)
      BY <1>12, <1>13
    <3> QED
      BY <2>3, <2>4, <3>1
  <2> QED
    BY <2>1, <2>2, <2>5 DEF FitsInv
<1>18. OutermostGroupMaps'
  <2>1. \A q \in Elements : outermost[q] = g
    BY <1>0 DEF RoundInv, g
  <2>2. \A k \in Groups : DOMAIN blob_mappings[k] = {q \in DOMAIN finalized : outermost[q] = k}
    BY <1>0 DEF OutermostGroupMaps
  <2>3. ASSUME NEW k \in Groups
        PROVE  DOMAIN blob_mappings'[k] = {q \in DOMAIN finalized' : outermost[q] = k}
    <3>1. CASE k # g
      BY <1>6, <1>12, <2>1, <2>2, <3>1
    <3>2. CASE k = g
      BY <1>6, <1>13, <2>1, <2>2, <3>2
    <3> QED
      BY <3>1, <3>2
  <2>4. \A k \in Groups : DOMAIN offset_mappings'[k] = DOMAIN blob_mappings'[k]
    BY <1>5, <1>7, <1>12, <1>13
  <2> QED
    BY <1>1, <2>3, <2>4 DEF OutermostGroupMaps
<1>19. MeetingApart'
  <2> SUFFICES ASSUME NEW p \in met, NEW k \in Groups,
                      {p[1], p[2]} \subseteq DOMAIN blob_mappings'[k]
               PROVE  BlobsApart(p[1], p[2], k)' /\ OffsetsApart(p[1], p[2], k)'
    BY <1>1 DEF MeetingApart
  <2>1. CASE {p[1], p[2]} \subseteq DOMAIN blob_mappings[k]
    <3>1. BlobsApart(p[1], p[2], k) /\ OffsetsApart(p[1], p[2], k)
      BY <1>0, <2>1 DEF MeetingApart
    <3>2. \A q \in {p[1], p[2]} :
            /\ finalized'[q] = finalized[q] /\ blob_mappings'[k][q] = blob_mappings[k][q]
            /\ offset_mappings'[k][q] = offset_mappings[k][q]
      BY <1>6, <1>7, <1>12, <1>13, <2>1
    <3> QED
      BY <3>1, <3>2 DEF BlobsApart, OffsetsApart
  <2>2. CASE ~ {p[1], p[2]} \subseteq DOMAIN blob_mappings[k]
    <3>1. k = g /\ {p[1], p[2]} \subseteq Elements
      <4>1. k = g
        BY <1>12, <2>2
      <4>2. {p[1], p[2]} \subseteq Elements \/ {p[1], p[2]} \subseteq DOMAIN finalized
        BY <1>0 DEF MetInv
      <4> QED
        BY <1>6, <1>13, <2>2, <4>1, <4>2
    <3>2. PICK i \in DOMAIN fs : p[1] \in fs[i].bound
      BY <1>4, <3>1
    <3>3. PICK j \in DOMAIN fs : p[2] \in fs[j].bound
      BY <1>4, <3>1
    <3>4. i # j /\ i \in Nat /\ j \in Nat
      <4>1. ~ {p[1], p[2]} \subseteq fs[i].bound
        BY <1>2
      <4>2. DOMAIN fs = 1 .. Len(fs) /\ Len(fs) \in Nat
        BY <1>2, BlobType
      <4> QED
        BY <3>2, <3>3, <4>1, <4>2
    <3>5. /\ blob_mappings'[g][p[1]] = Rank(fs, i) /\ blob_mappings'[g][p[2]] = Rank(fs, j)
          /\ offset_mappings'[g][p[1]] = at[i] /\ offset_mappings'[g][p[2]] = at[j]
          /\ finalized'[p[1]] = elements[p[1]] /\ finalized'[p[2]] = elements[p[2]]
      BY <1>6, <1>13, <3>1, <3>2, <3>3
    <3>6. Rank(fs, i) # Rank(fs, j)
      BY <1>2, <3>4, RankFacts
    <3>7. /\ elements[p[1]].info.size <= fs[i].info.size
          /\ elements[p[2]].info.size <= fs[j].info.size
          /\ elements[p[1]].info.size \in Nat /\ elements[p[2]].info.size \in Nat
          /\ fs[i].info.size \in Nat /\ fs[j].info.size \in Nat
          /\ at[i] \in Nat /\ at[j] \in Nat
      BY <1>2, <1>9, <3>1, <3>2, <3>3, InfoType, BlobType
    <3>8. at[i] + fs[i].info.size <= at[j] \/ at[j] + fs[j].info.size <= at[i]
      BY <1>9, <3>4
    <3>9. \/ at[i] + elements[p[1]].info.size <= at[j]
          \/ at[j] + elements[p[2]].info.size <= at[i]
      BY <3>7, <3>8, SMTT(60)
    <3> QED
      BY <3>1, <3>5, <3>6, <3>9 DEF BlobsApart, OffsetsApart
  <2> QED
    BY <2>1, <2>2
<1> QED
  BY <1>14, <1>15, <1>16, <1>17, <1>18, <1>19 DEF LifetimeInv

LEMMA EndKeeps ==
  ASSUME LifetimeInv, NEW o \in Objects, NEW size \in Sizes, NEW alignment \in Alignments,
         End(o, size, alignment)
  PROVE  LifetimeInv'
<1> DEFINE fs == FreedBlobs(o, Info(size, alignment))
           elements == EndedElements(o, Info(size, alignment))
<1>1. /\ o \in Alive /\ occupied_blobs' = Without(occupied_blobs, o) /\ history' = history
      /\ \/ /\ \E p \in DOMAIN elements : ~elements[p].ended
            /\ active_elements' = elements /\ free_blobs' = fs
            /\ active_group' = active_group /\ finalized' = finalized /\ derived' = derived
         \/ /\ \A p \in DOMAIN elements : elements[p].ended
            /\ UpdateBlobsAndMappings(fs)
            /\ finalized' = Over(finalized, elements)
            /\ active_elements' = <<>> /\ active_group' = NoGroup /\ free_blobs' = <<>>
  BY DEF End, FreedBlobs, EndedElements
<1>2. CASE \E p \in DOMAIN elements : ~elements[p].ended
  BY <1>1, <1>2, EndKeepsRound
<1>3. CASE \A p \in DOMAIN elements : elements[p].ended
  <2> HIDE DEF fs, elements
  <2>1. fs = FreedBlobs(o, Info(size, alignment)) /\ elements = EndedElements(o, Info(size, alignment))
    BY DEF fs, elements
  <2> QED
    BY <1>1, <1>3, <2>1, EndClosesRound
<1> QED
  BY <1>2, <1>3

LEMMA LifetimeKept == LifetimeInv /\ UNCHANGED lifetime_vars => LifetimeInv'
<1> SUFFICES ASSUME LifetimeInv, UNCHANGED lifetime_vars PROVE LifetimeInv'
  OBVIOUS
<1> USE DEF lifetime_vars, base, derived, history
<1>1. LifetimeTypeOK'
  BY DEF LifetimeInv, LifetimeTypeOK, Alive, Managed
<1>2. RoundInv'
  BY DEF LifetimeInv, RoundInv, Elements
<1>3. BoundInv' /\ BoundOnce'
  BY DEF LifetimeInv, BoundInv, BoundOnce, Carries, Alive, Ended, Elements
<1>4. MetInv'
  BY DEF LifetimeInv, MetInv, Alive, Elements
<1>5. FitsInv'
  BY DEF LifetimeInv, FitsInv, Fits
<1>6. OutermostGroupMaps' /\ MeetingApart'
  BY DEF LifetimeInv, OutermostGroupMaps, MeetingApart, BlobsApart, OffsetsApart
<1> QED
  BY <1>1, <1>2, <1>3, <1>4, <1>5, <1>6 DEF LifetimeInv

-----------------------------------------------------------------------------
(* The memory of one round after the other, whoever starts and ends.       *)

LEMMA LifetimeStep == LifetimeInv /\ [Next]_vars => LifetimeInv'
<1> SUFFICES ASSUME LifetimeInv, [Next]_vars PROVE LifetimeInv'
  OBVIOUS
<1> USE WorkloadAssumption DEF WorkloadAssumption
<1>1. CASE \E x \in Objects : Acquire(x)
  <2>1. PICK x \in Objects : UNCHANGED lifetime_vars \/ Start(cross_group, x)
    BY <1>1 DEF Acquire
  <2> QED
    BY <2>1, StartKeeps, LifetimeKept
<1>2. CASE \E x \in Objects : Release(x)
  <2>1. PICK x \in Objects : \/ UNCHANGED lifetime_vars
                             \/ \E s \in Sizes, a \in Alignments : End(x, s, a)
    BY <1>2 DEF Release
  <2> QED
    BY <2>1, EndKeeps, LifetimeKept
<1>3. CASE ManageTemporary
  <2>1. PICK g \in Groups, o \in Temporaries : Start(g, o)
    BY <1>3 DEF ManageTemporary
  <2>2. o \in Objects
    OBVIOUS
  <2> QED
    BY <2>1, <2>2, StartKeeps
<1>4. CASE AllocateTemporary
  <2>1. PICK o \in Temporaries, s \in Sizes, a \in Alignments : End(o, s, a)
    BY <1>4 DEF AllocateTemporary
  <2>2. o \in Objects
    OBVIOUS
  <2> QED
    BY <2>1, <2>2, EndKeeps
<1>5. CASE NextTask \/ Populate \/ ExecuteTask \/ Proceed \/ AllConfigured \/ UNCHANGED vars
  <2>1. UNCHANGED lifetime_vars
    BY <1>5 DEF NextTask, Populate, ExecuteTask, Proceed, AllConfigured, vars
  <2> QED
    BY <2>1, LifetimeKept
<1> QED
  BY <1>1, <1>2, <1>3, <1>4, <1>5 DEF Next

\* The manager's invariants hold whoever calls it.
THEOREM LifetimeInvariant == Spec => []LifetimeInv
<1>1. Init => LifetimeInv
  BY LifetimeInitInv DEF Init
<1> QED
  BY <1>1, LifetimeStep, PTL DEF Spec

\* Objects that are alive together are mapped by one group, that of the
\* outermost function.
THEOREM MappedByOutermostGroup == Spec => []OutermostGroupMaps
<1>1. LifetimeInv => OutermostGroupMaps
  BY DEF LifetimeInv
<1> QED
  BY <1>1, LifetimeInvariant, PTL

\* Objects that were ever alive together share no memory.
THEOREM AliveTogetherApart == Spec => []MeetingApart
<1>1. LifetimeInv => MeetingApart
  BY DEF LifetimeInv
<1> QED
  BY <1>1, LifetimeInvariant, PTL

\* Of two alignments the larger is a multiple of the smaller.
LEMMA AlignmentsDivide ==
  ASSUME NEW a \in Alignments \cup {0}, NEW b \in Alignments \cup {0}, a <= b
  PROVE  Aligned(b, a)
<1> SUFFICES ASSUME a # 0 PROVE b % a = 0
  BY DEF Aligned
<1>1. a \in Nat /\ b \in Nat
  BY LifetimeAssumption DEF LifetimeAssumption
<1>2. 0 < a /\ b \in Alignments /\ a \in Alignments
  BY <1>1
<1> QED
  BY <1>2, LifetimeAssumption DEF LifetimeAssumption

\* The pool serves every object: room enough, and aligned as it asks.
THEOREM PoolServes == Spec => []MemoryServes
<1>1. ASSUME LifetimeInv PROVE MemoryServes
  <2> SUFFICES ASSUME NEW g \in Groups, NEW o \in DOMAIN blob_mappings[g]
               PROVE  BlobServes(o, g) /\ OffsetServes(o, g)
    BY DEF MemoryServes
  <2>1. Fits(o, g) /\ o \in DOMAIN finalized
    BY <1>1 DEF LifetimeInv, FitsInv, OutermostGroupMaps
  <2>2. finalized[o].info.alignment \in Alignments \cup {0}
    BY <1>1, <2>1 DEF LifetimeInv, RoundInv
  <2> DEFINE k == blob_mappings[g][o] + 1
  <2>3. /\ k \in DOMAIN blobs /\ finalized[o].info.size <= blobs[k].size
        /\ finalized[o].info.alignment <= blobs[k].alignment
        /\ offset_mappings[g][o] + finalized[o].info.size <= blob.size
        /\ finalized[o].info.alignment <= blob.alignment
        /\ Aligned(offset_mappings[g][o], finalized[o].info.alignment)
    BY <2>1 DEF Fits
  <2>4. blobs[k].alignment \in Alignments \cup {0} /\ blob.alignment \in Alignments \cup {0}
    BY <1>1, <2>3 DEF LifetimeInv, FitsInv
  <2>5. Aligned(blobs[k].alignment, finalized[o].info.alignment)
    BY <2>2, <2>3, <2>4, AlignmentsDivide
  <2>6. Aligned(blob.alignment, finalized[o].info.alignment)
    BY <2>2, <2>3, <2>4, AlignmentsDivide
  <2> QED
    BY <2>3, <2>5, <2>6 DEF BlobServes, OffsetServes
<1> QED
  BY <1>1, LifetimeInvariant, PTL

-----------------------------------------------------------------------------
(* The tasks, step by step.                                                *)

Typed(w) == w \in Seq([ins : Seq(Objects), outs : Seq(Objects)])

LEMMA SeqAt == ASSUME NEW S, NEW s \in Seq(S), NEW i \in DOMAIN s PROVE s[i] \in S
  OBVIOUS

LEMMA ConcatLength ==
  ASSUME NEW S, NEW s \in Seq(S), NEW u \in Seq(S)
  PROVE  s \o u \in Seq(S) /\ Len(s \o u) = Len(s) + Len(u)
  BY ConcatProperties

LEMMA ConcatLeft ==
  ASSUME NEW S, NEW s \in Seq(S), NEW u \in Seq(S), NEW k \in 1 .. Len(s)
  PROVE  (s \o u)[k] = s[k]
<1>1. Len(s) \in Nat /\ Len(u) \in Nat
  OBVIOUS
<1>2. k \in 1 .. Len(s) + Len(u) /\ k <= Len(s)
  BY <1>1
<1> QED
  BY <1>2, ConcatProperties

LEMMA ConcatRight ==
  ASSUME NEW S, NEW s \in Seq(S), NEW u \in Seq(S), NEW k \in 1 .. Len(u)
  PROVE  (s \o u)[Len(s) + k] = u[k]
<1>1. Len(s) \in Nat /\ Len(u) \in Nat
  OBVIOUS
<1>2. /\ Len(s) + k \in 1 .. Len(s) + Len(u) /\ ~ (Len(s) + k <= Len(s))
      /\ (Len(s) + k) - Len(s) = k
  BY <1>1
<1> QED
  BY <1>2, ConcatProperties

LEMMA TypedFacts ==
  ASSUME Typed(workload)
  PROVE  /\ Len(workload) \in Nat /\ DOMAIN workload = 1 .. Len(workload)
         /\ \A i \in DOMAIN workload :
              /\ Ins(i) \in Seq(Objects) /\ Outs(i) \in Seq(Objects)
              /\ Len(Ins(i)) \in Nat /\ DOMAIN Ins(i) = 1 .. Len(Ins(i))
              /\ Len(Outs(i)) \in Nat /\ DOMAIN Outs(i) = 1 .. Len(Outs(i))
              /\ Acquired(i) \in Nat /\ Handles(i) \subseteq Objects
<1>1. Len(workload) \in Nat /\ DOMAIN workload = 1 .. Len(workload)
  BY DEF Typed
<1>2. ASSUME NEW i \in DOMAIN workload
      PROVE  /\ Ins(i) \in Seq(Objects) /\ Outs(i) \in Seq(Objects)
             /\ Len(Ins(i)) \in Nat /\ DOMAIN Ins(i) = 1 .. Len(Ins(i))
             /\ Len(Outs(i)) \in Nat /\ DOMAIN Outs(i) = 1 .. Len(Outs(i))
             /\ Acquired(i) \in Nat /\ Handles(i) \subseteq Objects
  <2>1. workload[i] \in [ins : Seq(Objects), outs : Seq(Objects)]
    BY SeqAt DEF Typed
  <2>2. Ins(i) \in Seq(Objects) /\ Outs(i) \in Seq(Objects)
    BY <2>1 DEF Ins, Outs
  <2>3. /\ Len(Ins(i)) \in Nat /\ DOMAIN Ins(i) = 1 .. Len(Ins(i))
        /\ Len(Outs(i)) \in Nat /\ DOMAIN Outs(i) = 1 .. Len(Outs(i))
    BY <2>2
  <2>4. Handles(i) \subseteq Objects
    BY <2>2 DEF Handles, Range
  <2> QED
    BY <2>2, <2>3, <2>4 DEF Acquired
<1> QED
  BY <1>1, <1>2

\* The steps of a task: its inputs, its outputs, its inputs again.
LEMMA StepsFacts ==
  ASSUME Typed(workload), t \in DOMAIN workload
  PROVE  /\ Len(Steps) = Acquired(t) + Len(Ins(t))
         /\ \A k \in 1 .. Len(Ins(t)) : Steps[k] = <<"acquire", Ins(t)[k]>>
         /\ \A k \in 1 .. Len(Outs(t)) : Steps[Len(Ins(t)) + k] = <<"acquire", Outs(t)[k]>>
         /\ \A k \in 1 .. Len(Ins(t)) : Steps[Acquired(t) + k] = <<"release", Ins(t)[k]>>
<1> DEFINE S == {"acquire", "release"} \X Objects
           n == Len(Ins(t))
           m == Len(Outs(t))
           a == Acquires(Ins(t))
           b == Acquires(Outs(t))
           c == Releases(Ins(t))
<1>1. /\ Ins(t) \in Seq(Objects) /\ Outs(t) \in Seq(Objects) /\ n \in Nat /\ m \in Nat
      /\ DOMAIN Ins(t) = 1 .. n /\ DOMAIN Outs(t) = 1 .. m
  BY TypedFacts
<1>2. /\ a \in Seq(S) /\ Len(a) = n /\ \A k \in 1 .. n : a[k] = <<"acquire", Ins(t)[k]>>
      /\ b \in Seq(S) /\ Len(b) = m /\ \A k \in 1 .. m : b[k] = <<"acquire", Outs(t)[k]>>
      /\ c \in Seq(S) /\ Len(c) = n /\ \A k \in 1 .. n : c[k] = <<"release", Ins(t)[k]>>
  <2>1. /\ a \in [1 .. n -> S] /\ \A k \in 1 .. n : a[k] = <<"acquire", Ins(t)[k]>>
        /\ b \in [1 .. m -> S] /\ \A k \in 1 .. m : b[k] = <<"acquire", Outs(t)[k]>>
        /\ c \in [1 .. n -> S] /\ \A k \in 1 .. n : c[k] = <<"release", Ins(t)[k]>>
    BY <1>1 DEF Acquires, Releases
  <2> HIDE DEF a, b, c, n, m, S
  <2>2. a \in Seq(S) /\ b \in Seq(S) /\ c \in Seq(S)
    BY <1>1, <2>1
  <2>3. Len(a) = n /\ Len(b) = m /\ Len(c) = n
    BY <1>1, <2>1, <2>2
  <2> QED
    BY <2>1, <2>2, <2>3
<1>3. Steps = (a \o b) \o c
  BY DEF Steps, Ins, Outs
<1>4. Acquired(t) = n + m
  BY DEF Acquired
<1> HIDE DEF a, b, c, n, m, S
<1> DEFINE ab == a \o b
           l == n + m
<1>5. l \in Nat /\ ab \in Seq(S) /\ Len(ab) = l
  <2>1. a \o b \in Seq(S) /\ Len(a \o b) = Len(a) + Len(b)
    BY <1>2, ConcatLength
  <2> QED
    BY <1>1, <1>2, <2>1
<1>6. ASSUME NEW k \in 1 .. n PROVE ab[k] = a[k]
  BY <1>2, ConcatLeft
<1>7. ASSUME NEW k \in 1 .. m PROVE ab[n + k] = b[k]
  BY <1>2, ConcatRight
<1> HIDE DEF ab, l
<1>8. Len(ab \o c) = l + n
  BY <1>2, <1>5, ConcatLength, ZenonT(60)
<1>9. ASSUME NEW k \in 1 .. l PROVE (ab \o c)[k] = ab[k]
  BY <1>2, <1>5, ConcatLeft
<1>10. ASSUME NEW k \in 1 .. n PROVE (ab \o c)[l + k] = c[k]
  <2>1. (ab \o c)[Len(ab) + k] = c[k]
    BY <1>2, <1>5, ConcatRight
  <2> QED
    BY <1>5, <2>1
<1>11. Steps = ab \o c /\ Acquired(t) = l
  BY <1>3, <1>4 DEF ab, l
<1>12. \A k \in 1 .. n : k \in 1 .. l
  BY <1>1 DEF l
<1>13. \A k \in 1 .. m : n + k \in 1 .. l
  BY <1>1 DEF l
<1>14. /\ \A k \in 1 .. n : Steps[k] = a[k]
       /\ \A k \in 1 .. m : Steps[n + k] = b[k]
       /\ \A k \in 1 .. n : Steps[l + k] = c[k]
       /\ Len(Steps) = l + n
  BY <1>6, <1>7, <1>11, <1>12, <1>13, <1>8, <1>9, <1>10
<1> QED
  BY <1>2, <1>11, <1>14 DEF n, m

\* An acquire is of an input or an output, a release of an input.
LEMMA AcquireStep ==
  ASSUME Typed(workload), t \in Nat \ {0}, place \in Nat \ {0}, NEW x, Doing("acquire", x)
  PROVE  t \in DOMAIN workload /\ place <= Acquired(t) /\ StepAcquires(t, place, x)
<1>1. t \in DOMAIN workload /\ place <= Len(Steps) /\ Steps[place] = <<"acquire", x>>
  BY TypedFacts DEF Doing
<1>2. /\ Len(Ins(t)) \in Nat /\ Len(Outs(t)) \in Nat /\ Acquired(t) = Len(Ins(t)) + Len(Outs(t))
      /\ DOMAIN Ins(t) = 1 .. Len(Ins(t)) /\ DOMAIN Outs(t) = 1 .. Len(Outs(t))
  BY <1>1, TypedFacts DEF Acquired
<1>3. CASE place <= Len(Ins(t))
  <2>1. Steps[place] = <<"acquire", Ins(t)[place]>> /\ place \in DOMAIN Ins(t)
    BY <1>1, <1>2, <1>3, StepsFacts
  <2> QED
    BY <1>1, <1>2, <1>3, <2>1 DEF StepAcquires
<1>4. CASE Len(Ins(t)) < place /\ place <= Acquired(t)
  <2>1. PICK k \in 1 .. Len(Outs(t)) : place = Len(Ins(t)) + k /\ k = place - Len(Ins(t))
    <3>1. place - Len(Ins(t)) \in 1 .. Len(Outs(t)) /\ place = Len(Ins(t)) + (place - Len(Ins(t)))
      BY <1>2, <1>4
    <3> QED
      BY <3>1
  <2>2. Steps[place] = <<"acquire", Outs(t)[k]>>
    BY <1>1, <2>1, StepsFacts
  <2> QED
    BY <1>1, <1>2, <1>4, <2>1, <2>2 DEF StepAcquires
<1>5. CASE place > Acquired(t)
  <2>1. PICK k \in 1 .. Len(Ins(t)) : place = Acquired(t) + k
    <3>1. place - Acquired(t) \in 1 .. Len(Ins(t)) /\ place = Acquired(t) + (place - Acquired(t))
      BY <1>1, <1>2, <1>5, StepsFacts
    <3> QED
      BY <3>1
  <2>2. Steps[place] = <<"release", Ins(t)[k]>>
    BY <1>1, <2>1, StepsFacts
  <2> QED
    BY <1>1, <2>2
<1> QED
  BY <1>2, <1>3, <1>4, <1>5

LEMMA ReleaseStep ==
  ASSUME Typed(workload), t \in Nat \ {0}, place \in Nat \ {0}, NEW x, Doing("release", x)
  PROVE  /\ t \in DOMAIN workload
         /\ \E k \in DOMAIN Ins(t) : place = Acquired(t) + k /\ Ins(t)[k] = x
<1>1. t \in DOMAIN workload /\ place <= Len(Steps) /\ Steps[place] = <<"release", x>>
  BY TypedFacts DEF Doing
<1>2. /\ Len(Ins(t)) \in Nat /\ Len(Outs(t)) \in Nat /\ Acquired(t) = Len(Ins(t)) + Len(Outs(t))
      /\ DOMAIN Ins(t) = 1 .. Len(Ins(t)) /\ DOMAIN Outs(t) = 1 .. Len(Outs(t))
  BY <1>1, TypedFacts DEF Acquired
<1>3. CASE place <= Len(Ins(t))
  <2>1. Steps[place] = <<"acquire", Ins(t)[place]>>
    BY <1>1, <1>2, <1>3, StepsFacts
  <2> QED
    BY <1>1, <2>1
<1>4. CASE Len(Ins(t)) < place /\ place <= Acquired(t)
  <2>1. PICK k \in 1 .. Len(Outs(t)) : place = Len(Ins(t)) + k
    <3>1. place - Len(Ins(t)) \in 1 .. Len(Outs(t)) /\ place = Len(Ins(t)) + (place - Len(Ins(t)))
      BY <1>2, <1>4
    <3> QED
      BY <3>1
  <2>2. Steps[place] = <<"acquire", Outs(t)[k]>>
    BY <1>1, <2>1, StepsFacts
  <2> QED
    BY <1>1, <2>2
<1>5. CASE place > Acquired(t)
  <2>1. PICK k \in 1 .. Len(Ins(t)) : place = Acquired(t) + k
    <3>1. place - Acquired(t) \in 1 .. Len(Ins(t)) /\ place = Acquired(t) + (place - Acquired(t))
      BY <1>1, <1>2, <1>5, StepsFacts
    <3> QED
      BY <3>1
  <2>2. Steps[place] = <<"release", Ins(t)[k]>>
    BY <1>1, <2>1, StepsFacts
  <2>3. Ins(t)[k] = x
    BY <1>1, <2>2
  <2> QED
    BY <1>1, <1>2, <2>1, <2>3
<1> QED
  BY <1>2, <1>3, <1>4, <1>5

\* A task acquires what it handles and nothing else.
LEMMA AcquiresHandles ==
  ASSUME Typed(workload), NEW i \in DOMAIN workload, NEW x
  PROVE  /\ \A k \in Nat : StepAcquires(i, k, x) => x \in Handles(i) /\ k <= Acquired(i)
         /\ x \in Handles(i) => \E k \in 1 .. Acquired(i) : StepAcquires(i, k, x)
<1>1. /\ Len(Ins(i)) \in Nat /\ Len(Outs(i)) \in Nat /\ Acquired(i) = Len(Ins(i)) + Len(Outs(i))
      /\ DOMAIN Ins(i) = 1 .. Len(Ins(i)) /\ DOMAIN Outs(i) = 1 .. Len(Outs(i))
  BY TypedFacts DEF Acquired
<1>2. ASSUME NEW k \in Nat, StepAcquires(i, k, x) PROVE x \in Handles(i) /\ k <= Acquired(i)
  BY <1>1, <1>2 DEF StepAcquires, Handles, Range
<1>3. ASSUME x \in Range(Ins(i)) PROVE \E k \in 1 .. Acquired(i) : StepAcquires(i, k, x)
  <2>1. PICK k \in DOMAIN Ins(i) : Ins(i)[k] = x
    BY <1>3 DEF Range
  <2> QED
    BY <1>1, <2>1 DEF StepAcquires
<1>4. ASSUME x \in Range(Outs(i)) PROVE \E k \in 1 .. Acquired(i) : StepAcquires(i, k, x)
  <2>1. PICK j \in DOMAIN Outs(i) : Outs(i)[j] = x
    BY <1>4 DEF Range
  <2> DEFINE k == Len(Ins(i)) + j
  <2>2. k \in 1 .. Acquired(i) /\ k - Len(Ins(i)) = j
    BY <1>1, <2>1
  <2> HIDE DEF k
  <2>3. StepAcquires(i, k, x)
    BY <2>1, <2>2 DEF StepAcquires
  <2> QED
    BY <2>2, <2>3
<1> QED
  BY <1>2, <1>3, <1>4 DEF Handles

\* A read is a task and a place in its inputs.
LEMMA ReadsFacts ==
  ASSUME NEW x
  PROVE  /\ \A r \in Reads(x) : /\ r[1] \in DOMAIN workload /\ r[2] \in DOMAIN Ins(r[1])
                                /\ Ins(r[1])[r[2]] = x /\ r = <<r[1], r[2]>>
         /\ \A i \in DOMAIN workload : \A k \in DOMAIN Ins(i) : Ins(i)[k] = x => <<i, k>> \in Reads(x)
<1> DEFINE handles == [i \in DOMAIN workload |-> Ins(i)]
<1>1. DOMAIN handles = DOMAIN workload /\ \A i \in DOMAIN workload : handles[i] = Ins(i)
  OBVIOUS
<1>2. Reads(x) = UNION {{i} \X {k \in DOMAIN handles[i] : handles[i][k] = x} : i \in DOMAIN handles}
  BY DEF Reads, PlacesOf
<1> HIDE DEF handles
<1>3. ASSUME NEW r \in Reads(x)
      PROVE  /\ r[1] \in DOMAIN workload /\ r[2] \in DOMAIN Ins(r[1])
             /\ Ins(r[1])[r[2]] = x /\ r = <<r[1], r[2]>>
  <2>1. PICK i \in DOMAIN handles : r \in {i} \X {k \in DOMAIN handles[i] : handles[i][k] = x}
    BY <1>2
  <2>2. r[1] = i /\ r = <<r[1], r[2]>> /\ r[2] \in DOMAIN handles[i] /\ handles[i][r[2]] = x
    BY <2>1
  <2> QED
    BY <1>1, <2>1, <2>2
<1>4. ASSUME NEW i \in DOMAIN workload, NEW k \in DOMAIN Ins(i), Ins(i)[k] = x
      PROVE  <<i, k>> \in Reads(x)
  <2>1. i \in DOMAIN handles /\ <<i, k>> \in {i} \X {j \in DOMAIN handles[i] : handles[i][j] = x}
    BY <1>1, <1>4
  <2> QED
    BY <1>2, <2>1
<1> QED
  BY <1>3, <1>4

LEMMA ReadsFinite ==
  ASSUME Typed(workload), NEW x
  PROVE  IsFiniteSet(Reads(x))
<1> DEFINE handles == [i \in DOMAIN workload |-> Ins(i)]
           places(i) == {i} \X {k \in DOMAIN handles[i] : handles[i][k] = x}
           all == {places(i) : i \in DOMAIN workload}
<1>1. ASSUME NEW i \in DOMAIN workload PROVE IsFiniteSet(places(i))
  <2>1. Len(Ins(i)) \in Nat /\ DOMAIN Ins(i) = 1 .. Len(Ins(i)) /\ handles[i] = Ins(i)
    BY TypedFacts
  <2>2. IsFiniteSet(DOMAIN Ins(i))
    BY <2>1, FS_Interval
  <2> DEFINE there == {k \in DOMAIN handles[i] : handles[i][k] = x}
  <2>3. there \in SUBSET DOMAIN Ins(i)
    BY <2>1
  <2> HIDE DEF there
  <2>4. IsFiniteSet(there)
    BY <2>2, <2>3, FS_Subset
  <2>5. IsFiniteSet({i})
    BY FS_Singleton
  <2>6. IsFiniteSet({i} \X there)
    BY <2>4, <2>5, FS_Product
  <2> QED
    BY <2>6 DEF there
<1>2. IsFiniteSet(DOMAIN workload)
  BY TypedFacts, FS_Interval
<1> HIDE DEF places
<1> DEFINE f == [i \in DOMAIN workload |-> places(i)]
<1>3. f \in Surjection(DOMAIN workload, all)
  BY DEF Surjection
<1>4. IsFiniteSet(all)
  BY <1>2, <1>3, FS_Surjection
<1>5. \A T \in all : IsFiniteSet(T)
  BY <1>1
<1> HIDE DEF all
<1>6. IsFiniteSet(UNION all)
  BY <1>4, <1>5, FS_UNION
<1>7. Reads(x) = UNION all
  BY DEF Reads, PlacesOf, all, places
<1> QED
  BY <1>6, <1>7

LEMMA WorkTyped ==
  ASSUME WorkInv
  PROVE  /\ Typed(workload) /\ t \in Nat \ {0} /\ place \in Nat \ {0}
         /\ pc # "functions" => WellFormed(workload) /\ workload # <<>> /\ workload \in Workloads
<1>1. CASE pc = "functions"
  BY <1>1 DEF WorkInv, Typed
<1>2. CASE pc # "functions"
  <2>1. workload \in Workloads
    BY <1>2 DEF WorkInv
  <2>2. Typed(workload) /\ WellFormed(workload) /\ workload # <<>>
    BY <2>1, WorkloadAssumption DEF WorkloadAssumption, Typed
  <2>3. Len(workload) \in Nat
    BY <2>2, TypedFacts
  <2> QED
    BY <2>1, <2>2, <2>3 DEF WorkInv
<1> QED
  BY <1>1, <1>2

\* No action changes the workload.
LEMMA SameWork ==
  ASSUME workload' = workload
  PROVE  /\ \A i : /\ Ins(i)' = Ins(i) /\ Outs(i)' = Outs(i)
                   /\ Handles(i)' = Handles(i) /\ Acquired(i)' = Acquired(i)
         /\ \A x : Reads(x)' = Reads(x)
         /\ \A i, k, x : StepAcquires(i, k, x)' <=> StepAcquires(i, k, x)
<1>1. \A i : Ins(i)' = Ins(i) /\ Outs(i)' = Outs(i)
  BY DEF Ins, Outs
<1>2. \A i : Handles(i)' = Handles(i) /\ Acquired(i)' = Acquired(i)
  BY <1>1 DEF Handles, Acquired
<1>3. \A x : Reads(x)' = Reads(x)
  BY DEF Reads, PlacesOf, Ins
<1>4. \A i, k, x : StepAcquires(i, k, x)' <=> StepAcquires(i, k, x)
  BY <1>1 DEF StepAcquires
<1> QED
  BY <1>1, <1>2, <1>3, <1>4

LEMMA AcquiresOne ==
  ASSUME Typed(workload), NEW i \in DOMAIN workload, NEW k \in Nat, NEW x, NEW y,
         StepAcquires(i, k, x), StepAcquires(i, k, y)
  PROVE  x = y
<1>1. /\ Len(Ins(i)) \in Nat /\ Len(Outs(i)) \in Nat
      /\ DOMAIN Ins(i) = 1 .. Len(Ins(i)) /\ DOMAIN Outs(i) = 1 .. Len(Outs(i))
  BY TypedFacts
<1> QED
  BY <1>1 DEF StepAcquires

\* Where a read is, in numbers.
LEMMA ReadPlaces ==
  ASSUME Typed(workload), NEW x, NEW r \in Reads(x)
  PROVE  /\ r[1] \in 1 .. Len(workload) /\ r[2] \in 1 .. Len(Ins(r[1]))
         /\ Len(workload) \in Nat /\ Len(Ins(r[1])) \in Nat
         /\ Len(Ins(r[1])) <= Acquired(r[1]) /\ Acquired(r[1]) \in Nat
<1>1. r[1] \in DOMAIN workload /\ r[2] \in DOMAIN Ins(r[1])
  BY ReadsFacts
<1>2. /\ Len(Ins(r[1])) \in Nat /\ Len(Outs(r[1])) \in Nat
      /\ DOMAIN Ins(r[1]) = 1 .. Len(Ins(r[1]))
  BY <1>1, TypedFacts
<1> QED
  BY <1>1, <1>2, TypedFacts DEF Acquired

\* What a task handles has still to be read when it acquires it.
LEMMA ReadLater ==
  ASSUME WorkInv, pc = "configure", t \in DOMAIN workload, place <= Acquired(t) + 1,
         NEW x \in Handles(t)
  PROVE  ToRead(x) # {}
<1>1. Typed(workload) /\ WellFormed(workload) /\ t \in Nat \ {0} /\ place \in Nat \ {0}
  BY WorkTyped
<1>2. CASE x \in Range(Ins(t))
  <2>1. PICK k \in DOMAIN Ins(t) : Ins(t)[k] = x
    BY <1>2 DEF Range
  <2>2. <<t, k>> \in Reads(x)
    BY <2>1, ReadsFacts
  <2>3. k \in Nat \ {0} /\ Acquired(t) \in Nat
    BY <1>1, <2>1, TypedFacts
  <2>4. Acquired(t) + k >= place
    BY <1>1, <2>3
  <2> QED
    BY <2>2, <2>4 DEF ToRead
<1>3. CASE x \in Range(Outs(t))
  <2>1. PICK j \in t + 1 .. Len(workload) : x \in Range(Ins(j))
    BY <1>1, <1>3 DEF WellFormed, Ins, Outs
  <2>2. PICK k \in DOMAIN Ins(j) : Ins(j)[k] = x
    BY <2>1 DEF Range
  <2>3. j \in DOMAIN workload /\ j > t
    BY <1>1, <2>1, TypedFacts
  <2>4. <<j, k>> \in Reads(x)
    BY <2>2, <2>3, ReadsFacts
  <2> QED
    BY <2>3, <2>4 DEF ToRead
<1> QED
  BY <1>2, <1>3 DEF Handles

-----------------------------------------------------------------------------
(* The count of the reads to come.                                         *)

\* An acquire changes what has been acquired, and not what is to be read.
LEMMA AcquireFacts ==
  ASSUME WorkInv, NEW x \in Objects, Doing("acquire", x)
  PROVE  /\ t \in DOMAIN workload /\ t' = t /\ x \in Handles(t)
         /\ \A y : ToRead(y)' = ToRead(y)
         /\ \A i \in DOMAIN workload : \A y :
              HasAcquired(i, y)' <=> HasAcquired(i, y) \/ (i = t /\ y = x)
         /\ ToRead(x) # {}
<1>1. Typed(workload) /\ t \in Nat \ {0} /\ place \in Nat \ {0}
  BY WorkTyped
<1>2. t \in DOMAIN workload /\ place <= Acquired(t) /\ StepAcquires(t, place, x)
  BY <1>1, AcquireStep
<1>3. /\ t' = t /\ place' = place + 1 /\ pc = "configure" /\ pc' = "configure"
      /\ workload' = workload
  BY DEF Doing
<1>4. x \in Handles(t) /\ Acquired(t) \in Nat
  BY <1>1, <1>2, AcquiresHandles, TypedFacts
<1>5. ASSUME NEW y PROVE ToRead(y)' = ToRead(y)
  <2>1. ASSUME NEW r \in Reads(y) PROVE Acquired(t) + r[2] >= place + 1 /\ Acquired(t) + r[2] >= place
    <3>1. r[2] \in Nat \ {0}
      BY <1>1, ReadPlaces
    <3> QED
      BY <1>1, <1>2, <1>4, <3>1
  <2>2. ToRead(y)' = {r \in Reads(y) : r[1] > t \/ (r[1] = t /\ Acquired(t) + r[2] >= place + 1)}
    BY <1>3, SameWork DEF ToRead
  <2> QED
    BY <2>1, <2>2 DEF ToRead
<1>6. ASSUME NEW i \in DOMAIN workload, NEW y
      PROVE  HasAcquired(i, y)' <=> HasAcquired(i, y) \/ (i = t /\ y = x)
  <2>1. HasAcquired(i, y)' <=> \/ i < t /\ y \in Handles(i)
                               \/ i = t /\ \E k \in 1 .. (place + 1) - 1 : StepAcquires(i, k, y)
    BY <1>3, SameWork DEF HasAcquired
  <2>2. 1 .. (place + 1) - 1 = (1 .. place - 1) \cup {place}
    BY <1>1
  <2>3. StepAcquires(t, place, y) <=> y = x
    BY <1>1, <1>2, AcquiresOne
  <2> QED
    BY <2>1, <2>2, <2>3 DEF HasAcquired
<1>7. ToRead(x) # {}
  <2>1. place <= Acquired(t) + 1
    BY <1>1, <1>2, <1>4
  <2> QED
    BY <1>2, <1>3, <1>4, <2>1, ReadLater
<1> QED
  BY <1>2, <1>3, <1>4, <1>5, <1>6, <1>7

LEMMA AcquireFlight ==
  ASSUME WorkInv, FlightInv, LifetimeInv, NEW x \in Objects, Acquire(x)
  PROVE  FlightInv'
<1>0. WorkloadAssumption /\ cross_group \in Groups
  BY WorkloadAssumption DEF WorkloadAssumption
<1>1. /\ Doing("acquire", x) /\ pc = "configure" /\ pc' = "configure"
      /\ workload' = workload /\ DOMAIN workload' = DOMAIN workload
  BY DEF Acquire, Doing
<1>2. /\ t \in DOMAIN workload /\ t' = t /\ x \in Handles(t) /\ ToRead(x) # {}
      /\ \A y : ToRead(y)' = ToRead(y)
      /\ \A i \in DOMAIN workload : \A y :
           HasAcquired(i, y)' <=> HasAcquired(i, y) \/ (i = t /\ y = x)
  BY <1>1, AcquireFacts
<1>3. /\ \A y \in Objects :
           /\ y \in DOMAIN in_flight <=> /\ \E i \in DOMAIN workload : HasAcquired(i, y)
                                         /\ ToRead(y) # {}
           /\ y \in DOMAIN in_flight => in_flight[y] = Cardinality(ToRead(y))
      /\ IsPartial(in_flight, Objects, Nat \ {0}) /\ DOMAIN in_flight = Alive
  BY <1>1 DEF FlightInv, InFlightInv
<1>4. Typed(workload) /\ t \in Nat \ {0} /\ place \in Nat \ {0}
  BY WorkTyped
\* What is in flight after the step.
<1>5. \A y \in Objects :
        (/\ \E i \in DOMAIN workload : HasAcquired(i, y)'
         /\ ToRead(y)' # {})
        <=> y \in DOMAIN in_flight \cup {x}
  BY <1>2, <1>3
<1>6. CASE x \in DOMAIN in_flight /\ UNCHANGED <<in_flight, lifetime_vars>>
  <2>1. InFlightInv'
    BY <1>1, <1>2, <1>3, <1>5, <1>6 DEF InFlightInv
  <2>2. Alive' = Alive
    BY <1>6 DEF lifetime_vars, base, Alive
  <2> QED
    BY <1>1, <1>3, <1>6, <2>1, <2>2 DEF FlightInv
<1>7. CASE /\ x \notin DOMAIN in_flight
           /\ in_flight' = With(in_flight, x, InputCount(x))
           /\ Start(cross_group, x)
  <2>1. ToRead(x) = Reads(x)
    <3>1. ASSUME NEW r \in Reads(x) PROVE r \in ToRead(x)
      <4>1. r[1] \in DOMAIN workload /\ r[2] \in Nat \ {0} /\ x \in Range(Ins(r[1])) /\ r[1] \in Nat
        BY <1>4, ReadPlaces, ReadsFacts, TypedFacts DEF Range
      <4>2. ~ (r[1] < t)
        <5>1. ~ HasAcquired(r[1], x)
          BY <1>2, <1>3, <1>7, <4>1
        <5> QED
          BY <4>1, <5>1 DEF HasAcquired, Handles
      <4>3. Acquired(t) + r[2] >= place
        <5>1. place <= Acquired(t) /\ Acquired(t) \in Nat
          BY <1>1, <1>4, AcquireStep, TypedFacts
        <5> QED
          BY <1>4, <4>1, <5>1
      <4>4. r[1] > t \/ r[1] = t
        BY <1>4, <4>1, <4>2
      <4> QED
        BY <4>3, <4>4 DEF ToRead
    <3> QED
      BY <3>1 DEF ToRead
  <2>2. InputCount(x) = Cardinality(ToRead(x))
    BY <2>1 DEF InputCount, Reads, Ins
  <2>3. InputCount(x) \in Nat \ {0}
    <3>1. IsFiniteSet(ToRead(x)) /\ ToRead(x) # {}
      BY <1>2, <1>4, <2>1, ReadsFinite
    <3> QED
      BY <2>2, <3>1, FS_CardinalityType, FS_EmptySet
  <2>4. /\ DOMAIN in_flight' = DOMAIN in_flight \cup {x} /\ in_flight'[x] = InputCount(x)
        /\ \A y \in DOMAIN in_flight : in_flight'[y] = in_flight[y]
    BY <1>7 DEF With
  <2>5. InFlightInv'
    BY <1>1, <1>2, <1>3, <1>5, <2>2, <2>4 DEF InFlightInv
  <2>6. Alive' = Alive \cup {x}
    BY <1>0, <1>7, StartFacts
  <2>7. IsPartial(in_flight', Objects, Nat \ {0})
    BY <1>3, <1>7, <2>3, ExtendedPartial
  <2> QED
    BY <1>1, <1>3, <2>4, <2>5, <2>6, <2>7 DEF FlightInv
<1> QED
  BY <1>6, <1>7 DEF Acquire

\* A release takes one read away, that of the place that is reached.
LEMMA ReleaseFacts ==
  ASSUME WorkInv, NEW x \in Objects, Doing("release", x)
  PROVE  /\ t \in DOMAIN workload /\ t' = t /\ HasAcquired(t, x)
         /\ \E r \in ToRead(x) : ToRead(x)' = ToRead(x) \ {r}
         /\ \A y : y # x => ToRead(y)' = ToRead(y)
         /\ \A i \in DOMAIN workload : \A y : HasAcquired(i, y)' <=> HasAcquired(i, y)
<1>1. Typed(workload) /\ t \in Nat \ {0} /\ place \in Nat \ {0}
  BY WorkTyped
<1>2. PICK k \in DOMAIN Ins(t) : place = Acquired(t) + k /\ Ins(t)[k] = x
  BY <1>1, ReleaseStep
<1>3. /\ t' = t /\ place' = place + 1 /\ workload' = workload /\ t \in DOMAIN workload
  BY <1>1, ReleaseStep DEF Doing
<1>4. k \in Nat \ {0} /\ k <= Acquired(t) /\ Acquired(t) \in Nat
  <2>1. /\ Len(Ins(t)) \in Nat /\ Len(Outs(t)) \in Nat /\ k \in 1 .. Len(Ins(t))
        /\ Acquired(t) = Len(Ins(t)) + Len(Outs(t))
    BY <1>1, <1>2, <1>3, TypedFacts DEF Acquired
  <2> QED
    BY <2>1
<1>5. <<t, k>> \in Reads(x) /\ <<t, k>> \in ToRead(x)
  <2>1. <<t, k>> \in Reads(x)
    BY <1>2, <1>3, ReadsFacts
  <2>2. Acquired(t) + k >= place
    BY <1>1, <1>2, <1>4
  <2> QED
    BY <2>1, <2>2 DEF ToRead
<1>6. \A y : ToRead(y)' = {r \in Reads(y) : r[1] > t \/ (r[1] = t /\ Acquired(t) + r[2] >= place + 1)}
  BY <1>3, SameWork DEF ToRead
<1>7. ASSUME NEW y, NEW r \in Reads(y)
      PROVE  (r[1] = t /\ Acquired(t) + r[2] >= place)
             <=> \/ r[1] = t /\ Acquired(t) + r[2] >= place + 1
                 \/ r = <<t, k>>
  <2>1. r[2] \in Nat /\ r = <<r[1], r[2]>>
    BY <1>1, ReadPlaces, ReadsFacts
  <2>2. Acquired(t) + r[2] >= place <=> Acquired(t) + r[2] >= place + 1 \/ r[2] = k
    BY <1>2, <1>4, <2>1
  <2> QED
    BY <2>1, <2>2
<1>8. ASSUME NEW y PROVE \A r \in Reads(y) : r \in ToRead(y) <=> r \in ToRead(y)' \/ r = <<t, k>>
  BY <1>1, <1>6, <1>7 DEF ToRead
<1>9. \A y : y # x => <<t, k>> \notin Reads(y)
  BY <1>2, ReadsFacts
<1>10. <<t, k>> \notin ToRead(x)'
  <2>1. ~ (Acquired(t) + k >= place + 1) /\ ~ (t > t)
    BY <1>1, <1>2, <1>4
  <2> QED
    BY <1>6, <2>1
<1>11. \A y : ToRead(y) \subseteq Reads(y) /\ ToRead(y)' \subseteq Reads(y)
  BY <1>6 DEF ToRead
<1>12. ToRead(x)' = ToRead(x) \ {<<t, k>>}
  BY <1>8, <1>10, <1>11
<1>13. \A y : y # x => ToRead(y)' = ToRead(y)
  BY <1>8, <1>9, <1>11
<1>14. HasAcquired(t, x)
  <2>1. StepAcquires(t, k, x) /\ k \in 1 .. place - 1
    BY <1>1, <1>2, <1>4 DEF StepAcquires
  <2> QED
    BY <2>1 DEF HasAcquired
<1>15. ASSUME NEW i \in DOMAIN workload, NEW y PROVE HasAcquired(i, y)' <=> HasAcquired(i, y)
  <2>1. HasAcquired(i, y)' <=> \/ i < t /\ y \in Handles(i)
                               \/ i = t /\ \E j \in 1 .. (place + 1) - 1 : StepAcquires(i, j, y)
    BY <1>3, SameWork DEF HasAcquired
  <2>2. 1 .. (place + 1) - 1 = (1 .. place - 1) \cup {place}
    BY <1>1
  <2>3. ~ StepAcquires(t, place, y)
    <3>1. ~ (place <= Acquired(t))
      BY <1>1, <1>2, <1>4
    <3> QED
      BY <1>1, <1>3, <3>1, AcquiresHandles
  <2> QED
    BY <2>1, <2>2, <2>3 DEF HasAcquired
<1> QED
  BY <1>3, <1>5, <1>12, <1>13, <1>14, <1>15

LEMMA ReleaseFlight ==
  ASSUME WorkInv, FlightInv, NEW x \in Objects, Release(x)
  PROVE  FlightInv'
<1>1. /\ Doing("release", x) /\ pc = "configure" /\ pc' = "configure"
      /\ workload' = workload /\ DOMAIN workload' = DOMAIN workload
  BY DEF Release, Doing
<1>2. /\ t \in DOMAIN workload /\ t' = t /\ HasAcquired(t, x)
      /\ \A y : y # x => ToRead(y)' = ToRead(y)
      /\ \A i \in DOMAIN workload : \A y : HasAcquired(i, y)' <=> HasAcquired(i, y)
  BY <1>1, ReleaseFacts
<1>3. PICK r \in ToRead(x) : ToRead(x)' = ToRead(x) \ {r}
  BY <1>1, ReleaseFacts
<1>4. /\ \A y \in Objects :
           /\ y \in DOMAIN in_flight <=> /\ \E i \in DOMAIN workload : HasAcquired(i, y)
                                         /\ ToRead(y) # {}
           /\ y \in DOMAIN in_flight => in_flight[y] = Cardinality(ToRead(y))
      /\ IsPartial(in_flight, Objects, Nat \ {0}) /\ DOMAIN in_flight = Alive
  BY <1>1 DEF FlightInv, InFlightInv
<1>5. x \in DOMAIN in_flight /\ in_flight[x] = Cardinality(ToRead(x)) /\ in_flight[x] \in Nat \ {0}
  BY <1>2, <1>3, <1>4 DEF IsPartial
<1>6. /\ IsFiniteSet(ToRead(x)') /\ Cardinality(ToRead(x)') = in_flight[x] - 1
  <2>1. ToRead(x) \in SUBSET Reads(x) /\ IsFiniteSet(Reads(x))
    BY WorkTyped, ReadsFinite DEF ToRead
  <2>2. IsFiniteSet(ToRead(x))
    BY <2>1, FS_Subset
  <2> DEFINE left == ToRead(x) \ {r}
  <2>3. IsFiniteSet(left) /\ Cardinality(left) = Cardinality(ToRead(x)) - 1
    BY <1>3, <2>2, FS_RemoveElement
  <2> QED
    BY <1>3, <1>5, <2>3
<1>7. ToRead(x)' # {} <=> in_flight[x] > 1
  <2>1. Cardinality(ToRead(x)') = 0 <=> ToRead(x)' = {}
    BY <1>6, FS_EmptySet
  <2> QED
    BY <1>5, <1>6, <2>1
<1>8. CASE /\ in_flight[x] > 1 /\ in_flight' = [in_flight EXCEPT ![x] = @ - 1]
           /\ UNCHANGED lifetime_vars
  <2>1. /\ DOMAIN in_flight' = DOMAIN in_flight /\ in_flight'[x] = in_flight[x] - 1
        /\ \A y \in DOMAIN in_flight : y # x => in_flight'[y] = in_flight[y]
    BY <1>5, <1>8
  <2>2. in_flight'[x] \in Nat \ {0}
    BY <1>5, <1>8, <2>1
  <2>3. IsPartial(in_flight', Objects, Nat \ {0})
    BY <1>4, <1>8, <2>1, <2>2 DEF IsPartial
  <2>4. InFlightInv'
    <3>1. ASSUME NEW y \in Objects
          PROVE  /\ y \in DOMAIN in_flight' <=> /\ \E i \in DOMAIN workload : HasAcquired(i, y)'
                                                /\ ToRead(y)' # {}
                 /\ y \in DOMAIN in_flight' => in_flight'[y] = Cardinality(ToRead(y)')
      <4>1. CASE y = x
        BY <1>2, <1>4, <1>5, <1>6, <1>7, <1>8, <2>1, <4>1
      <4>2. CASE y # x
        BY <1>2, <1>4, <2>1, <4>2
      <4> QED
        BY <4>1, <4>2
    <3> QED
      BY <1>1, <3>1 DEF InFlightInv
  <2>5. Alive' = Alive
    BY <1>8 DEF lifetime_vars, base, Alive
  <2> QED
    BY <1>1, <1>4, <2>1, <2>3, <2>4, <2>5 DEF FlightInv
<1>9. CASE /\ in_flight[x] <= 1 /\ in_flight' = Without(in_flight, x)
           /\ \E s \in Sizes, a \in Alignments : End(x, s, a)
  <2>1. /\ DOMAIN in_flight' = DOMAIN in_flight \ {x}
        /\ \A y \in DOMAIN in_flight : y # x => in_flight'[y] = in_flight[y]
    BY <1>9, Shortened
  <2>2. IsPartial(in_flight', Objects, Nat \ {0})
    BY <1>4, <1>9, ShortenedPartial
  <2>3. InFlightInv'
    <3>1. ASSUME NEW y \in Objects
          PROVE  /\ y \in DOMAIN in_flight' <=> /\ \E i \in DOMAIN workload : HasAcquired(i, y)'
                                                /\ ToRead(y)' # {}
                 /\ y \in DOMAIN in_flight' => in_flight'[y] = Cardinality(ToRead(y)')
      <4>1. CASE y = x
        BY <1>5, <1>7, <1>9, <2>1, <4>1
      <4>2. CASE y # x
        BY <1>2, <1>4, <2>1, <4>2
      <4> QED
        BY <4>1, <4>2
    <3> QED
      BY <1>1, <3>1 DEF InFlightInv
  <2>4. Alive' = Alive \ {x}
    <3>1. occupied_blobs' = Without(occupied_blobs, x)
      BY <1>9 DEF End
    <3> QED
      BY <3>1, Shortened DEF Alive
  <2> QED
    BY <1>1, <1>4, <2>1, <2>2, <2>3, <2>4 DEF FlightInv
<1> QED
  BY <1>8, <1>9 DEF Release

\* The next task has acquired nothing, the one before it all it handles.
LEMMA NextTaskFacts ==
  ASSUME WorkInv, NextTask
  PROVE  /\ t \in DOMAIN workload /\ t' = t + 1 /\ place' = 1 /\ place > Acquired(t)
         /\ \A y : ToRead(y)' = ToRead(y)
         /\ \A i \in DOMAIN workload : \A y : HasAcquired(i, y)' <=> HasAcquired(i, y)
<1>1. Typed(workload) /\ t \in Nat \ {0} /\ place \in Nat \ {0}
  BY WorkTyped
<1>2. /\ t \in DOMAIN workload /\ t' = t + 1 /\ place' = 1 /\ workload' = workload
      /\ place > Len(Steps)
  BY <1>1, TypedFacts DEF NextTask
<1>3. /\ Len(Ins(t)) \in Nat /\ Acquired(t) \in Nat /\ Len(Steps) = Acquired(t) + Len(Ins(t))
  BY <1>1, <1>2, TypedFacts, StepsFacts
<1>4. ASSUME NEW y PROVE ToRead(y)' = ToRead(y)
  <2>1. ToRead(y)' = {r \in Reads(y) : r[1] > t + 1 \/ (r[1] = t + 1 /\ Acquired(t + 1) + r[2] >= 1)}
    <3>1. \A i : Acquired(i)' = Acquired(i)
      BY <1>2, SameWork
    <3>2. ToRead(y)' = {r \in Reads(y)' : r[1] > t' \/ (r[1] = t' /\ Acquired(t)' + r[2] >= place')}
      BY DEF ToRead
    <3>3. Acquired(t)' = Acquired(t + 1)
      BY <1>2 DEF Acquired, Ins, Outs
    <3> QED
      BY <1>2, <3>2, <3>3, SameWork
  <2>2. ASSUME NEW r \in Reads(y)
        PROVE  /\ r[1] > t \/ (r[1] = t /\ Acquired(t) + r[2] >= place) <=> r[1] > t
               /\ r[1] > t + 1 \/ (r[1] = t + 1 /\ Acquired(t + 1) + r[2] >= 1) <=> r[1] > t
    <3>1. r[1] \in 1 .. Len(workload) /\ r[2] \in 1 .. Len(Ins(r[1])) /\ Len(workload) \in Nat
          /\ Acquired(r[1]) \in Nat
      BY <1>1, ReadPlaces
    <3>2. r[1] = t => ~ (Acquired(t) + r[2] >= place)
      BY <1>1, <1>2, <1>3, <3>1
    <3>3. r[1] = t + 1 => Acquired(t + 1) + r[2] >= 1
      BY <1>1, <3>1
    <3>4. r[1] > t <=> r[1] > t + 1 \/ r[1] = t + 1
      BY <1>1, <3>1
    <3> QED
      BY <3>2, <3>3, <3>4
  <2> QED
    BY <2>1, <2>2 DEF ToRead
<1>5. ASSUME NEW i \in DOMAIN workload, NEW y PROVE HasAcquired(i, y)' <=> HasAcquired(i, y)
  <2>1. HasAcquired(i, y)' <=> i < t + 1 /\ y \in Handles(i)
    <3>1. ~ \E k \in 1 .. 1 - 1 : StepAcquires(i, k, y)
      OBVIOUS
    <3> QED
      BY <1>2, <3>1, SameWork DEF HasAcquired
  <2>2. (\E k \in 1 .. place - 1 : StepAcquires(t, k, y)) <=> y \in Handles(t)
    <3>1. ASSUME y \in Handles(t) PROVE \E k \in 1 .. place - 1 : StepAcquires(t, k, y)
      <4>1. PICK k \in 1 .. Acquired(t) : StepAcquires(t, k, y)
        BY <1>1, <1>2, <3>1, AcquiresHandles
      <4>2. k \in 1 .. place - 1
        BY <1>1, <1>2, <1>3
      <4> QED
        BY <4>1, <4>2
    <3>2. ASSUME NEW k \in 1 .. place - 1, StepAcquires(t, k, y) PROVE y \in Handles(t)
      BY <1>1, <1>2, <3>2, AcquiresHandles
    <3> QED
      BY <3>1, <3>2
  <2>3. i \in Nat /\ (i < t + 1 <=> i < t \/ i = t)
    BY <1>1, TypedFacts
  <2> QED
    BY <2>1, <2>2, <2>3 DEF HasAcquired
<1>6. place > Acquired(t)
  BY <1>1, <1>2, <1>3
<1> QED
  BY <1>2, <1>4, <1>5, <1>6

LEMMA NextTaskFlight ==
  ASSUME WorkInv, FlightInv, NextTask
  PROVE  FlightInv'
<1>1. /\ pc = "configure" /\ pc' = "configure" /\ workload' = workload
      /\ DOMAIN workload' = DOMAIN workload /\ in_flight' = in_flight /\ UNCHANGED lifetime_vars
  BY DEF NextTask
<1>2. /\ \A y : ToRead(y)' = ToRead(y)
      /\ \A i \in DOMAIN workload : \A y : HasAcquired(i, y)' <=> HasAcquired(i, y)
  BY NextTaskFacts
<1>3. InFlightInv'
  BY <1>1, <1>2 DEF FlightInv, InFlightInv
<1>4. Alive' = Alive
  BY <1>1 DEF lifetime_vars, base, Alive
<1> QED
  BY <1>1, <1>3, <1>4 DEF FlightInv

\* When all tasks are configured nothing is in flight.
LEMMA PopulateFlight ==
  ASSUME WorkInv, FlightInv, Populate
  PROVE  FlightInv' /\ Alive = {}
<1>1. /\ pc = "configure" /\ pc' = "run" /\ t > Len(workload) /\ in_flight' = in_flight
      /\ UNCHANGED lifetime_vars
  BY DEF Populate
<1>2. Typed(workload) /\ t \in Nat \ {0}
  BY WorkTyped
<1>3. ASSUME NEW x PROVE ToRead(x) = {}
  <2>1. ASSUME NEW r \in Reads(x) PROVE ~ (r[1] > t) /\ r[1] # t
    BY <1>1, <1>2, ReadPlaces
  <2> QED
    BY <2>1 DEF ToRead
<1>4. DOMAIN in_flight = {} /\ Alive = {}
  BY <1>1, <1>3 DEF FlightInv, InFlightInv, IsPartial
<1>5. in_flight = <<>>
  BY <1>4 DEF FlightInv, IsPartial
<1>6. Alive' = Alive
  BY <1>1 DEF lifetime_vars, base, Alive
<1> QED
  BY <1>1, <1>4, <1>5, <1>6 DEF FlightInv, InFlightInv, IsPartial

-----------------------------------------------------------------------------
(* Who meets, and who is managed.                                          *)

LEMMA WorkStep ==
  ASSUME WorkInv, Next
  PROVE  WorkInv' /\ workload' = workload
<1>1. Typed(workload) /\ t \in Nat \ {0} /\ place \in Nat \ {0} /\ Len(workload) \in Nat
  BY WorkTyped, TypedFacts
<1>2. CASE \E x \in Objects : Acquire(x) \/ Release(x)
  <2>1. /\ pc = "configure" /\ pc' = pc /\ workload' = workload /\ t' = t /\ place' = place + 1
    BY <1>2 DEF Acquire, Release, Doing
  <2> QED
    BY <1>1, <2>1 DEF WorkInv
<1>3. CASE NextTask
  BY <1>1, <1>3 DEF WorkInv, NextTask
<1>4. CASE Populate
  <2>1. pc = "configure" /\ pc' = "run" /\ t' = 1 /\ place' = 1 /\ workload' = workload
    BY <1>4 DEF Populate
  <2>2. workload # <<>> /\ workload \in Workloads
    BY <2>1, WorkTyped
  <2>3. 1 <= Len(workload)
    BY <1>1, <2>2 DEF Typed
  <2> QED
    BY <2>1, <2>2, <2>3 DEF WorkInv
<1>5. CASE ExecuteTask
  BY <1>1, <1>5 DEF WorkInv, ExecuteTask
<1>6. CASE Proceed
  <2>1. /\ pc = "ran" /\ pc' = "run" /\ workload' = workload /\ place' = place
        /\ t' = IF t = Len(workload) THEN 1 ELSE t + 1
    BY <1>6 DEF Proceed
  <2>2. t <= Len(workload) /\ place = 1 /\ workload \in Workloads
    BY <2>1 DEF WorkInv
  <2>3. t' \in Nat \ {0} /\ t' <= Len(workload)
    BY <1>1, <2>1, <2>2
  <2> QED
    BY <2>1, <2>2, <2>3 DEF WorkInv
<1>7. CASE ManageTemporary \/ AllocateTemporary \/ AllConfigured
  BY <1>1, <1>7 DEF WorkInv, ManageTemporary, AllocateTemporary, AllConfigured, vars
<1> QED
  BY <1>2, <1>3, <1>4, <1>5, <1>6, <1>7 DEF Next

\* A task that has acquired its tensors finds all it needs in flight.
Reached == /\ WorkInv /\ InFlightInv /\ pc = "configure"
           /\ t \in DOMAIN workload /\ place = Acquired(t) + 1
NeededInFlight == \A x \in Objects : Needs(t, x) => x \in DOMAIN in_flight

LEMMA ReachedNeeds == Reached => NeededInFlight
<1> SUFFICES ASSUME Reached, NEW x \in Objects, Needs(t, x) PROVE x \in DOMAIN in_flight
  BY DEF NeededInFlight
<1>1. Typed(workload) /\ t \in Nat \ {0} /\ place \in Nat \ {0}
  BY WorkTyped DEF Reached
<1>2. t \in DOMAIN workload /\ place = Acquired(t) + 1 /\ Acquired(t) \in Nat /\ Len(workload) \in Nat
  BY <1>1, TypedFacts DEF Reached
<1>3. PICK j \in 1 .. t : x \in Handles(j)
  BY DEF Needs
<1>4. j \in DOMAIN workload
  BY <1>1, <1>2, TypedFacts
<1>5. HasAcquired(j, x)
  <2>1. CASE j < t
    BY <1>3, <2>1 DEF HasAcquired
  <2>2. CASE j = t
    <3>1. PICK k \in 1 .. Acquired(t) : StepAcquires(t, k, x)
      BY <1>1, <1>2, <1>3, <2>2, AcquiresHandles
    <3>2. k \in 1 .. place - 1
      BY <1>2
    <3> QED
      BY <2>2, <3>1, <3>2 DEF HasAcquired
  <2> QED
    BY <1>1, <2>1, <2>2
<1>6. ToRead(x) # {}
  <2>1. PICK i \in t .. Len(workload) : x \in Range(Ins(i))
    BY DEF Needs
  <2>2. PICK k \in DOMAIN Ins(i) : Ins(i)[k] = x
    BY <2>1 DEF Range
  <2>3. i \in DOMAIN workload
    BY <1>1, <1>2, TypedFacts
  <2>4. <<i, k>> \in Reads(x)
    BY <2>2, <2>3, ReadsFacts
  <2>5. k \in Nat \ {0}
    BY <1>1, <2>2, <2>3, TypedFacts
  <2>6. i > t \/ (i = t /\ Acquired(t) + k >= place)
    BY <1>1, <1>2, <2>5
  <2> QED
    BY <2>4, <2>6 DEF ToRead
<1> QED
  BY <1>4, <1>5, <1>6 DEF Reached, InFlightInv

LEMMA NextReachedNeeds == Reached' => NeededInFlight'
  BY ReachedNeeds, PTL

LEMMA TogetherStep ==
  ASSUME WorkInv, FlightInv, LifetimeInv, TogetherInv, FlightInv', Next
  PROVE  TogetherInv'
<1>1. Typed(workload) /\ t \in Nat \ {0} /\ place \in Nat \ {0} /\ WorkInv' /\ workload' = workload
  BY WorkTyped, WorkStep
<1>2. /\ Len(workload) \in Nat /\ DOMAIN workload = 1 .. Len(workload)
      /\ \A i \in DOMAIN workload : Acquired(i) \in Nat
  BY <1>1, TypedFacts
<1>3. /\ DOMAIN workload' = DOMAIN workload
      /\ \A i : Acquired(i)' = Acquired(i)
      /\ \A i, x : Needs(i, x)' <=> Needs(i, x)
  BY <1>1, SameWork DEF Needs
<1> DEFINE Met(i) == \A x, y \in Objects : x # y /\ Needs(i, x) /\ Needs(i, y) => <<x, y>> \in met
           MetNext(i) == \A x, y \in Objects : x # y /\ Needs(i, x) /\ Needs(i, y) => <<x, y>> \in met'
<1>4. /\ pc = "configure" => \A x, y \in DOMAIN in_flight : x # y => <<x, y>> \in met
      /\ \A i \in DOMAIN workload :
           pc # "configure" \/ i < t \/ (i = t /\ place > Acquired(t)) => Met(i)
  BY DEF TogetherInv
<1>5. met \subseteq met'
  <2>1. CASE UNCHANGED lifetime_vars
    BY <2>1 DEF lifetime_vars, history
  <2>2. CASE \E g \in Groups, o \in Objects : Start(g, o)
    BY <2>2 DEF Start
  <2>3. CASE \E o \in Objects, s \in Sizes, a \in Alignments : End(o, s, a)
    BY <2>3 DEF End, history
  <2>4. \/ UNCHANGED lifetime_vars \/ \E g \in Groups, o \in Objects : Start(g, o)
        \/ \E o \in Objects, s \in Sizes, a \in Alignments : End(o, s, a)
    BY WorkloadAssumption DEF WorkloadAssumption, Next, Acquire, Release, NextTask, Populate,
       ExecuteTask, Proceed, ManageTemporary, AllocateTemporary, AllConfigured, vars
  <2> QED
    BY <2>1, <2>2, <2>3, <2>4
\* It is enough that what is in flight has met, and that the tasks whose
\* turn comes with this step have.
<1>6. ASSUME pc' = "configure" => \A x, y \in DOMAIN in_flight' : x # y => <<x, y>> \in met',
             \A i \in DOMAIN workload :
               pc' # "configure" \/ i < t' \/ (i = t' /\ place' > Acquired(i)) => Met(i) \/ MetNext(i)
      PROVE  TogetherInv'
  <2>1. \A i : Met(i) => MetNext(i)
    BY <1>5
  <2>2. ASSUME NEW i \in DOMAIN workload,
               pc' # "configure" \/ i < t' \/ (i = t' /\ place' > Acquired(i)')
        PROVE  \A x, y \in Objects : x # y /\ Needs(i, x)' /\ Needs(i, y)' => <<x, y>> \in met'
    BY <1>3, <1>6, <2>1, <2>2
  <2>3. TogetherInv' <=>
          /\ pc' = "configure" => \A x, y \in DOMAIN in_flight' : x # y => <<x, y>> \in met'
          /\ \A i \in DOMAIN workload' :
               pc' # "configure" \/ i < t' \/ (i = t' /\ place' > Acquired(i)') =>
                 \A x, y \in Objects : x # y /\ Needs(i, x)' /\ Needs(i, y)' => <<x, y>> \in met'
    BY DEF TogetherInv
  <2> QED
    BY <1>3, <1>6, <2>2, <2>3
\* A task that has just acquired its last tensor.
<1>7. ASSUME pc' = "configure", t' \in DOMAIN workload, place' = Acquired(t') + 1,
             \A x, y \in DOMAIN in_flight' : x # y => <<x, y>> \in met'
      PROVE  MetNext(t')
  <2>1. Acquired(t)' = Acquired(t')
    BY <1>1 DEF Acquired, Ins, Outs
  <2>2. Reached'
    BY <1>1, <1>3, <1>7, <2>1 DEF Reached, FlightInv
  <2>3. \A x \in Objects : Needs(t, x)' => x \in DOMAIN in_flight'
    BY <2>2, NextReachedNeeds DEF NeededInFlight
  <2>4. \A x : Needs(t, x)' <=> Needs(t', x)
    BY <1>1 DEF Needs, Handles, Ins, Outs
  <2> QED
    BY <1>7, <2>3, <2>4
<1> HIDE DEF Met, MetNext
<1>8. CASE \E x \in Objects : Acquire(x)
  <2>1. PICK x \in Objects : Acquire(x)
    BY <1>8
  <2>2. /\ pc = "configure" /\ pc' = "configure" /\ t' = t /\ place' = place + 1
        /\ t \in DOMAIN workload /\ place <= Acquired(t)
    BY <1>1, <2>1, AcquireStep DEF Acquire, Doing
  <2>3. \A p, q \in DOMAIN in_flight' : p # q => <<p, q>> \in met'
    <3>1. CASE in_flight' = in_flight
      BY <1>4, <1>5, <2>2, <3>1
    <3>2. CASE in_flight' = With(in_flight, x, InputCount(x)) /\ Start(cross_group, x)
      <4>1. met' = met \cup (Alive \X {x}) \cup ({x} \X Alive) /\ Alive = DOMAIN in_flight
        BY <2>2, <3>2 DEF Start, FlightInv
      <4>2. DOMAIN in_flight' = DOMAIN in_flight \cup {x}
        BY <3>2 DEF With
      <4> QED
        BY <1>4, <2>2, <4>1, <4>2
    <3> QED
      BY <2>1, <3>1, <3>2 DEF Acquire
  <2>4. ASSUME NEW i \in DOMAIN workload, i < t' \/ (i = t' /\ place' > Acquired(i))
        PROVE  Met(i) \/ MetNext(i)
    <3>1. CASE i < t
      BY <1>4, <3>1
    <3>2. CASE i = t /\ place' > Acquired(i)
      <4>1. place' = Acquired(t') + 1 /\ t' = i
        BY <1>1, <1>2, <2>2, <3>2
      <4> QED
        BY <1>7, <2>2, <2>3, <4>1
    <3> QED
      BY <2>2, <2>4, <3>1, <3>2
  <2> QED
    BY <1>6, <2>2, <2>3, <2>4
<1>9. CASE \E x \in Objects : Release(x)
  <2>1. PICK x \in Objects : Release(x)
    BY <1>9
  <2>2. pc = "configure" /\ pc' = "configure" /\ t' = t /\ Doing("release", x)
    BY <2>1 DEF Release, Doing
  <2>3. place > Acquired(t)
    <3>1. PICK k \in DOMAIN Ins(t) : place = Acquired(t) + k
      BY <1>1, <2>2, ReleaseStep
    <3>2. k \in Nat \ {0} /\ Acquired(t) \in Nat
      BY <1>1, <2>2, ReleaseStep, TypedFacts
    <3> QED
      BY <3>1, <3>2
  <2>4. DOMAIN in_flight' \subseteq DOMAIN in_flight
    BY <2>1 DEF Release, Without
  <2> QED
    BY <1>4, <1>5, <1>6, <2>2, <2>3, <2>4
<1>10. CASE NextTask
  <2>1. /\ pc = "configure" /\ pc' = "configure" /\ t' = t + 1 /\ place' = 1
        /\ place > Acquired(t) /\ in_flight' = in_flight
    BY <1>10, NextTaskFacts DEF NextTask
  <2>2. \A p, q \in DOMAIN in_flight' : p # q => <<p, q>> \in met'
    BY <1>4, <1>5, <2>1
  <2>3. ASSUME NEW i \in DOMAIN workload, i < t' \/ (i = t' /\ place' > Acquired(i))
        PROVE  Met(i) \/ MetNext(i)
    <3>1. CASE i < t \/ i = t
      BY <1>4, <2>1, <3>1
    <3>2. CASE i = t + 1 /\ place' > Acquired(i)
      <4>1. place' = Acquired(t') + 1 /\ t' = i
        BY <1>2, <2>1, <3>2
      <4> QED
        BY <1>7, <2>1, <2>2, <4>1
    <3>3. i \in Nat
      BY <1>2
    <3> QED
      BY <1>1, <2>1, <2>3, <3>1, <3>2, <3>3
  <2> QED
    BY <1>6, <2>1, <2>2, <2>3
<1>11. CASE Populate
  <2>1. pc' # "configure" /\ t > Len(workload)
    BY <1>11 DEF Populate
  <2>2. \A i \in DOMAIN workload : i < t
    BY <1>1, <1>2, <2>1
  <2> QED
    BY <1>4, <1>6, <2>1, <2>2
<1>12. CASE ExecuteTask \/ Proceed \/ ManageTemporary \/ AllocateTemporary \/ AllConfigured
  <2>1. pc # "configure" /\ pc' # "configure"
    BY <1>12 DEF ExecuteTask, Proceed, ManageTemporary, AllocateTemporary, AllConfigured, vars
  <2> QED
    BY <1>4, <1>6, <2>1
<1> QED
  BY <1>8, <1>9, <1>10, <1>11, <1>12 DEF Next

\* A step starts an object, ends one, or leaves the manager alone.
LEMMA OutermostStep ==
  ASSUME LifetimeInv, LifetimeInv', Next
  PROVE  /\ Managed = DOMAIN outermost /\ Managed' = DOMAIN outermost'
         /\ Managed \subseteq Managed'
         /\ \A x \in Managed : outermost'[x] = outermost[x]
<1>1. Managed = DOMAIN outermost /\ Managed' = DOMAIN outermost'
  BY DEF LifetimeInv, LifetimeTypeOK
<1>2. CASE outermost' = outermost
  BY <1>1, <1>2
<1>3. CASE \E g \in Groups, o \in Objects : Start(g, o)
  <2>1. PICK g \in Groups, o \in Objects : Start(g, o)
    BY <1>3
  <2>2. /\ DOMAIN outermost' = DOMAIN outermost \cup {o}
        /\ \A q \in DOMAIN outermost : outermost'[q] = outermost[q]
    BY <2>1, StartFacts
  <2> QED
    BY <1>1, <2>2
<1>4. \/ UNCHANGED lifetime_vars \/ \E g \in Groups, o \in Objects : Start(g, o)
      \/ \E o \in Objects, s \in Sizes, a \in Alignments : End(o, s, a)
  BY WorkloadAssumption DEF WorkloadAssumption, Next, Acquire, Release, NextTask, Populate,
     ExecuteTask, Proceed, ManageTemporary, AllocateTemporary, AllConfigured, vars
<1>5. outermost' = outermost \/ \E g \in Groups, o \in Objects : Start(g, o)
  BY <1>4 DEF lifetime_vars, history, End
<1> QED
  BY <1>2, <1>3, <1>5

LEMMA ManagedStep ==
  ASSUME WorkInv, FlightInv, LifetimeInv, LifetimeInv', ManagedInv, Next
  PROVE  ManagedInv'
<1>1. /\ Managed = DOMAIN outermost /\ Managed' = DOMAIN outermost'
      /\ Managed \subseteq Managed' /\ \A x \in Managed : outermost'[x] = outermost[x]
  BY OutermostStep
<1>2. workload' = workload /\ DOMAIN workload' = DOMAIN workload /\ Typed(workload)
  BY WorkStep, WorkTyped
<1>3. \A i : Handles(i)' = Handles(i)
  BY <1>2, SameWork
<1>4. /\ pc # "functions" => \A x \in Managed : outermost[x] = cross_group
      /\ pc = "configure" =>
           \A i \in DOMAIN workload, x \in Objects : HasAcquired(i, x) => x \in Managed
      /\ pc \in {"run", "ran"} => \A i \in DOMAIN workload : Handles(i) \subseteq Managed
  BY DEF ManagedInv
<1>5. CASE \E x \in Objects : Acquire(x)
  <2>1. PICK x \in Objects : Acquire(x)
    BY <1>5
  <2>2. pc = "configure" /\ pc' = "configure" /\ Doing("acquire", x)
    BY <2>1 DEF Acquire, Doing
  <2>3. \A i \in DOMAIN workload : \A y : HasAcquired(i, y)' <=> HasAcquired(i, y) \/ (i = t /\ y = x)
    BY <2>2, AcquireFacts
  <2>4. CASE x \in DOMAIN in_flight /\ UNCHANGED <<in_flight, lifetime_vars>>
    <3>1. x \in Managed
      BY <2>2, <2>4, RoundFacts DEF FlightInv, Managed, Elements
    <3>2. outermost' = outermost
      BY <2>4 DEF lifetime_vars, history
    <3> QED
      BY <1>1, <1>2, <1>4, <2>2, <2>3, <3>1, <3>2 DEF ManagedInv
  <2>5. CASE Start(cross_group, x)
    <3>1. DOMAIN outermost' = DOMAIN outermost \cup {x}
      BY <2>5, StartFacts, WorkloadAssumption DEF WorkloadAssumption
    <3>2. outermost'[x] = cross_group
      <4>1. outermost' = With(outermost, x, IF Alive = {} THEN cross_group
                                            ELSE outermost[CHOOSE p \in Alive : TRUE])
        BY <2>5 DEF Start
      <4>2. CASE Alive = {}
        BY <4>1, <4>2 DEF With
      <4>3. CASE Alive # {}
        <5> DEFINE p == CHOOSE q \in Alive : TRUE
        <5>1. p \in Alive
          BY <4>3
        <5>2. p \in Managed
          BY <5>1, RoundFacts DEF Managed, Elements
        <5>3. outermost[p] = cross_group
          BY <1>4, <2>2, <5>2
        <5> QED
          BY <4>1, <4>3, <5>3 DEF With
      <4> QED
        BY <4>2, <4>3
    <3> QED
      BY <1>1, <1>2, <1>4, <2>2, <2>3, <3>1, <3>2 DEF ManagedInv
  <2> QED
    BY <2>1, <2>4, <2>5 DEF Acquire
<1>6. CASE \E x \in Objects : Release(x)
  <2>1. PICK x \in Objects : Release(x)
    BY <1>6
  <2>2. pc = "configure" /\ pc' = "configure" /\ Doing("release", x)
    BY <2>1 DEF Release, Doing
  <2>3. \A i \in DOMAIN workload : \A y : HasAcquired(i, y)' <=> HasAcquired(i, y)
    BY <2>2, ReleaseFacts
  <2>4. outermost' = outermost
    BY <2>1 DEF Release, End, lifetime_vars, history
  <2> QED
    BY <1>1, <1>2, <1>4, <2>2, <2>3, <2>4 DEF ManagedInv
<1>7. CASE NextTask
  <2>1. pc = "configure" /\ pc' = "configure" /\ outermost' = outermost
    BY <1>7 DEF NextTask, lifetime_vars, history
  <2>2. \A i \in DOMAIN workload : \A y : HasAcquired(i, y)' <=> HasAcquired(i, y)
    BY <1>7, NextTaskFacts
  <2> QED
    BY <1>1, <1>2, <1>4, <2>1, <2>2 DEF ManagedInv
<1>8. CASE Populate
  <2>1. pc = "configure" /\ pc' = "run" /\ outermost' = outermost /\ t > Len(workload)
    BY <1>8 DEF Populate, lifetime_vars, history
  <2>2. ASSUME NEW i \in DOMAIN workload PROVE Handles(i) \subseteq Managed
    <3>1. i < t /\ Handles(i) \subseteq Objects
      BY <1>2, <2>1, TypedFacts, WorkTyped
    <3>2. \A x \in Handles(i) : HasAcquired(i, x)
      BY <3>1 DEF HasAcquired
    <3> QED
      BY <1>4, <2>1, <3>1, <3>2
  <2> QED
    BY <1>1, <1>2, <1>3, <1>4, <2>1, <2>2 DEF ManagedInv
<1>9. CASE ExecuteTask \/ Proceed
  <2>1. pc \in {"run", "ran"} /\ pc' \in {"run", "ran"} /\ outermost' = outermost
    BY <1>9 DEF ExecuteTask, Proceed, lifetime_vars, history
  <2> QED
    BY <1>1, <1>2, <1>3, <1>4, <2>1 DEF ManagedInv
<1>10. CASE ManageTemporary \/ AllocateTemporary \/ AllConfigured
  <2>1. pc' = "functions"
    BY <1>10 DEF ManageTemporary, AllocateTemporary, AllConfigured, vars
  <2> QED
    BY <2>1 DEF ManagedInv
<1> QED
  BY <1>5, <1>6, <1>7, <1>8, <1>9, <1>10 DEF Next

-----------------------------------------------------------------------------
(* What the memory holds.                                                  *)

\* While the tasks run, every tensor they handle is mapped in the group of
\* the graph, to a blob that is there and to bytes that are there.
LEMMA MappedWhileRunning ==
  ASSUME LifetimeInv, FlightInv, ManagedInv, pc \in {"run", "ran"},
         NEW i \in DOMAIN workload, NEW x \in Handles(i)
  PROVE  /\ x \in DOMAIN blob_mappings[cross_group] /\ BlobOf(x) \in DOMAIN blobs
         /\ BytesOf(x) \subseteq 0 .. blob.size - 1
<1>1. LifetimeTypeOK /\ FitsInv /\ OutermostGroupMaps /\ cross_group \in Groups
  BY WorkloadAssumption DEF LifetimeInv, WorkloadAssumption
<1>2. Elements = {}
  BY RoundFacts DEF FlightInv
<1>3. x \in DOMAIN finalized /\ outermost[x] = cross_group
  BY <1>2 DEF ManagedInv, Managed, Elements
<1>4. x \in DOMAIN blob_mappings[cross_group] /\ x \in DOMAIN offset_mappings[cross_group]
  BY <1>1, <1>3 DEF OutermostGroupMaps
<1>5. Fits(x, cross_group)
  BY <1>1, <1>4 DEF FitsInv
<1>6. BlobOf(x) \in DOMAIN blobs
  BY <1>5 DEF Fits, BlobOf
<1>7. /\ offset_mappings[cross_group][x] \in Nat /\ finalized[x].info.size \in Nat
      /\ blob.size \in Nat
  <2>1. offset_mappings[cross_group][x] \in Nat
    BY <1>1, <1>4 DEF LifetimeTypeOK, IsPartial
  <2>2. finalized[x].info \in Infos /\ blob \in Infos
    BY <1>1, <1>3 DEF LifetimeTypeOK, IsPartial
  <2> QED
    BY <2>1, <2>2, InfoType
<1>8. offset_mappings[cross_group][x] + finalized[x].info.size <= blob.size
  BY <1>5 DEF Fits
<1>9. BytesOf(x) \subseteq 0 .. blob.size - 1
  BY <1>7, <1>8 DEF BytesOf
<1> QED
  BY <1>4, <1>6, <1>9

\* What a task needs has places that do not overlap.
LEMMA NeededApart ==
  ASSUME LifetimeInv, WorkInv, FlightInv, ManagedInv, TogetherInv, pc \in {"run", "ran"},
         NEW x \in Objects, NEW y \in Objects, x # y, Needs(t, x), Needs(t, y)
  PROVE  BlobOf(x) # BlobOf(y) /\ BytesOf(x) \cap BytesOf(y) = {}
<1>1. Typed(workload) /\ t \in DOMAIN workload
  BY WorkTyped, TypedFacts DEF WorkInv
<1>2. LifetimeTypeOK /\ FitsInv /\ OutermostGroupMaps /\ MeetingApart /\ cross_group \in Groups
  BY WorkloadAssumption DEF LifetimeInv, WorkloadAssumption
<1>3. <<x, y>> \in met
  BY <1>1 DEF TogetherInv
<1>4. PICK i \in 1 .. t : x \in Handles(i)
  BY DEF Needs
<1>5. PICK j \in 1 .. t : y \in Handles(j)
  BY DEF Needs
<1>6. i \in DOMAIN workload /\ j \in DOMAIN workload
  BY <1>1, TypedFacts
<1>7. x \in DOMAIN blob_mappings[cross_group] /\ y \in DOMAIN blob_mappings[cross_group]
  BY <1>4, <1>5, <1>6, MappedWhileRunning
<1>8. BlobsApart(x, y, cross_group) /\ OffsetsApart(x, y, cross_group)
  BY <1>2, <1>3, <1>7 DEF MeetingApart
<1>9. /\ blob_mappings[cross_group][x] \in Nat /\ blob_mappings[cross_group][y] \in Nat
      /\ offset_mappings[cross_group][x] \in Nat /\ offset_mappings[cross_group][y] \in Nat
      /\ finalized[x].info.size \in Nat /\ finalized[y].info.size \in Nat
  <2>1. /\ blob_mappings[cross_group][x] \in Nat /\ blob_mappings[cross_group][y] \in Nat
        /\ offset_mappings[cross_group][x] \in Nat /\ offset_mappings[cross_group][y] \in Nat
    BY <1>2, <1>7 DEF LifetimeTypeOK, OutermostGroupMaps, IsPartial
  <2>2. x \in DOMAIN finalized /\ y \in DOMAIN finalized
    BY <1>2, <1>7 DEF OutermostGroupMaps
  <2>3. finalized[x].info \in Infos /\ finalized[y].info \in Infos
    BY <1>2, <2>2 DEF LifetimeTypeOK, IsPartial
  <2> QED
    BY <2>1, <2>3, InfoType
<1>10. BlobOf(x) # BlobOf(y)
  BY <1>8, <1>9 DEF BlobsApart, BlobOf
<1>11. BytesOf(x) \cap BytesOf(y) = {}
  BY <1>8, <1>9 DEF OffsetsApart, BytesOf
<1> QED
  BY <1>10, <1>11

\* x was written before, or now if the task has run, and will be read.
Kept(x) ==
  /\ \E j \in 1 .. t : x \in Range(Outs(j)) /\ (j < t \/ pc = "ran")
  /\ \E j \in t .. Len(workload) : x \in Range(Ins(j))

\* A task writes its outputs, and nothing that is still needed is lost.
LEMMA ExecuteKeeps ==
  ASSUME LifetimeInv, WorkInv, FlightInv, ManagedInv, TogetherInv, ContentsInv, ExecuteTask
  PROVE  ContentsInv'
<1>1. /\ Typed(workload) /\ WellFormed(workload) /\ t \in DOMAIN workload /\ t \in Nat \ {0}
      /\ DOMAIN workload = 1 .. Len(workload) /\ Len(workload) \in Nat
  BY WorkTyped, TypedFacts DEF WorkInv, ExecuteTask
<1>2. /\ pc = "run" /\ pc' = "ran" /\ t' = t /\ workload' = workload
      /\ blobs' = blobs /\ blob' = blob /\ blob_mappings' = blob_mappings
      /\ offset_mappings' = offset_mappings /\ finalized' = finalized
  BY DEF ExecuteTask, lifetime_vars, derived, base
<1> DEFINE outs == Range(Outs(t))
<1>3. blob_memory' = [k \in DOMAIN blob_memory |->
        IF \E x \in outs : BlobOf(x) = k THEN CHOOSE x \in outs : BlobOf(x) = k ELSE blob_memory[k]]
  BY DEF ExecuteTask, Outs
<1>4. memory' = [b \in DOMAIN memory |->
        IF \E x \in outs : b \in BytesOf(x) THEN CHOOSE x \in outs : b \in BytesOf(x) ELSE memory[b]]
  BY DEF ExecuteTask, Outs
<1>5. /\ DOMAIN blob_memory = DOMAIN blobs /\ DOMAIN memory = 0 .. blob.size - 1
      /\ \A x \in Objects : Kept(x) => Holds(x)
  BY <1>2 DEF ContentsInv, Kept
<1> HIDE DEF outs
<1>6. ASSUME NEW y \in outs PROVE y \in Objects /\ Needs(t, y)
  <2>1. y \in Range(Outs(t)) /\ y \in Handles(t) /\ y \in Objects
    BY <1>1, TypedFacts DEF outs, Handles
  <2>2. PICK j \in t + 1 .. Len(workload) : y \in Range(Ins(j))
    BY <1>1, <2>1 DEF WellFormed, Ins, Outs
  <2>3. j \in t .. Len(workload) /\ t \in 1 .. t
    BY <1>1
  <2> QED
    BY <2>1, <2>2, <2>3 DEF Needs
<1>7. ASSUME NEW x \in Objects, Kept(x)' PROVE Holds(x)'
  <2>1. \A j : Outs(j)' = Outs(j) /\ Ins(j)' = Ins(j)
    BY <1>2, SameWork
  <2>2. PICK j \in 1 .. t : x \in Range(Outs(j))
    BY <1>2, <1>7, <2>1 DEF Kept
  <2>3. \E i \in t .. Len(workload) : x \in Range(Ins(i))
    BY <1>2, <1>7, <2>1 DEF Kept
  <2>4. Needs(t, x) /\ j \in DOMAIN workload /\ x \in Handles(j)
    BY <1>1, <2>2, <2>3 DEF Needs, Handles
  <2>5. BlobOf(x) \in DOMAIN blob_memory /\ BytesOf(x) \subseteq DOMAIN memory
    BY <1>2, <1>5, <2>4, MappedWhileRunning
  <2>6. \A y \in outs : y # x => BlobOf(x) # BlobOf(y) /\ BytesOf(x) \cap BytesOf(y) = {}
    BY <1>2, <1>6, <2>4, NeededApart
  <2>7. x \notin outs => Holds(x)
    <3>1. ASSUME x \notin outs PROVE Kept(x)
      <4>1. j < t
        BY <1>1, <2>2, <3>1 DEF outs
      <4> QED
        BY <2>2, <2>3, <4>1 DEF Kept
    <3> QED
      BY <1>5, <3>1
  <2>8. blob_memory'[BlobOf(x)] = x
    BY <1>3, <2>5, <2>6, <2>7 DEF Holds
  <2>9. \A b \in BytesOf(x) : memory'[b] = x
    BY <1>4, <2>5, <2>6, <2>7 DEF Holds
  <2>10. BlobOf(x)' = BlobOf(x) /\ BytesOf(x)' = BytesOf(x)
    BY <1>2 DEF BlobOf, BytesOf
  <2> QED
    BY <2>8, <2>9, <2>10 DEF Holds
<1>8. DOMAIN blob_memory' = DOMAIN blobs' /\ DOMAIN memory' = 0 .. blob'.size - 1
  BY <1>2, <1>3, <1>4, <1>5
<1> QED
  BY <1>7, <1>8 DEF ContentsInv, Kept

LEMMA ContentsStep ==
  ASSUME LifetimeInv, WorkInv, FlightInv, ManagedInv, TogetherInv, ContentsInv, Next
  PROVE  ContentsInv'
<1>1. CASE ExecuteTask
  BY <1>1, ExecuteKeeps
<1>2. CASE Populate
  <2>1. /\ pc' = "run" /\ t' = 1 /\ blobs' = blobs /\ blob' = blob
        /\ blob_memory' = [k \in DOMAIN blobs |-> None]
        /\ memory' = [b \in 0 .. blob.size - 1 |-> None]
    BY <1>2 DEF Populate, lifetime_vars, derived
  <2>2. DOMAIN blob_memory' = DOMAIN blobs' /\ DOMAIN memory' = 0 .. blob'.size - 1
    BY <2>1
  <2>3. \A x : ~ Kept(x)'
    BY <2>1 DEF Kept
  <2> QED
    BY <2>2, <2>3 DEF ContentsInv, Kept
<1>3. CASE Proceed
  <2>1. /\ pc = "ran" /\ pc' = "run" /\ t' = IF t = Len(workload) THEN 1 ELSE t + 1
        /\ workload' = workload /\ blobs' = blobs /\ blob' = blob
        /\ blob_mappings' = blob_mappings /\ offset_mappings' = offset_mappings
        /\ finalized' = finalized /\ blob_memory' = blob_memory /\ memory' = memory
    BY <1>3 DEF Proceed, run_vars, lifetime_vars, derived, base
  <2>2. t \in Nat \ {0} /\ t <= Len(workload) /\ Len(workload) \in Nat
    BY <2>1, WorkTyped, TypedFacts DEF WorkInv
  <2>3. /\ DOMAIN blob_memory = DOMAIN blobs /\ DOMAIN memory = 0 .. blob.size - 1
        /\ \A x \in Objects : Kept(x) => Holds(x)
    BY <2>1 DEF ContentsInv, Kept
  <2>4. ASSUME NEW x \in Objects, Kept(x)' PROVE Holds(x)'
    <3>1. \A j : Outs(j)' = Outs(j) /\ Ins(j)' = Ins(j)
      BY <2>1, SameWork
    <3>2. PICK j \in 1 .. t' : x \in Range(Outs(j)) /\ j < t'
      BY <2>1, <2>4, <3>1 DEF Kept
    <3>3. PICK i \in t' .. Len(workload) : x \in Range(Ins(i))
      BY <2>1, <2>4, <3>1 DEF Kept
    <3>4. t' = t + 1
      BY <2>1, <2>2, <3>2
    <3>5. j \in 1 .. t /\ i \in t .. Len(workload)
      BY <2>2, <3>2, <3>3, <3>4
    <3>6. Kept(x)
      BY <2>1, <3>2, <3>3, <3>5 DEF Kept
    <3> QED
      BY <2>1, <2>3, <3>6 DEF Holds, BlobOf, BytesOf
  <2> QED
    BY <2>1, <2>3, <2>4 DEF ContentsInv, Kept
<1>4. CASE \/ \E x \in Objects : Acquire(x) \/ Release(x)
           \/ NextTask \/ ManageTemporary \/ AllocateTemporary \/ AllConfigured
  <2>1. pc' \notin {"run", "ran"}
    BY <1>4 DEF Acquire, Release, Doing, NextTask, ManageTemporary, AllocateTemporary,
       AllConfigured, vars
  <2> QED
    BY <2>1 DEF ContentsInv
<1> QED
  BY <1>1, <1>2, <1>3, <1>4 DEF Next

-----------------------------------------------------------------------------
(* The theorems.                                                           *)

LEMMA InitInv == Init => IInv
<1> SUFFICES ASSUME Init PROVE IInv
  OBVIOUS
<1>1. LifetimeInv /\ Alive = {} /\ Elements = {} /\ DOMAIN outermost = {} /\ DOMAIN finalized = {}
  BY LifetimeInitInv DEF Init, LifetimeInit, Alive, Elements
<1>2. /\ \/ pc = "configure" /\ workload \in Workloads
         \/ pc = "functions" /\ workload = <<>>
      /\ t = 1 /\ place = 1 /\ in_flight = <<>>
  BY DEF Init
<1>3. WorkInv
  BY <1>2 DEF WorkInv
<1>4. Typed(workload)
  BY <1>3, WorkTyped
<1>5. \A i \in DOMAIN workload : \A x : ~ HasAcquired(i, x)
  <2>1. \A i \in DOMAIN workload : ~ (i < 1)
    BY <1>4, TypedFacts
  <2> QED
    BY <1>2, <2>1 DEF HasAcquired
<1>6. InFlightInv
  BY <1>2, <1>5 DEF InFlightInv
<1>7. FlightInv
  <2>1. IsPartial(in_flight, Objects, Nat \ {0}) /\ DOMAIN in_flight = {}
    BY <1>2 DEF IsPartial
  <2> QED
    BY <1>1, <1>2, <1>6, <2>1 DEF FlightInv
<1>8. TogetherInv
  <2>1. ASSUME NEW i \in DOMAIN workload,
               pc # "configure" \/ i < t \/ (i = t /\ place > Acquired(t))
        PROVE  \A x \in Objects : ~ Needs(i, x)
    <3>1. workload # <<>> /\ pc = "configure"
      BY <1>2
    <3>2. i = t /\ t \in DOMAIN workload
      BY <1>2, <1>4, <2>1, <3>1, TypedFacts
    <3>3. place = Acquired(t) + 1
      <4>1. Acquired(t) \in Nat
        BY <1>4, <3>2, TypedFacts
      <4> QED
        BY <1>2, <2>1, <3>1, <3>2, <4>1
    <3>4. Reached
      BY <1>3, <1>6, <3>1, <3>2, <3>3 DEF Reached
    <3>5. NeededInFlight
      BY <3>4, ReachedNeeds
    <3> QED
      BY <1>2, <3>2, <3>5 DEF NeededInFlight
  <2>2. \A x, y \in DOMAIN in_flight : x # y => <<x, y>> \in met
    BY <1>2
  <2> QED
    BY <2>1, <2>2 DEF TogetherInv
<1>9. ManagedInv
  BY <1>1, <1>2, <1>5 DEF ManagedInv, Managed, Elements
<1>10. ContentsInv
  BY <1>2 DEF ContentsInv
<1> QED
  BY <1>1, <1>3, <1>7, <1>8, <1>9, <1>10 DEF IInv

LEMMA FlightStep ==
  ASSUME WorkInv, FlightInv, LifetimeInv, Next
  PROVE  FlightInv'
<1>1. CASE ExecuteTask \/ Proceed
  <2>1. /\ pc \in {"run", "ran"} /\ pc' \in {"run", "ran"} /\ in_flight' = in_flight
        /\ occupied_blobs' = occupied_blobs
    BY <1>1 DEF ExecuteTask, Proceed, lifetime_vars, base
  <2> QED
    BY <2>1 DEF FlightInv, InFlightInv, Alive
<1>2. CASE ManageTemporary \/ AllocateTemporary \/ AllConfigured
  <2>1. pc' = "functions" /\ in_flight' = in_flight
    BY <1>2 DEF ManageTemporary, AllocateTemporary, AllConfigured, vars
  <2> QED
    BY <2>1 DEF FlightInv, InFlightInv
<1> QED
  BY <1>1, <1>2, AcquireFlight, ReleaseFlight, NextTaskFlight, PopulateFlight DEF Next

LEMMA StepKeepsInv == IInv /\ [Next]_vars => IInv'
<1>1. ASSUME IInv, Next PROVE IInv'
  <2>1. LifetimeInv /\ WorkInv /\ FlightInv /\ TogetherInv /\ ManagedInv /\ ContentsInv
    BY <1>1 DEF IInv
  <2>2. LifetimeInv'
    BY <1>1, <2>1, LifetimeStep
  <2>3. WorkInv' /\ FlightInv'
    BY <1>1, <2>1, WorkStep, FlightStep
  <2>4. TogetherInv'
    BY <1>1, <2>1, <2>3, TogetherStep
  <2>5. ManagedInv'
    BY <1>1, <2>1, <2>2, ManagedStep
  <2>6. ContentsInv'
    BY <1>1, <2>1, ContentsStep
  <2> QED
    BY <2>2, <2>3, <2>4, <2>5, <2>6 DEF IInv
<1>2. ASSUME IInv, UNCHANGED vars PROVE IInv'
  <2>1. LifetimeInv'
    BY <1>2, LifetimeStep DEF IInv
  <2>2. /\ workload' = workload /\ pc' = pc /\ t' = t /\ place' = place
        /\ in_flight' = in_flight /\ blob_memory' = blob_memory /\ memory' = memory
        /\ UNCHANGED lifetime_vars
    BY <1>2 DEF vars, run_vars
  <2>3. /\ \A i : /\ Ins(i)' = Ins(i) /\ Outs(i)' = Outs(i)
                  /\ Handles(i)' = Handles(i) /\ Acquired(i)' = Acquired(i)
        /\ \A x : Reads(x)' = Reads(x)
        /\ \A i, k, x : StepAcquires(i, k, x)' <=> StepAcquires(i, k, x)
    BY <2>2, SameWork
  <2>4. /\ Alive' = Alive /\ Managed' = Managed /\ outermost' = outermost /\ met' = met
    BY <2>2 DEF lifetime_vars, base, history, Alive, Managed
  <2>5. WorkInv'
    BY <1>2, <2>2 DEF IInv, WorkInv
  <2>6. \A i, x : (HasAcquired(i, x)' <=> HasAcquired(i, x)) /\ (Needs(i, x)' <=> Needs(i, x))
    BY <2>2, <2>3 DEF HasAcquired, Needs
  <2>7. Acquired(t)' = Acquired(t) /\ \A x : ToRead(x)' = ToRead(x)
    <3>1. Acquired(t)' = Acquired(t)
      BY <2>2 DEF Acquired, Ins, Outs
    <3> QED
      BY <2>2, <2>3, <3>1 DEF ToRead
  <2>8. FlightInv'
    BY <1>2, <2>2, <2>4, <2>6, <2>7 DEF IInv, FlightInv, InFlightInv
  <2>9. TogetherInv'
    BY <1>2, <2>2, <2>4, <2>6, <2>7 DEF IInv, TogetherInv
  <2>10. ManagedInv'
    BY <1>2, <2>2, <2>3, <2>4, <2>6 DEF IInv, ManagedInv
  <2>11. ContentsInv'
    <3>1. \A x : Holds(x)' <=> Holds(x)
      BY <2>2 DEF Holds, BlobOf, BytesOf, lifetime_vars, derived, base
    <3>2. blobs' = blobs /\ blob' = blob
      BY <2>2 DEF lifetime_vars, derived
    <3> QED
      BY <1>2, <2>2, <2>3, <3>1, <3>2 DEF IInv, ContentsInv
  <2> QED
    BY <2>1, <2>5, <2>8, <2>9, <2>10, <2>11 DEF IInv
<1> QED
  BY <1>1, <1>2

\* And so do those of the tasks.
THEOREM Invariant == Spec => []IInv
  BY InitInv, StepKeepsInv, PTL DEF Spec

\* Types; while the tasks are configured exactly the tensors in flight are
\* alive, and when the pool is made none is.
THEOREM TypesAndLifetimes == Spec => []TypeOK
<1>1. ASSUME IInv PROVE TypeOK
  <2>1. LifetimeInv /\ WorkInv /\ FlightInv
    BY <1>1 DEF IInv
  <2>2. pc \in {"configure", "run", "ran", "functions"} /\ t \in 1 .. Len(workload) + 1
    BY <2>1 DEF WorkInv
  <2> QED
    BY <2>1, <2>2 DEF TypeOK, LifetimeInv, FlightInv
<1> QED
  BY <1>1, Invariant, PTL

\* Every input of a task is, when the task runs and after it has, what its
\* producer wrote: whatever the workload, nothing that shares its memory
\* was written in between.
THEOREM InputsAsWritten == Spec => []InputsIntact
<1>1. ASSUME IInv PROVE InputsIntact
  <2> SUFFICES ASSUME pc \in {"run", "ran"}, NEW x \in Range(Ins(t)) PROVE Holds(x)
    BY DEF InputsIntact, Holds, Ins
  <2>1. WorkInv /\ ContentsInv
    BY <1>1 DEF IInv
  <2>2. /\ Typed(workload) /\ WellFormed(workload) /\ t \in Nat \ {0}
        /\ t \in DOMAIN workload /\ t <= Len(workload) /\ Len(workload) \in Nat
    BY <2>1, WorkTyped, TypedFacts DEF WorkInv
  <2>3. x \in Objects
    BY <2>2, TypedFacts DEF Handles
  <2>4. PICK j \in 1 .. t - 1 : x \in Range(Outs(j))
    BY <2>2 DEF WellFormed, Ins, Outs
  <2>5. j \in 1 .. t /\ j < t /\ t \in t .. Len(workload)
    BY <2>2, <2>4
  <2> QED
    BY <2>1, <2>3, <2>4, <2>5 DEF ContentsInv
<1> QED
  BY <1>1, Invariant, PTL
=============================================================================
