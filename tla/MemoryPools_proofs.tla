-------------------------- MODULE MemoryPools_proofs --------------------------
(***************************************************************************)
(* Two functions never hold one memory pool, and a thread that the         *)
(* semaphore lets through finds a free one, for any threads and pools.     *)
(***************************************************************************)
EXTENDS MemoryPools, FiniteSetTheorems, SequenceTheorems, TLAPS

Places == {"idle", "asleep", "woken", "signalled", "locked", "running", "unlock", "notify"}

PoolsType ==
  /\ free_pools \in Seq(Pools) /\ occupied_pools \in Seq(Pools)
  /\ value \in Nat
  /\ pc \in [Threads -> Places]
  /\ runs \in [Threads -> Nat]
  /\ pool \in [Threads -> Pools \cup {nullptr}]
  /\ region \in [Threads -> Pools \cup {nullptr}]

\* A thread that has a pool and has not given it back yet.
Holding(t) == pc[t] \in {"locked", "running", "unlock"}

\* What the place of a thread says of its fields and of the mutex.
ThreadSane(t) ==
  /\ Holding(t) => pool[t] # nullptr /\ pool[t] \in Range(occupied_pools)
  /\ ~Holding(t) /\ pc[t] # "notify" => pool[t] = nullptr
  /\ region[t] = IF pc[t] = "running" THEN pool[t] ELSE nullptr

\* No value is twice among f[1] to f[n] and o[1] to o[m].
Distinct(f, n, o, m) ==
  /\ \A i, j \in 1 .. n : i # j => f[i] # f[j]
  /\ \A i, j \in 1 .. m : i # j => o[i] # o[j]
  /\ \A i \in 1 .. n, j \in 1 .. m : f[i] # o[j]

\* The first of f is taken to the front of o, or the k-th of o to that of f.
Taken(f, n, o, m, f2, o2) ==
  /\ \A i \in 1 .. n - 1 : f2[i] = f[i + 1]
  /\ \A i \in 1 .. m + 1 : o2[i] = IF i = 1 THEN f[1] ELSE o[i - 1]
Returned(f, n, o, m, k, f2, o2) ==
  /\ \A i \in 1 .. n + 1 : f2[i] = IF i = 1 THEN o[k] ELSE f[i - 1]
  /\ \A i \in 1 .. m - 1 : o2[i] = IF i < k THEN o[i] ELSE o[i + 1]

\* A pool is once in one of the two lists.
ListsDistinct ==
  Distinct(free_pools, Len(free_pools), occupied_pools, Len(occupied_pools))

HoldersDistinct ==
  \A t, u \in Threads : t # u /\ Holding(t) /\ Holding(u) => pool[t] # pool[u]

Signalled == {t \in Threads : pc[t] = "signalled"}

PoolsInv ==
  /\ PoolsType
  /\ \A t \in Threads : ThreadSane(t)
  /\ ListsDistinct
  /\ HoldersDistinct
  /\ LetThrough

-----------------------------------------------------------------------------
(* Lists of pools.                                                         *)

LEMMA InRange == ASSUME NEW S, NEW s \in Seq(S), NEW x
                 PROVE  x \in Range(s) <=> \E i \in 1 .. Len(s) : s[i] = x
  BY LenProperties DEF Range

LEMMA Prepended ==
  ASSUME NEW S, NEW s \in Seq(S), NEW e \in S
  PROVE  /\ <<e>> \o s \in Seq(S)
         /\ Len(<<e>> \o s) = Len(s) + 1
         /\ \A i \in 1 .. Len(s) + 1 : (<<e>> \o s)[i] = IF i = 1 THEN e ELSE s[i - 1]
  <1>1. <<e>> \in Seq(S) /\ Len(<<e>>) = 1 /\ <<e>>[1] = e
    OBVIOUS
  <1>2. Len(s) \in Nat
    BY LenProperties
  <1> QED
    BY <1>1, <1>2, ConcatProperties

LEMMA Removed ==
  ASSUME NEW S, NEW s \in Seq(S), NEW k \in 1 .. Len(s)
  PROVE  /\ RemoveAt(s, k) \in Seq(S)
         /\ Len(RemoveAt(s, k)) = Len(s) - 1
         /\ \A i \in 1 .. Len(s) - 1 :
              RemoveAt(s, k)[i] = IF i < k THEN s[i] ELSE s[i + 1]
  <1> DEFINE before == SubSeq(s, 1, k - 1)
             after == SubSeq(s, k + 1, Len(s))
  <1>1. Len(s) \in Nat /\ \A i \in 1 .. Len(s) : s[i] \in S
    BY LenProperties
  <1>2. before \in Seq(S) /\ Len(before) = k - 1 /\ \A i \in 1 .. k - 1 : before[i] = s[i]
    BY <1>1, SubSeqProperties
  <1>3. /\ after \in Seq(S) /\ Len(after) = Len(s) - k
        /\ \A i \in 1 .. Len(s) - k : after[i] = s[i + k]
    <2>1. \A i \in k + 1 .. Len(s) : s[i] \in S
      BY <1>1
    <2>2. Len(after) = IF k + 1 <= Len(s) THEN Len(s) - (k + 1) + 1 ELSE 0
      BY <1>1, <2>1, SubSeqProperties
    <2>3. after \in Seq(S) /\ \A i \in 1 .. Len(s) - (k + 1) + 1 : after[i] = s[(k + 1) + i - 1]
      BY <1>1, <2>1, SubSeqProperties
    <2>4. Len(s) - (k + 1) + 1 = Len(s) - k
      BY <1>1
    <2>5. \A i \in 1 .. Len(s) - k : (k + 1) + i - 1 = i + k
      BY <1>1
    <2> HIDE DEF after
    <2> QED
      BY <1>1, <2>2, <2>3, <2>4, <2>5
  <1>4. RemoveAt(s, k) = before \o after
    BY DEF RemoveAt
  <1> HIDE DEF before, after
  <1>5. /\ before \o after \in Seq(S) /\ Len(before \o after) = Len(before) + Len(after)
        /\ \A i \in 1 .. Len(before) + Len(after) :
             (before \o after)[i] =
                IF i <= Len(before) THEN before[i] ELSE after[i - Len(before)]
    BY <1>2, <1>3, ConcatProperties
  <1> QED
    BY <1>1, <1>2, <1>3, <1>4, <1>5

LEMMA DistinctTaken ==
  ASSUME NEW n \in Nat \ {0}, NEW m \in Nat, NEW f, NEW o, NEW f2, NEW o2,
         Distinct(f, n, o, m), Taken(f, n, o, m, f2, o2)
  PROVE  Distinct(f2, n - 1, o2, m + 1)
  <1> USE DEF Distinct, Taken
  <1>1. \A i \in 1 .. n - 1 : i + 1 \in 1 .. n /\ i + 1 # 1
    OBVIOUS
  <1>2. \A i, j \in 1 .. n - 1 : i # j => i + 1 # j + 1
    OBVIOUS
  <1>3. \A i \in 1 .. m + 1 : i # 1 => i - 1 \in 1 .. m /\ o2[i] = o[i - 1]
    OBVIOUS
  <1>4. 1 \in 1 .. n /\ \A i \in 1 .. m + 1 : i = 1 => o2[i] = f[1]
    OBVIOUS
  <1>5. \A i, j \in 1 .. m + 1 : i # j => i - 1 # j - 1
    OBVIOUS
  <1>6. \A i, j \in 1 .. n - 1 : i # j => f2[i] # f2[j]
    BY <1>1, <1>2
  <1>7. \A i, j \in 1 .. m + 1 : i # j => o2[i] # o2[j]
    BY <1>3, <1>4, <1>5
  <1>8. \A i \in 1 .. n - 1, j \in 1 .. m + 1 : f2[i] # o2[j]
    BY <1>1, <1>3, <1>4
  <1> QED
    BY <1>6, <1>7, <1>8

LEMMA DistinctReturned ==
  ASSUME NEW n \in Nat, NEW m \in Nat, NEW k \in 1 .. m, NEW f, NEW o, NEW f2, NEW o2,
         Distinct(f, n, o, m), Returned(f, n, o, m, k, f2, o2)
  PROVE  Distinct(f2, n + 1, o2, m - 1)
  <1> USE DEF Distinct, Returned
  <1> DEFINE at(i) == IF i < k THEN i ELSE i + 1
  <1>1. \A i \in 1 .. m - 1 : at(i) \in 1 .. m /\ at(i) # k /\ o2[i] = o[at(i)]
    OBVIOUS
  <1>2. \A i, j \in 1 .. m - 1 : i # j => at(i) # at(j)
    OBVIOUS
  <1> HIDE DEF at
  <1>3. \A i \in 1 .. n + 1 : i # 1 => i - 1 \in 1 .. n /\ f2[i] = f[i - 1]
    OBVIOUS
  <1>4. \A i \in 1 .. n + 1 : i = 1 => f2[i] = o[k]
    OBVIOUS
  <1>5. \A i, j \in 1 .. n + 1 : i # j => i - 1 # j - 1
    OBVIOUS
  <1>6. \A i, j \in 1 .. n + 1 : i # j => f2[i] # f2[j]
    BY <1>3, <1>4, <1>5
  <1>7. \A i, j \in 1 .. m - 1 : i # j => o2[i] # o2[j]
    BY <1>1, <1>2
  <1>8. \A i \in 1 .. n + 1, j \in 1 .. m - 1 : f2[i] # o2[j]
    BY <1>1, <1>3, <1>4
  <1> QED
    BY <1>6, <1>7, <1>8

-----------------------------------------------------------------------------
LEMMA SignalledFinite == IsFiniteSet(Signalled) /\ Cardinality(Signalled) \in Nat
  <1>1. Signalled \subseteq Threads /\ IsFiniteSet(Threads)
    BY PoolsAssumption DEF Signalled
  <1> QED
    BY <1>1, FS_Subset, FS_CardinalityType

LEMMA PoolsInitially == Init => PoolsInv
  <1> SUFFICES ASSUME Init PROVE PoolsInv
    OBVIOUS
  <1>1. NumPools \in Nat
    BY PoolsAssumption
  <1>2. RegisteredPools \in Seq(Pools) /\ Len(RegisteredPools) = NumPools
        /\ \A i \in 1 .. NumPools : RegisteredPools[i] = i
    <2>1. RegisteredPools \in [1 .. NumPools -> Pools]
      BY DEF RegisteredPools, Pools
    <2> QED
      BY <1>1, <2>1 DEF RegisteredPools, Pools
  <1>3. <<>> \in Seq(Pools) /\ Len(<<>>) = 0
    OBVIOUS
  <1>4. PoolsType
    BY <1>1, <1>2, <1>3 DEF Init, PoolsType, Places
  <1>5. \A t \in Threads : ThreadSane(t)
    BY DEF Init, ThreadSane, Holding
  <1>6. ListsDistinct
    BY <1>1, <1>2, <1>3 DEF Init, ListsDistinct, Distinct
  <1>7. HoldersDistinct
    BY DEF Init, HoldersDistinct, Holding
  <1>8. LetThrough
    <2>1. {t \in Threads : pc[t] = "signalled"} = {}
      BY DEF Init
    <2>2. Cardinality({t \in Threads : pc[t] = "signalled"}) = 0
      BY <2>1, FS_EmptySet
    <2>3. value = NumPools /\ Len(free_pools) = NumPools
      BY <1>2 DEF Init
    <2> QED
      BY <1>1, <2>2, <2>3 DEF LetThrough
  <1> QED
    BY <1>4, <1>5, <1>6, <1>7, <1>8 DEF PoolsInv

\* A step that changes no list and no semaphore keeps what is said of them.
LEMMA ListsKept ==
  ASSUME PoolsInv, UNCHANGED <<free_pools, occupied_pools>>
  PROVE  ListsDistinct'
  BY DEF PoolsInv, ListsDistinct

LEMMA NobodySignalled ==
  ASSUME PoolsInv, UNCHANGED <<free_pools, value>>, Signalled' = Signalled
  PROVE  LetThrough'
  BY DEF PoolsInv, LetThrough, Signalled

LEMMA SemWaitKeeps ==
  ASSUME PoolsInv, NEW t \in Threads, SemWait(t) PROVE PoolsInv'
  <1> USE DEF PoolsInv, PoolsType
  <1>1. PoolsType'
    <2>1. value' \in Nat
      BY DEF SemWait
    <2>2. pc' \in [Threads -> Places]
      BY DEF SemWait, Places
    <2> QED
      BY <2>1, <2>2 DEF SemWait
  <1>2. \A u \in Threads : ThreadSane(u)'
    BY DEF SemWait, ThreadSane, Holding, Places
  <1>3. ListsDistinct'
    BY ListsKept DEF SemWait
  <1>4. HoldersDistinct'
    BY ZenonT(60) DEF SemWait, HoldersDistinct, Holding
  <1>5. LetThrough'
    <2>1. CASE value > 0 /\ value' = value - 1 /\ pc' = [pc EXCEPT ![t] = "signalled"]
      <3>1. Signalled' = Signalled \cup {t} /\ t \notin Signalled
        BY <2>1 DEF SemWait, Signalled
      <3>2. Cardinality(Signalled') = Cardinality(Signalled) + 1
        BY <3>1, SignalledFinite, FS_AddElement
      <3>3. free_pools' = free_pools /\ Len(free_pools) \in Nat
        BY LenProperties DEF SemWait
      <3> QED
        BY <2>1, <3>2, <3>3, SignalledFinite DEF LetThrough, Signalled
    <2>2. CASE UNCHANGED value /\ pc' = [pc EXCEPT ![t] = "asleep"]
      <3>1. Signalled' = Signalled
        BY <2>2 DEF SemWait, Signalled
      <3> QED
        BY <2>2, <3>1, NobodySignalled DEF SemWait
    <2> QED
      BY <2>1, <2>2 DEF SemWait
  <1> QED
    BY <1>1, <1>2, <1>3, <1>4, <1>5

LEMMA SpuriousKeeps ==
  ASSUME PoolsInv, NEW t \in Threads, Spurious(t) PROVE PoolsInv'
  <1> USE DEF PoolsInv, PoolsType
  <1>1. PoolsType'
    BY DEF Spurious, Goto, Places
  <1>2. \A u \in Threads : ThreadSane(u)'
    BY DEF Spurious, Goto, ThreadSane, Holding
  <1>3. ListsDistinct'
    BY ListsKept DEF Spurious
  <1>4. HoldersDistinct'
    BY DEF Spurious, Goto, HoldersDistinct, Holding
  <1>5. Signalled' = Signalled
    BY DEF Spurious, Goto, Signalled
  <1>6. LetThrough'
    BY <1>5, NobodySignalled DEF Spurious
  <1> QED
    BY <1>1, <1>2, <1>3, <1>4, <1>6

\* The pool taken is the first free one, so nobody else has it.
LEMMA LockPoolKeeps ==
  ASSUME PoolsInv, NEW t \in Threads, LockPool(t) PROVE PoolsInv'
  <1> USE DEF PoolsInv, PoolsType
  <1> DEFINE p == Head(free_pools)
  <1>1. /\ free_pools # <<>> /\ Len(free_pools) \in Nat \ {0} /\ Len(occupied_pools) \in Nat
        /\ p \in Pools /\ p = free_pools[1]
    BY LenProperties, HeadTailProperties DEF LockPool
  <1>2. /\ free_pools' \in Seq(Pools) /\ Len(free_pools') = Len(free_pools) - 1
        /\ \A i \in 1 .. Len(free_pools) - 1 : free_pools'[i] = free_pools[i + 1]
    BY <1>1, HeadTailProperties DEF LockPool
  <1>3. /\ occupied_pools' \in Seq(Pools) /\ Len(occupied_pools') = Len(occupied_pools) + 1
        /\ \A i \in 1 .. Len(occupied_pools) + 1 :
             occupied_pools'[i] = IF i = 1 THEN p ELSE occupied_pools[i - 1]
    BY <1>1, Prepended DEF LockPool
  <1>4. /\ pool' = [pool EXCEPT ![t] = p] /\ pc' = [pc EXCEPT ![t] = "locked"]
        /\ pc[t] = "signalled" /\ UNCHANGED <<value, runs, region>>
    BY DEF LockPool, Goto
  <1> HIDE DEF p
  <1>5. PoolsType'
    BY <1>1, <1>2, <1>3, <1>4 DEF Places
  <1>6. Range(occupied_pools') = Range(occupied_pools) \cup {p}
    <2>1. ASSUME NEW x PROVE x \in Range(occupied_pools') <=> x \in Range(occupied_pools) \cup {p}
      <3>1. x \in Range(occupied_pools') <=> \E i \in 1 .. Len(occupied_pools) + 1 : occupied_pools'[i] = x
        BY <1>3, InRange
      <3>2. x \in Range(occupied_pools) <=> \E i \in 1 .. Len(occupied_pools) : occupied_pools[i] = x
        BY InRange
      <3>3. ASSUME NEW i \in 1 .. Len(occupied_pools), occupied_pools[i] = x
            PROVE  i + 1 \in 1 .. Len(occupied_pools) + 1 /\ occupied_pools'[i + 1] = x
        BY <1>1, <1>3, <3>3
      <3>4. ASSUME NEW i \in 1 .. Len(occupied_pools) + 1, occupied_pools'[i] = x, x # p
            PROVE  i - 1 \in 1 .. Len(occupied_pools) /\ occupied_pools[i - 1] = x
        BY <1>1, <1>3, <3>4
      <3>5. 1 \in 1 .. Len(occupied_pools) + 1 /\ occupied_pools'[1] = p
        BY <1>1, <1>3
      <3> QED
        BY <3>1, <3>2, <3>3, <3>4, <3>5
    <2> QED
      BY <2>1
  <1>7. p # nullptr /\ p \notin Range(occupied_pools)
    <2>1. \A j \in 1 .. Len(occupied_pools) : occupied_pools[j] # p
      BY <1>1 DEF ListsDistinct, Distinct
    <2> QED
      BY <1>1, <2>1, InRange DEF Pools, nullptr
  <1>8. \A u \in Threads : ThreadSane(u)'
    BY <1>4, <1>6, <1>7 DEF ThreadSane, Holding
  <1>9. ListsDistinct'
    <2>1. Taken(free_pools, Len(free_pools), occupied_pools, Len(occupied_pools),
                free_pools', occupied_pools')
      BY <1>1, <1>2, <1>3 DEF Taken
    <2>2. Distinct(free_pools', Len(free_pools) - 1, occupied_pools', Len(occupied_pools) + 1)
      BY <1>1, <2>1, DistinctTaken DEF ListsDistinct
    <2> QED
      BY <1>2, <1>3, <2>2 DEF ListsDistinct
  <1>10. HoldersDistinct'
    BY <1>4, <1>7 DEF HoldersDistinct, ThreadSane, Holding
  <1>11. LetThrough'
    <2>1. Signalled' = Signalled \ {t} /\ t \in Signalled
      BY <1>4 DEF Signalled
    <2>2. Cardinality(Signalled') = Cardinality(Signalled) - 1
      BY <2>1, SignalledFinite, FS_RemoveElement
    <2> QED
      BY <1>1, <1>2, <1>4, <2>2, SignalledFinite DEF LetThrough, Signalled
  <1> QED
    BY <1>5, <1>8, <1>9, <1>10, <1>11

LEMMA SetRegionsKeeps ==
  ASSUME PoolsInv, NEW t \in Threads, SetRegions(t) PROVE PoolsInv'
  <1> USE DEF PoolsInv, PoolsType
  <1>1. PoolsType'
    BY DEF SetRegions, Goto, Places
  <1>2. \A u \in Threads : ThreadSane(u)'
    BY DEF SetRegions, Goto, ThreadSane, Holding
  <1>3. ListsDistinct'
    BY ListsKept DEF SetRegions
  <1>4. HoldersDistinct'
    BY DEF SetRegions, Goto, HoldersDistinct, Holding
  <1>5. Signalled' = Signalled
    BY DEF SetRegions, Goto, Signalled
  <1>6. LetThrough'
    BY <1>5, NobodySignalled DEF SetRegions
  <1> QED
    BY <1>1, <1>2, <1>3, <1>4, <1>6

LEMMA ClearRegionsKeeps ==
  ASSUME PoolsInv, NEW t \in Threads, ClearRegions(t) PROVE PoolsInv'
  <1> USE DEF PoolsInv, PoolsType
  <1>1. PoolsType'
    BY DEF ClearRegions, Goto, Places
  <1>2. \A u \in Threads : ThreadSane(u)'
    BY DEF ClearRegions, Goto, ThreadSane, Holding
  <1>3. ListsDistinct'
    BY ListsKept DEF ClearRegions
  <1>4. HoldersDistinct'
    BY DEF ClearRegions, Goto, HoldersDistinct, Holding
  <1>5. Signalled' = Signalled
    BY DEF ClearRegions, Goto, Signalled
  <1>6. LetThrough'
    BY <1>5, NobodySignalled DEF ClearRegions
  <1> QED
    BY <1>1, <1>2, <1>3, <1>4, <1>6

\* Both sides of a sum grow by one.
LEMMA OneMore ==
  ASSUME NEW v, NEW v2, NEW c, NEW c2, NEW n, NEW n2, v \in Nat, c \in Nat, n \in Nat,
         v + c = n, v2 = v + 1, c2 = c, n2 = n + 1
  PROVE  v2 + c2 = n2
  OBVIOUS

\* The pool given back was in no list but that of the occupied ones, once.
LEMMA UnlockPoolKeeps ==
  ASSUME PoolsInv, NEW t \in Threads, UnlockPool(t) PROVE PoolsInv'
  <1> USE DEF PoolsInv, PoolsType
  <1> DEFINE p == pool[t]
  <1>1. PICK k \in 1 .. Len(occupied_pools) :
          occupied_pools[k] = p /\ occupied_pools' = RemoveAt(occupied_pools, k)
    BY LenProperties DEF UnlockPool
  <1>2. /\ Len(free_pools) \in Nat /\ Len(occupied_pools) \in Nat /\ p \in Pools
        /\ pool[t] = p
    BY <1>1, LenProperties
  <1>3. /\ free_pools' = <<p>> \o free_pools /\ value' = value + 1
        /\ pc[t] = "unlock" /\ pc' = [pc EXCEPT ![t] = "notify"]
        /\ UNCHANGED <<runs, pool, region>>
    BY DEF UnlockPool, Goto
  <1> HIDE DEF p
  <1>4. /\ occupied_pools' \in Seq(Pools) /\ Len(occupied_pools') = Len(occupied_pools) - 1
        /\ \A i \in 1 .. Len(occupied_pools) - 1 :
             occupied_pools'[i] = IF i < k THEN occupied_pools[i] ELSE occupied_pools[i + 1]
    BY <1>1, Removed
  <1>5. /\ free_pools' \in Seq(Pools) /\ Len(free_pools') = Len(free_pools) + 1
        /\ \A i \in 1 .. Len(free_pools) + 1 :
             free_pools'[i] = IF i = 1 THEN p ELSE free_pools[i - 1]
    BY <1>2, <1>3, Prepended
  <1>6. PoolsType'
    BY <1>2, <1>3, <1>4, <1>5 DEF Places
  <1>7. ASSUME NEW x \in Range(occupied_pools), x # p PROVE x \in Range(occupied_pools')
    <2>1. PICK i \in 1 .. Len(occupied_pools) : occupied_pools[i] = x
      BY InRange
    <2>2. CASE i < k
      <3>1. i \in 1 .. Len(occupied_pools') /\ occupied_pools'[i] = x
        BY <1>2, <1>4, <2>1, <2>2
      <3> QED
        BY <1>4, <3>1, InRange
    <2>3. CASE i > k
      <3>1. i - 1 \in 1 .. Len(occupied_pools') /\ occupied_pools'[i - 1] = x
        BY <1>2, <1>4, <2>1, <2>3
      <3> QED
        BY <1>4, <3>1, InRange
    <2> QED
      BY <1>1, <1>7, <2>1, <2>2, <2>3
  <1>8. \A u \in Threads : ThreadSane(u)'
    BY <1>2, <1>3, <1>7 DEF ThreadSane, Holding, HoldersDistinct
  <1>9. ListsDistinct'
    <2>1. Returned(free_pools, Len(free_pools), occupied_pools, Len(occupied_pools), k,
                   free_pools', occupied_pools')
      BY <1>1, <1>4, <1>5 DEF Returned
    <2>2. Distinct(free_pools', Len(free_pools) + 1, occupied_pools', Len(occupied_pools) - 1)
      BY <1>2, <2>1, DistinctReturned DEF ListsDistinct
    <2> QED
      BY <1>4, <1>5, <2>2 DEF ListsDistinct
  <1>10. HoldersDistinct'
    BY <1>3 DEF HoldersDistinct, Holding
  <1>11. LetThrough'
    <2>1. Signalled' = Signalled
      BY <1>3 DEF Signalled
    <2>2. value + Cardinality(Signalled) = Len(free_pools)
      BY DEF LetThrough, Signalled
    <2>3. Cardinality(Signalled') = Cardinality(Signalled) /\ Cardinality(Signalled) \in Nat
      BY <2>1, SignalledFinite, FS_CardinalityType
    <2>4. value \in Nat /\ value' = value + 1
      BY <1>3
    <2>5. Len(free_pools) \in Nat /\ Len(free_pools') = Len(free_pools) + 1
      BY <1>2, <1>5
    <2> HIDE DEF PoolsInv, PoolsType
    <2>6. value' + Cardinality(Signalled') = Len(free_pools')
      BY <2>2, <2>3, <2>4, <2>5, OneMore
    <2> QED
      BY <2>6 DEF LetThrough, Signalled
  <1> QED
    BY <1>6, <1>8, <1>9, <1>10, <1>11

LEMMA NotifyKeeps ==
  ASSUME PoolsInv, NEW t \in Threads, Notify(t) PROVE PoolsInv'
  <1> USE DEF PoolsInv, PoolsType
  <1>1. PoolsType'
    <2>1. pc' \in [Threads -> Places]
      <3>1. CASE pc' = [pc EXCEPT ![t] = "idle"]
        BY <3>1 DEF Places
      <3>2. ASSUME NEW u \in Threads, pc' = [pc EXCEPT ![t] = "idle", ![u] = "woken"]
            PROVE  pc' \in [Threads -> Places]
        BY <3>2 DEF Places
      <3> QED
        BY <3>1, <3>2 DEF Notify
    <2>2. pool' \in [Threads -> Pools \cup {nullptr}] /\ runs' \in [Threads -> Nat]
      BY DEF Notify
    <2> QED
      BY <2>1, <2>2 DEF Notify
  <1>2. \A u \in Threads : ThreadSane(u)'
    BY DEF Notify, ThreadSane, Holding
  <1>3. ListsDistinct'
    BY ListsKept DEF Notify
  <1>4. HoldersDistinct'
    <2>1. \A u \in Threads : Holding(u)' => Holding(u) /\ pool'[u] = pool[u]
      BY DEF Notify, Holding
    <2> QED
      BY <2>1 DEF HoldersDistinct
  <1>5. Signalled' = Signalled
    BY DEF Notify, Signalled
  <1>6. LetThrough'
    BY <1>5, NobodySignalled DEF Notify
  <1> QED
    BY <1>1, <1>2, <1>3, <1>4, <1>6

LEMMA PoolsInductive == ASSUME PoolsInv, [Next]_vars PROVE PoolsInv'
  <1>1. CASE UNCHANGED vars
    BY <1>1 DEF vars, PoolsInv, PoolsType, ThreadSane, Holding, ListsDistinct, HoldersDistinct,
                LetThrough
  <1>2. ASSUME NEW t \in Threads, Step(t) \/ Spurious(t) PROVE PoolsInv'
    BY <1>2, SemWaitKeeps, SpuriousKeeps, LockPoolKeeps, SetRegionsKeeps, ClearRegionsKeeps,
       UnlockPoolKeeps, NotifyKeeps DEF Step
  <1> QED
    BY <1>1, <1>2 DEF Next

LEMMA PoolsExclude == PoolsInv => PoolExclusive
  <1> SUFFICES ASSUME PoolsInv PROVE HeldOnce /\ LetThrough
    BY DEF PoolExclusive
  <1>1. ASSUME NEW t \in Threads, NEW u \in Threads, t # u, pool[t] = pool[u], pool[t] # nullptr
        PROVE  pc[t] = "notify" \/ pc[u] = "notify"
    BY <1>1 DEF PoolsInv, ThreadSane, HoldersDistinct, Holding
  <1>2. ASSUME NEW t \in Threads, NEW u \in Threads, t # u, region[t] = region[u]
        PROVE  region[t] = nullptr
    BY <1>2 DEF PoolsInv, ThreadSane, HoldersDistinct, Holding
  <1>3. \A t \in Threads : pc[t] \in {"running", "unlock"} => pool[t] \in Range(occupied_pools)
    BY DEF PoolsInv, ThreadSane, Holding
  <1> QED
    BY <1>1, <1>2, <1>3 DEF PoolsInv, HeldOnce

\* For any number of threads, pools and runs, two functions never hold one
\* memory pool, and whoever the semaphore lets through finds a free pool
\* (PoolManager::lock_pool, unlock_pool; MemoryGroup::acquire, release).
THEOREM PoolsNeverShared == Spec => []PoolExclusive
  <1>1. PoolsInv /\ [Next]_vars => PoolsInv'
    BY PoolsInductive
  <1> QED
    BY <1>1, PoolsInitially, PoolsExclude, PTL DEF Spec
=============================================================================
