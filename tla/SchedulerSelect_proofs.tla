----------------------- MODULE SchedulerSelect_proofs -----------------------
(***************************************************************************)
(* Scheduler::get is right for a caller that is alone in it, for any       *)
(* number of threads on any cores.                                         *)
(***************************************************************************)
EXTENDS SchedulerSelect, TLAPS

\* A thread nobody has overlapped is alone, and _scheduler_type is what its
\* place in get() has made of it.
Undisturbed(th) ==
  /\ Selecting(th) => \A y \in Threads : Selecting(y) => y = th
  /\ pc[th] = "write big" => th \in Big
  /\ pc[th] = "compare little" /\ th \in Big => scheduler_type = "CPP2"
  /\ pc[th] = "write little" => th \notin Big
  /\ pc[th] = "find" => scheduler_type = Own(th)

IInv ==
  /\ TypeOK
  /\ AlonePicksOwn
  /\ \A th \in Threads : ~overlapped[th] => Undisturbed(th)

\* A step inside get() disturbs no thread that has it to itself.
LEMMA OthersAbsent ==
  ASSUME IInv, NEW th \in Threads, Selecting(th), NEW x \in Threads, x # th
  PROVE  overlapped[x] \/ ~Selecting(x)
BY DEF IInv, Undisturbed

\* Every step keeps the invariant.
LEMMA Inductive == ASSUME IInv, [Next]_vars PROVE IInv'
<1> USE DEF Undisturbed, Selecting, Own, Goto
<1> TypeOK /\ AlonePicksOwn /\ \A th \in Threads : ~overlapped[th] => Undisturbed(th)
  BY DEF IInv
<1>1. ASSUME NEW th \in Threads, Enter(th) PROVE IInv'
  <2>1. TypeOK' /\ AlonePicksOwn'
    BY <1>1 DEF Enter, TypeOK, AlonePicksOwn
  <2>2. \A x \in Threads : ~overlapped'[x] => Undisturbed(x)'
    BY <1>1 DEF Enter, TypeOK
  <2> QED
    BY <2>1, <2>2 DEF IInv
<1>2. ASSUME NEW th \in Threads, CompareBig(th) PROVE IInv'
  <2>1. TypeOK' /\ AlonePicksOwn'
    BY <1>2 DEF CompareBig, TypeOK, AlonePicksOwn, OnBig
  <2>2. ASSUME NEW x \in Threads, ~overlapped'[x] PROVE Undisturbed(x)'
    <3>1. CASE x = th
      BY <1>2, <2>2, <3>1 DEF CompareBig, TypeOK, OnBig
    <3>2. CASE x # th
      BY <1>2, <2>2, <3>2, OthersAbsent DEF CompareBig, TypeOK
    <3> QED
      BY <3>1, <3>2
  <2> QED
    BY <2>1, <2>2 DEF IInv
<1>3. ASSUME NEW th \in Threads, WriteBig(th) PROVE IInv'
  <2>1. TypeOK' /\ AlonePicksOwn'
    BY <1>3 DEF WriteBig, TypeOK, AlonePicksOwn
  <2>2. ASSUME NEW x \in Threads, ~overlapped'[x] PROVE Undisturbed(x)'
    <3>1. CASE x = th
      BY <1>3, <2>2, <3>1, ZenonT(60) DEF WriteBig, TypeOK
    <3>2. CASE x # th
      BY <1>3, <2>2, <3>2, OthersAbsent DEF WriteBig, TypeOK
    <3> QED
      BY <3>1, <3>2
  <2> QED
    BY <2>1, <2>2 DEF IInv
<1>4. ASSUME NEW th \in Threads, CompareLittle(th) PROVE IInv'
  <2>1. TypeOK' /\ AlonePicksOwn'
    BY <1>4 DEF CompareLittle, TypeOK, AlonePicksOwn, OnLittle
  <2>2. ASSUME NEW x \in Threads, ~overlapped'[x] PROVE Undisturbed(x)'
    <3>1. CASE x = th
      BY <1>4, <2>2, <3>1, ZenonT(60) DEF CompareLittle, TypeOK, OnLittle
    <3>2. CASE x # th
      BY <1>4, <2>2, <3>2, OthersAbsent DEF CompareLittle, TypeOK
    <3> QED
      BY <3>1, <3>2
  <2> QED
    BY <2>1, <2>2 DEF IInv
<1>5. ASSUME NEW th \in Threads, WriteLittle(th) PROVE IInv'
  <2>1. TypeOK' /\ AlonePicksOwn'
    BY <1>5, ZenonT(60) DEF WriteLittle, TypeOK, AlonePicksOwn
  <2>2. ASSUME NEW x \in Threads, ~overlapped'[x] PROVE Undisturbed(x)'
    <3>1. CASE x = th
      BY <1>5, <2>2, <3>1, ZenonT(60) DEF WriteLittle, TypeOK
    <3>2. CASE x # th
      BY <1>5, <2>2, <3>2, OthersAbsent DEF WriteLittle, TypeOK
    <3> QED
      BY <3>1, <3>2
  <2> QED
    BY <2>1, <2>2 DEF IInv
<1>6. ASSUME NEW th \in Threads, Find(th) PROVE IInv'
  <2>0. PICK s \in Seen(th) : chosen' = [chosen EXCEPT ![th] = s]
    BY <1>6 DEF Find
  <2>1. TypeOK' /\ AlonePicksOwn'
    <3>1. s \in {"CPP", "CPP2"}
      BY DEF Seen, TypeOK
    <3>2. TypeOK'
      BY <1>6, <2>0, <3>1 DEF Find, TypeOK
    <3>3. ~overlapped[th] => s = Own(th)
      BY <1>6, <2>0 DEF Find, Seen, OnLittle
    <3>4. ASSUME NEW x \in Threads, ~Selecting(x)', ~overlapped'[x]
          PROVE  chosen'[x] = Own(x)
      <4>1. CASE x = th
        BY <1>6, <2>0, <3>3, <3>4, <4>1 DEF Find, TypeOK
      <4>2. CASE x # th
        BY <1>6, <2>0, <3>4, <4>2 DEF Find, TypeOK, AlonePicksOwn
      <4> QED
        BY <4>1, <4>2
    <3> QED
      BY <3>2, <3>4 DEF AlonePicksOwn
  <2>2. ASSUME NEW x \in Threads, ~overlapped'[x] PROVE Undisturbed(x)'
    <3>1. CASE x = th
      BY <1>6, <2>2, <3>1 DEF Find, TypeOK, Seen, OnLittle
    <3>2. CASE x # th
      BY <1>6, <2>2, <3>2, OthersAbsent DEF Find, TypeOK
    <3> QED
      BY <3>1, <3>2
  <2> QED
    BY <2>1, <2>2 DEF IInv
<1>7. CASE UNCHANGED vars
  BY <1>7 DEF vars, IInv, TypeOK, AlonePicksOwn
<1> QED
  BY <1>1, <1>2, <1>3, <1>4, <1>5, <1>6, <1>7 DEF Next, Get

\* The invariant always holds.
LEMMA Invariant == Spec => []IInv
<1>1. Init => IInv
  BY DEF Init, InitialType, IInv, TypeOK, AlonePicksOwn, Undisturbed, Selecting,
     Own
<1>2. IInv /\ [Next]_vars => IInv'
  BY Inductive
<1> QED
  BY <1>1, <1>2, PTL DEF Spec

\* get() only ever answers one of the two CPPScheduler pools.
THEOREM SelectTypeCorrect == Spec => []TypeOK
<1>1. IInv => TypeOK
  BY DEF IInv
<1> QED
  BY <1>1, Invariant, PTL

\* A call of get() that no other thread overlaps answers the pool of the
\* caller's own cluster, whoever called before.
THEOREM RightWhenAlone == Spec => []AlonePicksOwn
<1>1. IInv => AlonePicksOwn
  BY DEF IInv
<1> QED
  BY <1>1, Invariant, PTL
=============================================================================
