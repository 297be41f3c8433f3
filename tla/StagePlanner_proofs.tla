------------------------- MODULE StagePlanner_proofs -------------------------
(***************************************************************************)
(* What do_setup makes of every --order, for a network of any length: the  *)
(* stages, their accessors and their links are those the letters ask for.  *)
(***************************************************************************)
EXTENDS StagePlanner, FiniteSetTheorems, TLAPS

\* Stages that begin before place k.
Begun(k) == Cardinality({f \in Firsts : f < k})

\* The place whose stage is being built, the last one once the order is used up.
Current == IF Layer < Len(order) THEN Layer ELSE Len(order) - 1

(***************************************************************************)
(* The invariant.  The letters parsed so far have the stages they should.  *)
(***************************************************************************)
ParsedInv ==
  /\ Len(gr_layer) <= Len(order)
  /\ pc # "parse" => Len(gr_layer) = Len(order)
  /\ Len(classes) = Begun(Len(gr_layer))
  /\ g = IF gr_layer = <<>> THEN 0 ELSE Len(classes) - 1
  /\ \A k \in 0 .. Len(gr_layer) - 1 :
       /\ gr_layer[k + 1] = StageAt(k)
       /\ Letter(k) # "-" => Class(StageAt(k)) = Cluster[Letter(k)]

\* Nothing is built before the last letter is parsed.
NotOpened ==
  /\ Layer = 0 /\ start_Layer = 0 /\ image = "file"
  /\ placed = <<>> /\ stage_in = <<>> /\ stage_out = <<>>
  /\ Transmitters = <<>> /\ Receivers = <<>> /\ mx = 0 /\ finalized = <<>>

\* The first stage after a "-" reads from no link.
NoImage == image = ""

\* start_Layer is where the current run of equal letters begins, and the image
\* label says what its stage reads from.
RunInv ==
  /\ pc = "layers" => Layer < NumLayers
  /\ pc = "done" => Layer = NumLayers
  /\ IF Layer < Len(order)
     THEN /\ start_Layer <= Layer
          /\ start_Layer > 0 => Letter(start_Layer) # Letter(start_Layer - 1)
          /\ \A k \in start_Layer .. Layer : Letter(k) = Letter(Layer)
          /\ Begun(Layer + 1) = Begun(start_Layer + 1)
          /\ LinkAt(Layer + 1) = LinkAt(start_Layer + 1)
          /\ NoImage <=> /\ start_Layer > 0
                         /\ \/ Letter(start_Layer) = "-"
                            \/ Letter(start_Layer - 1) = "-"
     ELSE start_Layer = Len(order)

\* The layers, and the thread, are where their letters say.
PlacedInv ==
  /\ sub_graph = StageAt(Current)
  /\ sub_graph # Dump => core = Class(sub_graph)
  /\ Len(placed) = Layer
  /\ \A k \in 0 .. Layer - 1 : k < Len(order) => placed[k + 1] = StageAt(k)

\* Every stage begun has its input, and every stage but the current its output.
InputOf(k) == IF k \in Joined THEN Receiver(LinkAt(k), Letter(k - 1) # "G")
              ELSE IF k = 0 THEN Input ELSE Dummy
OutputBefore(k) == IF k \in Joined THEN Sender(LinkAt(k), Letter(k - 1) = "G")
                   ELSE Dummy
LastOutput == IF lbl = "" THEN Dummy ELSE Result

AccessorsInv ==
  /\ Len(stage_in) = Begun(Current + 1)
  /\ Len(stage_out) = IF pc = "done" \/ sub_graph = Dump THEN Len(stage_in)
                      ELSE Len(stage_in) - 1
  /\ \A k \in Firsts : k <= Current => stage_in[StageAt(k) + 1] = InputOf(k)
  /\ \A k \in Firsts : k > 0 /\ k <= Current => stage_out[StageAt(k)] = OutputBefore(k)
  /\ sub_graph = Dump => stage_out[Len(stage_out)] = Dummy
  /\ pc = "done" /\ sub_graph # Dump => stage_out[Len(stage_out)] = LastOutput

\* Every link begun has its sender, and its receiver once that stage is closed.
SendersInv ==
  /\ Len(Transmitters) = LinkAt(Current + 1) /\ mx = Len(Transmitters)
  /\ \A k \in Joined : k <= Current => Transmitters[LinkAt(k) + 1] = StageAt(k) - 1

ReceiversInv ==
  /\ Len(Receivers) = LinkAt(start_Layer)
  /\ \A k \in Joined : k < start_Layer => Receivers[LinkAt(k) + 1] = StageAt(k)

\* Every stage closed was finalized where it runs, with the layers it has.
Final == [stage : Nat, cluster : 0 .. 2, core : {Unpinned} \cup 0 .. 2,
          first : Nat, last : Nat]
FinalizedInv ==
  /\ finalized \in Seq(Final)
  /\ Len(finalized) = Begun(start_Layer)
  /\ \A n \in 1 .. Len(finalized) :
       LET f == finalized[n] IN
       /\ f.stage = n - 1 /\ f.cluster = Class(n - 1) /\ f.core = f.cluster
       /\ f.first .. f.last = {k \in 0 .. start_Layer - 1 : StageAt(k) = n - 1}

BuiltInv ==
  RunInv /\ PlacedInv /\ AccessorsInv /\ SendersInv /\ ReceiversInv /\ FinalizedInv

PlanInv ==
  /\ TypeOK
  /\ ParsedInv
  /\ IF pc = "parse" THEN NotOpened ELSE BuiltInv

-----------------------------------------------------------------------------
(* Counting the stages and the links of an order.                          *)

Below(T, k) == {f \in T : f < k}

LEMMA BelowCount ==
  ASSUME NEW T \in SUBSET Nat, NEW k \in Nat
  PROVE  /\ IsFiniteSet(Below(T, k)) /\ Cardinality(Below(T, k)) \in Nat
         /\ Cardinality(Below(T, k)) <= k
         /\ 0 \notin T /\ k > 0 => Cardinality(Below(T, k)) < k
<1>1. Below(T, k) \subseteq 0 .. k - 1 /\ (0 \notin T => Below(T, k) \subseteq 1 .. k - 1)
  <2>1. \A f \in Below(T, k) : f \in Nat /\ f < k /\ f \in T
    BY DEF Below
  <2> QED
    BY <2>1
<1>2. ASSUME NEW a \in {0, 1}, a <= k, Below(T, k) \subseteq a .. k - 1
      PROVE  IsFiniteSet(Below(T, k)) /\ Cardinality(Below(T, k)) <= k - a
  <2>0. a \in Int /\ k - 1 \in Int /\ (IF a > k - 1 THEN 0 ELSE (k - 1) - a + 1) = k - a
    BY <1>2
  <2>1. /\ IsFiniteSet(a .. k - 1)
        /\ Cardinality(a .. k - 1) = k - a
    BY <2>0, FS_Interval
  <2> QED
    BY <1>2, <2>1, FS_Subset
<1>3. IsFiniteSet(Below(T, k)) /\ Cardinality(Below(T, k)) <= k
  BY <1>1, <1>2
<1>4. Cardinality(Below(T, k)) \in Nat
  BY <1>3, FS_CardinalityType
<1>5. 0 \notin T /\ k > 0 => Cardinality(Below(T, k)) <= k - 1
  BY <1>1, <1>2
<1> QED
  BY <1>3, <1>4, <1>5

LEMMA BelowNext ==
  ASSUME NEW T \in SUBSET Nat, NEW k \in Nat
  PROVE  Cardinality(Below(T, k + 1)) = Cardinality(Below(T, k)) + (IF k \in T THEN 1 ELSE 0)
<1>0. \A f \in T : f < k + 1 <=> f < k \/ f = k
  OBVIOUS
<1>1. CASE k \in T
  <2>1. Below(T, k + 1) = Below(T, k) \cup {k}
    BY <1>0, <1>1 DEF Below
  <2>2. k \notin Below(T, k)
    BY DEF Below
  <2> QED
    BY <1>1, <2>1, <2>2, BelowCount, FS_AddElement
<1>2. CASE k \notin T
  <2>1. Below(T, k + 1) = Below(T, k)
    BY <1>0, <1>2 DEF Below
  <2> QED
    BY <1>2, <2>1, BelowCount
<1> QED
  BY <1>1, <1>2

LEMMA BelowGrows ==
  ASSUME NEW T \in SUBSET Nat, NEW k \in Nat, NEW m \in Nat, k <= m
  PROVE  Cardinality(Below(T, k)) <= Cardinality(Below(T, m))
<1>0. \A f \in T : f < k => f < m
  OBVIOUS
<1>1. Below(T, k) \in SUBSET Below(T, m)
  BY <1>0 DEF Below
<1> QED
  BY <1>1, BelowCount, FS_Subset

LEMMA OrderFacts ==
  ASSUME order \in Orders
  PROVE  /\ order \in Seq(Letters) /\ Len(order) \in 1 .. NumLayers /\ NumLayers \in Nat
         /\ Letter(0) # "-" /\ \A k \in Places : Letter(k) \in Letters
BY PlannerAssumption DEF PlannerAssumption, Letter, Places

LEMMA Counts ==
  ASSUME order \in Orders
  PROVE  /\ \A k \in Nat : /\ Begun(k) \in Nat /\ Begun(k) <= k
                           /\ LinkAt(k) \in Nat /\ LinkAt(k) <= k /\ (k > 0 => LinkAt(k) < k)
                           /\ Begun(k + 1) = Begun(k) + (IF k \in Firsts THEN 1 ELSE 0)
                           /\ LinkAt(k + 1) = LinkAt(k) + (IF k \in Joined THEN 1 ELSE 0)
         /\ \A k, m \in Nat : k <= m => Begun(k) <= Begun(m) /\ LinkAt(k) <= LinkAt(m)
         /\ Begun(0) = 0 /\ LinkAt(0) = 0
         /\ Begun(Len(order)) = Cardinality(Firsts) /\ LinkAt(Len(order)) = Cardinality(Joined)
<1>1. /\ Firsts \in SUBSET Nat /\ Joined \in SUBSET Nat /\ 0 \notin Joined
      /\ \A k \in Firsts : k < Len(order)
      /\ \A k \in Joined : k < Len(order)
  BY OrderFacts DEF Firsts, Joined, Places
<1>2. \A k : Begun(k) = Cardinality(Below(Firsts, k)) /\ LinkAt(k) = Cardinality(Below(Joined, k))
  BY DEF Begun, LinkAt, Below
<1>3. Below(Firsts, Len(order)) = Firsts /\ Below(Joined, Len(order)) = Joined
  BY <1>1 DEF Below
<1>4. \A k \in Nat : /\ Begun(k) \in Nat /\ Begun(k) <= k
                     /\ LinkAt(k) \in Nat /\ LinkAt(k) <= k /\ (k > 0 => LinkAt(k) < k)
  BY <1>1, <1>2, BelowCount
<1>5. \A k \in Nat : /\ Begun(k + 1) = Begun(k) + (IF k \in Firsts THEN 1 ELSE 0)
                     /\ LinkAt(k + 1) = LinkAt(k) + (IF k \in Joined THEN 1 ELSE 0)
  BY <1>1, <1>2, BelowNext
<1>6. \A k, m \in Nat : k <= m => Begun(k) <= Begun(m) /\ LinkAt(k) <= LinkAt(m)
  BY <1>1, <1>2, BelowGrows
<1>7. Begun(0) = 0 /\ LinkAt(0) = 0
  BY <1>4
<1> QED
  BY <1>2, <1>3, <1>4, <1>5, <1>6, <1>7

\* Places, and the stages of the letters there.
LEMMA PlaceFacts ==
  ASSUME order \in Orders
  PROVE  /\ \A k \in Places :
              /\ k \in Nat /\ k < Len(order)
              /\ k \in Firsts <=> Letter(k) # "-" /\ (k = 0 \/ Letter(k) # Letter(k - 1))
              /\ k \in Joined <=> k \in Firsts /\ k > 0 /\ Letter(k - 1) # "-"
              /\ StageAt(k) = IF Letter(k) = "-" THEN Dump ELSE Begun(k + 1) - 1
              /\ Letter(k) # "-" => StageAt(k) \in Nat
              /\ k \in Firsts => StageAt(k) = Begun(k)
         /\ Firsts \subseteq Places /\ Joined \subseteq Firsts /\ 0 \in Firsts
         /\ \A k \in Nat : k < Len(order) => k \in Places
<1>1. /\ \A k \in Places : k \in Nat /\ k < Len(order)
      /\ \A k \in Nat : k < Len(order) => k \in Places
  BY OrderFacts DEF Places
<1>2. Firsts \subseteq Places /\ Joined \subseteq Firsts /\ 0 \in Firsts
  BY <1>1, OrderFacts DEF Firsts, Joined
<1>3. Begun(1) = 1
  <2>1. Begun(0 + 1) = Begun(0) + 1 /\ Begun(0) = 0
    BY <1>2, Counts
  <2> QED
    BY <2>1
<1>4. ASSUME NEW k \in Places
      PROVE  StageAt(k) = IF Letter(k) = "-" THEN Dump ELSE Begun(k + 1) - 1
  <2>1. \A f \in Firsts : f <= k <=> f < k + 1
    BY <1>1, <1>2
  <2>2. {f \in Firsts : f <= k} = {f \in Firsts : f < k + 1}
    BY <2>1
  <2> QED
    BY <2>2 DEF StageAt, Begun
<1>5. ASSUME NEW k \in Places
      PROVE  /\ Letter(k) # "-" => StageAt(k) \in Nat
             /\ k \in Firsts => StageAt(k) = Begun(k)
  <2>1. Begun(1) <= Begun(k + 1) /\ Begun(k + 1) \in Nat /\ Begun(k) \in Nat
    <3>1. k \in Nat /\ k + 1 \in Nat /\ 1 \in Nat /\ 1 <= k + 1
      BY <1>1
    <3> QED
      BY <3>1, Counts
  <2>2. k \in Firsts => Letter(k) # "-" /\ Begun(k + 1) = Begun(k) + 1
    BY <1>1, Counts DEF Firsts
  <2> QED
    BY <1>3, <1>4, <2>1, <2>2
<1> QED
  BY <1>1, <1>2, <1>4, <1>5 DEF Firsts, Joined

LEMMA Fixed ==
  ASSUME UNCHANGED order
  PROVE  /\ Places' = Places /\ Firsts' = Firsts /\ Joined' = Joined
         /\ \A k : /\ Letter(k)' = Letter(k) /\ StageAt(k)' = StageAt(k)
                   /\ LinkAt(k)' = LinkAt(k) /\ Begun(k)' = Begun(k)
                   /\ InputOf(k)' = InputOf(k) /\ OutputBefore(k)' = OutputBefore(k)
<1>1. Places' = Places /\ \A k : Letter(k)' = Letter(k)
  BY DEF Places, Letter
<1>2. Firsts' = Firsts
  BY <1>1 DEF Firsts
<1>3. Joined' = Joined
  BY <1>1, <1>2 DEF Joined
<1>4. \A k : StageAt(k)' = StageAt(k) /\ LinkAt(k)' = LinkAt(k) /\ Begun(k)' = Begun(k)
  BY <1>1, <1>2, <1>3 DEF StageAt, LinkAt, Begun
<1>5. \A k : InputOf(k)' = InputOf(k) /\ OutputBefore(k)' = OutputBefore(k)
  BY <1>1, <1>2, <1>3, <1>4
     DEF InputOf, OutputBefore, Receiver, Sender, Input, Dummy
<1> QED
  BY <1>1, <1>2, <1>3, <1>4, <1>5

-----------------------------------------------------------------------------
(* Parsing.                                                                *)

LEMMA PlanInit == Init => PlanInv
<1> SUFFICES ASSUME Init PROVE PlanInv
  OBVIOUS
<1>1. order \in Orders /\ NumLayers \in Nat \ {0} /\ Len(order) \in 1 .. NumLayers
  BY PlannerAssumption DEF Init, PlannerAssumption
<1>e. \A S : <<>> \in Seq(S)
  OBVIOUS
<1>2. TypeOK
  <2>1. /\ gr_layer = <<>> /\ classes = <<>> /\ placed = <<>> /\ stage_in = <<>>
        /\ stage_out = <<>> /\ Transmitters = <<>> /\ Receivers = <<>> /\ finalized = <<>>
        /\ sub_graph = Dump /\ core = Unpinned
    BY DEF Init
  <2>2. /\ Layer = 0 /\ start_Layer = 0 /\ g = 0 /\ mx = 0 /\ image = "file" /\ labels = lbl
        /\ lbl \in {"", "file"} /\ pc = "parse" /\ order \in Orders
    BY DEF Init
  <2>3. Len(<<>>) = 0
    OBVIOUS
  <2> QED
    <3>1. /\ gr_layer \in Seq({Dump} \cup 0 .. Len(classes) - 1) /\ classes \in Seq(0 .. 2)
          /\ placed \in Seq({Dump} \cup 0 .. Len(classes) - 1)
          /\ stage_in \in Seq(AccessorType) /\ stage_out \in Seq(AccessorType)
          /\ Transmitters \in Seq(0 .. Len(classes) - 1)
          /\ Receivers \in Seq(0 .. Len(classes) - 1)
      BY <1>e, <2>1
    <3>2. /\ Len(classes) <= Len(order) /\ Len(stage_in) <= Len(classes)
          /\ Len(stage_out) <= Len(classes) /\ Len(finalized) <= Len(classes)
      BY <1>1, <2>1, <2>3
    <3>3. /\ g \in 0 .. NumLayers - 1 /\ mx \in 0 .. NumLayers - 1
          /\ Layer \in 0 .. NumLayers /\ start_Layer \in 0 .. NumLayers
      <4>1. 0 \in 0 .. NumLayers - 1 /\ 0 \in 0 .. NumLayers
        BY <1>1
      <4> QED
        BY <4>1, <2>2
    <3> QED
      BY <2>1, <2>2, <3>1, <3>2, <3>3 DEF TypeOK
<1>3. ParsedInv
  <2>1. gr_layer = <<>> /\ classes = <<>> /\ g = 0 /\ pc = "parse" /\ Len(<<>>) = 0
    BY DEF Init
  <2>2. Begun(0) = 0
    BY <1>1, Counts
  <2> QED
    BY <1>1, <2>1, <2>2 DEF ParsedInv
<1>4. pc = "parse" /\ NotOpened
  BY DEF Init, NotOpened
<1> QED
  BY <1>2, <1>3, <1>4 DEF PlanInv

\* One letter more: its stage, which is a new one if it begins a run.
LEMMA ParseStep ==
  ASSUME PlanInv, ParseNewStage \/ ParseSameStage \/ ParseDump
  PROVE  PlanInv'
<1> DEFINE n == Len(gr_layer)
<1>0. /\ pc = "parse" /\ pc' = pc /\ UNCHANGED <<order, lbl>> /\ n < Len(order)
      /\ TypeOK /\ ParsedInv /\ NotOpened
      /\ UNCHANGED <<Layer, start_Layer, sub_graph, core, accessors, placed, links, finalized>>
  BY DEF ParseNewStage, ParseSameStage, ParseDump, Parsing, i, PlanInv
<1>1. /\ order \in Orders /\ Len(order) \in 1 .. NumLayers /\ NumLayers \in Nat
      /\ classes \in Seq(0 .. 2) /\ gr_layer \in Seq({Dump} \cup 0 .. Len(classes) - 1)
      /\ n \in Nat /\ n \in Places /\ Len(classes) = Begun(n) /\ Begun(n) \in Nat
      /\ Letter(n) \in Letters
      /\ g = IF gr_layer = <<>> THEN 0 ELSE Len(classes) - 1
  <2>0. order \in Orders /\ gr_layer \in Seq({Dump} \cup 0 .. Len(classes) - 1)
    BY <1>0 DEF TypeOK
  <2>1. order \in Orders /\ gr_layer \in Seq({Dump} \cup 0 .. Len(classes) - 1) /\ n \in Nat
    BY <2>0
  <2>2. n \in Places
    BY <1>0, <2>1, PlaceFacts
  <2> QED
    BY <1>0, <2>1, <2>2, OrderFacts, Counts DEF TypeOK, ParsedInv
<1>2. /\ n + 1 \in Nat /\ n + 1 <= Len(order) /\ Begun(n + 1) \in Nat /\ Begun(n + 1) <= n + 1
      /\ Begun(n + 1) = Begun(n) + (IF n \in Firsts THEN 1 ELSE 0)
  <2>1. n + 1 \in Nat /\ n + 1 <= Len(order)
    BY <1>0, <1>1
  <2> QED
    BY <1>1, <2>1, Counts
<1>3. StageAt(n) = (IF Letter(n) = "-" THEN Dump ELSE Begun(n + 1) - 1)
  BY <1>1, PlaceFacts
<1>4. Begun(n + 1) > 0
  <2>1. Begun(0 + 1) = Begun(0) + 1 /\ Begun(0) = 0 /\ Begun(1) <= Begun(n + 1)
    BY <1>1, <1>2, Counts, PlaceFacts
  <2> QED
    BY <1>1, <1>2, <2>1
\* What each of the three actions does to the stages.
<1>5. /\ gr_layer' = Append(gr_layer, StageAt(n))
      /\ classes' = IF n \in Firsts THEN Append(classes, Cluster[Letter(n)]) ELSE classes
      /\ g' = Begun(n + 1) - 1
  <2>1. CASE ParseNewStage
    <3>1. /\ n \in Firsts /\ classes' = Append(classes, Cluster[Letter(n)])
          /\ gr_layer' = Append(gr_layer, Len(classes)) /\ g' = Len(classes)
      BY <1>0, <1>1, <2>1, PlaceFacts
         DEF ParseNewStage, Parsing, NewRun, i, StageId, NewG
    <3> QED
      BY <1>1, <1>2, <1>3, <3>1, PlaceFacts
  <2>2. CASE ParseSameStage
    <3>1. /\ n > 0 /\ Letter(n) = Letter(n - 1) /\ Letter(n) # "-"
          /\ gr_layer' = Append(gr_layer, g) /\ classes' = classes /\ g' = g
      BY <1>0, <1>1, <2>2 DEF ParseSameStage, Parsing, NewRun, i
    <3>2. n \notin Firsts /\ gr_layer # <<>>
      <4>1. n \notin Firsts
        BY <1>1, <3>1 DEF Firsts
      <4>2. Len(gr_layer) # 0
        BY <1>1, <3>1
      <4> QED
        BY <4>1, <4>2
    <3> QED
      BY <1>1, <1>2, <1>3, <3>1, <3>2
  <2>3. CASE ParseDump
    <3>1. Letter(n) = "-" /\ gr_layer' = Append(gr_layer, Dump) /\ classes' = classes /\ g' = g
      BY <2>3 DEF ParseDump, Parsing, i
    <3>2. n \notin Firsts /\ n > 0
      BY <1>1, <3>1, PlaceFacts, OrderFacts
    <3>3. gr_layer # <<>>
      BY <3>2
    <3> QED
      BY <1>1, <1>2, <1>3, <3>1, <3>2, <3>3
  <2> QED
    BY <2>1, <2>2, <2>3
<1>6. /\ classes' \in Seq(0 .. 2) /\ Len(classes') = Begun(n + 1)
      /\ \A s \in 0 .. Len(classes) - 1 : classes'[s + 1] = classes[s + 1]
      /\ n \in Firsts => classes'[Begun(n) + 1] = Cluster[Letter(n)]
  <2>1. n \in Firsts => Cluster[Letter(n)] \in 0 .. 2
    BY <1>1, PlaceFacts DEF Cluster, Letters
  <2> QED
    <3>1. CASE n \in Firsts
      <4>1. classes' = Append(classes, Cluster[Letter(n)]) /\ Cluster[Letter(n)] \in 0 .. 2
        BY <1>5, <2>1, <3>1
      <4>2. /\ classes' \in Seq(0 .. 2) /\ Len(classes') = Len(classes) + 1
            /\ classes'[Len(classes) + 1] = Cluster[Letter(n)]
            /\ \A s \in 0 .. Len(classes) - 1 : classes'[s + 1] = classes[s + 1]
        BY <1>1, <4>1
      <4>3. Len(classes') = Begun(n + 1)
        BY <1>1, <1>2, <3>1, <4>2
      <4> QED
        BY <1>1, <3>1, <4>2, <4>3
    <3>2. CASE n \notin Firsts
      BY <1>1, <1>2, <1>5, <3>2
    <3> QED
      BY <3>1, <3>2
<1>7. /\ Len(gr_layer') = n + 1 /\ gr_layer'[n + 1] = StageAt(n)
      /\ \A k \in 0 .. n - 1 : gr_layer'[k + 1] = gr_layer[k + 1]
      /\ gr_layer' \in Seq({Dump} \cup 0 .. Len(classes') - 1)
  <2>1. StageAt(n) \in {Dump} \cup 0 .. Len(classes') - 1
    BY <1>2, <1>3, <1>4, <1>6
  <2>2. gr_layer \in Seq({Dump} \cup 0 .. Len(classes') - 1)
    BY <1>1, <1>2, <1>6
  <2> QED
    BY <1>1, <1>5, <2>1, <2>2
<1>8. TypeOK'
  <2>1. /\ gr_layer' \in Seq({Dump} \cup 0 .. Len(classes') - 1) /\ classes' \in Seq(0 .. 2)
        /\ Len(classes') <= Len(order) /\ g' \in 0 .. NumLayers - 1
        /\ Len(classes') \in Nat
    BY <1>1, <1>2, <1>4, <1>5, <1>6, <1>7
  <2>2. /\ placed' = <<>> /\ stage_in' = <<>> /\ stage_out' = <<>> /\ Transmitters' = <<>>
        /\ Receivers' = <<>> /\ finalized' = <<>> /\ mx' = 0
        /\ image' = image /\ labels' = labels /\ sub_graph' = sub_graph
        /\ Layer' = Layer /\ start_Layer' = start_Layer /\ core' = core
    BY <1>0 DEF NotOpened, accessors, links
  <2>3. sub_graph' \in {Dump} \cup 0 .. Len(classes') - 1
    <3>1. sub_graph \in {Dump} \cup 0 .. Len(classes) - 1
      BY <1>0 DEF TypeOK
    <3>2. Len(classes) <= Len(classes') /\ Len(classes') \in Nat /\ Len(classes) \in Nat
      BY <1>1, <1>2, <1>6
    <3> QED
      BY <2>2, <3>1, <3>2
  <2>4. /\ placed' \in Seq({Dump} \cup 0 .. Len(classes') - 1)
        /\ stage_in' \in Seq(AccessorType) /\ stage_out' \in Seq(AccessorType)
        /\ Transmitters' \in Seq(0 .. Len(classes') - 1)
        /\ Receivers' \in Seq(0 .. Len(classes') - 1)
        /\ Len(stage_in') <= Len(classes') /\ Len(stage_out') <= Len(classes')
        /\ Len(finalized') <= Len(classes')
    BY <2>1, <2>2
  <2>5. AccessorType' = AccessorType
    BY DEF AccessorType
  <2> QED
    <3>1. /\ order' \in Orders /\ lbl' \in {"", "file"}
          /\ pc' \in {"parse", "layers", "done"}
          /\ Layer' \in 0 .. NumLayers /\ start_Layer' \in 0 .. NumLayers
          /\ core' \in {Unpinned} \cup 0 .. 2
          /\ image' \in {"", "file", "transfer", "transfer_wait"}
          /\ labels' \in {"", "file", "transfer", "transfer_wait"}
          /\ mx' \in 0 .. NumLayers - 1
      <4>1. 0 \in 0 .. NumLayers - 1
        BY <1>1
      <4> QED
        BY <1>0, <2>2, <4>1 DEF TypeOK
    <3>2. Len(classes') <= Len(order')
      BY <1>0, <2>1
    <3> QED
      BY <2>1, <2>3, <2>4, <2>5, <3>1, <3>2 DEF TypeOK
<1>9. ParsedInv'
  <2>1. ASSUME NEW k \in 0 .. n
        PROVE  /\ gr_layer'[k + 1] = StageAt(k)
               /\ Letter(k) # "-" => classes'[StageAt(k) + 1] = Cluster[Letter(k)]
    <3>1. CASE k < n
      <4>1. k \in 0 .. n - 1 /\ k \in Places
        BY <1>1, <1>0, <3>1, PlaceFacts
      <4>2. /\ gr_layer[k + 1] = StageAt(k) /\ gr_layer'[k + 1] = gr_layer[k + 1]
            /\ Letter(k) # "-" => Class(StageAt(k)) = Cluster[Letter(k)]
        BY <1>0, <1>7, <4>1 DEF ParsedInv
      <4>3. gr_layer[k + 1] \in {Dump} \cup 0 .. Len(classes) - 1
        BY <1>1, <4>1
      <4>4. Letter(k) # "-" => StageAt(k) \in 0 .. Len(classes) - 1
        BY <4>1, <4>2, <4>3, PlaceFacts, <1>1 DEF Dump
      <4> QED
        BY <1>6, <4>2, <4>4 DEF Class
    <3>2. CASE k = n
      <4>1. CASE n \in Firsts
        <5>1. StageAt(n) = Begun(n)
          BY <1>1, <4>1, PlaceFacts
        <5> QED
          BY <1>6, <1>7, <3>2, <4>1, <5>1
      <4>2. CASE n \notin Firsts
        <5>1. Letter(n) # "-" => n > 0 /\ Letter(n) = Letter(n - 1)
          BY <1>1, <4>2, PlaceFacts
        <5>2. Letter(n) # "-" => /\ n - 1 \in 0 .. n - 1 /\ n - 1 \in Places
                                 /\ StageAt(n - 1) = Begun((n - 1) + 1) - 1
          BY <1>0, <1>1, <5>1, PlaceFacts, SMTT(60)
        <5>3. (n - 1) + 1 = n
          BY <1>1
        <5>4. Letter(n) # "-" => /\ StageAt(n - 1) = StageAt(n)
                                 /\ StageAt(n) \in 0 .. Len(classes) - 1
          BY <1>1, <1>2, <1>3, <1>4, <4>2, <5>2, <5>3
        <5>5. Letter(n) # "-" => Class(StageAt(n)) = Cluster[Letter(n)]
          BY <1>0, <5>1, <5>2, <5>4 DEF ParsedInv
        <5> QED
          BY <1>6, <1>7, <3>2, <5>4, <5>5 DEF Class
      <4> QED
        BY <4>1, <4>2
    <3> QED
      BY <3>1, <3>2, <1>1
  <2>2. gr_layer' # <<>>
    BY <1>7, <1>1
  <2>3. (n + 1) - 1 = n
    BY <1>1
  <2> QED
    <3>1. Len(gr_layer') <= Len(order') /\ pc' = "parse" /\ Len(classes') = Begun(Len(gr_layer'))
      BY <1>0, <1>2, <1>6, <1>7
    <3>2. g' = IF gr_layer' = <<>> THEN 0 ELSE Len(classes') - 1
      BY <1>5, <1>6, <2>2
    <3>3. \A k \in 0 .. Len(gr_layer') - 1 :
            /\ gr_layer'[k + 1] = StageAt(k)
            /\ Letter(k) # "-" => classes'[StageAt(k) + 1] = Cluster[Letter(k)]
      BY <1>7, <2>1, <2>3
    <3>4. /\ Begun(Len(gr_layer))' = Begun(Len(gr_layer'))
          /\ \A k : Letter(k)' = Letter(k) /\ StageAt(k)' = StageAt(k)
      BY <1>0, Fixed DEF Begun
    <3> QED
      BY <3>1, <3>2, <3>3, <3>4 DEF ParsedInv, Class
<1>10. NotOpened'
  BY <1>0 DEF NotOpened, accessors, links
<1> QED
  BY <1>0, <1>8, <1>9, <1>10 DEF PlanInv

-----------------------------------------------------------------------------
(* Facts about a place, and about the run of letters it is in.             *)

LEMMA NextLetter ==
  ASSUME order \in Orders, NEW k \in Nat, k + 1 < Len(order)
  PROVE  /\ k \in Places /\ k + 1 \in Places
         /\ StageAt(k) = StageAt(k + 1) <=> Letter(k) = Letter(k + 1)
         /\ k + 1 \in Firsts <=> Letter(k + 1) # "-" /\ Letter(k + 1) # Letter(k)
         /\ k + 1 \in Joined <=> k + 1 \in Firsts /\ Letter(k) # "-"
<1>0. /\ k \in Places /\ k + 1 \in Places /\ k + 1 > 0 /\ (k + 1) - 1 = k
      /\ k + 1 \in Nat /\ Len(order) \in Nat
  BY OrderFacts, PlaceFacts
<1>1. /\ k + 1 \in Firsts <=> Letter(k + 1) # "-" /\ Letter(k + 1) # Letter(k)
      /\ k + 1 \in Joined <=> k + 1 \in Firsts /\ Letter(k) # "-"
  BY <1>0 DEF Firsts, Joined
<1>2. /\ Letter(k) # "-" => StageAt(k) = Begun(k + 1) - 1 /\ StageAt(k) \in Nat
      /\ Letter(k + 1) # "-" => StageAt(k + 1) = Begun((k + 1) + 1) - 1 /\ StageAt(k + 1) \in Nat
      /\ Letter(k) = "-" => StageAt(k) = -1
      /\ Letter(k + 1) = "-" => StageAt(k + 1) = -1
  BY <1>0, PlaceFacts DEF Dump
<1>3. /\ Begun(k + 1) \in Nat
      /\ Begun((k + 1) + 1) = Begun(k + 1) + (IF k + 1 \in Firsts THEN 1 ELSE 0)
  BY <1>0, Counts
<1> QED
  BY <1>0, <1>1, <1>2, <1>3

\* The stages and links begun by place m have their places in the vectors.
LEMMA Indices ==
  ASSUME order \in Orders, NEW m \in Nat
  PROVE  /\ \A k \in Firsts : k <= m =>
              /\ k \in Nat /\ StageAt(k) = Begun(k) /\ Begun(k) \in Nat
              /\ Begun(k) + 1 <= Begun(m + 1)
              /\ k > 0 => Begun(k) > 0
         /\ \A k \in Joined : k <= m => /\ k \in Nat /\ k > 0 /\ LinkAt(k) \in Nat
                                        /\ LinkAt(k) + 1 <= LinkAt(m + 1)
<1>0. m + 1 \in Nat
  OBVIOUS
<1>1. ASSUME NEW k \in Firsts, k <= m
      PROVE  /\ k \in Nat /\ StageAt(k) = Begun(k) /\ Begun(k) \in Nat
             /\ Begun(k) + 1 <= Begun(m + 1)
             /\ k > 0 => Begun(k) > 0
  <2>1. k \in Nat /\ StageAt(k) = Begun(k) /\ k + 1 \in Nat /\ k + 1 <= m + 1
    BY <1>1, PlaceFacts
  <2>2. Begun(k) \in Nat /\ Begun(k + 1) = Begun(k) + 1 /\ Begun(k + 1) <= Begun(m + 1)
    BY <1>0, <1>1, <2>1, Counts
  <2>3. Begun(0 + 1) = Begun(0) + 1 /\ Begun(0) = 0
    BY Counts, PlaceFacts
  <2>4. k > 0 => Begun(1) <= Begun(k)
    BY <2>1, Counts
  <2> QED
    BY <2>1, <2>2, <2>3, <2>4
<1>2. ASSUME NEW k \in Joined, k <= m
      PROVE  /\ k \in Nat /\ k > 0 /\ LinkAt(k) \in Nat /\ LinkAt(k) + 1 <= LinkAt(m + 1)
  <2>1. k \in Nat /\ k > 0 /\ k + 1 \in Nat /\ k + 1 <= m + 1
    BY <1>2, PlaceFacts
  <2>2. /\ LinkAt(k) \in Nat /\ LinkAt(k + 1) = LinkAt(k) + 1
        /\ LinkAt(k + 1) <= LinkAt(m + 1)
    BY <1>0, <1>2, <2>1, Counts
  <2> QED
    BY <2>1, <2>2
<1> QED
  BY <1>1, <1>2

LEMMA BuiltFacts ==
  ASSUME PlanInv, pc = "layers"
  PROVE  /\ order \in Orders /\ Len(order) \in 1 .. NumLayers /\ NumLayers \in Nat
         /\ Layer \in Nat /\ Layer < NumLayers /\ start_Layer \in Nat /\ BuiltInv
         /\ Len(gr_layer) = Len(order) /\ Len(classes) = Begun(Len(order))
         /\ This = IF Layer < Len(order) THEN StageAt(Layer) ELSE 0
         /\ Following = IF Layer + 1 < Len(order) THEN StageAt(Layer + 1) ELSE 0
         /\ \A k \in Places : Letter(k) # "-" => Class(StageAt(k)) = Cluster[Letter(k)]
<1>1. /\ order \in Orders /\ Layer \in Nat /\ start_Layer \in Nat
      /\ TypeOK /\ ParsedInv /\ BuiltInv
  <2>1. TypeOK /\ ParsedInv /\ BuiltInv
    BY DEF PlanInv
  <2>2. NumLayers \in Nat
    BY PlannerAssumption DEF PlannerAssumption
  <2>3. order \in Orders /\ Layer \in 0 .. NumLayers /\ start_Layer \in 0 .. NumLayers
    BY <2>1 DEF TypeOK
  <2> QED
    BY <2>1, <2>2, <2>3
<1>2. Len(order) \in 1 .. NumLayers /\ NumLayers \in Nat /\ Layer < NumLayers
  BY <1>1, OrderFacts DEF BuiltInv, RunInv
<1>3. Len(gr_layer) = Len(order) /\ Len(classes) = Begun(Len(order))
  BY <1>1 DEF ParsedInv
<1>4. \A k \in Nat : GraphOf(k) = IF k < Len(order) THEN StageAt(k) ELSE 0
  BY <1>1, <1>2, <1>3 DEF GraphOf, ParsedInv
<1>5. \A k \in Places : Letter(k) # "-" => Class(StageAt(k)) = Cluster[Letter(k)]
  BY <1>1, <1>3 DEF ParsedInv, Places
<1> QED
  BY <1>1, <1>2, <1>3, <1>4, <1>5 DEF This, Following

\* The run of letters that the current layer is in.
LEMMA RunFacts ==
  ASSUME PlanInv, pc = "layers", Layer < Len(order)
  PROVE  /\ start_Layer \in Places /\ Layer \in Places /\ start_Layer <= Layer
         /\ \A k \in start_Layer .. Layer : Letter(k) = Letter(Layer) /\ StageAt(k) = StageAt(Layer)
         /\ \A k \in start_Layer + 1 .. Layer : k \notin Firsts
         /\ \A k \in Nat : k < start_Layer => StageAt(k) = Dump \/ StageAt(k) < Begun(start_Layer)
         /\ Begun(start_Layer) \in Nat /\ LinkAt(start_Layer) \in Nat
         /\ Letter(Layer) = "-" => /\ Begun(Layer + 1) = Begun(start_Layer)
                                   /\ LinkAt(Layer + 1) = LinkAt(start_Layer)
                                   /\ start_Layer \notin Firsts
         /\ Letter(Layer) # "-" => /\ Begun(Layer + 1) = Begun(start_Layer) + 1
                                   /\ LinkAt(Layer + 1) = LinkAt(start_Layer + 1)
                                   /\ start_Layer \in Firsts /\ StageAt(Layer) = Begun(start_Layer)
                                   /\ start_Layer \in Joined <=> start_Layer > 0 /\ ~NoImage
<1> DEFINE s == start_Layer
<1>0. /\ order \in Orders /\ s \in Nat /\ Layer \in Nat /\ Len(order) \in Nat
      /\ s <= Layer /\ (s > 0 => Letter(s) # Letter(s - 1))
      /\ \A k \in s .. Layer : Letter(k) = Letter(Layer)
      /\ Begun(Layer + 1) = Begun(s + 1) /\ LinkAt(Layer + 1) = LinkAt(s + 1)
  <2>1. RunInv /\ order \in Orders /\ s \in Nat /\ Layer \in Nat /\ Len(order) \in Nat
    BY BuiltFacts DEF BuiltInv
  <2> QED
    BY <2>1 DEF RunInv
<1>place. NoImage <=> s > 0 /\ (Letter(s) = "-" \/ Letter(s - 1) = "-")
  BY BuiltFacts DEF BuiltInv, RunInv
<1>1. s \in Places /\ Layer \in Places /\ \A k \in 0 .. Layer : k \in Places /\ k \in Nat
  BY <1>0, PlaceFacts
<1>2. /\ Begun(s) \in Nat /\ LinkAt(s) \in Nat
      /\ Begun(s + 1) = Begun(s) + (IF s \in Firsts THEN 1 ELSE 0)
      /\ LinkAt(s + 1) = LinkAt(s) + (IF s \in Joined THEN 1 ELSE 0)
      /\ Letter(s) = Letter(Layer)
  <2>1. s \in s .. Layer
    BY <1>0
  <2> QED
    BY <1>0, <2>1, Counts
<1>3. \A k \in s + 1 .. Layer : k \notin Firsts
  <2> SUFFICES ASSUME NEW k \in s + 1 .. Layer PROVE k \notin Firsts
    OBVIOUS
  <2>1. k \in s .. Layer /\ k - 1 \in s .. Layer /\ k # 0
    BY <1>0
  <2>2. Letter(k) = Letter(k - 1)
    BY <1>0, <2>1
  <2> QED
    BY <2>1, <2>2 DEF Firsts
<1>4. /\ s \in Firsts <=> Letter(s) # "-"
      /\ s \in Joined <=> s \in Firsts /\ s > 0 /\ Letter(s - 1) # "-"
  BY <1>0, <1>1 DEF Firsts, Joined
<1>5. ASSUME NEW k \in s .. Layer PROVE StageAt(k) = StageAt(Layer)
  <2>1. k + 1 \in Nat /\ s + 1 \in Nat /\ Layer + 1 \in Nat /\ s + 1 <= k + 1 /\ k + 1 <= Layer + 1
        /\ k \in Places
    BY <1>0, <1>1
  <2>2. Begun(s + 1) <= Begun(k + 1) /\ Begun(k + 1) <= Begun(Layer + 1)
    BY <1>0, <2>1, Counts
  <2>3. Begun(k + 1) = Begun(Layer + 1)
    <3>1. Begun(k + 1) \in Nat /\ Begun(s + 1) \in Nat
      BY <1>0, <2>1, Counts
    <3> QED
      BY <1>0, <2>2, <3>1
  <2> QED
    BY <1>0, <1>1, <2>1, <2>3, PlaceFacts
<1>6. ASSUME NEW k \in Nat, k < s PROVE StageAt(k) = Dump \/ StageAt(k) < Begun(s)
  <2>1. k \in Places /\ k + 1 \in Nat /\ k + 1 <= s
    BY <1>0, <1>1, <1>6
  <2>2. Begun(k + 1) \in Nat /\ Begun(k + 1) <= Begun(s)
    BY <1>0, <2>1, Counts
  <2> QED
    BY <1>0, <1>2, <2>1, <2>2, PlaceFacts
<1>7. Letter(Layer) # "-" => StageAt(Layer) = Begun(Layer + 1) - 1
  BY <1>0, <1>1, PlaceFacts
<1> QED
  <2>1. Letter(Layer) = "-" => /\ Begun(Layer + 1) = Begun(s) /\ LinkAt(Layer + 1) = LinkAt(s)
                               /\ s \notin Firsts
    BY <1>0, <1>2, <1>4
  <2>2. Letter(Layer) # "-" => /\ Begun(Layer + 1) = Begun(s) + 1
                               /\ LinkAt(Layer + 1) = LinkAt(s + 1)
                               /\ s \in Firsts /\ StageAt(Layer) = Begun(s)
    BY <1>0, <1>2, <1>4, <1>7
  <2>3. Letter(Layer) # "-" => (s \in Joined <=> s > 0 /\ ~NoImage)
    BY <1>place, <1>2, <1>4
  <2> QED
    BY <1>0, <1>1, <1>2, <1>3, <1>5, <1>6, <2>1, <2>2, <2>3

-----------------------------------------------------------------------------
(* What the layers' actions have in common.                                *)

LEMMA Appended ==
  ASSUME NEW T, NEW q \in Seq(T), NEW x \in T
  PROVE  /\ Append(q, x) \in Seq(T) /\ Len(q) \in Nat /\ Len(Append(q, x)) = Len(q) + 1
         /\ Append(q, x)[Len(q) + 1] = x
         /\ \A n \in 1 .. Len(q) : Append(q, x)[n] = q[n]
  OBVIOUS

LEMMA FixedAt ==
  ASSUME UNCHANGED order
  PROVE  /\ StageAt(Current)' = StageAt(Current') /\ Begun(Current + 1)' = Begun(Current' + 1)
         /\ LinkAt(Current + 1)' = LinkAt(Current' + 1)
         /\ LinkAt(start_Layer)' = LinkAt(start_Layer')
         /\ Begun(start_Layer)' = Begun(start_Layer')
         /\ Letter(start_Layer)' = Letter(start_Layer')
         /\ Letter(start_Layer - 1)' = Letter(start_Layer' - 1)
         /\ Letter(Layer)' = Letter(Layer')
         /\ Begun(Layer + 1)' = Begun(Layer' + 1) /\ LinkAt(Layer + 1)' = LinkAt(Layer' + 1)
         /\ Begun(start_Layer + 1)' = Begun(start_Layer' + 1)
         /\ LinkAt(start_Layer + 1)' = LinkAt(start_Layer' + 1)
         /\ Begun(Len(gr_layer))' = Begun(Len(gr_layer'))
BY Fixed DEF StageAt, Begun, LinkAt, Letter

LEMMA ParsedKept ==
  ASSUME ParsedInv, pc # "parse", pc' # "parse", UNCHANGED parsed
  PROVE  ParsedInv'
BY Fixed, FixedAt DEF ParsedInv, parsed, Class

LEMMA AddedFacts ==
  ASSUME PlanInv, AddLayer
  PROVE  /\ pc = "layers" /\ pc' = (IF Layer + 1 = NumLayers THEN "done" ELSE "layers")
         /\ Layer' = Layer + 1 /\ Layer + 1 \in Nat /\ Layer + 1 <= NumLayers
         /\ placed' = Append(placed, sub_graph)
  BY BuiltFacts DEF AddLayer

\* A stage that has begun is one of the graphs.
LEMMA StageExists ==
  ASSUME PlanInv, pc = "layers", NEW k \in Firsts
  PROVE  /\ Begun(k) \in 0 .. Len(classes) - 1 /\ StageAt(k) = Begun(k)
         /\ Len(classes) = Begun(Len(order))
<1>1. order \in Orders /\ Len(classes) = Begun(Len(order)) /\ Len(order) \in Nat
  BY BuiltFacts
<1>2. k \in Nat /\ k + 1 \in Nat /\ k + 1 <= Len(order) /\ StageAt(k) = Begun(k)
  BY <1>1, PlaceFacts
<1>3. /\ Begun(k) \in Nat /\ Begun(k + 1) = Begun(k) + 1 /\ Begun(Len(order)) \in Nat
      /\ Begun(k + 1) <= Begun(Len(order))
  BY <1>1, <1>2, Counts
<1> QED
  BY <1>1, <1>2, <1>3

\* Each layer is added to the graph of its letter.
LEMMA PlacedStep ==
  ASSUME PlanInv, AddLayer, UNCHANGED parsed,
         sub_graph' = StageAt(Current'), sub_graph' # Dump => core' = Class(sub_graph')
  PROVE  PlacedInv'
<1>1. /\ Len(placed) = Layer /\ Layer \in Nat /\ Len(order) \in Nat
      /\ placed \in Seq({Dump} \cup 0 .. Len(classes) - 1)
      /\ \A k \in 0 .. Layer - 1 : k < Len(order) => placed[k + 1] = StageAt(k)
      /\ sub_graph = StageAt(Current)
      /\ sub_graph \in {Dump} \cup 0 .. Len(classes) - 1
  <2>1. PlacedInv /\ pc = "layers" /\ Layer \in Nat /\ Len(order) \in Nat
    BY AddedFacts, BuiltFacts DEF BuiltInv
  <2>2. /\ placed \in Seq({Dump} \cup 0 .. Len(classes) - 1)
        /\ sub_graph \in {Dump} \cup 0 .. Len(classes) - 1
    BY DEF PlanInv, TypeOK
  <2> QED
    BY <2>1, <2>2 DEF PlacedInv
<1>2. Layer' = Layer + 1 /\ placed' = Append(placed, sub_graph)
  BY AddedFacts
<1>3. Len(placed') = Layer + 1 /\ placed'[Layer + 1] = sub_graph
  BY <1>1, <1>2
<1>4. \A k \in 0 .. Layer - 1 : placed'[k + 1] = placed[k + 1]
  BY <1>1, <1>2
<1>5. Layer < Len(order) => sub_graph = StageAt(Layer)
  BY <1>1 DEF Current
<1>6. \A k \in 0 .. Layer : k < Len(order) => placed'[k + 1] = StageAt(k)
  <2> SUFFICES ASSUME NEW k \in 0 .. Layer, k < Len(order) PROVE placed'[k + 1] = StageAt(k)
    OBVIOUS
  <2>1. CASE k = Layer
    BY <1>3, <1>5, <2>1
  <2>2. CASE k # Layer
    BY <1>1, <1>4, <2>2
  <2> QED
    BY <2>1, <2>2
<1>7. (Layer + 1) - 1 = Layer
  BY <1>1
<1>8. Len(order') = Len(order)
  BY DEF parsed
<1> QED
  BY <1>2, <1>3, <1>6, <1>7, <1>8, Fixed, FixedAt DEF PlacedInv, parsed, Class

\* A stage is closed by its last layer: it is finalized, and its receiver, if
\* it has one, gets the index of its sender; a run of '-' closes nothing.
LEMMA ClosingStep ==
  ASSUME PlanInv, pc = "layers", Layer < Len(order), start_Layer' = Layer + 1, UNCHANGED parsed,
         Letter(Layer) = "-" => UNCHANGED <<finalized, Receivers>>,
         Letter(Layer) # "-" => Finalize(This)
  PROVE  FinalizedInv' /\ ReceiversInv'
<1> DEFINE s == start_Layer
<1>0. /\ order \in Orders /\ s \in Nat /\ Layer \in Nat /\ s <= Layer
      /\ Begun(s) \in Nat /\ LinkAt(s) \in Nat
      /\ finalized \in Seq(Final) /\ Len(finalized) = Begun(s)
      /\ Receivers \in Seq(0 .. Len(classes) - 1) /\ Len(Receivers) = LinkAt(s)
      /\ order' = order /\ classes' = classes
  BY BuiltFacts, RunFacts DEF BuiltInv, FinalizedInv, ReceiversInv, PlanInv, TypeOK, parsed
<1>1. /\ \A n \in 1 .. Len(finalized) :
           /\ finalized[n].stage = n - 1 /\ finalized[n].cluster = Class(n - 1)
           /\ finalized[n].core = finalized[n].cluster
           /\ finalized[n].first .. finalized[n].last = {k \in 0 .. s - 1 : StageAt(k) = n - 1}
      /\ \A k \in Joined : k < s => Receivers[LinkAt(k) + 1] = StageAt(k)
  BY BuiltFacts DEF BuiltInv, FinalizedInv, ReceiversInv
<1>2. /\ \A k \in s .. Layer : StageAt(k) = StageAt(Layer)
      /\ \A k \in s + 1 .. Layer : k \notin Firsts
      /\ \A k \in Nat : k < s => StageAt(k) = Dump \/ StageAt(k) < Begun(s)
  BY RunFacts
<1>stage. /\ Letter(Layer) = "-" => StageAt(Layer) = -1
          /\ Letter(Layer) # "-" => StageAt(Layer) = Begun(s)
          /\ Letter(Layer) = "-" <=> StageAt(Layer) = Dump
  <2>1. Layer \in Places /\ (Letter(Layer) # "-" => StageAt(Layer) = Begun(s))
    BY RunFacts
  <2>2. StageAt(Layer) = -1 <=> Letter(Layer) = "-"
    BY <1>0, <2>1, PlaceFacts DEF Dump
  <2> QED
    BY <2>1, <2>2 DEF Dump
\* The layers of the stages closed before are still theirs alone.
<1>3. ASSUME NEW n \in 1 .. Len(finalized)
      PROVE  {k \in 0 .. s - 1 : StageAt(k) = n - 1} = {k \in 0 .. Layer : StageAt(k) = n - 1}
  <2>1. n \in Nat /\ 0 <= n - 1 /\ n - 1 < Begun(s)
    BY <1>0
  <2>2. StageAt(Layer) # n - 1
    BY <1>0, <1>stage, <2>1
  <2>3. \A k \in 0 .. Layer : k \in 0 .. s - 1 \/ k \in s .. Layer
    BY <1>0
  <2>4. \A k \in 0 .. s - 1 : k \in 0 .. Layer
    BY <1>0
  <2> QED
    BY <1>2, <2>2, <2>3, <2>4
<1>4. CASE Letter(Layer) = "-"
  <2>1. /\ finalized' = finalized /\ Receivers' = Receivers
        /\ Begun(Layer + 1) = Begun(s) /\ LinkAt(Layer + 1) = LinkAt(s) /\ s \notin Firsts
    BY <1>4, RunFacts
  <2>2. FinalizedInv'
    <3>1. (Layer + 1) - 1 = Layer
      BY <1>0
    <3>2. Final' = Final
      BY DEF Final
    <3> QED
      BY <1>0, <1>1, <1>3, <2>1, <3>1, <3>2, Fixed, FixedAt DEF FinalizedInv, Class
  <2>3. ReceiversInv'
    <3>1. ASSUME NEW k \in Joined, k < Layer + 1 PROVE k < s
      <4>1. k \in Firsts /\ k \in Nat
        BY <1>0, PlaceFacts
      <4>2. k \notin s + 1 .. Layer /\ k # s
        BY <1>2, <2>1, <4>1
      <4> QED
        BY <1>0, <3>1, <4>1, <4>2
    <3> QED
      BY <1>0, <1>1, <2>1, <3>1, Fixed, FixedAt DEF ReceiversInv
  <2> QED
    BY <2>2, <2>3
<1>5. CASE Letter(Layer) # "-"
  <2> DEFINE f == [stage |-> This, cluster |-> Class(This), core |-> core,
                   first |-> start_Layer, last |-> Layer]
  <2>1. /\ finalized' = Append(finalized, f)
        /\ Receivers' = IF This > 0 /\ ~NoImage THEN Append(Receivers, This) ELSE Receivers
    BY <1>5 DEF Finalize, HasReceiver, NoImage
  <2>2. /\ Begun(Layer + 1) = Begun(s) + 1 /\ LinkAt(Layer + 1) = LinkAt(s + 1)
        /\ s \in Firsts /\ StageAt(Layer) = Begun(s) /\ This = Begun(s)
        /\ s \in Joined <=> s > 0 /\ ~NoImage
    BY <1>5, RunFacts, BuiltFacts
  <2>3. core = Class(This) /\ Class(This) \in 0 .. 2
    <3>1. sub_graph = This /\ sub_graph # Dump
      BY <1>5, <1>stage, BuiltFacts DEF BuiltInv, PlacedInv, Current
    <3>2. Layer \in Places /\ Class(This) = Cluster[Letter(Layer)]
      BY <1>5, RunFacts, BuiltFacts
    <3>3. Cluster[Letter(Layer)] \in 0 .. 2
      BY <1>0, <1>5, <3>2, OrderFacts DEF Cluster, Letters
    <3> QED
      BY <3>1, <3>2, <3>3, BuiltFacts DEF BuiltInv, PlacedInv
  <2>4. f \in Final
    BY <1>0, <2>2, <2>3 DEF Final
  <2>5. /\ finalized' \in Seq(Final) /\ Len(finalized') = Begun(s) + 1
        /\ finalized'[Begun(s) + 1] = f
        /\ \A n \in 1 .. Len(finalized) : finalized'[n] = finalized[n]
    <3> HIDE DEF f
    <3>1. /\ Append(finalized, f) \in Seq(Final)
          /\ Len(Append(finalized, f)) = Len(finalized) + 1
          /\ Append(finalized, f)[Len(finalized) + 1] = f
          /\ \A n \in 1 .. Len(finalized) : Append(finalized, f)[n] = finalized[n]
      BY <1>0, <2>4, Appended
    <3> QED
      BY <1>0, <2>1, <3>1
  <2>6. start_Layer .. Layer = {k \in 0 .. Layer : StageAt(k) = Begun(s)}
    <3>1. ASSUME NEW k \in 0 .. Layer PROVE k \in s .. Layer <=> StageAt(k) = Begun(s)
      <4>1. CASE k < s
        <5>1. StageAt(k) = -1 \/ StageAt(k) < Begun(s)
          BY <1>0, <1>2, <4>1 DEF Dump
        <5> QED
          BY <1>0, <4>1, <5>1
      <4>2. CASE ~(k < s)
        <5>1. k \in s .. Layer
          BY <1>0, <4>2
        <5> QED
          BY <1>2, <2>2, <5>1
      <4> QED
        BY <4>1, <4>2
    <3>2. \A k \in s .. Layer : k \in 0 .. Layer
      BY <1>0
    <3> QED
      BY <3>1, <3>2
  <2>7. FinalizedInv'
    <3>1. (Layer + 1) - 1 = Layer /\ (Begun(s) + 1) - 1 = Begun(s)
      BY <1>0
    <3>2. Final' = Final
      BY DEF Final
    <3>3. ASSUME NEW n \in 1 .. Len(finalized')
          PROVE  /\ finalized'[n].stage = n - 1 /\ finalized'[n].cluster = Class(n - 1)
                 /\ finalized'[n].core = finalized'[n].cluster
                 /\ finalized'[n].first .. finalized'[n].last
                      = {k \in 0 .. Layer : StageAt(k) = n - 1}
      <4>1. CASE n \in 1 .. Len(finalized)
        BY <1>1, <1>3, <2>5, <4>1
      <4>2. CASE n = Begun(s) + 1
        <5>1. finalized'[n] = f /\ n - 1 = Begun(s)
          BY <2>5, <3>1, <4>2
        <5> QED
          <6>1. /\ f.stage = Begun(s) /\ f.cluster = Class(Begun(s)) /\ f.core = f.cluster
                /\ f.first = start_Layer /\ f.last = Layer
            BY <2>2, <2>3
          <6> QED
            BY <2>6, <5>1, <6>1
      <4> QED
        BY <1>0, <2>5, <4>1, <4>2
    <3> QED
      BY <1>0, <2>2, <2>5, <3>1, <3>2, <3>3, Fixed, FixedAt DEF FinalizedInv, Class
  <2>8. This > 0 <=> s > 0
    <3>1. s > 0 => Begun(s) > 0
      BY <1>0, <2>2, Indices
    <3>2. s = 0 => Begun(s) = 0
      BY <1>0, Counts
    <3>3. This = Begun(s)
      BY <2>2
    <3> QED
      BY <1>0, <3>1, <3>2, <3>3
  <2>9. /\ Receivers' = IF s \in Joined THEN Append(Receivers, Begun(s)) ELSE Receivers
        /\ LinkAt(s + 1) = LinkAt(s) + (IF s \in Joined THEN 1 ELSE 0)
    BY <1>0, <2>1, <2>2, <2>8, Counts
  <2>10. ReceiversInv'
    <3>1. Len(Receivers') = LinkAt(Layer + 1)
      <4>1. CASE s \in Joined
        <5>1. Begun(s) \in 0 .. Len(classes) - 1
          BY <1>0, <2>2, StageExists
        <5>2. Len(Receivers') = Len(Receivers) + 1
          BY <1>0, <2>9, <4>1, <5>1, Appended
        <5> QED
          BY <1>0, <2>2, <2>9, <4>1, <5>2
      <4>2. CASE s \notin Joined
        <5>1. Receivers' = Receivers /\ LinkAt(s + 1) = LinkAt(s) + 0
          BY <2>9, <4>2
        <5>2. LinkAt(Layer + 1) = LinkAt(s + 1)
          BY <2>2
        <5> QED
          BY <1>0, <5>1, <5>2
      <4> QED
        BY <4>1, <4>2
    <3>2. ASSUME NEW k \in Joined, k < Layer + 1 PROVE Receivers'[LinkAt(k) + 1] = StageAt(k)
      <4>1. k \in Firsts /\ k \in Nat /\ LinkAt(k) \in Nat
        BY <1>0, PlaceFacts, Counts
      <4>2. CASE k < s
        <5>1. k + 1 \in Nat /\ k + 1 <= s
          BY <1>0, <4>1, <4>2
        <5>2. LinkAt(k + 1) <= LinkAt(s) /\ LinkAt(k + 1) = LinkAt(k) + 1
          BY <1>0, <3>2, <4>1, <5>1, Counts
        <5>3. LinkAt(k) + 1 \in 1 .. Len(Receivers)
          BY <1>0, <4>1, <5>2
        <5>4. Receivers'[LinkAt(k) + 1] = Receivers[LinkAt(k) + 1]
          <6>1. Begun(s) \in 0 .. Len(classes) - 1
            BY <1>0, <2>2, StageExists
          <6> QED
            BY <1>0, <2>9, <5>3, <6>1, Appended
        <5> QED
          BY <1>1, <3>2, <4>2, <5>4
      <4>3. CASE k = s
        <5>1. Receivers' = Append(Receivers, Begun(s)) /\ StageAt(s) = Begun(s)
          BY <1>0, <2>2, <2>9, <3>2, <4>3, PlaceFacts
        <5>2. Begun(s) \in 0 .. Len(classes) - 1
          BY <1>0, <2>2, StageExists
        <5> QED
          BY <1>0, <4>3, <5>1, <5>2, Appended
      <4>4. ~(s < k)
        BY <1>0, <1>2, <3>2, <4>1
      <4> QED
        BY <1>0, <4>1, <4>2, <4>3, <4>4
    <3> QED
      BY <1>0, <3>1, <3>2, Fixed, FixedAt DEF ReceiversInv
  <2> QED
    BY <2>7, <2>10
<1> QED
  BY <1>4, <1>5

\* The run of letters goes on, ends, or was the last one.
LEMMA RunStep ==
  ASSUME PlanInv, AddLayer, UNCHANGED parsed,
         \/ /\ Layer + 1 < Len(order) /\ Letter(Layer + 1) = Letter(Layer)
            /\ UNCHANGED <<start_Layer, image>>
         \/ /\ Layer + 1 < Len(order) /\ Letter(Layer + 1) # Letter(Layer)
            /\ start_Layer' = Layer + 1
            /\ NoImage' <=> Letter(Layer) = "-" \/ Letter(Layer + 1) = "-"
         \/ Layer + 1 = Len(order) /\ start_Layer' = Layer + 1
         \/ Layer >= Len(order) /\ start_Layer' = start_Layer
  PROVE  RunInv'
<1>0. /\ order \in Orders /\ Layer \in Nat /\ start_Layer \in Nat /\ Len(order) \in Nat /\ RunInv
      /\ Layer' = Layer + 1 /\ Layer + 1 \in Nat /\ Layer + 1 <= NumLayers /\ NumLayers \in Nat
      /\ pc' = IF Layer + 1 = NumLayers THEN "done" ELSE "layers"
      /\ order' = order
  BY AddedFacts, BuiltFacts DEF BuiltInv, parsed
<1>1. /\ pc' = "layers" => Layer' < NumLayers
      /\ pc' = "done" => Layer' = NumLayers
  BY <1>0
<1>2. CASE /\ Layer + 1 < Len(order) /\ Letter(Layer + 1) = Letter(Layer)
           /\ UNCHANGED <<start_Layer, image>>
  <2>1. /\ start_Layer <= Layer
        /\ start_Layer > 0 => Letter(start_Layer) # Letter(start_Layer - 1)
        /\ \A k \in start_Layer .. Layer : Letter(k) = Letter(Layer)
        /\ Begun(Layer + 1) = Begun(start_Layer + 1)
        /\ LinkAt(Layer + 1) = LinkAt(start_Layer + 1)
    BY <1>0, <1>2 DEF RunInv
  <2>2. NoImage <=> /\ start_Layer > 0
                    /\ \/ Letter(start_Layer) = "-"
                       \/ Letter(start_Layer - 1) = "-"
    BY <1>0, <1>2 DEF RunInv
  <2>3. /\ Begun((Layer + 1) + 1) = Begun(Layer + 1)
        /\ LinkAt((Layer + 1) + 1) = LinkAt(Layer + 1)
    <3>1. Layer + 1 \notin Firsts /\ Layer + 1 \notin Joined
      BY <1>0, <1>2, NextLetter
    <3> QED
      BY <1>0, <3>1, Counts
  <2>4. \A k \in start_Layer .. Layer + 1 : Letter(k) = Letter(Layer + 1)
    <3>1. \A k \in start_Layer .. Layer + 1 : k \in start_Layer .. Layer \/ k = Layer + 1
      BY <1>0
    <3> QED
      BY <1>2, <2>1, <3>1
  <2>5. start_Layer' <= Layer' /\ Layer' < Len(order')
    BY <1>0, <1>2, <2>1
  <2>6. /\ Begun(Layer' + 1) = Begun(start_Layer' + 1)
        /\ LinkAt(Layer' + 1) = LinkAt(start_Layer' + 1)
    BY <1>0, <1>2, <2>1, <2>3
  <2> QED
    <3>1. NoImage' <=> NoImage
      BY <1>2 DEF NoImage
    <3> QED
      BY <1>0, <1>1, <1>2, <2>1, <2>2, <2>4, <2>5, <2>6, <3>1, Fixed, FixedAt DEF RunInv
<1>3. CASE /\ Layer + 1 < Len(order) /\ Letter(Layer + 1) # Letter(Layer)
           /\ start_Layer' = Layer + 1
           /\ NoImage' <=> Letter(Layer) = "-" \/ Letter(Layer + 1) = "-"
  <2>1. start_Layer' <= Layer' /\ Layer' < Len(order') /\ (Layer + 1) - 1 = Layer /\ Layer + 1 > 0
    BY <1>0, <1>3
  <2>2. \A k \in Layer + 1 .. Layer + 1 : k = Layer + 1
    BY <1>0
  <2> QED
    BY <1>0, <1>1, <1>3, <2>1, <2>2, Fixed, FixedAt DEF RunInv
<1>4. CASE Layer + 1 = Len(order) /\ start_Layer' = Layer + 1
  <2>1. ~(Layer' < Len(order')) /\ start_Layer' = Len(order')
    BY <1>0, <1>4
  <2> QED
    BY <1>1, <2>1 DEF RunInv
<1>5. CASE Layer >= Len(order) /\ start_Layer' = start_Layer
  <2>1. ~(Layer' < Len(order')) /\ ~(Layer < Len(order))
    BY <1>0, <1>5
  <2>2. start_Layer' = Len(order')
    BY <1>0, <1>5, <2>1 DEF RunInv
  <2> QED
    BY <1>1, <2>1, <2>2 DEF RunInv
<1> QED
  BY <1>2, <1>3, <1>4, <1>5

-----------------------------------------------------------------------------
(* The accessors and the links, action by action.                          *)

LEMMA AccessorFacts ==
  ASSUME PlanInv, AddLayer, UNCHANGED parsed
  PROVE  /\ order \in Orders /\ Len(order) \in 1 .. NumLayers /\ NumLayers \in Nat
         /\ Layer \in Nat /\ Layer < NumLayers /\ pc = "layers" /\ pc # "done"
         /\ Layer' = Layer + 1 /\ order' = order /\ lbl' = lbl
         /\ pc' = IF Layer + 1 = NumLayers THEN "done" ELSE "layers"
         /\ Current \in Nat /\ Current \in Places /\ Current <= Layer
         /\ Layer < Len(order) => Current = Layer
         /\ Current' = IF Layer + 1 < Len(order) THEN Layer + 1 ELSE Len(order) - 1
         /\ stage_in \in Seq(AccessorType) /\ stage_out \in Seq(AccessorType)
         /\ AccessorsInv /\ SendersInv /\ sub_graph = StageAt(Current)
         /\ Begun(Current + 1) \in Nat /\ LinkAt(Current + 1) \in Nat
         /\ Transmitters \in Seq(0 .. Len(classes) - 1)
         /\ sub_graph = Dump <=> Letter(Current) = "-"
<1>1. /\ pc = "layers" /\ Layer' = Layer + 1
      /\ pc' = IF Layer + 1 = NumLayers THEN "done" ELSE "layers"
  BY AddedFacts
<1>2. /\ order \in Orders /\ Len(order) \in 1 .. NumLayers /\ NumLayers \in Nat
      /\ Layer \in Nat /\ Layer < NumLayers /\ BuiltInv
  BY <1>1, BuiltFacts
<1>3. order' = order /\ lbl' = lbl
  BY DEF parsed
<1>4. /\ Current \in Nat /\ Current < Len(order) /\ Current <= Layer
      /\ Layer < Len(order) => Current = Layer
  BY <1>2 DEF Current
<1>5. Current' = IF Layer + 1 < Len(order) THEN Layer + 1 ELSE Len(order) - 1
  BY <1>1, <1>3 DEF Current
<1>6. /\ stage_in \in Seq(AccessorType) /\ stage_out \in Seq(AccessorType)
      /\ Transmitters \in Seq(0 .. Len(classes) - 1)
  BY DEF PlanInv, TypeOK
<1>7. AccessorsInv /\ SendersInv /\ sub_graph = StageAt(Current)
  BY <1>2 DEF BuiltInv, PlacedInv
<1>8. Begun(Current + 1) \in Nat /\ LinkAt(Current + 1) \in Nat
  BY <1>2, <1>4, Counts
<1>9. Current \in Places /\ (sub_graph = Dump <=> Letter(Current) = "-")
  BY <1>2, <1>4, <1>7, PlaceFacts DEF Dump
<1> QED
  BY <1>1, <1>2, <1>3, <1>4, <1>5, <1>6, <1>7, <1>8, <1>9

LEMMA Accessors ==
  /\ Input \in AccessorType /\ Dummy \in AccessorType /\ Result \in AccessorType
  /\ \A l \in 0 .. NumLayers - 1, c \in BOOLEAN :
       Sender(l, c) \in AccessorType /\ Receiver(l, c) \in AccessorType
  /\ AccessorType' = AccessorType
BY PlannerAssumption
   DEF PlannerAssumption, Input, Dummy, Result, Sender, Receiver, AccessorType

\* No stage begins with the next layer.
LEMMA SameStage ==
  ASSUME PlanInv, AddLayer, UNCHANGED parsed, sub_graph' = sub_graph, stage_in' = stage_in,
         WriteResults, Current' = Current \/ (Current' = Current + 1 /\ Current + 1 \notin Firsts)
  PROVE  AccessorsInv'
<1>0. /\ order \in Orders /\ Current \in Nat /\ pc # "done" /\ order' = order /\ lbl' = lbl
      /\ Begun(Current + 1) \in Nat /\ Layer \in Nat /\ NumLayers \in Nat
      /\ pc' = IF Layer + 1 = NumLayers THEN "done" ELSE "layers"
      /\ stage_in \in Seq(AccessorType) /\ stage_out \in Seq(AccessorType) /\ AccessorsInv
  BY AccessorFacts
<1>1. /\ Len(stage_in) = Begun(Current + 1)
      /\ Len(stage_out) = IF sub_graph = Dump THEN Len(stage_in) ELSE Len(stage_in) - 1
      /\ \A k \in Firsts : k <= Current => stage_in[StageAt(k) + 1] = InputOf(k)
      /\ \A k \in Firsts : k > 0 /\ k <= Current => stage_out[StageAt(k)] = OutputBefore(k)
      /\ sub_graph = Dump => stage_out[Len(stage_out)] = Dummy
  BY <1>0 DEF AccessorsInv
<1>2. Begun(Current' + 1) = Begun(Current + 1) /\ \A k \in Firsts : k <= Current' => k <= Current
  <2>1. CASE Current' = Current
    BY <2>1
  <2>2. CASE Current' = Current + 1 /\ Current + 1 \notin Firsts
    <3>1. Current + 1 \in Nat
      BY <1>0
    <3>2. Begun((Current + 1) + 1) = Begun(Current + 1)
      BY <1>0, <2>2, <3>1, Counts
    <3>3. \A k \in Firsts : k \in Nat /\ k # Current + 1
      BY <1>0, <2>2, PlaceFacts
    <3> QED
      BY <1>0, <2>2, <3>2, <3>3
  <2> QED
    BY <2>1, <2>2
<1>3. \A k \in Firsts : k <= Current =>
         /\ StageAt(k) \in Nat /\ StageAt(k) + 1 <= Begun(Current + 1) /\ (k > 0 => StageAt(k) > 0)
  BY <1>0, Indices
<1>4. CASE pc' = "done" /\ sub_graph # Dump
  <2>1. stage_out' = Append(stage_out, LastOutput) /\ LastOutput \in AccessorType
    BY <1>0, <1>4, Accessors DEF WriteResults, LabelsRestored, LastOutput
  <2>2. /\ Len(stage_out') = Len(stage_out) + 1 /\ Len(stage_out) \in Nat
        /\ stage_out'[Len(stage_out) + 1] = LastOutput
        /\ \A n \in 1 .. Len(stage_out) : stage_out'[n] = stage_out[n]
    BY <1>0, <2>1, Appended
  <2>3. ASSUME NEW k \in Firsts, k > 0, k <= Current'
        PROVE  stage_out'[StageAt(k)] = OutputBefore(k)
    <3>1. StageAt(k) \in 1 .. Len(stage_out)
      BY <1>0, <1>1, <1>2, <1>3, <1>4, <2>3
    <3> QED
      BY <1>1, <1>2, <2>2, <2>3, <3>1
  <2>4. Len(stage_out') = Len(stage_in')
    BY <1>0, <1>1, <1>4, <2>2
  <2>5. stage_out'[Len(stage_out')] = LastOutput
    BY <2>2
  <2>6. LastOutput' = LastOutput
    BY <1>0 DEF LastOutput, Dummy, Result
  <2> QED
    BY <1>0, <1>1, <1>2, <1>4, <2>3, <2>4, <2>5, <2>6, Fixed, FixedAt DEF AccessorsInv
<1>5. CASE pc' # "done" \/ sub_graph = Dump
  <2>1. stage_out' = stage_out
    BY <1>0, <1>5 DEF WriteResults
  <2>2. Dummy' = Dummy
    BY DEF Dummy
  <2> QED
    BY <1>0, <1>1, <1>2, <1>5, <2>1, <2>2, Fixed, FixedAt DEF AccessorsInv
<1> QED
  BY <1>4, <1>5

LEMMA SameSenders ==
  ASSUME PlanInv, AddLayer, UNCHANGED parsed, UNCHANGED <<Transmitters, mx>>,
         Current' = Current \/ (Current' = Current + 1 /\ Current + 1 \notin Joined)
  PROVE  SendersInv'
<1>0. order \in Orders /\ Current \in Nat /\ order' = order /\ SendersInv
  BY AccessorFacts
<1>1. LinkAt(Current' + 1) = LinkAt(Current + 1) /\ \A k \in Joined : k <= Current' => k <= Current
  <2>1. CASE Current' = Current
    BY <2>1
  <2>2. CASE Current' = Current + 1 /\ Current + 1 \notin Joined
    <3>1. Current + 1 \in Nat
      BY <1>0
    <3>2. LinkAt((Current + 1) + 1) = LinkAt(Current + 1)
      BY <1>0, <2>2, <3>1, Counts
    <3>3. \A k \in Joined : k \in Nat /\ k # Current + 1
      BY <1>0, <2>2, PlaceFacts
    <3> QED
      BY <1>0, <2>2, <3>2, <3>3
  <2> QED
    BY <2>1, <2>2
<1> QED
  BY <1>0, <1>1, Fixed, FixedAt DEF SendersInv

\* A stage begins with the next layer, after a '-' or joined to the current one.
LEMMA NewStage ==
  ASSUME PlanInv, AddLayer, UNCHANGED parsed, Layer + 1 \in Firsts,
         sub_graph' = StageAt(Layer + 1), stage_in' = Append(stage_in, InputOf(Layer + 1)),
         InputOf(Layer + 1) \in AccessorType, OutputBefore(Layer + 1) \in AccessorType,
         Letter(Layer) = "-" => stage_out' = stage_out /\ OutputBefore(Layer + 1) = Dummy,
         Letter(Layer) # "-" => stage_out' = Append(stage_out, OutputBefore(Layer + 1))
  PROVE  AccessorsInv'
<1> DEFINE m == Layer + 1
<1>place. m \in Places /\ m \in Nat /\ m < Len(order)
  BY AccessorFacts, PlaceFacts
<1>0. /\ order \in Orders /\ Layer \in Nat /\ order' = order /\ Current = Layer /\ Current' = m
      /\ pc # "done" /\ pc' = "layers"
      /\ stage_in \in Seq(AccessorType) /\ stage_out \in Seq(AccessorType) /\ AccessorsInv
      /\ Begun(m) \in Nat /\ (sub_graph = Dump <=> Letter(Layer) = "-")
  <2>1. /\ order \in Orders /\ Layer \in Nat /\ order' = order /\ Current = Layer /\ Current' = m
        /\ Len(order) \in 1 .. NumLayers /\ NumLayers \in Nat
    BY <1>place, AccessorFacts
  <2>2. m # NumLayers
    BY <1>place, <2>1
  <2> QED
    BY <1>place, <2>1, <2>2, AccessorFacts
<1>1. /\ Len(stage_in) = Begun(m)
      /\ Len(stage_out) = IF sub_graph = Dump THEN Len(stage_in) ELSE Len(stage_in) - 1
      /\ \A k \in Firsts : k <= Layer => stage_in[StageAt(k) + 1] = InputOf(k)
      /\ \A k \in Firsts : k > 0 /\ k <= Layer => stage_out[StageAt(k)] = OutputBefore(k)
      /\ sub_graph = Dump => stage_out[Len(stage_out)] = Dummy
  BY <1>0 DEF AccessorsInv
<1>2. Begun(m + 1) = Begun(m) + 1 /\ StageAt(m) = Begun(m)
  BY <1>0, <1>place, Counts, PlaceFacts
<1>3. \A k \in Firsts : k <= Layer =>
         /\ StageAt(k) \in Nat /\ StageAt(k) + 1 <= Begun(m) /\ (k > 0 => StageAt(k) > 0)
  BY <1>0, Indices
<1>4. \A k \in Firsts : k <= m => k = m \/ k <= Layer
  BY <1>0, <1>place, PlaceFacts, SMTT(60)
<1>5. /\ Len(stage_in') = Begun(m) + 1 /\ stage_in'[Begun(m) + 1] = InputOf(m)
      /\ \A n \in 1 .. Len(stage_in) : stage_in'[n] = stage_in[n]
  BY <1>0, <1>1, Appended
<1>6. \A k \in Firsts : k <= m => stage_in'[StageAt(k) + 1] = InputOf(k)
  <2> SUFFICES ASSUME NEW k \in Firsts, k <= m PROVE stage_in'[StageAt(k) + 1] = InputOf(k)
    OBVIOUS
  <2>1. CASE k = m
    BY <1>2, <1>5, <2>1
  <2>2. CASE k <= Layer
    <3>1. StageAt(k) + 1 \in 1 .. Len(stage_in)
      BY <1>0, <1>1, <1>3, <2>2
    <3> QED
      BY <1>1, <1>5, <2>2, <3>1
  <2> QED
    BY <1>4, <2>1, <2>2
<1>7. /\ Len(stage_out') = Begun(m) /\ stage_out'[Begun(m)] = OutputBefore(m)
      /\ \A n \in 1 .. Begun(m) - 1 : stage_out'[n] = stage_out[n]
  <2>1. CASE Letter(Layer) = "-"
    BY <1>0, <1>1, <2>1
  <2>2. CASE Letter(Layer) # "-"
    <3>1. Len(stage_out) = Begun(m) - 1 /\ (Begun(m) - 1) + 1 = Begun(m)
      BY <1>0, <1>1, <2>2
    <3>2. /\ Len(stage_out') = (Begun(m) - 1) + 1
          /\ stage_out'[(Begun(m) - 1) + 1] = OutputBefore(m)
          /\ \A n \in 1 .. Begun(m) - 1 : stage_out'[n] = stage_out[n]
      <4> HIDE DEF m
      <4>1. stage_out' = Append(stage_out, OutputBefore(m)) /\ OutputBefore(m) \in AccessorType
        BY <2>2 DEF m
      <4> QED
        BY <1>0, <3>1, <4>1, Appended
    <3> QED
      BY <3>1, <3>2
  <2> QED
    BY <2>1, <2>2
<1>8. \A k \in Firsts : k > 0 /\ k <= m => stage_out'[StageAt(k)] = OutputBefore(k)
  <2> SUFFICES ASSUME NEW k \in Firsts, k > 0, k <= m
               PROVE  stage_out'[StageAt(k)] = OutputBefore(k)
    OBVIOUS
  <2>1. CASE k = m
    BY <1>2, <1>7, <2>1
  <2>2. CASE k <= Layer
    <3>1. StageAt(k) \in 1 .. Begun(m) - 1
      BY <1>0, <1>3, <2>2
    <3> QED
      BY <1>1, <1>7, <2>2, <3>1
  <2> QED
    BY <1>4, <2>1, <2>2
<1>9. sub_graph' # Dump /\ (Begun(m) + 1) - 1 = Begun(m)
  <2>1. sub_graph' = Begun(m) /\ Begun(m) \in Nat
    BY <1>0, <1>2
  <2> QED
    BY <2>1 DEF Dump
<1>10. Dump' = Dump
  BY DEF Dump
<1> QED
  BY <1>0, <1>2, <1>5, <1>6, <1>7, <1>8, <1>9, <1>10, Fixed, FixedAt, ZenonT(60) DEF AccessorsInv

\* A run of '-' begins with the next layer.
LEMMA NewDump ==
  ASSUME PlanInv, AddLayer, UNCHANGED parsed, Layer + 1 < Len(order),
         Letter(Layer) # "-", Letter(Layer + 1) = "-", sub_graph' = Dump,
         stage_in' = stage_in, stage_out' = Append(stage_out, Dummy)
  PROVE  AccessorsInv'
<1> DEFINE m == Layer + 1
<1>0. /\ order \in Orders /\ Layer \in Nat /\ order' = order /\ Current = Layer /\ Current' = m
      /\ pc # "done" /\ pc' = "layers" /\ m \in Nat
      /\ stage_in \in Seq(AccessorType) /\ stage_out \in Seq(AccessorType) /\ AccessorsInv
      /\ Begun(m) \in Nat /\ sub_graph # Dump
  <2>1. /\ order \in Orders /\ Layer \in Nat /\ order' = order /\ Current = Layer /\ Current' = m
        /\ Len(order) \in 1 .. NumLayers /\ NumLayers \in Nat
    BY AccessorFacts
  <2>2. m # NumLayers /\ m \in Nat
    BY <2>1
  <2> QED
    BY <2>1, <2>2, AccessorFacts
<1>1. /\ Len(stage_in) = Begun(m) /\ Len(stage_out) = Len(stage_in) - 1
      /\ \A k \in Firsts : k <= Layer => stage_in[StageAt(k) + 1] = InputOf(k)
      /\ \A k \in Firsts : k > 0 /\ k <= Layer => stage_out[StageAt(k)] = OutputBefore(k)
  BY <1>0 DEF AccessorsInv
<1>2. m \notin Firsts
  BY <1>0, NextLetter
<1>3. Begun(m + 1) = Begun(m) /\ \A k \in Firsts : k <= m => k <= Layer
  <2>1. Begun(m + 1) = Begun(m)
    BY <1>0, <1>2, Counts
  <2>2. \A k \in Firsts : k \in Nat /\ k # m
    BY <1>0, <1>2, PlaceFacts
  <2> QED
    BY <1>0, <2>1, <2>2
<1>4. \A k \in Firsts : k <= Layer =>
         /\ StageAt(k) \in Nat /\ StageAt(k) + 1 <= Begun(m) /\ (k > 0 => StageAt(k) > 0)
  BY <1>0, Indices
<1>5. /\ Len(stage_out') = Begun(m) /\ stage_out'[Len(stage_out')] = Dummy
      /\ \A n \in 1 .. Begun(m) - 1 : stage_out'[n] = stage_out[n]
  BY <1>0, <1>1, Accessors, Appended
<1>6. \A k \in Firsts : k > 0 /\ k <= m => stage_out'[StageAt(k)] = OutputBefore(k)
  <2> SUFFICES ASSUME NEW k \in Firsts, k > 0, k <= m
               PROVE  stage_out'[StageAt(k)] = OutputBefore(k)
    OBVIOUS
  <2>1. k <= Layer /\ StageAt(k) \in 1 .. Begun(m) - 1
    BY <1>0, <1>3, <1>4
  <2> QED
    BY <1>1, <1>5, <2>1
<1>7. Dump' = Dump /\ Dummy' = Dummy
  BY DEF Dump, Dummy
<1> QED
  BY <1>0, <1>1, <1>3, <1>5, <1>6, <1>7, Fixed, FixedAt DEF AccessorsInv

\* The next layer's stage is joined to the current one.
LEMMA NewSender ==
  ASSUME PlanInv, AddLayer, UNCHANGED parsed, Layer + 1 \in Joined,
         Transmitters' = Append(Transmitters, StageAt(Layer + 1) - 1), mx' = mx + 1,
         StageAt(Layer + 1) - 1 \in 0 .. Len(classes) - 1
  PROVE  SendersInv' /\ Len(Transmitters') = LinkAt(Layer + 1) + 1
<1> DEFINE m == Layer + 1
<1>place. m \in Places /\ m \in Nat /\ m < Len(order)
  BY AccessorFacts, PlaceFacts
<1>0. /\ order \in Orders /\ Layer \in Nat /\ order' = order /\ Current = Layer /\ Current' = m
      /\ SendersInv /\ LinkAt(m) \in Nat /\ Transmitters \in Seq(0 .. Len(classes) - 1)
  BY <1>place, AccessorFacts, SMTT(60)
<1>1. /\ Len(Transmitters) = LinkAt(m) /\ mx = Len(Transmitters)
      /\ \A k \in Joined : k <= Layer => Transmitters[LinkAt(k) + 1] = StageAt(k) - 1
  BY <1>0 DEF SendersInv
<1>2. /\ Len(Transmitters') = LinkAt(m) + 1 /\ Transmitters'[LinkAt(m) + 1] = StageAt(m) - 1
      /\ \A n \in 1 .. LinkAt(m) : Transmitters'[n] = Transmitters[n]
  BY <1>0, <1>1, Appended
<1>3. LinkAt(m + 1) = LinkAt(m) + 1
  BY <1>0, <1>place, Counts
<1>4. ASSUME NEW k \in Joined, k <= m PROVE Transmitters'[LinkAt(k) + 1] = StageAt(k) - 1
  <2>1. CASE k = m
    BY <1>2, <2>1
  <2>2. CASE k # m
    <3>0. k \in Nat
      BY <1>0, PlaceFacts
    <3>1. k \in Nat /\ k <= Layer
      BY <1>0, <1>4, <2>2, <3>0
    <3>2. LinkAt(k) \in Nat /\ LinkAt(k) + 1 <= LinkAt(m)
      BY <1>0, <3>1, Indices
    <3>3. LinkAt(k) + 1 \in 1 .. LinkAt(m)
      BY <1>0, <3>2
    <3> QED
      BY <1>1, <1>2, <3>1, <3>3
  <2> QED
    BY <2>1, <2>2
<1> QED
  BY <1>0, <1>1, <1>2, <1>3, <1>4, Fixed, FixedAt DEF SendersInv

-----------------------------------------------------------------------------
(* The invariant is preserved.                                             *)

Label == {"", "file", "transfer", "transfer_wait"}

LEMMA TypeKept ==
  ASSUME PlanInv, AddLayer, UNCHANGED parsed, BuiltInv',
         start_Layer' = start_Layer \/ start_Layer' = Layer + 1,
         stage_in' \in Seq(AccessorType), stage_out' \in Seq(AccessorType),
         Transmitters' \in Seq(0 .. Len(classes) - 1), Receivers' \in Seq(0 .. Len(classes) - 1),
         image' \in Label, labels' \in Label, core' \in {Unpinned} \cup 0 .. 2
  PROVE  TypeOK'
<1>0. /\ order \in Orders /\ Len(order) \in 1 .. NumLayers /\ NumLayers \in Nat
      /\ Layer \in Nat /\ Layer < NumLayers /\ Layer' = Layer + 1 /\ order' = order /\ lbl' = lbl
      /\ pc' = IF Layer + 1 = NumLayers THEN "done" ELSE "layers"
      /\ Current' = IF Layer + 1 < Len(order) THEN Layer + 1 ELSE Len(order) - 1
  BY AccessorFacts
<1>1. TypeOK /\ Len(classes) = Begun(Len(order)) /\ Len(classes) \in Nat /\ start_Layer \in Nat
  BY <1>0, AddedFacts, BuiltFacts, Counts DEF PlanInv
<1>2. classes' = classes /\ gr_layer' = gr_layer /\ g' = g
  BY DEF parsed
<1>3. /\ Current' \in Nat /\ Current' < Len(order) /\ Current' + 1 \in Nat
      /\ Current' + 1 <= Len(order)
  BY <1>0
<1>some. Current' + 1 > 0
  <2>1. \A k \in Nat : k + 1 > 0
    OBVIOUS
  <2> QED
    BY <1>3, <2>1
<1>4. /\ Begun(Current' + 1) <= Len(classes) /\ LinkAt(Current' + 1) <= NumLayers - 1
      /\ LinkAt(Current' + 1) \in Nat /\ Begun(Current' + 1) \in Nat
  <2>1. Begun(Current' + 1) <= Begun(Len(order)) /\ Len(order) \in Nat
    <3>1. Len(order) \in Nat
      BY <1>0
    <3>2. \A k \in Nat : k <= Len(order) => Begun(k) <= Begun(Len(order))
      BY <1>0, <3>1, Counts
    <3> QED
      BY <1>3, <3>1, <3>2
  <2>2. LinkAt(Current' + 1) < Current' + 1
    <3>1. Current' + 1 > 0
      BY <1>some
    <3>2. \A k \in Nat : k > 0 => LinkAt(k) < k
      BY <1>0, Counts
    <3> QED
      BY <1>3, <3>1, <3>2
  <2>3. LinkAt(Current' + 1) \in Nat /\ Begun(Current' + 1) \in Nat
    BY <1>0, <1>3, Counts
  <2> QED
    BY <1>0, <1>1, <1>3, <2>1, <2>2, <2>3
<1>5. start_Layer' \in Nat /\ start_Layer' <= Layer + 1 /\ start_Layer' <= Len(order)
  <2>1. RunInv'
    BY DEF BuiltInv
  <2>2. Layer' < Len(order') => start_Layer' <= Layer'
    BY <2>1 DEF RunInv
  <2>3. ~(Layer' < Len(order')) => start_Layer' = Len(order')
    BY <2>1 DEF RunInv
  <2> QED
    BY <1>0, <1>1, <2>2, <2>3
<1>6. /\ Len(stage_in') = Begun(Current' + 1) /\ Len(stage_out') <= Len(stage_in')
      /\ mx' = LinkAt(Current' + 1)
  <2>1. AccessorsInv' /\ SendersInv'
    BY DEF BuiltInv
  <2>2. /\ Len(stage_in') = Begun(Current' + 1)
        /\ Len(stage_out') = Len(stage_in') \/ Len(stage_out') = Len(stage_in') - 1
    BY <1>0, <2>1, FixedAt DEF AccessorsInv
  <2>3. mx' = LinkAt(Current' + 1)
    BY <1>0, <2>1, FixedAt DEF SendersInv
  <2> QED
    BY <1>4, <2>2, <2>3
<1>7. Len(finalized') <= Len(classes)
  <2>1. Len(finalized') = Begun(start_Layer')
    BY <1>0, FixedAt DEF BuiltInv, FinalizedInv
  <2>2. Len(order) \in Nat
    BY <1>0
  <2> QED
    BY <1>0, <1>1, <1>5, <2>1, <2>2, Counts
<1>8. sub_graph' \in {Dump} \cup 0 .. Len(classes) - 1
  <2>1. sub_graph' = StageAt(Current') /\ Current' \in Places
    BY <1>0, <1>3, FixedAt, PlaceFacts DEF BuiltInv, PlacedInv
  <2>2. \/ StageAt(Current') = Dump
        \/ StageAt(Current') = Begun(Current' + 1) - 1 /\ StageAt(Current') \in Nat
    BY <1>0, <2>1, PlaceFacts
  <2> QED
    BY <1>1, <1>4, <2>1, <2>2
<1>9. placed' \in Seq({Dump} \cup 0 .. Len(classes) - 1)
  <2>1. /\ placed \in Seq({Dump} \cup 0 .. Len(classes) - 1)
        /\ sub_graph \in {Dump} \cup 0 .. Len(classes) - 1
    BY <1>1 DEF TypeOK
  <2> DEFINE T == {Dump} \cup 0 .. Len(classes) - 1
  <2> HIDE DEF T
  <2>2. placed \in Seq(T) /\ sub_graph \in T /\ placed' = Append(placed, sub_graph)
    BY <2>1, AddedFacts DEF T
  <2>3. placed' \in Seq(T)
    BY <2>2, Appended
  <2> QED
    BY <2>3 DEF T
<1>10. /\ Layer' \in 0 .. NumLayers /\ start_Layer' \in 0 .. NumLayers
       /\ mx' \in 0 .. NumLayers - 1 /\ Len(stage_in') <= Len(classes)
       /\ Len(stage_out') <= Len(classes)
  <2>1. Len(stage_out') \in Nat
    OBVIOUS
  <2> QED
    BY <1>0, <1>1, <1>4, <1>5, <1>6, <2>1
<1>11. AccessorType' = AccessorType /\ Dump' = Dump /\ Unpinned' = Unpinned
  BY DEF AccessorType, Dump, Unpinned
<1>12. /\ order' \in Orders /\ lbl' \in {"", "file"} /\ pc' \in {"parse", "layers", "done"}
       /\ classes' \in Seq(0 .. 2) /\ Len(classes') <= Len(order') /\ g' \in 0 .. NumLayers - 1
       /\ gr_layer' \in Seq({Dump} \cup 0 .. Len(classes') - 1)
  <2>1. pc' \in {"parse", "layers", "done"}
    BY <1>0
  <2> QED
    BY <1>0, <1>1, <1>2, <2>1 DEF TypeOK
<1> QED
  BY <1>2, <1>7, <1>8, <1>9, <1>10, <1>11, <1>12 DEF TypeOK, Label

LEMMA ChangingFacts ==
  ASSUME PlanInv, AddLayer, ~LastLetter, This # Following
  PROVE  /\ Layer + 1 < Len(order) /\ Layer < Len(order) /\ order \in Orders
         /\ Layer \in Nat /\ Layer + 1 \in Nat /\ Layer \in Places /\ Layer + 1 \in Places
         /\ Letter(Layer + 1) # Letter(Layer) /\ Current = Layer
         /\ This = StageAt(Layer) /\ Following = StageAt(Layer + 1)
         /\ This = Dump <=> Letter(Layer) = "-"
         /\ Following = Dump <=> Letter(Layer + 1) = "-"
         /\ This # Dump => (Class(This) = GPU <=> Letter(Layer) = "G")
         /\ Following # Dump => Class(Following) \in 0 .. 2
         /\ Layer + 1 # NumLayers
<1>0. /\ order \in Orders /\ Len(order) \in 1 .. NumLayers /\ NumLayers \in Nat /\ Layer \in Nat
      /\ This = (IF Layer < Len(order) THEN StageAt(Layer) ELSE 0)
      /\ Following = (IF Layer + 1 < Len(order) THEN StageAt(Layer + 1) ELSE 0)
      /\ \A k \in Places : Letter(k) # "-" => Class(StageAt(k)) = Cluster[Letter(k)]
  BY AddedFacts, BuiltFacts
<1>1. Layer + 1 < Len(order) /\ Layer < Len(order) /\ Layer + 1 # NumLayers /\ Layer + 1 \in Nat
  BY <1>0 DEF LastLetter
<1>2. /\ This = StageAt(Layer) /\ Following = StageAt(Layer + 1) /\ Current = Layer
      /\ Layer \in Places /\ Layer + 1 \in Places
  BY <1>0, <1>1, PlaceFacts DEF Current
<1>3. Letter(Layer + 1) # Letter(Layer)
  BY <1>0, <1>1, <1>2, NextLetter
<1>4. /\ This = Dump <=> Letter(Layer) = "-"
      /\ Following = Dump <=> Letter(Layer + 1) = "-"
  BY <1>0, <1>2, PlaceFacts DEF Dump
<1>5. Letter(Layer) \in Letters /\ Letter(Layer + 1) \in Letters
  BY <1>0, <1>2, OrderFacts
<1>6. \A c \in Letters : c # "-" => Cluster[c] \in 0 .. 2 /\ (Cluster[c] = GPU <=> c = "G")
  BY DEF Cluster, Letters, GPU
<1> QED
  BY <1>0, <1>1, <1>2, <1>3, <1>4, <1>5, <1>6

\* The types of what the last layer and a closed stage record.
LEMMA ResultsTyped ==
  ASSUME PlanInv, WriteResults PROVE stage_out' \in Seq(AccessorType) /\ labels' \in Label
<1>1. stage_out \in Seq(AccessorType) /\ labels \in Label /\ lbl \in Label
  BY DEF PlanInv, TypeOK, Label
<1>2. labels' \in Label
  BY <1>1 DEF WriteResults, LabelsRestored
<1>3. \/ stage_out' = stage_out \/ stage_out' = Append(stage_out, Dummy)
      \/ stage_out' = Append(stage_out, Result)
  BY DEF WriteResults
<1> QED
  BY <1>1, <1>2, <1>3, Accessors, Appended

LEMMA ReceiversTyped ==
  ASSUME PlanInv, pc = "layers", Layer < Len(order), This = StageAt(Layer),
         IF This = Dump THEN UNCHANGED <<finalized, Receivers>> ELSE Finalize(This)
  PROVE  Receivers' \in Seq(0 .. Len(classes) - 1)
<1>1. Receivers \in Seq(0 .. Len(classes) - 1) /\ order \in Orders
  BY DEF PlanInv, TypeOK
<1>2. CASE This = Dump
  BY <1>1, <1>2
<1>3. CASE This # Dump
  <2>1. This \in 0 .. Len(classes) - 1
    <3>1. Layer \in Places /\ Letter(Layer) # "-"
      BY <1>1, <1>3, RunFacts, PlaceFacts
    <3>2. start_Layer \in Firsts /\ StageAt(Layer) = Begun(start_Layer)
      BY <3>1, RunFacts
    <3> QED
      BY <3>2, StageExists
  <2>2. Receivers' = Append(Receivers, This) \/ Receivers' = Receivers
    BY <1>3 DEF Finalize
  <2> QED
    BY <1>1, <2>1, <2>2, Appended
<1> QED
  BY <1>2, <1>3

LEMMA SameGraphStep == ASSUME PlanInv, SameGraph PROVE PlanInv'
<1>0. /\ AddLayer /\ ~LastLetter /\ This = Following /\ WriteResults /\ UNCHANGED parsed
      /\ UNCHANGED <<start_Layer, sub_graph, core, image, stage_in, finalized,
                     Transmitters, Receivers, mx>>
  BY DEF SameGraph, links
<1>1. /\ order \in Orders /\ Len(order) \in 1 .. NumLayers /\ Layer \in Nat /\ NumLayers \in Nat
      /\ Current' = IF Layer + 1 < Len(order) THEN Layer + 1 ELSE Len(order) - 1
      /\ Layer < Len(order) => Current = Layer
      /\ pc = "layers" /\ Layer' = Layer + 1 /\ order' = order
      /\ sub_graph = StageAt(Current)
  BY <1>0, AccessorFacts
<1>2. /\ This = IF Layer < Len(order) THEN StageAt(Layer) ELSE 0
      /\ Following = IF Layer + 1 < Len(order) THEN StageAt(Layer + 1) ELSE 0
      /\ BuiltInv
  BY <1>1, BuiltFacts
<1>3. \/ /\ Layer + 1 < Len(order) /\ Letter(Layer + 1) = Letter(Layer)
         /\ Current' = Current + 1 /\ Current + 1 = Layer + 1
         /\ Current + 1 \notin Firsts /\ Current + 1 \notin Joined
         /\ StageAt(Current') = sub_graph
      \/ Layer >= Len(order) /\ Current' = Current
  <2>1. CASE Layer + 1 < Len(order)
    <3>1. Layer < Len(order) /\ StageAt(Layer) = StageAt(Layer + 1)
      <4>1. This = Following /\ Layer < Len(order)
        BY <1>0, <1>1, <2>1
      <4> QED
        BY <1>2, <2>1, <4>1
    <3>2. Letter(Layer + 1) = Letter(Layer) /\ Layer + 1 \notin Firsts /\ Layer + 1 \notin Joined
      BY <1>1, <2>1, <3>1, NextLetter
    <3> QED
      BY <1>1, <2>1, <3>1, <3>2
  <2>2. CASE ~(Layer + 1 < Len(order))
    BY <1>0, <1>1, <2>2 DEF LastLetter, Current
  <2> QED
    BY <2>1, <2>2
<1>4. RunInv'
  BY <1>0, <1>3, RunStep
<1>5. PlacedInv'
  <2>1. sub_graph' = StageAt(Current')
    BY <1>0, <1>1, <1>3
  <2>2. sub_graph' # Dump => core' = Class(sub_graph')
    BY <1>0, <1>2 DEF BuiltInv, PlacedInv, Class
  <2> QED
    BY <1>0, <2>1, <2>2, PlacedStep
<1>6. AccessorsInv'
  BY <1>0, <1>3, SameStage
<1>7. SendersInv'
  BY <1>0, <1>3, SameSenders
<1>8. ReceiversInv'
  BY <1>0, <1>1, <1>2, Fixed, FixedAt DEF BuiltInv, ReceiversInv
<1>9. FinalizedInv'
  <2>1. Final' = Final
    BY DEF Final
  <2> QED
    BY <1>0, <1>1, <1>2, <2>1, Fixed, FixedAt DEF BuiltInv, FinalizedInv, Class, parsed
<1>10. BuiltInv'
  BY <1>4, <1>5, <1>6, <1>7, <1>8, <1>9 DEF BuiltInv
<1>11. TypeOK'
  <2>1. /\ stage_in \in Seq(AccessorType) /\ stage_out \in Seq(AccessorType)
        /\ Transmitters \in Seq(0 .. Len(classes) - 1) /\ Receivers \in Seq(0 .. Len(classes) - 1)
        /\ image \in Label /\ labels \in Label /\ core \in {Unpinned} \cup 0 .. 2
        /\ lbl \in {"", "file"}
    BY DEF PlanInv, TypeOK, Label
  <2>2. stage_out' \in Seq(AccessorType) /\ labels' \in Label
    BY <2>1, <1>0, ResultsTyped
  <2> QED
    BY <1>0, <1>10, <2>1, <2>2, TypeKept
<1>12. pc # "parse" /\ pc' # "parse"
  BY <1>0, AddedFacts
<1> QED
  BY <1>0, <1>10, <1>11, <1>12, ParsedKept DEF PlanInv

LEMMA LastOfOrderStep == ASSUME PlanInv, LastOfOrder PROVE PlanInv'
<1>0. /\ AddLayer /\ LastLetter /\ WriteResults /\ UNCHANGED parsed
      /\ start_Layer' = Layer + 1
      /\ IF This = Dump THEN UNCHANGED <<finalized, Receivers>> ELSE Finalize(This)
      /\ UNCHANGED <<sub_graph, core, image, stage_in, Transmitters, mx>>
  BY DEF LastOfOrder, NextStart
<1>1. /\ order \in Orders /\ Len(order) \in 1 .. NumLayers /\ Layer \in Nat /\ NumLayers \in Nat
      /\ Layer + 1 = Len(order) /\ Layer < Len(order) /\ Current = Layer /\ Current' = Current
      /\ pc = "layers" /\ Layer' = Layer + 1 /\ order' = order
      /\ sub_graph = StageAt(Current) /\ (sub_graph = Dump <=> Letter(Layer) = "-")
  BY <1>0, AccessorFacts DEF LastLetter
<1>2. This = StageAt(Layer) /\ BuiltInv
  BY <1>1, BuiltFacts
<1>4. RunInv'
  BY <1>0, <1>1, RunStep
<1>5. PlacedInv'
  <2>1. sub_graph' # Dump => core' = Class(sub_graph')
    BY <1>0, <1>2 DEF BuiltInv, PlacedInv, Class
  <2>2. sub_graph' = StageAt(Current')
    BY <1>0, <1>1
  <2> QED
    BY <1>0, <2>1, <2>2, PlacedStep
<1>6. AccessorsInv' /\ SendersInv'
  BY <1>0, <1>1, SameStage, SameSenders
<1>7. FinalizedInv' /\ ReceiversInv'
  BY <1>0, <1>1, <1>2, ClosingStep
<1>10. BuiltInv'
  BY <1>4, <1>5, <1>6, <1>7 DEF BuiltInv
<1>11. TypeOK'
  <2>1. /\ stage_in \in Seq(AccessorType) /\ stage_out \in Seq(AccessorType)
        /\ Transmitters \in Seq(0 .. Len(classes) - 1)
        /\ image \in Label /\ labels \in Label /\ core \in {Unpinned} \cup 0 .. 2
    BY DEF PlanInv, TypeOK, Label
  <2>2. stage_out' \in Seq(AccessorType) /\ labels' \in Label
    BY <2>1, <1>0, ResultsTyped
  <2>3. Receivers' \in Seq(0 .. Len(classes) - 1)
    BY <1>0, <1>1, <1>2, ReceiversTyped
  <2> QED
    BY <1>0, <1>10, <2>1, <2>2, <2>3, TypeKept
<1>12. pc # "parse" /\ pc' # "parse"
  BY <1>0, AddedFacts
<1> QED
  BY <1>0, <1>10, <1>11, <1>12, ParsedKept DEF PlanInv

LEMMA StageToStageStep == ASSUME PlanInv, StageToStage PROVE PlanInv'
<1> DEFINE m == Layer + 1
<1>0. /\ AddLayer /\ ~LastLetter /\ This # Following /\ This # Dump /\ Following # Dump
      /\ UNCHANGED parsed /\ Finalize(This)
      /\ labels' = (IF Class(This) = GPU THEN "transfer" ELSE "transfer_wait")
      /\ image' = (IF Class(This) = GPU THEN "transfer_wait" ELSE "transfer")
      /\ Transmitters' = Append(Transmitters, This) /\ mx' = mx + 1
      /\ stage_out' = Append(stage_out, Sender(Len(Transmitters) + 1 - 1, labels' = "transfer"))
      /\ stage_in' = Append(stage_in, Receiver(Len(Transmitters') - 1, image' = "transfer"))
      /\ sub_graph' = Following /\ core' = Class(Following) /\ start_Layer' = m
  BY DEF StageToStage, Destination, ImageOfLinked, PinTo, NextStart
<1>1. /\ m < Len(order) /\ Layer < Len(order) /\ order \in Orders
      /\ Layer \in Nat /\ m \in Nat /\ Layer \in Places /\ m \in Places
      /\ Letter(m) # Letter(Layer) /\ Current = Layer /\ m # NumLayers
      /\ This = StageAt(Layer) /\ Following = StageAt(m)
      /\ Letter(Layer) # "-" /\ Letter(m) # "-"
      /\ Class(This) = GPU <=> Letter(Layer) = "G"
      /\ Class(Following) \in 0 .. 2
  BY <1>0, ChangingFacts
<1>2. /\ m \in Firsts /\ m \in Joined /\ pc = "layers" /\ Current' = m
      /\ LinkAt(m) \in 0 .. NumLayers - 1 /\ Len(Transmitters) = LinkAt(m)
      /\ StageAt(m) = StageAt(Layer) + 1 /\ order' = order
  <2>1. m \in Firsts /\ m \in Joined
    BY <1>1, NextLetter
  <2>2. pc = "layers" /\ Current' = m /\ order' = order /\ SendersInv /\ NumLayers \in Nat
        /\ Len(order) \in 1 .. NumLayers
    BY <1>0, <1>1, AccessorFacts
  <2>3. LinkAt(m) \in Nat /\ LinkAt(m) < m
    <3>1. m > 0
      BY <1>1
    <3> QED
      BY <1>1, <3>1, Counts
  <2>4. Len(Transmitters) = LinkAt(m)
    BY <1>1, <2>2 DEF SendersInv
  <2>5. StageAt(m) = Begun(m) /\ StageAt(Layer) = Begun(m) - 1 /\ Begun(m) \in Nat
    BY <1>1, <2>1, PlaceFacts, Counts
  <2> QED
    BY <1>1, <2>1, <2>2, <2>3, <2>4, <2>5
<1>3. /\ StageAt(m) \in 0 .. Len(classes) - 1 /\ StageAt(Layer) \in 0 .. Len(classes) - 1
      /\ StageAt(m) - 1 = StageAt(Layer)
  <2>1. StageAt(m) \in 0 .. Len(classes) - 1
    BY <1>2, StageExists
  <2>2. StageAt(Layer) \in Nat
    BY <1>1, PlaceFacts
  <2> QED
    BY <1>2, <2>1, <2>2
<1>4. SendersInv' /\ Len(Transmitters') = LinkAt(m) + 1
  BY <1>0, <1>1, <1>2, <1>3, NewSender
\* The sender and the receiver agree on the index, and one of them copies.
<1>5. /\ stage_out' = Append(stage_out, OutputBefore(m)) /\ OutputBefore(m) \in AccessorType
      /\ stage_in' = Append(stage_in, InputOf(m)) /\ InputOf(m) \in AccessorType
  <2>1. /\ labels' = "transfer" <=> Letter(Layer) = "G"
        /\ image' = "transfer" <=> Letter(Layer) # "G"
    BY <1>0, <1>1
  <2>2. Len(Transmitters) + 1 - 1 = LinkAt(m) /\ Len(Transmitters') - 1 = LinkAt(m) /\ m - 1 = Layer
    BY <1>1, <1>2, <1>4
  <2>3. OutputBefore(m) = Sender(LinkAt(m), Letter(Layer) = "G")
    BY <1>2, <2>2 DEF OutputBefore
  <2>4. InputOf(m) = Receiver(LinkAt(m), Letter(Layer) # "G")
    BY <1>2, <2>2 DEF InputOf
  <2>5. /\ (labels' = "transfer") = (Letter(Layer) = "G")
        /\ (image' = "transfer") = (Letter(Layer) # "G")
    BY <2>1
  <2> QED
    BY <1>0, <1>2, <2>2, <2>3, <2>4, <2>5, Accessors
<1>6. AccessorsInv'
  BY <1>0, <1>1, <1>2, <1>5, NewStage
<1>7. RunInv'
  <2>1. NoImage' <=> Letter(Layer) = "-" \/ Letter(m) = "-"
    <3>1. image' # ""
      BY <1>0
    <3> QED
      BY <1>1, <3>1 DEF NoImage
  <2> QED
    BY <1>0, <1>1, <2>1, RunStep
<1>8. PlacedInv'
  <2>1. core' = Class(sub_graph') /\ sub_graph' = StageAt(Current')
    BY <1>0, <1>1, <1>2
  <2> QED
    BY <1>0, <2>1, PlacedStep
<1>9. FinalizedInv' /\ ReceiversInv'
  BY <1>0, <1>1, <1>2, ClosingStep
<1>10. BuiltInv'
  BY <1>4, <1>6, <1>7, <1>8, <1>9 DEF BuiltInv
<1>11. TypeOK'
  <2>1. /\ stage_in \in Seq(AccessorType) /\ stage_out \in Seq(AccessorType)
        /\ Transmitters \in Seq(0 .. Len(classes) - 1)
    BY DEF PlanInv, TypeOK
  <2>2. /\ stage_in' \in Seq(AccessorType) /\ stage_out' \in Seq(AccessorType)
        /\ Transmitters' \in Seq(0 .. Len(classes) - 1)
    BY <1>0, <1>1, <1>3, <1>5, <2>1, Appended
  <2>3. Receivers' \in Seq(0 .. Len(classes) - 1)
    BY <1>0, <1>1, <1>2, ReceiversTyped
  <2>4. image' \in Label /\ labels' \in Label
    BY <1>0 DEF Label
  <2>5. core' \in {Unpinned} \cup 0 .. 2
    BY <1>0, <1>1
  <2> QED
    BY <1>0, <1>10, <2>2, <2>3, <2>4, <2>5, TypeKept
<1>12. pc # "parse" /\ pc' # "parse"
  BY <1>0, AddedFacts
<1> QED
  BY <1>0, <1>10, <1>11, <1>12, ParsedKept DEF PlanInv

LEMMA StageToDumpStep == ASSUME PlanInv, StageToDump PROVE PlanInv'
<1> DEFINE m == Layer + 1
<1>0. /\ AddLayer /\ ~LastLetter /\ This # Following /\ This # Dump /\ Following = Dump
      /\ UNCHANGED parsed /\ Finalize(This)
      /\ stage_out' = Append(stage_out, Dummy)
      /\ sub_graph' = Dump /\ start_Layer' = m
      /\ UNCHANGED <<core, stage_in, Transmitters, mx>>
  BY DEF StageToDump, NextStart
<1>place. NoImage' /\ image' \in Label /\ labels' \in Label
  BY DEF StageToDump, NoImage, Label
<1>1. /\ m < Len(order) /\ Layer < Len(order) /\ order \in Orders
      /\ Layer \in Nat /\ m \in Nat /\ Layer \in Places /\ m \in Places
      /\ Letter(m) # Letter(Layer) /\ Current = Layer
      /\ This = StageAt(Layer) /\ Following = StageAt(m)
      /\ Letter(Layer) # "-" /\ Letter(m) = "-"
  BY <1>0, ChangingFacts
<1>2. /\ m \notin Firsts /\ m \notin Joined /\ pc = "layers"
      /\ Current' = m /\ Current + 1 = m /\ order' = order
  BY <1>0, <1>1, NextLetter, AccessorFacts
<1>3. AccessorsInv'
  BY <1>0, <1>1, NewDump
<1>4. SendersInv'
  BY <1>0, <1>2, SameSenders
<1>5. RunInv'
  BY <1>0, <1>place, <1>1, RunStep
<1>6. PlacedInv'
  <2>1. sub_graph' = StageAt(Current')
    BY <1>0, <1>1, <1>2
  <2> QED
    BY <1>0, <2>1, PlacedStep
<1>7. FinalizedInv' /\ ReceiversInv'
  BY <1>0, <1>1, <1>2, ClosingStep
<1>8. BuiltInv'
  BY <1>3, <1>4, <1>5, <1>6, <1>7 DEF BuiltInv
<1>9. TypeOK'
  <2>1. /\ stage_in \in Seq(AccessorType) /\ stage_out \in Seq(AccessorType)
        /\ Transmitters \in Seq(0 .. Len(classes) - 1) /\ core \in {Unpinned} \cup 0 .. 2
    BY DEF PlanInv, TypeOK
  <2>2. stage_out' \in Seq(AccessorType)
    BY <1>0, <2>1, Accessors, Appended
  <2>3. Receivers' \in Seq(0 .. Len(classes) - 1)
    BY <1>0, <1>1, <1>2, ReceiversTyped
  <2> QED
    BY <1>0, <1>place, <1>8, <2>1, <2>2, <2>3, TypeKept
<1>10. pc # "parse" /\ pc' # "parse"
  BY <1>0, AddedFacts
<1> QED
  BY <1>0, <1>8, <1>9, <1>10, ParsedKept DEF PlanInv

LEMMA DumpToStageStep == ASSUME PlanInv, DumpToStage PROVE PlanInv'
<1> DEFINE m == Layer + 1
<1>0. /\ AddLayer /\ ~LastLetter /\ This # Following /\ This = Dump /\ Following # Dump
      /\ UNCHANGED parsed
      /\ stage_in' = Append(stage_in, Dummy)
      /\ sub_graph' = Following /\ core' = Class(Following) /\ start_Layer' = m
      /\ UNCHANGED <<stage_out, Transmitters, Receivers, mx, finalized>>
  BY DEF DumpToStage, NextStart, PinTo, links
<1>place. NoImage' /\ image' \in Label /\ labels' \in Label
  BY DEF DumpToStage, NoImage, Label
<1>1. /\ m < Len(order) /\ Layer < Len(order) /\ order \in Orders
      /\ Layer \in Nat /\ m \in Nat /\ Layer \in Places /\ m \in Places
      /\ Letter(m) # Letter(Layer) /\ Current = Layer
      /\ This = StageAt(Layer) /\ Following = StageAt(m)
      /\ Letter(Layer) = "-" /\ Letter(m) # "-" /\ Class(Following) \in 0 .. 2
  BY <1>0, ChangingFacts
<1>2. /\ m \in Firsts /\ m \notin Joined /\ pc = "layers"
      /\ Current' = m /\ Current + 1 = m /\ order' = order /\ m # 0
  BY <1>0, <1>1, NextLetter, AccessorFacts
<1>3. AccessorsInv'
  <2>1. InputOf(m) = Dummy /\ OutputBefore(m) = Dummy
    BY <1>2 DEF InputOf, OutputBefore
  <2>2. Dummy \in AccessorType
    BY Accessors
  <2> QED
    BY <1>0, <1>1, <1>2, <2>1, <2>2, NewStage
<1>4. SendersInv'
  BY <1>0, <1>2, SameSenders
<1>5. RunInv'
  BY <1>0, <1>place, <1>1, RunStep
<1>6. PlacedInv'
  <2>1. core' = Class(sub_graph') /\ sub_graph' = StageAt(Current')
    BY <1>0, <1>1, <1>2
  <2> QED
    BY <1>0, <2>1, PlacedStep
<1>7. FinalizedInv' /\ ReceiversInv'
  BY <1>0, <1>1, <1>2, ClosingStep
<1>8. BuiltInv'
  BY <1>3, <1>4, <1>5, <1>6, <1>7 DEF BuiltInv
<1>9. TypeOK'
  <2>1. /\ stage_in \in Seq(AccessorType) /\ stage_out \in Seq(AccessorType)
        /\ Transmitters \in Seq(0 .. Len(classes) - 1)
        /\ Receivers \in Seq(0 .. Len(classes) - 1)
    BY DEF PlanInv, TypeOK
  <2>2. stage_in' \in Seq(AccessorType)
    BY <1>0, <2>1, Accessors, Appended
  <2>3. core' \in {Unpinned} \cup 0 .. 2
    BY <1>0, <1>1
  <2> QED
    BY <1>0, <1>place, <1>8, <2>1, <2>2, <2>3, TypeKept
<1>10. pc # "parse" /\ pc' # "parse"
  BY <1>0, AddedFacts
<1> QED
  BY <1>0, <1>8, <1>9, <1>10, ParsedKept DEF PlanInv

LEMMA OpenFirstStep == ASSUME PlanInv, OpenFirst PROVE PlanInv'
<1>0. /\ TypeOK /\ ParsedInv /\ NotOpened /\ pc = "parse" /\ pc' = "layers"
      /\ Len(gr_layer) = Len(order) /\ core' = Class(GraphOf(0)) /\ sub_graph' = GraphOf(0)
      /\ stage_in' = <<Input>> /\ UNCHANGED parsed
      /\ UNCHANGED <<Layer, start_Layer, image, labels, stage_out, placed,
                     Transmitters, Receivers, mx, finalized>>
  BY DEF OpenFirst, PlanInv, i, links
<1>1. /\ order \in Orders /\ Len(order) \in 1 .. NumLayers /\ NumLayers \in Nat
      /\ order' = order /\ classes' = classes /\ lbl' = lbl
      /\ Len(classes) = Begun(Len(order))
  <2>1. order \in Orders
    BY <1>0 DEF TypeOK
  <2> QED
    BY <1>0, <2>1, OrderFacts DEF parsed, ParsedInv
<1>2. /\ Layer = 0 /\ start_Layer = 0 /\ Layer' = 0 /\ start_Layer' = 0
      /\ placed' = <<>> /\ stage_out' = <<>> /\ Transmitters' = <<>> /\ Receivers' = <<>>
      /\ mx' = 0 /\ finalized' = <<>> /\ image' = "file"
  BY <1>0 DEF NotOpened
<1>3. /\ 0 \in Firsts /\ 0 \notin Joined /\ 0 \in Places /\ Letter(0) # "-"
      /\ Begun(0) = 0 /\ Begun(1) = 1 /\ LinkAt(0) = 0 /\ LinkAt(1) = 0
      /\ StageAt(0) = 0 /\ Class(0) = Cluster[Letter(0)] /\ Letter(0) \in Letters
  <2>1. 0 \in Firsts /\ 0 \notin Joined /\ 0 \in Places /\ Letter(0) # "-" /\ Letter(0) \in Letters
    BY <1>1, OrderFacts, PlaceFacts
  <2>2. /\ Begun(0) = 0 /\ LinkAt(0) = 0 /\ Begun(0 + 1) = Begun(0) + 1
        /\ LinkAt(0 + 1) = LinkAt(0) + 0
    BY <1>1, <2>1, Counts
  <2>3. StageAt(0) = 0
    BY <1>1, <2>1, <2>2, PlaceFacts
  <2>4. Class(StageAt(0)) = Cluster[Letter(0)]
    BY <1>0, <1>1, <2>1 DEF ParsedInv
  <2> QED
    BY <2>1, <2>2, <2>3, <2>4
<1>4. GraphOf(0) = 0
  BY <1>0, <1>1, <1>3 DEF GraphOf, ParsedInv
<1>5. Current' = 0 /\ Layer' < Len(order')
  BY <1>1, <1>2 DEF Current
<1>6. \A k \in Firsts : k <= 0 => k = 0
  BY <1>1, PlaceFacts
<1>7. RunInv'
  <2>1. Len(order') \in Nat /\ pc' # "done" /\ Layer' < NumLayers
    BY <1>0, <1>1, <1>2
  <2>2. ~NoImage'
    BY <1>2 DEF NoImage
  <2>3. ~(0 > 0) /\ 0 <= 0 /\ 0 + 1 = 1 /\ \A k \in 0 .. 0 : k = 0
    OBVIOUS
  <2> QED
    BY <1>0, <1>1, <1>2, <1>5, <2>1, <2>2, <2>3, Fixed, FixedAt DEF RunInv
<1>8. PlacedInv'
  <2>1. \A k \in 0 .. 0 - 1 : FALSE
    OBVIOUS
  <2>2. Len(<<>>) = 0
    OBVIOUS
  <2> QED
    BY <1>0, <1>1, <1>2, <1>3, <1>4, <1>5, <2>1, <2>2, Fixed, FixedAt DEF PlacedInv, Class
<1>9. AccessorsInv'
  <2>1. Len(<<>>) = 0 /\ Len(<<Input>>) = 1 /\ <<Input>>[1] = Input /\ 0 + 1 = 1
    OBVIOUS
  <2>2. InputOf(0) = Input
    BY <1>3 DEF InputOf
  <2>3. sub_graph' # Dump
    BY <1>0, <1>4 DEF Dump
  <2>4. Len(stage_in') = Begun(Current' + 1) /\ Len(stage_out') = Len(stage_in') - 1
    BY <1>0, <1>2, <1>3, <1>5, <2>1
  <2>5. \A k \in Firsts : k <= Current' => stage_in'[StageAt(k) + 1] = InputOf(k)
    BY <1>0, <1>3, <1>5, <1>6, <2>1, <2>2
  <2>6. \A k \in Firsts : ~(k > 0 /\ k <= Current')
    BY <1>5, <1>6
  <2>7. pc' # "done" /\ Dump' = Dump
    BY <1>0 DEF Dump
  <2> QED
    BY <1>1, <2>3, <2>4, <2>5, <2>6, <2>7, Fixed, FixedAt DEF AccessorsInv
<1>10. SendersInv' /\ ReceiversInv'
  <2>1. Len(<<>>) = 0 /\ 0 + 1 = 1
    OBVIOUS
  <2>2. \A k \in Joined : ~(k <= 0)
    <3>1. \A k \in Joined : k \in Firsts /\ k # 0
      BY <1>1, <1>3, PlaceFacts
    <3> QED
      BY <1>6, <3>1
  <2>3. \A k \in Joined : ~(k < 0)
    BY <1>1, PlaceFacts
  <2> QED
    BY <1>1, <1>2, <1>3, <1>5, <2>1, <2>2, <2>3, Fixed, FixedAt DEF SendersInv, ReceiversInv
<1>11. FinalizedInv'
  <2>1. Len(<<>>) = 0 /\ <<>> \in Seq(Final) /\ \A n \in 1 .. 0 : FALSE
    OBVIOUS
  <2>2. Final' = Final
    BY DEF Final
  <2> QED
    BY <1>1, <1>2, <1>3, <2>1, <2>2, Fixed, FixedAt DEF FinalizedInv
<1>12. TypeOK'
  <2>1. /\ Begun(1) <= Len(classes) /\ Len(classes) \in Nat
    <3>1. Len(order) \in Nat /\ 1 <= Len(order) /\ 1 \in Nat
      BY <1>1
    <3> QED
      BY <1>1, <3>1, Counts
  <2>2. sub_graph' \in {Dump} \cup 0 .. Len(classes) - 1
    BY <1>0, <1>3, <1>4, <2>1
  <2>3. core' \in {Unpinned} \cup 0 .. 2
    BY <1>0, <1>3, <1>4 DEF Cluster, Letters
  <2>4. stage_in' \in Seq(AccessorType) /\ Len(stage_in') = 1 /\ Len(stage_out') = 0
    BY <1>0, <1>2, Accessors
  <2>5. pc' \in {"parse", "layers", "done"} /\ Len(stage_in') <= Len(classes)
    BY <1>0, <1>3, <2>1, <2>4
  <2>6. AccessorType' = AccessorType /\ Dump' = Dump /\ Unpinned' = Unpinned
    BY DEF AccessorType, Dump, Unpinned
  <2> QED
    BY <1>0, <1>1, <2>2, <2>3, <2>4, <2>5, <2>6 DEF TypeOK, parsed
<1>13. ParsedInv'
  <2>1. pc' # "parse" /\ Len(gr_layer') = Len(order')
    BY <1>0, <1>1 DEF parsed
  <2> QED
    BY <1>0, <1>1, <2>1, Fixed, FixedAt DEF ParsedInv, parsed, Class
<1> QED
  BY <1>0, <1>7, <1>8, <1>9, <1>10, <1>11, <1>12, <1>13 DEF PlanInv, BuiltInv

LEMMA PlanInvariant == Spec => []PlanInv
<1>1. PlanInv /\ [Next]_vars => PlanInv'
  <2> SUFFICES ASSUME PlanInv, [Next]_vars PROVE PlanInv'
    OBVIOUS
  <2>1. CASE UNCHANGED vars
    <3>1. /\ order' = order /\ lbl' = lbl /\ gr_layer' = gr_layer /\ classes' = classes /\ g' = g
          /\ pc' = pc /\ Layer' = Layer /\ start_Layer' = start_Layer /\ sub_graph' = sub_graph
          /\ core' = core /\ image' = image /\ labels' = labels /\ placed' = placed
          /\ stage_in' = stage_in /\ stage_out' = stage_out /\ Transmitters' = Transmitters
          /\ Receivers' = Receivers /\ mx' = mx /\ finalized' = finalized
      BY <2>1 DEF vars, parsed, accessors, links
    <3>2. /\ AccessorType' = AccessorType /\ Dump' = Dump /\ Unpinned' = Unpinned
          /\ Final' = Final /\ Dummy' = Dummy /\ (NoImage' <=> NoImage) /\ Current' = Current
          /\ LastOutput' = LastOutput
      BY <3>1 DEF AccessorType, Dump, Unpinned, Final, Dummy, NoImage, Current, LastOutput, Result
    <3>3. TypeOK = TypeOK'
      BY <3>1, <3>2 DEF TypeOK
    <3>4. ParsedInv => ParsedInv'
      BY <3>1, Fixed, FixedAt DEF ParsedInv, Class
    <3>5. NotOpened => NotOpened'
      BY <3>1 DEF NotOpened
    <3>6. RunInv => RunInv'
      BY <3>1, <3>2, Fixed, FixedAt DEF RunInv
    <3>7. PlacedInv => PlacedInv'
      BY <3>1, <3>2, Fixed, FixedAt DEF PlacedInv, Class
    <3>8. AccessorsInv => AccessorsInv'
      BY <3>1, <3>2, Fixed, FixedAt DEF AccessorsInv
    <3>9. (SendersInv => SendersInv') /\ (ReceiversInv => ReceiversInv')
      BY <3>1, <3>2, Fixed, FixedAt DEF SendersInv, ReceiversInv
    <3>10. FinalizedInv => FinalizedInv'
      BY <3>1, <3>2, Fixed, FixedAt DEF FinalizedInv, Class
    <3> QED
      BY <3>1, <3>3, <3>4, <3>5, <3>6, <3>7, <3>8, <3>9, <3>10 DEF PlanInv, BuiltInv
  <2> QED
    BY <2>1, ParseStep, OpenFirstStep, SameGraphStep, StageToStageStep, StageToDumpStep,
       DumpToStageStep, LastOfOrderStep DEF Next
<1> QED
  BY <1>1, PlanInit, PTL DEF Spec

-----------------------------------------------------------------------------
(* The theorems.                                                           *)

\* Whatever the order and the network, the planner's variables keep their
\* types: no stage is linked, given accessors or finalized before it exists.
THEOREM PlannerTypeCorrect == Spec => []TypeOK
<1>1. PlanInv => TypeOK
  BY DEF PlanInv
<1> QED
  BY <1>1, PlanInvariant, PTL

\* At the end every letter has had its layer.
LEMMA DoneFacts ==
  ASSUME PlanInv, pc = "done"
  PROVE  /\ order \in Orders /\ Len(order) \in Nat /\ BuiltInv /\ ParsedInv
         /\ Layer = NumLayers /\ Len(order) <= Layer /\ start_Layer = Len(order)
         /\ Current = Len(order) - 1 /\ Current + 1 = Len(order)
         /\ \A k \in Firsts : k \in Places /\ k \in Nat /\ k <= Current
         /\ \A k \in Joined : k \in Firsts /\ k <= Current /\ k < start_Layer
<1>1. TypeOK /\ ParsedInv /\ BuiltInv
  BY DEF PlanInv
<1>2. order \in Orders
  BY <1>1 DEF TypeOK
<1>3. Len(order) \in 1 .. NumLayers /\ NumLayers \in Nat
  BY <1>2, OrderFacts
<1>4. Layer = NumLayers
  BY <1>1 DEF BuiltInv, RunInv
<1>5. ~(Layer < Len(order)) /\ Len(order) <= Layer /\ Len(order) \in Nat
  BY <1>3, <1>4
<1>6. start_Layer = Len(order) /\ Current = Len(order) - 1
  BY <1>1, <1>5 DEF BuiltInv, RunInv, Current
<1>7. \A k \in Places : k \in Nat /\ k < Len(order)
  BY <1>2, PlaceFacts
<1>8. Firsts \subseteq Places /\ Joined \subseteq Firsts
  BY <1>2, PlaceFacts
<1>9. \A k \in Places : k <= Current
  BY <1>5, <1>6, <1>7
<1> QED
  BY <1>1, <1>2, <1>4, <1>5, <1>6, <1>7, <1>8, <1>9

\* Each layer is in the graph of its letter, on the letter's cluster.
THEOREM LayersInTheirPlace == Spec => []LayersInPlace
<1>1. PlanInv => LayersInPlace
  <2> SUFFICES ASSUME PlanInv, NEW k \in 0 .. Layer - 1, k < Len(order)
               PROVE  /\ placed[k + 1] = StageAt(k)
                      /\ Letter(k) # "-" => Class(StageAt(k)) = Cluster[Letter(k)]
    BY DEF LayersInPlace
  <2>1. TypeOK /\ ParsedInv /\ (pc = "parse" => NotOpened) /\ (pc # "parse" => BuiltInv)
    BY DEF PlanInv
  <2>2. Layer \in 0 .. NumLayers /\ order \in Orders /\ NumLayers \in Nat
    BY <2>1, PlannerAssumption DEF TypeOK, PlannerAssumption
  <2>3. pc # "parse"
    <3>1. Layer # 0
      BY <2>2
    <3> QED
      BY <2>1, <3>1 DEF NotOpened
  <2>4. placed[k + 1] = StageAt(k)
    BY <2>1, <2>3 DEF BuiltInv, PlacedInv
  <2>5. k \in 0 .. Len(gr_layer) - 1
    <3>1. Len(gr_layer) = Len(order) /\ Len(order) \in Nat
      BY <2>1, <2>2, <2>3, OrderFacts DEF ParsedInv
    <3> QED
      BY <2>2, <3>1
  <2> QED
    BY <2>1, <2>4, <2>5 DEF ParsedInv
<1> QED
  BY <1>1, PlanInvariant, PTL

\* What the accessors, senders and receivers of a finished plan are.
LEMMA PlannedAccessors ==
  ASSUME PlanInv, pc = "done"
  PROVE  /\ \A k \in Firsts : /\ StageAt(k) = Begun(k) /\ Begun(k) \in Nat
                              /\ stage_in[StageAt(k) + 1] = InputOf(k)
                              /\ StageAt(k) > 0 => stage_out[StageAt(k)] = OutputBefore(k)
         /\ \A k \in Joined : /\ k \in Firsts /\ StageAt(k) > 0
                              /\ Transmitters[LinkAt(k) + 1] = StageAt(k) - 1
                              /\ Receivers[LinkAt(k) + 1] = StageAt(k)
         /\ Len(Transmitters) = Cardinality(Joined) /\ Len(Receivers) = Cardinality(Joined)
         /\ mx = Cardinality(Joined)
<1>1. /\ order \in Orders /\ Len(order) \in Nat /\ start_Layer = Len(order)
      /\ Current + 1 = Len(order)
      /\ \A k \in Firsts : k \in Places /\ k \in Nat /\ k <= Current
      /\ \A k \in Joined : k \in Firsts /\ k <= Current /\ k < start_Layer
  BY DoneFacts
<1>2. AccessorsInv /\ SendersInv /\ ReceiversInv
  BY DoneFacts DEF BuiltInv
<1>3. ASSUME NEW k \in Firsts
      PROVE  /\ StageAt(k) = Begun(k) /\ Begun(k) \in Nat
             /\ stage_in[StageAt(k) + 1] = InputOf(k)
             /\ StageAt(k) > 0 => stage_out[StageAt(k)] = OutputBefore(k)
  <2>1. StageAt(k) = Begun(k) /\ Begun(k) \in Nat
    BY <1>1, PlaceFacts, Counts
  <2>2. stage_in[StageAt(k) + 1] = InputOf(k)
    BY <1>1, <1>2 DEF AccessorsInv
  <2>3. StageAt(k) > 0 => k > 0
    <3>1. k = 0 => Begun(k) = 0
      BY <1>1, Counts
    <3> QED
      BY <1>1, <2>1, <3>1
  <2>4. k > 0 => stage_out[StageAt(k)] = OutputBefore(k)
    BY <1>1, <1>2 DEF AccessorsInv
  <2> QED
    BY <2>1, <2>2, <2>3, <2>4
<1>4. ASSUME NEW k \in Joined
      PROVE  /\ k \in Firsts /\ StageAt(k) > 0
             /\ Transmitters[LinkAt(k) + 1] = StageAt(k) - 1
             /\ Receivers[LinkAt(k) + 1] = StageAt(k)
  <2>1. k \in Firsts /\ k \in Nat /\ k > 0
    BY <1>1, PlaceFacts
  <2>2. StageAt(k) > 0
    BY <1>1, <2>1, Indices
  <2> QED
    BY <1>1, <1>2, <2>1, <2>2 DEF SendersInv, ReceiversInv
<1>5. LinkAt(Len(order)) = Cardinality(Joined)
  BY <1>1, Counts
<1>6. Len(Transmitters) = LinkAt(Len(order)) /\ mx = Len(Transmitters)
  BY <1>1, <1>2 DEF SendersInv
<1>7. Len(Receivers) = LinkAt(Len(order))
  BY <1>1, <1>2 DEF ReceiversInv
<1> QED
  BY <1>3, <1>4, <1>5, <1>6, <1>7

\* Stages side by side are joined by one sender and one receiver that agree on
\* the index of their link; around a '-' there is neither.
THEOREM StagesJoined == Spec => []LinksJoin
<1>1. ASSUME PlanInv, pc = "done", NEW k \in Joined
      PROVE  /\ stage_out[StageAt(k)].kind = "sender" /\ stage_out[StageAt(k)].link = LinkAt(k)
             /\ stage_in[StageAt(k) + 1].kind = "receiver"
             /\ stage_in[StageAt(k) + 1].link = LinkAt(k)
             /\ Transmitters[LinkAt(k) + 1] = StageAt(k) - 1
             /\ Receivers[LinkAt(k) + 1] = StageAt(k)
  <2>1. /\ stage_in[StageAt(k) + 1] = InputOf(k) /\ stage_out[StageAt(k)] = OutputBefore(k)
        /\ Transmitters[LinkAt(k) + 1] = StageAt(k) - 1 /\ Receivers[LinkAt(k) + 1] = StageAt(k)
    BY <1>1, PlannedAccessors
  <2>2. /\ InputOf(k).kind = "receiver" /\ InputOf(k).link = LinkAt(k)
        /\ OutputBefore(k).kind = "sender" /\ OutputBefore(k).link = LinkAt(k)
    BY <1>1 DEF InputOf, OutputBefore, Receiver, Sender
  <2> QED
    BY <2>1, <2>2
<1>2. ASSUME PlanInv, pc = "done", NEW k \in Firsts \ Joined
      PROVE  /\ stage_in[StageAt(k) + 1].kind # "receiver"
             /\ StageAt(k) > 0 => stage_out[StageAt(k)].kind # "sender"
  <2>1. /\ stage_in[StageAt(k) + 1] = InputOf(k)
        /\ StageAt(k) > 0 => stage_out[StageAt(k)] = OutputBefore(k)
    BY <1>2, PlannedAccessors
  <2>2. InputOf(k).kind # "receiver" /\ OutputBefore(k).kind # "sender"
    BY <1>2 DEF InputOf, OutputBefore, Input, Dummy
  <2> QED
    BY <2>1, <2>2
<1>3. ASSUME PlanInv, pc = "done", NEW v \in {Len(Transmitters), Len(Receivers), mx}
      PROVE  v = Cardinality(Joined)
  BY <1>3, PlannedAccessors
<1>4. PlanInv => LinksJoin
  BY <1>1, <1>2, <1>3 DEF LinksJoin
<1> QED
  BY <1>4, PlanInvariant, PTL

\* One end of every link, and only one, makes the copy: the GPU's sender, or
\* else the receiver.
THEOREM OneCopyPerLink == Spec => []OneSideCopies
<1>1. ASSUME PlanInv, pc = "done", NEW k \in Joined
      PROVE  /\ stage_out[StageAt(k)].copies # stage_in[StageAt(k) + 1].copies
             /\ stage_out[StageAt(k)].copies <=> Letter(k - 1) = "G"
  <2>1. stage_in[StageAt(k) + 1] = InputOf(k) /\ stage_out[StageAt(k)] = OutputBefore(k)
    BY <1>1, PlannedAccessors
  <2>2. /\ InputOf(k).copies = (Letter(k - 1) # "G")
        /\ OutputBefore(k).copies = (Letter(k - 1) = "G")
    BY <1>1 DEF InputOf, OutputBefore, Receiver, Sender
  <2> QED
    BY <2>1, <2>2
<1>2. PlanInv => OneSideCopies
  BY <1>1 DEF OneSideCopies
<1> QED
  BY <1>2, PlanInvariant, PTL

\* Each stage is finalized for the cluster it runs on, with the layers it has.
THEOREM StagesFinalized == Spec => []FinalizedOnItsCluster
<1>1. ASSUME PlanInv, pc = "done", Len(order) = NumLayers
      PROVE  /\ Len(finalized) = Cardinality(Firsts)
             /\ \A n \in 1 .. Len(finalized) :
                  LET f == finalized[n] IN
                  /\ f.stage = n - 1
                  /\ f.cluster = Class(n - 1) /\ f.core = f.cluster
                  /\ f.first .. f.last = {k \in Places : placed[k + 1] = f.stage}
  <2>1. /\ order \in Orders /\ Len(order) \in Nat /\ start_Layer = Len(order)
        /\ Layer = Len(order) /\ FinalizedInv /\ PlacedInv
    BY <1>1, DoneFacts DEF BuiltInv
  <2>2. Len(finalized) = Cardinality(Firsts)
    BY <2>1, Counts DEF FinalizedInv
  <2>3. \A k \in Places : placed[k + 1] = StageAt(k)
    BY <2>1 DEF PlacedInv, Places
  <2>4. Places = 0 .. start_Layer - 1
    BY <2>1 DEF Places
  <2>5. ASSUME NEW n \in 1 .. Len(finalized)
        PROVE  /\ finalized[n].stage = n - 1
               /\ finalized[n].cluster = Class(n - 1) /\ finalized[n].core = finalized[n].cluster
               /\ finalized[n].first .. finalized[n].last
                    = {k \in Places : placed[k + 1] = finalized[n].stage}
    <3>1. /\ finalized[n].stage = n - 1
          /\ finalized[n].cluster = Class(n - 1) /\ finalized[n].core = finalized[n].cluster
          /\ finalized[n].first .. finalized[n].last = {k \in Places : StageAt(k) = n - 1}
      BY <2>1, <2>4 DEF FinalizedInv
    <3>2. {k \in Places : StageAt(k) = n - 1} = {k \in Places : placed[k + 1] = n - 1}
      BY <2>3
    <3> QED
      BY <3>1, <3>2
  <2> QED
    BY <2>2, <2>5
<1>2. PlanInv => FinalizedOnItsCluster
  BY <1>1 DEF FinalizedOnItsCluster
<1> QED
  BY <1>2, PlanInvariant, PTL

\* Whatever the labels were used for on the way, the last layer writes what the
\* user's labels ask for.
THEOREM ResultsWritten == Spec => []ResultsGoOut
<1>1. ASSUME PlanInv, pc = "done", Len(order) = NumLayers, Letter(NumLayers - 1) # "-"
      PROVE  stage_out[Len(stage_out)] = IF lbl = "" THEN Dummy ELSE Result
  <2>1. /\ AccessorsInv /\ sub_graph = StageAt(Current) /\ Current = NumLayers - 1
        /\ order \in Orders /\ Current \in Nat /\ Current < Len(order)
    <3>1. /\ BuiltInv /\ order \in Orders /\ Current = Len(order) - 1
      BY <1>1, DoneFacts
    <3>2. Len(order) \in 1 .. NumLayers /\ NumLayers \in Nat
      BY <3>1, OrderFacts
    <3> QED
      BY <1>1, <3>1, <3>2 DEF BuiltInv, PlacedInv
  <2>2. sub_graph # Dump
    BY <1>1, <2>1, PlaceFacts DEF Dump
  <2> QED
    BY <1>1, <2>1, <2>2 DEF AccessorsInv, LastOutput
<1>2. PlanInv => ResultsGoOut
  BY <1>1 DEF ResultsGoOut
<1> QED
  BY <1>2, PlanInvariant, PTL
=============================================================================
