-------------------------- MODULE GraphManager_proofs --------------------------
(***************************************************************************)
(* What holds of every graph that the builder and the passes make, of any  *)
(* size: the node at each end of an edge knows of it (EndsOfEdgesAgree),   *)
(* and the order in which its nodes run has each of them once and after    *)
(* those that it reads (LayersOrdered).  The invariant is Sound: what a    *)
(* pass relies on of the graph it is given, and leaves to the pass after   *)
(* it.  A pass is a fold over nodes or edges, so the first part shows that *)
(* a fold whose steps stay in a set does so, and that it is the last of a  *)
(* sequence of such steps.  The last part does the same for dfs, whose     *)
(* invariant is Searched.                                                  *)
(***************************************************************************)
EXTENDS GraphManager, FiniteSetTheorems, SequenceTheorems, TLAPS

-----------------------------------------------------------------------------
(* Numbers, and folds over sequences.                                      *)

LEMMA SmallestNat ==
  ASSUME NEW T, T \subseteq Nat, T # {} PROVE \E x \in T : \A y \in T : x <= y
<1> DEFINE R == {ss \in Nat \X Nat : ss[1] < ss[2]}
<1>1. R = OpToRel(<, Nat)
  BY DEF OpToRel
<1>2. IsWellFoundedOn(R, Nat)
  BY <1>1, NatLessThanWellFounded
<1>3. PICK x \in T : \A y \in T : ~(<<y, x>> \in R)
  BY <1>2, WFMin
<1>4. ASSUME NEW y \in T PROVE x <= y
  <2>1. x \in Nat /\ y \in Nat /\ ~(<<y, x>> \in R)
    BY <1>3
  <2>2. <<y, x>> \in R <=> y < x
    BY <2>1
  <2> QED
    BY <2>1, <2>2
<1> QED
  BY <1>4

LEMMA UpTo ==
  ASSUME NEW n \in Nat, NEW T, 0 \in T, \A m \in 0 .. n - 1 : m \in T => m + 1 \in T
  PROVE  0 .. n \subseteq T
<1> SUFFICES ASSUME (0 .. n) \ T # {} PROVE FALSE
  OBVIOUS
<1> DEFINE Rest == (0 .. n) \ T
<1>0. Rest \subseteq Nat /\ Rest # {}
  OBVIOUS
<1>1. PICK x \in Rest : \A y \in Rest : x <= y
  <2> HIDE DEF Rest
  <2> QED
    BY <1>0, SmallestNat
<1>2. x # 0 /\ x - 1 \in 0 .. n - 1 /\ x - 1 \notin Rest
  <2>1. x \in 0 .. n /\ x \notin T
    OBVIOUS
  <2>2. x # 0 /\ x - 1 \in 0 .. n - 1 /\ ~ x <= x - 1
    BY <2>1
  <2> QED
    BY <1>1, <2>2
<1>3. x - 1 \in T /\ (x - 1) + 1 = x
  BY <1>2
<1> QED
  BY <1>1, <1>2, <1>3

\* A set of numbers with a bound has a greatest.
LEMMA Greatest ==
  ASSUME NEW S, S \subseteq Nat, S # {}, NEW n \in Nat, \A x \in S : x <= n
  PROVE  Max(S) \in S /\ \A x \in S : x <= Max(S)
<1> DEFINE T == {n - x : x \in S}
<1>1. T \subseteq Nat /\ T # {}
  <2>1. \A x \in S : x \in Nat /\ x <= n /\ n - x \in Nat
    OBVIOUS
  <2> QED
    BY <2>1
<1>2. PICK m \in T : \A y \in T : m <= y
  BY <1>1, SmallestNat
<1>3. PICK y \in S : m = n - y
  BY <1>2
<1>4. ASSUME NEW x \in S PROVE y >= x
  <2>1. m <= n - x
    BY <1>2
  <2> QED
    <3>1. x \in Nat /\ y \in Nat
      OBVIOUS
    <3> QED
      BY <1>3, <2>1, <3>1
<1>5. \E x \in S : \A z \in S : x >= z
  BY <1>4
<1>6. Max(S) \in S /\ \A z \in S : Max(S) >= z
  BY <1>5 DEF Max
<1> QED
  BY <1>6

LEMMA MaxOfInterval ==
  ASSUME NEW n \in Nat \ {0}
  PROVE  1 .. n # {} /\ Max(1 .. n) = n /\ (1 .. n) \ {Max(1 .. n)} = 1 .. n - 1
<1>1. n \in 1 .. n /\ \A x \in 1 .. n : n >= x
  OBVIOUS
<1>2. Max(1 .. n) = n
  BY <1>1 DEF Max
<1> QED
  BY <1>1, <1>2

FoldIn(V, n, base, step) ==
  \E f \in [SUBSET (1 .. n) -> V] : \A s \in SUBSET (1 .. n) :
    f[s] = IF s = {} THEN base ELSE step[Max(s)][f[s \ {Max(s)}]]

\* A fold whose elements all stay in V exists, on all sets of indices.
LEMMA ClosedFold ==
  ASSUME NEW n \in Nat, NEW V, NEW base \in V, NEW step \in [1 .. n -> [V -> V]]
  PROVE  FoldIn(V, n, base, step)
<1> DEFINE Solves(f, m) == \A s \in SUBSET (1 .. m) :
                             f[s] = IF s = {} THEN base ELSE step[Max(s)][f[s \ {Max(s)}]]
           Solved(m) == \E f \in [SUBSET (1 .. m) -> V] : Solves(f, m)
           T == {m \in Nat : m <= n => Solved(m)}
<1>1. Solved(0)
  <2> DEFINE f == [s \in SUBSET (1 .. 0) |-> base]
  <2>1. \A s \in SUBSET (1 .. 0) : s = {}
    OBVIOUS
  <2>2. f \in [SUBSET (1 .. 0) -> V] /\ Solves(f, 0)
    BY <2>1
  <2> QED
    BY <2>2
<1>2. ASSUME NEW m \in 0 .. n - 1, Solved(m) PROVE Solved(m + 1)
  <2>1. PICK f \in [SUBSET (1 .. m) -> V] : Solves(f, m)
    BY <1>2
  <2> DEFINE more == [s \in SUBSET (1 .. m + 1) |->
                     IF m + 1 \in s THEN step[m + 1][f[s \ {m + 1}]] ELSE f[s]]
  <2>2. \A s \in SUBSET (1 .. m + 1) : s \ {m + 1} \in SUBSET (1 .. m)
    OBVIOUS
  <2>3. \A s \in SUBSET (1 .. m + 1) : m + 1 \notin s => s \in SUBSET (1 .. m)
    OBVIOUS
  <2>4. m + 1 \in 1 .. n
    OBVIOUS
  <2>5. more \in [SUBSET (1 .. m + 1) -> V]
    BY <2>2, <2>3, <2>4
  <2>6. ASSUME NEW s \in SUBSET (1 .. m + 1)
        PROVE  more[s] = IF s = {} THEN base ELSE step[Max(s)][more[s \ {Max(s)}]]
    <3>1. CASE m + 1 \in s
      <4>1. Max(s) = m + 1
        <5>1. m + 1 \in s /\ \A y \in s : m + 1 >= y
          BY <3>1
        <5>2. \A x \in s : (\A y \in s : x >= y) => x = m + 1
          BY <3>1
        <5> QED
          BY <5>1, <5>2 DEF Max
      <4>2. more[s] = step[m + 1][f[s \ {m + 1}]]
        BY <3>1
      <4>3. more[s \ {m + 1}] = f[s \ {m + 1}]
        BY <2>2
      <4> QED
        BY <3>1, <4>1, <4>2, <4>3
    <3>2. CASE m + 1 \notin s
      <4>1. s \in SUBSET (1 .. m) /\ s \ {Max(s)} \in SUBSET (1 .. m)
        BY <2>3, <3>2
      <4>2. more[s] = f[s] /\ more[s \ {Max(s)}] = f[s \ {Max(s)}]
        BY <3>2, <4>1
      <4> QED
        BY <2>1, <4>1, <4>2
    <3> QED
      BY <3>1, <3>2
  <2> HIDE DEF more
  <2> WITNESS more \in [SUBSET (1 .. m + 1) -> V]
  <2> QED
    BY <2>6
<1>3. Solved(n)
  <2> HIDE DEF Solved
  <2>1. 0 \in T /\ \A m \in 0 .. n - 1 : m \in T => m + 1 \in T
    BY <1>1, <1>2
  <2>2. n \in T => Solved(n)
    OBVIOUS
  <2> HIDE DEF T
  <2>3. 0 .. n \subseteq T
    BY <2>1, UpTo
  <2> QED
    BY <2>2, <2>3
<1> QED
  BY <1>3 DEF FoldIn

\* What holds at the start and from each index to the next holds at the end.
LEMMA FoldKeeps ==
  ASSUME NEW n \in Nat, NEW V, NEW iter, iter[{}] \in V[0],
         \A k \in 1 .. n : iter[(1 .. k) \ {k}] \in V[k - 1] => iter[1 .. k] \in V[k]
  PROVE  iter[1 .. n] \in V[n]
<1> DEFINE T == {k \in Nat : k <= n => iter[1 .. k] \in V[k]}
<1>1. 0 \in T
  <2>1. 1 .. 0 = {}
    OBVIOUS
  <2> QED
    BY <2>1
<1>2. ASSUME NEW k \in 0 .. n - 1, k \in T PROVE k + 1 \in T
  <2>1. k + 1 \in 1 .. n /\ (k + 1) - 1 = k /\ (1 .. k + 1) \ {k + 1} = 1 .. k /\ k <= n
    OBVIOUS
  <2>2. iter[1 .. k] \in V[k]
    BY <1>2, <2>1
  <2>3. iter[1 .. k + 1] \in V[k + 1]
    BY <2>1, <2>2
  <2> QED
    BY <2>3
<1>3. \A k \in 0 .. n - 1 : k \in T => k + 1 \in T
  BY <1>2
<1>4. n \in T => iter[1 .. n] \in V[n]
  OBVIOUS
<1> HIDE DEF T
<1>5. 0 .. n \subseteq T
  BY <1>1, <1>3, UpTo
<1> QED
  BY <1>4, <1>5

\* A set of numbers in order: each of them once.
LEMMA InOrderFacts ==
  ASSUME NEW S, S \subseteq Nat, IsFiniteSet(S)
  PROVE  /\ Cardinality(S) \in Nat
         /\ InOrder(S) \in [1 .. Cardinality(S) -> S]
         /\ IsInjective(InOrder(S))
         /\ \A x \in S : \E i \in 1 .. Cardinality(S) : InOrder(S)[i] = x
<1> DEFINE n == Cardinality(S)
           below(x) == {y \in S : y < x}
           rank == [x \in S |-> Cardinality(below(x))]
<1>1. n \in Nat
  BY FS_CardinalityType
<1>2. ASSUME NEW x \in S PROVE Cardinality(below(x)) \in 0 .. n - 1
  <2>1. below(x) \in SUBSET S /\ below(x) # S
    OBVIOUS
  <2>2. IsFiniteSet(below(x)) /\ Cardinality(below(x)) <= n /\ n # Cardinality(below(x))
    BY <2>1, FS_Subset
  <2>3. Cardinality(below(x)) \in Nat
    BY <2>2, FS_CardinalityType
  <2> QED
    BY <1>1, <2>2, <2>3
<1>3. ASSUME NEW x \in S, NEW y \in S, x < y PROVE Cardinality(below(x)) # Cardinality(below(y))
  <2>1. below(x) \in SUBSET below(y) /\ x \in below(y) /\ x \notin below(x)
    <3>1. x \in Nat /\ y \in Nat /\ \A z \in S : z \in Nat
      OBVIOUS
    <3>2. \A z \in S : z < x => z < y
      BY <1>3, <3>1
    <3>3. ~ x < x
      BY <3>1
    <3> QED
      BY <1>3, <3>2, <3>3, Zenon
  <2>2. IsFiniteSet(below(y))
    BY FS_Subset
  <2> QED
    BY <2>1, <2>2, FS_Subset
<1>4. \A x, y \in S : rank[x] = rank[y] => x = y
  <2> SUFFICES ASSUME NEW x \in S, NEW y \in S, x # y PROVE rank[x] # rank[y]
    OBVIOUS
  <2>1. x < y \/ y < x
    OBVIOUS
  <2> HIDE DEF below
  <2> QED
    BY <1>3, <2>1
<1>5. rank \in Injection(S, 0 .. n - 1)
  <2>1. rank \in [S -> 0 .. n - 1]
    BY <1>2
  <2>2. IsInjective(rank)
    BY <1>4 DEF IsInjective
  <2> HIDE DEF rank
  <2> QED
    BY <2>1, <2>2 DEF Injection
<1>6. IsFiniteSet(0 .. n - 1) /\ Cardinality(0 .. n - 1) = n
  <2> HIDE DEF n
  <2>1. n - 1 \in Int /\ 0 \in Int /\ (0 > n - 1 => n = 0) /\ (n - 1) - 0 + 1 = n
    BY <1>1
  <2> QED
    BY <2>1, FS_Interval
<1>7. rank \in Surjection(S, 0 .. n - 1)
  <2> HIDE DEF rank, n
  <2> QED
    BY <1>5, <1>6, FS_Injection DEF n
<1>8. \A i \in 0 .. n - 1 : \E x \in S : rank[x] = i
  <2> HIDE DEF rank
  <2> QED
    BY <1>7 DEF Surjection
<1> HIDE DEF n
<1>9. InOrder(S) = [i \in 1 .. n |-> CHOOSE x \in S : rank[x] = i - 1]
  <2>1. \A i \in 1 .. n : (CHOOSE x \in S : rank[x] = i - 1)
                            = CHOOSE x \in S : Cardinality({y \in S : y < x}) = i - 1
    OBVIOUS
  <2> HIDE DEF rank
  <2> QED
    BY <2>1 DEF InOrder, n
<1>10. \A x \in S : rank[x] \in 0 .. n - 1
  BY <1>2 DEF n
<1> HIDE DEF rank
<1>11. \A i \in 1 .. n : InOrder(S)[i] \in S /\ rank[InOrder(S)[i]] = i - 1
  <2> TAKE i \in 1 .. n
  <2>1. i - 1 \in 0 .. n - 1
    BY <1>1 DEF n
  <2>2. \E x \in S : rank[x] = i - 1
    BY <1>8, <2>1
  <2> QED
    BY <1>9, <2>2
<1>12. ASSUME NEW x \in S PROVE \E i \in 1 .. n : InOrder(S)[i] = x
  <2>1. rank[x] + 1 \in 1 .. n /\ (rank[x] + 1) - 1 = rank[x]
    BY <1>1, <1>10 DEF n
  <2>2. InOrder(S)[rank[x] + 1] = x
    BY <1>4, <1>11, <2>1
  <2> QED
    BY <2>1, <2>2
<1>13. InOrder(S) \in [1 .. n -> S] /\ IsInjective(InOrder(S))
  <2>1. InOrder(S) \in [1 .. n -> S]
    BY <1>9, <1>11
  <2>2. \A i, j \in 1 .. n : InOrder(S)[i] = InOrder(S)[j] => i = j
    BY <1>1, <1>11 DEF n
  <2> QED
    BY <2>1, <2>2 DEF IsInjective
<1> QED
  BY <1>1, <1>12, <1>13 DEF n

-----------------------------------------------------------------------------
(* Graphs and their fields.                                                *)

Attribute == [computes : Seq(Nat), act : Nat, fusible : BOOLEAN, deep : BOOLEAN,
              enabled : BOOLEAN]
Types == {"Input", "Const", "ConvolutionLayer", "BatchNormalizationLayer", "ActivationLayer",
          "EltwiseLayer", "ConcatenateLayer", "Output",
          "FusedConvolutionBatchNormalizationLayer"}
Node == [type : Types, in : Seq(Nat), out : Nat, out_edges : SUBSET Nat,
         attributes : Attribute]
Edge == [producer : Nat, consumer : Nat, idx : Nat, tensor : Nat]
Tensor == [bound : SUBSET Nat, handle : Nat, accessor : BOOLEAN]
Handle == [parent : Nat, part : Nat]
Graphs == [nodes : Seq(Node \cup {NoNode}), edges : Seq(Edge), tensors : Seq(Tensor),
           handles : Seq(Handle)]

LEMMA NodeNotNull == ASSUME NEW x \in Node PROVE x # NoNode
<1>1. "in" \in DOMAIN x
  BY DEF Node
<1>2. "in" \notin DOMAIN NoNode
  BY DEF NoNode
<1> QED
  BY <1>1, <1>2

LEMMA SeqFacts ==
  ASSUME NEW S, NEW s \in Seq(S)
  PROVE  Len(s) \in Nat /\ DOMAIN s = 1 .. Len(s) /\ \A i \in DOMAIN s : s[i] \in S
  BY LenProperties

LEMMA GraphFacts ==
  ASSUME NEW u \in Graphs
  PROVE  /\ u.nodes \in Seq(Node \cup {NoNode}) /\ u.edges \in Seq(Edge)
         /\ u.tensors \in Seq(Tensor) /\ u.handles \in Seq(Handle)
         /\ Len(u.nodes) \in Nat /\ DOMAIN u.nodes = 1 .. Len(u.nodes)
         /\ Len(u.edges) \in Nat /\ DOMAIN u.edges = 1 .. Len(u.edges)
         /\ Len(u.tensors) \in Nat /\ DOMAIN u.tensors = 1 .. Len(u.tensors)
         /\ Len(u.handles) \in Nat
         /\ \A n \in NodeIds(u) : n \in DOMAIN u.nodes /\ n \in Nat \ {0} /\ u.nodes[n] \in Node
         /\ \A e \in EdgeIds(u) : e \in DOMAIN u.edges /\ e \in Nat \ {0} /\ u.edges[e] \in Edge
<1>1. /\ u.nodes \in Seq(Node \cup {NoNode}) /\ u.edges \in Seq(Edge)
      /\ u.tensors \in Seq(Tensor) /\ u.handles \in Seq(Handle)
  BY DEF Graphs
<1>2. /\ Len(u.nodes) \in Nat /\ DOMAIN u.nodes = 1 .. Len(u.nodes)
      /\ \A n \in DOMAIN u.nodes : u.nodes[n] \in Node \cup {NoNode}
  BY <1>1, SeqFacts
<1>3. /\ Len(u.edges) \in Nat /\ DOMAIN u.edges = 1 .. Len(u.edges)
      /\ \A e \in DOMAIN u.edges : u.edges[e] \in Edge
  BY <1>1, SeqFacts
<1>4. Len(u.tensors) \in Nat /\ DOMAIN u.tensors = 1 .. Len(u.tensors) /\ Len(u.handles) \in Nat
  BY <1>1, SeqFacts
<1>5. \A n \in NodeIds(u) : n \in DOMAIN u.nodes /\ n \in Nat \ {0} /\ u.nodes[n] \in Node
  BY <1>2 DEF NodeIds
<1>6. \A e \in EdgeIds(u) : e \in DOMAIN u.edges /\ e \in Nat \ {0} /\ u.edges[e] \in Edge
  BY <1>3 DEF EdgeIds
<1> QED
  BY <1>1, <1>2, <1>3, <1>4, <1>5, <1>6

LEMMA IdsArePositive ==
  ASSUME NEW u \in Graphs
  PROVE  (\A n \in NodeIds(u) : n # 0) /\ (\A e \in EdgeIds(u) : e # 0)
  BY GraphFacts

LEMMA IdsAreBounded ==
  ASSUME NEW u \in Graphs
  PROVE  /\ NodeIds(u) \subseteq 1 .. Len(u.nodes) /\ Len(u.nodes) \in Nat
         /\ EdgeIds(u) \subseteq 1 .. Len(u.edges) /\ Len(u.edges) \in Nat
<1>1. NodeIds(u) \subseteq DOMAIN u.nodes /\ EdgeIds(u) \subseteq DOMAIN u.edges
  BY DEF NodeIds, EdgeIds
<1> QED
  BY <1>1, GraphFacts

LEMMA NodeFacts ==
  ASSUME NEW x \in Node
  PROVE  /\ x.type \in Types /\ x.in \in Seq(Nat) /\ x.out \in Nat /\ x.out_edges \subseteq Nat
         /\ x.attributes \in Attribute
         /\ Len(x.in) \in Nat /\ DOMAIN x.in = 1 .. Len(x.in)
         /\ \A i \in DOMAIN x.in : i \in Nat \ {0} /\ x.in[i] \in Nat
<1>1. /\ x.type \in Types /\ x.in \in Seq(Nat) /\ x.out \in Nat /\ x.out_edges \subseteq Nat
      /\ x.attributes \in Attribute
  BY DEF Node
<1>2. /\ Len(x.in) \in Nat /\ DOMAIN x.in = 1 .. Len(x.in)
      /\ \A i \in DOMAIN x.in : x.in[i] \in Nat
  BY <1>1, SeqFacts
<1> QED
  BY <1>1, <1>2

\* Sequences with one field of one element replaced.
PutOutEdges(nodes, p, X) == [nodes EXCEPT ![p].out_edges = X]
PutInput(nodes, p, idx, v) == [nodes EXCEPT ![p].in[idx] = v]
PutBound(tensors, p, X) == [tensors EXCEPT ![p].bound = X]
PutEdge(edges, p, v) == [edges EXCEPT ![p] = v]

\* m is nodes with the output edges of p set to X.
OutEdgesAre(nodes, p, X, m) ==
  /\ m \in Seq(Node \cup {NoNode}) /\ DOMAIN m = DOMAIN nodes
  /\ \A n \in DOMAIN nodes : n # p => m[n] = nodes[n]
  /\ m[p] \in Node /\ m[p].out_edges = X
  /\ m[p].type = nodes[p].type /\ m[p].in = nodes[p].in
  /\ m[p].out = nodes[p].out /\ m[p].attributes = nodes[p].attributes

LEMMA OutEdgesPut ==
  ASSUME NEW nodes \in Seq(Node \cup {NoNode}), NEW p \in DOMAIN nodes, nodes[p] \in Node,
         NEW X \in SUBSET Nat
  PROVE  OutEdgesAre(nodes, p, X, PutOutEdges(nodes, p, X))
<1> DEFINE m == PutOutEdges(nodes, p, X)
           new == [nodes[p] EXCEPT !.out_edges = X]
<1>1. /\ new \in Node /\ new.out_edges = X /\ new.type = nodes[p].type /\ new.in = nodes[p].in
      /\ new.out = nodes[p].out /\ new.attributes = nodes[p].attributes
  BY DEF Node
<1>2. m = [nodes EXCEPT ![p] = new]
  BY DEF PutOutEdges
<1> HIDE DEF m
<1> HIDE DEF new
<1>3. p \in 1 .. Len(nodes) /\ new \in Node \cup {NoNode}
  BY <1>1, LenProperties
<1>4. m \in Seq(Node \cup {NoNode})
  BY <1>2, <1>3, ExceptSeq
<1>5. DOMAIN m = DOMAIN nodes /\ m[p] = new /\ \A n \in DOMAIN nodes : n # p => m[n] = nodes[n]
  BY <1>2
<1>6. OutEdgesAre(nodes, p, X, m)
  BY <1>1, <1>4, <1>5 DEF OutEdgesAre
<1> QED
  BY <1>6 DEF m

LEMMA InputPut ==
  ASSUME NEW nodes \in Seq(Node \cup {NoNode}), NEW p \in DOMAIN nodes, nodes[p] \in Node,
         NEW idx \in DOMAIN nodes[p].in, NEW v \in Nat
  PROVE  LET m == PutInput(nodes, p, idx, v) IN
         /\ m \in Seq(Node \cup {NoNode}) /\ DOMAIN m = DOMAIN nodes
         /\ \A n \in DOMAIN nodes : n # p => m[n] = nodes[n]
         /\ m[p] \in Node /\ DOMAIN m[p].in = DOMAIN nodes[p].in /\ m[p].in[idx] = v
         /\ \A i \in DOMAIN nodes[p].in : i # idx => m[p].in[i] = nodes[p].in[i]
         /\ m[p].type = nodes[p].type /\ m[p].out_edges = nodes[p].out_edges
         /\ m[p].out = nodes[p].out /\ m[p].attributes = nodes[p].attributes
<1> DEFINE m == PutInput(nodes, p, idx, v)
           in == [nodes[p].in EXCEPT ![idx] = v]
           new == [nodes[p] EXCEPT !.in = in]
<1>1. nodes[p].in \in Seq(Nat) /\ idx \in 1 .. Len(nodes[p].in)
  BY NodeFacts
<1>2. /\ in \in Seq(Nat) /\ DOMAIN in = DOMAIN nodes[p].in /\ in[idx] = v
      /\ \A i \in DOMAIN nodes[p].in : i # idx => in[i] = nodes[p].in[i]
  BY <1>1, ExceptSeq
<1>3. m = [nodes EXCEPT ![p] = new]
  BY DEF PutInput
<1> HIDE DEF m
<1> HIDE DEF in
<1>4. /\ new \in Node /\ new.out_edges = nodes[p].out_edges /\ new.type = nodes[p].type
      /\ new.in = in /\ new.out = nodes[p].out /\ new.attributes = nodes[p].attributes
  BY <1>2 DEF Node
<1> HIDE DEF new
<1>5. p \in 1 .. Len(nodes) /\ new \in Node \cup {NoNode}
  BY <1>4, LenProperties
<1>6. m \in Seq(Node \cup {NoNode})
  BY <1>3, <1>5, ExceptSeq
<1>7. DOMAIN m = DOMAIN nodes /\ m[p] = new /\ \A n \in DOMAIN nodes : n # p => m[n] = nodes[n]
  BY <1>3
<1> QED
  BY <1>2, <1>4, <1>6, <1>7 DEF m

LEMMA BoundPut ==
  ASSUME NEW tensors \in Seq(Tensor), NEW p \in DOMAIN tensors, NEW X \in SUBSET Nat
  PROVE  LET m == PutBound(tensors, p, X) IN
         /\ m \in Seq(Tensor) /\ DOMAIN m = DOMAIN tensors
         /\ \A n \in DOMAIN tensors : n # p => m[n] = tensors[n]
         /\ m[p].bound = X
<1> DEFINE m == PutBound(tensors, p, X)
           new == [tensors[p] EXCEPT !.bound = X]
<1>1. p \in 1 .. Len(tensors) /\ tensors[p] \in Tensor
  BY SeqFacts
<1>2. new \in Tensor /\ new.bound = X
  BY <1>1 DEF Tensor
<1>3. m = [tensors EXCEPT ![p] = new]
  BY DEF PutBound
<1> HIDE DEF m
<1> HIDE DEF new
<1>4. m \in Seq(Tensor)
  BY <1>1, <1>2, <1>3, ExceptSeq
<1>5. DOMAIN m = DOMAIN tensors /\ m[p] = new /\ \A n \in DOMAIN tensors : n # p => m[n] = tensors[n]
  BY <1>3
<1> QED
  BY <1>2, <1>4, <1>5 DEF m

LEMMA EdgePut ==
  ASSUME NEW edges \in Seq(Edge), NEW p \in DOMAIN edges, NEW v \in Edge
  PROVE  LET m == PutEdge(edges, p, v) IN
         /\ m \in Seq(Edge) /\ DOMAIN m = DOMAIN edges /\ m[p] = v
         /\ \A n \in DOMAIN edges : n # p => m[n] = edges[n]
<1> DEFINE m == PutEdge(edges, p, v)
<1>1. p \in 1 .. Len(edges)
  BY SeqFacts
<1>2. m \in Seq(Edge)
  BY <1>1, ExceptSeq DEF PutEdge
<1> QED
  BY <1>2 DEF PutEdge

-----------------------------------------------------------------------------
(* One connection more or less.                                            *)

\* h has the nodes and tensors of u, connected in whatever way.
SameLayers(u, h) ==
  /\ h \in Graphs
  /\ DOMAIN h.nodes = DOMAIN u.nodes /\ NodeIds(h) = NodeIds(u)
  /\ \A n \in NodeIds(u) :
       /\ h.nodes[n].type = u.nodes[n].type /\ h.nodes[n].out = u.nodes[n].out
       /\ h.nodes[n].attributes = u.nodes[n].attributes
       /\ DOMAIN h.nodes[n].in = DOMAIN u.nodes[n].in
  /\ DOMAIN h.tensors = DOMAIN u.tensors

NewEdge(u, from, to, idx) ==
  [producer |-> from, consumer |-> to, idx |-> idx, tensor |-> u.nodes[from].out]

\* h is u with one more edge.
OneMoreEdge(u, from, to, idx, h) ==
  LET eid == Len(u.edges) + 1 IN
  /\ SameLayers(u, h)
  /\ EdgeIds(h) = EdgeIds(u) \cup {eid} /\ eid \notin EdgeIds(u) /\ eid \in Nat \ {0}
  /\ \A e \in EdgeIds(u) : h.edges[e] = u.edges[e]
  /\ h.edges[eid] = NewEdge(u, from, to, idx)
  /\ \A n \in NodeIds(u) :
       /\ h.nodes[n].out_edges = u.nodes[n].out_edges \cup {e \in {eid} : n = from}
       /\ \A i \in DOMAIN u.nodes[n].in :
            h.nodes[n].in[i] = IF n = to /\ i = idx THEN eid ELSE u.nodes[n].in[i]
  /\ \A y \in DOMAIN u.tensors :
       h.tensors[y].bound = u.tensors[y].bound \cup {e \in {eid} : y = u.nodes[from].out}

\* A node with a free input, or one connected to the node `from`.
MayConnect(u, from, to, idx) ==
  u.nodes[to].in[idx] = 0 \/ u.edges[u.nodes[to].in[idx]].producer = from

LEMMA SameNodeIds ==
  ASSUME NEW u, NEW h, DOMAIN h.nodes = DOMAIN u.nodes,
         \A n \in DOMAIN u.nodes : h.nodes[n] = NoNode <=> u.nodes[n] = NoNode
  PROVE  NodeIds(h) = NodeIds(u)
  BY DEF NodeIds

LEMMA Connected ==
  ASSUME NEW u \in Graphs,
         NEW from \in NodeIds(u), NEW to \in NodeIds(u), NEW idx \in DOMAIN u.nodes[to].in,
         u.nodes[from].out \in DOMAIN u.tensors,
         u.nodes[to].in[idx] = 0 \/ ~MayConnect(u, from, to, idx)
  PROVE  OneMoreEdge(u, from, to, idx, AddConnection(u, from, to, idx))
<1> DEFINE h == AddConnection(u, from, to, idx)
           eid == Len(u.edges) + 1
           edge == NewEdge(u, from, to, idx)
           tid == u.nodes[from].out
           X == u.nodes[from].out_edges \cup {eid}
           Y == u.tensors[tid].bound \cup {eid}
           nodes1 == PutOutEdges(u.nodes, from, X)
           nodes2 == PutInput(nodes1, to, idx, eid)
           tensors1 == PutBound(u.tensors, tid, Y)
           edges1 == Append(u.edges, edge)
<1>0. h = [u EXCEPT !.edges = Append(@, edge),
                    !.nodes[from].out_edges = @ \cup {eid},
                    !.nodes[to].in[idx] = eid,
                    !.tensors[tid].bound = @ \cup {eid}]
  BY DEF AddConnection, NewEdge, MayConnect
<1>1. /\ h.edges = edges1 /\ h.nodes = nodes2 /\ h.tensors = tensors1 /\ h.handles = u.handles
      /\ h = [nodes |-> h.nodes, edges |-> h.edges, tensors |-> h.tensors, handles |-> h.handles]
  <2> HIDE DEF h, tid, edge
  <2>1. h.edges = edges1
    BY <1>0 DEF Graphs
  <2>2. h.nodes = nodes2
    BY <1>0 DEF Graphs, PutOutEdges, PutInput
  <2>3. h.tensors = tensors1
    BY <1>0 DEF Graphs, PutBound
  <2>4. h.handles = u.handles
    BY <1>0 DEF Graphs
  <2>5. h = [nodes |-> h.nodes, edges |-> h.edges, tensors |-> h.tensors, handles |-> h.handles]
    BY <1>0 DEF Graphs
  <2> HIDE DEF nodes2, tensors1, edges1
  <2> QED
    BY <2>1, <2>2, <2>3, <2>4, <2>5
<1>2. /\ eid \in Nat \ {0} /\ u.nodes \in Seq(Node \cup {NoNode}) /\ u.edges \in Seq(Edge)
      /\ u.tensors \in Seq(Tensor) /\ u.handles \in Seq(Handle)
      /\ from \in DOMAIN u.nodes /\ to \in DOMAIN u.nodes
      /\ u.nodes[from] \in Node /\ u.nodes[to] \in Node
      /\ from \in Nat \ {0} /\ to \in Nat /\ DOMAIN u.edges = 1 .. Len(u.edges)
  BY GraphFacts
<1>3. X \in SUBSET Nat /\ idx \in Nat /\ tid \in Nat
  BY <1>2, NodeFacts
<1>4. Y \in SUBSET Nat
  <2>1. u.tensors[tid] \in Tensor
    BY <1>2, SeqFacts
  <2> QED
    BY <1>2, <2>1 DEF Tensor
<1>5. /\ edge \in Edge /\ edge # NoEdge
  <2>1. edge.producer = from /\ NoEdge.producer = 0
    BY DEF NewEdge, NoEdge
  <2>2. edge \in Edge
    BY <1>2, <1>3 DEF NewEdge, Edge
  <2> HIDE DEF edge
  <2> QED
    BY <1>2, <2>1, <2>2
<1> HIDE DEF h, edge, tid, X, Y
<1>6. /\ nodes1 \in Seq(Node \cup {NoNode}) /\ DOMAIN nodes1 = DOMAIN u.nodes
      /\ \A n \in DOMAIN u.nodes : n # from => nodes1[n] = u.nodes[n]
      /\ nodes1[from] \in Node /\ nodes1[from].out_edges = X
      /\ nodes1[from].type = u.nodes[from].type /\ nodes1[from].in = u.nodes[from].in
      /\ nodes1[from].out = u.nodes[from].out
      /\ nodes1[from].attributes = u.nodes[from].attributes
  <2>1. OutEdgesAre(u.nodes, from, X, PutOutEdges(u.nodes, from, X))
    BY <1>2, <1>3, OutEdgesPut
  <2>2. OutEdgesAre(u.nodes, from, X, nodes1)
    BY <2>1
  <2> HIDE DEF nodes1
  <2> QED
    BY <2>2 DEF OutEdgesAre
<1> HIDE DEF nodes1
<1>7. to \in DOMAIN nodes1 /\ nodes1[to] \in Node /\ nodes1[to].in = u.nodes[to].in
  BY <1>2, <1>6
<1>8. /\ nodes2 \in Seq(Node \cup {NoNode}) /\ DOMAIN nodes2 = DOMAIN nodes1
      /\ \A n \in DOMAIN nodes1 : n # to => nodes2[n] = nodes1[n]
      /\ nodes2[to] \in Node /\ DOMAIN nodes2[to].in = DOMAIN nodes1[to].in
      /\ nodes2[to].in[idx] = eid
      /\ \A i \in DOMAIN nodes1[to].in : i # idx => nodes2[to].in[i] = nodes1[to].in[i]
      /\ nodes2[to].type = nodes1[to].type /\ nodes2[to].out_edges = nodes1[to].out_edges
      /\ nodes2[to].out = nodes1[to].out /\ nodes2[to].attributes = nodes1[to].attributes
  <2> HIDE DEF eid, nodes2
  <2>1. idx \in DOMAIN nodes1[to].in /\ eid \in Nat
    BY <1>2, <1>7
  <2> QED
    BY <1>6, <1>7, <2>1, InputPut DEF nodes2
<1> HIDE DEF nodes2
<1>9. /\ tensors1 \in Seq(Tensor) /\ DOMAIN tensors1 = DOMAIN u.tensors
      /\ \A y \in DOMAIN u.tensors : y # tid => tensors1[y] = u.tensors[y]
      /\ tensors1[tid].bound = Y
  <2>1. tid \in DOMAIN u.tensors
    BY DEF tid
  <2> QED
    BY <1>2, <1>4, <2>1, BoundPut
<1> HIDE DEF tensors1
<1>10. /\ edges1 \in Seq(Edge) /\ DOMAIN edges1 = 1 .. Len(u.edges) + 1
       /\ \A e \in DOMAIN u.edges : edges1[e] = u.edges[e]
       /\ edges1[eid] = edge
  <2>1. /\ edges1 \in Seq(Edge) /\ Len(edges1) = Len(u.edges) + 1
        /\ \A e \in 1 .. Len(u.edges) : edges1[e] = u.edges[e]
        /\ edges1[Len(u.edges) + 1] = edge
    BY <1>2, <1>5, AppendProperties
  <2> HIDE DEF edges1
  <2> QED
    BY <1>2, <2>1, SeqFacts
<1> HIDE DEF edges1
<1>11. /\ h \in Graphs /\ h.nodes = nodes2 /\ h.edges = edges1 /\ h.tensors = tensors1
  BY <1>1, <1>2, <1>6, <1>8, <1>9, <1>10 DEF Graphs
<1>12. \A n \in NodeIds(u) : n \in DOMAIN u.nodes /\ u.nodes[n] \in Node /\ u.nodes[n] # NoNode
  BY GraphFacts, NodeNotNull
<1>13. NodeIds(h) = NodeIds(u)
  <2>1. nodes2[from] # NoNode /\ nodes2[to] # NoNode
    BY <1>2, <1>6, <1>8, NodeNotNull
  <2>2. \A n \in DOMAIN u.nodes : nodes2[n] = NoNode <=> u.nodes[n] = NoNode
    BY <1>6, <1>8, <1>12, <2>1
  <2> QED
    BY <1>6, <1>8, <1>11, <2>2, SameNodeIds
<1>14. ASSUME NEW n \in NodeIds(u)
       PROVE  /\ h.nodes[n].type = u.nodes[n].type /\ h.nodes[n].out = u.nodes[n].out
              /\ h.nodes[n].attributes = u.nodes[n].attributes
              /\ DOMAIN h.nodes[n].in = DOMAIN u.nodes[n].in
              /\ h.nodes[n].out_edges = u.nodes[n].out_edges \cup {e \in {eid} : n = from}
              /\ \A i \in DOMAIN u.nodes[n].in :
                   h.nodes[n].in[i] = IF n = to /\ i = idx THEN eid ELSE u.nodes[n].in[i]
  <2> HIDE DEF eid
  <2>0. n \in DOMAIN u.nodes /\ n \in DOMAIN nodes1
    BY <1>6, <1>12
  <2>1. /\ nodes1[n].type = u.nodes[n].type /\ nodes1[n].out = u.nodes[n].out
        /\ nodes1[n].attributes = u.nodes[n].attributes /\ nodes1[n].in = u.nodes[n].in
        /\ nodes1[n].out_edges = u.nodes[n].out_edges \cup {e \in {eid} : n = from}
    <3>1. CASE n = from
      BY <1>6, <3>1 DEF X
    <3>2. CASE n # from
      BY <1>6, <2>0, <3>2
    <3> QED
      BY <3>1, <3>2
  <2>2. CASE n = to
    BY <1>8, <1>11, <2>1, <2>2
  <2>3. CASE n # to
    BY <1>8, <1>11, <2>0, <2>1, <2>3
  <2> QED
    BY <2>2, <2>3
<1>15. /\ EdgeIds(h) = EdgeIds(u) \cup {eid} /\ eid \notin EdgeIds(u)
       /\ \A e \in EdgeIds(u) : h.edges[e] = u.edges[e]
       /\ h.edges[eid] = edge
  <2>1. DOMAIN h.edges = DOMAIN u.edges \cup {eid} /\ eid \notin DOMAIN u.edges
    BY <1>2, <1>10, <1>11
  <2> QED
    BY <1>5, <1>10, <1>11, <2>1 DEF EdgeIds
<1>16. \A y \in DOMAIN u.tensors :
         h.tensors[y].bound = u.tensors[y].bound \cup {e \in {eid} : y = tid}
  <2> HIDE DEF eid
  <2> QED
    BY <1>9, <1>11 DEF Y
<1> QED
  <2>1. SameLayers(u, h)
    BY <1>6, <1>8, <1>9, <1>11, <1>13, <1>14 DEF SameLayers
  <2> HIDE DEF eid
  <2> QED
    BY <1>2, <1>14, <1>15, <1>16, <2>1 DEF OneMoreEdge, edge, tid, h, eid

LEMMA EdgeAgrees ==
  ASSUME NEW u, Agrees(u), NEW e \in EdgeIds(u)
  PROVE  /\ u.edges[e].producer \in NodeIds(u) /\ u.edges[e].consumer \in NodeIds(u)
         /\ e \in u.nodes[u.edges[e].producer].out_edges
         /\ u.edges[e].idx \in DOMAIN u.nodes[u.edges[e].consumer].in
         /\ u.nodes[u.edges[e].consumer].in[u.edges[e].idx] = e
         /\ u.edges[e].tensor = u.nodes[u.edges[e].producer].out
  BY DEF Agrees

\* e leads to input i of n.
LeadsTo(u, e, n, i) == e \in EdgeIds(u) /\ u.edges[e].consumer = n /\ u.edges[e].idx = i

\* An input in use of an agreeing graph holds an edge that leads to it.
LEMMA InputLeads ==
  ASSUME NEW u, Agrees(u), NEW n \in NodeIds(u), NEW i \in DOMAIN u.nodes[n].in,
         u.nodes[n].in[i] # 0
  PROVE  LeadsTo(u, u.nodes[n].in[i], n, i)
<1>1. \A m \in NodeIds(u) : \A k \in DOMAIN u.nodes[m].in :
        u.nodes[m].in[k] # 0 => LeadsTo(u, u.nodes[m].in[k], m, k)
  BY Zenon DEF Agrees, LeadsTo
<1> QED
  BY <1>1

LEMMA InputAgrees ==
  ASSUME NEW u, Agrees(u), NEW n \in NodeIds(u), NEW i \in DOMAIN u.nodes[n].in,
         u.nodes[n].in[i] # 0
  PROVE  /\ u.nodes[n].in[i] \in EdgeIds(u)
         /\ u.edges[u.nodes[n].in[i]].consumer = n /\ u.edges[u.nodes[n].in[i]].idx = i
<1>1. LeadsTo(u, u.nodes[n].in[i], n, i)
  BY InputLeads
<1> QED
  BY <1>1 DEF LeadsTo

LEMMA OutAgrees ==
  ASSUME NEW u, Agrees(u), NEW n \in NodeIds(u), NEW e \in u.nodes[n].out_edges
  PROVE  e \in EdgeIds(u) /\ u.edges[e].producer = n
  BY DEF Agrees

LEMMA BoundAgrees ==
  ASSUME NEW u, Agrees(u), NEW y \in DOMAIN u.tensors
  PROVE  u.tensors[y].bound = {e \in EdgeIds(u) : u.edges[e].tensor = y}
  BY DEF Agrees

\* Both ends of e know e.
EndsKnow(u, e) ==
  LET edge == u.edges[e]
  IN  /\ {edge.producer, edge.consumer} \subseteq NodeIds(u)
      /\ e \in u.nodes[edge.producer].out_edges
      /\ edge.idx \in DOMAIN u.nodes[edge.consumer].in
      /\ u.nodes[edge.consumer].in[edge.idx] = e
      /\ edge.tensor = u.nodes[edge.producer].out

\* The clause of Agrees about inputs, with its edges named.
LEMMA InputsLead ==
  ASSUME NEW h,
         \A n \in NodeIds(h) : \A i \in DOMAIN h.nodes[n].in : h.nodes[n].in[i] # 0 =>
           /\ h.nodes[n].in[i] \in EdgeIds(h)
           /\ h.edges[h.nodes[n].in[i]].consumer = n /\ h.edges[h.nodes[n].in[i]].idx = i
  PROVE  \A n \in NodeIds(h) : \A i \in DOMAIN h.nodes[n].in :
           h.nodes[n].in[i] # 0 => LeadsTo(h, h.nodes[n].in[i], n, i)
  BY Zenon DEF LeadsTo

\* Agrees, from its clauses.
LEMMA PartsAgree ==
  ASSUME NEW u, \A e \in EdgeIds(u) : EndsKnow(u, e),
         \A n \in NodeIds(u) : \A i \in DOMAIN u.nodes[n].in :
           u.nodes[n].in[i] # 0 => LeadsTo(u, u.nodes[n].in[i], n, i),
         \A n \in NodeIds(u) : \A e \in u.nodes[n].out_edges :
           e \in EdgeIds(u) /\ u.edges[e].producer = n,
         \A y \in DOMAIN u.tensors : u.tensors[y].bound = {e \in EdgeIds(u) : u.edges[e].tensor = y}
  PROVE  Agrees(u)
  BY Zenon DEF Agrees, EndsKnow, LeadsTo

\* The four together.
LEMMA AllAgrees ==
  ASSUME NEW h,
         \A e \in EdgeIds(h) :
           /\ h.edges[e].producer \in NodeIds(h) /\ h.edges[e].consumer \in NodeIds(h)
           /\ e \in h.nodes[h.edges[e].producer].out_edges
           /\ h.edges[e].idx \in DOMAIN h.nodes[h.edges[e].consumer].in
           /\ h.nodes[h.edges[e].consumer].in[h.edges[e].idx] = e
           /\ h.edges[e].tensor = h.nodes[h.edges[e].producer].out,
         \A n \in NodeIds(h) : \A i \in DOMAIN h.nodes[n].in : h.nodes[n].in[i] # 0 =>
           /\ h.nodes[n].in[i] \in EdgeIds(h)
           /\ h.edges[h.nodes[n].in[i]].consumer = n /\ h.edges[h.nodes[n].in[i]].idx = i,
         \A n \in NodeIds(h) : \A e \in h.nodes[n].out_edges :
           e \in EdgeIds(h) /\ h.edges[e].producer = n,
         \A y \in DOMAIN h.tensors : h.tensors[y].bound = {e \in EdgeIds(h) : h.edges[e].tensor = y}
  PROVE  Agrees(h)
<1>1. \A e \in EdgeIds(h) : EndsKnow(h, e)
  <2> TAKE e \in EdgeIds(h)
  <2>1. {h.edges[e].producer, h.edges[e].consumer} \subseteq NodeIds(h)
    BY Zenon
  <2> QED
    BY <2>1, Zenon DEF EndsKnow
<1>2. \A n \in NodeIds(h) : \A i \in DOMAIN h.nodes[n].in :
        h.nodes[n].in[i] # 0 => LeadsTo(h, h.nodes[n].in[i], n, i)
  BY InputsLead, Zenon
<1> QED
  BY <1>1, <1>2, PartsAgree, Zenon

LEMMA NewEdgeFields ==
  ASSUME NEW u, NEW from, NEW to, NEW idx
  PROVE  /\ NewEdge(u, from, to, idx).producer = from /\ NewEdge(u, from, to, idx).consumer = to
         /\ NewEdge(u, from, to, idx).idx = idx
         /\ NewEdge(u, from, to, idx).tensor = u.nodes[from].out
  BY DEF NewEdge

LEMMA ConnectedAgrees ==
  ASSUME NEW u \in Graphs, Agrees(u),
         NEW from \in NodeIds(u), NEW to \in NodeIds(u), NEW idx \in DOMAIN u.nodes[to].in,
         NEW h, OneMoreEdge(u, from, to, idx, h)
  PROVE  Agrees(h) <=> u.nodes[to].in[idx] = 0
<1> DEFINE eid == Len(u.edges) + 1
           present == u.nodes[to].in[idx]
<1>1. /\ NodeIds(h) = NodeIds(u) /\ DOMAIN h.tensors = DOMAIN u.tensors
      /\ \A n \in NodeIds(u) :
           /\ h.nodes[n].out = u.nodes[n].out /\ DOMAIN h.nodes[n].in = DOMAIN u.nodes[n].in
           /\ h.nodes[n].out_edges = u.nodes[n].out_edges \cup {e \in {eid} : n = from}
           /\ \A i \in DOMAIN u.nodes[n].in :
                h.nodes[n].in[i] = IF n = to /\ i = idx THEN eid ELSE u.nodes[n].in[i]
      /\ EdgeIds(h) = EdgeIds(u) \cup {eid} /\ eid \notin EdgeIds(u) /\ eid # 0
      /\ \A e \in EdgeIds(u) : h.edges[e] = u.edges[e]
      /\ \A y \in DOMAIN u.tensors :
           h.tensors[y].bound = u.tensors[y].bound \cup {e \in {eid} : y = u.nodes[from].out}
      /\ h.edges[eid].producer = from /\ h.edges[eid].consumer = to
      /\ h.edges[eid].idx = idx /\ h.edges[eid].tensor = u.nodes[from].out
  BY NewEdgeFields DEF OneMoreEdge, SameLayers
<1>2. \A e \in EdgeIds(u) : e # 0
  BY IdsArePositive
<1> HIDE DEF eid
<1>3. ASSUME present # 0, Agrees(h) PROVE FALSE
  <2>1. present \in EdgeIds(u) /\ u.edges[present].consumer = to /\ u.edges[present].idx = idx
    BY <1>3, InputAgrees
  <2> HIDE DEF present
  <2>2. present \in EdgeIds(h) /\ h.edges[present] = u.edges[present] /\ present # eid
    BY <1>1, <2>1
  <2>3. h.nodes[h.edges[present].consumer].in[h.edges[present].idx] = present
    BY <1>3, <2>2, EdgeAgrees
  <2>4. h.nodes[to].in[idx] = eid
    BY <1>1
  <2>5. h.edges[present].consumer = to /\ h.edges[present].idx = idx
    BY <2>1, <2>2
  <2> QED
    BY <2>2, <2>3, <2>4, <2>5
<1>4. ASSUME present = 0 PROVE Agrees(h)
  <2>1. ASSUME NEW e \in EdgeIds(h)
        PROVE  /\ h.edges[e].producer \in NodeIds(h) /\ h.edges[e].consumer \in NodeIds(h)
               /\ e \in h.nodes[h.edges[e].producer].out_edges
               /\ h.edges[e].idx \in DOMAIN h.nodes[h.edges[e].consumer].in
               /\ h.nodes[h.edges[e].consumer].in[h.edges[e].idx] = e
               /\ h.edges[e].tensor = h.nodes[h.edges[e].producer].out
    <3>1. CASE e = eid
      BY <1>1, <3>1
    <3>2. CASE e # eid
      <4>1. e \in EdgeIds(u) /\ h.edges[e] = u.edges[e] /\ e # 0
        BY <1>1, <1>2, <3>2
      <4>2. /\ u.edges[e].producer \in NodeIds(u) /\ u.edges[e].consumer \in NodeIds(u)
            /\ e \in u.nodes[u.edges[e].producer].out_edges
            /\ u.edges[e].idx \in DOMAIN u.nodes[u.edges[e].consumer].in
            /\ u.nodes[u.edges[e].consumer].in[u.edges[e].idx] = e
            /\ u.edges[e].tensor = u.nodes[u.edges[e].producer].out
        BY <4>1, EdgeAgrees
      <4>3. ~(u.edges[e].consumer = to /\ u.edges[e].idx = idx)
        BY <1>4, <4>1, <4>2
      <4> HIDE DEF present
      <4>4. h.edges[e].producer \in NodeIds(h) /\ h.edges[e].consumer \in NodeIds(h)
        BY <1>1, <4>1, <4>2
      <4>5. e \in h.nodes[h.edges[e].producer].out_edges
        BY <1>1, <4>1, <4>2
      <4>6. /\ h.edges[e].idx \in DOMAIN h.nodes[h.edges[e].consumer].in
            /\ h.nodes[h.edges[e].consumer].in[h.edges[e].idx] = e
        BY <1>1, <4>1, <4>2, <4>3
      <4>7. h.edges[e].tensor = h.nodes[h.edges[e].producer].out
        BY <1>1, <4>1, <4>2
      <4> QED
        BY <4>4, <4>5, <4>6, <4>7
    <3> QED
      BY <3>1, <3>2
  <2>2. ASSUME NEW n \in NodeIds(h), NEW i \in DOMAIN h.nodes[n].in, h.nodes[n].in[i] # 0
        PROVE  /\ h.nodes[n].in[i] \in EdgeIds(h)
               /\ h.edges[h.nodes[n].in[i]].consumer = n /\ h.edges[h.nodes[n].in[i]].idx = i
    <3>1. CASE n = to /\ i = idx
      BY <1>1, <3>1
    <3>2. CASE ~(n = to /\ i = idx)
      <4>1. n \in NodeIds(u) /\ i \in DOMAIN u.nodes[n].in /\ h.nodes[n].in[i] = u.nodes[n].in[i]
        BY <1>1, <3>2
      <4>2. /\ u.nodes[n].in[i] \in EdgeIds(u)
            /\ u.edges[u.nodes[n].in[i]].consumer = n /\ u.edges[u.nodes[n].in[i]].idx = i
        BY <2>2, <4>1, InputAgrees
      <4> QED
        BY <1>1, <4>1, <4>2
    <3> QED
      BY <3>1, <3>2
  <2>3. ASSUME NEW n \in NodeIds(h), NEW e \in h.nodes[n].out_edges
        PROVE  e \in EdgeIds(h) /\ h.edges[e].producer = n
    <3>1. CASE e \in u.nodes[n].out_edges
      <4>1. e \in EdgeIds(u) /\ u.edges[e].producer = n
        BY <1>1, <3>1, OutAgrees
      <4> QED
        BY <1>1, <4>1
    <3>2. CASE e \notin u.nodes[n].out_edges
      BY <1>1, <3>2
    <3> QED
      BY <3>1, <3>2
  <2>4. ASSUME NEW y \in DOMAIN h.tensors
        PROVE  h.tensors[y].bound = {e \in EdgeIds(h) : h.edges[e].tensor = y}
    <3>1. y \in DOMAIN u.tensors /\ u.tensors[y].bound = {e \in EdgeIds(u) : u.edges[e].tensor = y}
      BY <1>1, BoundAgrees
    <3> QED
      BY <1>1, <3>1
  <2> QED
    BY <2>1, <2>2, <2>3, <2>4, AllAgrees
<1> QED
  BY <1>3, <1>4

\* add_connection keeps the ends of all edges in agreement exactly if it does
\* not take an input from another edge, which it would leave behind
\* (Graph.cpp:104): whoever moves a connection must remove the old one first.
THEOREM ConnectsFreeInputs ==
  ASSUME NEW u \in Graphs, Agrees(u),
         NEW from \in NodeIds(u), NEW to \in NodeIds(u), NEW idx \in DOMAIN u.nodes[to].in,
         u.nodes[from].out \in DOMAIN u.tensors
  PROVE  Agrees(AddConnection(u, from, to, idx)) <=> MayConnect(u, from, to, idx)
<1>1. CASE u.nodes[to].in[idx] = 0 \/ ~MayConnect(u, from, to, idx)
  <2>1. Agrees(AddConnection(u, from, to, idx)) <=> u.nodes[to].in[idx] = 0
    BY <1>1, Connected, ConnectedAgrees
  <2> QED
    BY <1>1, <2>1 DEF MayConnect
<1>2. CASE u.nodes[to].in[idx] # 0 /\ MayConnect(u, from, to, idx)
  BY <1>2 DEF MayConnect, AddConnection
<1> QED
  BY <1>1, <1>2

-----------------------------------------------------------------------------
\* h is u without the edges X.
Without(u, X, h) ==
  /\ SameLayers(u, h)
  /\ EdgeIds(h) = EdgeIds(u) \ X
  /\ \A e \in EdgeIds(h) : h.edges[e] = u.edges[e]
  /\ \A n \in NodeIds(u) :
       /\ h.nodes[n].out_edges = u.nodes[n].out_edges \ X
       /\ \A i \in DOMAIN u.nodes[n].in :
            h.nodes[n].in[i] = IF u.nodes[n].in[i] \in X THEN 0 ELSE u.nodes[n].in[i]
  /\ \A y \in DOMAIN u.tensors : h.tensors[y].bound = u.tensors[y].bound \ X

LEMMA WithoutAgrees ==
  ASSUME NEW u \in Graphs, Agrees(u), NEW X, NEW h, Without(u, X, h)
  PROVE  Agrees(h)
<1>1. /\ NodeIds(h) = NodeIds(u) /\ DOMAIN h.tensors = DOMAIN u.tensors
      /\ \A n \in NodeIds(u) :
           /\ h.nodes[n].out = u.nodes[n].out /\ DOMAIN h.nodes[n].in = DOMAIN u.nodes[n].in
           /\ h.nodes[n].out_edges = u.nodes[n].out_edges \ X
           /\ \A i \in DOMAIN u.nodes[n].in :
                h.nodes[n].in[i] = IF u.nodes[n].in[i] \in X THEN 0 ELSE u.nodes[n].in[i]
      /\ EdgeIds(h) = EdgeIds(u) \ X
      /\ \A e \in EdgeIds(h) : h.edges[e] = u.edges[e]
      /\ \A y \in DOMAIN u.tensors : h.tensors[y].bound = u.tensors[y].bound \ X
  BY DEF Without, SameLayers
<1>2. ASSUME NEW e \in EdgeIds(h)
      PROVE  /\ h.edges[e].producer \in NodeIds(h) /\ h.edges[e].consumer \in NodeIds(h)
             /\ e \in h.nodes[h.edges[e].producer].out_edges
             /\ h.edges[e].idx \in DOMAIN h.nodes[h.edges[e].consumer].in
             /\ h.nodes[h.edges[e].consumer].in[h.edges[e].idx] = e
             /\ h.edges[e].tensor = h.nodes[h.edges[e].producer].out
  <2>1. e \in EdgeIds(u) /\ e \notin X /\ h.edges[e] = u.edges[e]
    BY <1>1
  <2>2. /\ u.edges[e].producer \in NodeIds(u) /\ u.edges[e].consumer \in NodeIds(u)
        /\ e \in u.nodes[u.edges[e].producer].out_edges
        /\ u.edges[e].idx \in DOMAIN u.nodes[u.edges[e].consumer].in
        /\ u.nodes[u.edges[e].consumer].in[u.edges[e].idx] = e
        /\ u.edges[e].tensor = u.nodes[u.edges[e].producer].out
    BY <2>1, EdgeAgrees
  <2> QED
    BY <1>1, <2>1, <2>2
<1>3. ASSUME NEW n \in NodeIds(h), NEW i \in DOMAIN h.nodes[n].in, h.nodes[n].in[i] # 0
      PROVE  /\ h.nodes[n].in[i] \in EdgeIds(h)
             /\ h.edges[h.nodes[n].in[i]].consumer = n /\ h.edges[h.nodes[n].in[i]].idx = i
  <2>1. /\ n \in NodeIds(u) /\ i \in DOMAIN u.nodes[n].in /\ u.nodes[n].in[i] \notin X
        /\ h.nodes[n].in[i] = u.nodes[n].in[i]
    BY <1>1, <1>3
  <2>2. /\ u.nodes[n].in[i] \in EdgeIds(u)
        /\ u.edges[u.nodes[n].in[i]].consumer = n /\ u.edges[u.nodes[n].in[i]].idx = i
    <3>1. u.nodes[n].in[i] # 0
      BY <1>3, <2>1
    <3> QED
      BY <2>1, <3>1, InputAgrees
  <2> QED
    BY <1>1, <2>1, <2>2
<1>4. ASSUME NEW n \in NodeIds(h), NEW e \in h.nodes[n].out_edges
      PROVE  e \in EdgeIds(h) /\ h.edges[e].producer = n
  <2>1. n \in NodeIds(u) /\ e \in u.nodes[n].out_edges /\ e \notin X
    BY <1>1
  <2>2. e \in EdgeIds(u) /\ u.edges[e].producer = n
    BY <2>1, OutAgrees
  <2> QED
    BY <1>1, <2>1, <2>2
<1>5. ASSUME NEW y \in DOMAIN h.tensors
      PROVE  h.tensors[y].bound = {e \in EdgeIds(h) : h.edges[e].tensor = y}
  <2>1. y \in DOMAIN u.tensors /\ u.tensors[y].bound = {e \in EdgeIds(u) : u.edges[e].tensor = y}
    BY <1>1, BoundAgrees
  <2> QED
    BY <1>1, <2>1
<1> QED
  BY <1>2, <1>3, <1>4, <1>5, AllAgrees

\* Every edge has a tensor.
HaveTensors(u) == \A e \in EdgeIds(u) : u.edges[e].tensor \in DOMAIN u.tensors

LEMMA Disconnected ==
  ASSUME NEW u \in Graphs, Agrees(u), HaveTensors(u), NEW eid \in EdgeIds(u)
  PROVE  Without(u, {eid}, RemoveConnection(u, eid))
<1> DEFINE h == RemoveConnection(u, eid)
           from == u.edges[eid].producer
           to == u.edges[eid].consumer
           idx == u.edges[eid].idx
           tid == u.edges[eid].tensor
           X == u.nodes[from].out_edges \ {eid}
           Y == u.tensors[tid].bound \ {eid}
           nodes1 == PutOutEdges(u.nodes, from, X)
           nodes2 == PutInput(nodes1, to, idx, 0)
           tensors1 == PutBound(u.tensors, tid, Y)
           edges1 == PutEdge(u.edges, eid, NoEdge)
<1>1. h = [u EXCEPT !.tensors[tid].bound = @ \ {eid},
                    !.nodes[from].out_edges = @ \ {eid},
                    !.nodes[to].in[idx] = 0,
                    !.edges[eid] = NoEdge]
  BY DEF RemoveConnection
<1>2. /\ h.edges = edges1 /\ h.nodes = nodes2 /\ h.tensors = tensors1 /\ h.handles = u.handles
      /\ h = [nodes |-> h.nodes, edges |-> h.edges, tensors |-> h.tensors, handles |-> h.handles]
  <2> HIDE DEF h, from, to, idx, tid
  <2>1. h.edges = edges1
    BY <1>1 DEF Graphs, PutEdge
  <2>2. h.nodes = nodes2
    BY <1>1 DEF Graphs, PutOutEdges, PutInput
  <2>3. h.tensors = tensors1
    BY <1>1 DEF Graphs, PutBound
  <2>4. h.handles = u.handles
    BY <1>1 DEF Graphs
  <2>5. h = [nodes |-> h.nodes, edges |-> h.edges, tensors |-> h.tensors, handles |-> h.handles]
    BY <1>1 DEF Graphs
  <2> HIDE DEF nodes2, tensors1, edges1
  <2> QED
    BY <2>1, <2>2, <2>3, <2>4, <2>5
<1>3. /\ from \in NodeIds(u) /\ to \in NodeIds(u) /\ eid \in u.nodes[from].out_edges
      /\ idx \in DOMAIN u.nodes[to].in /\ u.nodes[to].in[idx] = eid
      /\ tid = u.nodes[from].out /\ tid \in DOMAIN u.tensors
  BY EdgeAgrees DEF HaveTensors
<1> HIDE DEF h, from, to, idx, tid
<1>4. /\ u.nodes \in Seq(Node \cup {NoNode}) /\ u.edges \in Seq(Edge)
      /\ u.tensors \in Seq(Tensor) /\ u.handles \in Seq(Handle)
      /\ from \in DOMAIN u.nodes /\ to \in DOMAIN u.nodes
      /\ u.nodes[from] \in Node /\ u.nodes[to] \in Node
      /\ eid \in DOMAIN u.edges /\ eid # 0
  BY <1>3, GraphFacts
<1>5. X \in SUBSET Nat /\ Y \in SUBSET Nat
  <2>1. u.tensors[tid] \in Tensor
    BY <1>3, <1>4, SeqFacts
  <2> QED
    BY <1>4, <2>1, NodeFacts DEF Tensor
<1> HIDE DEF X, Y
<1>6. /\ nodes1 \in Seq(Node \cup {NoNode}) /\ DOMAIN nodes1 = DOMAIN u.nodes
      /\ \A n \in DOMAIN u.nodes : n # from => nodes1[n] = u.nodes[n]
      /\ nodes1[from] \in Node /\ nodes1[from].out_edges = X
      /\ nodes1[from].type = u.nodes[from].type /\ nodes1[from].in = u.nodes[from].in
      /\ nodes1[from].out = u.nodes[from].out
      /\ nodes1[from].attributes = u.nodes[from].attributes
  <2>1. OutEdgesAre(u.nodes, from, X, PutOutEdges(u.nodes, from, X))
    BY <1>4, <1>5, OutEdgesPut
  <2>2. OutEdgesAre(u.nodes, from, X, nodes1)
    BY <2>1
  <2> HIDE DEF nodes1
  <2> QED
    BY <2>2 DEF OutEdgesAre
<1> HIDE DEF nodes1
<1>7. to \in DOMAIN nodes1 /\ nodes1[to] \in Node /\ nodes1[to].in = u.nodes[to].in
  BY <1>4, <1>6
<1>8. /\ nodes2 \in Seq(Node \cup {NoNode}) /\ DOMAIN nodes2 = DOMAIN nodes1
      /\ \A n \in DOMAIN nodes1 : n # to => nodes2[n] = nodes1[n]
      /\ nodes2[to] \in Node /\ DOMAIN nodes2[to].in = DOMAIN nodes1[to].in
      /\ nodes2[to].in[idx] = 0
      /\ \A i \in DOMAIN nodes1[to].in : i # idx => nodes2[to].in[i] = nodes1[to].in[i]
      /\ nodes2[to].type = nodes1[to].type /\ nodes2[to].out_edges = nodes1[to].out_edges
      /\ nodes2[to].out = nodes1[to].out /\ nodes2[to].attributes = nodes1[to].attributes
  <2>1. idx \in DOMAIN nodes1[to].in
    BY <1>3, <1>7
  <2> HIDE DEF nodes2
  <2> QED
    BY <1>6, <1>7, <2>1, InputPut DEF nodes2
<1> HIDE DEF nodes2
<1>9. /\ tensors1 \in Seq(Tensor) /\ DOMAIN tensors1 = DOMAIN u.tensors
      /\ \A y \in DOMAIN u.tensors : y # tid => tensors1[y] = u.tensors[y]
      /\ tensors1[tid].bound = Y
  BY <1>3, <1>4, <1>5, BoundPut
<1> HIDE DEF tensors1
<1>10. /\ edges1 \in Seq(Edge) /\ DOMAIN edges1 = DOMAIN u.edges /\ edges1[eid] = NoEdge
       /\ \A e \in DOMAIN u.edges : e # eid => edges1[e] = u.edges[e]
  <2>1. NoEdge \in Edge
    BY DEF NoEdge, Edge
  <2> QED
    BY <1>4, <2>1, EdgePut, ZenonT(60)
<1> HIDE DEF edges1
<1>11. /\ h \in Graphs /\ h.nodes = nodes2 /\ h.edges = edges1 /\ h.tensors = tensors1
  BY <1>2, <1>4, <1>8, <1>9, <1>10 DEF Graphs
<1>12. \A n \in NodeIds(u) : n \in DOMAIN u.nodes /\ u.nodes[n] \in Node /\ u.nodes[n] # NoNode
  BY GraphFacts, NodeNotNull
<1>13. NodeIds(h) = NodeIds(u)
  <2>1. nodes2[from] # NoNode /\ nodes2[to] # NoNode
    BY <1>4, <1>6, <1>8, NodeNotNull
  <2>2. ASSUME NEW n \in DOMAIN u.nodes PROVE nodes2[n] = NoNode <=> u.nodes[n] = NoNode
    <3>1. CASE n = from \/ n = to
      <4>1. nodes2[n] # NoNode /\ u.nodes[n] # NoNode
        BY <1>3, <1>6, <1>8, <1>12, <2>1, <3>1
      <4> QED
        BY <4>1
    <3>2. CASE n # from /\ n # to
      BY <1>6, <1>8, <3>2
    <3> QED
      BY <3>1, <3>2
  <2> QED
    BY <1>6, <1>8, <1>11, <2>2, SameNodeIds
<1>14. ASSUME NEW n \in NodeIds(u)
       PROVE  /\ h.nodes[n].type = u.nodes[n].type /\ h.nodes[n].out = u.nodes[n].out
              /\ h.nodes[n].attributes = u.nodes[n].attributes
              /\ DOMAIN h.nodes[n].in = DOMAIN u.nodes[n].in
              /\ h.nodes[n].out_edges = u.nodes[n].out_edges \ {eid}
              /\ \A i \in DOMAIN u.nodes[n].in :
                   h.nodes[n].in[i] = IF u.nodes[n].in[i] \in {eid} THEN 0 ELSE u.nodes[n].in[i]
  <2>0. n \in DOMAIN u.nodes /\ n \in DOMAIN nodes1
    BY <1>6, <1>12
  <2>1. /\ nodes1[n].type = u.nodes[n].type /\ nodes1[n].out = u.nodes[n].out
        /\ nodes1[n].attributes = u.nodes[n].attributes /\ nodes1[n].in = u.nodes[n].in
        /\ nodes1[n].out_edges = u.nodes[n].out_edges \ {eid}
    <3>1. CASE n = from
      BY <1>6, <3>1 DEF X
    <3>2. CASE n # from
      <4>1. eid \notin u.nodes[n].out_edges
        BY <3>2, OutAgrees DEF from
      <4> QED
        BY <1>6, <2>0, <3>2, <4>1
    <3> QED
      BY <3>1, <3>2
  <2>2. ASSUME NEW i \in DOMAIN u.nodes[n].in
        PROVE  u.nodes[n].in[i] = eid <=> n = to /\ i = idx
    <3>1. ASSUME u.nodes[n].in[i] = eid PROVE n = to /\ i = idx
      <4>1. u.nodes[n].in[i] # 0
        BY <1>4, <3>1
      <4> QED
        BY <3>1, <4>1, InputAgrees DEF to, idx
    <3> QED
      BY <1>3, <3>1
  <2>3. CASE n = to
    BY <1>8, <1>11, <2>1, <2>2, <2>3
  <2>4. CASE n # to
    BY <1>8, <1>11, <2>0, <2>1, <2>2, <2>4
  <2> QED
    BY <2>3, <2>4
<1>15. EdgeIds(h) = EdgeIds(u) \ {eid} /\ \A e \in EdgeIds(h) : h.edges[e] = u.edges[e]
  BY <1>10, <1>11 DEF EdgeIds
<1>16. \A y \in DOMAIN u.tensors : h.tensors[y].bound = u.tensors[y].bound \ {eid}
  <2> TAKE y \in DOMAIN u.tensors
  <2>1. CASE y = tid
    BY <1>9, <1>11, <2>1 DEF Y
  <2>2. CASE y # tid
    <3>1. eid \notin u.tensors[y].bound
      BY <2>2, BoundAgrees DEF tid
    <3> QED
      BY <1>9, <1>11, <2>2, <3>1
  <2> QED
    BY <2>1, <2>2
<1> QED
  <2>1. SameLayers(u, h)
    BY <1>6, <1>8, <1>9, <1>11, <1>13, <1>14 DEF SameLayers
  <2> QED
    BY <1>14, <1>15, <1>16, <2>1 DEF Without, h

\* remove_connection keeps the ends of the other edges in agreement and leaves
\* none that knows the edge it removes, so that the input it was at is free.
THEOREM RemovesBothEnds ==
  ASSUME NEW u \in Graphs, Agrees(u), HaveTensors(u), NEW eid \in EdgeIds(u)
  PROVE  /\ Agrees(RemoveConnection(u, eid))
         /\ EdgeIds(RemoveConnection(u, eid)) = EdgeIds(u) \ {eid}
         /\ RemoveConnection(u, eid).nodes[u.edges[eid].consumer].in[u.edges[eid].idx] = 0
<1> DEFINE h == RemoveConnection(u, eid)
<1>1. Without(u, {eid}, h)
  BY Disconnected
<1> HIDE DEF h
<1>2. Agrees(h)
  BY <1>1, WithoutAgrees
<1>3. EdgeIds(h) = EdgeIds(u) \ {eid}
  BY <1>1 DEF Without
<1>4. h.nodes[u.edges[eid].consumer].in[u.edges[eid].idx] = 0
  <2>1. /\ u.edges[eid].consumer \in NodeIds(u)
        /\ u.edges[eid].idx \in DOMAIN u.nodes[u.edges[eid].consumer].in
        /\ u.nodes[u.edges[eid].consumer].in[u.edges[eid].idx] = eid
    BY EdgeAgrees
  <2> QED
    BY <1>1, <2>1 DEF Without
<1> QED
  BY <1>2, <1>3, <1>4 DEF h

LEMMA WithoutMore ==
  ASSUME NEW u \in Graphs, Agrees(u), HaveTensors(u), NEW X, NEW h, Without(u, X, h),
         NEW e \in Nat
  PROVE  Without(u, X \cup {e}, RemoveConnection(h, e))
<1> DEFINE k == RemoveConnection(h, e)
<1>1. /\ SameLayers(u, h) /\ h \in Graphs
      /\ EdgeIds(h) = EdgeIds(u) \ X
      /\ \A d \in EdgeIds(h) : h.edges[d] = u.edges[d]
      /\ NodeIds(h) = NodeIds(u) /\ DOMAIN h.nodes = DOMAIN u.nodes
      /\ DOMAIN h.tensors = DOMAIN u.tensors
      /\ \A n \in NodeIds(u) :
           /\ h.nodes[n].type = u.nodes[n].type /\ h.nodes[n].out = u.nodes[n].out
           /\ h.nodes[n].attributes = u.nodes[n].attributes
           /\ DOMAIN h.nodes[n].in = DOMAIN u.nodes[n].in
           /\ h.nodes[n].out_edges = u.nodes[n].out_edges \ X
           /\ \A i \in DOMAIN u.nodes[n].in :
                h.nodes[n].in[i] = IF u.nodes[n].in[i] \in X THEN 0 ELSE u.nodes[n].in[i]
      /\ \A y \in DOMAIN u.tensors : h.tensors[y].bound = u.tensors[y].bound \ X
  BY DEF Without, SameLayers
<1>2. CASE e \in EdgeIds(h)
  <2>1. Agrees(h)
    BY WithoutAgrees
  <2>2. HaveTensors(h)
    BY <1>1 DEF HaveTensors
  <2>3. Without(h, {e}, k)
    BY <1>1, <1>2, <2>1, <2>2, Disconnected
  <2>4. e # 0
    BY <1>1, <1>2, GraphFacts
  <2> HIDE DEF k
  <2>5. /\ k \in Graphs
        /\ EdgeIds(k) = EdgeIds(h) \ {e}
        /\ \A d \in EdgeIds(k) : k.edges[d] = h.edges[d]
        /\ NodeIds(k) = NodeIds(h) /\ DOMAIN k.nodes = DOMAIN h.nodes
        /\ DOMAIN k.tensors = DOMAIN h.tensors
        /\ \A n \in NodeIds(h) :
             /\ k.nodes[n].type = h.nodes[n].type /\ k.nodes[n].out = h.nodes[n].out
             /\ k.nodes[n].attributes = h.nodes[n].attributes
             /\ DOMAIN k.nodes[n].in = DOMAIN h.nodes[n].in
             /\ k.nodes[n].out_edges = h.nodes[n].out_edges \ {e}
             /\ \A i \in DOMAIN h.nodes[n].in :
                  k.nodes[n].in[i] = IF h.nodes[n].in[i] \in {e} THEN 0 ELSE h.nodes[n].in[i]
        /\ \A y \in DOMAIN h.tensors : k.tensors[y].bound = h.tensors[y].bound \ {e}
    BY <2>3 DEF Without, SameLayers
  <2>6. SameLayers(u, k)
    BY <1>1, <2>5 DEF SameLayers
  <2>7. ASSUME NEW n \in NodeIds(u)
        PROVE  /\ k.nodes[n].out_edges = u.nodes[n].out_edges \ (X \cup {e})
               /\ \A i \in DOMAIN u.nodes[n].in :
                    k.nodes[n].in[i] = IF u.nodes[n].in[i] \in X \cup {e} THEN 0
                                       ELSE u.nodes[n].in[i]
    <3>1. k.nodes[n].out_edges = (u.nodes[n].out_edges \ X) \ {e}
      BY <1>1, <2>5
    <3>2. ASSUME NEW i \in DOMAIN u.nodes[n].in
          PROVE  k.nodes[n].in[i] = IF u.nodes[n].in[i] \in X \cup {e} THEN 0
                                    ELSE u.nodes[n].in[i]
      <4>1. /\ h.nodes[n].in[i] = IF u.nodes[n].in[i] \in X THEN 0 ELSE u.nodes[n].in[i]
            /\ k.nodes[n].in[i] = IF h.nodes[n].in[i] = e THEN 0 ELSE h.nodes[n].in[i]
        BY <1>1, <2>5
      <4> QED
        BY <2>4, <4>1
    <3> QED
      BY <3>1, <3>2
  <2>8. /\ EdgeIds(k) = EdgeIds(u) \ (X \cup {e})
        /\ \A d \in EdgeIds(k) : k.edges[d] = u.edges[d]
    BY <1>1, <2>5
  <2>9. \A y \in DOMAIN u.tensors : k.tensors[y].bound = u.tensors[y].bound \ (X \cup {e})
    BY <1>1, <2>5
  <2> QED
    BY <2>6, <2>7, <2>8, <2>9 DEF Without, k
<1>3. CASE e \notin EdgeIds(h)
  <2>1. k = h
    BY <1>3 DEF RemoveConnection
  <2>2. e \in X \/ e \notin EdgeIds(u)
    BY <1>1, <1>3
  <2> HIDE DEF k
  <2>3. CASE e \in X
    <3>1. X \cup {e} = X
      BY <2>3
    <3> QED
      BY <2>1, <3>1 DEF k
  <2>4. CASE e \notin EdgeIds(u)
    <3>1. \A n \in NodeIds(u) :
            /\ e \notin u.nodes[n].out_edges
            /\ \A i \in DOMAIN u.nodes[n].in : u.nodes[n].in[i] = e => e = 0
      BY <2>4, OutAgrees, InputAgrees
    <3>2. \A y \in DOMAIN u.tensors : e \notin u.tensors[y].bound
      BY <2>4, BoundAgrees
    <3>3. EdgeIds(h) = EdgeIds(u) \ (X \cup {e})
      BY <1>1, <2>4
    <3>4. ASSUME NEW n \in NodeIds(u)
          PROVE  /\ h.nodes[n].out_edges = u.nodes[n].out_edges \ (X \cup {e})
                 /\ \A i \in DOMAIN u.nodes[n].in :
                      h.nodes[n].in[i] = IF u.nodes[n].in[i] \in X \cup {e} THEN 0
                                         ELSE u.nodes[n].in[i]
      <4>1. h.nodes[n].out_edges = u.nodes[n].out_edges \ (X \cup {e})
        BY <1>1, <3>1
      <4>2. ASSUME NEW i \in DOMAIN u.nodes[n].in
            PROVE  h.nodes[n].in[i] = IF u.nodes[n].in[i] \in X \cup {e} THEN 0
                                      ELSE u.nodes[n].in[i]
        BY <1>1, <3>1
      <4> QED
        BY <4>1, <4>2
    <3>5. \A y \in DOMAIN u.tensors : h.tensors[y].bound = u.tensors[y].bound \ (X \cup {e})
      BY <1>1, <3>2
    <3> QED
      BY <1>1, <2>1, <3>3, <3>4, <3>5 DEF Without, k
  <2> QED
    BY <2>2, <2>3, <2>4
<1> QED
  BY <1>2, <1>3

-----------------------------------------------------------------------------
(* Who feeds whom: a graph without the numbers of its edges.               *)

\* The node that input i of n is connected to, 0 if it is free.
Feed(u, n, i) == IF u.nodes[n].in[i] = 0 THEN 0 ELSE Producer(u, n, i)

\* h is in agreement and has the layers N of u, fed in whatever way.
LayersOf(u, N, h) ==
  /\ h \in Graphs /\ Agrees(h)
  /\ NodeIds(h) = N /\ DOMAIN h.nodes = DOMAIN u.nodes
  /\ \A n \in N :
       /\ h.nodes[n].type = u.nodes[n].type /\ h.nodes[n].out = u.nodes[n].out
       /\ DOMAIN h.nodes[n].in = DOMAIN u.nodes[n].in
  /\ DOMAIN h.tensors = DOMAIN u.tensors

\* Every node that feeds another has a tensor.
FeedersHaveTensors(u) ==
  \A n \in NodeIds(u) : \A i \in DOMAIN u.nodes[n].in :
    Feed(u, n, i) # 0 => u.nodes[Feed(u, n, i)].out \in DOMAIN u.tensors

LEMMA FeedIsNode ==
  ASSUME NEW u \in Graphs, Agrees(u), NEW n \in NodeIds(u), NEW i \in DOMAIN u.nodes[n].in
  PROVE  /\ Feed(u, n, i) # 0 => Feed(u, n, i) \in NodeIds(u)
         /\ Feed(u, n, i) = 0 <=> u.nodes[n].in[i] = 0
<1>1. CASE u.nodes[n].in[i] = 0
  BY <1>1 DEF Feed
<1>2. CASE u.nodes[n].in[i] # 0
  <2>1. u.nodes[n].in[i] \in EdgeIds(u)
    BY <1>2, InputAgrees
  <2>2. Producer(u, n, i) \in NodeIds(u)
    BY <2>1, EdgeAgrees DEF Producer
  <2>3. Producer(u, n, i) # 0
    BY <2>2, IdsArePositive
  <2> QED
    BY <1>2, <2>2, <2>3 DEF Feed
<1> QED
  BY <1>1, <1>2

LEMMA EdgeFeeds ==
  ASSUME NEW u \in Graphs, Agrees(u), NEW e \in EdgeIds(u)
  PROVE  /\ u.edges[e].producer \in NodeIds(u) /\ u.edges[e].consumer \in NodeIds(u)
         /\ u.edges[e].idx \in DOMAIN u.nodes[u.edges[e].consumer].in
         /\ Feed(u, u.edges[e].consumer, u.edges[e].idx) = u.edges[e].producer
<1>1. e # 0
  BY IdsArePositive
<1> QED
  <2>1. /\ u.edges[e].producer \in NodeIds(u) /\ u.edges[e].consumer \in NodeIds(u)
        /\ u.edges[e].idx \in DOMAIN u.nodes[u.edges[e].consumer].in
        /\ u.nodes[u.edges[e].consumer].in[u.edges[e].idx] = e
    BY EdgeAgrees
  <2>2. Feed(u, u.edges[e].consumer, u.edges[e].idx) = u.edges[e].producer
    BY <1>1, <2>1 DEF Feed, Producer
  <2> QED
    BY <2>1, <2>2

LEMMA FeedHasEdge ==
  ASSUME NEW u \in Graphs, Agrees(u), NEW n \in NodeIds(u), NEW i \in DOMAIN u.nodes[n].in,
         Feed(u, n, i) # 0
  PROVE  /\ u.nodes[n].in[i] \in EdgeIds(u)
         /\ u.nodes[n].in[i] \in u.nodes[Feed(u, n, i)].out_edges
         /\ u.edges[u.nodes[n].in[i]].producer = Feed(u, n, i)
         /\ u.edges[u.nodes[n].in[i]].consumer = n /\ u.edges[u.nodes[n].in[i]].idx = i
         /\ u.edges[u.nodes[n].in[i]].tensor = u.nodes[Feed(u, n, i)].out
<1>1. u.nodes[n].in[i] # 0
  BY DEF Feed
<1>2. Feed(u, n, i) = u.edges[u.nodes[n].in[i]].producer
  BY <1>1 DEF Feed, Producer
<1> DEFINE e == u.nodes[n].in[i]
<1>3. e \in EdgeIds(u) /\ u.edges[e].consumer = n /\ u.edges[e].idx = i
  BY <1>1, InputAgrees
<1> HIDE DEF e
<1>4. /\ e \in u.nodes[u.edges[e].producer].out_edges
      /\ u.edges[e].tensor = u.nodes[u.edges[e].producer].out
  BY <1>3, EdgeAgrees
<1> QED
  BY <1>2, <1>3, <1>4 DEF e

LEMMA EdgesHaveTensors ==
  ASSUME NEW u \in Graphs, Agrees(u), FeedersHaveTensors(u)
  PROVE  HaveTensors(u)
<1> SUFFICES ASSUME NEW e \in EdgeIds(u) PROVE u.edges[e].tensor \in DOMAIN u.tensors
  BY DEF HaveTensors
<1>1. /\ u.edges[e].producer \in NodeIds(u) /\ u.edges[e].consumer \in NodeIds(u)
      /\ u.edges[e].idx \in DOMAIN u.nodes[u.edges[e].consumer].in
      /\ Feed(u, u.edges[e].consumer, u.edges[e].idx) = u.edges[e].producer
  BY EdgeFeeds
<1>2. u.edges[e].producer # 0
  BY <1>1, GraphFacts
<1>3. u.nodes[u.edges[e].producer].out \in DOMAIN u.tensors
  BY <1>1, <1>2 DEF FeedersHaveTensors
<1> QED
  BY <1>3, EdgeAgrees

\* Accessors, handles and attributes are no part of this.
LEMMA SameWires ==
  ASSUME NEW u \in Graphs, Agrees(u), NEW h \in Graphs,
         h.edges = u.edges, NodeIds(h) = NodeIds(u), DOMAIN h.nodes = DOMAIN u.nodes,
         \A n \in NodeIds(u) :
           /\ h.nodes[n].in = u.nodes[n].in /\ h.nodes[n].out = u.nodes[n].out
           /\ h.nodes[n].out_edges = u.nodes[n].out_edges
           /\ h.nodes[n].type = u.nodes[n].type,
         DOMAIN h.tensors = DOMAIN u.tensors,
         \A y \in DOMAIN u.tensors : h.tensors[y].bound = u.tensors[y].bound
  PROVE  /\ LayersOf(u, NodeIds(u), h)
         /\ \A n \in NodeIds(u) : \A i \in DOMAIN u.nodes[n].in : Feed(h, n, i) = Feed(u, n, i)
<1>1. EdgeIds(h) = EdgeIds(u)
  BY DEF EdgeIds
<1>2. Agrees(h)
  <2>1. ASSUME NEW e \in EdgeIds(h)
        PROVE  /\ h.edges[e].producer \in NodeIds(h) /\ h.edges[e].consumer \in NodeIds(h)
               /\ e \in h.nodes[h.edges[e].producer].out_edges
               /\ h.edges[e].idx \in DOMAIN h.nodes[h.edges[e].consumer].in
               /\ h.nodes[h.edges[e].consumer].in[h.edges[e].idx] = e
               /\ h.edges[e].tensor = h.nodes[h.edges[e].producer].out
    BY <1>1, EdgeAgrees
  <2>2. ASSUME NEW n \in NodeIds(h), NEW i \in DOMAIN h.nodes[n].in, h.nodes[n].in[i] # 0
        PROVE  /\ h.nodes[n].in[i] \in EdgeIds(h)
               /\ h.edges[h.nodes[n].in[i]].consumer = n /\ h.edges[h.nodes[n].in[i]].idx = i
    BY <1>1, <2>2, InputAgrees
  <2>3. ASSUME NEW n \in NodeIds(h), NEW e \in h.nodes[n].out_edges
        PROVE  e \in EdgeIds(h) /\ h.edges[e].producer = n
    BY <1>1, OutAgrees
  <2>4. ASSUME NEW y \in DOMAIN h.tensors
        PROVE  h.tensors[y].bound = {e \in EdgeIds(h) : h.edges[e].tensor = y}
    BY <1>1, BoundAgrees
  <2> QED
    BY <2>1, <2>2, <2>3, <2>4, AllAgrees
<1>3. LayersOf(u, NodeIds(u), h)
  BY <1>2 DEF LayersOf
<1>4. \A n \in NodeIds(u) : \A i \in DOMAIN u.nodes[n].in : Feed(h, n, i) = Feed(u, n, i)
  BY DEF Feed, Producer
<1> QED
  BY <1>3, <1>4

\* add_connection to a free input changes who feeds that one.
LEMMA FeedConnected ==
  ASSUME NEW u \in Graphs, Agrees(u),
         NEW from \in NodeIds(u), NEW to \in NodeIds(u), NEW idx \in DOMAIN u.nodes[to].in,
         u.nodes[from].out \in DOMAIN u.tensors, Feed(u, to, idx) \in {0, from}
  PROVE  /\ SameLayers(u, AddConnection(u, from, to, idx))
         /\ Agrees(AddConnection(u, from, to, idx))
         /\ \A n \in NodeIds(u) : \A i \in DOMAIN u.nodes[n].in :
              Feed(AddConnection(u, from, to, idx), n, i) =
                IF n = to /\ i = idx THEN from ELSE Feed(u, n, i)
<1>0. from # 0
  BY GraphFacts
<1>1. CASE u.nodes[to].in[idx] # 0
  <2>1. Feed(u, to, idx) = from /\ u.edges[u.nodes[to].in[idx]].producer = from
    BY <1>1, FeedIsNode DEF Feed, Producer
  <2>2. AddConnection(u, from, to, idx) = u
    BY <1>1, <2>1 DEF AddConnection
  <2> QED
    BY <2>1, <2>2 DEF SameLayers
<1>2. CASE u.nodes[to].in[idx] = 0
  <2> DEFINE h == AddConnection(u, from, to, idx)
             eid == Len(u.edges) + 1
  <2>1. OneMoreEdge(u, from, to, idx, h)
    BY <1>2, Connected
  <2> HIDE DEF h
  <2>2. Agrees(h)
    BY <1>2, <2>1, ConnectedAgrees
  <2>3. /\ SameLayers(u, h) /\ eid \notin EdgeIds(u) /\ eid # 0
        /\ h.edges[eid].producer = from
        /\ \A e \in EdgeIds(u) : h.edges[e] = u.edges[e]
        /\ \A n \in NodeIds(u) : \A i \in DOMAIN u.nodes[n].in :
             h.nodes[n].in[i] = IF n = to /\ i = idx THEN eid ELSE u.nodes[n].in[i]
    BY <2>1, NewEdgeFields DEF OneMoreEdge
  <2> HIDE DEF eid
  <2>4. ASSUME NEW n \in NodeIds(u), NEW i \in DOMAIN u.nodes[n].in
        PROVE  Feed(h, n, i) = IF n = to /\ i = idx THEN from ELSE Feed(u, n, i)
    <3>1. CASE n = to /\ i = idx
      BY <2>3, <3>1 DEF Feed, Producer
    <3>2. CASE ~(n = to /\ i = idx)
      <4>1. h.nodes[n].in[i] = u.nodes[n].in[i]
        BY <2>3, <3>2
      <4>2. u.nodes[n].in[i] # 0 => h.edges[u.nodes[n].in[i]] = u.edges[u.nodes[n].in[i]]
        BY <2>3, InputAgrees
      <4>3. Feed(h, n, i) = Feed(u, n, i)
        BY <4>1, <4>2 DEF Feed, Producer
      <4> QED
        BY <3>2, <4>3
    <3> QED
      BY <3>1, <3>2
  <2> QED
    BY <2>2, <2>3, <2>4 DEF h
<1> QED
  BY <1>1, <1>2

-----------------------------------------------------------------------------
(* Folds, one step after the other.                                        *)

LEMMA MaxOfPart ==
  ASSUME NEW n \in Nat, NEW s \in SUBSET (1 .. n), s # {}
  PROVE  Max(s) \in 1 .. n /\ s \ {Max(s)} \in SUBSET (1 .. n)
<1>1. s \subseteq Nat /\ \A x \in s : x <= n
  OBVIOUS
<1>2. Max(s) \in s
  BY <1>1, Greatest
<1> QED
  BY <1>2

LEMMA PartOfInterval ==
  ASSUME NEW n \in Nat
  PROVE  /\ {} \in SUBSET (1 .. n)
         /\ \A k \in 1 .. n : /\ 1 .. k \in SUBSET (1 .. n) /\ 1 .. k # {}
                              /\ Max(1 .. k) = k /\ (1 .. k) \ {k} = 1 .. k - 1
<1>1. ASSUME NEW k \in 1 .. n
      PROVE  /\ 1 .. k \in SUBSET (1 .. n) /\ 1 .. k # {}
             /\ Max(1 .. k) = k /\ (1 .. k) \ {k} = 1 .. k - 1
  <2>1. k \in Nat \ {0}
    OBVIOUS
  <2>2. 1 .. k # {} /\ Max(1 .. k) = k /\ (1 .. k) \ {Max(1 .. k)} = 1 .. k - 1
    BY <2>1, MaxOfInterval
  <2>3. 1 .. k \in SUBSET (1 .. n)
    OBVIOUS
  <2> QED
    BY <2>2, <2>3
<1> QED
  BY <1>1

LEMMA Indices ==
  ASSUME NEW n \in Nat
  PROVE  /\ 0 \in 0 .. n /\ n \in 0 .. n /\ 1 .. 0 = {}
         /\ \A k \in 1 .. n : k \in 0 .. n /\ k - 1 \in 0 .. n
  OBVIOUS

LEMMA StaysIn ==
  ASSUME NEW n \in Nat, NEW V, NEW r, r[0] \in V,
         \A k \in 1 .. n : r[k - 1] \in V => r[k] \in V
  PROVE  \A k \in 0 .. n : r[k] \in V
<1> DEFINE T == {k \in Nat : k <= n => r[k] \in V}
<1>1. 0 \in T
  OBVIOUS
<1>2. ASSUME NEW k \in 0 .. n - 1, k \in T PROVE k + 1 \in T
  <2>1. k + 1 \in 1 .. n /\ (k + 1) - 1 = k /\ k <= n
    OBVIOUS
  <2> QED
    BY <1>2, <2>1
<1>3. \A k \in 0 .. n - 1 : k \in T => k + 1 \in T
  BY <1>2
<1>4. \A k \in 0 .. n : k \in T => r[k] \in V
  OBVIOUS
<1> HIDE DEF T
<1>5. 0 .. n \subseteq T
  BY <1>1, <1>3, UpTo
<1> QED
  BY <1>4, <1>5

\* What holds of the base and is kept by each step holds of the result.
LEMMA StepByStep ==
  ASSUME NEW n \in Nat, NEW W, NEW r, r[0] \in W[0],
         \A k \in 1 .. n : r[k - 1] \in W[k - 1] => r[k] \in W[k]
  PROVE  r[n] \in W[n]
<1> DEFINE T == {k \in Nat : k <= n => r[k] \in W[k]}
<1>1. 0 \in T
  OBVIOUS
<1>2. ASSUME NEW k \in 0 .. n - 1, k \in T PROVE k + 1 \in T
  <2>1. k + 1 \in 1 .. n /\ (k + 1) - 1 = k /\ k <= n
    OBVIOUS
  <2> QED
    BY <1>2, <2>1
<1>3. \A k \in 0 .. n - 1 : k \in T => k + 1 \in T
  BY <1>2
<1>4. n \in T => r[n] \in W[n]
  OBVIOUS
<1> HIDE DEF T
<1>5. 0 .. n \subseteq T
  BY <1>1, <1>3, UpTo
<1> QED
  BY <1>4, <1>5

Removed(base, seq) == FoldLeft(RemoveConnection, base, seq)

RemovedClosed(V, seq) == \A h \in V : \A k \in 1 .. Len(seq) : RemoveConnection(h, seq[k]) \in V
RemovedRun(V, base, seq) ==
  \E r : /\ \A k \in 0 .. Len(seq) : r[k] \in V
        /\ r[0] = base /\ Removed(base, seq) = r[Len(seq)]
        /\ \A k \in 1 .. Len(seq) : r[k] = RemoveConnection(r[k - 1], seq[k])

LEMMA RemovedUnrolled ==
  ASSUME NEW seq \in Seq(Nat), NEW V, NEW base \in V, RemovedClosed(V, seq)
  PROVE  RemovedRun(V, base, seq)
<1> DEFINE size == Len(seq)
           Solves(f) == f = [s \in SUBSET (1 .. size) |->
                               IF s = {} THEN base
                               ELSE RemoveConnection(f[s \ {Max(s)}], seq[Max(s)])]
           iter == CHOOSE f : Solves(f)
           step == [k \in 1 .. size |-> [h \in V |-> RemoveConnection(h, seq[k])]]
<1>1. size \in Nat /\ DOMAIN seq = 1 .. size
  BY SeqFacts
<1>2. Removed(base, seq) = iter[1 .. size]
  BY <1>1 DEF Removed, FoldLeft, MapThenFoldSet
<1> HIDE DEF size
<1>3. step \in [1 .. size -> [V -> V]]
  BY DEF size, RemovedClosed
<1>4. PICK f \in [SUBSET (1 .. size) -> V] : \A s \in SUBSET (1 .. size) :
           f[s] = IF s = {} THEN base ELSE step[Max(s)][f[s \ {Max(s)}]]
  <2> HIDE DEF step
  <2>1. FoldIn(V, size, base, step)
    BY <1>1, <1>3, ClosedFold
  <2> QED
    BY <2>1 DEF FoldIn
<1>5. Solves(f)
  <2>1. ASSUME NEW s \in SUBSET (1 .. size), s # {}
        PROVE  step[Max(s)][f[s \ {Max(s)}]] = RemoveConnection(f[s \ {Max(s)}], seq[Max(s)])
    BY <1>1, <2>1, MaxOfPart
  <2> HIDE DEF step
  <2> QED
    BY <1>4, <2>1
<1>6. Solves(iter)
  BY <1>5
<1> HIDE DEF iter
<1>7. /\ iter[{}] = base
      /\ \A k \in 1 .. size : iter[1 .. k] = RemoveConnection(iter[1 .. k - 1], seq[k])
  <2>1. iter[{}] = base
    BY <1>1, <1>6, PartOfInterval
  <2>2. ASSUME NEW k \in 1 .. size PROVE iter[1 .. k] = RemoveConnection(iter[1 .. k - 1], seq[k])
    <3>1. /\ 1 .. k \in SUBSET (1 .. size) /\ 1 .. k # {}
          /\ Max(1 .. k) = k /\ (1 .. k) \ {k} = 1 .. k - 1
      BY <1>1, PartOfInterval
    <3>2. iter[1 .. k] = RemoveConnection(iter[(1 .. k) \ {Max(1 .. k)}], seq[Max(1 .. k)])
      BY <1>6, <3>1
    <3> QED
      BY <3>1, <3>2
  <2> QED
    BY <2>1, <2>2
<1> HIDE DEF Solves
<1> DEFINE r == [k \in 0 .. size |-> iter[1 .. k]]
<1>8. r[0] = base /\ \A k \in 1 .. size : r[k] = RemoveConnection(r[k - 1], seq[k])
  BY <1>1, <1>7, Indices
<1>9. r[size] = Removed(base, seq)
  BY <1>1, <1>2
<1> HIDE DEF r
<1>10. \A k \in 0 .. size : r[k] \in V
  <2>1. r[0] \in V /\ \A k \in 1 .. size : r[k - 1] \in V => r[k] \in V
    BY <1>8 DEF size, RemovedClosed
  <2> QED
    BY <1>1, <2>1, StaysIn
<1> QED
  BY <1>8, <1>9, <1>10 DEF size, RemovedRun

-----------------------------------------------------------------------------
(* A node less.                                                            *)

LEMMA OutEdgesFacts ==
  ASSUME NEW u \in Graphs, Agrees(u), NEW n \in NodeIds(u)
  PROVE  /\ OutEdges(u, n) \in Seq(Nat)
         /\ Len(OutEdges(u, n)) = Cardinality(u.nodes[n].out_edges)
         /\ DOMAIN OutEdges(u, n) = 1 .. Len(OutEdges(u, n))
         /\ \A j \in DOMAIN OutEdges(u, n) : OutEdges(u, n)[j] \in u.nodes[n].out_edges
         /\ \A e \in u.nodes[n].out_edges : \E j \in DOMAIN OutEdges(u, n) : OutEdges(u, n)[j] = e
<1> DEFINE S == u.nodes[n].out_edges
           size == Cardinality(S)
<1>1. S \subseteq EdgeIds(u) /\ EdgeIds(u) \subseteq 1 .. Len(u.edges) /\ Len(u.edges) \in Nat
  BY OutAgrees, GraphFacts
<1>2. IsFiniteSet(S) /\ S \subseteq Nat
  <2>1. IsFiniteSet(1 .. Len(u.edges))
    BY <1>1, FS_Interval
  <2>2. S \subseteq 1 .. Len(u.edges)
    BY <1>1
  <2> QED
    BY <2>1, <2>2, FS_Subset
<1> HIDE DEF S
<1>3. /\ size \in Nat /\ InOrder(S) \in [1 .. size -> S]
      /\ \A e \in S : \E i \in 1 .. size : InOrder(S)[i] = e
  BY <1>2, InOrderFacts
<1> HIDE DEF size
<1>4. InOrder(S) \in [1 .. size -> Nat]
  BY <1>2, <1>3
<1>5. InOrder(S) \in Seq(Nat)
  BY <1>3, <1>4, SeqDef
<1>6. DOMAIN InOrder(S) = 1 .. size /\ Len(InOrder(S)) = size
  <2> DEFINE seq == InOrder(S)
  <2>1. seq \in Seq(Nat) /\ DOMAIN seq = 1 .. size /\ size \in Nat
    BY <1>3, <1>4, <1>5
  <2> HIDE DEF seq
  <2>2. Len(seq) = size
    BY <2>1, LenProperties
  <2> QED
    BY <2>1, <2>2 DEF seq
<1> QED
  BY <1>3, <1>5, <1>6 DEF OutEdges, S, size

\* The edges at a node, as RemoveNode goes through them.
AllEdges(u, n) == u.nodes[n].in \o OutEdges(u, n)

LEMMA AllEdgesFacts ==
  ASSUME NEW u \in Graphs, Agrees(u), NEW n \in NodeIds(u)
  PROVE  /\ AllEdges(u, n) \in Seq(Nat)
         /\ \A j \in DOMAIN AllEdges(u, n) : AllEdges(u, n)[j] # 0 =>
              /\ AllEdges(u, n)[j] \in EdgeIds(u)
              /\ \/ u.edges[AllEdges(u, n)[j]].consumer = n
                 \/ u.edges[AllEdges(u, n)[j]].producer = n
         /\ \A e \in EdgeIds(u) : u.edges[e].consumer = n \/ u.edges[e].producer = n =>
              \E j \in DOMAIN AllEdges(u, n) : AllEdges(u, n)[j] = e
<1> DEFINE in == u.nodes[n].in
           out == OutEdges(u, n)
<1>1. in \in Seq(Nat) /\ DOMAIN in = 1 .. Len(in) /\ Len(in) \in Nat
  BY GraphFacts, NodeFacts
<1>2. /\ out \in Seq(Nat) /\ DOMAIN out = 1 .. Len(out) /\ Len(out) \in Nat
      /\ \A j \in DOMAIN out : out[j] \in u.nodes[n].out_edges
      /\ \A e \in u.nodes[n].out_edges : \E j \in DOMAIN out : out[j] = e
  BY OutEdgesFacts, LenProperties
<1> HIDE DEF in, out
<1>3. /\ in \o out \in Seq(Nat) /\ Len(in \o out) = Len(in) + Len(out)
      /\ \A j \in 1 .. Len(in) + Len(out) :
           (in \o out)[j] = IF j <= Len(in) THEN in[j] ELSE out[j - Len(in)]
  BY <1>1, <1>2, ConcatProperties
<1>4. DOMAIN (in \o out) = 1 .. Len(in) + Len(out)
  BY <1>3, LenProperties
<1>5. ASSUME NEW j \in DOMAIN (in \o out), (in \o out)[j] # 0
      PROVE  /\ (in \o out)[j] \in EdgeIds(u)
             /\ \/ u.edges[(in \o out)[j]].consumer = n
                \/ u.edges[(in \o out)[j]].producer = n
  <2>1. CASE j <= Len(in)
    <3>1. j \in DOMAIN in /\ (in \o out)[j] = in[j]
      BY <1>1, <1>2, <1>3, <1>4, <2>1
    <3>2. in[j] # 0
      BY <1>5, <3>1
    <3>3. in[j] \in EdgeIds(u) /\ u.edges[in[j]].consumer = n
      <4>1. j \in DOMAIN u.nodes[n].in /\ u.nodes[n].in[j] # 0
        BY <3>1, <3>2 DEF in
      <4>2. u.nodes[n].in[j] \in EdgeIds(u) /\ u.edges[u.nodes[n].in[j]].consumer = n
        BY <4>1, InputAgrees
      <4> QED
        BY <4>2 DEF in
    <3> QED
      BY <3>1, <3>3
  <2>2. CASE ~(j <= Len(in))
    <3>1. j - Len(in) \in DOMAIN out /\ (in \o out)[j] = out[j - Len(in)]
      BY <1>1, <1>2, <1>3, <1>4, <2>2
    <3> QED
      BY <1>2, <3>1, OutAgrees
  <2> QED
    BY <2>1, <2>2
<1>6. ASSUME NEW e \in EdgeIds(u), u.edges[e].consumer = n \/ u.edges[e].producer = n
      PROVE  \E j \in DOMAIN (in \o out) : (in \o out)[j] = e
  <2>1. CASE u.edges[e].consumer = n
    <3>1. u.edges[e].idx \in DOMAIN in /\ in[u.edges[e].idx] = e
      BY <2>1, EdgeAgrees DEF in
    <3>2. u.edges[e].idx \in DOMAIN (in \o out) /\ (in \o out)[u.edges[e].idx] = e
      BY <1>1, <1>2, <1>3, <1>4, <3>1
    <3> QED
      BY <3>2
  <2>2. CASE u.edges[e].producer = n
    <3>1. e \in u.nodes[n].out_edges
      BY <2>2, EdgeAgrees
    <3>2. PICK j \in DOMAIN out : out[j] = e
      BY <1>2, <3>1
    <3>3. /\ Len(in) + j \in DOMAIN (in \o out) /\ ~(Len(in) + j <= Len(in))
          /\ (Len(in) + j) - Len(in) = j
      BY <1>1, <1>2, <1>4
    <3>4. (in \o out)[Len(in) + j] = e
      BY <1>3, <1>4, <3>2, <3>3
    <3> QED
      BY <3>3, <3>4
  <2> QED
    BY <1>6, <2>1, <2>2
<1> QED
  BY <1>3, <1>5, <1>6 DEF AllEdges, in, out

LEMMA ManyRemoved ==
  ASSUME NEW u \in Graphs, Agrees(u), HaveTensors(u), NEW seq \in Seq(Nat)
  PROVE  Without(u, {seq[j] : j \in DOMAIN seq}, Removed(u, seq))
<1> DEFINE size == Len(seq)
           first(k) == {seq[j] : j \in 1 .. k}
           V == {h \in Graphs : \E X \in SUBSET Nat : Without(u, X, h)}
           W == [k \in 0 .. size |-> {h \in V : Without(u, first(k), h)}]
<1>1. size \in Nat /\ DOMAIN seq = 1 .. size /\ \A j \in 1 .. size : seq[j] \in Nat
  BY SeqFacts
<1>2. Without(u, {}, u)
  BY DEF Without, SameLayers
<1>3. u \in V
  BY <1>2
<1>4. ASSUME NEW h, NEW X \in SUBSET Nat, Without(u, X, h), NEW k \in 1 .. size
      PROVE  Without(u, X \cup {seq[k]}, RemoveConnection(h, seq[k]))
  BY <1>1, <1>4, WithoutMore
<1>5. \A X, h : Without(u, X, h) => h \in Graphs
  BY DEF Without, SameLayers
<1>6. \A h \in V : \A k \in 1 .. size : RemoveConnection(h, seq[k]) \in V
  <2> SUFFICES ASSUME NEW h \in V, NEW k \in 1 .. size PROVE RemoveConnection(h, seq[k]) \in V
    OBVIOUS
  <2>1. PICK X \in SUBSET Nat : Without(u, X, h)
    OBVIOUS
  <2>2. X \cup {seq[k]} \in SUBSET Nat
    BY <1>1
  <2> QED
    BY <1>4, <1>5, <2>1, <2>2
<1> HIDE DEF V
<1>7. PICK r :
        /\ \A k \in 0 .. size : r[k] \in V
        /\ r[0] = u /\ Removed(u, seq) = r[size]
        /\ \A k \in 1 .. size : r[k] = RemoveConnection(r[k - 1], seq[k])
  <2>1. RemovedClosed(V, seq)
    BY <1>6 DEF RemovedClosed
  <2>2. RemovedRun(V, u, seq)
    BY <1>3, <2>1, RemovedUnrolled
  <2> QED
    BY <2>2 DEF RemovedRun
<1>8. r[0] \in W[0]
  <2>1. first(0) = {}
    OBVIOUS
  <2> HIDE DEF first
  <2>2. 0 \in 0 .. size /\ r[0] = u
    BY <1>1, <1>7
  <2>3. Without(u, first(0), r[0]) /\ r[0] \in V
    BY <1>2, <1>3, <2>1, <2>2
  <2> QED
    BY <2>2, <2>3
<1>9. ASSUME NEW k \in 1 .. size, r[k - 1] \in W[k - 1] PROVE r[k] \in W[k]
  <2>1. k - 1 \in 0 .. size /\ k \in 0 .. size
    BY <1>1
  <2>2. Without(u, first(k - 1), r[k - 1])
    BY <1>9, <2>1
  <2>3. first(k) = first(k - 1) \cup {seq[k]}
    BY <1>1
  <2>4. first(k - 1) \in SUBSET Nat
    BY <1>1
  <2>5. Without(u, first(k), r[k])
    BY <1>4, <1>7, <2>2, <2>3, <2>4
  <2> QED
    BY <1>7, <2>1, <2>5
<1>10. r[size] \in W[size]
  <2> HIDE DEF W
  <2> QED
    BY <1>1, <1>8, <1>9, StepByStep
<1>11. size \in 0 .. size
  BY <1>1
<1> QED
  BY <1>1, <1>7, <1>10, <1>11

\* remove_node leaves no edge of the node behind: the inputs it fed are free.
LEMMA RemovedNode ==
  ASSUME NEW u \in Graphs, Agrees(u), FeedersHaveTensors(u), NEW n \in NodeIds(u)
  PROVE  /\ LayersOf(u, NodeIds(u) \ {n}, RemoveNode(u, n))
         /\ \A m \in NodeIds(u) \ {n} : \A i \in DOMAIN u.nodes[m].in :
              Feed(RemoveNode(u, n), m, i) = IF Feed(u, m, i) = n THEN 0 ELSE Feed(u, m, i)
<1> DEFINE edges == AllEdges(u, n)
           X == {edges[j] : j \in DOMAIN edges}
           h == Removed(u, edges)
           k == RemoveNode(u, n)
<1>1. k = [h EXCEPT !.nodes[n] = NoNode]
  BY DEF RemoveNode, Removed, AllEdges, FoldLeft, MapThenFoldSet
<1>2. /\ edges \in Seq(Nat)
      /\ \A e \in EdgeIds(u) : e \in X <=> u.edges[e].consumer = n \/ u.edges[e].producer = n
  <2>1. \A e \in EdgeIds(u) : e # 0
    BY GraphFacts
  <2> HIDE DEF edges
  <2>2. /\ edges \in Seq(Nat)
        /\ \A j \in DOMAIN edges : edges[j] # 0 =>
             edges[j] \in EdgeIds(u) /\ (u.edges[edges[j]].consumer = n \/ u.edges[edges[j]].producer = n)
        /\ \A e \in EdgeIds(u) : u.edges[e].consumer = n \/ u.edges[e].producer = n =>
             \E j \in DOMAIN edges : edges[j] = e
    BY AllEdgesFacts DEF edges
  <2> QED
    BY <2>1, <2>2
<1> HIDE DEF edges
<1>3. Without(u, X, h)
  BY <1>2, EdgesHaveTensors, ManyRemoved
<1> HIDE DEF k, h, X
<1>4. Agrees(h)
  BY <1>3, WithoutAgrees
<1>5. /\ h \in Graphs /\ NodeIds(h) = NodeIds(u) /\ DOMAIN h.nodes = DOMAIN u.nodes
      /\ EdgeIds(h) = EdgeIds(u) \ X
      /\ \A e \in EdgeIds(h) : h.edges[e] = u.edges[e]
      /\ \A m \in NodeIds(u) :
           /\ h.nodes[m].type = u.nodes[m].type /\ h.nodes[m].out = u.nodes[m].out
           /\ DOMAIN h.nodes[m].in = DOMAIN u.nodes[m].in
           /\ \A i \in DOMAIN u.nodes[m].in :
                h.nodes[m].in[i] = IF u.nodes[m].in[i] \in X THEN 0 ELSE u.nodes[m].in[i]
      /\ DOMAIN h.tensors = DOMAIN u.tensors
  BY <1>3 DEF Without, SameLayers
<1>6. n \in DOMAIN h.nodes /\ h.nodes \in Seq(Node \cup {NoNode})
  BY <1>5, GraphFacts
<1>7. /\ k.nodes = [h.nodes EXCEPT ![n] = NoNode] /\ k.edges = h.edges
      /\ k.tensors = h.tensors /\ k.handles = h.handles
      /\ k = [nodes |-> k.nodes, edges |-> k.edges, tensors |-> k.tensors, handles |-> k.handles]
  BY <1>1, <1>5 DEF Graphs
<1>8. k.nodes \in Seq(Node \cup {NoNode})
  <2>1. n \in 1 .. Len(h.nodes)
    BY <1>6, LenProperties
  <2> QED
    BY <1>6, <1>7, <2>1, ExceptSeq
<1>9. k \in Graphs
  BY <1>5, <1>7, <1>8, GraphFacts DEF Graphs
<1>10. /\ DOMAIN k.nodes = DOMAIN u.nodes /\ NodeIds(k) = NodeIds(u) \ {n}
       /\ \A m \in NodeIds(k) : k.nodes[m] = h.nodes[m]
  <2>1. DOMAIN k.nodes = DOMAIN h.nodes /\ k.nodes[n] = NoNode
    BY <1>6, <1>7
  <2>2. \A m \in DOMAIN h.nodes : m # n => k.nodes[m] = h.nodes[m]
    BY <1>6, <1>7
  <2> QED
    BY <1>5, <2>1, <2>2 DEF NodeIds
<1>11. EdgeIds(k) = EdgeIds(h) /\ \A e \in EdgeIds(k) :
         u.edges[e].consumer # n /\ u.edges[e].producer # n /\ h.edges[e] = u.edges[e]
  BY <1>2, <1>5, <1>7 DEF EdgeIds
<1>12. Agrees(k)
  <2>1. ASSUME NEW e \in EdgeIds(k)
        PROVE  /\ k.edges[e].producer \in NodeIds(k) /\ k.edges[e].consumer \in NodeIds(k)
               /\ e \in k.nodes[k.edges[e].producer].out_edges
               /\ k.edges[e].idx \in DOMAIN k.nodes[k.edges[e].consumer].in
               /\ k.nodes[k.edges[e].consumer].in[k.edges[e].idx] = e
               /\ k.edges[e].tensor = k.nodes[k.edges[e].producer].out
    <3>1. /\ h.edges[e].producer \in NodeIds(h) /\ h.edges[e].consumer \in NodeIds(h)
          /\ e \in h.nodes[h.edges[e].producer].out_edges
          /\ h.edges[e].idx \in DOMAIN h.nodes[h.edges[e].consumer].in
          /\ h.nodes[h.edges[e].consumer].in[h.edges[e].idx] = e
          /\ h.edges[e].tensor = h.nodes[h.edges[e].producer].out
      BY <1>4, <1>11, EdgeAgrees
    <3>2. h.edges[e].producer \in NodeIds(k) /\ h.edges[e].consumer \in NodeIds(k)
      BY <1>5, <1>10, <1>11, <3>1
    <3>3. /\ k.nodes[h.edges[e].producer] = h.nodes[h.edges[e].producer]
          /\ k.nodes[h.edges[e].consumer] = h.nodes[h.edges[e].consumer]
      BY <1>10, <3>2
    <3>4. k.edges[e] = h.edges[e]
      BY <1>7
    <3> QED
      BY <3>1, <3>2, <3>3, <3>4
  <2>2. ASSUME NEW m \in NodeIds(k), NEW i \in DOMAIN k.nodes[m].in, k.nodes[m].in[i] # 0
        PROVE  /\ k.nodes[m].in[i] \in EdgeIds(k)
               /\ k.edges[k.nodes[m].in[i]].consumer = m /\ k.edges[k.nodes[m].in[i]].idx = i
    <3>1. m \in NodeIds(h) /\ k.nodes[m] = h.nodes[m]
      BY <1>5, <1>10
    <3>2. /\ h.nodes[m].in[i] \in EdgeIds(h)
          /\ h.edges[h.nodes[m].in[i]].consumer = m /\ h.edges[h.nodes[m].in[i]].idx = i
      BY <1>4, <2>2, <3>1, InputAgrees
    <3> QED
      BY <1>7, <1>11, <3>1, <3>2
  <2>3. ASSUME NEW m \in NodeIds(k), NEW e \in k.nodes[m].out_edges
        PROVE  e \in EdgeIds(k) /\ k.edges[e].producer = m
    <3>1. m \in NodeIds(h) /\ k.nodes[m] = h.nodes[m]
      BY <1>5, <1>10
    <3> QED
      BY <1>4, <1>7, <1>11, <3>1, OutAgrees
  <2>4. ASSUME NEW y \in DOMAIN k.tensors
        PROVE  k.tensors[y].bound = {e \in EdgeIds(k) : k.edges[e].tensor = y}
    BY <1>4, <1>7, <1>11, BoundAgrees
  <2> QED
    BY <2>1, <2>2, <2>3, <2>4, AllAgrees
<1>13. ASSUME NEW m \in NodeIds(u) \ {n}, NEW i \in DOMAIN u.nodes[m].in
       PROVE  Feed(k, m, i) = IF Feed(u, m, i) = n THEN 0 ELSE Feed(u, m, i)
  <2> DEFINE e == u.nodes[m].in[i]
  <2>1. k.nodes[m].in[i] = IF e \in X THEN 0 ELSE e
    BY <1>5, <1>10
  <2>2. n # 0
    BY GraphFacts
  <2>3. CASE e = 0
    BY <2>1, <2>2, <2>3 DEF Feed
  <2>4. CASE e # 0
    <3>1. e \in EdgeIds(u) /\ u.edges[e].consumer = m
      BY <2>4, InputAgrees
    <3>2. Feed(u, m, i) = u.edges[e].producer
      BY <2>4 DEF Feed, Producer
    <3>3. e \in X <=> Feed(u, m, i) = n
      BY <1>2, <3>1, <3>2
    <3> HIDE DEF e
    <3>4. CASE e \in X
      BY <2>1, <3>3, <3>4 DEF Feed
    <3>5. CASE e \notin X
      <4>1. k.nodes[m].in[i] = e /\ k.edges[e].producer = u.edges[e].producer
        BY <1>5, <1>7, <2>1, <3>1, <3>5
      <4> QED
        BY <2>4, <3>2, <3>3, <3>5, <4>1 DEF Feed, Producer
    <3> QED
      BY <3>4, <3>5
  <2> QED
    BY <2>3, <2>4
<1>14. LayersOf(u, NodeIds(u) \ {n}, k)
  BY <1>5, <1>7, <1>9, <1>10, <1>12 DEF LayersOf
<1> QED
  BY <1>13, <1>14 DEF k

-----------------------------------------------------------------------------
(* Connections one after the other.                                        *)

\* As fuse_node_with_activation and fuse_convolution_with_batch_normalization
\* connect the driving nodes of the node that they remove.
Join(h, from, d) == AddConnection(h, from, d.node, d.idx)
Drive(h, from, d) == ConfigureTensor(AddConnection(h, from, d.node, d.idx), h.nodes[from].out)
Joined(base, from, seq) == FoldLeft(LAMBDA h, d : Join(h, from, d), base, seq)
Driven(base, from, seq) == FoldLeft(LAMBDA h, d : Drive(h, from, d), base, seq)

JoinedClosed(V, from, seq) == \A h \in V : \A k \in 1 .. Len(seq) : Join(h, from, seq[k]) \in V
JoinedRun(V, base, from, seq) ==
  \E r : /\ \A k \in 0 .. Len(seq) : r[k] \in V
        /\ r[0] = base /\ Joined(base, from, seq) = r[Len(seq)]
        /\ \A k \in 1 .. Len(seq) : r[k] = Join(r[k - 1], from, seq[k])

LEMMA JoinedUnrolled ==
  ASSUME NEW from, NEW seq, Len(seq) \in Nat, DOMAIN seq = 1 .. Len(seq), NEW V, NEW base \in V, JoinedClosed(V, from, seq)
  PROVE  JoinedRun(V, base, from, seq)
<1> DEFINE size == Len(seq)
           Solves(f) == f = [s \in SUBSET (1 .. size) |->
                               IF s = {} THEN base
                               ELSE Join(f[s \ {Max(s)}], from, seq[Max(s)])]
           iter == CHOOSE f : Solves(f)
           step == [k \in 1 .. size |-> [h \in V |-> Join(h, from, seq[k])]]
<1>1. size \in Nat /\ DOMAIN seq = 1 .. size
  OBVIOUS
<1>2. Joined(base, from, seq) = iter[1 .. size]
  BY <1>1 DEF Joined, FoldLeft, MapThenFoldSet
<1> HIDE DEF size
<1>3. step \in [1 .. size -> [V -> V]]
  BY DEF size, JoinedClosed
<1>4. PICK f \in [SUBSET (1 .. size) -> V] : \A s \in SUBSET (1 .. size) :
           f[s] = IF s = {} THEN base ELSE step[Max(s)][f[s \ {Max(s)}]]
  <2> HIDE DEF step
  <2>1. FoldIn(V, size, base, step)
    BY <1>1, <1>3, ClosedFold
  <2> QED
    BY <2>1 DEF FoldIn
<1>5. Solves(f)
  <2>1. ASSUME NEW s \in SUBSET (1 .. size), s # {}
        PROVE  step[Max(s)][f[s \ {Max(s)}]] = Join(f[s \ {Max(s)}], from, seq[Max(s)])
    BY <1>1, <2>1, MaxOfPart
  <2> HIDE DEF step
  <2> QED
    BY <1>4, <2>1
<1>6. Solves(iter)
  BY <1>5
<1> HIDE DEF iter
<1>7. /\ iter[{}] = base
      /\ \A k \in 1 .. size : iter[1 .. k] = Join(iter[1 .. k - 1], from, seq[k])
  <2>1. iter[{}] = base
    BY <1>1, <1>6, PartOfInterval
  <2>2. ASSUME NEW k \in 1 .. size PROVE iter[1 .. k] = Join(iter[1 .. k - 1], from, seq[k])
    <3>1. /\ 1 .. k \in SUBSET (1 .. size) /\ 1 .. k # {}
          /\ Max(1 .. k) = k /\ (1 .. k) \ {k} = 1 .. k - 1
      BY <1>1, PartOfInterval
    <3>2. iter[1 .. k] = Join(iter[(1 .. k) \ {Max(1 .. k)}], from, seq[Max(1 .. k)])
      BY <1>6, <3>1
    <3> QED
      BY <3>1, <3>2
  <2> QED
    BY <2>1, <2>2
<1> HIDE DEF Solves
<1> DEFINE r == [k \in 0 .. size |-> iter[1 .. k]]
<1>8. r[0] = base /\ \A k \in 1 .. size : r[k] = Join(r[k - 1], from, seq[k])
  BY <1>1, <1>7, Indices
<1>9. r[size] = Joined(base, from, seq)
  BY <1>1, <1>2
<1> HIDE DEF r
<1>10. \A k \in 0 .. size : r[k] \in V
  <2>1. r[0] \in V /\ \A k \in 1 .. size : r[k - 1] \in V => r[k] \in V
    BY <1>8 DEF size, JoinedClosed
  <2> QED
    BY <1>1, <2>1, StaysIn
<1> QED
  BY <1>8, <1>9, <1>10 DEF size, JoinedRun

DrivenClosed(V, from, seq) == \A h \in V : \A k \in 1 .. Len(seq) : Drive(h, from, seq[k]) \in V
DrivenRun(V, base, from, seq) ==
  \E r : /\ \A k \in 0 .. Len(seq) : r[k] \in V
        /\ r[0] = base /\ Driven(base, from, seq) = r[Len(seq)]
        /\ \A k \in 1 .. Len(seq) : r[k] = Drive(r[k - 1], from, seq[k])

LEMMA DrivenUnrolled ==
  ASSUME NEW from, NEW seq, Len(seq) \in Nat, DOMAIN seq = 1 .. Len(seq), NEW V, NEW base \in V, DrivenClosed(V, from, seq)
  PROVE  DrivenRun(V, base, from, seq)
<1> DEFINE size == Len(seq)
           Solves(f) == f = [s \in SUBSET (1 .. size) |->
                               IF s = {} THEN base
                               ELSE Drive(f[s \ {Max(s)}], from, seq[Max(s)])]
           iter == CHOOSE f : Solves(f)
           step == [k \in 1 .. size |-> [h \in V |-> Drive(h, from, seq[k])]]
<1>1. size \in Nat /\ DOMAIN seq = 1 .. size
  OBVIOUS
<1>2. Driven(base, from, seq) = iter[1 .. size]
  BY <1>1 DEF Driven, FoldLeft, MapThenFoldSet
<1> HIDE DEF size
<1>3. step \in [1 .. size -> [V -> V]]
  BY DEF size, DrivenClosed
<1>4. PICK f \in [SUBSET (1 .. size) -> V] : \A s \in SUBSET (1 .. size) :
           f[s] = IF s = {} THEN base ELSE step[Max(s)][f[s \ {Max(s)}]]
  <2> HIDE DEF step
  <2>1. FoldIn(V, size, base, step)
    BY <1>1, <1>3, ClosedFold
  <2> QED
    BY <2>1 DEF FoldIn
<1>5. Solves(f)
  <2>1. ASSUME NEW s \in SUBSET (1 .. size), s # {}
        PROVE  step[Max(s)][f[s \ {Max(s)}]] = Drive(f[s \ {Max(s)}], from, seq[Max(s)])
    BY <1>1, <2>1, MaxOfPart
  <2> HIDE DEF step
  <2> QED
    BY <1>4, <2>1
<1>6. Solves(iter)
  BY <1>5
<1> HIDE DEF iter
<1>7. /\ iter[{}] = base
      /\ \A k \in 1 .. size : iter[1 .. k] = Drive(iter[1 .. k - 1], from, seq[k])
  <2>1. iter[{}] = base
    BY <1>1, <1>6, PartOfInterval
  <2>2. ASSUME NEW k \in 1 .. size PROVE iter[1 .. k] = Drive(iter[1 .. k - 1], from, seq[k])
    <3>1. /\ 1 .. k \in SUBSET (1 .. size) /\ 1 .. k # {}
          /\ Max(1 .. k) = k /\ (1 .. k) \ {k} = 1 .. k - 1
      BY <1>1, PartOfInterval
    <3>2. iter[1 .. k] = Drive(iter[(1 .. k) \ {Max(1 .. k)}], from, seq[Max(1 .. k)])
      BY <1>6, <3>1
    <3> QED
      BY <3>1, <3>2
  <2> QED
    BY <2>1, <2>2
<1> HIDE DEF Solves
<1> DEFINE r == [k \in 0 .. size |-> iter[1 .. k]]
<1>8. r[0] = base /\ \A k \in 1 .. size : r[k] = Drive(r[k - 1], from, seq[k])
  BY <1>1, <1>7, Indices
<1>9. r[size] = Driven(base, from, seq)
  BY <1>1, <1>2
<1> HIDE DEF r
<1>10. \A k \in 0 .. size : r[k] \in V
  <2>1. r[0] \in V /\ \A k \in 1 .. size : r[k - 1] \in V => r[k] \in V
    BY <1>8 DEF size, DrivenClosed
  <2> QED
    BY <1>1, <2>1, StaysIn
<1> QED
  BY <1>8, <1>9, <1>10 DEF size, DrivenRun

InputsClosed(V, n, seq) == \A h \in V : \A k \in 1 .. Len(seq) : AddConnection(h, seq[k], n, k) \in V
InputsRun(V, base, n, seq) ==
  \E r : /\ \A k \in 0 .. Len(seq) : r[k] \in V
        /\ r[0] = base /\ ConnectInputs(base, n, seq) = r[Len(seq)]
        /\ \A k \in 1 .. Len(seq) : r[k] = AddConnection(r[k - 1], seq[k], n, k)

LEMMA InputsUnrolled ==
  ASSUME NEW n, NEW seq, Len(seq) \in Nat, DOMAIN seq = 1 .. Len(seq), NEW V, NEW base \in V, InputsClosed(V, n, seq)
  PROVE  InputsRun(V, base, n, seq)
<1> DEFINE size == Len(seq)
           ids == [i \in DOMAIN seq |-> i]
           Solves(f) == f = [s \in SUBSET (1 .. size) |->
                               IF s = {} THEN base
                               ELSE AddConnection(f[s \ {Max(s)}], seq[ids[Max(s)]], n, ids[Max(s)])]
           iter == CHOOSE f : Solves(f)
           step == [k \in 1 .. size |-> [h \in V |-> AddConnection(h, seq[k], n, k)]]
<1>1. size \in Nat /\ DOMAIN seq = 1 .. size
  OBVIOUS
<1>0. DOMAIN ids = 1 .. size /\ \A k \in 1 .. size : ids[k] = k
  BY <1>1
<1>2. ConnectInputs(base, n, seq) = iter[1 .. size]
  BY <1>0, <1>1 DEF ConnectInputs, FoldLeftDomain, FoldLeft, MapThenFoldSet
<1> HIDE DEF ids, size
<1>3. step \in [1 .. size -> [V -> V]]
  BY DEF size, InputsClosed
<1>4. PICK f \in [SUBSET (1 .. size) -> V] : \A s \in SUBSET (1 .. size) :
           f[s] = IF s = {} THEN base ELSE step[Max(s)][f[s \ {Max(s)}]]
  <2> HIDE DEF step
  <2>1. FoldIn(V, size, base, step)
    BY <1>1, <1>3, ClosedFold
  <2> QED
    BY <2>1 DEF FoldIn
<1>5. Solves(f)
  <2>1. ASSUME NEW s \in SUBSET (1 .. size), s # {}
        PROVE  step[Max(s)][f[s \ {Max(s)}]] = AddConnection(f[s \ {Max(s)}], seq[ids[Max(s)]], n, ids[Max(s)])
    BY <1>0, <1>1, <2>1, MaxOfPart
  <2> HIDE DEF step
  <2> QED
    BY <1>4, <2>1
<1>6. Solves(iter)
  BY <1>5
<1> HIDE DEF iter
<1>7. /\ iter[{}] = base
      /\ \A k \in 1 .. size : iter[1 .. k] = AddConnection(iter[1 .. k - 1], seq[k], n, k)
  <2>1. iter[{}] = base
    BY <1>1, <1>6, PartOfInterval
  <2>2. ASSUME NEW k \in 1 .. size PROVE iter[1 .. k] = AddConnection(iter[1 .. k - 1], seq[k], n, k)
    <3>1. /\ 1 .. k \in SUBSET (1 .. size) /\ 1 .. k # {}
          /\ Max(1 .. k) = k /\ (1 .. k) \ {k} = 1 .. k - 1
      BY <1>1, PartOfInterval
    <3>2. iter[1 .. k] = AddConnection(iter[(1 .. k) \ {Max(1 .. k)}], seq[ids[Max(1 .. k)]], n, ids[Max(1 .. k)])
      BY <1>6, <3>1
    <3> QED
      BY <1>0, <3>1, <3>2
  <2> QED
    BY <2>1, <2>2
<1> HIDE DEF Solves
<1> DEFINE r == [k \in 0 .. size |-> iter[1 .. k]]
<1>8. r[0] = base /\ \A k \in 1 .. size : r[k] = AddConnection(r[k - 1], seq[k], n, k)
  BY <1>1, <1>7, Indices
<1>9. r[size] = ConnectInputs(base, n, seq)
  BY <1>1, <1>2
<1> HIDE DEF r
<1>10. \A k \in 0 .. size : r[k] \in V
  <2>1. r[0] \in V /\ \A k \in 1 .. size : r[k - 1] \in V => r[k] \in V
    BY <1>8 DEF size, InputsClosed
  <2> QED
    BY <1>1, <2>1, StaysIn
<1> QED
  BY <1>8, <1>9, <1>10 DEF size, InputsRun

\* Tensor y gets a handle.
WithHandle(u, y, new) ==
  [u EXCEPT !.handles = Append(@, new), !.tensors[y].handle = Len(u.handles) + 1]
PutHandle(tensors, y, id) == [tensors EXCEPT ![y].handle = id]

LEMMA HandleGiven ==
  ASSUME NEW u \in Graphs, NEW y \in DOMAIN u.tensors, NEW new \in Handle
  PROVE  /\ WithHandle(u, y, new) \in Graphs
         /\ WithHandle(u, y, new).nodes = u.nodes /\ WithHandle(u, y, new).edges = u.edges
         /\ DOMAIN WithHandle(u, y, new).tensors = DOMAIN u.tensors
         /\ \A x \in DOMAIN u.tensors :
              WithHandle(u, y, new).tensors[x].bound = u.tensors[x].bound
<1> DEFINE h == WithHandle(u, y, new)
           id == Len(u.handles) + 1
           handles == Append(u.handles, new)
           tensors == PutHandle(u.tensors, y, id)
           tensor == [u.tensors[y] EXCEPT !.handle = id]
<1>1. h = [u EXCEPT !.handles = Append(@, new), !.tensors[y].handle = id]
  BY DEF WithHandle
<1>2. /\ h.nodes = u.nodes /\ h.edges = u.edges /\ h.handles = handles /\ h.tensors = tensors
      /\ h = [nodes |-> h.nodes, edges |-> h.edges, tensors |-> h.tensors, handles |-> h.handles]
  BY <1>1 DEF Graphs, PutHandle
<1>3. /\ u.handles \in Seq(Handle) /\ u.tensors \in Seq(Tensor) /\ id \in Nat
      /\ y \in 1 .. Len(u.tensors) /\ u.tensors[y] \in Tensor
  BY GraphFacts, SeqFacts
<1> HIDE DEF h, id
<1>4. tensor \in Tensor /\ tensor.bound = u.tensors[y].bound
  BY <1>3 DEF Tensor
<1>5. tensors = [u.tensors EXCEPT ![y] = tensor]
  BY DEF PutHandle
<1> HIDE DEF tensor, tensors
<1>6. handles \in Seq(Handle)
  BY <1>3, AppendProperties
<1>7. tensors \in Seq(Tensor) /\ DOMAIN tensors = DOMAIN u.tensors
  BY <1>3, <1>4, <1>5, ExceptSeq
<1>8. \A x \in DOMAIN u.tensors : tensors[x].bound = u.tensors[x].bound
  BY <1>4, <1>5
<1> HIDE DEF handles
<1>9. h \in Graphs
  BY <1>2, <1>6, <1>7, GraphFacts DEF Graphs
<1> QED
  BY <1>2, <1>7, <1>8, <1>9 DEF h

\* create_tensor of a backend is about handles only.
LEMMA Configured ==
  ASSUME NEW u \in Graphs, NEW y \in DOMAIN u.tensors
  PROVE  /\ ConfigureTensor(u, y) \in Graphs
         /\ ConfigureTensor(u, y).nodes = u.nodes /\ ConfigureTensor(u, y).edges = u.edges
         /\ DOMAIN ConfigureTensor(u, y).tensors = DOMAIN u.tensors
         /\ \A x \in DOMAIN u.tensors :
              ConfigureTensor(u, y).tensors[x].bound = u.tensors[x].bound
<1>1. CASE u.tensors[y].handle # 0
  BY <1>1 DEF ConfigureTensor
<1>2. CASE u.tensors[y].handle = 0
  <2> DEFINE new == [parent |-> 0, part |-> 0]
  <2>1. ConfigureTensor(u, y) = WithHandle(u, y, new)
    BY <1>2 DEF ConfigureTensor, WithHandle
  <2>2. new \in Handle
    BY DEF Handle
  <2> HIDE DEF new
  <2> QED
    BY <2>1, <2>2, HandleGiven
<1> QED
  BY <1>1, <1>2

LEMMA ConfiguredLayers ==
  ASSUME NEW u, NEW h, SameLayers(u, h), NEW y \in DOMAIN u.tensors
  PROVE  SameLayers(u, ConfigureTensor(h, y))
<1>1. h \in Graphs /\ y \in DOMAIN h.tensors
  BY DEF SameLayers
<1>2. /\ ConfigureTensor(h, y) \in Graphs
      /\ ConfigureTensor(h, y).nodes = h.nodes
      /\ DOMAIN ConfigureTensor(h, y).tensors = DOMAIN h.tensors
  BY <1>1, Configured
<1>3. NodeIds(ConfigureTensor(h, y)) = NodeIds(h)
  BY <1>2 DEF NodeIds
<1> QED
  BY <1>2, <1>3 DEF SameLayers

LEMMA ConnectsLayers ==
  ASSUME NEW u, NEW h, SameLayers(u, h), NEW from \in NodeIds(u),
         u.nodes[from].out \in DOMAIN u.tensors,
         NEW to \in NodeIds(u), NEW idx \in DOMAIN u.nodes[to].in
  PROVE  SameLayers(u, AddConnection(h, from, to, idx))
<1>1. /\ h \in Graphs /\ from \in NodeIds(h) /\ to \in NodeIds(h)
      /\ idx \in DOMAIN h.nodes[to].in /\ h.nodes[from].out \in DOMAIN h.tensors
  BY DEF SameLayers
<1>2. CASE h.nodes[to].in[idx] = 0 \/ ~MayConnect(h, from, to, idx)
  <2>1. SameLayers(h, AddConnection(h, from, to, idx))
    BY <1>1, <1>2, Connected DEF OneMoreEdge
  <2> HIDE DEF AddConnection
  <2> QED
    BY <2>1 DEF SameLayers
<1>3. CASE h.nodes[to].in[idx] # 0 /\ MayConnect(h, from, to, idx)
  BY <1>3 DEF MayConnect, AddConnection
<1> QED
  BY <1>2, <1>3

\* h is u with the inputs S, which were free, fed by `from`.
Joins(u, from, S, h) ==
  /\ SameLayers(u, h) /\ Agrees(h)
  /\ \A n \in NodeIds(u) : \A i \in DOMAIN u.nodes[n].in :
       Feed(h, n, i) = IF <<n, i>> \in S THEN from ELSE Feed(u, n, i)

LEMMA JoinsMore ==
  ASSUME NEW u \in Graphs, NEW from \in NodeIds(u), u.nodes[from].out \in DOMAIN u.tensors,
         NEW S, NEW h, Joins(u, from, S, h),
         NEW to \in NodeIds(u), NEW idx \in DOMAIN u.nodes[to].in, Feed(u, to, idx) = 0
  PROVE  Joins(u, from, S \cup {<<to, idx>>}, AddConnection(h, from, to, idx))
<1> DEFINE k == AddConnection(h, from, to, idx)
<1>1. /\ h \in Graphs /\ Agrees(h) /\ NodeIds(h) = NodeIds(u)
      /\ \A n \in NodeIds(u) : DOMAIN h.nodes[n].in = DOMAIN u.nodes[n].in
      /\ h.nodes[from].out \in DOMAIN h.tensors
      /\ Feed(h, to, idx) \in {0, from}
  BY DEF Joins, SameLayers
<1>2. /\ Agrees(k)
      /\ \A n \in NodeIds(h) : \A i \in DOMAIN h.nodes[n].in :
           Feed(k, n, i) = IF n = to /\ i = idx THEN from ELSE Feed(h, n, i)
  BY <1>1, FeedConnected
<1>3. SameLayers(u, k)
  BY ConnectsLayers DEF Joins
<1> HIDE DEF k
<1>4. ASSUME NEW n \in NodeIds(u), NEW i \in DOMAIN u.nodes[n].in
      PROVE  Feed(k, n, i) = IF <<n, i>> \in S \cup {<<to, idx>>} THEN from ELSE Feed(u, n, i)
  <2>1. Feed(h, n, i) = IF <<n, i>> \in S THEN from ELSE Feed(u, n, i)
    BY DEF Joins
  <2>2. Feed(k, n, i) = IF n = to /\ i = idx THEN from ELSE Feed(h, n, i)
    BY <1>1, <1>2
  <2>3. <<n, i>> = <<to, idx>> <=> n = to /\ i = idx
    OBVIOUS
  <2> QED
    BY <2>1, <2>2, <2>3
<1> QED
  BY <1>2, <1>3, <1>4 DEF Joins, k

LEMMA JoinsConfigured ==
  ASSUME NEW u, NEW from, NEW S, NEW h, Joins(u, from, S, h), NEW y \in DOMAIN u.tensors
  PROVE  Joins(u, from, S, ConfigureTensor(h, y))
<1> DEFINE k == ConfigureTensor(h, y)
<1>1. /\ h \in Graphs /\ Agrees(h) /\ NodeIds(h) = NodeIds(u) /\ y \in DOMAIN h.tensors
      /\ \A n \in NodeIds(u) : DOMAIN h.nodes[n].in = DOMAIN u.nodes[n].in
  BY DEF Joins, SameLayers
<1>2. /\ k \in Graphs /\ k.nodes = h.nodes /\ k.edges = h.edges
      /\ DOMAIN k.tensors = DOMAIN h.tensors
      /\ \A x \in DOMAIN h.tensors : k.tensors[x].bound = h.tensors[x].bound
  BY <1>1, Configured
<1>3. SameLayers(u, k)
  BY ConfiguredLayers DEF Joins
<1> HIDE DEF k
<1>4. NodeIds(k) = NodeIds(h)
  BY <1>2 DEF NodeIds
<1>5. /\ Agrees(k)
      /\ \A n \in NodeIds(h) : \A i \in DOMAIN h.nodes[n].in : Feed(k, n, i) = Feed(h, n, i)
  BY <1>1, <1>2, <1>4, SameWires DEF LayersOf
<1> QED
  BY <1>1, <1>3, <1>5 DEF Joins, k

LEMMA JoinedFeeds ==
  ASSUME NEW u \in Graphs, Agrees(u), NEW from \in NodeIds(u),
         u.nodes[from].out \in DOMAIN u.tensors,
         NEW seq, Len(seq) \in Nat, DOMAIN seq = 1 .. Len(seq),
         \A j \in DOMAIN seq : /\ seq[j].node \in NodeIds(u)
                              /\ seq[j].idx \in DOMAIN u.nodes[seq[j].node].in
                              /\ Feed(u, seq[j].node, seq[j].idx) = 0
  PROVE  Joins(u, from, {<<seq[j].node, seq[j].idx>> : j \in DOMAIN seq}, Joined(u, from, seq))
<1> DEFINE size == Len(seq)
           first(k) == {<<seq[j].node, seq[j].idx>> : j \in 1 .. k}
           V == {h \in Graphs : SameLayers(u, h)}
           W == [k \in 0 .. size |-> {h \in V : Joins(u, from, first(k), h)}]
<1>1. Joins(u, from, {}, u) /\ u \in V
  BY DEF Joins, SameLayers
<1>2. ASSUME NEW h \in V, NEW k \in 1 .. size PROVE Join(h, from, seq[k]) \in V
  <2>1. SameLayers(u, AddConnection(h, from, seq[k].node, seq[k].idx))
    BY ConnectsLayers
  <2> QED
    BY <2>1 DEF Join, SameLayers
<1> HIDE DEF V
<1>3. PICK r :
        /\ \A k \in 0 .. size : r[k] \in V
        /\ r[0] = u /\ Joined(u, from, seq) = r[size]
        /\ \A k \in 1 .. size : r[k] = Join(r[k - 1], from, seq[k])
  <2>1. JoinedClosed(V, from, seq)
    BY <1>2 DEF JoinedClosed
  <2>2. u \in V
    BY <1>1
  <2> HIDE DEF first, W
  <2>3. JoinedRun(V, u, from, seq)
    BY <2>1, <2>2, JoinedUnrolled
  <2> QED
    BY <2>3 DEF JoinedRun
<1>4. r[0] \in W[0]
  <2>1. first(0) = {}
    OBVIOUS
  <2> HIDE DEF first
  <2>2. 0 \in 0 .. size /\ r[0] = u
    BY <1>3
  <2> QED
    BY <1>1, <2>1, <2>2
<1>5. ASSUME NEW k \in 1 .. size, r[k - 1] \in W[k - 1] PROVE r[k] \in W[k]
  <2>1. k - 1 \in 0 .. size /\ k \in 0 .. size
    OBVIOUS
  <2>2. first(k) = first(k - 1) \cup {<<seq[k].node, seq[k].idx>>}
    OBVIOUS
  <2> HIDE DEF first
  <2>3. Joins(u, from, first(k - 1), r[k - 1])
    BY <1>5, <2>1
  <2>4. Joins(u, from, first(k), AddConnection(r[k - 1], from, seq[k].node, seq[k].idx))
    BY <2>2, <2>3, JoinsMore
  <2>5. Joins(u, from, first(k), r[k])
    BY <1>3, <2>4 DEF Join
  <2> QED
    BY <1>3, <2>1, <2>5
<1>6. r[size] \in W[size]
  <2> HIDE DEF W
  <2> QED
    BY <1>4, <1>5, StepByStep
<1>7. size \in 0 .. size
  OBVIOUS
<1> QED
  BY <1>3, <1>6, <1>7

LEMMA DrivenFeeds ==
  ASSUME NEW u \in Graphs, Agrees(u), NEW from \in NodeIds(u),
         u.nodes[from].out \in DOMAIN u.tensors,
         NEW seq, Len(seq) \in Nat, DOMAIN seq = 1 .. Len(seq),
         \A j \in DOMAIN seq : /\ seq[j].node \in NodeIds(u)
                              /\ seq[j].idx \in DOMAIN u.nodes[seq[j].node].in
                              /\ Feed(u, seq[j].node, seq[j].idx) = 0
  PROVE  Joins(u, from, {<<seq[j].node, seq[j].idx>> : j \in DOMAIN seq}, Driven(u, from, seq))
<1> DEFINE size == Len(seq)
           first(k) == {<<seq[j].node, seq[j].idx>> : j \in 1 .. k}
           V == {h \in Graphs : SameLayers(u, h)}
           W == [k \in 0 .. size |-> {h \in V : Joins(u, from, first(k), h)}]
<1>1. Joins(u, from, {}, u) /\ u \in V
  BY DEF Joins, SameLayers
<1>2. ASSUME NEW h \in V, NEW k \in 1 .. size PROVE Drive(h, from, seq[k]) \in V
  <2>1. SameLayers(u, AddConnection(h, from, seq[k].node, seq[k].idx))
    BY ConnectsLayers
  <2> QED
    <3>1. h.nodes[from].out = u.nodes[from].out
      BY DEF SameLayers
    <3>2. SameLayers(u, ConfigureTensor(AddConnection(h, from, seq[k].node, seq[k].idx),
                                        h.nodes[from].out))
      BY <2>1, <3>1, ConfiguredLayers
    <3> QED
      BY <3>2 DEF Drive, SameLayers
<1> HIDE DEF V
<1>3. PICK r :
        /\ \A k \in 0 .. size : r[k] \in V
        /\ r[0] = u /\ Driven(u, from, seq) = r[size]
        /\ \A k \in 1 .. size : r[k] = Drive(r[k - 1], from, seq[k])
  <2>1. DrivenClosed(V, from, seq)
    BY <1>2 DEF DrivenClosed
  <2>2. u \in V
    BY <1>1
  <2> HIDE DEF first, W
  <2>3. DrivenRun(V, u, from, seq)
    BY <2>1, <2>2, DrivenUnrolled
  <2> QED
    BY <2>3 DEF DrivenRun
<1>4. r[0] \in W[0]
  <2>1. first(0) = {}
    OBVIOUS
  <2> HIDE DEF first
  <2>2. 0 \in 0 .. size /\ r[0] = u
    BY <1>3
  <2> QED
    BY <1>1, <2>1, <2>2
<1>5. ASSUME NEW k \in 1 .. size, r[k - 1] \in W[k - 1] PROVE r[k] \in W[k]
  <2>1. k - 1 \in 0 .. size /\ k \in 0 .. size
    OBVIOUS
  <2>2. first(k) = first(k - 1) \cup {<<seq[k].node, seq[k].idx>>}
    OBVIOUS
  <2> HIDE DEF first
  <2>3. Joins(u, from, first(k - 1), r[k - 1])
    BY <1>5, <2>1
  <2>4. Joins(u, from, first(k), AddConnection(r[k - 1], from, seq[k].node, seq[k].idx))
    BY <2>2, <2>3, JoinsMore
  <2>5. Joins(u, from, first(k), r[k])
    <3>1. r[k - 1].nodes[from].out = u.nodes[from].out
      BY <2>3 DEF Joins, SameLayers
    <3> QED
      BY <1>3, <2>4, <3>1, JoinsConfigured DEF Drive
  <2> QED
    BY <1>3, <2>1, <2>5
<1>6. r[size] \in W[size]
  <2> HIDE DEF W
  <2> QED
    BY <1>4, <1>5, StepByStep
<1>7. size \in 0 .. size
  OBVIOUS
<1> QED
  BY <1>3, <1>6, <1>7

LEMMA InputsFeed ==
  ASSUME NEW u \in Graphs, Agrees(u), NEW n \in NodeIds(u),
         NEW seq, Len(seq) \in Nat, DOMAIN seq = 1 .. Len(seq),
         DOMAIN u.nodes[n].in = 1 .. Len(seq),
         \A j \in DOMAIN seq : /\ seq[j] \in NodeIds(u) /\ u.nodes[seq[j]].out \in DOMAIN u.tensors
                              /\ Feed(u, n, j) = 0
  PROVE  /\ SameLayers(u, ConnectInputs(u, n, seq)) /\ Agrees(ConnectInputs(u, n, seq))
         /\ \A m \in NodeIds(u) : \A i \in DOMAIN u.nodes[m].in :
              Feed(ConnectInputs(u, n, seq), m, i) = IF m = n THEN seq[i] ELSE Feed(u, m, i)
<1> DEFINE size == Len(seq)
           V == {h \in Graphs : SameLayers(u, h)}
           Fed(k, h) == /\ Agrees(h)
                        /\ \A m \in NodeIds(u) : \A i \in DOMAIN u.nodes[m].in :
                             Feed(h, m, i) = IF m = n /\ i \in 1 .. k THEN seq[i] ELSE Feed(u, m, i)
           W == [k \in 0 .. size |-> {h \in V : Fed(k, h)}]
<1>1. u \in V
  BY DEF SameLayers
<1>2. ASSUME NEW h \in V, NEW k \in 1 .. size PROVE AddConnection(h, seq[k], n, k) \in V
  <2>1. SameLayers(u, AddConnection(h, seq[k], n, k))
    BY ConnectsLayers
  <2> QED
    BY <2>1 DEF SameLayers
<1>3. PICK r :
        /\ \A k \in 0 .. size : r[k] \in V
        /\ r[0] = u /\ ConnectInputs(u, n, seq) = r[size]
        /\ \A k \in 1 .. size : r[k] = AddConnection(r[k - 1], seq[k], n, k)
  <2> HIDE DEF V
  <2>1. InputsClosed(V, n, seq)
    BY <1>2 DEF InputsClosed
  <2>2. InputsRun(V, u, n, seq)
    BY <1>1, <2>1, InputsUnrolled
  <2> QED
    BY <2>2 DEF InputsRun
<1>4. r[0] \in W[0]
  <2>1. 1 .. 0 = {} /\ 0 \in 0 .. size /\ r[0] = u
    BY <1>3
  <2>2. Fed(0, r[0])
    BY <2>1
  <2> HIDE DEF Fed, V
  <2> QED
    BY <1>1, <2>1, <2>2
<1>5. ASSUME NEW k \in 1 .. size, r[k - 1] \in W[k - 1] PROVE r[k] \in W[k]
  <2>1. k - 1 \in 0 .. size /\ k \in 0 .. size
    OBVIOUS
  <2>2. r[k - 1] \in V /\ Fed(k - 1, r[k - 1])
    BY <1>5, <2>1
  <2> DEFINE h == r[k - 1]
  <2>3. /\ h \in Graphs /\ Agrees(h) /\ NodeIds(h) = NodeIds(u)
        /\ \A m \in NodeIds(u) : DOMAIN h.nodes[m].in = DOMAIN u.nodes[m].in
        /\ h.nodes[seq[k]].out \in DOMAIN h.tensors
    BY <2>2 DEF SameLayers
  <2>4. Feed(h, n, k) = 0
    <3>1. k \notin 1 .. k - 1
      OBVIOUS
    <3> QED
      BY <2>2, <3>1
  <2> HIDE DEF h
  <2>5. /\ Agrees(r[k])
        /\ \A m \in NodeIds(h) : \A i \in DOMAIN h.nodes[m].in :
             Feed(r[k], m, i) = IF m = n /\ i = k THEN seq[k] ELSE Feed(h, m, i)
    <3>1. r[k] = AddConnection(h, seq[k], n, k)
      BY <1>3 DEF h
    <3> QED
      BY <2>3, <2>4, <3>1, FeedConnected
  <2>6. ASSUME NEW m \in NodeIds(u), NEW i \in DOMAIN u.nodes[m].in
        PROVE  Feed(r[k], m, i) = IF m = n /\ i \in 1 .. k THEN seq[i] ELSE Feed(u, m, i)
    <3>1. Feed(h, m, i) = IF m = n /\ i \in 1 .. k - 1 THEN seq[i] ELSE Feed(u, m, i)
      BY <2>2 DEF h
    <3>2. Feed(r[k], m, i) = IF m = n /\ i = k THEN seq[k] ELSE Feed(h, m, i)
      BY <2>3, <2>5
    <3>3. i \in 1 .. k <=> i \in 1 .. k - 1 \/ i = k
      OBVIOUS
    <3> QED
      BY <3>1, <3>2, <3>3
  <2>7. Fed(k, r[k])
    BY <2>5, <2>6
  <2> HIDE DEF Fed, V
  <2> QED
    BY <1>3, <2>1, <2>7
<1>6. r[size] \in V /\ Fed(size, r[size])
  <2>1. r[size] \in W[size]
    <3> HIDE DEF W
    <3> QED
      BY <1>4, <1>5, StepByStep
  <2>2. size \in 0 .. size
    OBVIOUS
  <2> HIDE DEF V, Fed
  <2> QED
    BY <2>1, <2>2
<1> QED
  BY <1>3, <1>6

-----------------------------------------------------------------------------
(* Attributes, accessors and handles.                                      *)

\* h is u but for the attributes of nodes and the handles and accessors of
\* tensors.
Relabelled(u, h) ==
  /\ h \in Graphs /\ h.edges = u.edges
  /\ NodeIds(h) = NodeIds(u) /\ DOMAIN h.nodes = DOMAIN u.nodes
  /\ \A n \in NodeIds(u) :
       /\ h.nodes[n].in = u.nodes[n].in /\ h.nodes[n].out = u.nodes[n].out
       /\ h.nodes[n].out_edges = u.nodes[n].out_edges
       /\ h.nodes[n].type = u.nodes[n].type
  /\ DOMAIN h.tensors = DOMAIN u.tensors
  /\ \A y \in DOMAIN u.tensors : h.tensors[y].bound = u.tensors[y].bound

LEMMA RelabelledWires ==
  ASSUME NEW u \in Graphs, Agrees(u), NEW h, Relabelled(u, h)
  PROVE  /\ LayersOf(u, NodeIds(u), h)
         /\ \A n \in NodeIds(u) : \A i \in DOMAIN u.nodes[n].in : Feed(h, n, i) = Feed(u, n, i)
<1>1. /\ h \in Graphs /\ h.edges = u.edges
      /\ NodeIds(h) = NodeIds(u) /\ DOMAIN h.nodes = DOMAIN u.nodes
      /\ \A n \in NodeIds(u) :
           /\ h.nodes[n].in = u.nodes[n].in /\ h.nodes[n].out = u.nodes[n].out
           /\ h.nodes[n].out_edges = u.nodes[n].out_edges
           /\ h.nodes[n].type = u.nodes[n].type
      /\ DOMAIN h.tensors = DOMAIN u.tensors
      /\ \A y \in DOMAIN u.tensors : h.tensors[y].bound = u.tensors[y].bound
  BY DEF Relabelled
<1> QED
  BY <1>1, SameWires

LEMMA RelabelledAgain ==
  ASSUME NEW u, NEW h, Relabelled(u, h), NEW k, Relabelled(h, k)
  PROVE  Relabelled(u, k)
  BY DEF Relabelled

LEMMA RelabelledSelf ==
  ASSUME NEW u \in Graphs PROVE Relabelled(u, u)
  BY DEF Relabelled

PutAttributes(nodes, n, attributes) == [nodes EXCEPT ![n].attributes = attributes]
WithAttributes(u, n, attributes) == [u EXCEPT !.nodes[n].attributes = attributes]

LEMMA AttributesPut ==
  ASSUME NEW nodes \in Seq(Node \cup {NoNode}), NEW p \in DOMAIN nodes, nodes[p] \in Node,
         NEW attributes \in Attribute
  PROVE  LET m == PutAttributes(nodes, p, attributes) IN
         /\ m \in Seq(Node \cup {NoNode}) /\ DOMAIN m = DOMAIN nodes
         /\ \A n \in DOMAIN nodes : n # p => m[n] = nodes[n]
         /\ m[p] \in Node /\ m[p].out_edges = nodes[p].out_edges
         /\ m[p].type = nodes[p].type /\ m[p].in = nodes[p].in /\ m[p].out = nodes[p].out
<1> DEFINE m == PutAttributes(nodes, p, attributes)
           new == [nodes[p] EXCEPT !.attributes = attributes]
<1>1. /\ new \in Node /\ new.out_edges = nodes[p].out_edges
      /\ new.type = nodes[p].type /\ new.in = nodes[p].in /\ new.out = nodes[p].out
  BY DEF Node
<1>2. m = [nodes EXCEPT ![p] = new]
  BY DEF PutAttributes
<1> HIDE DEF m
<1> HIDE DEF new
<1>3. p \in 1 .. Len(nodes) /\ new \in Node \cup {NoNode}
  BY <1>1, LenProperties
<1>4. m \in Seq(Node \cup {NoNode})
  BY <1>2, <1>3, ExceptSeq
<1>5. DOMAIN m = DOMAIN nodes /\ m[p] = new /\ \A n \in DOMAIN nodes : n # p => m[n] = nodes[n]
  BY <1>2
<1> QED
  BY <1>1, <1>4, <1>5 DEF m

LEMMA AttributesGiven ==
  ASSUME NEW u \in Graphs, NEW n \in NodeIds(u), NEW attributes \in Attribute
  PROVE  Relabelled(u, WithAttributes(u, n, attributes))
<1> DEFINE h == WithAttributes(u, n, attributes)
           nodes == PutAttributes(u.nodes, n, attributes)
<1>1. h = [u EXCEPT !.nodes[n].attributes = attributes]
  BY DEF WithAttributes
<1>2. /\ h.nodes = nodes /\ h.edges = u.edges /\ h.handles = u.handles /\ h.tensors = u.tensors
      /\ h = [nodes |-> h.nodes, edges |-> h.edges, tensors |-> h.tensors, handles |-> h.handles]
  BY <1>1 DEF Graphs, PutAttributes
<1>3. u.nodes \in Seq(Node \cup {NoNode}) /\ n \in DOMAIN u.nodes /\ u.nodes[n] \in Node
  BY GraphFacts
<1> HIDE DEF h
<1>4. /\ nodes \in Seq(Node \cup {NoNode}) /\ DOMAIN nodes = DOMAIN u.nodes
      /\ \A m \in DOMAIN u.nodes : m # n => nodes[m] = u.nodes[m]
      /\ nodes[n] \in Node /\ nodes[n].out_edges = u.nodes[n].out_edges
      /\ nodes[n].type = u.nodes[n].type /\ nodes[n].in = u.nodes[n].in
      /\ nodes[n].out = u.nodes[n].out
  BY <1>3, AttributesPut
<1> HIDE DEF nodes
<1>5. h \in Graphs
  BY <1>2, <1>4, GraphFacts DEF Graphs
<1>6. NodeIds(h) = NodeIds(u)
  <2>1. nodes[n] # NoNode /\ u.nodes[n] # NoNode
    BY <1>3, <1>4, NodeNotNull
  <2>2. ASSUME NEW m \in DOMAIN u.nodes PROVE nodes[m] = NoNode <=> u.nodes[m] = NoNode
    <3>1. CASE m = n
      BY <2>1, <3>1
    <3>2. CASE m # n
      BY <1>4, <3>2
    <3> QED
      BY <3>1, <3>2
  <2> QED
    BY <1>2, <1>4, <2>2, SameNodeIds
<1>7. \A m \in NodeIds(u) :
        /\ h.nodes[m].in = u.nodes[m].in /\ h.nodes[m].out = u.nodes[m].out
        /\ h.nodes[m].out_edges = u.nodes[m].out_edges /\ h.nodes[m].type = u.nodes[m].type
  <2> TAKE m \in NodeIds(u)
  <2>1. m \in DOMAIN u.nodes
    BY GraphFacts
  <2>2. CASE m = n
    BY <1>2, <1>4, <2>2
  <2>3. CASE m # n
    BY <1>2, <1>4, <2>1, <2>3
  <2> QED
    BY <2>2, <2>3
<1> QED
  BY <1>2, <1>4, <1>5, <1>6, <1>7 DEF Relabelled, h

PutAccessor(tensors, y, accessor) == [tensors EXCEPT ![y].accessor = accessor]
SetAccessor(u, y, accessor) == [u EXCEPT !.tensors[y].accessor = accessor]

LEMMA AccessorSet ==
  ASSUME NEW u \in Graphs, NEW y \in DOMAIN u.tensors, NEW accessor \in BOOLEAN
  PROVE  Relabelled(u, SetAccessor(u, y, accessor))
<1> DEFINE h == SetAccessor(u, y, accessor)
           tensors == PutAccessor(u.tensors, y, accessor)
           tensor == [u.tensors[y] EXCEPT !.accessor = accessor]
<1>1. h = [u EXCEPT !.tensors[y].accessor = accessor]
  BY DEF SetAccessor
<1>2. /\ h.nodes = u.nodes /\ h.edges = u.edges /\ h.handles = u.handles /\ h.tensors = tensors
      /\ h = [nodes |-> h.nodes, edges |-> h.edges, tensors |-> h.tensors, handles |-> h.handles]
  BY <1>1 DEF Graphs, PutAccessor
<1>3. u.tensors \in Seq(Tensor) /\ y \in 1 .. Len(u.tensors) /\ u.tensors[y] \in Tensor
  BY GraphFacts, SeqFacts
<1> HIDE DEF h
<1>4. tensor \in Tensor /\ tensor.bound = u.tensors[y].bound
  BY <1>3 DEF Tensor
<1>5. tensors = [u.tensors EXCEPT ![y] = tensor]
  BY DEF PutAccessor
<1> HIDE DEF tensor, tensors
<1>6. tensors \in Seq(Tensor) /\ DOMAIN tensors = DOMAIN u.tensors
  BY <1>3, <1>4, <1>5, ExceptSeq
<1>7. \A x \in DOMAIN u.tensors : tensors[x].bound = u.tensors[x].bound
  BY <1>4, <1>5
<1>8. h \in Graphs
  BY <1>2, <1>6, GraphFacts DEF Graphs
<1>9. NodeIds(h) = NodeIds(u)
  BY <1>2 DEF NodeIds
<1> QED
  BY <1>2, <1>6, <1>7, <1>8, <1>9 DEF Relabelled, h

LEMMA HandleRelabels ==
  ASSUME NEW u \in Graphs, NEW y \in DOMAIN u.tensors, NEW new \in Handle
  PROVE  Relabelled(u, WithHandle(u, y, new))
<1> DEFINE h == WithHandle(u, y, new)
<1>1. /\ h \in Graphs /\ h.nodes = u.nodes /\ h.edges = u.edges
      /\ DOMAIN h.tensors = DOMAIN u.tensors
      /\ \A x \in DOMAIN u.tensors : h.tensors[x].bound = u.tensors[x].bound
  BY HandleGiven
<1> HIDE DEF h
<1>2. NodeIds(h) = NodeIds(u)
  BY <1>1 DEF NodeIds
<1> QED
  BY <1>1, <1>2 DEF Relabelled, h

LEMMA ConfiguredRelabels ==
  ASSUME NEW u \in Graphs, NEW y \in DOMAIN u.tensors
  PROVE  Relabelled(u, ConfigureTensor(u, y))
<1> DEFINE h == ConfigureTensor(u, y)
<1>1. /\ h \in Graphs /\ h.nodes = u.nodes /\ h.edges = u.edges
      /\ DOMAIN h.tensors = DOMAIN u.tensors
      /\ \A x \in DOMAIN u.tensors : h.tensors[x].bound = u.tensors[x].bound
  BY Configured
<1> HIDE DEF h
<1>2. NodeIds(h) = NodeIds(u)
  BY <1>1 DEF NodeIds
<1> QED
  BY <1>1, <1>2 DEF Relabelled, h

\* What the driving nodes of n read is what n feeds.
LEMMA DrivingFacts ==
  ASSUME NEW u \in Graphs, Agrees(u), NEW n \in NodeIds(u)
  PROVE  LET seq == DrivingNodes(u, n) IN
         /\ Len(seq) \in Nat /\ DOMAIN seq = 1 .. Len(seq)
         /\ \A j \in DOMAIN seq : /\ seq[j].node \in NodeIds(u)
                                  /\ seq[j].idx \in DOMAIN u.nodes[seq[j].node].in
                                  /\ Feed(u, seq[j].node, seq[j].idx) = n
         /\ \A m \in NodeIds(u) : \A i \in DOMAIN u.nodes[m].in :
              Feed(u, m, i) = n => <<m, i>> \in {<<seq[j].node, seq[j].idx>> : j \in DOMAIN seq}
<1> DEFINE seq == DrivingNodes(u, n)
           out == OutEdges(u, n)
           D == [node : Nat, idx : Nat]
<1>1. /\ Len(out) \in Nat /\ DOMAIN out = 1 .. Len(out)
      /\ \A j \in DOMAIN out : out[j] \in u.nodes[n].out_edges
      /\ \A e \in u.nodes[n].out_edges : \E j \in DOMAIN out : out[j] = e
  BY OutEdgesFacts, LenProperties
<1>2. /\ DOMAIN seq = DOMAIN out
      /\ \A j \in DOMAIN out : seq[j] = [node |-> u.edges[out[j]].consumer, idx |-> u.edges[out[j]].idx]
  BY DEF DrivingNodes
<1>3. seq = [j \in DOMAIN out |-> [node |-> u.edges[out[j]].consumer, idx |-> u.edges[out[j]].idx]]
  BY DEF DrivingNodes
<1> HIDE DEF seq, out
<1>4. ASSUME NEW j \in DOMAIN seq
      PROVE  /\ out[j] \in EdgeIds(u) /\ u.edges[out[j]].producer = n
             /\ seq[j].node = u.edges[out[j]].consumer /\ seq[j].idx = u.edges[out[j]].idx
  BY <1>1, <1>2, OutAgrees
<1>5. ASSUME NEW j \in DOMAIN seq
      PROVE  /\ seq[j].node \in NodeIds(u)
             /\ seq[j].idx \in DOMAIN u.nodes[seq[j].node].in
             /\ Feed(u, seq[j].node, seq[j].idx) = n
  BY <1>4, EdgeFeeds
<1>6. Len(seq) \in Nat /\ DOMAIN seq = 1 .. Len(seq)
  <2>1. \A e \in EdgeIds(u) : [node |-> u.edges[e].consumer, idx |-> u.edges[e].idx] \in D
    BY GraphFacts DEF Edge
  <2>2. \A j \in DOMAIN out : [node |-> u.edges[out[j]].consumer, idx |-> u.edges[out[j]].idx] \in D
    BY <1>2, <1>4, <2>1
  <2> HIDE DEF D
  <2>3. seq \in [1 .. Len(out) -> D]
    BY <1>1, <1>3, <2>2
  <2>4. seq \in Seq(D)
    BY <1>1, <2>3, SeqDef
  <2> QED
    BY <2>4, LenProperties
<1>7. ASSUME NEW m \in NodeIds(u), NEW i \in DOMAIN u.nodes[m].in, Feed(u, m, i) = n
      PROVE  <<m, i>> \in {<<seq[j].node, seq[j].idx>> : j \in DOMAIN seq}
  <2>1. n # 0
    BY GraphFacts
  <2> DEFINE e == u.nodes[m].in[i]
  <2>2. e \in EdgeIds(u) /\ e \in u.nodes[n].out_edges /\ u.edges[e].consumer = m /\ u.edges[e].idx = i
    BY <1>7, <2>1, FeedHasEdge
  <2> HIDE DEF e
  <2>3. PICK j \in DOMAIN out : out[j] = e
    BY <1>1, <2>2
  <2>4. j \in DOMAIN seq /\ seq[j].node = m /\ seq[j].idx = i
    BY <1>2, <1>4, <2>2, <2>3
  <2> QED
    BY <2>4
<1> QED
  BY <1>5, <1>6, <1>7 DEF seq

-----------------------------------------------------------------------------
(* What the passes keep.                                                   *)

Weighted == {"ConvolutionLayer", "BatchNormalizationLayer"}

\* How many inputs a node has, as far as a pass relies on it, and its output.
NodeFits(u, n) ==
  /\ u.nodes[n].type \in InPlaceNodes => 1 \in DOMAIN u.nodes[n].in
  /\ u.nodes[n].type = "ActivationLayer" => DOMAIN u.nodes[n].in = 1 .. 1
  /\ u.nodes[n].type \in Weighted => DOMAIN u.nodes[n].in = 1 .. 2
  /\ u.nodes[n].type # "Output" => u.nodes[n].out \in DOMAIN u.tensors
  /\ u.nodes[n].type \in Sources <=> DOMAIN u.nodes[n].in = {}

\* Who may feed an input of n: the weights are constants.
InputFits(u, n, i) ==
  /\ Feed(u, n, i) # 0 /\ u.nodes[Feed(u, n, i)].type # "Output"
  /\ u.nodes[n].type \in Weighted /\ i = 2 => u.nodes[Feed(u, n, i)].type = "Const"

\* The graph has no cycle.
IsRank(u, rank) ==
  \A n \in NodeIds(u) : \A i \in DOMAIN u.nodes[n].in : rank[Feed(u, n, i)] < rank[n]

\* A constant is read by one node.
ConstsOnce(u) ==
  \A m, k \in NodeIds(u) : \A i \in DOMAIN u.nodes[m].in : \A j \in DOMAIN u.nodes[k].in :
    Feed(u, m, i) = Feed(u, k, j) /\ u.nodes[Feed(u, m, i)].type = "Const" => m = k

\* No node reads another one twice.
NoDouble(u) ==
  \A m \in NodeIds(u) : \A i, j \in DOMAIN u.nodes[m].in :
    i # j => Feed(u, m, i) # Feed(u, m, j)

\* If once holds, no node reads another one twice.
Sound(once, u) ==
  /\ u \in Graphs /\ Agrees(u)
  /\ \A n \in NodeIds(u) : NodeFits(u, n)
  /\ \A n \in NodeIds(u) : \A i \in DOMAIN u.nodes[n].in : InputFits(u, n, i)
  /\ \E rank \in [Nat -> Nat] : IsRank(u, rank)
  /\ ConstsOnce(u) /\ (once => NoDouble(u))

LEMMA SoundFeeds ==
  ASSUME NEW once, NEW u, Sound(once, u)
  PROVE  /\ u \in Graphs /\ Agrees(u) /\ FeedersHaveTensors(u)
         /\ \A n \in NodeIds(u) : \A i \in DOMAIN u.nodes[n].in :
              Feed(u, n, i) \in NodeIds(u) /\ Feed(u, n, i) # 0
<1>1. u \in Graphs /\ Agrees(u)
  BY DEF Sound
<1>2. ASSUME NEW n \in NodeIds(u), NEW i \in DOMAIN u.nodes[n].in
      PROVE  /\ Feed(u, n, i) \in NodeIds(u) /\ Feed(u, n, i) # 0
             /\ u.nodes[Feed(u, n, i)].out \in DOMAIN u.tensors
  <2>1. Feed(u, n, i) # 0 /\ u.nodes[Feed(u, n, i)].type # "Output"
    BY DEF Sound, InputFits
  <2>2. Feed(u, n, i) \in NodeIds(u)
    BY <1>1, <2>1, FeedIsNode
  <2>3. NodeFits(u, Feed(u, n, i))
    BY <2>2 DEF Sound
  <2> QED
    BY <2>1, <2>2, <2>3 DEF NodeFits
<1> QED
  BY <1>1, <1>2 DEF FeedersHaveTensors

LEMMA SameFits ==
  ASSUME NEW u, NEW h, NEW n, h.nodes[n].type = u.nodes[n].type,
         h.nodes[n].out = u.nodes[n].out, DOMAIN h.nodes[n].in = DOMAIN u.nodes[n].in,
         DOMAIN u.tensors \subseteq DOMAIN h.tensors, NodeFits(u, n)
  PROVE  NodeFits(h, n)
  BY DEF NodeFits

LEMMA RelabelledSound ==
  ASSUME NEW once, NEW u, Sound(once, u), NEW h, Relabelled(u, h)
  PROVE  Sound(once, h)
<1>1. u \in Graphs /\ Agrees(u)
  BY DEF Sound
<1>2. /\ LayersOf(u, NodeIds(u), h)
      /\ \A n \in NodeIds(u) : \A i \in DOMAIN u.nodes[n].in : Feed(h, n, i) = Feed(u, n, i)
  BY <1>1, RelabelledWires
<1>3. /\ h \in Graphs /\ Agrees(h) /\ NodeIds(h) = NodeIds(u) /\ DOMAIN h.tensors = DOMAIN u.tensors
      /\ \A n \in NodeIds(u) : /\ h.nodes[n].type = u.nodes[n].type
                               /\ h.nodes[n].out = u.nodes[n].out
                               /\ DOMAIN h.nodes[n].in = DOMAIN u.nodes[n].in
  BY <1>2 DEF LayersOf
<1>4. \A n \in NodeIds(h) : NodeFits(h, n)
  <2> TAKE n \in NodeIds(h)
  <2>1. NodeFits(u, n)
    BY <1>3 DEF Sound
  <2> QED
    BY <1>3, <2>1, SameFits
<1>5. ASSUME NEW n \in NodeIds(h), NEW i \in DOMAIN h.nodes[n].in PROVE InputFits(h, n, i)
  <2>1. InputFits(u, n, i) /\ Feed(h, n, i) = Feed(u, n, i) /\ Feed(u, n, i) \in NodeIds(u)
    BY <1>2, <1>3, SoundFeeds DEF Sound
  <2> QED
    BY <1>3, <2>1 DEF InputFits
<1>6. PICK rank \in [Nat -> Nat] : IsRank(u, rank)
  BY DEF Sound
<1>7. IsRank(h, rank)
  BY <1>2, <1>3, <1>6 DEF IsRank
<1>8. ConstsOnce(h)
  <2>1. \A m \in NodeIds(u) : \A i \in DOMAIN u.nodes[m].in : Feed(u, m, i) \in NodeIds(u)
    BY SoundFeeds
  <2> QED
    BY <1>2, <1>3, <2>1 DEF Sound, ConstsOnce
<1>9. NoDouble(u) => NoDouble(h)
  BY <1>2, <1>3 DEF NoDouble
<1> QED
  BY <1>3, <1>4, <1>5, <1>6, <1>7, <1>8, <1>9 DEF Sound

LEMMA NodesAreNumbers ==
  ASSUME NEW u \in Graphs PROVE NodeIds(u) \subseteq Nat \ {0}
  BY GraphFacts

\* Nobody but m reads n.
ReadBy(u, n, m) == \A k \in NodeIds(u) : \A i \in DOMAIN u.nodes[k].in : Feed(u, k, i) = n => k = m

\* A node that its only reader replaced: those fed by act are fed by n.
LEMMA BypassedSound ==
  ASSUME NEW once, NEW u, Sound(once, u), NEW n \in NodeIds(u), NEW act \in NodeIds(u),
         u.nodes[n].type \notin {"Output", "Const"}, u.nodes[act].type # "Const",
         NEW j \in DOMAIN u.nodes[act].in, Feed(u, act, j) = n, ReadBy(u, n, act),
         NEW h, LayersOf(u, NodeIds(u) \ {act}, h),
         \A m \in NodeIds(u) \ {act} : \A i \in DOMAIN u.nodes[m].in :
           Feed(h, m, i) = IF Feed(u, m, i) = act THEN n ELSE Feed(u, m, i)
  PROVE  Sound(once, h)
<1>1. u \in Graphs /\ Agrees(u) /\ NodeIds(u) \subseteq Nat \ {0}
  BY NodesAreNumbers DEF Sound
<1>2. /\ h \in Graphs /\ Agrees(h) /\ NodeIds(h) = NodeIds(u) \ {act}
      /\ DOMAIN h.tensors = DOMAIN u.tensors
      /\ \A m \in NodeIds(h) : /\ h.nodes[m].type = u.nodes[m].type
                               /\ h.nodes[m].out = u.nodes[m].out
                               /\ DOMAIN h.nodes[m].in = DOMAIN u.nodes[m].in
  BY DEF LayersOf
<1>3. PICK rank \in [Nat -> Nat] : IsRank(u, rank)
  BY DEF Sound
<1>4. /\ \A m \in NodeIds(u) : rank[m] \in Nat
      /\ \A m \in NodeIds(u) : \A i \in DOMAIN u.nodes[m].in :
           Feed(u, m, i) \in NodeIds(u) /\ rank[Feed(u, m, i)] < rank[m]
  BY <1>1, <1>3, SoundFeeds DEF IsRank
<1>5. n # act /\ rank[n] < rank[act]
  BY <1>4
<1>6. \A m \in NodeIds(h) : NodeFits(h, m)
  <2> TAKE m \in NodeIds(h)
  <2>1. NodeFits(u, m)
    BY <1>2 DEF Sound
  <2> QED
    BY <1>2, <2>1, SameFits
<1>7. ASSUME NEW m \in NodeIds(h), NEW i \in DOMAIN h.nodes[m].in
      PROVE  InputFits(h, m, i) /\ rank[Feed(h, m, i)] < rank[m]
  <2>1. /\ m \in NodeIds(u) /\ i \in DOMAIN u.nodes[m].in /\ InputFits(u, m, i)
        /\ Feed(u, m, i) \in NodeIds(u) /\ rank[Feed(u, m, i)] < rank[m]
        /\ Feed(h, m, i) = IF Feed(u, m, i) = act THEN n ELSE Feed(u, m, i)
    BY <1>2, <1>4 DEF Sound
  <2>2. CASE Feed(u, m, i) = act
    <3>1. Feed(h, m, i) = n /\ n # 0 /\ h.nodes[n].type # "Output"
      BY <1>1, <1>2, <1>5, <2>1, <2>2
    <3>2. ~(u.nodes[m].type \in Weighted /\ i = 2)
      BY <2>1, <2>2 DEF InputFits
    <3>3. rank[n] < rank[m]
      <4>1. rank[act] < rank[m] /\ rank[n] \in Nat /\ rank[act] \in Nat /\ rank[m] \in Nat
        BY <1>4, <2>1, <2>2
      <4> QED
        BY <1>5, <4>1
    <3> QED
      BY <1>2, <3>1, <3>2, <3>3 DEF InputFits
  <2>3. CASE Feed(u, m, i) # act
    <3>1. Feed(h, m, i) = Feed(u, m, i) /\ Feed(u, m, i) \in NodeIds(h)
      BY <1>2, <2>1, <2>3
    <3> QED
      BY <1>2, <2>1, <3>1 DEF InputFits
  <2> QED
    BY <2>2, <2>3
<1>8. IsRank(h, rank)
  BY <1>7 DEF IsRank
<1>9. \A m \in NodeIds(h) : \A i \in DOMAIN h.nodes[m].in :
        /\ m \in NodeIds(u) /\ i \in DOMAIN u.nodes[m].in
        /\ Feed(u, m, i) \in NodeIds(u) /\ Feed(u, m, i) # n
        /\ Feed(h, m, i) = IF Feed(u, m, i) = act THEN n ELSE Feed(u, m, i)
  BY <1>2, <1>4 DEF ReadBy
<1>10. ConstsOnce(h)
  <2>1. ASSUME NEW m \in NodeIds(h), NEW k \in NodeIds(h), NEW i \in DOMAIN h.nodes[m].in,
               NEW l \in DOMAIN h.nodes[k].in, Feed(h, m, i) = Feed(h, k, l),
               h.nodes[Feed(h, m, i)].type = "Const"
        PROVE  m = k
    <3>1. Feed(h, m, i) # n
      BY <1>2, <1>5, <2>1
    <3>2. /\ Feed(u, m, i) = Feed(u, k, l) /\ Feed(h, m, i) = Feed(u, m, i)
          /\ Feed(u, m, i) \in NodeIds(h)
      BY <1>2, <1>9, <2>1, <3>1
    <3>3. u.nodes[Feed(u, m, i)].type = "Const"
      BY <1>2, <2>1, <3>2
    <3> QED
      BY <1>9, <3>2, <3>3 DEF Sound, ConstsOnce
  <2> QED
    BY <2>1 DEF ConstsOnce
<1>11. NoDouble(u) => NoDouble(h)
  BY <1>9 DEF NoDouble
<1> QED
  BY <1>2, <1>3, <1>6, <1>7, <1>8, <1>10, <1>11 DEF Sound

-----------------------------------------------------------------------------
(* fuse_node_with_activation                                               *)

\* Before the activation is removed.
ActivationTaken(u, n, act) ==
  SetAccessor(WithAttributes(u, n, [u.nodes[n].attributes EXCEPT !.act = act]),
              u.nodes[act].out, FALSE)

LEMMA FuseActivationSteps ==
  ASSUME NEW u \in Graphs, NEW n \in NodeIds(u), NEW act,
         ~(Accessor(u, n) \/ ~ u.nodes[act].attributes.fusible)
  PROVE  FuseActivation(u, n, act) =
           MoveAccessor(Joined(RemoveNode(ActivationTaken(u, n, act), act), n,
                               DrivingNodes(u, act)),
                        Accessor(u, act), n)
<1> DEFINE fused == [u EXCEPT !.nodes[n].attributes.act = act,
                              !.tensors[u.nodes[act].out].accessor = FALSE]
<1>1. FuseActivation(u, n, act) =
        MoveAccessor(Joined(RemoveNode(fused, act), n, DrivingNodes(u, act)), Accessor(u, act), n)
  BY DEF FuseActivation, Joined, Join, FoldLeft, MapThenFoldSet
<1>2. fused = ActivationTaken(u, n, act)
  BY GraphFacts DEF ActivationTaken, SetAccessor, WithAttributes, Graphs
<1> HIDE DEF fused
<1> QED
  BY <1>1, <1>2

LEMMA FuseActivationSound ==
  ASSUME NEW once, NEW u, Sound(once, u), NEW n \in NodeIds(u), NEW act \in NodeIds(u),
         u.nodes[n].type \notin {"Output", "Const"}, u.nodes[act].type = "ActivationLayer",
         NEW j \in DOMAIN u.nodes[act].in, Feed(u, act, j) = n, ReadBy(u, n, act)
  PROVE  /\ Sound(once, FuseActivation(u, n, act))
         /\ DOMAIN FuseActivation(u, n, act).nodes = DOMAIN u.nodes
<1>1. CASE Accessor(u, n) \/ ~ u.nodes[act].attributes.fusible
  BY <1>1 DEF FuseActivation
<1>2. CASE ~(Accessor(u, n) \/ ~ u.nodes[act].attributes.fusible)
  <2> DEFINE taken == ActivationTaken(u, n, act)
             less == RemoveNode(taken, act)
             seq == DrivingNodes(u, act)
             joined == Joined(less, n, seq)
             h == FuseActivation(u, n, act)
  <2>1. /\ u \in Graphs /\ Agrees(u) /\ FeedersHaveTensors(u) /\ n # act
        /\ u.nodes[n].out \in DOMAIN u.tensors /\ u.nodes[act].out \in DOMAIN u.tensors
        /\ NodeIds(u) \subseteq Nat \ {0}
    <3>1. PICK rank \in [Nat -> Nat] : IsRank(u, rank)
      BY DEF Sound
    <3>2. u \in Graphs /\ Agrees(u) /\ FeedersHaveTensors(u) /\ NodeIds(u) \subseteq Nat \ {0}
      BY SoundFeeds, NodesAreNumbers
    <3>3. rank[n] < rank[act] /\ rank[n] \in Nat
      BY <3>1, <3>2 DEF IsRank
    <3>4. NodeFits(u, n) /\ NodeFits(u, act)
      BY DEF Sound
    <3> QED
      BY <3>2, <3>3, <3>4 DEF NodeFits
  <2>2. h = MoveAccessor(joined, Accessor(u, act), n)
    BY <1>2, <2>1, FuseActivationSteps
  <2>3. Relabelled(u, taken)
    <3> DEFINE attributes == [u.nodes[n].attributes EXCEPT !.act = act]
               labelled == WithAttributes(u, n, attributes)
    <3>1. attributes \in Attribute
      <4>1. u.nodes[n].attributes \in Attribute /\ act \in Nat
        BY <2>1, GraphFacts, NodeFacts
      <4> QED
        BY <4>1 DEF Attribute
    <3> HIDE DEF attributes
    <3>2. Relabelled(u, labelled)
      BY <2>1, <3>1, AttributesGiven
    <3> HIDE DEF labelled
    <3>3. labelled \in Graphs /\ u.nodes[act].out \in DOMAIN labelled.tensors
      BY <2>1, <3>2 DEF Relabelled
    <3>4. Relabelled(labelled, SetAccessor(labelled, u.nodes[act].out, FALSE))
      BY <3>3, AccessorSet
    <3>5. taken = SetAccessor(labelled, u.nodes[act].out, FALSE)
      BY DEF ActivationTaken, labelled, attributes
    <3> HIDE DEF taken
    <3>6. Relabelled(labelled, taken)
      BY <3>4, <3>5
    <3> QED
      BY <3>2, <3>6, RelabelledAgain
  <2> HIDE DEF taken, h, seq
  <2>4. /\ LayersOf(u, NodeIds(u), taken)
        /\ \A m \in NodeIds(u) : \A i \in DOMAIN u.nodes[m].in : Feed(taken, m, i) = Feed(u, m, i)
    BY <2>1, <2>3, RelabelledWires
  <2>5. /\ taken \in Graphs /\ Agrees(taken) /\ NodeIds(taken) = NodeIds(u)
        /\ DOMAIN taken.nodes = DOMAIN u.nodes /\ DOMAIN taken.tensors = DOMAIN u.tensors
        /\ \A m \in NodeIds(u) : /\ taken.nodes[m].type = u.nodes[m].type
                                 /\ taken.nodes[m].out = u.nodes[m].out
                                 /\ DOMAIN taken.nodes[m].in = DOMAIN u.nodes[m].in
    BY <2>4 DEF LayersOf
  <2>6. FeedersHaveTensors(taken)
    BY <2>1, <2>4, <2>5, SoundFeeds DEF FeedersHaveTensors
  <2>7. /\ LayersOf(taken, NodeIds(taken) \ {act}, less)
        /\ \A m \in NodeIds(taken) \ {act} : \A i \in DOMAIN taken.nodes[m].in :
             Feed(less, m, i) = IF Feed(taken, m, i) = act THEN 0 ELSE Feed(taken, m, i)
    <3>1. act \in NodeIds(taken)
      BY <2>5
    <3>2. taken \in Graphs /\ Agrees(taken)
      BY <2>5
    <3> QED
      BY <2>6, <3>1, <3>2, RemovedNode
  <2> HIDE DEF less
  <2>8. /\ less \in Graphs /\ Agrees(less) /\ NodeIds(less) = NodeIds(u) \ {act}
        /\ DOMAIN less.nodes = DOMAIN u.nodes /\ DOMAIN less.tensors = DOMAIN u.tensors
        /\ \A m \in NodeIds(less) :
             /\ less.nodes[m].type = u.nodes[m].type /\ less.nodes[m].out = u.nodes[m].out
             /\ DOMAIN less.nodes[m].in = DOMAIN u.nodes[m].in
             /\ \A i \in DOMAIN u.nodes[m].in :
                  Feed(less, m, i) = IF Feed(u, m, i) = act THEN 0 ELSE Feed(u, m, i)
    BY <2>4, <2>5, <2>7 DEF LayersOf
  <2>9. /\ Len(seq) \in Nat /\ DOMAIN seq = 1 .. Len(seq)
        /\ \A k \in DOMAIN seq : /\ seq[k].node \in NodeIds(u)
                                 /\ seq[k].idx \in DOMAIN u.nodes[seq[k].node].in
                                 /\ Feed(u, seq[k].node, seq[k].idx) = act
        /\ \A m \in NodeIds(u) : \A i \in DOMAIN u.nodes[m].in :
             Feed(u, m, i) = act => <<m, i>> \in {<<seq[k].node, seq[k].idx>> : k \in DOMAIN seq}
    BY <2>1, DrivingFacts DEF seq
  <2>10. ASSUME NEW k \in DOMAIN seq
         PROVE  /\ seq[k].node \in NodeIds(less)
                /\ seq[k].idx \in DOMAIN less.nodes[seq[k].node].in
                /\ Feed(less, seq[k].node, seq[k].idx) = 0
    <3>1. seq[k].node # act
      <4>1. PICK rank \in [Nat -> Nat] : IsRank(u, rank)
        BY DEF Sound
      <4>2. rank[act] < rank[seq[k].node] /\ rank[act] \in Nat
        BY <2>1, <2>9, <4>1 DEF IsRank
      <4> QED
        BY <4>2
    <3> QED
      BY <2>8, <2>9, <3>1
  <2> DEFINE S == {<<seq[k].node, seq[k].idx>> : k \in DOMAIN seq}
  <2>11. Joins(less, n, S, joined)
    <3>1. n \in NodeIds(less) /\ less.nodes[n].out \in DOMAIN less.tensors
      BY <2>1, <2>8
    <3> QED
      BY <2>8, <2>9, <2>10, <3>1, JoinedFeeds
  <2> HIDE DEF joined
  <2>12. /\ LayersOf(u, NodeIds(u) \ {act}, joined)
         /\ \A m \in NodeIds(u) \ {act} : \A i \in DOMAIN u.nodes[m].in :
              Feed(joined, m, i) = IF Feed(u, m, i) = act THEN n ELSE Feed(u, m, i)
    <3>1. LayersOf(u, NodeIds(u) \ {act}, joined)
      BY <2>8, <2>11 DEF Joins, SameLayers, LayersOf
    <3>2. ASSUME NEW m \in NodeIds(u) \ {act}, NEW i \in DOMAIN u.nodes[m].in
          PROVE  Feed(joined, m, i) = IF Feed(u, m, i) = act THEN n ELSE Feed(u, m, i)
      <4>1. Feed(joined, m, i) = IF <<m, i>> \in S THEN n ELSE Feed(less, m, i)
        BY <2>8, <2>11 DEF Joins
      <4>2. Feed(less, m, i) = IF Feed(u, m, i) = act THEN 0 ELSE Feed(u, m, i)
        BY <2>8
      <4>3. <<m, i>> \in S <=> Feed(u, m, i) = act
        BY <2>9
      <4> QED
        BY <4>1, <4>2, <4>3
    <3> QED
      BY <3>1, <3>2
  <2>13. Sound(once, joined)
    BY <2>12, BypassedSound
  <2>14. Relabelled(joined, h) /\ DOMAIN h.nodes = DOMAIN u.nodes
    <3>1. /\ joined \in Graphs /\ joined.nodes[n].out \in DOMAIN joined.tensors
          /\ DOMAIN joined.nodes = DOMAIN u.nodes
      BY <2>1, <2>12 DEF LayersOf
    <3>2. Accessor(u, act) \in BOOLEAN
      <4>1. u.tensors[u.nodes[act].out] \in Tensor
        BY <2>1, GraphFacts, SeqFacts
      <4> QED
        BY <4>1 DEF Tensor, Accessor
    <3>3. h = SetAccessor(joined, joined.nodes[n].out, Accessor(u, act))
      BY <2>2 DEF MoveAccessor, SetAccessor
    <3>4. Relabelled(joined, h)
      BY <3>1, <3>2, <3>3, AccessorSet
    <3> QED
      BY <3>1, <3>4 DEF Relabelled
  <2>15. Sound(once, h)
    BY <2>13, <2>14, RelabelledSound
  <2> QED
    BY <2>14, <2>15 DEF h
<1> QED
  BY <1>1, <1>2

-----------------------------------------------------------------------------
(* A new node.                                                             *)

\* h is u with one more node, whose inputs are free.
Adds(u, type, size, h) ==
  LET f == Len(u.nodes) + 1 IN
  /\ h \in Graphs /\ Agrees(h)
  /\ f \in Nat \ {0} /\ f \notin NodeIds(u) /\ NodeIds(h) = NodeIds(u) \cup {f}
  /\ Len(h.nodes) = f /\ DOMAIN h.nodes = DOMAIN u.nodes \cup {f}
  /\ \A n \in NodeIds(u) :
       /\ h.nodes[n].type = u.nodes[n].type /\ h.nodes[n].out = u.nodes[n].out
       /\ DOMAIN h.nodes[n].in = DOMAIN u.nodes[n].in
       /\ \A i \in DOMAIN u.nodes[n].in : Feed(h, n, i) = Feed(u, n, i)
  /\ h.nodes[f].type = type /\ DOMAIN h.nodes[f].in = 1 .. size
  /\ type # "Output" => /\ h.nodes[f].out \in DOMAIN h.tensors
                        /\ Len(u.tensors) + 1 \in DOMAIN h.tensors
  /\ \A i \in 1 .. size : Feed(h, f, i) = 0
  /\ DOMAIN u.tensors \subseteq DOMAIN h.tensors

NewNode(type, size, out, attributes) ==
  [type |-> type, in |-> SubSeq(NoInputs, 1, size), out |-> out, out_edges |-> {},
   attributes |-> attributes]

IsNew(node, type, size, out) ==
  /\ node \in Node /\ node.type = type /\ node.out = out /\ node.out_edges = {}
  /\ DOMAIN node.in = 1 .. size /\ \A i \in 1 .. size : node.in[i] = 0

LEMMA NewNodeFacts ==
  ASSUME NEW type \in Types, NEW size \in 0 .. 3, NEW out \in Nat, NEW attributes \in Attribute
  PROVE  IsNew(NewNode(type, size, out, attributes), type, size, out)
<1>1. NoInputs \in Seq(Nat) /\ Len(NoInputs) = 3 /\ \A i \in 1 .. 3 : NoInputs[i] = 0
  BY DEF NoInputs
<1> DEFINE in == SubSeq(NoInputs, 1, size)
<1>2. in \in Seq(Nat) /\ DOMAIN in = 1 .. size /\ \A i \in 1 .. size : in[i] = 0
  <2>1. in = [i \in 1 .. size |-> NoInputs[i]]
    BY <1>1 DEF SubSeq
  <2>2. \A i \in 1 .. size : in[i] = 0
    BY <1>1, <2>1
  <2>3. DOMAIN in = 1 .. size
    BY <2>1
  <2>4. in = [i \in 1 .. size |-> in[i]]
    BY <2>1
  <2> HIDE DEF in
  <2>5. in \in [1 .. size -> Nat] /\ size \in Nat
    BY <2>2, <2>4
  <2> QED
    BY <2>2, <2>3, <2>5, SeqDef
<1> HIDE DEF in
<1> QED
  BY <1>2 DEF NewNode, Node, IsNew, in

LEMMA NodeAdded ==
  ASSUME NEW u \in Graphs, Agrees(u), HaveTensors(u),
         NEW type \in Types, NEW size \in 0 .. 3, NEW attributes \in Attribute
  PROVE  Adds(u, type, size, AddNode(u, type, size, attributes))
<1> DEFINE f == Len(u.nodes) + 1
           some == type # "Output"
           out == IF some THEN Len(u.tensors) + 1 ELSE 0
           node == NewNode(type, size, out, attributes)
           h == AddNode(u, type, size, attributes)
<1>1. /\ Len(u.nodes) \in Nat /\ DOMAIN u.nodes = 1 .. Len(u.nodes)
      /\ Len(u.tensors) \in Nat /\ DOMAIN u.tensors = 1 .. Len(u.tensors)
      /\ u.nodes \in Seq(Node \cup {NoNode}) /\ u.tensors \in Seq(Tensor)
  BY GraphFacts
<1>2. /\ node \in Node /\ node.type = type /\ node.out = out /\ node.out_edges = {}
      /\ DOMAIN node.in = 1 .. size /\ \A i \in 1 .. size : node.in[i] = 0
  <2>1. out \in Nat
    BY <1>1
  <2> HIDE DEF out
  <2>2. IsNew(NewNode(type, size, out, attributes), type, size, out)
    BY <2>1, NewNodeFacts
  <2> QED
    BY <2>2 DEF IsNew
<1> HIDE DEF node
<1>3. h = [u EXCEPT !.nodes = Append(u.nodes, node),
                    !.tensors = IF some THEN Append(u.tensors, NewTensor) ELSE u.tensors]
  <2>1. node = [type |-> type, in |-> SubSeq(NoInputs, 1, size),
               out |-> (IF type = "Output" THEN 0 ELSE 1) * (Len(u.tensors) + 1),
               out_edges |-> {}, attributes |-> attributes]
    <3>1. out = (IF type = "Output" THEN 0 ELSE 1) * (Len(u.tensors) + 1)
      <4>1. CASE some
        BY <1>1, <4>1
      <4>2. CASE ~ some
        BY <1>1, <4>2
      <4> QED
        BY <4>1, <4>2
    <3> HIDE DEF out
    <3> QED
      BY <3>1 DEF node, NewNode
  <2>2. some <=> (IF type = "Output" THEN 0 ELSE 1) = 1
    OBVIOUS
  <2> HIDE DEF some
  <2> QED
    BY <2>1, <2>2 DEF AddNode
<1> HIDE DEF h
<1>4. NewTensor \in Tensor /\ NewTensor.bound = {}
  BY DEF NewTensor, Tensor
<1>5. /\ h \in Graphs /\ h.nodes = Append(u.nodes, node) /\ h.edges = u.edges
      /\ h.tensors = IF some THEN Append(u.tensors, NewTensor) ELSE u.tensors
  <2>1. Append(u.nodes, node) \in Seq(Node \cup {NoNode})
    BY <1>1, <1>2
  <2>2. Append(u.tensors, NewTensor) \in Seq(Tensor)
    BY <1>1, <1>4
  <2> HIDE DEF some
  <2> QED
    BY <1>3, <2>1, <2>2 DEF Graphs
<1>6. /\ Len(h.nodes) = f /\ DOMAIN h.nodes = 1 .. f /\ h.nodes[f] = node
      /\ \A n \in DOMAIN u.nodes : h.nodes[n] = u.nodes[n]
  BY <1>1, <1>2, <1>5
<1>7. /\ DOMAIN u.tensors \subseteq DOMAIN h.tensors
      /\ \A y \in DOMAIN u.tensors : h.tensors[y] = u.tensors[y]
      /\ \A y \in DOMAIN h.tensors \ DOMAIN u.tensors : h.tensors[y].bound = {}
      /\ some => out \in DOMAIN h.tensors /\ Len(u.tensors) + 1 \in DOMAIN h.tensors
  <2>1. CASE some
    <3>1. h.tensors = Append(u.tensors, NewTensor)
      BY <1>5, <2>1
    <3>2. DOMAIN h.tensors = 1 .. Len(u.tensors) + 1
      BY <1>1, <1>4, <3>1
    <3>3. \A y \in 1 .. Len(u.tensors) : h.tensors[y] = u.tensors[y]
      BY <1>1, <1>4, <3>1
    <3>4. h.tensors[Len(u.tensors) + 1] = NewTensor
      BY <1>1, <1>4, <3>1
    <3>5. DOMAIN h.tensors \ DOMAIN u.tensors = {Len(u.tensors) + 1}
      BY <1>1, <3>2
    <3> HIDE DEF some
    <3> QED
      BY <1>1, <1>4, <2>1, <3>2, <3>3, <3>4, <3>5
  <2>2. CASE ~ some
    <3>1. h.tensors = u.tensors
      BY <1>5, <2>2
    <3> QED
      BY <2>2, <3>1
  <2> QED
    BY <2>1, <2>2
<1> HIDE DEF out
<1>8. /\ NodeIds(h) = NodeIds(u) \cup {f} /\ f \in Nat \ {0} /\ f \notin DOMAIN u.nodes
      /\ \A n \in NodeIds(u) : n \in DOMAIN u.nodes /\ h.nodes[n] = u.nodes[n]
  <2>1. f \in Nat \ {0} /\ f \notin DOMAIN u.nodes
    BY <1>1
  <2>2. h.nodes[f] # NoNode
    BY <1>2, <1>6, NodeNotNull
  <2>3. DOMAIN h.nodes = DOMAIN u.nodes \cup {f}
    BY <1>1, <1>6
  <2> HIDE DEF f
  <2> QED
    BY <1>6, <2>1, <2>2, <2>3 DEF NodeIds
<1>9. EdgeIds(h) = EdgeIds(u)
  BY <1>5 DEF EdgeIds
<1>10. DOMAIN h.nodes = DOMAIN u.nodes \cup {f}
  BY <1>1, <1>6
<1> HIDE DEF f
<1>11. Agrees(h)
  <2>1. ASSUME NEW e \in EdgeIds(h)
        PROVE  /\ h.edges[e].producer \in NodeIds(h) /\ h.edges[e].consumer \in NodeIds(h)
               /\ e \in h.nodes[h.edges[e].producer].out_edges
               /\ h.edges[e].idx \in DOMAIN h.nodes[h.edges[e].consumer].in
               /\ h.nodes[h.edges[e].consumer].in[h.edges[e].idx] = e
               /\ h.edges[e].tensor = h.nodes[h.edges[e].producer].out
    <3>1. /\ u.edges[e].producer \in NodeIds(u) /\ u.edges[e].consumer \in NodeIds(u)
          /\ e \in u.nodes[u.edges[e].producer].out_edges
          /\ u.edges[e].idx \in DOMAIN u.nodes[u.edges[e].consumer].in
          /\ u.nodes[u.edges[e].consumer].in[u.edges[e].idx] = e
          /\ u.edges[e].tensor = u.nodes[u.edges[e].producer].out
      BY <1>9, EdgeAgrees
    <3> QED
      BY <1>5, <1>8, <3>1
  <2>2. ASSUME NEW n \in NodeIds(h), NEW i \in DOMAIN h.nodes[n].in, h.nodes[n].in[i] # 0
        PROVE  /\ h.nodes[n].in[i] \in EdgeIds(h)
               /\ h.edges[h.nodes[n].in[i]].consumer = n /\ h.edges[h.nodes[n].in[i]].idx = i
    <3>1. n # f
      BY <1>2, <1>6, <2>2
    <3>2. n \in NodeIds(u) /\ h.nodes[n] = u.nodes[n]
      BY <1>8, <3>1
    <3> QED
      BY <1>5, <1>9, <2>2, <3>2, InputAgrees
  <2>3. ASSUME NEW n \in NodeIds(h), NEW e \in h.nodes[n].out_edges
        PROVE  e \in EdgeIds(h) /\ h.edges[e].producer = n
    <3>1. n # f
      BY <1>2, <1>6, <2>3
    <3>2. n \in NodeIds(u) /\ h.nodes[n] = u.nodes[n]
      BY <1>8, <3>1
    <3> QED
      BY <1>5, <1>9, <2>3, <3>2, OutAgrees
  <2>4. ASSUME NEW y \in DOMAIN h.tensors
        PROVE  h.tensors[y].bound = {e \in EdgeIds(h) : h.edges[e].tensor = y}
    <3>1. CASE y \in DOMAIN u.tensors
      BY <1>5, <1>7, <1>9, <3>1, BoundAgrees
    <3>2. CASE y \notin DOMAIN u.tensors
      <4>1. \A e \in EdgeIds(h) : h.edges[e].tensor # y
        BY <1>5, <1>9, <3>2 DEF HaveTensors
      <4> QED
        BY <1>7, <3>2, <4>1
    <3> QED
      BY <3>1, <3>2
  <2> QED
    BY <2>1, <2>2, <2>3, <2>4, AllAgrees
<1>12. ASSUME NEW n \in NodeIds(u)
       PROVE  /\ h.nodes[n].type = u.nodes[n].type /\ h.nodes[n].out = u.nodes[n].out
              /\ DOMAIN h.nodes[n].in = DOMAIN u.nodes[n].in
              /\ \A i \in DOMAIN u.nodes[n].in : Feed(h, n, i) = Feed(u, n, i)
  <2>1. h.nodes[n] = u.nodes[n]
    BY <1>8
  <2> QED
    BY <1>5, <2>1 DEF Feed, Producer
<1>13. /\ h.nodes[f].type = type /\ DOMAIN h.nodes[f].in = 1 .. size
       /\ \A i \in 1 .. size : Feed(h, f, i) = 0
  BY <1>2, <1>6 DEF Feed
<1>14. type # "Output" => /\ h.nodes[f].out \in DOMAIN h.tensors
                          /\ Len(u.tensors) + 1 \in DOMAIN h.tensors
  BY <1>2, <1>6, <1>7
<1>15. f \notin NodeIds(u)
  BY <1>8 DEF NodeIds
<1> QED
  BY <1>5, <1>6, <1>7, <1>8, <1>10, <1>11, <1>12, <1>13, <1>14, <1>15 DEF Adds, f, h

-----------------------------------------------------------------------------
(* fuse_convolution_with_batch_normalization                               *)

LEMMA LayersOfMore ==
  ASSUME NEW u, NEW N, NEW h, LayersOf(u, N, h), NEW M, M \subseteq N, NEW k, LayersOf(h, M, k)
  PROVE  LayersOf(u, M, k)
  BY DEF LayersOf

LEMMA SameLayersOf ==
  ASSUME NEW u, NEW h, SameLayers(u, h), Agrees(h)
  PROVE  LayersOf(u, NodeIds(u), h)
  BY DEF SameLayers, LayersOf

Fused == "FusedConvolutionBatchNormalizationLayer"

\* bn normalises what conv computes, and nobody else reads that.
Normalises(u, conv, bn) ==
  /\ conv \in NodeIds(u) /\ bn \in NodeIds(u) /\ conv # bn
  /\ u.nodes[conv].type = "ConvolutionLayer" /\ u.nodes[bn].type = "BatchNormalizationLayer"
  /\ DOMAIN u.nodes[conv].in = 1 .. 2 /\ DOMAIN u.nodes[bn].in = 1 .. 2
  /\ Feed(u, bn, 1) = conv /\ u.nodes[Feed(u, bn, 2)].type = "Const"
  /\ \A m \in NodeIds(u) : \A i \in DOMAIN u.nodes[m].in : Feed(u, m, i) = conv => m = bn

\* What the fused node reads.
Reading(u, conv, bn, i) == IF i = 3 THEN Feed(u, bn, 2) ELSE Feed(u, conv, i)

LEMMA ReadingFacts ==
  ASSUME NEW once, NEW u, Sound(once, u), NEW conv, NEW bn, Normalises(u, conv, bn), NEW i \in 1 .. 3
  PROVE  /\ Reading(u, conv, bn, i) \in NodeIds(u) \ {conv, bn}
         /\ Reading(u, conv, bn, i) # 0
         /\ u.nodes[Reading(u, conv, bn, i)].type # "Output"
         /\ u.nodes[Reading(u, conv, bn, i)].out \in DOMAIN u.tensors
         /\ \A rank \in [Nat -> Nat] : IsRank(u, rank) => rank[Reading(u, conv, bn, i)] < rank[bn]
<1> DEFINE n == Reading(u, conv, bn, i)
<1>1. u \in Graphs /\ Agrees(u) /\ NodeIds(u) \subseteq Nat \ {0} /\ FeedersHaveTensors(u)
  BY SoundFeeds, NodesAreNumbers
<1>2. /\ conv \in NodeIds(u) /\ bn \in NodeIds(u) /\ conv # bn
      /\ u.nodes[conv].type = "ConvolutionLayer" /\ u.nodes[bn].type = "BatchNormalizationLayer"
      /\ DOMAIN u.nodes[conv].in = 1 .. 2 /\ DOMAIN u.nodes[bn].in = 1 .. 2
      /\ Feed(u, bn, 1) = conv /\ u.nodes[Feed(u, bn, 2)].type = "Const"
  BY DEF Normalises
<1>3. ASSUME NEW rank \in [Nat -> Nat], IsRank(u, rank)
      PROVE  /\ rank[n] < rank[bn] /\ rank[n] \in Nat /\ rank[conv] \in Nat
             /\ i # 3 => rank[n] < rank[conv]
  <2>1. rank[conv] \in Nat /\ rank[bn] \in Nat /\ rank[conv] < rank[bn]
    BY <1>1, <1>2, <1>3 DEF IsRank
  <2>2. CASE i = 3
    <3>1. n = Feed(u, bn, 2) /\ n \in NodeIds(u)
      BY <1>2, <2>2, SoundFeeds DEF Reading
    <3> QED
      BY <1>1, <1>2, <1>3, <2>1, <2>2, <3>1 DEF IsRank
  <2>3. CASE i # 3
    <3>1. i \in 1 .. 2 /\ n = Feed(u, conv, i) /\ n \in NodeIds(u)
      BY <1>2, <2>3, SoundFeeds DEF Reading
    <3>2. rank[n] < rank[conv] /\ rank[n] \in Nat
      BY <1>1, <1>2, <1>3, <3>1 DEF IsRank
    <3> HIDE DEF n
    <3> QED
      BY <2>1, <3>2
  <2> QED
    BY <2>2, <2>3
<1>4. PICK rank \in [Nat -> Nat] : IsRank(u, rank)
  BY DEF Sound
<1>5. /\ rank[n] < rank[bn] /\ rank[n] \in Nat /\ rank[conv] \in Nat
      /\ i # 3 => rank[n] < rank[conv]
  BY <1>3, <1>4
<1>6. n # conv /\ n # bn
  <2>1. n # bn
    <3> HIDE DEF n
    <3> QED
      BY <1>5
  <2>2. CASE i = 3
    BY <1>2, <2>2 DEF Reading
  <2>3. CASE i # 3
    <3> HIDE DEF n
    <3> QED
      BY <1>5, <2>3
  <2> QED
    BY <2>1, <2>2, <2>3
<1>7. n \in NodeIds(u) /\ n # 0 /\ u.nodes[n].type # "Output" /\ u.nodes[n].out \in DOMAIN u.tensors
  <2>1. CASE i = 3
    <3>1. n = Feed(u, bn, 2) /\ 2 \in DOMAIN u.nodes[bn].in
      BY <1>2, <2>1 DEF Reading
    <3>2. InputFits(u, bn, 2) /\ Feed(u, bn, 2) \in NodeIds(u)
      BY <1>2, <3>1, SoundFeeds DEF Sound
    <3> QED
      BY <1>1, <1>2, <3>1, <3>2 DEF InputFits, FeedersHaveTensors
  <2>2. CASE i # 3
    <3>1. n = Feed(u, conv, i) /\ i \in DOMAIN u.nodes[conv].in
      BY <1>2, <2>2 DEF Reading
    <3>2. InputFits(u, conv, i) /\ Feed(u, conv, i) \in NodeIds(u)
      BY <1>2, <3>1, SoundFeeds DEF Sound
    <3> QED
      BY <1>1, <1>2, <3>1, <3>2 DEF InputFits, FeedersHaveTensors
  <2> QED
    BY <2>1, <2>2
<1> QED
  BY <1>3, <1>6, <1>7

LEMMA ReadingInputs ==
  ASSUME NEW once, NEW u, Sound(once, u), NEW conv, NEW bn, Normalises(u, conv, bn), NEW i \in 1 .. 3
  PROVE  \E by \in {conv, bn} : \E j \in DOMAIN u.nodes[by].in : Feed(u, by, j) = Reading(u, conv, bn, i)
<1>1. DOMAIN u.nodes[conv].in = 1 .. 2 /\ DOMAIN u.nodes[bn].in = 1 .. 2
  BY DEF Normalises
<1>2. CASE i = 3
  BY <1>1, <1>2 DEF Reading
<1>3. CASE i # 3
  <2>1. i \in 1 .. 2
    BY <1>3
  <2> QED
    BY <1>1, <1>3, <2>1 DEF Reading
<1> QED
  BY <1>2, <1>3

\* The weights of both are different constants.
LEMMA ReadingDistinct ==
  ASSUME NEW once, NEW u, Sound(once, u), NoDouble(u), NEW conv, NEW bn, Normalises(u, conv, bn),
         NEW i \in 1 .. 3, NEW j \in 1 .. 3, i # j
  PROVE  Reading(u, conv, bn, i) # Reading(u, conv, bn, j)
<1>1. /\ conv \in NodeIds(u) /\ bn \in NodeIds(u) /\ conv # bn
      /\ DOMAIN u.nodes[conv].in = 1 .. 2 /\ DOMAIN u.nodes[bn].in = 1 .. 2
      /\ u.nodes[Feed(u, bn, 2)].type = "Const"
  BY DEF Normalises
<1>2. Feed(u, conv, 1) # Feed(u, conv, 2)
  BY <1>1 DEF NoDouble
<1>3. ASSUME NEW k \in 1 .. 2 PROVE Feed(u, conv, k) # Feed(u, bn, 2)
  BY <1>1 DEF Sound, ConstsOnce
<1>4. /\ i = 1 \/ i = 2 \/ i = 3
      /\ j = 1 \/ j = 2 \/ j = 3
  OBVIOUS
<1> QED
  BY <1>2, <1>3, <1>4 DEF Reading

FusedFeeds(u, conv, bn, a, h) ==
  LET f == Len(u.nodes) + 1 IN
  \A m \in NodeIds(a) \ {bn, conv} : \A i \in DOMAIN a.nodes[m].in :
    Feed(h, m, i) = IF m = f THEN Reading(u, conv, bn, i)
                    ELSE IF Feed(u, m, i) = bn THEN f ELSE Feed(u, m, i)

\* A node that stands for both, with the readers of the second.
LEMMA FusedSound ==
  ASSUME NEW once, NEW u, Sound(once, u), NEW conv, NEW bn, Normalises(u, conv, bn),
         NEW a, Adds(u, Fused, 3, a),
         NEW h, LayersOf(a, NodeIds(a) \ {bn, conv}, h),
         FusedFeeds(u, conv, bn, a, h)
  PROVE  Sound(once, h) /\ DOMAIN u.nodes \subseteq DOMAIN h.nodes
<1> DEFINE f == Len(u.nodes) + 1
<1>1. u \in Graphs /\ Agrees(u) /\ NodeIds(u) \subseteq Nat \ {0}
  BY NodesAreNumbers DEF Sound
<1>2. /\ f \in Nat \ {0} /\ f \notin NodeIds(u) /\ NodeIds(a) = NodeIds(u) \cup {f}
      /\ \A m \in NodeIds(u) : /\ a.nodes[m].type = u.nodes[m].type
                               /\ a.nodes[m].out = u.nodes[m].out
                               /\ DOMAIN a.nodes[m].in = DOMAIN u.nodes[m].in
      /\ a.nodes[f].type = Fused /\ DOMAIN a.nodes[f].in = 1 .. 3
      /\ a.nodes[f].out \in DOMAIN a.tensors
      /\ DOMAIN u.tensors \subseteq DOMAIN a.tensors /\ DOMAIN u.nodes \subseteq DOMAIN a.nodes
  BY DEF Adds, Fused
<1>3. /\ h \in Graphs /\ Agrees(h) /\ NodeIds(h) = NodeIds(a) \ {bn, conv}
      /\ DOMAIN h.nodes = DOMAIN a.nodes /\ DOMAIN h.tensors = DOMAIN a.tensors
      /\ \A m \in NodeIds(h) : /\ h.nodes[m].type = a.nodes[m].type
                               /\ h.nodes[m].out = a.nodes[m].out
                               /\ DOMAIN h.nodes[m].in = DOMAIN a.nodes[m].in
  BY DEF LayersOf
<1>4. \A m \in NodeIds(h) : \A i \in DOMAIN h.nodes[m].in :
        Feed(h, m, i) = IF m = f THEN Reading(u, conv, bn, i)
                        ELSE IF Feed(u, m, i) = bn THEN f ELSE Feed(u, m, i)
  BY <1>3 DEF FusedFeeds
<1> HIDE DEF f
<1>5. /\ conv \in NodeIds(u) /\ bn \in NodeIds(u)
      /\ u.nodes[bn].type = "BatchNormalizationLayer"
      /\ \A m \in NodeIds(u) \ {bn} : \A i \in DOMAIN u.nodes[m].in : Feed(u, m, i) # conv
  BY DEF Normalises
<1>6. PICK rank \in [Nat -> Nat] : IsRank(u, rank)
  BY DEF Sound
<1> DEFINE new == [rank EXCEPT ![f] = rank[bn]]
<1>7. new \in [Nat -> Nat] /\ new[f] = rank[bn] /\ \A m \in NodeIds(u) : new[m] = rank[m]
  BY <1>1, <1>2, <1>5, <1>6
<1> HIDE DEF new
<1>8. ASSUME NEW m \in NodeIds(h) PROVE NodeFits(h, m)
  <2>1. CASE m = f
    <3>1. h.nodes[m].type = Fused /\ 1 \in DOMAIN h.nodes[m].in /\ h.nodes[m].out \in DOMAIN h.tensors
      BY <1>2, <1>3, <2>1
    <3> QED
      BY <3>1 DEF NodeFits, Fused, InPlaceNodes, Weighted, Sources
  <2>2. CASE m # f
    <3>1. m \in NodeIds(u) /\ NodeFits(u, m)
      BY <1>2, <1>3, <2>2 DEF Sound
    <3> QED
      BY <1>2, <1>3, <3>1, SameFits
  <2> QED
    BY <2>1, <2>2
<1>9. ASSUME NEW m \in NodeIds(h), NEW i \in DOMAIN h.nodes[m].in
      PROVE  InputFits(h, m, i) /\ new[Feed(h, m, i)] < new[m]
  <2>1. CASE m = f
    <3> DEFINE n == Reading(u, conv, bn, i)
    <3>1. i \in 1 .. 3 /\ Feed(h, m, i) = n
      BY <1>2, <1>3, <1>4, <2>1
    <3>2. /\ n \in NodeIds(u) \ {conv, bn} /\ n # 0 /\ u.nodes[n].type # "Output"
          /\ rank[n] < rank[bn]
      BY <1>6, <3>1, ReadingFacts
    <3> HIDE DEF n
    <3>3. new[n] < new[m]
      BY <1>7, <2>1, <3>2
    <3>4. n \in NodeIds(h) /\ h.nodes[n].type = u.nodes[n].type
      BY <1>2, <1>3, <3>2
    <3>5. h.nodes[m].type = Fused
      BY <1>2, <1>3, <2>1
    <3> QED
      BY <3>1, <3>2, <3>3, <3>4, <3>5 DEF InputFits, Fused, Weighted
  <2>2. CASE m # f
    <3>1. /\ m \in NodeIds(u) /\ m # bn /\ i \in DOMAIN u.nodes[m].in /\ InputFits(u, m, i)
          /\ Feed(u, m, i) \in NodeIds(u) /\ Feed(u, m, i) # conv
      BY <1>2, <1>3, <1>5, <2>2, SoundFeeds DEF Sound
    <3>2. rank[Feed(u, m, i)] < rank[m] /\ new[m] = rank[m] /\ h.nodes[m].type = u.nodes[m].type
      BY <1>2, <1>3, <1>6, <1>7, <3>1 DEF IsRank
    <3>3. CASE Feed(u, m, i) = bn
      <4>1. Feed(h, m, i) = f
        BY <1>4, <2>2, <3>3
      <4>2. f \in NodeIds(h) /\ f # 0 /\ h.nodes[f].type = Fused
        BY <1>2, <1>3, <1>5
      <4>3. ~(u.nodes[m].type \in Weighted /\ i = 2)
        BY <1>5, <3>1, <3>3 DEF InputFits
      <4>4. new[f] < new[m]
        BY <1>7, <3>2, <3>3
      <4> QED
        BY <3>2, <4>1, <4>2, <4>3, <4>4 DEF InputFits, Fused
    <3>4. CASE Feed(u, m, i) # bn
      <4>1. Feed(h, m, i) = Feed(u, m, i) /\ Feed(u, m, i) \in NodeIds(h)
        BY <1>2, <1>3, <1>4, <2>2, <3>1, <3>4
      <4>2. h.nodes[Feed(u, m, i)].type = u.nodes[Feed(u, m, i)].type
        BY <1>2, <1>3, <3>1, <4>1
      <4>3. new[Feed(u, m, i)] = rank[Feed(u, m, i)]
        BY <1>7, <3>1
      <4> QED
        BY <3>1, <3>2, <4>1, <4>2, <4>3 DEF InputFits
    <3> QED
      BY <3>3, <3>4
  <2> QED
    BY <2>1, <2>2
<1>10. IsRank(h, new)
  BY <1>9 DEF IsRank
<1>11. \A m \in NodeIds(h) \ {f} : \A i \in DOMAIN h.nodes[m].in :
         /\ m \in NodeIds(u) \ {conv, bn} /\ i \in DOMAIN u.nodes[m].in
         /\ Feed(u, m, i) \in NodeIds(u)
         /\ Feed(h, m, i) = IF Feed(u, m, i) = bn THEN f ELSE Feed(u, m, i)
  BY <1>2, <1>3, <1>4, SoundFeeds
<1>12. /\ f \in NodeIds(h) => DOMAIN h.nodes[f].in = 1 .. 3
       /\ \A i \in 1 .. 3 : f \in NodeIds(h) => Feed(h, f, i) = Reading(u, conv, bn, i)
       /\ \A i \in 1 .. 3 : Reading(u, conv, bn, i) \in NodeIds(u) \ {bn}
  BY <1>2, <1>3, <1>4, ReadingFacts
<1>13. ConstsOnce(h)
  <2>1. ASSUME NEW m \in NodeIds(h), NEW k \in NodeIds(h), NEW i \in DOMAIN h.nodes[m].in,
               NEW l \in DOMAIN h.nodes[k].in, Feed(h, m, i) = Feed(h, k, l),
               h.nodes[Feed(h, m, i)].type = "Const", m # f
        PROVE  m = k
    <3> DEFINE n == Feed(u, m, i)
    <3>1. /\ n \in NodeIds(u) /\ Feed(h, m, i) = n /\ n # bn /\ n \in NodeIds(h)
          /\ u.nodes[n].type = "Const"
      <4>1. Feed(h, m, i) # f /\ f \notin NodeIds(u)
        BY <1>2, <1>3, <1>5, <2>1 DEF Fused
      <4>2. n \in NodeIds(u) /\ Feed(h, m, i) = n /\ n # bn
        BY <1>11, <2>1, <4>1
      <4>3. n # conv
        BY <1>5, <1>11, <2>1, <4>2
      <4> QED
        BY <1>2, <1>3, <2>1, <4>2, <4>3
    <3>2. CASE k # f
      <4>1. Feed(u, k, l) = n /\ k \in NodeIds(u) /\ l \in DOMAIN u.nodes[k].in
        BY <1>2, <1>11, <2>1, <3>1, <3>2, ZenonT(60)
      <4> QED
        BY <1>11, <2>1, <3>1, <4>1 DEF Sound, ConstsOnce
    <3>3. CASE k = f
      <4>1. l \in 1 .. 3 /\ Reading(u, conv, bn, l) = n
        BY <1>12, <2>1, <3>1, <3>3
      <4>2. PICK by \in {conv, bn} : \E j \in DOMAIN u.nodes[by].in : Feed(u, by, j) = n
        BY <4>1, ReadingInputs
      <4>3. by \in NodeIds(u) /\ m \in NodeIds(u) \ {conv, bn} /\ i \in DOMAIN u.nodes[m].in
        BY <1>5, <1>11, <2>1
      <4>4. m = by
        BY <3>1, <4>2, <4>3 DEF Sound, ConstsOnce
      <4> QED
        BY <4>3, <4>4
    <3> QED
      BY <3>2, <3>3
  <2>2. \A m, k \in NodeIds(h) : \A i \in DOMAIN h.nodes[m].in : \A l \in DOMAIN h.nodes[k].in :
          Feed(h, m, i) = Feed(h, k, l) /\ h.nodes[Feed(h, m, i)].type = "Const" => m = k
    BY <2>1
  <2> QED
    BY <2>2 DEF ConstsOnce
<1>14. ASSUME once PROVE NoDouble(h)
  <2>1. NoDouble(u)
    BY <1>14 DEF Sound
  <2>2. ASSUME NEW m \in NodeIds(h), NEW i \in DOMAIN h.nodes[m].in, NEW l \in DOMAIN h.nodes[m].in,
               i # l
        PROVE  Feed(h, m, i) # Feed(h, m, l)
    <3>1. CASE m = f
      <4>1. i \in 1 .. 3 /\ l \in 1 .. 3 /\ Reading(u, conv, bn, i) # Reading(u, conv, bn, l)
        BY <1>12, <2>1, <2>2, <3>1, ReadingDistinct
      <4> QED
        BY <1>12, <3>1, <4>1
    <3>2. CASE m # f
      <4>1. Feed(u, m, i) # Feed(u, m, l)
        BY <1>11, <2>1, <2>2, <3>2 DEF NoDouble
      <4>2. /\ Feed(h, m, i) = IF Feed(u, m, i) = bn THEN f ELSE Feed(u, m, i)
            /\ Feed(h, m, l) = IF Feed(u, m, l) = bn THEN f ELSE Feed(u, m, l)
            /\ Feed(u, m, i) \in NodeIds(u) /\ Feed(u, m, l) \in NodeIds(u)
        BY <1>11, <2>2, <3>2
      <4>3. f \notin NodeIds(u)
        BY <1>2
      <4> QED
        BY <4>1, <4>2, <4>3
    <3> QED
      BY <3>1, <3>2
  <2> QED
    BY <2>2 DEF NoDouble
<1> QED
  BY <1>2, <1>3, <1>7, <1>8, <1>9, <1>10, <1>13, <1>14 DEF Sound

\* With the inputs of both connected, before the second is removed.
BothRead(u, conv, bn) ==
  LET attributes == [u.nodes[bn].attributes EXCEPT
                       !.computes = u.nodes[conv].attributes.computes \o @]
      f == Len(u.nodes) + 1
      inputs == <<Producer(u, conv, 1), Producer(u, conv, 2), Producer(u, bn, 2)>>
  IN  ConnectInputs(AddNode(u, Fused, 3, attributes), f, inputs)

FuseBn(u, conv, bn) ==
  LET f == Len(u.nodes) + 1
      less == RemoveNode(SetAccessor(BothRead(u, conv, bn), u.nodes[bn].out, FALSE), bn)
      driven == Driven(less, f, DrivingNodes(u, bn))
  IN  RemoveNode(MoveAccessor(driven, Accessor(u, bn), f), conv)

LEMMA FuseBatchNormalizationSteps ==
  ASSUME NEW u, NEW conv, NEW bn, ~ Accessor(u, conv)
  PROVE  FuseBatchNormalization(u, conv, bn) = FuseBn(u, conv, bn)
  BY DEF FuseBatchNormalization, FuseBn, BothRead, SetAccessor, Driven, Drive, Fused, FoldLeft,
         MapThenFoldSet

\* Adds and connects: as much as the steps that follow need.
LEMMA BothReadFacts ==
  ASSUME NEW once, NEW u, Sound(once, u), NEW conv, NEW bn, Normalises(u, conv, bn)
  PROVE  \E a : /\ Adds(u, Fused, 3, a)
               /\ LayersOf(a, NodeIds(a), BothRead(u, conv, bn))
               /\ \A m \in NodeIds(a) : \A i \in DOMAIN a.nodes[m].in :
                    Feed(BothRead(u, conv, bn), m, i) =
                      IF m = Len(u.nodes) + 1 THEN Reading(u, conv, bn, i) ELSE Feed(u, m, i)
<1> DEFINE attributes == [u.nodes[bn].attributes EXCEPT
                            !.computes = u.nodes[conv].attributes.computes \o @]
           f == Len(u.nodes) + 1
           inputs == <<Producer(u, conv, 1), Producer(u, conv, 2), Producer(u, bn, 2)>>
           a == AddNode(u, Fused, 3, attributes)
           h == BothRead(u, conv, bn)
<1>1. u \in Graphs /\ Agrees(u) /\ HaveTensors(u)
  BY SoundFeeds, EdgesHaveTensors
<1>2. conv \in NodeIds(u) /\ bn \in NodeIds(u) /\ DOMAIN u.nodes[conv].in = 1 .. 2
      /\ DOMAIN u.nodes[bn].in = 1 .. 2
  BY DEF Normalises
<1>3. attributes \in Attribute
  <2>1. u.nodes[conv].attributes \in Attribute /\ u.nodes[bn].attributes \in Attribute
    BY <1>1, <1>2, GraphFacts, NodeFacts
  <2>2. u.nodes[conv].attributes.computes \o u.nodes[bn].attributes.computes \in Seq(Nat)
    BY <2>1 DEF Attribute
  <2> QED
    BY <2>1, <2>2 DEF Attribute
<1>4. h = ConnectInputs(a, f, inputs)
  BY DEF BothRead
<1> HIDE DEF attributes, h
<1>5. Adds(u, Fused, 3, a)
  <2>1. Fused \in Types /\ 3 \in 0 .. 3
    BY DEF Fused, Types
  <2> QED
    BY <1>1, <1>3, <2>1, NodeAdded
<1> HIDE DEF a
<1>6. /\ a \in Graphs /\ Agrees(a) /\ f \notin NodeIds(u) /\ NodeIds(a) = NodeIds(u) \cup {f}
      /\ \A n \in NodeIds(u) : /\ a.nodes[n].out = u.nodes[n].out
                               /\ DOMAIN a.nodes[n].in = DOMAIN u.nodes[n].in
                               /\ \A i \in DOMAIN u.nodes[n].in : Feed(a, n, i) = Feed(u, n, i)
      /\ DOMAIN a.nodes[f].in = 1 .. 3 /\ \A i \in 1 .. 3 : Feed(a, f, i) = 0
      /\ DOMAIN u.tensors \subseteq DOMAIN a.tensors
  BY <1>5 DEF Adds
<1>7. Len(inputs) = 3 /\ DOMAIN inputs = 1 .. 3
      /\ \A i \in 1 .. 3 : inputs[i] = Reading(u, conv, bn, i)
  <2>1. /\ Producer(u, conv, 1) = Feed(u, conv, 1) /\ Producer(u, conv, 2) = Feed(u, conv, 2)
        /\ Producer(u, bn, 2) = Feed(u, bn, 2)
    <3>1. Feed(u, conv, 1) # 0 /\ Feed(u, conv, 2) # 0 /\ Feed(u, bn, 2) # 0
      BY <1>2, SoundFeeds
    <3> QED
      BY <3>1 DEF Feed
  <2>2. /\ inputs[1] = Feed(u, conv, 1) /\ inputs[2] = Feed(u, conv, 2)
        /\ inputs[3] = Feed(u, bn, 2) /\ Len(inputs) = 3 /\ DOMAIN inputs = 1 .. 3
    BY <2>1
  <2> HIDE DEF inputs
  <2>3. ASSUME NEW i \in 1 .. 3 PROVE inputs[i] = Reading(u, conv, bn, i)
    <3>1. i = 1 \/ i = 2 \/ i = 3
      OBVIOUS
    <3> QED
      BY <2>2, <3>1 DEF Reading
  <2> QED
    BY <2>2, <2>3
<1> HIDE DEF inputs
<1>8. ASSUME NEW i \in 1 .. 3
      PROVE  inputs[i] \in NodeIds(a) /\ a.nodes[inputs[i]].out \in DOMAIN a.tensors
  <2>1. inputs[i] \in NodeIds(u) /\ u.nodes[inputs[i]].out \in DOMAIN u.tensors
    BY <1>7, ReadingFacts
  <2> QED
    BY <1>6, <2>1
<1>9. /\ SameLayers(a, h) /\ Agrees(h)
      /\ \A m \in NodeIds(a) : \A i \in DOMAIN a.nodes[m].in :
           Feed(h, m, i) = IF m = f THEN inputs[i] ELSE Feed(a, m, i)
  <2>1. f \in NodeIds(a) /\ Len(inputs) \in Nat /\ DOMAIN inputs = 1 .. Len(inputs)
        /\ DOMAIN a.nodes[f].in = 1 .. Len(inputs)
    BY <1>6, <1>7
  <2>2. \A j \in DOMAIN inputs : /\ inputs[j] \in NodeIds(a)
                                /\ a.nodes[inputs[j]].out \in DOMAIN a.tensors
                                /\ Feed(a, f, j) = 0
    BY <1>6, <1>7, <1>8
  <2> HIDE DEF f
  <2> QED
    BY <1>4, <1>6, <2>1, <2>2, InputsFeed
<1>10. LayersOf(a, NodeIds(a), h)
  BY <1>9, SameLayersOf
<1>11. ASSUME NEW m \in NodeIds(a), NEW i \in DOMAIN a.nodes[m].in
       PROVE  Feed(h, m, i) = IF m = f THEN Reading(u, conv, bn, i) ELSE Feed(u, m, i)
  BY <1>6, <1>7, <1>9
<1> QED
  BY <1>5, <1>10, <1>11 DEF h

LEMMA FuseBnSound ==
  ASSUME NEW once, NEW u, Sound(once, u), NEW conv, NEW bn, Normalises(u, conv, bn)
  PROVE  Sound(once, FuseBn(u, conv, bn)) /\ DOMAIN u.nodes \subseteq DOMAIN FuseBn(u, conv, bn).nodes
<1> DEFINE f == Len(u.nodes) + 1
           both == BothRead(u, conv, bn)
           taken == SetAccessor(both, u.nodes[bn].out, FALSE)
           less == RemoveNode(taken, bn)
           seq == DrivingNodes(u, bn)
           driven == Driven(less, f, seq)
           moved == MoveAccessor(driven, Accessor(u, bn), f)
           h == FuseBn(u, conv, bn)
           S == {<<seq[k].node, seq[k].idx>> : k \in DOMAIN seq}
<1>1. /\ u \in Graphs /\ Agrees(u) /\ FeedersHaveTensors(u) /\ NodeIds(u) \subseteq Nat \ {0}
  BY SoundFeeds, NodesAreNumbers
<1>2. /\ conv \in NodeIds(u) /\ bn \in NodeIds(u) /\ conv # bn
      /\ u.nodes[bn].type = "BatchNormalizationLayer" /\ Feed(u, bn, 1) = conv
      /\ 1 \in DOMAIN u.nodes[bn].in
      /\ \A m \in NodeIds(u) : \A i \in DOMAIN u.nodes[m].in : Feed(u, m, i) = conv => m = bn
  BY DEF Normalises
<1>3. u.nodes[bn].out \in DOMAIN u.tensors
  <2>1. NodeFits(u, bn)
    BY <1>2 DEF Sound
  <2> QED
    BY <1>2, <2>1 DEF NodeFits
<1>4. PICK a : /\ Adds(u, Fused, 3, a)
               /\ LayersOf(a, NodeIds(a), both)
               /\ \A m \in NodeIds(a) : \A i \in DOMAIN a.nodes[m].in :
                    Feed(both, m, i) = IF m = f THEN Reading(u, conv, bn, i) ELSE Feed(u, m, i)
  BY BothReadFacts
<1>5. /\ NodeIds(a) = NodeIds(u) \cup {f} /\ f \notin NodeIds(u) /\ f \in Nat \ {0}
      /\ \A m \in NodeIds(u) : /\ a.nodes[m].out = u.nodes[m].out
                               /\ DOMAIN a.nodes[m].in = DOMAIN u.nodes[m].in
      /\ DOMAIN a.nodes[f].in = 1 .. 3 /\ a.nodes[f].out \in DOMAIN a.tensors
      /\ DOMAIN u.tensors \subseteq DOMAIN a.tensors
  BY <1>4 DEF Adds, Fused
<1>6. h = RemoveNode(moved, conv)
  BY DEF FuseBn
<1>7. /\ seq = DrivingNodes(u, bn) /\ Len(seq) \in Nat /\ DOMAIN seq = 1 .. Len(seq)
      /\ \A k \in DOMAIN seq : /\ seq[k].node \in NodeIds(u)
                               /\ seq[k].idx \in DOMAIN u.nodes[seq[k].node].in
                               /\ Feed(u, seq[k].node, seq[k].idx) = bn
      /\ \A m \in NodeIds(u) : \A i \in DOMAIN u.nodes[m].in : Feed(u, m, i) = bn => <<m, i>> \in S
  BY <1>1, <1>2, DrivingFacts
<1>8. ASSUME NEW m \in NodeIds(u), NEW i \in DOMAIN u.nodes[m].in, Feed(u, m, i) = bn
      PROVE  m # bn /\ m # conv
  <2>1. PICK rank \in [Nat -> Nat] : IsRank(u, rank)
    BY DEF Sound
  <2>2. rank[bn] < rank[m] /\ rank[conv] < rank[bn] /\ rank[m] \in Nat /\ rank[bn] \in Nat
        /\ rank[conv] \in Nat
    BY <1>1, <1>2, <1>8, <2>1 DEF IsRank
  <2> QED
    BY <2>2
<1>9. ASSUME NEW m \in NodeIds(a), NEW i \in DOMAIN a.nodes[m].in
      PROVE  /\ Feed(both, m, i) = IF m = f THEN Reading(u, conv, bn, i) ELSE Feed(u, m, i)
             /\ Feed(both, m, i) \in NodeIds(u)
             /\ m = f => Feed(both, m, i) \notin {conv, bn}
  <2>1. CASE m = f
    BY <1>4, <1>5, <2>1, ReadingFacts
  <2>2. CASE m # f
    BY <1>4, <1>5, <2>2, SoundFeeds
  <2> QED
    BY <2>1, <2>2
<1> HIDE DEF f, both, taken, less, seq, driven, moved, h
\* Without the accessor of bn.
<1>10. both \in Graphs /\ Agrees(both) /\ Relabelled(both, taken)
  <2>1. both \in Graphs /\ Agrees(both) /\ u.nodes[bn].out \in DOMAIN both.tensors
    BY <1>3, <1>4, <1>5 DEF LayersOf
  <2>2. Relabelled(both, taken)
    BY <2>1, AccessorSet DEF taken
  <2> QED
    BY <2>1, <2>2
<1>11. /\ LayersOf(a, NodeIds(a), taken)
       /\ \A m \in NodeIds(a) : \A i \in DOMAIN a.nodes[m].in : Feed(taken, m, i) = Feed(both, m, i)
  <2>1. /\ LayersOf(both, NodeIds(both), taken)
        /\ \A m \in NodeIds(both) : \A i \in DOMAIN both.nodes[m].in :
             Feed(taken, m, i) = Feed(both, m, i)
    BY <1>10, RelabelledWires
  <2>2. NodeIds(both) = NodeIds(a)
        /\ \A m \in NodeIds(a) : DOMAIN both.nodes[m].in = DOMAIN a.nodes[m].in
    BY <1>4 DEF LayersOf
  <2> QED
    BY <1>4, <2>1, <2>2, LayersOfMore
<1>12. /\ taken \in Graphs /\ Agrees(taken) /\ NodeIds(taken) = NodeIds(a)
       /\ DOMAIN taken.tensors = DOMAIN a.tensors
       /\ \A m \in NodeIds(a) : /\ taken.nodes[m].out = a.nodes[m].out
                                /\ DOMAIN taken.nodes[m].in = DOMAIN a.nodes[m].in
  BY <1>11 DEF LayersOf
<1>13. FeedersHaveTensors(taken) /\ bn \in NodeIds(taken)
  <2>1. ASSUME NEW m \in NodeIds(taken), NEW i \in DOMAIN taken.nodes[m].in
        PROVE  taken.nodes[Feed(taken, m, i)].out \in DOMAIN taken.tensors
    <3> DEFINE n == Feed(taken, m, i)
    <3>1. m \in NodeIds(a) /\ i \in DOMAIN a.nodes[m].in
      BY <1>12
    <3>2. n \in NodeIds(u)
      BY <1>9, <1>11, <3>1
    <3>3. u.nodes[n].out \in DOMAIN u.tensors
      <4>1. CASE m = f
        <5>1. n = Reading(u, conv, bn, i) /\ i \in 1 .. 3
          BY <1>5, <1>9, <1>11, <3>1, <4>1
        <5> QED
          BY <5>1, ReadingFacts
      <4>2. CASE m # f
        <5>1. m \in NodeIds(u) /\ i \in DOMAIN u.nodes[m].in /\ n = Feed(u, m, i) /\ n # 0
          BY <1>1, <1>5, <1>9, <1>11, <3>1, <3>2, <4>2
        <5> QED
          BY <1>1, <5>1 DEF FeedersHaveTensors
      <4> QED
        BY <4>1, <4>2
    <3> QED
      BY <1>5, <1>12, <3>2, <3>3
  <2> QED
    BY <1>2, <1>5, <1>12, <2>1 DEF FeedersHaveTensors
\* bn removed.
<1>14. /\ LayersOf(taken, NodeIds(taken) \ {bn}, less)
       /\ \A m \in NodeIds(taken) \ {bn} : \A i \in DOMAIN taken.nodes[m].in :
            Feed(less, m, i) = IF Feed(taken, m, i) = bn THEN 0 ELSE Feed(taken, m, i)
  BY <1>12, <1>13, RemovedNode DEF less
<1>15. /\ LayersOf(a, NodeIds(a) \ {bn}, less)
       /\ \A m \in NodeIds(a) \ {bn} : \A i \in DOMAIN a.nodes[m].in :
            Feed(less, m, i) = IF Feed(both, m, i) = bn THEN 0 ELSE Feed(both, m, i)
  <2>1. NodeIds(a) \ {bn} \subseteq NodeIds(a) /\ LayersOf(taken, NodeIds(a) \ {bn}, less)
    BY <1>12, <1>14
  <2> QED
    BY <1>11, <1>12, <1>14, <2>1, LayersOfMore
<1>16. /\ less \in Graphs /\ Agrees(less) /\ NodeIds(less) = NodeIds(a) \ {bn}
       /\ DOMAIN less.tensors = DOMAIN a.tensors
       /\ \A m \in NodeIds(less) : /\ less.nodes[m].out = a.nodes[m].out
                                   /\ DOMAIN less.nodes[m].in = DOMAIN a.nodes[m].in
  BY <1>15 DEF LayersOf
\* Its readers connected.
<1>17. Joins(less, f, S, driven)
  <2>1. f \in NodeIds(less) /\ less.nodes[f].out \in DOMAIN less.tensors
    BY <1>2, <1>5, <1>16
  <2>2. ASSUME NEW k \in DOMAIN seq
        PROVE  /\ seq[k].node \in NodeIds(less)
               /\ seq[k].idx \in DOMAIN less.nodes[seq[k].node].in
               /\ Feed(less, seq[k].node, seq[k].idx) = 0
    <3>1. /\ seq[k].node \in NodeIds(u) /\ seq[k].idx \in DOMAIN u.nodes[seq[k].node].in
          /\ Feed(u, seq[k].node, seq[k].idx) = bn
      BY <1>7
    <3>2. seq[k].node # bn /\ seq[k].node # f
      BY <1>5, <1>8, <3>1
    <3>3. seq[k].node \in NodeIds(a) \ {bn} /\ seq[k].idx \in DOMAIN a.nodes[seq[k].node].in
      BY <1>5, <3>1, <3>2
    <3>4. Feed(both, seq[k].node, seq[k].idx) = bn
      BY <1>9, <3>1, <3>2, <3>3
    <3> QED
      BY <1>15, <1>16, <3>3, <3>4
  <2> QED
    BY <1>7, <1>16, <2>1, <2>2, DrivenFeeds DEF driven
<1>18. /\ LayersOf(a, NodeIds(a) \ {bn}, driven)
       /\ \A m \in NodeIds(a) \ {bn} : \A i \in DOMAIN a.nodes[m].in :
            Feed(driven, m, i) = IF <<m, i>> \in S THEN f ELSE Feed(less, m, i)
  <2>1. LayersOf(less, NodeIds(less), driven)
    BY <1>17, SameLayersOf DEF Joins
  <2>2. LayersOf(a, NodeIds(a) \ {bn}, driven)
    BY <1>15, <1>16, <2>1, LayersOfMore
  <2> QED
    BY <1>16, <1>17, <2>2 DEF Joins
<1>19. ASSUME NEW m \in NodeIds(a) \ {bn}, NEW i \in DOMAIN a.nodes[m].in
       PROVE  Feed(driven, m, i) = IF m = f THEN Reading(u, conv, bn, i)
                                   ELSE IF Feed(u, m, i) = bn THEN f ELSE Feed(u, m, i)
  <2>1. CASE m = f
    <3>1. <<m, i>> \notin S
      BY <1>5, <1>7, <2>1
    <3> QED
      BY <1>9, <1>15, <1>18, <2>1, <3>1
  <2>2. CASE m # f
    <3>1. m \in NodeIds(u) /\ i \in DOMAIN u.nodes[m].in
      BY <1>5, <2>2
    <3>2. <<m, i>> \in S <=> Feed(u, m, i) = bn
      BY <1>7, <3>1
    <3>3. Feed(both, m, i) = Feed(u, m, i)
      BY <1>9, <2>2
    <3> QED
      BY <1>15, <1>18, <2>2, <3>2, <3>3
  <2> QED
    BY <2>1, <2>2
\* The accessor given.
<1>20. /\ driven \in Graphs /\ Agrees(driven) /\ NodeIds(driven) = NodeIds(a) \ {bn}
       /\ DOMAIN driven.tensors = DOMAIN a.tensors
       /\ \A m \in NodeIds(driven) : /\ driven.nodes[m].out = a.nodes[m].out
                                     /\ DOMAIN driven.nodes[m].in = DOMAIN a.nodes[m].in
  BY <1>18 DEF LayersOf
<1>21. Relabelled(driven, moved)
  <2>1. driven.nodes[f].out \in DOMAIN driven.tensors
    BY <1>2, <1>5, <1>20
  <2>2. Accessor(u, bn) \in BOOLEAN
    <3>1. u.tensors \in Seq(Tensor)
      BY <1>1, GraphFacts
    <3>2. u.tensors[u.nodes[bn].out] \in Tensor
      BY <1>3, <3>1, SeqFacts
    <3> QED
      BY <3>2 DEF Accessor, Tensor
  <2>3. moved = SetAccessor(driven, driven.nodes[f].out, Accessor(u, bn))
    BY DEF moved, MoveAccessor, SetAccessor
  <2> QED
    BY <1>20, <2>1, <2>2, <2>3, AccessorSet
<1>22. /\ LayersOf(driven, NodeIds(driven), moved)
       /\ \A m \in NodeIds(driven) : \A i \in DOMAIN driven.nodes[m].in :
            Feed(moved, m, i) = Feed(driven, m, i)
  BY <1>20, <1>21, RelabelledWires
<1>23. /\ LayersOf(a, NodeIds(a) \ {bn}, moved)
       /\ \A m \in NodeIds(a) \ {bn} : \A i \in DOMAIN a.nodes[m].in :
            Feed(moved, m, i) = Feed(driven, m, i)
  BY <1>18, <1>20, <1>22, LayersOfMore
<1>24. /\ moved \in Graphs /\ Agrees(moved) /\ NodeIds(moved) = NodeIds(a) \ {bn}
       /\ DOMAIN moved.tensors = DOMAIN a.tensors
       /\ \A m \in NodeIds(moved) : /\ moved.nodes[m].out = a.nodes[m].out
                                    /\ DOMAIN moved.nodes[m].in = DOMAIN a.nodes[m].in
  BY <1>23 DEF LayersOf
<1>25. ASSUME NEW m \in NodeIds(a) \ {bn}, NEW i \in DOMAIN a.nodes[m].in
       PROVE  /\ Feed(moved, m, i) \in NodeIds(moved) \ {conv}
              /\ Feed(moved, m, i) = f \/ u.nodes[Feed(moved, m, i)].out \in DOMAIN u.tensors
  <2>1. Feed(moved, m, i) = IF m = f THEN Reading(u, conv, bn, i)
                            ELSE IF Feed(u, m, i) = bn THEN f ELSE Feed(u, m, i)
    BY <1>19, <1>23
  <2>2. CASE m = f
    <3>1. /\ Reading(u, conv, bn, i) \in NodeIds(u) \ {conv, bn}
          /\ u.nodes[Reading(u, conv, bn, i)].out \in DOMAIN u.tensors
      BY <1>5, <2>2, ReadingFacts
    <3> QED
      BY <1>5, <1>24, <2>1, <2>2, <3>1
  <2>3. CASE m # f
    <3>1. m \in NodeIds(u) /\ i \in DOMAIN u.nodes[m].in
      BY <1>5, <2>3
    <3>2. CASE Feed(u, m, i) = bn
      BY <1>2, <1>5, <1>24, <2>1, <2>3, <3>2
    <3>3. CASE Feed(u, m, i) # bn
      <4>1. /\ Feed(u, m, i) \in NodeIds(u) \ {conv, bn} /\ Feed(u, m, i) # 0
            /\ u.nodes[Feed(u, m, i)].out \in DOMAIN u.tensors
        BY <1>1, <1>2, <3>1, <3>3, SoundFeeds DEF FeedersHaveTensors
      <4> QED
        BY <1>5, <1>24, <2>1, <2>3, <3>3, <4>1
    <3> QED
      BY <3>2, <3>3
  <2> QED
    BY <2>2, <2>3
<1>26. FeedersHaveTensors(moved) /\ conv \in NodeIds(moved)
  <2>1. ASSUME NEW m \in NodeIds(moved), NEW i \in DOMAIN moved.nodes[m].in
        PROVE  moved.nodes[Feed(moved, m, i)].out \in DOMAIN moved.tensors
    <3> DEFINE n == Feed(moved, m, i)
    <3>1. m \in NodeIds(a) \ {bn} /\ i \in DOMAIN a.nodes[m].in
      BY <1>24
    <3>2. n \in NodeIds(moved) /\ (n = f \/ u.nodes[n].out \in DOMAIN u.tensors)
      BY <1>25, <3>1
    <3> HIDE DEF n
    <3>3. moved.nodes[n].out = a.nodes[n].out /\ n \in NodeIds(u) \cup {f}
      BY <1>5, <1>24, <3>2
    <3>4. moved.nodes[n].out \in DOMAIN a.tensors
      BY <1>5, <3>2, <3>3
    <3> QED
      BY <1>24, <3>4 DEF n
  <2> QED
    BY <1>2, <1>5, <1>24, <2>1 DEF FeedersHaveTensors
\* conv removed.
<1>27. /\ LayersOf(moved, NodeIds(moved) \ {conv}, h)
       /\ \A m \in NodeIds(moved) \ {conv} : \A i \in DOMAIN moved.nodes[m].in :
            Feed(h, m, i) = IF Feed(moved, m, i) = conv THEN 0 ELSE Feed(moved, m, i)
  BY <1>6, <1>24, <1>26, RemovedNode
<1>28. LayersOf(a, NodeIds(a) \ {bn, conv}, h)
  <2>1. NodeIds(a) \ {bn, conv} \subseteq NodeIds(a) \ {bn}
        /\ NodeIds(moved) \ {conv} = NodeIds(a) \ {bn, conv}
    BY <1>24
  <2> QED
    BY <1>23, <1>27, <2>1, LayersOfMore
<1>29. ASSUME NEW m \in NodeIds(a) \ {bn, conv}, NEW i \in DOMAIN a.nodes[m].in
       PROVE  Feed(h, m, i) = IF m = f THEN Reading(u, conv, bn, i)
                              ELSE IF Feed(u, m, i) = bn THEN f ELSE Feed(u, m, i)
  <2>1. Feed(h, m, i) = IF Feed(moved, m, i) = conv THEN 0 ELSE Feed(moved, m, i)
    BY <1>24, <1>27
  <2>2. Feed(moved, m, i) # conv
    BY <1>25
  <2> QED
    BY <1>19, <1>23, <2>1, <2>2
<1>30. FusedFeeds(u, conv, bn, a, h)
  BY <1>29 DEF FusedFeeds, f
<1>31. Sound(once, h) /\ DOMAIN u.nodes \subseteq DOMAIN h.nodes
  BY <1>4, <1>28, <1>30, FusedSound
<1> QED
  BY <1>31 DEF h

-----------------------------------------------------------------------------
(* NodeFusionMutator::mutate                                               *)

VisitAct(h, type, last, n) ==
  IF n <= last /\ h.nodes[n].type = type /\ Cardinality(h.nodes[n].out_edges) = 1
  THEN LET next == h.edges[OutEdges(h, n)[1]].consumer
       IN  IF h.nodes[next].type = "ActivationLayer" THEN FuseActivation(h, n, next) ELSE h
  ELSE h
VisitBn(h, last, n) ==
  IF n <= last /\ h.nodes[n].type = "ConvolutionLayer" /\ Cardinality(h.nodes[n].out_edges) = 1
  THEN LET next == h.edges[OutEdges(h, n)[1]].consumer
       IN  IF h.nodes[next].type = "BatchNormalizationLayer"
           THEN FuseBatchNormalization(h, n, next) ELSE h
  ELSE h
ActsVisited(base, type, last, seq) == FoldLeftDomain(LAMBDA h, n : VisitAct(h, type, last, n), base, seq)
BnsVisited(base, last, seq) == FoldLeftDomain(LAMBDA h, n : VisitBn(h, last, n), base, seq)

ActsClosed(V, type, last, seq) == \A h \in V : \A k \in 1 .. Len(seq) : VisitAct(h, type, last, k) \in V
ActsRun(V, base, type, last, seq) ==
  \E r : /\ \A k \in 0 .. Len(seq) : r[k] \in V
        /\ r[0] = base /\ ActsVisited(base, type, last, seq) = r[Len(seq)]
        /\ \A k \in 1 .. Len(seq) : r[k] = VisitAct(r[k - 1], type, last, k)

LEMMA ActsUnrolled ==
  ASSUME NEW type, NEW last, NEW seq, Len(seq) \in Nat, DOMAIN seq = 1 .. Len(seq), NEW V, NEW base \in V, ActsClosed(V, type, last, seq)
  PROVE  ActsRun(V, base, type, last, seq)
<1> DEFINE size == Len(seq)
           ids == [i \in DOMAIN seq |-> i]
           Solves(f) == f = [s \in SUBSET (1 .. size) |->
                               IF s = {} THEN base
                               ELSE VisitAct(f[s \ {Max(s)}], type, last, ids[Max(s)])]
           iter == CHOOSE f : Solves(f)
           step == [k \in 1 .. size |-> [h \in V |-> VisitAct(h, type, last, k)]]
<1>1. size \in Nat /\ DOMAIN seq = 1 .. size
  OBVIOUS
<1>0. DOMAIN ids = 1 .. size /\ \A k \in 1 .. size : ids[k] = k
  BY <1>1
<1>2. ActsVisited(base, type, last, seq) = iter[1 .. size]
  BY <1>0, <1>1 DEF ActsVisited, FoldLeftDomain, FoldLeft, MapThenFoldSet
<1> HIDE DEF ids, size
<1>3. step \in [1 .. size -> [V -> V]]
  BY DEF size, ActsClosed
<1>4. PICK f \in [SUBSET (1 .. size) -> V] : \A s \in SUBSET (1 .. size) :
           f[s] = IF s = {} THEN base ELSE step[Max(s)][f[s \ {Max(s)}]]
  <2> HIDE DEF step
  <2>1. FoldIn(V, size, base, step)
    BY <1>1, <1>3, ClosedFold
  <2> QED
    BY <2>1 DEF FoldIn
<1>5. Solves(f)
  <2>1. ASSUME NEW s \in SUBSET (1 .. size), s # {}
        PROVE  step[Max(s)][f[s \ {Max(s)}]] = VisitAct(f[s \ {Max(s)}], type, last, ids[Max(s)])
    BY <1>0, <1>1, <2>1, MaxOfPart
  <2> HIDE DEF step
  <2> QED
    BY <1>4, <2>1
<1>6. Solves(iter)
  BY <1>5
<1> HIDE DEF iter
<1>7. /\ iter[{}] = base
      /\ \A k \in 1 .. size : iter[1 .. k] = VisitAct(iter[1 .. k - 1], type, last, k)
  <2>1. iter[{}] = base
    BY <1>1, <1>6, PartOfInterval
  <2>2. ASSUME NEW k \in 1 .. size PROVE iter[1 .. k] = VisitAct(iter[1 .. k - 1], type, last, k)
    <3>1. /\ 1 .. k \in SUBSET (1 .. size) /\ 1 .. k # {}
          /\ Max(1 .. k) = k /\ (1 .. k) \ {k} = 1 .. k - 1
      BY <1>1, PartOfInterval
    <3>2. iter[1 .. k] = VisitAct(iter[(1 .. k) \ {Max(1 .. k)}], type, last, ids[Max(1 .. k)])
      BY <1>6, <3>1
    <3> QED
      BY <1>0, <3>1, <3>2
  <2> QED
    BY <2>1, <2>2
<1> HIDE DEF Solves
<1> DEFINE r == [k \in 0 .. size |-> iter[1 .. k]]
<1>8. r[0] = base /\ \A k \in 1 .. size : r[k] = VisitAct(r[k - 1], type, last, k)
  BY <1>1, <1>7, Indices
<1>9. r[size] = ActsVisited(base, type, last, seq)
  BY <1>1, <1>2
<1> HIDE DEF r
<1>10. \A k \in 0 .. size : r[k] \in V
  <2>1. r[0] \in V /\ \A k \in 1 .. size : r[k - 1] \in V => r[k] \in V
    BY <1>8 DEF size, ActsClosed
  <2> QED
    BY <1>1, <2>1, StaysIn
<1> QED
  BY <1>8, <1>9, <1>10 DEF size, ActsRun

BnsClosed(V, last, seq) == \A h \in V : \A k \in 1 .. Len(seq) : VisitBn(h, last, k) \in V
BnsRun(V, base, last, seq) ==
  \E r : /\ \A k \in 0 .. Len(seq) : r[k] \in V
        /\ r[0] = base /\ BnsVisited(base, last, seq) = r[Len(seq)]
        /\ \A k \in 1 .. Len(seq) : r[k] = VisitBn(r[k - 1], last, k)

LEMMA BnsUnrolled ==
  ASSUME NEW last, NEW seq, Len(seq) \in Nat, DOMAIN seq = 1 .. Len(seq), NEW V, NEW base \in V, BnsClosed(V, last, seq)
  PROVE  BnsRun(V, base, last, seq)
<1> DEFINE size == Len(seq)
           ids == [i \in DOMAIN seq |-> i]
           Solves(f) == f = [s \in SUBSET (1 .. size) |->
                               IF s = {} THEN base
                               ELSE VisitBn(f[s \ {Max(s)}], last, ids[Max(s)])]
           iter == CHOOSE f : Solves(f)
           step == [k \in 1 .. size |-> [h \in V |-> VisitBn(h, last, k)]]
<1>1. size \in Nat /\ DOMAIN seq = 1 .. size
  OBVIOUS
<1>0. DOMAIN ids = 1 .. size /\ \A k \in 1 .. size : ids[k] = k
  BY <1>1
<1>2. BnsVisited(base, last, seq) = iter[1 .. size]
  BY <1>0, <1>1 DEF BnsVisited, FoldLeftDomain, FoldLeft, MapThenFoldSet
<1> HIDE DEF ids, size
<1>3. step \in [1 .. size -> [V -> V]]
  BY DEF size, BnsClosed
<1>4. PICK f \in [SUBSET (1 .. size) -> V] : \A s \in SUBSET (1 .. size) :
           f[s] = IF s = {} THEN base ELSE step[Max(s)][f[s \ {Max(s)}]]
  <2> HIDE DEF step
  <2>1. FoldIn(V, size, base, step)
    BY <1>1, <1>3, ClosedFold
  <2> QED
    BY <2>1 DEF FoldIn
<1>5. Solves(f)
  <2>1. ASSUME NEW s \in SUBSET (1 .. size), s # {}
        PROVE  step[Max(s)][f[s \ {Max(s)}]] = VisitBn(f[s \ {Max(s)}], last, ids[Max(s)])
    BY <1>0, <1>1, <2>1, MaxOfPart
  <2> HIDE DEF step
  <2> QED
    BY <1>4, <2>1
<1>6. Solves(iter)
  BY <1>5
<1> HIDE DEF iter
<1>7. /\ iter[{}] = base
      /\ \A k \in 1 .. size : iter[1 .. k] = VisitBn(iter[1 .. k - 1], last, k)
  <2>1. iter[{}] = base
    BY <1>1, <1>6, PartOfInterval
  <2>2. ASSUME NEW k \in 1 .. size PROVE iter[1 .. k] = VisitBn(iter[1 .. k - 1], last, k)
    <3>1. /\ 1 .. k \in SUBSET (1 .. size) /\ 1 .. k # {}
          /\ Max(1 .. k) = k /\ (1 .. k) \ {k} = 1 .. k - 1
      BY <1>1, PartOfInterval
    <3>2. iter[1 .. k] = VisitBn(iter[(1 .. k) \ {Max(1 .. k)}], last, ids[Max(1 .. k)])
      BY <1>6, <3>1
    <3> QED
      BY <1>0, <3>1, <3>2
  <2> QED
    BY <2>1, <2>2
<1> HIDE DEF Solves
<1> DEFINE r == [k \in 0 .. size |-> iter[1 .. k]]
<1>8. r[0] = base /\ \A k \in 1 .. size : r[k] = VisitBn(r[k - 1], last, k)
  BY <1>1, <1>7, Indices
<1>9. r[size] = BnsVisited(base, last, seq)
  BY <1>1, <1>2
<1> HIDE DEF r
<1>10. \A k \in 0 .. size : r[k] \in V
  <2>1. r[0] \in V /\ \A k \in 1 .. size : r[k - 1] \in V => r[k] \in V
    BY <1>8 DEF size, BnsClosed
  <2> QED
    BY <1>1, <2>1, StaysIn
<1> QED
  BY <1>8, <1>9, <1>10 DEF size, BnsRun

LEMMA FuseLayerVisits ==
  ASSUME NEW u, NEW type, NEW last
  PROVE  /\ FuseLayer(u, type, "ActivationLayer", last, FuseActivation)
              = ActsVisited(u, type, last, u.nodes)
         /\ FuseLayer(u, "ConvolutionLayer", "BatchNormalizationLayer", last,
                      FuseBatchNormalization) = BnsVisited(u, last, u.nodes)
  BY DEF FuseLayer, ActsVisited, BnsVisited, VisitAct, VisitBn

\* The one consumer of n, which reads n at an input, and nobody else does.
LEMMA OneConsumer ==
  ASSUME NEW u \in Graphs, Agrees(u), NEW n \in DOMAIN u.nodes, u.nodes[n].type # "null",
         Cardinality(u.nodes[n].out_edges) = 1
  PROVE  LET next == u.edges[OutEdges(u, n)[1]].consumer IN
         /\ n \in NodeIds(u) /\ next \in NodeIds(u)
         /\ \E j \in DOMAIN u.nodes[next].in : Feed(u, next, j) = n
         /\ \A m \in NodeIds(u) : \A i \in DOMAIN u.nodes[m].in : Feed(u, m, i) = n => m = next
<1> DEFINE e == OutEdges(u, n)[1]
           next == u.edges[e].consumer
<1>1. n \in NodeIds(u) /\ n # 0
  <2>1. u.nodes[n] # NoNode
    BY DEF NoNode
  <2>2. n \in NodeIds(u)
    BY <2>1 DEF NodeIds
  <2> QED
    BY <2>2, GraphFacts
<1>2. /\ e \in u.nodes[n].out_edges
      /\ \A x \in u.nodes[n].out_edges : x = e
  <2>1. /\ Len(OutEdges(u, n)) = Cardinality(u.nodes[n].out_edges)
        /\ DOMAIN OutEdges(u, n) = 1 .. Len(OutEdges(u, n))
        /\ \A j \in DOMAIN OutEdges(u, n) : OutEdges(u, n)[j] \in u.nodes[n].out_edges
        /\ \A x \in u.nodes[n].out_edges : \E j \in DOMAIN OutEdges(u, n) : OutEdges(u, n)[j] = x
    BY <1>1, OutEdgesFacts
  <2>2. DOMAIN OutEdges(u, n) = {1}
    BY <2>1
  <2> QED
    BY <2>1, <2>2
<1> HIDE DEF e
<1>3. e \in EdgeIds(u) /\ u.edges[e].producer = n
  BY <1>1, <1>2, OutAgrees
<1>4. /\ next \in NodeIds(u) /\ u.edges[e].idx \in DOMAIN u.nodes[next].in
      /\ Feed(u, next, u.edges[e].idx) = n
  BY <1>3, EdgeFeeds
<1>5. ASSUME NEW m \in NodeIds(u), NEW i \in DOMAIN u.nodes[m].in, Feed(u, m, i) = n
      PROVE  m = next
  <2>1. u.nodes[m].in[i] \in u.nodes[n].out_edges /\ u.edges[u.nodes[m].in[i]].consumer = m
    BY <1>1, <1>5, FeedHasEdge
  <2> QED
    BY <1>2, <2>1
<1> QED
  BY <1>1, <1>4, <1>5 DEF e

FusedTypes == {"BatchNormalizationLayer", "ConvolutionLayer", "EltwiseLayer"}

LEMMA VisitActSound ==
  ASSUME NEW once, NEW u, Sound(once, u), NEW type \in FusedTypes, NEW last, NEW n \in DOMAIN u.nodes
  PROVE  Sound(once, VisitAct(u, type, last, n)) /\ DOMAIN VisitAct(u, type, last, n).nodes = DOMAIN u.nodes
<1> DEFINE next == u.edges[OutEdges(u, n)[1]].consumer
<1>1. CASE /\ n <= last /\ u.nodes[n].type = type /\ Cardinality(u.nodes[n].out_edges) = 1
           /\ u.nodes[next].type = "ActivationLayer"
  <2>1. u \in Graphs /\ Agrees(u)
    BY DEF Sound
  <2>2. u.nodes[n].type # "null" /\ u.nodes[n].type \notin {"Output", "Const"}
    BY <1>1 DEF FusedTypes
  <2>3. /\ n \in NodeIds(u) /\ next \in NodeIds(u)
        /\ \E j \in DOMAIN u.nodes[next].in : Feed(u, next, j) = n
        /\ ReadBy(u, n, next)
    BY <1>1, <2>1, <2>2, OneConsumer DEF ReadBy
  <2>4. VisitAct(u, type, last, n) = FuseActivation(u, n, next)
    BY <1>1 DEF VisitAct
  <2> HIDE DEF next
  <2> QED
    BY <1>1, <2>2, <2>3, <2>4, FuseActivationSound
<1>2. CASE ~ (/\ n <= last /\ u.nodes[n].type = type /\ Cardinality(u.nodes[n].out_edges) = 1
              /\ u.nodes[next].type = "ActivationLayer")
  BY <1>2 DEF VisitAct
<1> QED
  BY <1>1, <1>2

LEMMA VisitBnSound ==
  ASSUME NEW once, NEW u, Sound(once, u), NEW last, NEW n \in DOMAIN u.nodes
  PROVE  Sound(once, VisitBn(u, last, n)) /\ DOMAIN u.nodes \subseteq DOMAIN VisitBn(u, last, n).nodes
<1> DEFINE next == u.edges[OutEdges(u, n)[1]].consumer
<1>1. CASE /\ n <= last /\ u.nodes[n].type = "ConvolutionLayer"
           /\ Cardinality(u.nodes[n].out_edges) = 1
           /\ u.nodes[next].type = "BatchNormalizationLayer" /\ ~ Accessor(u, n)
  <2>1. u \in Graphs /\ Agrees(u)
    BY DEF Sound
  <2>2. /\ n \in NodeIds(u) /\ next \in NodeIds(u)
        /\ \E j \in DOMAIN u.nodes[next].in : Feed(u, next, j) = n
        /\ \A m \in NodeIds(u) : \A i \in DOMAIN u.nodes[m].in : Feed(u, m, i) = n => m = next
    BY <1>1, <2>1, OneConsumer
  <2>3. VisitBn(u, last, n) = FuseBatchNormalization(u, n, next)
    BY <1>1 DEF VisitBn
  <2>4. FuseBatchNormalization(u, n, next) = FuseBn(u, n, next)
    BY <1>1, FuseBatchNormalizationSteps
  <2> HIDE DEF next
  <2>5. DOMAIN u.nodes[n].in = 1 .. 2 /\ DOMAIN u.nodes[next].in = 1 .. 2
    <3>1. NodeFits(u, n) /\ NodeFits(u, next)
      BY <2>2 DEF Sound
    <3> QED
      BY <1>1, <3>1 DEF NodeFits, Weighted
  <2>6. u.nodes[Feed(u, next, 2)].type = "Const"
    <3>1. InputFits(u, next, 2)
      BY <2>2, <2>5 DEF Sound
    <3> QED
      BY <1>1, <3>1 DEF InputFits, Weighted
  <2>7. PICK j \in DOMAIN u.nodes[next].in : Feed(u, next, j) = n
    BY <2>2
  <2>8. j = 1
    <3>1. j \in 1 .. 2
      BY <2>5, <2>7
    <3>2. j # 2
      BY <1>1, <2>6, <2>7
    <3> QED
      BY <3>1, <3>2
  <2>9. Normalises(u, n, next)
    BY <1>1, <2>2, <2>5, <2>6, <2>7, <2>8 DEF Normalises
  <2> QED
    BY <2>3, <2>4, <2>9, FuseBnSound
<1>2. CASE ~ (/\ n <= last /\ u.nodes[n].type = "ConvolutionLayer"
              /\ Cardinality(u.nodes[n].out_edges) = 1
              /\ u.nodes[next].type = "BatchNormalizationLayer")
  <2>1. VisitBn(u, last, n) = u
    BY <1>2 DEF VisitBn
  <2> HIDE DEF next
  <2> QED
    BY <2>1
<1>3. CASE Accessor(u, n)
  <2>1. FuseBatchNormalization(u, n, next) = u
    BY <1>3 DEF FuseBatchNormalization
  <2>2. VisitBn(u, last, n) = u
    BY <2>1 DEF VisitBn
  <2> HIDE DEF next
  <2> QED
    BY <2>2
<1> HIDE DEF next
<1> QED
  BY <1>1, <1>2, <1>3

LEMMA ActsSound ==
  ASSUME NEW once, NEW u, Sound(once, u), NEW type \in FusedTypes, NEW last
  PROVE  Sound(once, FuseLayer(u, type, "ActivationLayer", last, FuseActivation))
<1> DEFINE seq == u.nodes
           V == {h \in Graphs : Sound(once, h) /\ DOMAIN seq \subseteq DOMAIN h.nodes}
<1>1. Len(seq) \in Nat /\ DOMAIN seq = 1 .. Len(seq) /\ u \in V
  BY GraphFacts DEF Sound
<1>2. ActsClosed(V, type, last, seq)
  <2>1. ASSUME NEW h \in V, NEW k \in 1 .. Len(seq) PROVE VisitAct(h, type, last, k) \in V
    <3>1. Sound(once, h) /\ k \in DOMAIN h.nodes
      BY <1>1
    <3>2. Sound(once, VisitAct(h, type, last, k))
          /\ DOMAIN VisitAct(h, type, last, k).nodes = DOMAIN h.nodes
      BY <3>1, VisitActSound
    <3>3. VisitAct(h, type, last, k) \in Graphs
      BY <3>2 DEF Sound
    <3> QED
      BY <3>2, <3>3
  <2> HIDE DEF V
  <2> QED
    BY <2>1 DEF ActsClosed
<1>3. ActsVisited(u, type, last, seq) \in V
  <2> HIDE DEF V, seq
  <2>1. ActsRun(V, u, type, last, seq)
    BY <1>1, <1>2, ActsUnrolled
  <2>2. Len(seq) \in 0 .. Len(seq)
    BY <1>1
  <2> QED
    BY <2>1, <2>2 DEF ActsRun
<1>4. Sound(once, ActsVisited(u, type, last, seq))
  BY <1>3
<1> QED
  BY <1>4, FuseLayerVisits

LEMMA BnsSound ==
  ASSUME NEW once, NEW u, Sound(once, u), NEW last
  PROVE  Sound(once, FuseLayer(u, "ConvolutionLayer", "BatchNormalizationLayer", last,
                         FuseBatchNormalization))
<1> DEFINE seq == u.nodes
           V == {h \in Graphs : Sound(once, h) /\ DOMAIN seq \subseteq DOMAIN h.nodes}
<1>1. Len(seq) \in Nat /\ DOMAIN seq = 1 .. Len(seq) /\ u \in V
  BY GraphFacts DEF Sound
<1>2. BnsClosed(V, last, seq)
  <2>1. ASSUME NEW h \in V, NEW k \in 1 .. Len(seq) PROVE VisitBn(h, last, k) \in V
    <3>1. Sound(once, h) /\ k \in DOMAIN h.nodes
      BY <1>1
    <3>2. Sound(once, VisitBn(h, last, k)) /\ DOMAIN h.nodes \subseteq DOMAIN VisitBn(h, last, k).nodes
      BY <3>1, VisitBnSound
    <3>3. VisitBn(h, last, k) \in Graphs
      BY <3>2 DEF Sound
    <3> QED
      BY <3>2, <3>3
  <2> HIDE DEF V
  <2> QED
    BY <2>1 DEF BnsClosed
<1>3. BnsVisited(u, last, seq) \in V
  <2> HIDE DEF V, seq
  <2>1. BnsRun(V, u, last, seq)
    BY <1>1, <1>2, BnsUnrolled
  <2>2. Len(seq) \in 0 .. Len(seq)
    BY <1>1
  <2> QED
    BY <2>1, <2>2 DEF BnsRun
<1>4. Sound(once, BnsVisited(u, last, seq))
  BY <1>3
<1> QED
  BY <1>4, FuseLayerVisits

LEMMA NodeFusionSound ==
  ASSUME NEW once, NEW u, Sound(once, u), NEW to, NEW last
  PROVE  Sound(once, NodeFusion(u, to, last))
<1> DEFINE fused(h, type) == FuseLayer(h, type, "ActivationLayer", Len(h.nodes), FuseActivation)
           conv_act == fused(fused(u, "BatchNormalizationLayer"), "ConvolutionLayer")
           elt_act == IF to = "CL" THEN fused(conv_act, "EltwiseLayer") ELSE conv_act
<1>1. NodeFusion(u, to, last) =
        FuseLayer(elt_act, "ConvolutionLayer", "BatchNormalizationLayer", last,
                  FuseBatchNormalization)
  BY DEF NodeFusion
<1>2. \A h : Sound(once, h) => /\ Sound(once, fused(h, "BatchNormalizationLayer"))
                         /\ Sound(once, fused(h, "ConvolutionLayer")) /\ Sound(once, fused(h, "EltwiseLayer"))
  <2> TAKE h
  <2> HAVE Sound(once, h)
  <2> QED
    BY ActsSound DEF FusedTypes
<1> HIDE DEF fused
<1>3. Sound(once, conv_act)
  BY <1>2
<1>4. Sound(once, elt_act)
  BY <1>2, <1>3
<1> HIDE DEF elt_act
<1>5. Sound(once, FuseLayer(elt_act, "ConvolutionLayer", "BatchNormalizationLayer", last,
                      FuseBatchNormalization))
  BY <1>4, BnsSound
<1> QED
  BY <1>1, <1>5

-----------------------------------------------------------------------------
(* set_output_tensor                                                       *)

PutTensor(edges, e, tid) == [edges EXCEPT ![e].tensor = tid]
PutOut(nodes, n, tid) == [nodes EXCEPT ![n].out = tid]
Rebind(h, tid, e) == [h EXCEPT !.edges[e].tensor = tid, !.tensors[tid].bound = @ \cup {e}]
Moved(u, n, tid) ==
  [u EXCEPT !.nodes[n].out = tid, !.tensors[u.nodes[n].out].bound = @ \ u.nodes[n].out_edges]
Rebinds(base, tid, seq) == FoldLeft(LAMBDA h, e : Rebind(h, tid, e), base, seq)

RebindsClosed(V, tid, seq) == \A h \in V : \A k \in 1 .. Len(seq) : Rebind(h, tid, seq[k]) \in V
RebindsRun(V, base, tid, seq) ==
  \E r : /\ \A k \in 0 .. Len(seq) : r[k] \in V
        /\ r[0] = base /\ Rebinds(base, tid, seq) = r[Len(seq)]
        /\ \A k \in 1 .. Len(seq) : r[k] = Rebind(r[k - 1], tid, seq[k])

LEMMA RebindsUnrolled ==
  ASSUME NEW tid, NEW seq, Len(seq) \in Nat, DOMAIN seq = 1 .. Len(seq), NEW V, NEW base \in V, RebindsClosed(V, tid, seq)
  PROVE  RebindsRun(V, base, tid, seq)
<1> DEFINE size == Len(seq)
           Solves(f) == f = [s \in SUBSET (1 .. size) |->
                               IF s = {} THEN base
                               ELSE Rebind(f[s \ {Max(s)}], tid, seq[Max(s)])]
           iter == CHOOSE f : Solves(f)
           step == [k \in 1 .. size |-> [h \in V |-> Rebind(h, tid, seq[k])]]
<1>1. size \in Nat /\ DOMAIN seq = 1 .. size
  OBVIOUS
<1>2. Rebinds(base, tid, seq) = iter[1 .. size]
  BY <1>1 DEF Rebinds, FoldLeft, MapThenFoldSet
<1> HIDE DEF size
<1>3. step \in [1 .. size -> [V -> V]]
  BY DEF size, RebindsClosed
<1>4. PICK f \in [SUBSET (1 .. size) -> V] : \A s \in SUBSET (1 .. size) :
           f[s] = IF s = {} THEN base ELSE step[Max(s)][f[s \ {Max(s)}]]
  <2> HIDE DEF step
  <2>1. FoldIn(V, size, base, step)
    BY <1>1, <1>3, ClosedFold
  <2> QED
    BY <2>1 DEF FoldIn
<1>5. Solves(f)
  <2>1. ASSUME NEW s \in SUBSET (1 .. size), s # {}
        PROVE  step[Max(s)][f[s \ {Max(s)}]] = Rebind(f[s \ {Max(s)}], tid, seq[Max(s)])
    BY <1>1, <2>1, MaxOfPart
  <2> HIDE DEF step
  <2> QED
    BY <1>4, <2>1
<1>6. Solves(iter)
  BY <1>5
<1> HIDE DEF iter
<1>7. /\ iter[{}] = base
      /\ \A k \in 1 .. size : iter[1 .. k] = Rebind(iter[1 .. k - 1], tid, seq[k])
  <2>1. iter[{}] = base
    BY <1>1, <1>6, PartOfInterval
  <2>2. ASSUME NEW k \in 1 .. size PROVE iter[1 .. k] = Rebind(iter[1 .. k - 1], tid, seq[k])
    <3>1. /\ 1 .. k \in SUBSET (1 .. size) /\ 1 .. k # {}
          /\ Max(1 .. k) = k /\ (1 .. k) \ {k} = 1 .. k - 1
      BY <1>1, PartOfInterval
    <3>2. iter[1 .. k] = Rebind(iter[(1 .. k) \ {Max(1 .. k)}], tid, seq[Max(1 .. k)])
      BY <1>6, <3>1
    <3> QED
      BY <3>1, <3>2
  <2> QED
    BY <2>1, <2>2
<1> HIDE DEF Solves
<1> DEFINE r == [k \in 0 .. size |-> iter[1 .. k]]
<1>8. r[0] = base /\ \A k \in 1 .. size : r[k] = Rebind(r[k - 1], tid, seq[k])
  BY <1>1, <1>7, Indices
<1>9. r[size] = Rebinds(base, tid, seq)
  BY <1>1, <1>2
<1> HIDE DEF r
<1>10. \A k \in 0 .. size : r[k] \in V
  <2>1. r[0] \in V /\ \A k \in 1 .. size : r[k - 1] \in V => r[k] \in V
    BY <1>8 DEF size, RebindsClosed
  <2> QED
    BY <1>1, <2>1, StaysIn
<1> QED
  BY <1>8, <1>9, <1>10 DEF size, RebindsRun

\* The output of n is tensor tid, and so is that of its edges in X.
Rebound(u, n, tid, X, h) ==
  /\ h \in Graphs /\ NodeIds(h) = NodeIds(u) /\ DOMAIN h.nodes = DOMAIN u.nodes
  /\ \A m \in NodeIds(u) :
       /\ h.nodes[m].type = u.nodes[m].type /\ h.nodes[m].in = u.nodes[m].in
       /\ h.nodes[m].out_edges = u.nodes[m].out_edges
       /\ h.nodes[m].out = IF m = n THEN tid ELSE u.nodes[m].out
  /\ DOMAIN h.edges = DOMAIN u.edges
  /\ \A e \in DOMAIN u.edges :
       /\ h.edges[e].producer = u.edges[e].producer /\ h.edges[e].consumer = u.edges[e].consumer
       /\ h.edges[e].idx = u.edges[e].idx
       /\ h.edges[e].tensor = IF e \in X THEN tid ELSE u.edges[e].tensor
  /\ DOMAIN h.tensors = DOMAIN u.tensors
  /\ \A y \in DOMAIN u.tensors :
       h.tensors[y].bound = (IF y = u.nodes[n].out THEN u.tensors[y].bound \ u.nodes[n].out_edges
                             ELSE u.tensors[y].bound) \cup {e \in X : y = tid}

LEMMA OutPut ==
  ASSUME NEW nodes \in Seq(Node \cup {NoNode}), NEW p \in DOMAIN nodes, nodes[p] \in Node,
         NEW tid \in Nat
  PROVE  LET m == PutOut(nodes, p, tid) IN
         /\ m \in Seq(Node \cup {NoNode}) /\ DOMAIN m = DOMAIN nodes
         /\ \A n \in DOMAIN nodes : n # p => m[n] = nodes[n]
         /\ m[p] \in Node /\ m[p].out_edges = nodes[p].out_edges
         /\ m[p].type = nodes[p].type /\ m[p].in = nodes[p].in /\ m[p].out = tid
<1> DEFINE node == [nodes[p] EXCEPT !.out = tid]
           m == PutOut(nodes, p, tid)
<1>1. /\ node \in Node /\ node.out = tid /\ node.out_edges = nodes[p].out_edges
      /\ node.type = nodes[p].type /\ node.in = nodes[p].in
  BY DEF Node
<1>2. m = [nodes EXCEPT ![p] = node]
  BY DEF PutOut
<1> HIDE DEF node, m
<1>3. m \in Seq(Node \cup {NoNode}) /\ DOMAIN m = DOMAIN nodes /\ m[p] = node
      /\ \A n \in DOMAIN nodes : n # p => m[n] = nodes[n]
  BY <1>1, <1>2
<1> QED
  BY <1>1, <1>3 DEF m

LEMMA TensorPut ==
  ASSUME NEW edges \in Seq(Edge), NEW p \in DOMAIN edges, NEW tid \in Nat
  PROVE  LET m == PutTensor(edges, p, tid) IN
         /\ m \in Seq(Edge) /\ DOMAIN m = DOMAIN edges
         /\ \A e \in DOMAIN edges : e # p => m[e] = edges[e]
         /\ m[p].producer = edges[p].producer /\ m[p].consumer = edges[p].consumer
         /\ m[p].idx = edges[p].idx /\ m[p].tensor = tid
<1> DEFINE edge == [edges[p] EXCEPT !.tensor = tid]
           m == PutTensor(edges, p, tid)
<1>1. /\ edge \in Edge /\ edge.tensor = tid /\ edge.producer = edges[p].producer
      /\ edge.consumer = edges[p].consumer /\ edge.idx = edges[p].idx
  <2>1. edges[p] \in Edge
    BY SeqFacts
  <2> QED
    BY <2>1 DEF Edge
<1>2. m = [edges EXCEPT ![p] = edge]
  BY DEF PutTensor
<1> HIDE DEF edge, m
<1>3. m \in Seq(Edge) /\ DOMAIN m = DOMAIN edges /\ m[p] = edge
      /\ \A e \in DOMAIN edges : e # p => m[e] = edges[e]
  BY <1>1, <1>2
<1> QED
  BY <1>1, <1>3 DEF m

LEMMA MovedFacts ==
  ASSUME NEW u \in Graphs, NEW n \in NodeIds(u), NEW tid \in DOMAIN u.tensors,
         u.nodes[n].out \in DOMAIN u.tensors
  PROVE  Rebound(u, n, tid, {}, Moved(u, n, tid))
<1> DEFINE old == u.nodes[n].out
           out_edges == u.nodes[n].out_edges
           nodes == PutOut(u.nodes, n, tid)
           tensors == PutBound(u.tensors, old, u.tensors[old].bound \ out_edges)
           h == Moved(u, n, tid)
<1>1. /\ u.nodes \in Seq(Node \cup {NoNode}) /\ u.nodes[n] \in Node /\ n \in DOMAIN u.nodes
      /\ u.tensors \in Seq(Tensor) /\ DOMAIN u.tensors = 1 .. Len(u.tensors)
      /\ Len(u.tensors) \in Nat
  BY GraphFacts
<1>2. tid \in Nat /\ u.tensors[old].bound \ out_edges \in SUBSET Nat
  <2>1. tid \in Nat
    BY <1>1
  <2>2. u.tensors[old] \in Tensor
    BY <1>1, SeqFacts
  <2> QED
    BY <2>1, <2>2 DEF Tensor
<1>3. h = [u EXCEPT !.nodes = nodes, !.tensors = tensors]
  BY DEF Moved, PutOut, PutBound, Graphs
<1>4. /\ nodes \in Seq(Node \cup {NoNode}) /\ DOMAIN nodes = DOMAIN u.nodes
      /\ \A m \in DOMAIN u.nodes : m # n => nodes[m] = u.nodes[m]
      /\ nodes[n] \in Node /\ nodes[n].out_edges = out_edges
      /\ nodes[n].type = u.nodes[n].type /\ nodes[n].in = u.nodes[n].in /\ nodes[n].out = tid
  BY <1>1, <1>2, OutPut
<1>5. /\ tensors \in Seq(Tensor) /\ DOMAIN tensors = DOMAIN u.tensors
      /\ \A y \in DOMAIN u.tensors : y # old => tensors[y] = u.tensors[y]
      /\ tensors[old].bound = u.tensors[old].bound \ out_edges
  <2> DEFINE rest == u.tensors[old].bound \ out_edges
  <2>1. /\ rest \in SUBSET Nat /\ tensors = PutBound(u.tensors, old, rest)
        /\ u.tensors \in Seq(Tensor) /\ old \in DOMAIN u.tensors
    BY <1>1, <1>2
  <2> HIDE DEF rest, tensors, old
  <2>2. /\ tensors \in Seq(Tensor) /\ DOMAIN tensors = DOMAIN u.tensors
        /\ \A y \in DOMAIN u.tensors : y # old => tensors[y] = u.tensors[y]
        /\ tensors[old].bound = rest
    BY <2>1, BoundPut
  <2> QED
    BY <2>2 DEF rest, old
<1> HIDE DEF nodes, tensors, h
<1>6. h \in Graphs /\ h.nodes = nodes /\ h.edges = u.edges /\ h.tensors = tensors
  BY <1>3, <1>4, <1>5 DEF Graphs
<1>7. NodeIds(h) = NodeIds(u)
  <2>1. \A m \in DOMAIN u.nodes : h.nodes[m] = NoNode <=> u.nodes[m] = NoNode
    BY <1>1, <1>4, <1>6, NodeNotNull
  <2> QED
    BY <1>4, <1>6, <2>1, SameNodeIds
<1>8. ASSUME NEW m \in NodeIds(u)
      PROVE  /\ h.nodes[m].type = u.nodes[m].type /\ h.nodes[m].in = u.nodes[m].in
             /\ h.nodes[m].out_edges = u.nodes[m].out_edges
             /\ h.nodes[m].out = IF m = n THEN tid ELSE u.nodes[m].out
  <2>1. m \in DOMAIN u.nodes
    BY GraphFacts
  <2>2. CASE m = n
    BY <1>4, <1>6, <2>2
  <2>3. CASE m # n
    BY <1>4, <1>6, <2>1, <2>3
  <2> QED
    BY <2>2, <2>3
<1>9. ASSUME NEW y \in DOMAIN u.tensors
      PROVE  h.tensors[y].bound = (IF y = old THEN u.tensors[y].bound \ out_edges
                                   ELSE u.tensors[y].bound) \cup {}
  <2>1. CASE y = old
    BY <1>5, <1>6, <2>1
  <2>2. CASE y # old
    BY <1>5, <1>6, <2>2
  <2> QED
    BY <2>1, <2>2
<1>10. {e \in {} : TRUE} = {} /\ \A y : {e \in {} : y = tid} = {}
  OBVIOUS
<1> QED
  BY <1>4, <1>5, <1>6, <1>7, <1>8, <1>9, <1>10 DEF Rebound, h

LEMMA ReboundMore ==
  ASSUME NEW u \in Graphs, NEW n \in NodeIds(u), NEW tid \in DOMAIN u.tensors,
         NEW X, NEW h, Rebound(u, n, tid, X, h), NEW e \in DOMAIN u.edges
  PROVE  Rebound(u, n, tid, X \cup {e}, Rebind(h, tid, e))
<1> DEFINE edges == PutTensor(h.edges, e, tid)
           tensors == PutBound(h.tensors, tid, h.tensors[tid].bound \cup {e})
           k == Rebind(h, tid, e)
<1>1. /\ h \in Graphs /\ h.edges \in Seq(Edge) /\ e \in DOMAIN h.edges
      /\ h.tensors \in Seq(Tensor) /\ tid \in DOMAIN h.tensors /\ tid \in Nat /\ e \in Nat
      /\ h.tensors[tid].bound \cup {e} \in SUBSET Nat
  <2>1. h \in Graphs /\ e \in DOMAIN h.edges /\ tid \in DOMAIN h.tensors
    BY DEF Rebound
  <2>2. /\ h.edges \in Seq(Edge) /\ h.tensors \in Seq(Tensor)
        /\ DOMAIN h.edges = 1 .. Len(h.edges) /\ DOMAIN h.tensors = 1 .. Len(h.tensors)
        /\ Len(h.edges) \in Nat /\ Len(h.tensors) \in Nat
    BY <2>1, GraphFacts
  <2>3. tid \in Nat /\ e \in Nat
    BY <2>1, <2>2
  <2>4. h.tensors[tid] \in Tensor
    BY <2>1, <2>2, SeqFacts
  <2> QED
    BY <2>1, <2>2, <2>3, <2>4 DEF Tensor
<1>2. k = [h EXCEPT !.edges = edges, !.tensors = tensors]
  BY <1>1 DEF Rebind, PutTensor, PutBound, Graphs
<1>3. /\ edges \in Seq(Edge) /\ DOMAIN edges = DOMAIN h.edges
      /\ \A x \in DOMAIN h.edges : x # e => edges[x] = h.edges[x]
      /\ edges[e].producer = h.edges[e].producer /\ edges[e].consumer = h.edges[e].consumer
      /\ edges[e].idx = h.edges[e].idx /\ edges[e].tensor = tid
  BY <1>1, TensorPut
<1>4. /\ tensors \in Seq(Tensor) /\ DOMAIN tensors = DOMAIN h.tensors
      /\ \A y \in DOMAIN h.tensors : y # tid => tensors[y] = h.tensors[y]
      /\ tensors[tid].bound = h.tensors[tid].bound \cup {e}
  BY <1>1, BoundPut
<1> HIDE DEF edges, tensors, k
<1>5. k \in Graphs /\ k.nodes = h.nodes /\ k.edges = edges /\ k.tensors = tensors
  BY <1>1, <1>2, <1>3, <1>4 DEF Graphs
<1>6. NodeIds(k) = NodeIds(h)
  BY <1>5 DEF NodeIds
<1>7. /\ NodeIds(h) = NodeIds(u) /\ DOMAIN h.nodes = DOMAIN u.nodes
      /\ DOMAIN h.edges = DOMAIN u.edges /\ DOMAIN h.tensors = DOMAIN u.tensors
  BY DEF Rebound
<1>8. ASSUME NEW x \in DOMAIN u.edges
      PROVE  /\ k.edges[x].producer = u.edges[x].producer
             /\ k.edges[x].consumer = u.edges[x].consumer /\ k.edges[x].idx = u.edges[x].idx
             /\ k.edges[x].tensor = IF x \in X \cup {e} THEN tid ELSE u.edges[x].tensor
  <2>1. /\ h.edges[x].producer = u.edges[x].producer
        /\ h.edges[x].consumer = u.edges[x].consumer /\ h.edges[x].idx = u.edges[x].idx
        /\ h.edges[x].tensor = IF x \in X THEN tid ELSE u.edges[x].tensor
    BY DEF Rebound
  <2>2. CASE x = e
    BY <1>3, <1>5, <2>1, <2>2
  <2>3. CASE x # e
    BY <1>3, <1>5, <1>7, <2>1, <2>3
  <2> QED
    BY <2>2, <2>3
<1>9. ASSUME NEW y \in DOMAIN u.tensors
      PROVE  k.tensors[y].bound =
               (IF y = u.nodes[n].out THEN u.tensors[y].bound \ u.nodes[n].out_edges
                ELSE u.tensors[y].bound) \cup {x \in X \cup {e} : y = tid}
  <2> DEFINE kept == IF y = u.nodes[n].out THEN u.tensors[y].bound \ u.nodes[n].out_edges
                     ELSE u.tensors[y].bound
  <2>1. h.tensors[y].bound = kept \cup {x \in X : y = tid}
    BY DEF Rebound
  <2> HIDE DEF kept
  <2>2. CASE y = tid
    <3>1. k.tensors[y].bound = h.tensors[y].bound \cup {e}
      BY <1>4, <1>5, <2>2
    <3>2. {x \in X \cup {e} : y = tid} = X \cup {e} /\ {x \in X : y = tid} = X
      BY <2>2
    <3> QED
      BY <2>1, <3>1, <3>2 DEF kept
  <2>3. CASE y # tid
    <3>1. k.tensors[y].bound = h.tensors[y].bound
      BY <1>4, <1>5, <1>7, <2>3
    <3>2. {x \in X \cup {e} : y = tid} = {} /\ {x \in X : y = tid} = {}
      BY <2>3
    <3> QED
      BY <2>1, <3>1, <3>2 DEF kept
  <2> QED
    BY <2>2, <2>3
<1>10. \A m \in NodeIds(u) :
         /\ k.nodes[m].type = u.nodes[m].type /\ k.nodes[m].in = u.nodes[m].in
         /\ k.nodes[m].out_edges = u.nodes[m].out_edges
         /\ k.nodes[m].out = IF m = n THEN tid ELSE u.nodes[m].out
  BY <1>5 DEF Rebound
<1> QED
  BY <1>3, <1>4, <1>5, <1>6, <1>7, <1>8, <1>9, <1>10 DEF Rebound, k

LEMMA OutputTensorSet ==
  ASSUME NEW u \in Graphs, Agrees(u), NEW n \in NodeIds(u), NEW tid \in DOMAIN u.tensors,
         u.nodes[n].out \in DOMAIN u.tensors
  PROVE  Rebound(u, n, tid, u.nodes[n].out_edges, SetOutputTensor(u, n, tid))
<1> DEFINE seq == OutEdges(u, n)
           size == Len(seq)
           first(k) == {seq[j] : j \in 1 .. k}
           V == {h \in Graphs : \E X : Rebound(u, n, tid, X, h)}
           W == [k \in 0 .. size |-> {h \in V : Rebound(u, n, tid, first(k), h)}]
           base == Moved(u, n, tid)
<1>1. /\ size \in Nat /\ DOMAIN seq = 1 .. size
      /\ \A j \in 1 .. size : seq[j] \in u.nodes[n].out_edges /\ seq[j] \in DOMAIN u.edges
      /\ u.nodes[n].out_edges = {seq[j] : j \in 1 .. size}
  <2>1. /\ OutEdges(u, n) \in Seq(Nat) /\ DOMAIN OutEdges(u, n) = 1 .. Len(OutEdges(u, n))
        /\ \A j \in DOMAIN OutEdges(u, n) : OutEdges(u, n)[j] \in u.nodes[n].out_edges
        /\ \A e \in u.nodes[n].out_edges : \E j \in DOMAIN OutEdges(u, n) : OutEdges(u, n)[j] = e
    BY OutEdgesFacts
  <2>2. \A e \in u.nodes[n].out_edges : e \in DOMAIN u.edges
    BY OutAgrees DEF EdgeIds
  <2> HIDE DEF seq
  <2>3. Len(seq) \in Nat
    BY <2>1 DEF seq
  <2> QED
    BY <2>1, <2>2, <2>3 DEF seq
<1>2. Rebound(u, n, tid, {}, base) /\ base \in V
  <2> HIDE DEF base
  <2>1. Rebound(u, n, tid, {}, base)
    BY MovedFacts DEF base
  <2>2. base \in Graphs
    BY <2>1 DEF Rebound
  <2> QED
    BY <2>1, <2>2
<1>3. SetOutputTensor(u, n, tid) = Rebinds(base, tid, seq)
  BY DEF SetOutputTensor, Rebinds, Rebind, Moved, FoldLeft, MapThenFoldSet
<1> HIDE DEF seq, base
<1>4. ASSUME NEW h, NEW X, Rebound(u, n, tid, X, h), NEW k \in 1 .. size
      PROVE  Rebound(u, n, tid, X \cup {seq[k]}, Rebind(h, tid, seq[k]))
  BY <1>1, <1>4, ReboundMore
<1>5. RebindsClosed(V, tid, seq)
  <2>1. ASSUME NEW h \in V, NEW k \in 1 .. size PROVE Rebind(h, tid, seq[k]) \in V
    <3>1. PICK X : Rebound(u, n, tid, X, h)
      OBVIOUS
    <3>2. Rebound(u, n, tid, X \cup {seq[k]}, Rebind(h, tid, seq[k]))
      BY <1>4, <3>1
    <3>3. Rebind(h, tid, seq[k]) \in Graphs
      BY <3>2 DEF Rebound
    <3> QED
      BY <3>2, <3>3
  <2> HIDE DEF V
  <2> QED
    BY <2>1 DEF RebindsClosed
<1> HIDE DEF V
<1>6. RebindsRun(V, base, tid, seq)
  BY <1>1, <1>2, <1>5, RebindsUnrolled
<1>7. PICK r : /\ \A k \in 0 .. size : r[k] \in V
               /\ r[0] = base /\ Rebinds(base, tid, seq) = r[size]
               /\ \A k \in 1 .. size : r[k] = Rebind(r[k - 1], tid, seq[k])
  BY <1>6 DEF RebindsRun
<1>8. r[0] \in W[0]
  <2>1. first(0) = {} /\ 0 \in 0 .. size
    BY <1>1
  <2> HIDE DEF first
  <2> QED
    BY <1>2, <1>7, <2>1
<1>9. ASSUME NEW k \in 1 .. size, r[k - 1] \in W[k - 1] PROVE r[k] \in W[k]
  <2>1. k - 1 \in 0 .. size /\ k \in 0 .. size
    BY <1>1
  <2>2. first(k) = first(k - 1) \cup {seq[k]}
    <3>1. 1 .. k = (1 .. k - 1) \cup {k}
      BY <1>1
    <3> QED
      BY <3>1
  <2> HIDE DEF first
  <2>3. Rebound(u, n, tid, first(k - 1), r[k - 1])
    BY <1>9, <2>1
  <2>4. Rebound(u, n, tid, first(k), r[k])
    BY <1>4, <1>7, <2>2, <2>3
  <2> QED
    BY <1>7, <2>1, <2>4
<1>10. r[size] \in W[size]
  <2> HIDE DEF W
  <2> QED
    BY <1>1, <1>8, <1>9, StepByStep
<1>11. Rebound(u, n, tid, first(size), r[size])
  BY <1>1, <1>10
<1> QED
  BY <1>1, <1>3, <1>7, <1>11

LEMMA ReboundAgrees ==
  ASSUME NEW u \in Graphs, Agrees(u), HaveTensors(u), NEW n \in NodeIds(u),
         NEW tid \in DOMAIN u.tensors,
         NEW h, Rebound(u, n, tid, u.nodes[n].out_edges, h)
  PROVE  Agrees(h) /\ EdgeIds(h) = EdgeIds(u)
<1> DEFINE X == u.nodes[n].out_edges
<1>1. /\ NodeIds(h) = NodeIds(u) /\ DOMAIN h.edges = DOMAIN u.edges
      /\ DOMAIN h.tensors = DOMAIN u.tensors
      /\ \A m \in NodeIds(u) : /\ h.nodes[m].in = u.nodes[m].in
                               /\ h.nodes[m].out_edges = u.nodes[m].out_edges
                               /\ h.nodes[m].out = IF m = n THEN tid ELSE u.nodes[m].out
      /\ \A e \in DOMAIN u.edges :
           /\ h.edges[e].producer = u.edges[e].producer /\ h.edges[e].consumer = u.edges[e].consumer
           /\ h.edges[e].idx = u.edges[e].idx
           /\ h.edges[e].tensor = IF e \in X THEN tid ELSE u.edges[e].tensor
      /\ \A y \in DOMAIN u.tensors :
           h.tensors[y].bound = (IF y = u.nodes[n].out THEN u.tensors[y].bound \ X
                                 ELSE u.tensors[y].bound) \cup {e \in X : y = tid}
  BY DEF Rebound
<1>2. \A e \in EdgeIds(u) : u.edges[e].producer \in NodeIds(u) /\ u.edges[e].producer # 0
  <2>1. \A m \in NodeIds(u) : m # 0
    BY GraphFacts
  <2> QED
    BY <2>1, EdgeAgrees
<1>3. \A e \in EdgeIds(u) : e \in X <=> u.edges[e].producer = n
  <2> TAKE e \in EdgeIds(u)
  <2>1. e \in u.nodes[u.edges[e].producer].out_edges
    BY EdgeAgrees
  <2> QED
    BY <2>1, OutAgrees
<1>4. EdgeIds(h) = EdgeIds(u)
  <2>1. ASSUME NEW e \in DOMAIN u.edges PROVE h.edges[e] = NoEdge <=> u.edges[e] = NoEdge
    <3>1. CASE u.edges[e] = NoEdge
      <4>1. e \notin X
        BY <3>1, OutAgrees DEF EdgeIds
      <4>2. h.edges[e] \in Edge
        <5>1. h \in Graphs
          BY DEF Rebound
        <5>2. h.edges \in Seq(Edge)
          BY <5>1, GraphFacts
        <5> QED
          BY <1>1, <5>2, SeqFacts
      <4>3. /\ h.edges[e].producer = 0 /\ h.edges[e].consumer = 0 /\ h.edges[e].idx = 0
            /\ h.edges[e].tensor = 0
        BY <1>1, <3>1, <4>1 DEF NoEdge
      <4> QED
        BY <3>1, <4>2, <4>3 DEF NoEdge, Edge
    <3>2. CASE u.edges[e] # NoEdge
      <4>1. e \in EdgeIds(u)
        BY <3>2 DEF EdgeIds
      <4>2. h.edges[e].producer # 0
        BY <1>1, <1>2, <4>1
      <4> QED
        BY <3>2, <4>2 DEF NoEdge
    <3> QED
      BY <3>1, <3>2
  <2> QED
    BY <1>1, <2>1 DEF EdgeIds
<1>5. \A e \in EdgeIds(u) : e \in DOMAIN u.edges
  BY DEF EdgeIds
<1>6. ASSUME NEW e \in EdgeIds(h)
      PROVE  /\ h.edges[e].producer \in NodeIds(h) /\ h.edges[e].consumer \in NodeIds(h)
             /\ e \in h.nodes[h.edges[e].producer].out_edges
             /\ h.edges[e].idx \in DOMAIN h.nodes[h.edges[e].consumer].in
             /\ h.nodes[h.edges[e].consumer].in[h.edges[e].idx] = e
             /\ h.edges[e].tensor = h.nodes[h.edges[e].producer].out
  <2>1. /\ u.edges[e].producer \in NodeIds(u) /\ u.edges[e].consumer \in NodeIds(u)
        /\ e \in u.nodes[u.edges[e].producer].out_edges
        /\ u.edges[e].idx \in DOMAIN u.nodes[u.edges[e].consumer].in
        /\ u.nodes[u.edges[e].consumer].in[u.edges[e].idx] = e
        /\ u.edges[e].tensor = u.nodes[u.edges[e].producer].out
    BY <1>4, EdgeAgrees
  <2>2. h.edges[e].tensor = h.nodes[h.edges[e].producer].out
    BY <1>1, <1>3, <1>4, <1>5, <2>1
  <2>3. /\ e \in DOMAIN u.edges /\ h.edges[e].producer = u.edges[e].producer
        /\ h.edges[e].consumer = u.edges[e].consumer /\ h.edges[e].idx = u.edges[e].idx
    BY <1>1, <1>4, <1>5
  <2>4. h.edges[e].producer \in NodeIds(h) /\ h.edges[e].consumer \in NodeIds(h)
    BY <1>1, <2>1, <2>3
  <2>5. e \in h.nodes[h.edges[e].producer].out_edges
    BY <1>1, <2>1, <2>3
  <2>6. /\ h.edges[e].idx \in DOMAIN h.nodes[h.edges[e].consumer].in
        /\ h.nodes[h.edges[e].consumer].in[h.edges[e].idx] = e
    <3>1. h.nodes[u.edges[e].consumer].in = u.nodes[u.edges[e].consumer].in
      BY <1>1, <2>1
    <3> QED
      BY <2>1, <2>3, <3>1
  <2> QED
    BY <2>2, <2>4, <2>5, <2>6
<1>7. ASSUME NEW m \in NodeIds(h), NEW i \in DOMAIN h.nodes[m].in, h.nodes[m].in[i] # 0
      PROVE  /\ h.nodes[m].in[i] \in EdgeIds(h)
             /\ h.edges[h.nodes[m].in[i]].consumer = m /\ h.edges[h.nodes[m].in[i]].idx = i
  <2>1. m \in NodeIds(u) /\ h.nodes[m].in = u.nodes[m].in
    BY <1>1
  <2>2. /\ u.nodes[m].in[i] \in EdgeIds(u)
        /\ u.edges[u.nodes[m].in[i]].consumer = m /\ u.edges[u.nodes[m].in[i]].idx = i
    BY <1>7, <2>1, InputAgrees
  <2> QED
    BY <1>1, <1>4, <1>5, <2>1, <2>2
<1>8. ASSUME NEW m \in NodeIds(h), NEW e \in h.nodes[m].out_edges
      PROVE  e \in EdgeIds(h) /\ h.edges[e].producer = m
  BY <1>1, <1>4, <1>5, <1>8, OutAgrees
<1>9. ASSUME NEW y \in DOMAIN h.tensors
      PROVE  h.tensors[y].bound = {e \in EdgeIds(h) : h.edges[e].tensor = y}
  <2>1. u.tensors[y].bound = {e \in EdgeIds(u) : u.edges[e].tensor = y}
    BY <1>1, BoundAgrees
  <2>2. \A e \in X : e \in EdgeIds(u) /\ u.edges[e].tensor = u.nodes[n].out
    BY OutAgrees, EdgeAgrees
  <2>3. \A e \in EdgeIds(u) : h.edges[e].tensor = IF e \in X THEN tid ELSE u.edges[e].tensor
    BY <1>1, <1>5
  <2>4. h.tensors[y].bound = (IF y = u.nodes[n].out THEN u.tensors[y].bound \ X
                              ELSE u.tensors[y].bound) \cup {e \in X : y = tid}
    BY <1>1
  <2> HIDE DEF X
  <2>5. ASSUME NEW e
        PROVE  e \in h.tensors[y].bound <=> e \in EdgeIds(u) /\ h.edges[e].tensor = y
    <3>1. CASE e \in X
      BY <2>1, <2>2, <2>3, <2>4, <3>1
    <3>2. CASE e \notin X
      BY <2>1, <2>2, <2>3, <2>4, <3>2
    <3> QED
      BY <3>1, <3>2
  <2> QED
    BY <1>4, <2>5
<1>10. Agrees(h)
  BY <1>6, <1>7, <1>8, <1>9, AllAgrees
<1> QED
  BY <1>4, <1>10

LEMMA ReboundSound ==
  ASSUME NEW once, NEW u, Sound(once, u), NEW n \in NodeIds(u), NEW tid \in DOMAIN u.tensors,
         NEW h, Rebound(u, n, tid, u.nodes[n].out_edges, h)
  PROVE  Sound(once, h) /\ DOMAIN h.nodes = DOMAIN u.nodes
<1>1. u \in Graphs /\ Agrees(u) /\ HaveTensors(u) /\ NodeIds(u) \subseteq Nat \ {0}
  BY SoundFeeds, EdgesHaveTensors, NodesAreNumbers
<1>2. Agrees(h) /\ EdgeIds(h) = EdgeIds(u)
  BY <1>1, ReboundAgrees
<1>3. /\ h \in Graphs /\ NodeIds(h) = NodeIds(u) /\ DOMAIN h.nodes = DOMAIN u.nodes
      /\ DOMAIN h.tensors = DOMAIN u.tensors
      /\ \A m \in NodeIds(u) : /\ h.nodes[m].type = u.nodes[m].type
                               /\ h.nodes[m].in = u.nodes[m].in
                               /\ h.nodes[m].out = IF m = n THEN tid ELSE u.nodes[m].out
      /\ \A e \in DOMAIN u.edges : h.edges[e].producer = u.edges[e].producer
  BY DEF Rebound
<1>4. ASSUME NEW m \in NodeIds(u), NEW i \in DOMAIN u.nodes[m].in
      PROVE  Feed(h, m, i) = Feed(u, m, i) /\ InputFits(u, m, i) /\ Feed(u, m, i) \in NodeIds(u)
  <2>1. InputFits(u, m, i) /\ Feed(u, m, i) \in NodeIds(u) /\ Feed(u, m, i) # 0
    BY SoundFeeds DEF Sound
  <2>2. u.nodes[m].in[i] \in EdgeIds(u)
    BY <1>1, <2>1, FeedHasEdge
  <2>3. h.edges[u.nodes[m].in[i]].producer = u.edges[u.nodes[m].in[i]].producer
    BY <1>3, <2>2 DEF EdgeIds
  <2> QED
    BY <1>3, <2>1, <2>3 DEF Feed, Producer
<1>5. \A m \in NodeIds(h) : NodeFits(h, m)
  <2> TAKE m \in NodeIds(h)
  <2>1. NodeFits(u, m)
    BY <1>3 DEF Sound
  <2> QED
    BY <1>3, <2>1 DEF NodeFits
<1>6. \A m \in NodeIds(h) : \A i \in DOMAIN h.nodes[m].in : InputFits(h, m, i)
  <2> TAKE m \in NodeIds(h)
  <2> TAKE i \in DOMAIN h.nodes[m].in
  <2>1. Feed(h, m, i) = Feed(u, m, i) /\ InputFits(u, m, i) /\ Feed(u, m, i) \in NodeIds(u)
    BY <1>3, <1>4
  <2> QED
    BY <1>3, <2>1 DEF InputFits
<1>7. PICK rank \in [Nat -> Nat] : IsRank(u, rank)
  BY DEF Sound
<1>8. IsRank(h, rank)
  BY <1>3, <1>4, <1>7 DEF IsRank
<1>9. ConstsOnce(h)
  BY <1>3, <1>4 DEF Sound, ConstsOnce
<1>10. NoDouble(u) => NoDouble(h)
  BY <1>3, <1>4 DEF NoDouble
<1> QED
  BY <1>2, <1>3, <1>5, <1>6, <1>7, <1>8, <1>9, <1>10 DEF Sound

-----------------------------------------------------------------------------
(* InPlaceOperationMutator::mutate                                         *)

Extracted(h, n, tid) ==
  [h EXCEPT !.tensors[h.nodes[n].out].accessor = FALSE, !.tensors[tid].accessor = Accessor(h, n)]
VisitPlace(h, n) ==
  IF h.nodes[n].type \notin InPlaceNodes THEN h
  ELSE LET e == h.nodes[n].in[1]
           tid == h.edges[e].tensor
       IN  IF OutputEdgesAreSeparate(h, e) /\ ~ h.tensors[tid].accessor
           THEN SetOutputTensor(Extracted(h, n, tid), n, tid)
           ELSE h
PlacesVisited(base, seq) == FoldLeftDomain(LAMBDA h, n : VisitPlace(h, n), base, seq)

PlacesClosed(V, seq) == \A h \in V : \A k \in 1 .. Len(seq) : VisitPlace(h, k) \in V
PlacesRun(V, base, seq) ==
  \E r : /\ \A k \in 0 .. Len(seq) : r[k] \in V
        /\ r[0] = base /\ PlacesVisited(base, seq) = r[Len(seq)]
        /\ \A k \in 1 .. Len(seq) : r[k] = VisitPlace(r[k - 1], k)

LEMMA PlacesUnrolled ==
  ASSUME NEW seq, Len(seq) \in Nat, DOMAIN seq = 1 .. Len(seq), NEW V, NEW base \in V, PlacesClosed(V, seq)
  PROVE  PlacesRun(V, base, seq)
<1> DEFINE size == Len(seq)
           ids == [i \in DOMAIN seq |-> i]
           Solves(f) == f = [s \in SUBSET (1 .. size) |->
                               IF s = {} THEN base
                               ELSE VisitPlace(f[s \ {Max(s)}], ids[Max(s)])]
           iter == CHOOSE f : Solves(f)
           step == [k \in 1 .. size |-> [h \in V |-> VisitPlace(h, k)]]
<1>1. size \in Nat /\ DOMAIN seq = 1 .. size
  OBVIOUS
<1>0. DOMAIN ids = 1 .. size /\ \A k \in 1 .. size : ids[k] = k
  BY <1>1
<1>2. PlacesVisited(base, seq) = iter[1 .. size]
  BY <1>0, <1>1 DEF PlacesVisited, FoldLeftDomain, FoldLeft, MapThenFoldSet
<1> HIDE DEF ids, size
<1>3. step \in [1 .. size -> [V -> V]]
  BY DEF size, PlacesClosed
<1>4. PICK f \in [SUBSET (1 .. size) -> V] : \A s \in SUBSET (1 .. size) :
           f[s] = IF s = {} THEN base ELSE step[Max(s)][f[s \ {Max(s)}]]
  <2> HIDE DEF step
  <2>1. FoldIn(V, size, base, step)
    BY <1>1, <1>3, ClosedFold
  <2> QED
    BY <2>1 DEF FoldIn
<1>5. Solves(f)
  <2>1. ASSUME NEW s \in SUBSET (1 .. size), s # {}
        PROVE  step[Max(s)][f[s \ {Max(s)}]] = VisitPlace(f[s \ {Max(s)}], ids[Max(s)])
    BY <1>0, <1>1, <2>1, MaxOfPart
  <2> HIDE DEF step
  <2> QED
    BY <1>4, <2>1
<1>6. Solves(iter)
  BY <1>5
<1> HIDE DEF iter
<1>7. /\ iter[{}] = base
      /\ \A k \in 1 .. size : iter[1 .. k] = VisitPlace(iter[1 .. k - 1], k)
  <2>1. iter[{}] = base
    BY <1>1, <1>6, PartOfInterval
  <2>2. ASSUME NEW k \in 1 .. size PROVE iter[1 .. k] = VisitPlace(iter[1 .. k - 1], k)
    <3>1. /\ 1 .. k \in SUBSET (1 .. size) /\ 1 .. k # {}
          /\ Max(1 .. k) = k /\ (1 .. k) \ {k} = 1 .. k - 1
      BY <1>1, PartOfInterval
    <3>2. iter[1 .. k] = VisitPlace(iter[(1 .. k) \ {Max(1 .. k)}], ids[Max(1 .. k)])
      BY <1>6, <3>1
    <3> QED
      BY <1>0, <3>1, <3>2
  <2> QED
    BY <2>1, <2>2
<1> HIDE DEF Solves
<1> DEFINE r == [k \in 0 .. size |-> iter[1 .. k]]
<1>8. r[0] = base /\ \A k \in 1 .. size : r[k] = VisitPlace(r[k - 1], k)
  BY <1>1, <1>7, Indices
<1>9. r[size] = PlacesVisited(base, seq)
  BY <1>1, <1>2
<1> HIDE DEF r
<1>10. \A k \in 0 .. size : r[k] \in V
  <2>1. r[0] \in V /\ \A k \in 1 .. size : r[k - 1] \in V => r[k] \in V
    BY <1>8 DEF size, PlacesClosed
  <2> QED
    BY <1>1, <2>1, StaysIn
<1> QED
  BY <1>8, <1>9, <1>10 DEF size, PlacesRun

LEMMA VisitPlaceSound ==
  ASSUME NEW once, NEW u, Sound(once, u), NEW n \in DOMAIN u.nodes
  PROVE  Sound(once, VisitPlace(u, n)) /\ DOMAIN VisitPlace(u, n).nodes = DOMAIN u.nodes
<1> DEFINE e == u.nodes[n].in[1]
           tid == u.edges[e].tensor
           k == Extracted(u, n, tid)
<1>1. CASE /\ u.nodes[n].type \in InPlaceNodes
           /\ OutputEdgesAreSeparate(u, e) /\ ~ u.tensors[tid].accessor
  <2>1. VisitPlace(u, n) = SetOutputTensor(k, n, tid)
    BY <1>1 DEF VisitPlace
  <2>2. u \in Graphs /\ Agrees(u)
    BY DEF Sound
  <2>3. n \in NodeIds(u)
    <3>1. u.nodes[n].type # "null"
      BY <1>1 DEF InPlaceNodes
    <3>2. u.nodes[n] # NoNode
      BY <3>1 DEF NoNode
    <3> QED
      BY <3>2 DEF NodeIds
  <2>4. /\ u.nodes[n].out \in DOMAIN u.tensors /\ 1 \in DOMAIN u.nodes[n].in
    <3>1. NodeFits(u, n)
      BY <2>3 DEF Sound
    <3> QED
      BY <1>1, <3>1 DEF NodeFits, InPlaceNodes
  <2>5. tid \in DOMAIN u.tensors
    <3>1. /\ Feed(u, n, 1) \in NodeIds(u) /\ Feed(u, n, 1) # 0 /\ FeedersHaveTensors(u)
      BY <2>3, <2>4, SoundFeeds
    <3>2. u.edges[e].tensor = u.nodes[Feed(u, n, 1)].out
      BY <2>2, <2>3, <2>4, <3>1, FeedHasEdge
    <3> QED
      BY <2>3, <2>4, <3>1, <3>2 DEF FeedersHaveTensors
  <2> HIDE DEF tid
  <2>6. Relabelled(u, k)
    <3> DEFINE first == SetAccessor(u, u.nodes[n].out, FALSE)
               accessor == Accessor(u, n)
    <3>1. Relabelled(u, first)
      BY <2>2, <2>4, AccessorSet
    <3>2. accessor \in BOOLEAN
      <4>1. u.tensors \in Seq(Tensor)
        BY <2>2, GraphFacts
      <4>2. u.tensors[u.nodes[n].out] \in Tensor
        BY <2>4, <4>1, SeqFacts
      <4> QED
        BY <4>2 DEF Accessor, Tensor
    <3>3. k = SetAccessor(first, tid, accessor)
      BY DEF Extracted, SetAccessor
    <3> HIDE DEF first, accessor, k
    <3>4. first \in Graphs /\ tid \in DOMAIN first.tensors
      BY <2>5, <3>1 DEF Relabelled
    <3>5. Relabelled(first, k)
      BY <3>2, <3>3, <3>4, AccessorSet
    <3> QED
      BY <3>1, <3>5, RelabelledAgain
  <2> HIDE DEF k
  <2>7. Sound(once, k)
    BY <2>6, RelabelledSound
  <2>8. /\ k \in Graphs /\ Agrees(k) /\ n \in NodeIds(k) /\ DOMAIN k.nodes = DOMAIN u.nodes
        /\ tid \in DOMAIN k.tensors /\ k.nodes[n].out \in DOMAIN k.tensors
    BY <2>3, <2>4, <2>5, <2>6, <2>7 DEF Relabelled, Sound
  <2>9. Rebound(k, n, tid, k.nodes[n].out_edges, SetOutputTensor(k, n, tid))
    BY <2>8, OutputTensorSet
  <2>10. Sound(once, SetOutputTensor(k, n, tid)) /\ DOMAIN SetOutputTensor(k, n, tid).nodes = DOMAIN k.nodes
    BY <2>7, <2>8, <2>9, ReboundSound
  <2> QED
    BY <2>1, <2>8, <2>10
<1>2. CASE ~ (/\ u.nodes[n].type \in InPlaceNodes
              /\ OutputEdgesAreSeparate(u, e) /\ ~ u.tensors[tid].accessor)
  <2>1. VisitPlace(u, n) = u
    BY <1>2 DEF VisitPlace
  <2> HIDE DEF e, tid
  <2> QED
    BY <2>1
<1> HIDE DEF e, tid, k
<1> QED
  BY <1>1, <1>2

LEMMA InPlaceOperationSound ==
  ASSUME NEW once, NEW u, Sound(once, u)
  PROVE  Sound(once, InPlaceOperation(u))
<1> DEFINE seq == u.nodes
           V == {h \in Graphs : Sound(once, h) /\ DOMAIN seq \subseteq DOMAIN h.nodes}
<1>1. Len(seq) \in Nat /\ DOMAIN seq = 1 .. Len(seq) /\ u \in V
  BY GraphFacts DEF Sound
<1>2. PlacesClosed(V, seq)
  <2>1. ASSUME NEW h \in V, NEW k \in 1 .. Len(seq) PROVE VisitPlace(h, k) \in V
    <3>1. Sound(once, h) /\ k \in DOMAIN h.nodes
      BY <1>1
    <3>2. Sound(once, VisitPlace(h, k)) /\ DOMAIN VisitPlace(h, k).nodes = DOMAIN h.nodes
      BY <3>1, VisitPlaceSound
    <3>3. VisitPlace(h, k) \in Graphs
      BY <3>2 DEF Sound
    <3> QED
      BY <3>2, <3>3
  <2> HIDE DEF V
  <2> QED
    BY <2>1 DEF PlacesClosed
<1>3. PlacesVisited(u, seq) \in V
  <2> HIDE DEF V, seq
  <2>1. PlacesRun(V, u, seq)
    BY <1>1, <1>2, PlacesUnrolled
  <2>2. Len(seq) \in 0 .. Len(seq)
    BY <1>1
  <2> QED
    BY <2>1, <2>2 DEF PlacesRun
<1>4. Sound(once, PlacesVisited(u, seq))
  BY <1>3
<1>5. InPlaceOperation(u) = PlacesVisited(u, seq)
  BY DEF InPlaceOperation, PlacesVisited, VisitPlace, Extracted
<1> QED
  BY <1>4, <1>5

-----------------------------------------------------------------------------
(* dfs                                                                     *)

LEMMA InOrderIsSeq ==
  ASSUME NEW S, S \subseteq Nat, IsFiniteSet(S)
  PROVE  /\ InOrder(S) \in Seq(S) /\ Len(InOrder(S)) \in Nat
         /\ DOMAIN InOrder(S) = 1 .. Len(InOrder(S))
         /\ \A i \in DOMAIN InOrder(S) : InOrder(S)[i] \in S
<1> DEFINE size == Cardinality(S)
<1>1. size \in Nat /\ InOrder(S) \in [1 .. size -> S]
  BY InOrderFacts
<1> HIDE DEF size
<1>2. InOrder(S) \in Seq(S)
  BY <1>1, SeqDef
<1>3. DOMAIN InOrder(S) = 1 .. size /\ Len(InOrder(S)) = size
  BY <1>1, <1>2, LenProperties
<1> QED
  BY <1>1, <1>2, <1>3

LEMMA ReverseIsSeq ==
  ASSUME NEW S, NEW seq \in Seq(S)
  PROVE  /\ Reverse(seq) \in Seq(S) /\ Len(Reverse(seq)) \in Nat
         /\ DOMAIN Reverse(seq) = 1 .. Len(Reverse(seq))
         /\ \A i \in DOMAIN Reverse(seq) : Reverse(seq)[i] \in S
<1> DEFINE size == Len(seq)
<1>1. size \in Nat /\ DOMAIN seq = 1 .. size /\ \A i \in 1 .. size : seq[i] \in S
  BY SeqFacts
<1>2. \A i \in 1 .. size : (size - i) + 1 \in 1 .. size
  BY <1>1
<1>3. Reverse(seq) = [i \in 1 .. size |-> seq[(size - i) + 1]]
  BY DEF Reverse
<1> HIDE DEF size
<1>4. Reverse(seq) \in [1 .. size -> S]
  BY <1>1, <1>2, <1>3
<1>5. Reverse(seq) \in Seq(S)
  BY <1>1, <1>4, SeqDef
<1> QED
  BY <1>5, SeqFacts

LEMMA TaggedIsSeq ==
  ASSUME NEW u \in Graphs, NEW type
  PROVE  Tagged(u, type) \in Seq(NodeIds(u))
<1> DEFINE S == {n \in NodeIds(u) : u.nodes[n].type = type}
<1>1. S \subseteq 1 .. Len(u.nodes) /\ Len(u.nodes) \in Nat
  BY IdsAreBounded
<1>2. IsFiniteSet(1 .. Len(u.nodes)) /\ 1 .. Len(u.nodes) \subseteq Nat
  BY <1>1, FS_Interval, SMTT(60)
<1>3. IsFiniteSet(S) /\ S \subseteq Nat
  BY <1>1, <1>2, FS_Subset
<1>4. S \subseteq NodeIds(u) /\ Tagged(u, type) = InOrder(S)
  BY DEF Tagged
<1> HIDE DEF S
<1>5. InOrder(S) \in Seq(S)
  BY <1>3, InOrderIsSeq
<1> QED
  BY <1>4, <1>5

LEMMA PushedIsSeq ==
  ASSUME NEW u \in Graphs, Agrees(u), NEW n \in NodeIds(u), NEW visited
  PROVE  Pushed(u, n, visited) \in Seq(NodeIds(u))
<1> DEFINE ready(c) == c \notin visited /\ AllInputsAreVisited(u, c, visited)
           S == {e \in u.nodes[n].out_edges : ready(u.edges[e].consumer)}
           edges == Reverse(InOrder(S))
<1>1. S \subseteq EdgeIds(u) /\ EdgeIds(u) \subseteq 1 .. Len(u.edges) /\ Len(u.edges) \in Nat
  <2>1. \A e \in u.nodes[n].out_edges : e \in EdgeIds(u)
    BY OutAgrees
  <2> HIDE DEF ready
  <2> QED
    BY <2>1, GraphFacts
<1>2. Pushed(u, n, visited) = [k \in DOMAIN edges |-> u.edges[edges[k]].consumer]
  BY DEF Pushed
<1> HIDE DEF S
<1>3. IsFiniteSet(S) /\ S \subseteq Nat
  <2>1. IsFiniteSet(1 .. Len(u.edges)) /\ S \subseteq 1 .. Len(u.edges)
    BY <1>1, FS_Interval
  <2>2. 1 .. Len(u.edges) \subseteq Nat
    BY <1>1
  <2>3. IsFiniteSet(S)
    BY <2>1, FS_Subset
  <2> QED
    BY <2>1, <2>2, <2>3
<1>4. InOrder(S) \in Seq(S)
  BY <1>3, InOrderIsSeq
<1>5. /\ Len(edges) \in Nat /\ DOMAIN edges = 1 .. Len(edges)
      /\ \A k \in DOMAIN edges : edges[k] \in S
  BY <1>4, ReverseIsSeq
<1> HIDE DEF edges
<1>6. \A k \in DOMAIN edges : u.edges[edges[k]].consumer \in NodeIds(u)
  BY <1>1, <1>5, EdgeAgrees
<1>7. Pushed(u, n, visited) \in [1 .. Len(edges) -> NodeIds(u)]
  BY <1>2, <1>5, <1>6
<1> QED
  BY <1>5, <1>7, SeqDef

Searches(u) == [stack : Seq(NodeIds(u)), visited : SUBSET NodeIds(u), order : Seq(NodeIds(u))]

LEMMA StartSearches ==
  ASSUME NEW u \in Graphs
  PROVE  Start(u) \in Searches(u)
<1> DEFINE sources == Tagged(u, "Input") \o Tagged(u, "Const")
<1>1. sources \in Seq(NodeIds(u))
  BY TaggedIsSeq
<1>2. Start(u) = [stack |-> sources, visited |-> Range(sources), order |-> <<>>]
  BY DEF Start
<1> HIDE DEF sources
<1>3. Range(sources) \subseteq NodeIds(u)
  BY <1>1, SeqFacts DEF Range
<1>4. <<>> \in Seq(NodeIds(u))
  OBVIOUS
<1> QED
  BY <1>1, <1>2, <1>3, <1>4 DEF Searches

LEMMA PopSearches ==
  ASSUME NEW u \in Graphs, Agrees(u), NEW s \in Searches(u), s.stack # <<>>
  PROVE  Pop(u, s) \in Searches(u)
<1> DEFINE n == Last(s.stack)
           visited == s.visited \cup {n}
<1>1. s.stack \in Seq(NodeIds(u)) /\ s.visited \subseteq NodeIds(u) /\ s.order \in Seq(NodeIds(u))
  BY DEF Searches
<1>2. Len(s.stack) \in Nat \ {0}
  BY <1>1, EmptySeq, SeqFacts
<1>3. n \in NodeIds(u)
  <2>1. Len(s.stack) \in DOMAIN s.stack
    BY <1>1, <1>2, SeqFacts
  <2> QED
    BY <1>1, <2>1, SeqFacts DEF Last
<1>4. Front(s.stack) \in Seq(NodeIds(u))
  <2>1. Front(s.stack) = SubSeq(s.stack, 1, Len(s.stack) - 1)
    BY DEF Front
  <2>2. \A i \in 1 .. Len(s.stack) - 1 : s.stack[i] \in NodeIds(u)
    BY <1>1, <1>2, SeqFacts
  <2> QED
    BY <1>1, <1>2, <2>1, <2>2, SubSeqProperties
<1> HIDE DEF n
<1>5. Pushed(u, n, visited) \in Seq(NodeIds(u))
  BY <1>3, PushedIsSeq
<1>6. Front(s.stack) \o Pushed(u, n, visited) \in Seq(NodeIds(u))
  BY <1>4, <1>5
<1>7. Append(s.order, n) \in Seq(NodeIds(u))
  BY <1>1, <1>3
<1>8. Pop(u, s) = [stack |-> Front(s.stack) \o Pushed(u, n, visited), visited |-> visited,
                   order |-> Append(s.order, n)]
  BY DEF Pop, n
<1>9. visited \subseteq NodeIds(u)
  BY <1>1, <1>3
<1> HIDE DEF visited
<1> QED
  BY <1>6, <1>7, <1>8, <1>9 DEF Searches

\* The states in which dfs is after each of its steps.
Visits(u, state) ==
  LET n == Len(u.nodes) + Len(u.edges)
  IN  /\ n \in Nat /\ Dfs(u) = state[n].order /\ state[0] = Start(u)
      /\ \A k \in 0 .. n : state[k] \in Searches(u)
      /\ \A k \in 1 .. n :
           state[k] = IF state[k - 1].stack = <<>> THEN state[k - 1] ELSE Pop(u, state[k - 1])

LEMMA DfsVisits ==
  ASSUME NEW u \in Graphs, Agrees(u)
  PROVE  \E state : Visits(u, state)
<1> DEFINE n == Len(u.nodes) + Len(u.edges)
           V == Searches(u)
           Pops(s) == IF s.stack = <<>> THEN s ELSE Pop(u, s)
           step == [k \in 1 .. n |-> [s \in V |-> Pops(s)]]
           Solves(f) == f = [k \in 0 .. n |-> IF k = 0 THEN Start(u) ELSE Pops(f[k - 1])]
           state == CHOOSE f : Solves(f)
<1>1. n \in Nat
  <2>1. Len(u.nodes) \in Nat /\ Len(u.edges) \in Nat
    BY GraphFacts
  <2>2. \A a, b \in Nat : a + b \in Nat
    OBVIOUS
  <2> QED
    BY <2>1, <2>2
<1>2. Dfs(u) = state[n].order
  BY DEF Dfs
<1> HIDE DEF n
<1>3. Start(u) \in V /\ \A s \in V : Pops(s) \in V
  BY StartSearches, PopSearches
<1> HIDE DEF V, Pops
<1>4. step \in [1 .. n -> [V -> V]]
  BY <1>3
<1>5. PICK f \in [SUBSET (1 .. n) -> V] : \A s \in SUBSET (1 .. n) :
           f[s] = IF s = {} THEN Start(u) ELSE step[Max(s)][f[s \ {Max(s)}]]
  <2> HIDE DEF step
  <2>1. FoldIn(V, n, Start(u), step)
    BY <1>1, <1>3, <1>4, ClosedFold
  <2> QED
    BY <2>1 DEF FoldIn
<1> DEFINE r == [k \in 0 .. n |-> f[1 .. k]]
<1>6. r[0] = Start(u) /\ \A k \in 1 .. n : r[k] = Pops(r[k - 1]) /\ r[k - 1] \in V
  <2>1. r[0] = Start(u)
    <3>1. {} \in SUBSET (1 .. n) /\ 1 .. 0 = {} /\ 0 \in 0 .. n
      BY <1>1
    <3> QED
      BY <1>5, <3>1
  <2>2. ASSUME NEW k \in 1 .. n PROVE r[k] = Pops(r[k - 1]) /\ r[k - 1] \in V
    <3>1. /\ 1 .. k \in SUBSET (1 .. n) /\ 1 .. k # {}
          /\ Max(1 .. k) = k /\ (1 .. k) \ {k} = 1 .. k - 1
      BY <1>1, PartOfInterval
    <3>2. k \in 0 .. n /\ k - 1 \in 0 .. n /\ 1 .. k - 1 \in SUBSET (1 .. n)
      BY <1>1
    <3>3. f[1 .. k - 1] \in V
      BY <3>2
    <3>4. f[1 .. k] = step[k][f[1 .. k - 1]]
      <4> DEFINE S == 1 .. k
      <4>1. S \in SUBSET (1 .. n) /\ S # {} /\ Max(S) = k /\ S \ {k} = 1 .. k - 1
        BY <3>1
      <4> HIDE DEF S, step
      <4>2. f[S] = step[k][f[1 .. k - 1]]
        BY <1>5, <4>1
      <4> QED
        BY <4>2 DEF S
    <3>5. step[k][f[1 .. k - 1]] = Pops(f[1 .. k - 1])
      BY <3>3
    <3>6. r[k] = f[1 .. k] /\ r[k - 1] = f[1 .. k - 1]
      BY <3>2
    <3> HIDE DEF r, step
    <3> QED
      BY <3>3, <3>4, <3>5, <3>6
  <2> QED
    BY <2>1, <2>2
<1> HIDE DEF step
<1>7. Solves(r)
  <2>1. r = [k \in 0 .. n |-> r[k]]
    OBVIOUS
  <2> HIDE DEF r
  <2>2. \A k \in 0 .. n : r[k] = IF k = 0 THEN Start(u) ELSE Pops(r[k - 1])
    <3>1. \A k \in 0 .. n : k = 0 \/ k \in 1 .. n
      BY <1>1
    <3> QED
      BY <1>6, <3>1
  <2> QED
    BY <2>1, <2>2
<1>8. Solves(state)
  <2> HIDE DEF Solves
  <2> QED
    BY <1>7
<1> HIDE DEF state, r
<1>9. state[0] = Start(u) /\ \A k \in 1 .. n : state[k] = Pops(state[k - 1])
  <2>1. 0 \in 0 .. n /\ \A k \in 1 .. n : k \in 0 .. n /\ k # 0
    BY <1>1
  <2> QED
    BY <1>8, <2>1
<1> HIDE DEF Solves
<1>10. \A k \in 0 .. n : state[k] \in V
  <2>1. state[0] \in V /\ \A k \in 1 .. n : state[k - 1] \in V => state[k] \in V
    BY <1>3, <1>9
  <2> QED
    BY <1>1, <2>1, StaysIn
<1>11. Visits(u, state)
  BY <1>1, <1>2, <1>9, <1>10 DEF n, V, Pops, Visits
<1> QED
  BY <1>11

LEMMA DfsIsSeq ==
  ASSUME NEW u \in Graphs, Agrees(u)
  PROVE  Dfs(u) \in Seq(NodeIds(u))
<1>1. PICK state : Visits(u, state)
  BY DfsVisits
<1> DEFINE n == Len(u.nodes) + Len(u.edges)
<1>2. n \in Nat /\ Dfs(u) = state[n].order /\ \A k \in 0 .. n : state[k] \in Searches(u)
  BY <1>1 DEF Visits
<1> HIDE DEF n
<1>3. state[n] \in Searches(u)
  BY <1>2
<1> QED
  BY <1>2, <1>3 DEF Searches

-----------------------------------------------------------------------------
(* DepthConcatSubTensorMutator::mutate, and the tensors configured         *)

PartsMade(base, u, n, parent, seq) ==
  FoldLeftDomain(LAMBDA h, i : SubTensor(h, Input(u, n, i), parent, i), base, seq)
Disabled(h, n) == [h EXCEPT !.nodes[n].attributes.enabled = FALSE]
VisitConcat(h, n) ==
  IF h.nodes[n].type # "ConcatenateLayer" \/ ~ h.nodes[n].attributes.deep THEN h
  ELSE Disabled(PartsMade(h, h, n, h.tensors[h.nodes[n].out].handle, h.nodes[n].in), n)
ConcatsVisited(base, seq) == FoldLeft(LAMBDA h, n : VisitConcat(h, n), base, seq)
ConfiguredAll(base, seq) == FoldLeftDomain(LAMBDA h, y : ConfigureTensor(h, y), base, seq)

PartsClosed(V, u, n, parent, seq) == \A h \in V : \A k \in 1 .. Len(seq) : SubTensor(h, Input(u, n, k), parent, k) \in V
PartsRun(V, base, u, n, parent, seq) ==
  \E r : /\ \A k \in 0 .. Len(seq) : r[k] \in V
        /\ r[0] = base /\ PartsMade(base, u, n, parent, seq) = r[Len(seq)]
        /\ \A k \in 1 .. Len(seq) : r[k] = SubTensor(r[k - 1], Input(u, n, k), parent, k)

LEMMA PartsUnrolled ==
  ASSUME NEW u, NEW n, NEW parent, NEW seq, Len(seq) \in Nat, DOMAIN seq = 1 .. Len(seq), NEW V, NEW base \in V, PartsClosed(V, u, n, parent, seq)
  PROVE  PartsRun(V, base, u, n, parent, seq)
<1> DEFINE size == Len(seq)
           ids == [i \in DOMAIN seq |-> i]
           Solves(f) == f = [s \in SUBSET (1 .. size) |->
                               IF s = {} THEN base
                               ELSE SubTensor(f[s \ {Max(s)}], Input(u, n, ids[Max(s)]), parent, ids[Max(s)])]
           iter == CHOOSE f : Solves(f)
           step == [k \in 1 .. size |-> [h \in V |-> SubTensor(h, Input(u, n, k), parent, k)]]
<1>1. size \in Nat /\ DOMAIN seq = 1 .. size
  OBVIOUS
<1>0. DOMAIN ids = 1 .. size /\ \A k \in 1 .. size : ids[k] = k
  BY <1>1
<1>2. PartsMade(base, u, n, parent, seq) = iter[1 .. size]
  BY <1>0, <1>1 DEF PartsMade, FoldLeftDomain, FoldLeft, MapThenFoldSet
<1> HIDE DEF ids, size
<1>3. step \in [1 .. size -> [V -> V]]
  BY DEF size, PartsClosed
<1>4. PICK f \in [SUBSET (1 .. size) -> V] : \A s \in SUBSET (1 .. size) :
           f[s] = IF s = {} THEN base ELSE step[Max(s)][f[s \ {Max(s)}]]
  <2> HIDE DEF step
  <2>1. FoldIn(V, size, base, step)
    BY <1>1, <1>3, ClosedFold
  <2> QED
    BY <2>1 DEF FoldIn
<1>5. Solves(f)
  <2>1. ASSUME NEW s \in SUBSET (1 .. size), s # {}
        PROVE  step[Max(s)][f[s \ {Max(s)}]] = SubTensor(f[s \ {Max(s)}], Input(u, n, ids[Max(s)]), parent, ids[Max(s)])
    BY <1>0, <1>1, <2>1, MaxOfPart
  <2> HIDE DEF step
  <2> QED
    BY <1>4, <2>1
<1>6. Solves(iter)
  BY <1>5
<1> HIDE DEF iter
<1>7. /\ iter[{}] = base
      /\ \A k \in 1 .. size : iter[1 .. k] = SubTensor(iter[1 .. k - 1], Input(u, n, k), parent, k)
  <2>1. iter[{}] = base
    BY <1>1, <1>6, PartOfInterval
  <2>2. ASSUME NEW k \in 1 .. size PROVE iter[1 .. k] = SubTensor(iter[1 .. k - 1], Input(u, n, k), parent, k)
    <3>1. /\ 1 .. k \in SUBSET (1 .. size) /\ 1 .. k # {}
          /\ Max(1 .. k) = k /\ (1 .. k) \ {k} = 1 .. k - 1
      BY <1>1, PartOfInterval
    <3>2. iter[1 .. k] = SubTensor(iter[(1 .. k) \ {Max(1 .. k)}], Input(u, n, ids[Max(1 .. k)]), parent, ids[Max(1 .. k)])
      BY <1>6, <3>1
    <3> QED
      BY <1>0, <3>1, <3>2
  <2> QED
    BY <2>1, <2>2
<1> HIDE DEF Solves
<1> DEFINE r == [k \in 0 .. size |-> iter[1 .. k]]
<1>8. r[0] = base /\ \A k \in 1 .. size : r[k] = SubTensor(r[k - 1], Input(u, n, k), parent, k)
  BY <1>1, <1>7, Indices
<1>9. r[size] = PartsMade(base, u, n, parent, seq)
  BY <1>1, <1>2
<1> HIDE DEF r
<1>10. \A k \in 0 .. size : r[k] \in V
  <2>1. r[0] \in V /\ \A k \in 1 .. size : r[k - 1] \in V => r[k] \in V
    BY <1>8 DEF size, PartsClosed
  <2> QED
    BY <1>1, <2>1, StaysIn
<1> QED
  BY <1>8, <1>9, <1>10 DEF size, PartsRun

ConcatsClosed(V, seq) == \A h \in V : \A k \in 1 .. Len(seq) : VisitConcat(h, seq[k]) \in V
ConcatsRun(V, base, seq) ==
  \E r : /\ \A k \in 0 .. Len(seq) : r[k] \in V
        /\ r[0] = base /\ ConcatsVisited(base, seq) = r[Len(seq)]
        /\ \A k \in 1 .. Len(seq) : r[k] = VisitConcat(r[k - 1], seq[k])

LEMMA ConcatsUnrolled ==
  ASSUME NEW seq, Len(seq) \in Nat, DOMAIN seq = 1 .. Len(seq), NEW V, NEW base \in V, ConcatsClosed(V, seq)
  PROVE  ConcatsRun(V, base, seq)
<1> DEFINE size == Len(seq)
           Solves(f) == f = [s \in SUBSET (1 .. size) |->
                               IF s = {} THEN base
                               ELSE VisitConcat(f[s \ {Max(s)}], seq[Max(s)])]
           iter == CHOOSE f : Solves(f)
           step == [k \in 1 .. size |-> [h \in V |-> VisitConcat(h, seq[k])]]
<1>1. size \in Nat /\ DOMAIN seq = 1 .. size
  OBVIOUS
<1>2. ConcatsVisited(base, seq) = iter[1 .. size]
  BY <1>1 DEF ConcatsVisited, FoldLeft, MapThenFoldSet
<1> HIDE DEF size
<1>3. step \in [1 .. size -> [V -> V]]
  BY DEF size, ConcatsClosed
<1>4. PICK f \in [SUBSET (1 .. size) -> V] : \A s \in SUBSET (1 .. size) :
           f[s] = IF s = {} THEN base ELSE step[Max(s)][f[s \ {Max(s)}]]
  <2> HIDE DEF step
  <2>1. FoldIn(V, size, base, step)
    BY <1>1, <1>3, ClosedFold
  <2> QED
    BY <2>1 DEF FoldIn
<1>5. Solves(f)
  <2>1. ASSUME NEW s \in SUBSET (1 .. size), s # {}
        PROVE  step[Max(s)][f[s \ {Max(s)}]] = VisitConcat(f[s \ {Max(s)}], seq[Max(s)])
    BY <1>1, <2>1, MaxOfPart
  <2> HIDE DEF step
  <2> QED
    BY <1>4, <2>1
<1>6. Solves(iter)
  BY <1>5
<1> HIDE DEF iter
<1>7. /\ iter[{}] = base
      /\ \A k \in 1 .. size : iter[1 .. k] = VisitConcat(iter[1 .. k - 1], seq[k])
  <2>1. iter[{}] = base
    BY <1>1, <1>6, PartOfInterval
  <2>2. ASSUME NEW k \in 1 .. size PROVE iter[1 .. k] = VisitConcat(iter[1 .. k - 1], seq[k])
    <3>1. /\ 1 .. k \in SUBSET (1 .. size) /\ 1 .. k # {}
          /\ Max(1 .. k) = k /\ (1 .. k) \ {k} = 1 .. k - 1
      BY <1>1, PartOfInterval
    <3>2. iter[1 .. k] = VisitConcat(iter[(1 .. k) \ {Max(1 .. k)}], seq[Max(1 .. k)])
      BY <1>6, <3>1
    <3> QED
      BY <3>1, <3>2
  <2> QED
    BY <2>1, <2>2
<1> HIDE DEF Solves
<1> DEFINE r == [k \in 0 .. size |-> iter[1 .. k]]
<1>8. r[0] = base /\ \A k \in 1 .. size : r[k] = VisitConcat(r[k - 1], seq[k])
  BY <1>1, <1>7, Indices
<1>9. r[size] = ConcatsVisited(base, seq)
  BY <1>1, <1>2
<1> HIDE DEF r
<1>10. \A k \in 0 .. size : r[k] \in V
  <2>1. r[0] \in V /\ \A k \in 1 .. size : r[k - 1] \in V => r[k] \in V
    BY <1>8 DEF size, ConcatsClosed
  <2> QED
    BY <1>1, <2>1, StaysIn
<1> QED
  BY <1>8, <1>9, <1>10 DEF size, ConcatsRun

ConfiguredClosed(V, seq) == \A h \in V : \A k \in 1 .. Len(seq) : ConfigureTensor(h, k) \in V
ConfiguredRun(V, base, seq) ==
  \E r : /\ \A k \in 0 .. Len(seq) : r[k] \in V
        /\ r[0] = base /\ ConfiguredAll(base, seq) = r[Len(seq)]
        /\ \A k \in 1 .. Len(seq) : r[k] = ConfigureTensor(r[k - 1], k)

LEMMA ConfiguredUnrolled ==
  ASSUME NEW seq, Len(seq) \in Nat, DOMAIN seq = 1 .. Len(seq), NEW V, NEW base \in V, ConfiguredClosed(V, seq)
  PROVE  ConfiguredRun(V, base, seq)
<1> DEFINE size == Len(seq)
           ids == [i \in DOMAIN seq |-> i]
           Solves(f) == f = [s \in SUBSET (1 .. size) |->
                               IF s = {} THEN base
                               ELSE ConfigureTensor(f[s \ {Max(s)}], ids[Max(s)])]
           iter == CHOOSE f : Solves(f)
           step == [k \in 1 .. size |-> [h \in V |-> ConfigureTensor(h, k)]]
<1>1. size \in Nat /\ DOMAIN seq = 1 .. size
  OBVIOUS
<1>0. DOMAIN ids = 1 .. size /\ \A k \in 1 .. size : ids[k] = k
  BY <1>1
<1>2. ConfiguredAll(base, seq) = iter[1 .. size]
  BY <1>0, <1>1 DEF ConfiguredAll, FoldLeftDomain, FoldLeft, MapThenFoldSet
<1> HIDE DEF ids, size
<1>3. step \in [1 .. size -> [V -> V]]
  BY DEF size, ConfiguredClosed
<1>4. PICK f \in [SUBSET (1 .. size) -> V] : \A s \in SUBSET (1 .. size) :
           f[s] = IF s = {} THEN base ELSE step[Max(s)][f[s \ {Max(s)}]]
  <2> HIDE DEF step
  <2>1. FoldIn(V, size, base, step)
    BY <1>1, <1>3, ClosedFold
  <2> QED
    BY <2>1 DEF FoldIn
<1>5. Solves(f)
  <2>1. ASSUME NEW s \in SUBSET (1 .. size), s # {}
        PROVE  step[Max(s)][f[s \ {Max(s)}]] = ConfigureTensor(f[s \ {Max(s)}], ids[Max(s)])
    BY <1>0, <1>1, <2>1, MaxOfPart
  <2> HIDE DEF step
  <2> QED
    BY <1>4, <2>1
<1>6. Solves(iter)
  BY <1>5
<1> HIDE DEF iter
<1>7. /\ iter[{}] = base
      /\ \A k \in 1 .. size : iter[1 .. k] = ConfigureTensor(iter[1 .. k - 1], k)
  <2>1. iter[{}] = base
    BY <1>1, <1>6, PartOfInterval
  <2>2. ASSUME NEW k \in 1 .. size PROVE iter[1 .. k] = ConfigureTensor(iter[1 .. k - 1], k)
    <3>1. /\ 1 .. k \in SUBSET (1 .. size) /\ 1 .. k # {}
          /\ Max(1 .. k) = k /\ (1 .. k) \ {k} = 1 .. k - 1
      BY <1>1, PartOfInterval
    <3>2. iter[1 .. k] = ConfigureTensor(iter[(1 .. k) \ {Max(1 .. k)}], ids[Max(1 .. k)])
      BY <1>6, <3>1
    <3> QED
      BY <1>0, <3>1, <3>2
  <2> QED
    BY <2>1, <2>2
<1> HIDE DEF Solves
<1> DEFINE r == [k \in 0 .. size |-> iter[1 .. k]]
<1>8. r[0] = base /\ \A k \in 1 .. size : r[k] = ConfigureTensor(r[k - 1], k)
  BY <1>1, <1>7, Indices
<1>9. r[size] = ConfiguredAll(base, seq)
  BY <1>1, <1>2
<1> HIDE DEF r
<1>10. \A k \in 0 .. size : r[k] \in V
  <2>1. r[0] \in V /\ \A k \in 1 .. size : r[k - 1] \in V => r[k] \in V
    BY <1>8 DEF size, ConfiguredClosed
  <2> QED
    BY <1>1, <2>1, StaysIn
<1> QED
  BY <1>8, <1>9, <1>10 DEF size, ConfiguredRun

LEMMA PartMade ==
  ASSUME NEW u \in Graphs, NEW y \in DOMAIN u.tensors, NEW parent \in Nat, NEW part \in Nat
  PROVE  Relabelled(u, SubTensor(u, y, parent, part))
<1> DEFINE new == [parent |-> parent, part |-> part]
<1>1. new \in Handle /\ SubTensor(u, y, parent, part) = WithHandle(u, y, new)
  BY DEF Handle, SubTensor, WithHandle
<1> HIDE DEF new
<1> QED
  BY <1>1, HandleRelabels

LEMMA PartsRelabel ==
  ASSUME NEW u \in Graphs, NEW n, NEW parent \in Nat, NEW seq, Len(seq) \in Nat,
         DOMAIN seq = 1 .. Len(seq),
         \A i \in DOMAIN seq : Input(u, n, i) \in DOMAIN u.tensors
  PROVE  Relabelled(u, PartsMade(u, u, n, parent, seq))
<1> DEFINE V == {h \in Graphs : Relabelled(u, h)}
<1>1. u \in V
  BY RelabelledSelf
<1>2. PartsClosed(V, u, n, parent, seq)
  <2>1. ASSUME NEW h \in V, NEW k \in 1 .. Len(seq)
        PROVE  SubTensor(h, Input(u, n, k), parent, k) \in V
    <3>1. Input(u, n, k) \in DOMAIN h.tensors /\ k \in Nat /\ h \in Graphs /\ Relabelled(u, h)
      BY DEF Relabelled
    <3>2. Relabelled(h, SubTensor(h, Input(u, n, k), parent, k))
      BY <3>1, PartMade
    <3>3. Relabelled(u, SubTensor(h, Input(u, n, k), parent, k))
      BY <3>1, <3>2, RelabelledAgain
    <3>4. SubTensor(h, Input(u, n, k), parent, k) \in Graphs
      BY <3>3 DEF Relabelled
    <3> QED
      BY <3>3, <3>4
  <2> HIDE DEF V
  <2> QED
    BY <2>1 DEF PartsClosed
<1>3. PartsMade(u, u, n, parent, seq) \in V
  <2> HIDE DEF V
  <2>1. PartsRun(V, u, u, n, parent, seq)
    BY <1>1, <1>2, PartsUnrolled
  <2>2. Len(seq) \in 0 .. Len(seq)
    OBVIOUS
  <2> QED
    BY <2>1, <2>2 DEF PartsRun
<1> QED
  BY <1>3

LEMMA VisitConcatSound ==
  ASSUME NEW once, NEW u, Sound(once, u), NEW n \in DOMAIN u.nodes
  PROVE  Sound(once, VisitConcat(u, n)) /\ DOMAIN VisitConcat(u, n).nodes = DOMAIN u.nodes
<1> DEFINE parent == u.tensors[u.nodes[n].out].handle
           seq == u.nodes[n].in
           h == PartsMade(u, u, n, parent, seq)
           k == Disabled(h, n)
<1>1. CASE u.nodes[n].type # "ConcatenateLayer" \/ ~ u.nodes[n].attributes.deep
  BY <1>1 DEF VisitConcat
<1>2. CASE ~ (u.nodes[n].type # "ConcatenateLayer" \/ ~ u.nodes[n].attributes.deep)
  <2>1. VisitConcat(u, n) = k
    BY <1>2 DEF VisitConcat
  <2>2. u \in Graphs /\ Agrees(u) /\ FeedersHaveTensors(u)
    BY SoundFeeds
  <2>3. n \in NodeIds(u)
    <3>1. u.nodes[n].type # "null"
      BY <1>2
    <3>2. u.nodes[n] # NoNode
      BY <3>1 DEF NoNode
    <3> QED
      BY <3>2 DEF NodeIds
  <2>4. parent \in Nat
    <3>1. NodeFits(u, n)
      BY <2>3 DEF Sound
    <3>2. u.nodes[n].out \in DOMAIN u.tensors
      BY <1>2, <3>1 DEF NodeFits
    <3>3. u.tensors \in Seq(Tensor)
      BY <2>2, GraphFacts
    <3>4. u.tensors[u.nodes[n].out] \in Tensor
      BY <3>2, <3>3, SeqFacts
    <3> QED
      BY <3>4 DEF Tensor
  <2>5. /\ Len(seq) \in Nat /\ DOMAIN seq = 1 .. Len(seq)
        /\ \A i \in DOMAIN seq : Input(u, n, i) \in DOMAIN u.tensors
    <3>1. Len(seq) \in Nat /\ DOMAIN seq = 1 .. Len(seq)
      BY <2>2, <2>3, GraphFacts, NodeFacts
    <3>2. ASSUME NEW i \in DOMAIN seq PROVE Input(u, n, i) \in DOMAIN u.tensors
      <4>1. Feed(u, n, i) # 0 /\ u.nodes[Feed(u, n, i)].out \in DOMAIN u.tensors
        BY <2>2, <2>3, SoundFeeds DEF FeedersHaveTensors
      <4>2. u.edges[u.nodes[n].in[i]].tensor = u.nodes[Feed(u, n, i)].out
        BY <2>2, <2>3, <4>1, FeedHasEdge
      <4> QED
        BY <4>1, <4>2 DEF Input
    <3> QED
      BY <3>1, <3>2
  <2> HIDE DEF parent, seq
  <2>6. Relabelled(u, h)
    BY <2>2, <2>4, <2>5, PartsRelabel
  <2> HIDE DEF h
  <2>7. Relabelled(h, k)
    <3> DEFINE attributes == [h.nodes[n].attributes EXCEPT !.enabled = FALSE]
    <3>1. h \in Graphs /\ n \in NodeIds(h)
      BY <2>3, <2>6 DEF Relabelled
    <3>2. attributes \in Attribute
      <4>1. h.nodes[n].attributes \in Attribute
        BY <3>1, GraphFacts, NodeFacts
      <4> QED
        BY <4>1 DEF Attribute
    <3>3. k = WithAttributes(h, n, attributes)
      BY <3>1, GraphFacts DEF Disabled, WithAttributes
    <3> HIDE DEF attributes, k
    <3> QED
      BY <3>1, <3>2, <3>3, AttributesGiven
  <2> HIDE DEF k
  <2>8. Relabelled(u, k)
    BY <2>6, <2>7, RelabelledAgain
  <2>9. Sound(once, k) /\ DOMAIN k.nodes = DOMAIN u.nodes
    BY <2>8, RelabelledSound DEF Relabelled
  <2> QED
    BY <2>1, <2>9
<1> QED
  BY <1>1, <1>2

LEMMA DepthConcatSubTensorSound ==
  ASSUME NEW once, NEW u, Sound(once, u)
  PROVE  Sound(once, DepthConcatSubTensor(u))
<1> DEFINE seq == Reverse(Dfs(u))
           V == {h \in Graphs : Sound(once, h) /\ DOMAIN u.nodes \subseteq DOMAIN h.nodes}
<1>1. /\ u \in V /\ Len(seq) \in Nat /\ DOMAIN seq = 1 .. Len(seq)
      /\ \A k \in DOMAIN seq : seq[k] \in DOMAIN u.nodes
  <2>1. u \in Graphs /\ Agrees(u)
    BY DEF Sound
  <2>2. Dfs(u) \in Seq(NodeIds(u))
    BY <2>1, DfsIsSeq
  <2>3. NodeIds(u) \subseteq DOMAIN u.nodes
    BY DEF NodeIds
  <2> HIDE DEF seq
  <2>4. /\ Len(seq) \in Nat /\ DOMAIN seq = 1 .. Len(seq)
        /\ \A k \in DOMAIN seq : seq[k] \in NodeIds(u)
    BY <2>2, ReverseIsSeq DEF seq
  <2> QED
    BY <2>1, <2>3, <2>4
<1> HIDE DEF seq
<1>2. ConcatsClosed(V, seq)
  <2>1. ASSUME NEW h \in V, NEW k \in 1 .. Len(seq) PROVE VisitConcat(h, seq[k]) \in V
    <3>1. Sound(once, h) /\ seq[k] \in DOMAIN h.nodes
      BY <1>1
    <3>2. Sound(once, VisitConcat(h, seq[k])) /\ DOMAIN VisitConcat(h, seq[k]).nodes = DOMAIN h.nodes
      BY <3>1, VisitConcatSound
    <3>3. VisitConcat(h, seq[k]) \in Graphs
      BY <3>2 DEF Sound
    <3> QED
      BY <3>2, <3>3
  <2> HIDE DEF V
  <2> QED
    BY <2>1 DEF ConcatsClosed
<1>3. ConcatsVisited(u, seq) \in V
  <2> HIDE DEF V
  <2>1. ConcatsRun(V, u, seq)
    BY <1>1, <1>2, ConcatsUnrolled
  <2>2. Len(seq) \in 0 .. Len(seq)
    BY <1>1
  <2> QED
    BY <2>1, <2>2 DEF ConcatsRun
<1>4. Sound(once, ConcatsVisited(u, seq))
  BY <1>3
<1>5. DepthConcatSubTensor(u) = ConcatsVisited(u, seq)
  BY DEF DepthConcatSubTensor, ConcatsVisited, VisitConcat, PartsMade, Disabled, seq
<1> QED
  BY <1>4, <1>5

LEMMA ConfiguredSound ==
  ASSUME NEW once, NEW u, Sound(once, u)
  PROVE  Sound(once, FoldLeftDomain(ConfigureTensor, u, u.tensors))
<1> DEFINE seq == u.tensors
           V == {h \in Graphs : Relabelled(u, h)}
<1>1. u \in V /\ Len(seq) \in Nat /\ DOMAIN seq = 1 .. Len(seq)
  BY GraphFacts, RelabelledSelf DEF Sound
<1>2. ConfiguredClosed(V, seq)
  <2>1. ASSUME NEW h \in V, NEW k \in 1 .. Len(seq) PROVE ConfigureTensor(h, k) \in V
    <3>1. h \in Graphs /\ Relabelled(u, h) /\ k \in DOMAIN h.tensors
      BY <1>1 DEF Relabelled
    <3>2. Relabelled(h, ConfigureTensor(h, k))
      BY <3>1, ConfiguredRelabels
    <3>3. Relabelled(u, ConfigureTensor(h, k))
      BY <3>1, <3>2, RelabelledAgain
    <3>4. ConfigureTensor(h, k) \in Graphs
      BY <3>3 DEF Relabelled
    <3> QED
      BY <3>3, <3>4
  <2> HIDE DEF V
  <2> QED
    BY <2>1 DEF ConfiguredClosed
<1>3. ConfiguredAll(u, seq) \in V
  <2> HIDE DEF V, seq
  <2>1. ConfiguredRun(V, u, seq)
    BY <1>1, <1>2, ConfiguredUnrolled
  <2>2. Len(seq) \in 0 .. Len(seq)
    BY <1>1
  <2> QED
    BY <2>1, <2>2 DEF ConfiguredRun
<1> HIDE DEF seq
<1>4. Sound(once, ConfiguredAll(u, seq))
  BY <1>3, RelabelledSound
<1>5. FoldLeftDomain(ConfigureTensor, u, u.tensors) = ConfiguredAll(u, seq)
  BY DEF ConfiguredAll, FoldLeftDomain, FoldLeft, MapThenFoldSet, seq
<1> QED
  BY <1>4, <1>5

-----------------------------------------------------------------------------
(* The builder                                                             *)

LEMMA SameLength ==
  ASSUME NEW S, NEW x \in Seq(S), NEW y \in Seq(S), DOMAIN x = DOMAIN y
  PROVE  Len(x) = Len(y)
<1>1. Len(x) \in Nat /\ Len(y) \in Nat /\ DOMAIN x = 1 .. Len(x) /\ DOMAIN y = 1 .. Len(y)
  BY SeqFacts
<1> DEFINE a == Len(x)
           b == Len(y)
<1>2. a \in Nat /\ b \in Nat /\ 1 .. a = 1 .. b
  BY <1>1
<1> HIDE DEF a, b
<1>3. (a > 0 => a \in 1 .. b) /\ (b > 0 => b \in 1 .. a)
  <2>1. a > 0 => a \in 1 .. a
    BY <1>2
  <2>2. b > 0 => b \in 1 .. b
    BY <1>2
  <2> QED
    BY <1>2, <2>1, <2>2
<1>4. a = b
  BY <1>2, <1>3
<1> QED
  BY <1>4 DEF a, b

LEMMA EmptyGraphSound == Sound(FALSE, EmptyGraph) /\ Len(EmptyGraph.nodes) = 0
<1>1. /\ EmptyGraph.nodes = <<>> /\ EmptyGraph.edges = <<>> /\ EmptyGraph.tensors = <<>>
      /\ EmptyGraph \in Graphs
  <2>1. \A S : <<>> \in Seq(S)
    OBVIOUS
  <2> QED
    BY <2>1 DEF EmptyGraph, Graphs
<1>2. NodeIds(EmptyGraph) = {} /\ EdgeIds(EmptyGraph) = {} /\ DOMAIN EmptyGraph.tensors = {}
  BY <1>1 DEF NodeIds, EdgeIds
<1>3. Agrees(EmptyGraph)
  BY <1>2 DEF Agrees
<1>4. [n \in Nat |-> 0] \in [Nat -> Nat] /\ IsRank(EmptyGraph, [n \in Nat |-> 0])
  BY <1>2 DEF IsRank
<1> QED
  BY <1>1, <1>2, <1>3, <1>4 DEF Sound, ConstsOnce

ReadByNone(u, n) == \A m \in NodeIds(u) : \A i \in DOMAIN u.nodes[m].in : Feed(u, m, i) # n

\* h is u with one more node, of that type, that nobody reads.
Grows(u, type, h) ==
  LET f == Len(u.nodes) + 1 IN
  /\ Sound(FALSE, h) /\ f \notin NodeIds(u) /\ NodeIds(h) = NodeIds(u) \cup {f} /\ Len(h.nodes) = f
  /\ h.nodes[f].type = type
  /\ ReadByNone(h, f)
  /\ \A n \in NodeIds(u) : h.nodes[n].type = u.nodes[n].type
  /\ DOMAIN u.tensors \subseteq DOMAIN h.tensors
  /\ type # "Output" => Len(u.tensors) + 1 \in DOMAIN h.tensors

\* What a builder may connect to a new node: constants that nobody reads yet.
MayRead(u, type, seq) ==
  /\ Len(seq) \in 0 .. 2 /\ DOMAIN seq = 1 .. Len(seq)
  /\ \A j \in DOMAIN seq : seq[j] \in NodeIds(u) /\ u.nodes[seq[j]].type # "Output"
  /\ type \in Sources <=> Len(seq) = 0
  /\ \A j \in DOMAIN seq : u.nodes[seq[j]].type = "Const" => j = 2 /\ ReadByNone(u, seq[j])
  /\ type = "ActivationLayer" => Len(seq) = 1
  /\ type \in Weighted => Len(seq) = 2 /\ u.nodes[seq[2]].type = "Const"

LEMMA AttributesFit ==
  ASSUME NEW n \in Nat, NEW fusible \in BOOLEAN, NEW deep \in BOOLEAN
  PROVE  Attributes(n, fusible, deep) \in Attribute
  BY DEF Attributes, Attribute

LEMMA LayerAdded ==
  ASSUME NEW u, Sound(FALSE, u), NEW type \in Types, NEW seq, MayRead(u, type, seq),
         NEW fusible \in BOOLEAN, NEW deep \in BOOLEAN
  PROVE  Grows(u, type, AddLayer(u, type, seq, fusible, deep))
<1> DEFINE f == Len(u.nodes) + 1
           attributes == Attributes(f, fusible, deep)
           size == Len(seq)
           a == AddNode(u, type, size, attributes)
           h == AddLayer(u, type, seq, fusible, deep)
<1>1. u \in Graphs /\ Agrees(u) /\ HaveTensors(u) /\ NodeIds(u) \subseteq Nat \ {0}
  BY SoundFeeds, EdgesHaveTensors, NodesAreNumbers
<1>2. /\ size \in 0 .. 2 /\ DOMAIN seq = 1 .. size
      /\ \A j \in 1 .. size : seq[j] \in NodeIds(u) /\ u.nodes[seq[j]].type # "Output"
  BY DEF MayRead
<1>3. h = ConnectInputs(a, f, seq)
  BY DEF AddLayer
<1>4. attributes \in Attribute
  <2>1. f \in Nat
    BY <1>1, GraphFacts
  <2> HIDE DEF f
  <2> QED
    BY <2>1, AttributesFit
<1> HIDE DEF attributes, h
<1>5. Adds(u, type, size, a)
  <2>1. size \in 0 .. 3
    BY <1>2
  <2> HIDE DEF size
  <2> QED
    BY <1>1, <1>4, <2>1, NodeAdded
<1> HIDE DEF a
<1>6. /\ a \in Graphs /\ Agrees(a) /\ f \notin NodeIds(u) /\ NodeIds(a) = NodeIds(u) \cup {f}
      /\ f \in Nat \ {0} /\ Len(a.nodes) = f
      /\ \A n \in NodeIds(u) : /\ a.nodes[n].type = u.nodes[n].type
                               /\ a.nodes[n].out = u.nodes[n].out
                               /\ DOMAIN a.nodes[n].in = DOMAIN u.nodes[n].in
                               /\ \A i \in DOMAIN u.nodes[n].in : Feed(a, n, i) = Feed(u, n, i)
      /\ a.nodes[f].type = type /\ DOMAIN a.nodes[f].in = 1 .. size
      /\ \A i \in 1 .. size : Feed(a, f, i) = 0
      /\ type # "Output" => /\ a.nodes[f].out \in DOMAIN a.tensors
                            /\ Len(u.tensors) + 1 \in DOMAIN a.tensors
      /\ DOMAIN u.tensors \subseteq DOMAIN a.tensors
  BY <1>5 DEF Adds
<1>7. ASSUME NEW j \in 1 .. size
      PROVE  seq[j] \in NodeIds(a) /\ a.nodes[seq[j]].out \in DOMAIN a.tensors
  <2>1. NodeFits(u, seq[j])
    BY <1>2 DEF Sound
  <2>2. u.nodes[seq[j]].out \in DOMAIN u.tensors
    BY <1>2, <2>1 DEF NodeFits
  <2> QED
    BY <1>2, <1>6, <2>2
<1>8. /\ SameLayers(a, h) /\ Agrees(h)
      /\ \A m \in NodeIds(a) : \A i \in DOMAIN a.nodes[m].in :
           Feed(h, m, i) = IF m = f THEN seq[i] ELSE Feed(a, m, i)
  <2>1. Len(seq) \in Nat /\ DOMAIN seq = 1 .. Len(seq) /\ f \in NodeIds(a)
        /\ DOMAIN a.nodes[f].in = 1 .. Len(seq)
    BY <1>2, <1>6
  <2>2. \A j \in DOMAIN seq : /\ seq[j] \in NodeIds(a) /\ a.nodes[seq[j]].out \in DOMAIN a.tensors
                             /\ Feed(a, f, j) = 0
    BY <1>2, <1>6, <1>7
  <2>3. a \in Graphs /\ Agrees(a)
    BY <1>6
  <2> HIDE DEF f, size
  <2>4. /\ SameLayers(a, ConnectInputs(a, f, seq)) /\ Agrees(ConnectInputs(a, f, seq))
        /\ \A m \in NodeIds(a) : \A i \in DOMAIN a.nodes[m].in :
             Feed(ConnectInputs(a, f, seq), m, i) = IF m = f THEN seq[i] ELSE Feed(a, m, i)
    BY <2>1, <2>2, <2>3, InputsFeed
  <2> QED
    BY <1>3, <2>4
<1>9. /\ h \in Graphs /\ NodeIds(h) = NodeIds(a) /\ DOMAIN h.nodes = DOMAIN a.nodes
      /\ DOMAIN h.tensors = DOMAIN a.tensors
      /\ \A n \in NodeIds(a) : /\ h.nodes[n].type = a.nodes[n].type
                               /\ h.nodes[n].out = a.nodes[n].out
                               /\ DOMAIN h.nodes[n].in = DOMAIN a.nodes[n].in
  BY <1>8 DEF SameLayers
<1> HIDE DEF f
<1>10. Len(h.nodes) = f
  <2>1. h.nodes \in Seq(Node \cup {NoNode}) /\ a.nodes \in Seq(Node \cup {NoNode})
    BY <1>6, <1>9, GraphFacts
  <2> QED
    BY <1>6, <1>9, <2>1, SameLength
<1>11. PICK rank \in [Nat -> Nat] : IsRank(u, rank)
  BY DEF Sound
<1> DEFINE height == [j \in 1 .. 2 |-> IF j <= size THEN rank[seq[j]] ELSE 0]
           top == height[1] + height[2] + 1
           new == [rank EXCEPT ![f] = top]
<1>12. \A j \in 1 .. 2 : /\ height[j] \in Nat
                         /\ j <= size => height[j] = rank[seq[j]]
  <2> TAKE j \in 1 .. 2
  <2>1. CASE j <= size
    <3>1. j \in 1 .. size
      BY <1>2, <2>1
    <3> QED
      BY <1>1, <1>2, <1>11, <2>1, <3>1
  <2>2. CASE ~ j <= size
    BY <2>2
  <2> QED
    BY <2>1, <2>2
<1> HIDE DEF height
<1>13. top \in Nat /\ \A j \in 1 .. size : rank[seq[j]] < top
  <2>1. height[1] \in Nat /\ height[2] \in Nat
    BY <1>12
  <2>2. ASSUME NEW j \in 1 .. size PROVE rank[seq[j]] < top
    <3>1. size \in 0 .. 2
      BY <1>2
    <3>2. j \in 1 .. 2 /\ (j = 1 \/ j = 2) /\ j <= size
      <4> HIDE DEF size
      <4> QED
        BY <3>1
    <3>3. rank[seq[j]] = height[j]
      <4> HIDE DEF size, top
      <4> QED
        BY <1>12, <3>2
    <3>4. height[j] < top
      <4>1. height[1] < top /\ height[2] < top
        <5>1. \A x, y \in Nat : x < x + y + 1 /\ y < x + y + 1
          OBVIOUS
        <5> QED
          BY <2>1, <5>1
      <4> HIDE DEF size, top
      <4> QED
        BY <3>2, <4>1
    <3> HIDE DEF top
    <3> QED
      BY <3>3, <3>4
  <2>3. top \in Nat
    BY <2>1
  <2> HIDE DEF top
  <2> QED
    BY <2>2, <2>3
<1> HIDE DEF top
<1>14. /\ new \in [Nat -> Nat] /\ new[f] = top
       /\ \A m \in NodeIds(u) : new[m] = rank[m]
  BY <1>1, <1>6, <1>11, <1>13
<1> HIDE DEF new
<1>15. ASSUME NEW m \in NodeIds(h) PROVE NodeFits(h, m)
  <2>1. CASE m = f
    <3>1. /\ h.nodes[m].type = type /\ DOMAIN h.nodes[m].in = 1 .. size
          /\ type # "Output" => h.nodes[m].out \in DOMAIN h.tensors
      BY <1>6, <1>9, <2>1
    <3>2. /\ type \in Sources <=> size = 0
          /\ type = "ActivationLayer" => size = 1
          /\ type \in Weighted => size = 2
      BY DEF MayRead
    <3>3. /\ type \in InPlaceNodes => 1 \in 1 .. size
          /\ 1 .. size = {} <=> size = 0
      <4>1. size = 0 \/ size = 1 \/ size = 2
        <5>1. size \in 0 .. 2
          BY <1>2
        <5> HIDE DEF size
        <5> QED
          BY <5>1
      <4>2. (1 .. size = {} <=> size = 0) /\ (size # 0 => 1 \in 1 .. size)
        <5> HIDE DEF size
        <5> QED
          BY <4>1
      <4>3. type \in InPlaceNodes => type \notin Sources
        BY DEF InPlaceNodes, Sources
      <4> HIDE DEF size
      <4> QED
        BY <3>2, <4>2, <4>3
    <3> HIDE DEF size, h, f
    <3> QED
      BY <3>1, <3>2, <3>3 DEF NodeFits
  <2>2. CASE m # f
    <3>1. m \in NodeIds(u) /\ NodeFits(u, m)
      BY <1>6, <1>9, <2>2 DEF Sound
    <3> QED
      BY <1>6, <1>9, <3>1, SameFits
  <2> QED
    BY <2>1, <2>2
<1>16. ASSUME NEW m \in NodeIds(h), NEW i \in DOMAIN h.nodes[m].in
       PROVE  InputFits(h, m, i) /\ new[Feed(h, m, i)] < new[m]
  <2>1. CASE m = f
    <3>1. i \in 1 .. size /\ Feed(h, m, i) = seq[i] /\ h.nodes[m].type = type
      BY <1>6, <1>8, <1>9, <2>1
    <3>2. seq[i] \in NodeIds(u) /\ u.nodes[seq[i]].type # "Output" /\ seq[i] # 0
      BY <1>1, <1>2, <3>1
    <3>3. h.nodes[seq[i]].type = u.nodes[seq[i]].type
      BY <1>6, <1>9, <3>2
    <3>4. type \in Weighted /\ i = 2 => u.nodes[seq[i]].type = "Const"
      BY DEF MayRead
    <3>5. new[seq[i]] < new[m]
      BY <1>13, <1>14, <2>1, <3>1, <3>2
    <3> QED
      BY <3>1, <3>2, <3>3, <3>4, <3>5 DEF InputFits
  <2>2. CASE m # f
    <3>1. /\ m \in NodeIds(u) /\ i \in DOMAIN u.nodes[m].in /\ InputFits(u, m, i)
          /\ Feed(u, m, i) \in NodeIds(u)
      BY <1>6, <1>9, <2>2, SoundFeeds DEF Sound
    <3>2. Feed(h, m, i) = Feed(u, m, i)
      <4>1. m \in NodeIds(a) /\ i \in DOMAIN a.nodes[m].in /\ Feed(a, m, i) = Feed(u, m, i)
        BY <1>6, <3>1
      <4> QED
        BY <1>8, <2>2, <4>1
    <3>3. /\ h.nodes[m].type = u.nodes[m].type
          /\ h.nodes[Feed(u, m, i)].type = u.nodes[Feed(u, m, i)].type
      BY <1>6, <1>9, <3>1
    <3>4. new[Feed(u, m, i)] < new[m]
      <4>1. rank[Feed(u, m, i)] < rank[m]
        BY <1>11, <3>1 DEF IsRank
      <4> QED
        BY <1>14, <3>1, <4>1
    <3> QED
      BY <3>1, <3>2, <3>3, <3>4 DEF InputFits
  <2> QED
    BY <2>1, <2>2
<1>17. IsRank(h, new)
  BY <1>16 DEF IsRank
<1>21. /\ \A m \in NodeIds(u) : \A i \in DOMAIN h.nodes[m].in :
            /\ i \in DOMAIN u.nodes[m].in /\ m # f /\ Feed(h, m, i) = Feed(u, m, i)
            /\ Feed(u, m, i) \in NodeIds(u)
       /\ \A i \in DOMAIN h.nodes[f].in :
            /\ i \in 1 .. size /\ Feed(h, f, i) = seq[i] /\ seq[i] \in NodeIds(u)
            /\ u.nodes[seq[i]].type = "Const" => ReadByNone(u, seq[i])
       /\ \A m \in NodeIds(u) : h.nodes[m].type = u.nodes[m].type
  <2>1. \A m \in NodeIds(u) : \A i \in DOMAIN u.nodes[m].in : Feed(u, m, i) \in NodeIds(u)
    BY SoundFeeds
  <2>2. \A i \in 1 .. size : u.nodes[seq[i]].type = "Const" => ReadByNone(u, seq[i])
    BY <1>2 DEF MayRead
  <2>3. DOMAIN h.nodes[f].in = 1 .. size /\ \A m \in NodeIds(u) : m # f
    BY <1>6, <1>9
  <2>4. \A i \in 1 .. size : Feed(h, f, i) = seq[i]
    BY <1>6, <1>8
  <2>5. \A i \in 1 .. size : seq[i] \in NodeIds(u)
    BY <1>2
  <2>6. \A m \in NodeIds(u) : /\ DOMAIN h.nodes[m].in = DOMAIN u.nodes[m].in
                            /\ h.nodes[m].type = u.nodes[m].type
    BY <1>6, <1>9
  <2>7. \A m \in NodeIds(u) : \A i \in DOMAIN u.nodes[m].in : Feed(h, m, i) = Feed(u, m, i)
    <3> TAKE m \in NodeIds(u)
    <3> TAKE i \in DOMAIN u.nodes[m].in
    <3> HIDE DEF h, size
    <3>1. m \in NodeIds(a) /\ i \in DOMAIN a.nodes[m].in /\ Feed(a, m, i) = Feed(u, m, i)
      BY <1>6
    <3>2. Feed(h, m, i) = Feed(a, m, i)
      BY <1>8, <2>3, <3>1
    <3> QED
      BY <3>1, <3>2
  <2> HIDE DEF size, h
  <2>8. \A m \in NodeIds(u) : \A i \in DOMAIN h.nodes[m].in :
            /\ i \in DOMAIN u.nodes[m].in /\ m # f /\ Feed(h, m, i) = Feed(u, m, i)
            /\ Feed(u, m, i) \in NodeIds(u)
    BY <2>1, <2>3, <2>6, <2>7
  <2>9. \A i \in DOMAIN h.nodes[f].in :
            /\ i \in 1 .. size /\ Feed(h, f, i) = seq[i] /\ seq[i] \in NodeIds(u)
            /\ u.nodes[seq[i]].type = "Const" => ReadByNone(u, seq[i])
    BY <2>2, <2>3, <2>4, <2>5
  <2> QED
    BY <2>6, <2>8, <2>9
<1>22. ConstsOnce(h)
  <2>1. ASSUME NEW m \in NodeIds(h), NEW k \in NodeIds(h), NEW i \in DOMAIN h.nodes[m].in,
               NEW l \in DOMAIN h.nodes[k].in, Feed(h, m, i) = Feed(h, k, l),
               h.nodes[Feed(h, m, i)].type = "Const"
        PROVE  m = k
    <3>1. m \in NodeIds(u) \cup {f} /\ k \in NodeIds(u) \cup {f}
      BY <1>6, <1>9
    <3> HIDE DEF h, size
    <3>2. Feed(h, m, i) \in NodeIds(u)
      <4>1. CASE m = f
        BY <1>21, <4>1
      <4>2. CASE m # f
        <5>1. m \in NodeIds(u)
          BY <3>1, <4>2
        <5> QED
          BY <1>21, <5>1
      <4> QED
        BY <4>1, <4>2
    <3>3. u.nodes[Feed(h, m, i)].type = "Const"
      BY <1>21, <2>1, <3>2
    <3>4. CASE m # f /\ k # f
      <4>1. m \in NodeIds(u) /\ k \in NodeIds(u)
        BY <3>1, <3>4
      <4>2. /\ i \in DOMAIN u.nodes[m].in /\ Feed(h, m, i) = Feed(u, m, i)
            /\ l \in DOMAIN u.nodes[k].in /\ Feed(h, k, l) = Feed(u, k, l)
        BY <1>21, <4>1
      <4>3. Feed(u, m, i) = Feed(u, k, l) /\ u.nodes[Feed(u, m, i)].type = "Const"
        BY <2>1, <3>3, <4>2
      <4>4. ConstsOnce(u)
        BY DEF Sound
      <4> QED
        BY <4>1, <4>2, <4>3, <4>4 DEF ConstsOnce
    <3>5. CASE m = f /\ k # f
      <4>1. k \in NodeIds(u)
        BY <3>1, <3>5
      <4>2. l \in DOMAIN u.nodes[k].in /\ Feed(h, k, l) = Feed(u, k, l)
        BY <1>21, <4>1
      <4>3. ReadByNone(u, Feed(h, m, i))
        BY <1>21, <3>3, <3>5
      <4> QED
        BY <2>1, <4>1, <4>2, <4>3 DEF ReadByNone
    <3>6. CASE m # f /\ k = f
      <4>1. m \in NodeIds(u)
        BY <3>1, <3>6
      <4>2. i \in DOMAIN u.nodes[m].in /\ Feed(h, m, i) = Feed(u, m, i)
        BY <1>21, <4>1
      <4>3. ReadByNone(u, Feed(h, k, l))
        BY <1>21, <2>1, <3>3, <3>6
      <4> QED
        BY <2>1, <4>1, <4>2, <4>3 DEF ReadByNone
    <3> QED
      BY <3>4, <3>5, <3>6
  <2>2. \A m, k \in NodeIds(h) : \A i \in DOMAIN h.nodes[m].in : \A l \in DOMAIN h.nodes[k].in :
          Feed(h, m, i) = Feed(h, k, l) /\ h.nodes[Feed(h, m, i)].type = "Const" => m = k
    BY <2>1
  <2> QED
    BY <2>2 DEF ConstsOnce
<1>23. ReadByNone(h, f)
  <2> HIDE DEF h, size
  <2>1. ASSUME NEW m \in NodeIds(h), NEW i \in DOMAIN h.nodes[m].in PROVE Feed(h, m, i) # f
    <3>1. Feed(h, m, i) \in NodeIds(u)
      <4>1. CASE m = f
        BY <1>21, <4>1
      <4>2. CASE m # f
        <5>1. m \in NodeIds(u)
          BY <1>6, <1>9, <4>2
        <5> QED
          BY <1>21, <5>1
      <4> QED
        BY <4>1, <4>2
    <3> QED
      BY <1>6, <3>1
  <2> QED
    BY <2>1 DEF ReadByNone
<1>18. Sound(FALSE, h)
  BY <1>8, <1>9, <1>14, <1>15, <1>16, <1>17, <1>22 DEF Sound
<1>19. h.nodes[f].type = type /\ \A n \in NodeIds(u) : h.nodes[n].type = u.nodes[n].type
  BY <1>6, <1>9
<1>20. NodeIds(h) = NodeIds(u) \cup {f} /\ DOMAIN u.tensors \subseteq DOMAIN h.tensors
       /\ (type # "Output" => Len(u.tensors) + 1 \in DOMAIN h.tensors)
  BY <1>6, <1>9
<1> QED
  BY <1>6, <1>10, <1>18, <1>19, <1>20, <1>23 DEF Grows, f, h

LEMMA AccessorGrows ==
  ASSUME NEW u, NEW type, NEW h, Grows(u, type, h), NEW tid \in DOMAIN h.tensors
  PROVE  Grows(u, type, WithAccessor(h, tid))
<1> DEFINE k == WithAccessor(h, tid)
<1>1. h \in Graphs /\ Sound(FALSE, h)
  BY DEF Grows, Sound
<1>2. k = SetAccessor(h, tid, TRUE)
  BY DEF WithAccessor, SetAccessor
<1>3. Relabelled(h, k)
  BY <1>1, <1>2, AccessorSet
<1> HIDE DEF k
<1>4. Sound(FALSE, k)
  BY <1>1, <1>3, RelabelledSound
<1>5. /\ k \in Graphs /\ NodeIds(k) = NodeIds(h) /\ DOMAIN k.nodes = DOMAIN h.nodes
      /\ DOMAIN k.tensors = DOMAIN h.tensors
      /\ \A n \in NodeIds(h) : k.nodes[n].type = h.nodes[n].type
  BY <1>3 DEF Relabelled
<1>6. Len(k.nodes) = Len(h.nodes)
  <2>1. h.nodes \in Seq(Node \cup {NoNode}) /\ k.nodes \in Seq(Node \cup {NoNode})
    BY <1>1, <1>5, GraphFacts
  <2> QED
    BY <1>5, <2>1, SameLength
<1>7. ReadByNone(k, Len(u.nodes) + 1)
  <2> DEFINE f == Len(u.nodes) + 1
  <2>1. ReadByNone(h, f)
    BY DEF Grows
  <2> HIDE DEF f
  <2>2. /\ \A m \in NodeIds(h) : \A i \in DOMAIN h.nodes[m].in : Feed(k, m, i) = Feed(h, m, i)
        /\ \A m \in NodeIds(h) : k.nodes[m].in = h.nodes[m].in
    <3>1. h \in Graphs /\ Agrees(h)
      BY <1>1 DEF Sound
    <3> QED
      BY <1>3, <3>1, RelabelledWires DEF Relabelled
  <2>3. ReadByNone(k, f)
    BY <1>5, <2>1, <2>2 DEF ReadByNone
  <2> QED
    BY <2>3 DEF f
<1>8. Grows(u, type, k)
  BY <1>4, <1>5, <1>6, <1>7 DEF Grows
<1> QED
  BY <1>8 DEF k

LEMMA SourceAdded ==
  ASSUME NEW u, Sound(FALSE, u), NEW type \in Sources
  PROVE  Grows(u, type, AddSource(u, type))
<1>1. type \in Types /\ type # "Output" /\ MayRead(u, type, <<>>)
  <2>1. type = "Input" \/ type = "Const"
    BY DEF Sources
  <2>2. Len(<<>>) = 0 /\ DOMAIN <<>> = {} /\ 1 .. 0 = {}
    OBVIOUS
  <2> QED
    BY <2>1, <2>2 DEF Types, MayRead, InPlaceNodes, Weighted
<1>2. Grows(u, type, AddLayer(u, type, <<>>, FALSE, FALSE))
  BY <1>1, LayerAdded
<1>3. Len(u.tensors) + 1 \in DOMAIN AddLayer(u, type, <<>>, FALSE, FALSE).tensors
  BY <1>1, <1>2 DEF Grows
<1> QED
  BY <1>2, <1>3, AccessorGrows DEF AddSource

-----------------------------------------------------------------------------
(* The life of a graph                                                     *)

LEMMA ReadsOne ==
  ASSUME NEW u, NEW type \in {"ActivationLayer", "Output"}, NEW x \in NodeIds(u),
         u.nodes[x].type \notin {"Output", "Const"}
  PROVE  MayRead(u, type, <<x>>)
<1>1. Len(<<x>>) = 1 /\ DOMAIN <<x>> = 1 .. 1 /\ <<x>>[1] = x
  OBVIOUS
<1>2. \A j \in DOMAIN <<x>> : <<x>>[j] = x
  OBVIOUS
<1>3. type \notin Weighted /\ type \notin Sources
  BY DEF Weighted, Sources
<1> QED
  BY <1>1, <1>2, <1>3 DEF MayRead

LEMMA ReadsTwo ==
  ASSUME NEW u, NEW type \in Types \ {"ActivationLayer"}, type \notin Sources,
         NEW x \in NodeIds(u), NEW y \in NodeIds(u),
         u.nodes[x].type \notin {"Output", "Const"}, u.nodes[y].type # "Output",
         type \in Weighted => u.nodes[y].type = "Const",
         u.nodes[y].type = "Const" => ReadByNone(u, y)
  PROVE  MayRead(u, type, <<x, y>>)
<1> DEFINE seq == <<x, y>>
<1>1. Len(seq) = 2 /\ DOMAIN seq = 1 .. 2 /\ seq[1] = x /\ seq[2] = y
  OBVIOUS
<1> HIDE DEF seq
<1>2. ASSUME NEW j \in DOMAIN seq
      PROVE  /\ seq[j] \in NodeIds(u) /\ u.nodes[seq[j]].type # "Output"
             /\ u.nodes[seq[j]].type = "Const" => j = 2 /\ ReadByNone(u, seq[j])
  <2>1. j = 1 \/ j = 2
    BY <1>1
  <2> QED
    BY <1>1, <2>1
<1>3. MayRead(u, type, seq)
  BY <1>1, <1>2 DEF MayRead
<1> QED
  BY <1>3 DEF seq

LEMMA WeightedAdded ==
  ASSUME Sound(FALSE, g), NEW type \in Weighted, NEW x \in Readable(g), AddWeighted(type, x)
  PROVE  Sound(FALSE, g')
<1> DEFINE weighted == AddSource(g, "Const")
           y == Len(weighted.nodes)
           h == AddLayer(weighted, type, <<x, y>>, FALSE, FALSE)
<1>1. Grows(g, "Const", weighted)
  <2>1. "Const" \in Sources
    BY DEF Sources
  <2> QED
    BY <2>1, SourceAdded
<1>2. g' = h
  BY DEF AddWeighted, Build
<1> HIDE DEF weighted
<1>3. /\ Sound(FALSE, weighted) /\ y \in NodeIds(weighted) /\ weighted.nodes[y].type = "Const"
      /\ x \in NodeIds(weighted) /\ weighted.nodes[x].type \notin {"Output", "Const"}
      /\ ReadByNone(weighted, y)
  BY <1>1 DEF Grows, Readable
<1>4. type \in Types \ {"ActivationLayer"} /\ type \notin Sources
  BY DEF Weighted, Types, Sources
<1> HIDE DEF y
<1>5. MayRead(weighted, type, <<x, y>>)
  BY <1>3, <1>4, ReadsTwo
<1>6. Grows(weighted, type, h)
  BY <1>3, <1>4, <1>5, LayerAdded
<1>7. Sound(FALSE, h)
  BY <1>6 DEF Grows
<1> HIDE DEF h
<1> QED
  BY <1>2, <1>7

LEMMA LayersAdded ==
  ASSUME Sound(FALSE, g), NEW x \in Readable(g), NEW y \in Readable(g),
         AddActivation(x) \/ AddOutput(x) \/ AddElementwise(x, y) \/ AddConcatenate(x, y)
  PROVE  Sound(FALSE, g')
<1>1. /\ x \in NodeIds(g) /\ g.nodes[x].type \notin {"Output", "Const"}
      /\ y \in NodeIds(g) /\ g.nodes[y].type \notin {"Output", "Const"}
  BY DEF Readable
<1>2. CASE AddActivation(x)
  <2>1. PICK fusible \in BOOLEAN : g' = AddLayer(g, "ActivationLayer", <<x>>, fusible, FALSE)
    BY <1>2 DEF AddActivation, Build
  <2>2. MayRead(g, "ActivationLayer", <<x>>) /\ "ActivationLayer" \in Types
    BY <1>1, ReadsOne DEF Types
  <2>3. Grows(g, "ActivationLayer", AddLayer(g, "ActivationLayer", <<x>>, fusible, FALSE))
    BY <2>2, LayerAdded
  <2> QED
    BY <2>1, <2>3 DEF Grows
<1>3. CASE AddOutput(x)
  <2> DEFINE h == AddLayer(g, "Output", <<x>>, FALSE, FALSE)
  <2>1. g' = WithAccessor(h, g.nodes[x].out)
    BY <1>3 DEF AddOutput, Build
  <2>2. MayRead(g, "Output", <<x>>) /\ "Output" \in Types
    BY <1>1, ReadsOne DEF Types
  <2>3. Grows(g, "Output", h)
    BY <2>2, LayerAdded
  <2> HIDE DEF h
  <2>4. g.nodes[x].out \in DOMAIN h.tensors
    <3>1. NodeFits(g, x)
      BY <1>1 DEF Sound
    <3>2. g.nodes[x].out \in DOMAIN g.tensors
      BY <1>1, <3>1 DEF NodeFits
    <3> QED
      BY <2>3, <3>2 DEF Grows
  <2>5. Grows(g, "Output", WithAccessor(h, g.nodes[x].out))
    BY <2>3, <2>4, AccessorGrows
  <2> QED
    BY <2>1, <2>5 DEF Grows
<1>4. CASE AddElementwise(x, y)
  <2>1. g' = AddLayer(g, "EltwiseLayer", <<x, y>>, FALSE, FALSE)
    BY <1>4 DEF AddElementwise, Build
  <2>2. "EltwiseLayer" \in Types \ {"ActivationLayer"} /\ "EltwiseLayer" \notin Weighted \cup Sources
    BY DEF Types, Weighted, Sources
  <2>3. MayRead(g, "EltwiseLayer", <<x, y>>)
    BY <1>1, <2>2, ReadsTwo
  <2>4. Grows(g, "EltwiseLayer", AddLayer(g, "EltwiseLayer", <<x, y>>, FALSE, FALSE))
    BY <2>2, <2>3, LayerAdded
  <2> QED
    BY <2>1, <2>4 DEF Grows
<1>5. CASE AddConcatenate(x, y)
  <2>1. PICK deep \in BOOLEAN : g' = AddLayer(g, "ConcatenateLayer", <<x, y>>, FALSE, deep)
    BY <1>5 DEF AddConcatenate, Build
  <2>2. "ConcatenateLayer" \in Types \ {"ActivationLayer"} /\ "ConcatenateLayer" \notin Weighted \cup Sources
    BY DEF Types, Weighted, Sources
  <2>3. MayRead(g, "ConcatenateLayer", <<x, y>>)
    BY <1>1, <2>2, ReadsTwo
  <2>4. Grows(g, "ConcatenateLayer", AddLayer(g, "ConcatenateLayer", <<x, y>>, FALSE, deep))
    BY <2>2, <2>3, LayerAdded
  <2> QED
    BY <2>1, <2>4 DEF Grows
<1> QED
  BY <1>2, <1>3, <1>4, <1>5

LEMMA NoDoubleFeeds ==
  ASSUME NEW once, NEW u, Sound(once, u), NoDoubleEdges(u)
  PROVE  Sound(TRUE, u)
<1>1. \A m \in NodeIds(u) : \A i \in DOMAIN u.nodes[m].in : Feed(u, m, i) = Producer(u, m, i)
  <2>1. \A m \in NodeIds(u) : \A i \in DOMAIN u.nodes[m].in : Feed(u, m, i) # 0
    BY SoundFeeds
  <2> QED
    BY <2>1 DEF Feed
<1>2. NoDouble(u)
  BY <1>1 DEF NoDouble, NoDoubleEdges
<1> QED
  BY <1>2 DEF Sound

\* What the passes of a network leave to it.
GraphSound ==
  /\ Sound(FALSE, g)
  /\ pc # "build" /\ NoDoubleEdges(source) => Sound(TRUE, g)

LEMMA PassesSound ==
  ASSUME NEW once, Sound(once, g), FusionPass \/ InPlacePass \/ ConcatPass
  PROVE  Sound(once, g')
<1>1. CASE FusionPass
  <2>1. PICK last \in LastVisited(g, target) : g' = NodeFusion(g, target, last)
    BY <1>1 DEF FusionPass, Pass
  <2> QED
    BY <2>1, NodeFusionSound
<1>2. CASE InPlacePass
  <2>1. g' = InPlaceOperation(g)
    BY <1>2 DEF InPlacePass, Pass
  <2> QED
    BY <2>1, InPlaceOperationSound
<1>3. CASE ConcatPass
  <2>1. g' = DepthConcatSubTensor(g)
    BY <1>3 DEF ConcatPass, Pass
  <2> QED
    BY <2>1, DepthConcatSubTensorSound
<1> QED
  BY <1>1, <1>2, <1>3

\* Whatever is built and whichever passes run (Graph.cpp, the mutators), the
\* graph stays sound: its parts agree, every input is fed, weights are constants
\* that nobody else reads, what is read has a tensor, and there is no cycle; and
\* unless the network has one, no node reads another one twice.
THEOREM GraphStaysSound == Spec => []GraphSound
<1>1. Init => GraphSound
  <2> SUFFICES ASSUME Init PROVE Sound(FALSE, g)
    BY DEF GraphSound, Init
  <2>1. g = AddSource(EmptyGraph, "Input") /\ "Input" \in Sources
    BY DEF Init, Sources
  <2>2. Grows(EmptyGraph, "Input", AddSource(EmptyGraph, "Input"))
    BY <2>1, EmptyGraphSound, SourceAdded
  <2> QED
    BY <2>1, <2>2 DEF Grows
<1>2. GraphSound /\ [Next]_vars => GraphSound'
  <2> SUFFICES ASSUME GraphSound, [Next]_vars PROVE GraphSound'
    OBVIOUS
  <2>1. Sound(FALSE, g)
    BY DEF GraphSound
  <2>2. ASSUME NEW x \in Readable(g), AddConvolution(x) \/ AddBatchNormalization(x)
        PROVE  GraphSound'
    <3>1. "ConvolutionLayer" \in Weighted /\ "BatchNormalizationLayer" \in Weighted
      BY DEF Weighted
    <3>2. Sound(FALSE, g')
      BY <2>1, <2>2, <3>1, WeightedAdded DEF AddConvolution, AddBatchNormalization
    <3>3. pc' = "build"
      BY <2>2 DEF AddConvolution, AddBatchNormalization, AddWeighted, Build
    <3> QED
      BY <3>2, <3>3 DEF GraphSound
  <2>3. ASSUME NEW x \in Readable(g), NEW y \in Readable(g),
               \/ AddActivation(x) \/ AddOutput(x)
               \/ AddElementwise(x, y) \/ AddConcatenate(x, y)
        PROVE  GraphSound'
    <3>1. Sound(FALSE, g')
      BY <2>1, <2>3, LayersAdded
    <3>2. pc' = "build"
      BY <2>3 DEF AddActivation, AddOutput, AddElementwise, AddConcatenate, Build
    <3> QED
      BY <3>1, <3>2 DEF GraphSound
  <2>4. CASE Finalize
    <3>1. g' = FoldLeftDomain(ConfigureTensor, g, g.tensors) /\ source' = g
      BY <2>4 DEF Finalize
    <3>2. Sound(FALSE, g')
      BY <2>1, <3>1, ConfiguredSound
    <3>3. NoDoubleEdges(g) => Sound(TRUE, g')
      BY <2>1, <3>1, NoDoubleFeeds, ConfiguredSound
    <3>4. NoDoubleEdges(source)' <=> NoDoubleEdges(g)
      BY <3>1
    <3> QED
      BY <3>2, <3>3, <3>4 DEF GraphSound
  <2>5. CASE FusionPass \/ InPlacePass \/ ConcatPass
    <3>1. pc # "build" /\ source' = source
      BY <2>5 DEF FusionPass, InPlacePass, ConcatPass, Pass, run_vars
    <3>2. Sound(FALSE, g') /\ (Sound(TRUE, g) => Sound(TRUE, g'))
      BY <2>1, <2>5, PassesSound
    <3> QED
      BY <3>1, <3>2 DEF GraphSound
  <2>6. CASE Sort \/ Configure \/ CallInputs \/ ExecuteTask \/ CallOutputs \/ UNCHANGED vars
    <3>1. g' = g /\ source' = source /\ (pc' # "build" => pc # "build")
      BY <2>6 DEF Sort, Configure, CallInputs, ExecuteTask, CallOutputs, vars, run_vars
    <3> QED
      BY <3>1 DEF GraphSound
  <2> QED
    BY <2>2, <2>3, <2>4, <2>5, <2>6 DEF Next
<1> QED
  BY <1>1, <1>2, PTL DEF Spec

\* In every state of a graph's life both ends of an edge, the edge and its
\* tensor name each other (Graph.cpp, INode.cpp).
THEOREM EndsOfEdgesAgree == Spec => []EndsAgree
<1>1. GraphSound => EndsAgree
  BY DEF GraphSound, Sound, EndsAgree
<1> QED
  BY <1>1, GraphStaysSound, PTL

-----------------------------------------------------------------------------
(* Sequences without repetition.                                           *)

LEMMA RangeOf ==
  ASSUME NEW S, NEW s \in Seq(S), NEW x
  PROVE  x \in Range(s) <=> \E i \in 1 .. Len(s) : s[i] = x
<1>1. DOMAIN s = 1 .. Len(s)
  BY SeqFacts
<1> QED
  BY <1>1 DEF Range

LEMMA Reversed ==
  ASSUME NEW S, NEW s \in Seq(S)
  PROVE  /\ Reverse(s) \in Seq(S) /\ Range(Reverse(s)) = Range(s)
         /\ IsInjective(s) => IsInjective(Reverse(s))
<1> DEFINE size == Len(s)
           r == Reverse(s)
<1>1. size \in Nat /\ DOMAIN s = 1 .. size
  BY SeqFacts
<1>2. \A i \in 1 .. size : (size - i) + 1 \in 1 .. size /\ (size - ((size - i) + 1)) + 1 = i
  <2> HIDE DEF size
  <2> QED
    BY <1>1
<1>3. r = [i \in 1 .. size |-> s[(size - i) + 1]]
  BY DEF Reverse
<1>4. r \in Seq(S)
  BY ReverseIsSeq
<1> HIDE DEF r, size
<1>5. DOMAIN r = 1 .. size /\ \A i \in 1 .. size : r[i] = s[(size - i) + 1]
  BY <1>3
<1>6. Range(r) = Range(s)
  <2>1. ASSUME NEW i \in 1 .. size PROVE r[i] \in Range(s) /\ s[i] \in Range(r)
    <3>1. r[i] = s[(size - i) + 1] /\ r[(size - i) + 1] = s[i]
      BY <1>2, <1>5
    <3> QED
      BY <1>1, <1>2, <1>5, <3>1 DEF Range
  <2> QED
    BY <1>1, <1>5, <2>1 DEF Range
<1>7. ASSUME IsInjective(s), NEW i \in 1 .. size, NEW j \in 1 .. size, r[i] = r[j] PROVE i = j
  <2>1. (size - i) + 1 = (size - j) + 1
    BY <1>1, <1>2, <1>5, <1>7 DEF IsInjective
  <2> QED
    BY <1>1, <2>1
<1> QED
  BY <1>4, <1>5, <1>6, <1>7 DEF r, IsInjective

LEMMA Popped ==
  ASSUME NEW S, NEW s \in Seq(S), s # <<>>
  PROVE  /\ Len(s) \in Nat \ {0} /\ Front(s) \in Seq(S) /\ Last(s) \in S
         /\ Len(Front(s)) = Len(s) - 1 /\ \A i \in 1 .. Len(s) - 1 : Front(s)[i] = s[i]
         /\ Last(s) \in Range(s) /\ Range(s) = Range(Front(s)) \cup {Last(s)}
         /\ IsInjective(s) => IsInjective(Front(s)) /\ Last(s) \notin Range(Front(s))
<1> DEFINE size == Len(s)
           f == Front(s)
<1>1. size \in Nat \ {0} /\ DOMAIN s = 1 .. size /\ \A i \in 1 .. size : s[i] \in S
  BY EmptySeq, SeqFacts
<1>2. Last(s) = s[size] /\ Last(s) \in S
  BY <1>1 DEF Last
<1>3. f \in Seq(S) /\ Len(f) = size - 1 /\ \A i \in 1 .. size - 1 : f[i] = s[i]
  <2>1. f = SubSeq(s, 1, size - 1)
    BY DEF Front
  <2> HIDE DEF f, size
  <2>2. \A i \in 1 .. size - 1 : s[i] \in S
    BY <1>1
  <2>3. 1 \in Int /\ size - 1 \in Int /\ (1 <= size - 1 => size - 1 - 1 + 1 = size - 1)
        /\ (~ 1 <= size - 1 => size - 1 = 0) /\ \A i \in 1 .. size - 1 : 1 + i - 1 = i
    BY <1>1
  <2>4. f \in Seq(S) /\ Len(f) = IF 1 <= size - 1 THEN size - 1 - 1 + 1 ELSE 0
    BY <2>1, <2>2, <2>3, SubSeqProperties
  <2>5. \A i \in 1 .. size - 1 - 1 + 1 : f[i] = s[1 + i - 1]
    BY <2>1, <2>2, <2>3, SubSeqProperties
  <2>6. 1 .. size - 1 - 1 + 1 = 1 .. size - 1
    BY <1>1
  <2> QED
    BY <2>3, <2>4, <2>5, <2>6
<1> HIDE DEF f, size
<1>4. DOMAIN f = 1 .. size - 1
  BY <1>3, SeqFacts
<1>5. 1 .. size = (1 .. size - 1) \cup {size} /\ size \notin 1 .. size - 1
  BY <1>1
<1>6. Range(s) = Range(f) \cup {Last(s)}
  <2>1. Range(s) = {s[i] : i \in 1 .. size} /\ Range(f) = {f[i] : i \in 1 .. size - 1}
    BY <1>1, <1>4 DEF Range
  <2> QED
    BY <1>2, <1>3, <1>5, <2>1
<1>7. IsInjective(s) => IsInjective(f) /\ Last(s) \notin Range(f)
  <2>1. ASSUME NEW i \in 1 .. size - 1 PROVE f[i] = s[i] /\ i \in 1 .. size /\ i # size
    BY <1>3, <1>5
  <2> QED
    BY <1>1, <1>2, <1>4, <1>5, <2>1 DEF IsInjective, Range
<1> QED
  BY <1>1, <1>2, <1>3, <1>6, <1>7 DEF f, size

LEMMA JoinedItems ==
  ASSUME NEW S, NEW s \in Seq(S), NEW w \in Seq(S)
  PROVE  /\ Len(s) \in Nat /\ Len(w) \in Nat /\ Len(s \o w) = Len(s) + Len(w)
         /\ \A i \in 1 .. Len(s) + Len(w) : (s \o w)[i] = IF i <= Len(s) THEN s[i] ELSE w[i - Len(s)]
  BY ConcatProperties, SeqFacts

LEMMA JoinedSeqs ==
  ASSUME NEW S, NEW s \in Seq(S), NEW w \in Seq(S)
  PROVE  /\ s \o w \in Seq(S) /\ Range(s \o w) = Range(s) \cup Range(w)
         /\ IsInjective(s) /\ IsInjective(w) /\ Range(s) \cap Range(w) = {} => IsInjective(s \o w)
<1> DEFINE a == Len(s)
           b == Len(w)
           r == s \o w
<1>1. a \in Nat /\ b \in Nat /\ DOMAIN s = 1 .. a /\ DOMAIN w = 1 .. b
  BY SeqFacts
<1>2. r \in Seq(S) /\ Len(r) = a + b
      /\ \A i \in 1 .. a + b : r[i] = IF i <= a THEN s[i] ELSE w[i - a]
  BY ConcatProperties
<1>3. DOMAIN r = 1 .. a + b
  BY <1>2, SeqFacts
<1> HIDE DEF a, b, r
<1>4. ASSUME NEW i \in 1 .. a + b
      PROVE  \/ i \in 1 .. a /\ r[i] = s[i]
             \/ i - a \in 1 .. b /\ r[i] = w[i - a]
  <2>1. CASE i <= a
    <3>1. i \in 1 .. a
      BY <1>1, <2>1
    <3> QED
      BY <1>2, <2>1, <3>1
  <2>2. CASE ~ i <= a
    <3>1. i - a \in 1 .. b
      BY <1>1, <2>2
    <3> QED
      BY <1>2, <2>2, <3>1
  <2> QED
    BY <2>1, <2>2
<1>5. /\ \A i \in 1 .. a : i \in 1 .. a + b /\ r[i] = s[i]
      /\ \A i \in 1 .. b : i + a \in 1 .. a + b /\ r[i + a] = w[i]
  <2>1. ASSUME NEW i \in 1 .. a PROVE i \in 1 .. a + b /\ i <= a
    BY <1>1
  <2>2. ASSUME NEW i \in 1 .. b PROVE i + a \in 1 .. a + b /\ ~ i + a <= a /\ (i + a) - a = i
    BY <1>1
  <2> QED
    BY <1>2, <2>1, <2>2
<1>6. Range(r) = Range(s) \cup Range(w)
  <2>1. Range(r) \subseteq Range(s) \cup Range(w)
    BY <1>1, <1>3, <1>4 DEF Range
  <2>2. Range(s) \subseteq Range(r) /\ Range(w) \subseteq Range(r)
    BY <1>1, <1>3, <1>5 DEF Range
  <2> QED
    BY <2>1, <2>2
<1>7. ASSUME IsInjective(s), IsInjective(w), Range(s) \cap Range(w) = {},
             NEW i \in 1 .. a + b, NEW j \in 1 .. a + b, r[i] = r[j]
      PROVE  i = j
  <2>1. \A x \in 1 .. a : \A y \in 1 .. b : s[x] # w[y]
    BY <1>1, <1>7 DEF Range
  <2>2. CASE i \in 1 .. a /\ j \in 1 .. a /\ r[i] = s[i] /\ r[j] = s[j]
    BY <1>1, <1>7, <2>2 DEF IsInjective
  <2>3. CASE i - a \in 1 .. b /\ j - a \in 1 .. b /\ r[i] = w[i - a] /\ r[j] = w[j - a]
    <3>1. i - a = j - a
      BY <1>1, <1>7, <2>3 DEF IsInjective
    <3> QED
      BY <1>1, <3>1
  <2> QED
    BY <1>4, <1>7, <2>1, <2>2, <2>3
<1> QED
  BY <1>2, <1>3, <1>6, <1>7 DEF r, IsInjective

LEMMA Appended ==
  ASSUME NEW S, NEW s \in Seq(S), NEW x \in S
  PROVE  /\ Append(s, x) \in Seq(S) /\ Range(Append(s, x)) = Range(s) \cup {x}
         /\ Len(Append(s, x)) = Len(s) + 1 /\ Len(s) \in Nat
         /\ \A i \in 1 .. Len(s) : Append(s, x)[i] = s[i]
         /\ Append(s, x)[Len(s) + 1] = x
         /\ IsInjective(s) /\ x \notin Range(s) => IsInjective(Append(s, x))
<1> DEFINE a == Len(s)
           r == Append(s, x)
<1>1. a \in Nat /\ DOMAIN s = 1 .. a
  BY SeqFacts
<1>2. r \in Seq(S) /\ Len(r) = a + 1 /\ r[a + 1] = x /\ \A i \in 1 .. a : r[i] = s[i]
  BY AppendProperties
<1>3. DOMAIN r = 1 .. a + 1
  BY <1>2, SeqFacts
<1> HIDE DEF a, r
<1>4. 1 .. a + 1 = (1 .. a) \cup {a + 1}
  BY <1>1
<1>5. Range(r) = Range(s) \cup {x}
  <2>1. Range(r) = {r[i] : i \in 1 .. a + 1} /\ Range(s) = {s[i] : i \in 1 .. a}
    BY <1>1, <1>3 DEF Range
  <2> QED
    BY <1>2, <1>4, <2>1
<1>6. IsInjective(s) /\ x \notin Range(s) => IsInjective(r)
  BY <1>1, <1>2, <1>3, <1>4 DEF IsInjective, Range
<1> QED
  BY <1>1, <1>2, <1>5, <1>6 DEF a, r

-----------------------------------------------------------------------------
(* What dfs visits, and in which order.                                    *)

SourcesOf(u) == {n \in NodeIds(u) : u.nodes[n].type \in Sources}

LEMMA ProducersFeed ==
  ASSUME NEW once, NEW u, Sound(once, u), NEW n \in NodeIds(u)
  PROVE  /\ Producers(u, n) = {Feed(u, n, i) : i \in DOMAIN u.nodes[n].in}
         /\ Producers(u, n) \subseteq NodeIds(u)
         /\ n \in SourcesOf(u) <=> Producers(u, n) = {}
<1>1. \A i \in DOMAIN u.nodes[n].in : Feed(u, n, i) = Producer(u, n, i) /\ Feed(u, n, i) \in NodeIds(u)
  <2>1. \A i \in DOMAIN u.nodes[n].in : Feed(u, n, i) \in NodeIds(u) /\ Feed(u, n, i) # 0
    BY SoundFeeds
  <2> QED
    BY <2>1 DEF Feed
<1>2. NodeFits(u, n)
  BY DEF Sound
<1> QED
  BY <1>1, <1>2 DEF Producers, SourcesOf, NodeFits

\* The consumers of n that can be visited now.
Ready(u, n, visited) ==
  {c \in NodeIds(u) : n \in Producers(u, c) /\ c \notin visited /\ Producers(u, c) \subseteq visited}

LEMMA PushedReady ==
  ASSUME NEW once, NEW u, Sound(once, u), NoDouble(u), NEW n \in NodeIds(u), NEW visited
  PROVE  /\ Pushed(u, n, visited) \in Seq(NodeIds(u)) /\ IsInjective(Pushed(u, n, visited))
         /\ Range(Pushed(u, n, visited)) = Ready(u, n, visited)
<1> DEFINE ready(c) == c \notin visited /\ AllInputsAreVisited(u, c, visited)
           S == {e \in u.nodes[n].out_edges : ready(u.edges[e].consumer)}
           edges == Reverse(InOrder(S))
           p == Pushed(u, n, visited)
<1>1. u \in Graphs /\ Agrees(u)
  BY DEF Sound
<1>2. S \subseteq EdgeIds(u) /\ EdgeIds(u) \subseteq 1 .. Len(u.edges) /\ Len(u.edges) \in Nat
  <2>1. \A e \in u.nodes[n].out_edges : e \in EdgeIds(u)
    BY <1>1, OutAgrees
  <2> HIDE DEF ready
  <2> QED
    BY <1>1, <2>1, GraphFacts
<1>3. p = [k \in DOMAIN edges |-> u.edges[edges[k]].consumer]
  BY DEF Pushed
<1>4. p \in Seq(NodeIds(u))
  BY <1>1, PushedIsSeq
<1>5. \A e : e \in S <=> /\ e \in u.nodes[n].out_edges /\ u.edges[e].consumer \notin visited
                        /\ Producers(u, u.edges[e].consumer) \subseteq visited
  BY DEF AllInputsAreVisited
<1> HIDE DEF S, p
<1>6. IsFiniteSet(S) /\ S \subseteq Nat
  <2>1. IsFiniteSet(1 .. Len(u.edges)) /\ S \subseteq 1 .. Len(u.edges)
    BY <1>2, FS_Interval
  <2>2. 1 .. Len(u.edges) \subseteq Nat
    BY <1>2
  <2>3. IsFiniteSet(S)
    BY <2>1, FS_Subset
  <2> QED
    BY <2>1, <2>2, <2>3
<1>7. InOrder(S) \in Seq(S) /\ IsInjective(InOrder(S)) /\ Range(InOrder(S)) = S
  <2>1. /\ InOrder(S) \in Seq(S) /\ IsInjective(InOrder(S))
        /\ InOrder(S) \in [1 .. Cardinality(S) -> S]
        /\ \A x \in S : \E i \in 1 .. Cardinality(S) : InOrder(S)[i] = x
    BY <1>6, InOrderIsSeq, InOrderFacts
  <2> QED
    BY <2>1 DEF Range
<1>8. IsInjective(edges) /\ Range(edges) = S
  BY <1>7, Reversed
<1> HIDE DEF edges
<1>9. DOMAIN p = DOMAIN edges /\ \A k \in DOMAIN edges : p[k] = u.edges[edges[k]].consumer /\ edges[k] \in S
  BY <1>3, <1>8 DEF Range
<1>10. ASSUME NEW e \in S
       PROVE  /\ u.edges[e].consumer \in NodeIds(u)
              /\ u.edges[e].idx \in DOMAIN u.nodes[u.edges[e].consumer].in
              /\ u.nodes[u.edges[e].consumer].in[u.edges[e].idx] = e
              /\ Feed(u, u.edges[e].consumer, u.edges[e].idx) = n
  <2>1. e \in EdgeIds(u) /\ u.edges[e].producer = n
    BY <1>1, <1>5, OutAgrees
  <2> QED
    BY <1>1, <2>1, EdgeFeeds, EdgeAgrees
<1>11. IsInjective(p)
  <2>1. ASSUME NEW e \in S, NEW f \in S, u.edges[e].consumer = u.edges[f].consumer PROVE e = f
    BY <1>10, <2>1 DEF NoDouble
  <2> QED
    BY <1>8, <1>9, <2>1 DEF IsInjective
<1>12. Range(p) = {u.edges[e].consumer : e \in S}
  <2>1. \A e \in S : \E k \in DOMAIN edges : edges[k] = e
    BY <1>8 DEF Range
  <2> QED
    BY <1>9, <2>1 DEF Range
<1>13. \A c \in Range(p) : c \in Ready(u, n, visited)
  <2>1. ASSUME NEW e \in S PROVE u.edges[e].consumer \in Ready(u, n, visited)
    <3>1. n \in Producers(u, u.edges[e].consumer)
      BY <1>10, ProducersFeed
    <3> QED
      BY <1>5, <1>10, <3>1 DEF Ready
  <2> QED
    BY <1>12, <2>1
<1>14. \A c \in Ready(u, n, visited) : c \in Range(p)
  <2>1. ASSUME NEW c \in Ready(u, n, visited) PROVE \E e \in S : u.edges[e].consumer = c
    <3>1. PICK i \in DOMAIN u.nodes[c].in : Feed(u, c, i) = n
      BY ProducersFeed DEF Ready
    <3>2. c \in NodeIds(u) /\ n # 0
      BY <1>1, NodesAreNumbers DEF Ready
    <3>3. u.nodes[c].in[i] \in u.nodes[n].out_edges /\ u.edges[u.nodes[c].in[i]].consumer = c
      BY <1>1, <3>1, <3>2, FeedHasEdge
    <3>4. u.nodes[c].in[i] \in S
      BY <1>5, <3>3 DEF Ready
    <3> QED
      BY <3>3, <3>4
  <2> QED
    BY <1>12, <2>1
<1> QED
  BY <1>4, <1>11, <1>13, <1>14 DEF p

-----------------------------------------------------------------------------
\* Where a node of A is in s, all before it are.
Lowest(s, A) == \A j \in 1 .. Len(s) : s[j] \in A => \A i \in 1 .. j : s[i] \in A

\* Every node of seq comes after those that it reads.
Ordered(u, seq) ==
  \A i \in 1 .. Len(seq) : \A p \in Producers(u, seq[i]) :
    p \in SourcesOf(u) \/ \E j \in 1 .. i - 1 : seq[j] = p

\* No node is on the stack or in the order twice; the sources lie under the other
\* nodes, whose producers have been visited, and who has all producers in the
\* order is not forgotten.
Searched(u, s) ==
  /\ s \in Searches(u)
  /\ IsInjective(s.stack) /\ IsInjective(s.order) /\ Range(s.stack) \cap Range(s.order) = {}
  /\ s.visited = Range(s.order) \cup SourcesOf(u)
  /\ SourcesOf(u) \subseteq Range(s.order) \cup Range(s.stack)
  /\ Lowest(s.stack, SourcesOf(u))
  /\ \A n \in Range(s.stack) : Producers(u, n) \subseteq s.visited
  /\ \A n \in NodeIds(u) \ SourcesOf(u) :
       Producers(u, n) \subseteq Range(s.order) => n \in Range(s.order) \cup Range(s.stack)
  /\ Ordered(u, s.order)

LEMMA StartSearched ==
  ASSUME NEW once, NEW u, Sound(once, u)
  PROVE  Searched(u, Start(u)) /\ Len(Start(u).order) = 0
<1> DEFINE inputs == Tagged(u, "Input")
           consts == Tagged(u, "Const")
           stack == inputs \o consts
           s == Start(u)
<1>1. u \in Graphs
  BY DEF Sound
<1>2. s \in Searches(u) /\ s.stack = stack /\ s.visited = Range(stack) /\ s.order = <<>>
  BY <1>1, StartSearches DEF Start
<1>3. ASSUME NEW type
      PROVE  /\ Tagged(u, type) \in Seq(NodeIds(u)) /\ IsInjective(Tagged(u, type))
             /\ Range(Tagged(u, type)) = {n \in NodeIds(u) : u.nodes[n].type = type}
  <2> DEFINE S == {n \in NodeIds(u) : u.nodes[n].type = type}
  <2>1. S \subseteq 1 .. Len(u.nodes) /\ Len(u.nodes) \in Nat
    BY <1>1, IdsAreBounded
  <2>2. IsFiniteSet(1 .. Len(u.nodes)) /\ 1 .. Len(u.nodes) \subseteq Nat
    BY <2>1, FS_Interval
  <2>3. IsFiniteSet(S) /\ S \subseteq Nat
    BY <2>1, <2>2, FS_Subset
  <2>4. Tagged(u, type) = InOrder(S) /\ Tagged(u, type) \in Seq(NodeIds(u))
    BY <1>1, TaggedIsSeq DEF Tagged
  <2> HIDE DEF S
  <2>5. /\ IsInjective(InOrder(S)) /\ InOrder(S) \in [1 .. Cardinality(S) -> S]
        /\ \A x \in S : \E i \in 1 .. Cardinality(S) : InOrder(S)[i] = x
    BY <2>3, InOrderFacts
  <2>6. Range(InOrder(S)) = S
    BY <2>5 DEF Range
  <2> QED
    BY <2>4, <2>5, <2>6 DEF S
<1>4. /\ inputs \in Seq(NodeIds(u)) /\ consts \in Seq(NodeIds(u))
      /\ IsInjective(inputs) /\ IsInjective(consts)
      /\ Range(inputs) = {n \in NodeIds(u) : u.nodes[n].type = "Input"}
      /\ Range(consts) = {n \in NodeIds(u) : u.nodes[n].type = "Const"}
  BY <1>3
<1> HIDE DEF inputs, consts
<1>5. stack \in Seq(NodeIds(u)) /\ IsInjective(stack) /\ Range(stack) = SourcesOf(u)
  <2>1. Range(inputs) \cap Range(consts) = {}
    BY <1>4
  <2>2. Range(inputs) \cup Range(consts) = SourcesOf(u)
    BY <1>4 DEF SourcesOf, Sources
  <2>3. inputs \o consts \in Seq(NodeIds(u))
    BY <1>4, JoinedSeqs
  <2>4. Range(inputs \o consts) = Range(inputs) \cup Range(consts)
    BY <1>4, JoinedSeqs
  <2>5. IsInjective(inputs \o consts)
    BY <1>4, <2>1, JoinedSeqs
  <2> QED
    BY <2>2, <2>3, <2>4, <2>5
<1> HIDE DEF stack, s
<1>6. Range(s.order) = {} /\ IsInjective(s.order) /\ Len(s.order) = 0 /\ Ordered(u, s.order)
  <2>1. s.order = <<>> /\ DOMAIN <<>> = {} /\ Len(<<>>) = 0 /\ 1 .. 0 = {}
    BY <1>2
  <2> QED
    BY <2>1 DEF Range, IsInjective, Ordered
<1>7. Lowest(s.stack, SourcesOf(u))
  <2>1. \A i \in 1 .. Len(stack) : stack[i] \in SourcesOf(u)
    BY <1>5, RangeOf
  <2>2. Len(stack) \in Nat
    BY <1>5, SeqFacts
  <2>3. \A j \in 1 .. Len(stack) : \A i \in 1 .. j : i \in 1 .. Len(stack)
    BY <2>2
  <2> QED
    BY <1>2, <2>1, <2>3 DEF Lowest
<1>8. \A n \in SourcesOf(u) : Producers(u, n) = {}
  BY ProducersFeed DEF SourcesOf
<1>9. \A n \in NodeIds(u) \ SourcesOf(u) : Producers(u, n) # {}
  BY ProducersFeed
<1> QED
  BY <1>2, <1>5, <1>6, <1>7, <1>8, <1>9 DEF Searched, s

LEMMA PopSearched ==
  ASSUME NEW once, NEW u, Sound(once, u), NoDouble(u), NEW s, Searched(u, s), s.stack # <<>>
  PROVE  Searched(u, Pop(u, s)) /\ Len(Pop(u, s).order) = Len(s.order) + 1
<1> DEFINE n == Last(s.stack)
           f == Front(s.stack)
           visited == s.visited \cup {n}
           p == Pushed(u, n, visited)
           h == Pop(u, s)
           A == SourcesOf(u)
<1>1. /\ u \in Graphs /\ Agrees(u) /\ s \in Searches(u)
      /\ s.stack \in Seq(NodeIds(u)) /\ s.visited \subseteq NodeIds(u) /\ s.order \in Seq(NodeIds(u))
  BY DEF Sound, Searched, Searches
<1>2. /\ IsInjective(s.stack) /\ IsInjective(s.order) /\ Range(s.stack) \cap Range(s.order) = {}
      /\ s.visited = Range(s.order) \cup A /\ A \subseteq Range(s.order) \cup Range(s.stack)
      /\ Lowest(s.stack, A) /\ Ordered(u, s.order)
      /\ \A m \in Range(s.stack) : Producers(u, m) \subseteq s.visited
      /\ \A m \in NodeIds(u) \ A :
           Producers(u, m) \subseteq Range(s.order) => m \in Range(s.order) \cup Range(s.stack)
  BY DEF Searched
<1>3. /\ Len(s.stack) \in Nat \ {0} /\ f \in Seq(NodeIds(u)) /\ n \in NodeIds(u)
      /\ Len(f) = Len(s.stack) - 1 /\ \A i \in 1 .. Len(s.stack) - 1 : f[i] = s.stack[i]
      /\ n \in Range(s.stack) /\ Range(s.stack) = Range(f) \cup {n}
      /\ IsInjective(f) /\ n \notin Range(f) /\ n = s.stack[Len(s.stack)]
  BY <1>1, <1>2, Popped DEF Last
<1>4. h \in Searches(u) /\ h.stack = f \o p /\ h.visited = visited /\ h.order = Append(s.order, n)
  BY <1>1, PopSearches DEF Pop
<1> HIDE DEF n, f, h
<1>5. p \in Seq(NodeIds(u)) /\ IsInjective(p) /\ Range(p) = Ready(u, n, visited)
  BY <1>3, PushedReady
<1> HIDE DEF p
<1>6. \A m \in NodeIds(u) : m \in A <=> Producers(u, m) = {}
  BY ProducersFeed
<1> HIDE DEF A
<1>7. Range(p) \cap A = {}
  BY <1>5, <1>6 DEF Ready
<1>8. ASSUME NEW c \in Range(p), c \in Range(f) PROVE FALSE
  <2>1. n \in Producers(u, c) /\ c \in Range(s.stack) /\ c \in NodeIds(u)
    BY <1>3, <1>5, <1>8 DEF Ready
  <2>2. CASE n \in A
    <3>1. PICK i \in 1 .. Len(s.stack) : s.stack[i] = c
      BY <1>1, <2>1, RangeOf
    <3>2. Len(s.stack) \in 1 .. Len(s.stack)
      BY <1>3
    <3>3. c \in A
      BY <1>2, <1>3, <2>2, <3>1, <3>2 DEF Lowest
    <3> QED
      BY <1>7, <3>3
  <2>3. CASE n \notin A
    <3>1. n \in s.visited
      BY <1>2, <2>1
    <3> QED
      BY <1>2, <1>3, <2>3, <3>1
  <2> QED
    BY <2>2, <2>3
<1>9. IsInjective(h.stack) /\ Range(h.stack) = Range(f) \cup Range(p)
  <2>1. Range(f) \cap Range(p) = {}
    BY <1>8
  <2>2. Range(f \o p) = Range(f) \cup Range(p)
    BY <1>3, <1>5, JoinedSeqs
  <2>3. IsInjective(f \o p)
    BY <1>3, <1>5, <2>1, JoinedSeqs
  <2> QED
    BY <1>4, <2>2, <2>3
<1>10. /\ IsInjective(h.order) /\ Range(h.order) = Range(s.order) \cup {n}
       /\ Len(h.order) = Len(s.order) + 1 /\ Len(s.order) \in Nat
       /\ \A i \in 1 .. Len(s.order) : h.order[i] = s.order[i]
       /\ h.order[Len(s.order) + 1] = n
  <2>1. n \notin Range(s.order)
    BY <1>2, <1>3
  <2> QED
    BY <1>1, <1>2, <1>3, <1>4, <2>1, Appended
<1>11. Range(h.stack) \cap Range(h.order) = {}
  <2>1. \A c \in Range(p) : c \notin visited
    BY <1>5 DEF Ready
  <2> QED
    BY <1>2, <1>3, <1>9, <1>10, <2>1
<1>12. h.visited = Range(h.order) \cup A
  BY <1>2, <1>4, <1>10
<1>13. A \subseteq Range(h.order) \cup Range(h.stack)
  BY <1>2, <1>3, <1>9, <1>10
<1>14. Lowest(h.stack, A)
  <2>1. /\ Len(f) \in Nat /\ Len(p) \in Nat /\ Len(h.stack) = Len(f) + Len(p)
        /\ \A i \in 1 .. Len(f) + Len(p) : h.stack[i] = IF i <= Len(f) THEN f[i] ELSE p[i - Len(f)]
    <3>1. f \in Seq(NodeIds(u)) /\ p \in Seq(NodeIds(u))
      BY <1>3, <1>5
    <3>2. Len(f) \in Nat /\ Len(p) \in Nat
      BY <3>1, JoinedItems
    <3>3. Len(f \o p) = Len(f) + Len(p)
      BY <3>1, JoinedItems
    <3>4. \A i \in 1 .. Len(f) + Len(p) : (f \o p)[i] = IF i <= Len(f) THEN f[i] ELSE p[i - Len(f)]
      BY <3>1, JoinedItems
    <3> QED
      BY <1>4, <3>2, <3>3, <3>4
  <2>2. ASSUME NEW j \in 1 .. Len(f) + Len(p), h.stack[j] \in A, NEW i \in 1 .. j
        PROVE  h.stack[i] \in A
    <3>1. CASE j <= Len(f)
      <4>1. i \in 1 .. Len(f) + Len(p) /\ i <= Len(f) /\ i \in 1 .. Len(f) /\ j \in 1 .. Len(f)
        BY <2>1, <3>1
      <4>2. h.stack[i] = f[i] /\ h.stack[j] = f[j]
        BY <2>1, <4>1, <3>1
      <4>3. f[i] = s.stack[i] /\ f[j] = s.stack[j] /\ j \in 1 .. Len(s.stack)
        BY <1>3, <4>1
      <4> QED
        BY <1>2, <2>2, <4>2, <4>3 DEF Lowest
    <3>2. CASE ~ j <= Len(f)
      <4>1. j - Len(f) \in 1 .. Len(p) /\ h.stack[j] = p[j - Len(f)]
        BY <2>1, <3>2
      <4>2. h.stack[j] \in Range(p)
        BY <1>5, <4>1, RangeOf
      <4> QED
        BY <1>7, <2>2, <4>2
    <3> QED
      BY <3>1, <3>2
  <2> QED
    BY <2>1, <2>2 DEF Lowest
<1>15. \A m \in Range(h.stack) : Producers(u, m) \subseteq h.visited
  BY <1>2, <1>3, <1>4, <1>5, <1>9 DEF Ready
<1>16. ASSUME NEW m \in NodeIds(u) \ A, Producers(u, m) \subseteq Range(h.order)
       PROVE  m \in Range(h.order) \cup Range(h.stack)
  <2>1. CASE n \in Producers(u, m) /\ m \notin visited
    <3>1. Producers(u, m) \subseteq visited
      BY <1>4, <1>12, <1>16
    <3>2. m \in Ready(u, n, visited)
      BY <2>1, <3>1 DEF Ready
    <3> QED
      BY <1>5, <1>9, <3>2
  <2>2. CASE m \in visited
    BY <1>4, <1>12, <1>16, <2>2
  <2>3. CASE n \notin Producers(u, m)
    <3>1. Producers(u, m) \subseteq Range(s.order)
      BY <1>10, <1>16, <2>3
    <3> QED
      BY <1>2, <1>3, <1>9, <1>10, <3>1
  <2> QED
    BY <2>1, <2>2, <2>3
<1>17. Ordered(u, h.order)
  <2> DEFINE size == Len(s.order)
  <2>1. size \in Nat /\ Len(h.order) = size + 1 /\ h.order[size + 1] = n
        /\ \A i \in 1 .. size : h.order[i] = s.order[i]
    BY <1>10
  <2>2. \A i \in 1 .. size : \A q \in Producers(u, s.order[i]) :
           q \in A \/ \E j \in 1 .. i - 1 : s.order[j] = q
    BY <1>2 DEF Ordered, A
  <2>3. \A q \in Producers(u, n) : q \in A \/ \E j \in 1 .. size : s.order[j] = q
    <3>1. \A q \in Producers(u, n) : q \in A \/ q \in Range(s.order)
      BY <1>2, <1>3
    <3> QED
      BY <1>1, <3>1, RangeOf
  <2> HIDE DEF size
  <2>4. ASSUME NEW i \in 1 .. size + 1, NEW q \in Producers(u, h.order[i])
        PROVE  q \in A \/ \E j \in 1 .. i - 1 : h.order[j] = q
    <3>1. CASE i = size + 1
      <4>1. i - 1 = size
        BY <2>1, <3>1
      <4> QED
        BY <2>1, <2>3, <3>1, <4>1
    <3>2. CASE i # size + 1
      <4>1. i \in 1 .. size /\ \A j \in 1 .. i - 1 : j \in 1 .. size
        BY <2>1, <3>2
      <4> QED
        BY <2>1, <2>2, <4>1
    <3> QED
      BY <3>1, <3>2
  <2> QED
    BY <2>1, <2>4 DEF Ordered, A
<1>18. Searched(u, h)
  BY <1>4, <1>9, <1>10, <1>11, <1>12, <1>13, <1>14, <1>15, <1>16, <1>17 DEF Searched, A
<1> QED
  BY <1>10, <1>18 DEF h


\* What holds of the k-th state of dfs.
Counts(u, s, k) == Searched(u, s) /\ (s.stack # <<>> => Len(s.order) = k)

LEMMA StateCounts ==
  ASSUME NEW once, NEW u, Sound(once, u), NoDouble(u), NEW state, Visits(u, state)
  PROVE  \A k \in 0 .. Len(u.nodes) + Len(u.edges) : Counts(u, state[k], k)
<1> DEFINE n == Len(u.nodes) + Len(u.edges)
<1>1. /\ n \in Nat /\ state[0] = Start(u)
      /\ \A k \in 1 .. n :
           state[k] = IF state[k - 1].stack = <<>> THEN state[k - 1] ELSE Pop(u, state[k - 1])
  BY DEF Visits
<1> HIDE DEF n
<1>2. Counts(u, state[0], 0)
  BY <1>1, StartSearched DEF Counts
<1>3. ASSUME NEW k \in 1 .. n, Counts(u, state[k - 1], k - 1)
      PROVE  Counts(u, state[k], k)
  <2>1. CASE state[k - 1].stack = <<>>
    BY <1>1, <1>3, <2>1 DEF Counts
  <2>2. CASE state[k - 1].stack # <<>>
    <3>1. Searched(u, state[k - 1]) /\ Len(state[k - 1].order) = k - 1
      BY <1>3, <2>2 DEF Counts
    <3>2. Searched(u, Pop(u, state[k - 1])) /\ Len(Pop(u, state[k - 1]).order) = (k - 1) + 1
      BY <2>2, <3>1, PopSearched
    <3>3. (k - 1) + 1 = k
      BY <1>1
    <3> QED
      BY <1>1, <2>2, <3>2, <3>3 DEF Counts
  <2> QED
    BY <2>1, <2>2
<1> DEFINE T == {k \in 0 .. n : Counts(u, state[k], k)}
<1>4. 0 \in T
  BY <1>1, <1>2
<1>5. ASSUME NEW k \in 0 .. n - 1, k \in T PROVE k + 1 \in T
  <2>1. k + 1 \in 1 .. n /\ (k + 1) - 1 = k /\ k + 1 \in 0 .. n
    BY <1>1
  <2> QED
    BY <1>3, <1>5, <2>1
<1>6. \A k \in 0 .. n - 1 : k \in T => k + 1 \in T
  BY <1>5
<1>7. \A k \in T : Counts(u, state[k], k)
  OBVIOUS
<1> HIDE DEF T
<1>8. 0 .. n \subseteq T
  BY <1>1, <1>4, <1>6, UpTo
<1> QED
  BY <1>7, <1>8 DEF n

LEMMA FewNodes ==
  ASSUME NEW u \in Graphs, NEW seq \in Seq(NodeIds(u)), IsInjective(seq)
  PROVE  Len(seq) <= Len(u.nodes)
<1> DEFINE m == Len(seq)
           n == Len(u.nodes)
<1>1. m \in Nat /\ n \in Nat /\ DOMAIN seq = 1 .. m /\ NodeIds(u) \subseteq 1 .. n
      /\ \A i \in 1 .. m : seq[i] \in NodeIds(u)
  BY SeqFacts, GraphFacts
<1> HIDE DEF m, n
<1>2. IsFiniteSet(1 .. m) /\ Cardinality(1 .. m) = m /\ IsFiniteSet(1 .. n) /\ Cardinality(1 .. n) = n
  <2>1. 1 \in Int /\ m \in Int /\ n \in Int /\ (1 > m => m = 0) /\ (1 > n => n = 0)
        /\ m - 1 + 1 = m /\ n - 1 + 1 = n
    BY <1>1
  <2>2. /\ IsFiniteSet(1 .. m) /\ Cardinality(1 .. m) = IF 1 > m THEN 0 ELSE m - 1 + 1
        /\ IsFiniteSet(1 .. n) /\ Cardinality(1 .. n) = IF 1 > n THEN 0 ELSE n - 1 + 1
    BY <2>1, FS_Interval
  <2> QED
    BY <2>1, <2>2
<1>3. ASSUME n < m PROVE FALSE
  <2> DEFINE f == [i \in 1 .. m |-> seq[i]]
  <2>1. f \in [1 .. m -> 1 .. n]
    BY <1>1
  <2>2. \A i \in 1 .. m : f[i] = seq[i]
    OBVIOUS
  <2> HIDE DEF f
  <2>3. Cardinality(1 .. n) < Cardinality(1 .. m)
    BY <1>2, <1>3
  <2>4. \E x, y \in 1 .. m : x # y /\ f[x] = f[y]
    BY <1>2, <2>1, <2>3, FS_PigeonHole
  <2> QED
    BY <1>1, <2>2, <2>4 DEF IsInjective
<1> QED
  BY <1>1, <1>3 DEF m, n

\* dfs takes enough steps to empty its stack.
LEMMA DfsEnds ==
  ASSUME NEW once, NEW u, Sound(once, u), NoDouble(u)
  PROVE  \E s : Searched(u, s) /\ s.stack = <<>> /\ Dfs(u) = s.order
<1> DEFINE n == Len(u.nodes) + Len(u.edges)
<1>1. u \in Graphs /\ Agrees(u)
  BY DEF Sound
<1>2. PICK state : Visits(u, state)
  BY <1>1, DfsVisits
<1>3. n \in Nat /\ Dfs(u) = state[n].order
  BY <1>2 DEF Visits
<1>4. \A k \in 0 .. n : Counts(u, state[k], k)
  BY <1>2, StateCounts
<1>5. n >= Len(u.nodes)
  <2>1. Len(u.nodes) \in Nat /\ Len(u.edges) \in Nat
    BY <1>1, GraphFacts
  <2>2. \A a, b \in Nat : a + b >= a
    OBVIOUS
  <2> QED
    BY <2>1, <2>2
<1> DEFINE s == state[n]
<1>6. Searched(u, s) /\ (s.stack # <<>> => Len(s.order) = n)
  <2> HIDE DEF n
  <2>1. Counts(u, state[n], n)
    BY <1>3, <1>4
  <2> QED
    BY <2>1 DEF Counts
<1> HIDE DEF n, s
<1>7. ASSUME s.stack # <<>> PROVE FALSE
  <2>1. /\ s.stack \in Seq(NodeIds(u)) /\ s.order \in Seq(NodeIds(u)) /\ IsInjective(s.order)
        /\ Range(s.stack) \cap Range(s.order) = {}
    BY <1>6 DEF Searched, Searches
  <2> DEFINE c == Last(s.stack)
             longer == Append(s.order, c)
  <2>2. c \in NodeIds(u) /\ c \in Range(s.stack)
    BY <1>7, <2>1, Popped
  <2> HIDE DEF c
  <2>3. longer \in Seq(NodeIds(u)) /\ IsInjective(longer) /\ Len(longer) = n + 1
    BY <1>6, <1>7, <2>1, <2>2, Appended
  <2> HIDE DEF longer
  <2>4. n + 1 <= Len(u.nodes)
    BY <1>1, <2>3, FewNodes
  <2>5. Len(u.nodes) \in Nat
    BY <1>1, GraphFacts
  <2> QED
    BY <1>3, <1>5, <2>4, <2>5
<1> QED
  BY <1>3, <1>6, <1>7 DEF s

\* Every node has been visited when the stack is empty: of those that have not,
\* one of the lowest rank would be on it.
LEMMA AllVisited ==
  ASSUME NEW once, NEW u, Sound(once, u), NEW s, Searched(u, s), s.stack = <<>>
  PROVE  Range(s.order) = NodeIds(u)
<1>1. u \in Graphs /\ Agrees(u) /\ s.order \in Seq(NodeIds(u))
  BY DEF Sound, Searched, Searches
<1>2. Range(s.order) \subseteq NodeIds(u)
  BY <1>1, SeqFacts DEF Range
<1>3. Range(s.stack) = {}
  BY DEF Range
<1>4. PICK rank \in [Nat -> Nat] : IsRank(u, rank)
  BY DEF Sound
<1>5. \A n \in NodeIds(u) : n \in Nat /\ rank[n] \in Nat
  BY <1>1, <1>4, NodesAreNumbers
<1> DEFINE Missing == NodeIds(u) \ Range(s.order)
           Ranks == {rank[n] : n \in Missing}
<1>6. ASSUME Missing # {} PROVE FALSE
  <2>1. Ranks \subseteq Nat /\ Ranks # {}
    BY <1>5, <1>6
  <2>2. PICK x \in Ranks : \A y \in Ranks : x <= y
    <3> HIDE DEF Ranks
    <3> QED
      BY <2>1, SmallestNat
  <2>3. PICK n \in Missing : rank[n] = x
    BY <2>2
  <2>4. n \notin SourcesOf(u)
    BY <1>3, <2>3 DEF Searched
  <2>5. PICK p \in Producers(u, n) : p \notin Range(s.order)
    BY <1>3, <2>3, <2>4 DEF Searched
  <2>6. /\ p \in NodeIds(u) /\ \E i \in DOMAIN u.nodes[n].in : p = Feed(u, n, i)
    BY <2>3, <2>5, ProducersFeed
  <2>7. rank[p] < rank[n]
    BY <1>4, <2>3, <2>6 DEF IsRank
  <2>8. p \in Missing /\ rank[p] \in Ranks
    BY <2>5, <2>6
  <2>9. rank[n] <= rank[p] /\ rank[p] \in Nat /\ rank[n] \in Nat
    BY <1>5, <2>2, <2>3, <2>6, <2>8
  <2> QED
    BY <2>7, <2>9, SMTT(60)
<1> QED
  BY <1>2, <1>6

\* dfs visits every node once and after those that it reads.
LEMMA DfsOrders ==
  ASSUME NEW once, NEW u, Sound(once, u), NoDouble(u)
  PROVE  IsOrderOf(Dfs(u), u)
<1>1. PICK s : Searched(u, s) /\ s.stack = <<>> /\ Dfs(u) = s.order
  BY DfsEnds
<1>2. s.order \in Seq(NodeIds(u)) /\ IsInjective(s.order) /\ Ordered(u, s.order)
  BY <1>1 DEF Searched, Searches
<1>3. Range(s.order) = NodeIds(u)
  BY <1>1, AllVisited
<1>4. DOMAIN s.order = 1 .. Len(s.order)
  BY <1>2, SeqFacts
<1>5. \A p \in SourcesOf(u) : u.nodes[p].type \in {"Input", "Const"}
  BY DEF SourcesOf, Sources
<1> QED
  BY <1>1, <1>2, <1>3, <1>4, <1>5 DEF IsOrderOf, Ordered


LEMMA SortOrders ==
  ASSUME GraphSound, Sort
  PROVE  LayersInOrder'
<1>1. /\ pc = "sort" /\ order' = Dfs(g) /\ g' = g /\ source' = source
  BY DEF Sort
<1>2. ASSUME NoDoubleEdges(source) PROVE IsOrderOf(Dfs(g), g)
  <2>1. Sound(TRUE, g)
    BY <1>1, <1>2 DEF GraphSound
  <2>2. NoDouble(g)
    BY <2>1 DEF Sound
  <2> QED
    BY <2>1, <2>2, DfsOrders
<1> QED
  BY <1>1, <1>2 DEF LayersInOrder

\* A network in which no layer reads the same tensor twice is configured and
\* run in an order in which each node of what the passes made of it comes once,
\* and each layer after the layers that it reads (TopologicalSort.cpp,
\* GraphManager.cpp).
THEOREM LayersOrdered == Spec => []LayersInOrder
<1>1. Init => LayersInOrder
  BY DEF Init, LayersInOrder
<1>2. GraphSound /\ LayersInOrder /\ [Next]_vars => LayersInOrder'
  <2> SUFFICES ASSUME GraphSound, LayersInOrder, [Next]_vars PROVE LayersInOrder'
    OBVIOUS
  <2>1. CASE Sort
    BY <2>1, SortOrders
  <2>2. ASSUME NEW x \in Readable(g), NEW y \in Readable(g),
               \/ AddConvolution(x) \/ AddBatchNormalization(x) \/ AddActivation(x) \/ AddOutput(x)
               \/ AddElementwise(x, y) \/ AddConcatenate(x, y)
        PROVE  LayersInOrder'
    <3>1. pc' = "build"
      BY <2>2 DEF AddConvolution, AddBatchNormalization, AddWeighted, AddActivation, AddOutput,
                  AddElementwise, AddConcatenate, Build
    <3> QED
      BY <3>1 DEF LayersInOrder
  <2>3. CASE Finalize \/ FusionPass \/ InPlacePass \/ ConcatPass
    <3>1. pc' \in {"fusion", "in_place", "concat", "sort"}
      BY <2>3 DEF Finalize, FusionPass, InPlacePass, ConcatPass, Pass
    <3> QED
      BY <3>1 DEF LayersInOrder
  <2>4. CASE Configure \/ CallInputs \/ ExecuteTask \/ CallOutputs \/ UNCHANGED vars
    <3>1. /\ g' = g /\ source' = source /\ order' = order
          /\ pc' \in {"configure", "inputs", "tasks"} => pc \in {"configure", "inputs", "tasks"}
      BY <2>4 DEF Configure, CallInputs, ExecuteTask, CallOutputs, vars, run_vars
    <3> QED
      BY <3>1 DEF LayersInOrder
  <2> QED
    BY <2>1, <2>2, <2>3, <2>4 DEF Next
<1> QED
  BY <1>1, <1>2, GraphStaysSound, PTL DEF Spec

==============================================================================
