-------------------------------- MODULE Graph --------------------------------
(***************************************************************************)
(* The graph of a network (src/graph/Graph.cpp, INode.cpp, Edge.h,         *)
(* Tensor.cpp): three vectors of nodes, edges and tensors that point at    *)
(* each other by index, and the operations that keep them in step.         *)
(*                                                                         *)
(* A graph is one value, a record of three sequences, because a pass makes *)
(* many of these calls in one step.  Indices start at 1; 0 is EmptyEdgeID, *)
(* NullTensorID and the null handle.  Every node modelled has at most one  *)
(* output, so an edge has no producer index.                               *)
(***************************************************************************)
EXTENDS Integers, Sequences, FiniteSets, SequencesExt

NoNode == [type |-> "null"]
NoEdge == [producer |-> 0, consumer |-> 0, idx |-> 0, tensor |-> 0]

EmptyGraph == [nodes |-> <<>>, edges |-> <<>>, tensors |-> <<>>, handles |-> <<>>]

NodeIds(g)   == {n \in DOMAIN g.nodes : g.nodes[n] # NoNode}
EdgeIds(g)   == {e \in DOMAIN g.edges : g.edges[e] # NoEdge}
Producer(g, n, i) == g.edges[g.nodes[n].in[i]].producer
Producers(g, n)   == {Producer(g, n, i) : i \in DOMAIN g.nodes[n].in}
Input(g, n, i)    == g.edges[g.nodes[n].in[i]].tensor

\* Sets of ids iterate in order.
InOrder(S)        ==
  [i \in 1 .. Cardinality(S) |-> CHOOSE x \in S : Cardinality({y \in S : y < x}) = i - 1]
OutEdges(g, n)    == InOrder(g.nodes[n].out_edges)
Tagged(g, type)   == InOrder({n \in NodeIds(g) : g.nodes[n].type = type})

\* get_driving_nodes: who consumes the output of n, and at which input.
DrivingNodes(g, n) ==
  [k \in DOMAIN OutEdges(g, n) |->
     [node |-> g.edges[OutEdges(g, n)[k]].consumer,
      idx  |-> g.edges[OutEdges(g, n)[k]].idx]]

-----------------------------------------------------------------------------
\* create_tensor: no edge, no handle and no accessor yet.
NewTensor == [bound |-> {}, handle |-> 0, accessor |-> FALSE]

NoInputs == <<0, 0, 0>>    \* no node modelled has more

\* add_node: attributes are those of the layer; a tensor for its output.
AddNode(g, type, inputs, attributes) ==
  LET outputs == IF type = "Output" THEN 0 ELSE 1
      node == [type |-> type, in |-> SubSeq(NoInputs, 1, inputs),
               out |-> outputs * (Len(g.tensors) + 1), out_edges |-> {},
               attributes |-> attributes]
  IN  [g EXCEPT !.nodes = Append(@, node),
                !.tensors = IF outputs = 1 THEN Append(@, NewTensor) ELSE @]

\* a mutant: does not bind the tensor to the edge
AddConnectionUnbound(g, source, sink, idx) ==
  LET eid == Len(g.edges) + 1
  IN  [g EXCEPT !.edges = Append(@, [producer |-> source, consumer |-> sink, idx |-> idx,
                                     tensor |-> g.nodes[source].out]),
                !.nodes[source].out_edges = @ \cup {eid},
                !.nodes[sink].in[idx] = eid]

\* The sink's input is overwritten if it is occupied by another edge.
AddConnection(g, source, sink, idx) ==
  LET present == g.nodes[sink].in[idx]
      tid == g.nodes[source].out
      eid == Len(g.edges) + 1
  IN  IF present # 0 /\ g.edges[present].producer = source THEN g
      ELSE [g EXCEPT !.edges = Append(@, [producer |-> source, consumer |-> sink,
                                          idx |-> idx, tensor |-> tid]),
                     !.nodes[source].out_edges = @ \cup {eid},
                     !.nodes[sink].in[idx] = eid,
                     !.tensors[tid].bound = @ \cup {eid}]

\* a mutant: the tensor stays bound to the edge
RemoveConnectionBound(g, eid) ==
  IF eid \notin EdgeIds(g) THEN g
  ELSE LET e == g.edges[eid]
       IN  [g EXCEPT !.nodes[e.producer].out_edges = @ \ {eid},
                     !.nodes[e.consumer].in[e.idx] = 0,
                     !.edges[eid] = NoEdge]

RemoveConnection(g, eid) ==
  IF eid \notin EdgeIds(g) THEN g
  ELSE LET e == g.edges[eid]
       IN  [g EXCEPT !.tensors[e.tensor].bound = @ \ {eid},
                     !.nodes[e.producer].out_edges = @ \ {eid},
                     !.nodes[e.consumer].in[e.idx] = 0,
                     !.edges[eid] = NoEdge]

\* From each of sources to the input of n with its number.
ConnectInputs(g, n, sources) ==
  FoldLeftDomain(LAMBDA h, i : AddConnection(h, sources[i], n, i), g, sources)

RemoveNode(g, n) ==
  LET edges == g.nodes[n].in \o OutEdges(g, n)
  IN  [FoldLeft(RemoveConnection, g, edges) EXCEPT !.nodes[n] = NoNode]

\* set_output_tensor: the output of n, and its edges, move to tensor tid.
SetOutputTensor(g, n, tid) ==
  LET old == g.nodes[n].out
      rebind(h, e) == [h EXCEPT !.edges[e].tensor = tid,
                                !.tensors[tid].bound = @ \cup {e}]
  IN  FoldLeft(rebind, [g EXCEPT !.nodes[n].out = tid,
                                 !.tensors[old].bound = @ \ g.nodes[n].out_edges],
               OutEdges(g, n))

\* create_tensor of a backend: a handle with memory of its own.
ConfigureTensor(g, t) ==
  IF g.tensors[t].handle # 0 THEN g
  ELSE [g EXCEPT !.handles = Append(@, [parent |-> 0, part |-> 0]),
                 !.tensors[t].handle = Len(g.handles) + 1]

\* create_subtensor and set_handle: t becomes a part of what another handle is.
SubTensor(g, t, parent, part) ==
  [g EXCEPT !.handles = Append(@, [parent |-> parent, part |-> part]),
            !.tensors[t].handle = Len(g.handles) + 1]

\* a mutant: the handle itself
ParentHandleOwn(g, h) == h

\* parent_handle: the handle with the memory that h is a part of.
ParentHandle(g, h) ==
  LET up[k \in 0 .. h] == IF k = 0 \/ g.handles[k].parent = 0 THEN k
                         ELSE up[g.handles[k].parent]
  IN  up[h]

-----------------------------------------------------------------------------
\* The two ends of an edge, the edge and its tensor name each other, and no
\* edge of any kind is left that only one of them knows.
Agrees(g) ==
  /\ \A e \in EdgeIds(g) :
       LET edge == g.edges[e]
       IN  /\ {edge.producer, edge.consumer} \subseteq NodeIds(g)
           /\ e \in g.nodes[edge.producer].out_edges
           /\ edge.idx \in DOMAIN g.nodes[edge.consumer].in
           /\ g.nodes[edge.consumer].in[edge.idx] = e
           /\ edge.tensor = g.nodes[edge.producer].out
  /\ \A n \in NodeIds(g) :
       /\ \A i \in DOMAIN g.nodes[n].in :
            LET e == g.nodes[n].in[i]
            IN  e # 0 => e \in EdgeIds(g) /\ g.edges[e].consumer = n /\ g.edges[e].idx = i
       /\ \A e \in g.nodes[n].out_edges : e \in EdgeIds(g) /\ g.edges[e].producer = n
  /\ \A t \in DOMAIN g.tensors :
       g.tensors[t].bound = {e \in EdgeIds(g) : g.edges[e].tensor = t}
=============================================================================
