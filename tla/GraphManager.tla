---------------------------- MODULE GraphManager ----------------------------
(***************************************************************************)
(* The life of one graph: the layers of a network are added                *)
(* (GraphBuilder.cpp), finalize_graph (GraphManager.cpp) rewrites, orders  *)
(* and configures it, execute_graph runs it again and again.               *)
(*                                                                         *)
(* What a task computes is a term, <<layer, inputs>>; what a tensor holds  *)
(* is the term last written there.  `source` is the graph as it was built; *)
(* what the running graph puts out is compared with it.                    *)
(***************************************************************************)
EXTENDS GraphMutators, Workload

CONSTANTS
  MaxLayers,   \* layers of a network (a bound)
  Limit,       \* how many layers of each type it has (a bound)
  Targets      \* what it can be finalized for

ASSUME GraphManagerAssumption ==
  /\ MaxLayers \in Nat /\ Targets \subseteq {"NEON", "CL"}
  /\ Limit \in [{"ConvolutionLayer", "BatchNormalizationLayer",
                 "ActivationLayer", "EltwiseLayer", "ConcatenateLayer"} -> Nat]

VARIABLES
  pc,        \* "build", the pass or the part of finalize_graph that is next,
             \* then "inputs" and "tasks" of execute_graph
  g,         \* the graph
  source,    \* g before the first pass
  target,
  order,     \* topological_sorted_nodes
  tasks,     \* workload.tasks, as nodes
  t,         \* the next task
  contents   \* what each handle with memory of its own holds

vars == <<pc, g, source, target, order, tasks, t, contents>>
run_vars == <<source, target, order, tasks, t, contents>>

Sources == {"Input", "Const"}
Garbage == <<-1>>

Attributes(n, fusible, deep) ==
  [computes |-> <<n>>, act |-> 0, fusible |-> fusible, deep |-> deep, enabled |-> TRUE]

\* A node that computes itself, with its inputs connected in order.
AddLayer(h, type, inputs, fusible, deep) ==
  LET n == Len(h.nodes) + 1
  IN  ConnectInputs(AddNode(h, type, Len(inputs), Attributes(n, fusible, deep)), n, inputs)

\* set_accessor_on_node
WithAccessor(h, tid) == [h EXCEPT !.tensors[tid].accessor = TRUE]

AddSource(h, type) == WithAccessor(AddLayer(h, type, <<>>, FALSE, FALSE), Len(h.tensors) + 1)

Init ==
  /\ pc = "build" /\ g = AddSource(EmptyGraph, "Input")
  /\ source = EmptyGraph /\ target = "NEON"
  /\ order = <<>> /\ tasks = <<>> /\ t = 1 /\ contents = <<>>

-----------------------------------------------------------------------------
(* GraphBuilder                                                            *)

Layers(h) == {n \in NodeIds(h) : h.nodes[n].type \notin Sources}
Readable(h) == {n \in NodeIds(h) : h.nodes[n].type \notin {"Const", "Output"}}
Unread(h) == {n \in Readable(h) : h.nodes[n].out_edges = {}}

\* How many channels n has, in units of those of a convolution: a
\* concatenation has those of both inputs, and an addition needs equal ones.
Depth(h) ==
  LET depth[n \in DOMAIN h.nodes] ==
        LET node == h.nodes[n]
        IN  IF node.type \in {"Input", "Const", "ConvolutionLayer"} THEN 1
            ELSE LET first == depth[Producer(h, n, 1)]
                 IN  IF node.type = "ConcatenateLayer" THEN first + depth[Producer(h, n, 2)]
                     ELSE first
  IN  depth

\* Every layer that is to be added can take one unread output away.
CanFinish(h) == Cardinality(Unread(h)) <= MaxLayers - Cardinality(Layers(h))

Build(type, h) ==
  /\ pc = "build"
  /\ type \in DOMAIN Limit =>
       Cardinality({n \in Layers(g) : g.nodes[n].type = type}) < Limit[type]
  /\ CanFinish(h)
  /\ g' = h
  /\ UNCHANGED <<pc, run_vars>>

AddWeighted(type, x) ==
  LET weighted == AddSource(g, "Const")
  IN  Build(type, AddLayer(weighted, type, <<x, Len(weighted.nodes)>>, FALSE, FALSE))

AddConvolution(x)        == AddWeighted("ConvolutionLayer", x)
AddBatchNormalization(x) == AddWeighted("BatchNormalizationLayer", x)

AddActivation(x) ==
  \E fusible \in BOOLEAN :
     Build("ActivationLayer", AddLayer(g, "ActivationLayer", <<x>>, fusible, FALSE))

AddElementwise(x, y) ==
  /\ Depth(g)[x] = Depth(g)[y]
  /\ Build("EltwiseLayer", AddLayer(g, "EltwiseLayer", <<x, y>>, FALSE, FALSE))

AddConcatenate(x, y) ==
  \E deep \in BOOLEAN :
     Build("ConcatenateLayer", AddLayer(g, "ConcatenateLayer", <<x, y>>, FALSE, deep))

AddOutput(x) ==
  Build("Output", WithAccessor(AddLayer(g, "Output", <<x>>, FALSE, FALSE), g.nodes[x].out))

-----------------------------------------------------------------------------
(* finalize_graph                                                          *)

Finalize ==
  /\ pc = "build" /\ Unread(g) = {}
  /\ source' = g
  /\ target' \in Targets
  /\ g' = FoldLeftDomain(ConfigureTensor, g, g.tensors)
  /\ pc' = "fusion"
  /\ UNCHANGED <<order, tasks, t, contents>>

Pass(from, to, h) ==
  /\ pc = from /\ pc' = to /\ g' = h
  /\ UNCHANGED run_vars

FusionPass  == \E last \in LastVisited(g, target) :
                 Pass("fusion", "in_place", NodeFusion(g, target, last))
InPlacePass == Pass("in_place", "concat", InPlaceOperation(g))
ConcatPass  == Pass("concat", "sort", DepthConcatSubTensor(g))

Sort ==
  /\ pc = "sort" /\ pc' = "configure"
  /\ order' = Dfs(g)
  /\ UNCHANGED <<g, source, target, tasks, t, contents>>

\* The term for what node n of h computes from what it reads.
Term(h, n, reads) ==
  LET node == h.nodes[n]
      computes == node.attributes.computes
      plain == CASE node.type = "ConcatenateLayer" -> <<0>> \o reads
                 [] node.type = "FusedConvolutionBatchNormalizationLayer" ->
                      <<computes[2], <<computes[1], reads[1], reads[2]>>, reads[3]>>
                 [] OTHER -> computes \o reads
  IN  IF node.attributes.act = 0 THEN plain ELSE <<node.attributes.act, plain>>

\* What a handle holds: a part of what its parent holds, if that still is a
\* concatenation.  A handle whose parent was replaced points nowhere.
Current(h) == {h.tensors[i].handle : i \in DOMAIN h.tensors}
PartOf(term, part) == IF Len(term) = 3 /\ term[1] = 0 THEN term[part + 1] ELSE Garbage

Holds(h, memory, k) ==
  LET holds[j \in DOMAIN h.handles] ==
        LET handle == h.handles[j]
        IN  CASE handle.parent = 0 -> memory[j]
              [] handle.parent \in Current(h) -> PartOf(holds[handle.parent], handle.part)
              [] OTHER -> Garbage
  IN  holds[k]

\* Handle k and all that it is a part of, which hold more than it once term is
\* written there.  Nothing is written if one of these points nowhere.
Write(h, memory, k, term) ==
  LET up[j \in 0 .. k] == IF j = 0 THEN {} ELSE {j} \cup up[h.handles[j].parent]
      below(j) == CHOOSE part \in up[k] : h.handles[part].parent = j
      whole(j) == LET old == Holds(h, memory, j)
                  IN  IF Len(old) = 3 /\ old[1] = 0 THEN old ELSE <<0, Garbage, Garbage>>
      new[j \in up[k]] ==
        IF j = k THEN term
        ELSE [whole(j) EXCEPT ![h.handles[below(j)].part + 1] = new[below(j)]]
      top == ParentHandle(h, k)
  IN  IF up[k] \ {k} \subseteq Current(h) THEN [memory EXCEPT ![top] = new[top]] ELSE memory

OutHandle(h, n) == h.tensors[h.nodes[n].out].handle
InHandle(h, n, i) == h.tensors[Input(h, n, i)].handle
Reads(h, n, memory) == [i \in DOMAIN h.nodes[n].in |-> Holds(h, memory, InHandle(h, n, i))]

Runs(memory, nodes) ==
  FoldLeft(LAMBDA m, n : Write(g, m, OutHandle(g, n), Term(g, n, Reads(g, n, m))),
           memory, nodes)

\* configure_all_nodes; call_all_const_node_accessors fills the constants.
HasTask(n) == /\ g.nodes[n].type \notin {"Input", "Const", "Output"}
              /\ g.nodes[n].attributes.enabled

Configure ==
  /\ pc = "configure" /\ pc' = "inputs"
  /\ tasks' = SelectSeq(order, HasTask)
  /\ contents' = Runs([k \in DOMAIN g.handles |-> Garbage], Tagged(g, "Const"))
  /\ UNCHANGED <<g, source, target, order, t>>

(* execute_graph                                                           *)

CallInputs ==
  /\ pc = "inputs" /\ pc' = "tasks"
  /\ contents' = Runs(contents, Tagged(g, "Input"))
  /\ t' = 1
  /\ UNCHANGED <<g, source, target, order, tasks>>

ExecuteTask ==
  /\ pc = "tasks" /\ t <= Len(tasks)
  /\ contents' = Runs(contents, <<tasks[t]>>)
  /\ t' = t + 1
  /\ UNCHANGED <<pc, g, source, target, order, tasks>>

\* call_all_output_node_accessors, and the next round.
CallOutputs ==
  /\ pc = "tasks" /\ t > Len(tasks) /\ pc' = "inputs"
  /\ UNCHANGED <<g, run_vars>>

-----------------------------------------------------------------------------
Next ==
  \/ \E x \in Readable(g) :
       \/ AddConvolution(x) \/ AddBatchNormalization(x) \/ AddActivation(x) \/ AddOutput(x)
       \/ \E y \in Readable(g) : AddElementwise(x, y) \/ AddConcatenate(x, y)
  \/ Finalize \/ FusionPass \/ InPlacePass \/ ConcatPass \/ Sort \/ Configure
  \/ CallInputs \/ ExecuteTask \/ CallOutputs

Spec == Init /\ [][Next]_vars

-----------------------------------------------------------------------------
(* Properties                                                              *)

\* Whatever layers are added and whatever passes rewrite them, both ends of an
\* edge, the edge and its tensor agree (Graph.cpp, INode.cpp).
EndsAgree == Agrees(g)

\* A network in which no layer reads the same tensor twice is configured, and
\* so run, in an order in which each layer comes once and after the layers that
\* it reads (TopologicalSort.cpp).
LayersInOrder ==
  pc \in {"configure", "inputs", "tasks"} /\ NoDoubleEdges(source) => IsOrderOf(order, g)

\* The handles of const tensors (get_const_handles) and of the tensors that are
\* allocated as const ones (allocate_const_tensors): they differ if such a
\* tensor was made a part of another one.
ConstTensors(h) ==
  UNION {{Input(h, n, i) : i \in DOMAIN h.nodes[n].in} :
           n \in {m \in NodeIds(h) : h.nodes[m].type = "Output"}}
  \cup {h.nodes[n].out : n \in {m \in NodeIds(h) : h.nodes[m].type \in Sources}}
Parent(h, x) == ParentHandle(h, h.tensors[x].handle)
ConstHandles(h) == {Parent(h, x) : x \in ConstTensors(h)}
Allocated(h) == {h.tensors[x].handle : x \in ConstTensors(h)}

\* get_transition_handles: what task n reads and writes.
NotConst(h, handles) == SelectSeq(handles, LAMBDA k : k \notin ConstHandles(h))
TransitionHandles(h, n) ==
  [ins  |-> NotConst(h, [i \in DOMAIN h.nodes[n].in |-> Parent(h, Input(h, n, i))]),
   outs |-> NotConst(h, <<Parent(h, h.nodes[n].out)>>)]
Workload == [k \in DOMAIN tasks |-> TransitionHandles(g, tasks[k])]

\* A concatenation along the depth is the only layer that reads its inputs, and
\* none of them is the network's.  (Its inputs become parts of its output: with
\* two such concatenations only of the last one's, with an input node never
\* allocated, and overwritten by whoever overwrites the output in place.)
OwnsInputs(h) ==
  \A n \in NodeIds(h) : h.nodes[n].type = "ConcatenateLayer" /\ h.nodes[n].attributes.deep =>
    \A p \in Producers(h, n) :
      h.nodes[p].type # "Input" /\ Cardinality(h.nodes[p].out_edges) = 1

\* No activation stands between a convolution and a batch normalisation.  (The
\* fusion of the two would drop an activation that the convolution has.)
ActivationsLast(h) ==
  \A n \in NodeIds(h) : h.nodes[n].type = "BatchNormalizationLayer" =>
    h.nodes[Producer(h, n, 1)].type # "ActivationLayer"

Plain(h) == NoDoubleEdges(h) /\ OwnsInputs(h) /\ ActivationsLast(h)

\* In such a network every task reads what an earlier task has written and
\* writes what a later one reads, which is what the transition manager needs
\* (configure_handle_lifetime), and what is no transition tensor is allocated
\* as a const one (allocate_const_tensors).
TasksHaveMemory ==
  pc \in {"inputs", "tasks"} /\ Plain(source) =>
    /\ WellFormed(Workload)
    /\ ConstHandles(g) \subseteq Allocated(g)

\* What node n of the graph as built puts out.
Value(h) ==
  LET value[n \in DOMAIN h.nodes] ==
        Term(h, n, [i \in DOMAIN h.nodes[n].in |-> value[Producer(h, n, i)]])
  IN  value

\* Each round puts out what the network as built computes, at tensors that still
\* have the accessors of the outputs, whatever was fused, done in place or
\* made a sub-tensor.
ValuesPreserved ==
  pc = "tasks" /\ t > Len(tasks) /\ Plain(source) =>
    \A n \in NodeIds(source) : source.nodes[n].type = "Output" =>
      /\ Holds(g, contents, InHandle(g, n, 1)) = Value(source)[Producer(source, n, 1)]
      /\ g.tensors[Input(g, n, 1)].accessor
=============================================================================
