---------------------------- MODULE GraphMutators ----------------------------
(***************************************************************************)
(* The passes that rewrite a graph once its tensors have handles           *)
(* (src/graph/mutators): fusion of activations and of batch normalisation  *)
(* into the layer before, operations in place, concatenation by            *)
(* sub-tensors.                                                            *)
(*                                                                         *)
(* Data are floats, so that quantisation never stands in the way.          *)
(*                                                                         *)
(* attributes.computes lists the layers of the network that a node stands  *)
(* for, attributes.act is the one activation fused into it (0 if none),    *)
(* attributes.fusible says that an activation is of a supported kind,      *)
(* attributes.deep that a concatenation is along the depth, and .enabled   *)
(* that the node has something to do.  The                                 *)
(* weights and biases of a layer are one const input, the last.            *)
(***************************************************************************)
EXTENDS TopologicalSort

Accessor(g, n) == g.tensors[g.nodes[n].out].accessor

\* extract_accessor and set_accessor: n's output gets the accessor that the
\* output of m had, or none.
MoveAccessor(g, accessor, n) == [g EXCEPT !.tensors[g.nodes[n].out].accessor = accessor]

\* a mutant: the accessor of the removed activation is lost
FuseActivationNoAccessor(g, n, act) ==
  IF Accessor(g, n) \/ ~ g.nodes[act].attributes.fusible THEN g
  ELSE LET connect(h, d) == AddConnection(h, n, d.node, d.idx)
           fused == [g EXCEPT !.nodes[n].attributes.act = act]
       IN  FoldLeft(connect, RemoveNode(fused, act), DrivingNodes(g, act))

\* fuse_node_with_activation.  The node has one place for an activation.
FuseActivation(g, n, act) ==
  IF Accessor(g, n) \/ ~ g.nodes[act].attributes.fusible THEN g
  ELSE LET connect(h, d) == AddConnection(h, n, d.node, d.idx)
           fused == [g EXCEPT !.nodes[n].attributes.act = act,
                              !.tensors[g.nodes[act].out].accessor = FALSE]
           joined == FoldLeft(connect, RemoveNode(fused, act), DrivingNodes(g, act))
       IN  MoveAccessor(joined, Accessor(g, act), n)

\* fuse_convolution_with_batch_normalization (convolutions with one group):
\* a new node takes the inputs of both, and the activation of the second.
FuseBatchNormalization(g, conv, bn) ==
  IF Accessor(g, conv) THEN g
  ELSE
    LET attributes == [g.nodes[bn].attributes EXCEPT
                         !.computes = g.nodes[conv].attributes.computes \o @]
        fused_id == Len(g.nodes) + 1
        added == AddNode(g, "FusedConvolutionBatchNormalizationLayer", 3, attributes)
        inputs == <<Producer(g, conv, 1), Producer(g, conv, 2), Producer(g, bn, 2)>>
        fed == ConnectInputs(added, fused_id, inputs)
        drive(h, d) == ConfigureTensor(AddConnection(h, fused_id, d.node, d.idx),
                                       h.nodes[fused_id].out)
        without_bn == RemoveNode([fed EXCEPT !.tensors[g.nodes[bn].out].accessor = FALSE], bn)
        driven == FoldLeft(drive, without_bn, DrivingNodes(g, bn))
    IN  RemoveNode(MoveAccessor(driven, Accessor(g, bn), fused_id), conv)

\* fuse_layer: every node of type N1, up to the one numbered last, whose one
\* consumer is of type N2.
FuseLayer(g, N1, N2, last, fuse(_, _, _)) ==
  LET visit(h, n) ==
        IF n <= last /\ h.nodes[n].type = N1 /\ Cardinality(h.nodes[n].out_edges) = 1
        THEN LET next == h.edges[OutEdges(h, n)[1]].consumer
             IN  IF h.nodes[next].type = N2 THEN fuse(h, n, next) ELSE h
        ELSE h
  IN  FoldLeftDomain(visit, g, g.nodes)

\* NodeFusionMutator::mutate.  Additions take an activation only on the GPU.
NodeFusion(g, target, last) ==
  LET fused(h, type) ==
        FuseLayer(h, type, "ActivationLayer", Len(h.nodes), FuseActivation)
      conv_act == fused(fused(g, "BatchNormalizationLayer"), "ConvolutionLayer")
      elt_act  == IF target = "CL" THEN fused(conv_act, "EltwiseLayer") ELSE conv_act
  IN  FuseLayer(elt_act, "ConvolutionLayer", "BatchNormalizationLayer", last,
                FuseBatchNormalization)

\* The last loop adds a node to the vector that it goes through.  If the nodes
\* are moved for that, it goes on in the old vector, where it finds none.
LastVisited(g, target) ==
  {Len(g.nodes)} \cup
    {n \in Range(Tagged(g, "ConvolutionLayer")) : NodeFusion(g, target, n).nodes[n] = NoNode}

-----------------------------------------------------------------------------
InPlaceNodes == {"ActivationLayer", "BatchNormalizationLayer", "EltwiseLayer"}

\* a mutant: who else reads the tensor does not matter
OutputEdgesAreSeparateAlways(g, e) == TRUE

\* output_edges_are_separate_tensors: no other edge of the producer of e has
\* its tensor.
OutputEdgesAreSeparate(g, e) ==
  \A other \in g.nodes[g.edges[e].producer].out_edges \ {e} :
     g.edges[other].tensor # g.edges[e].tensor

\* InPlaceOperationMutator::mutate.
InPlaceOperation(g) ==
  LET visit(h, n) ==
        IF h.nodes[n].type \notin InPlaceNodes THEN h
        ELSE LET e == h.nodes[n].in[1]
                 tid == h.edges[e].tensor
                 extracted == [h EXCEPT !.tensors[h.nodes[n].out].accessor = FALSE,
                                        !.tensors[tid].accessor = Accessor(h, n)]
             IN  IF OutputEdgesAreSeparate(h, e) /\ ~ h.tensors[tid].accessor
                 THEN SetOutputTensor(extracted, n, tid)
                 ELSE h
  IN  FoldLeftDomain(visit, g, g.nodes)

-----------------------------------------------------------------------------
\* DepthConcatSubTensorMutator::mutate: last concatenation first, each input
\* of one becomes a part of its output, and the node has nothing left to do.
DepthConcatSubTensor(g) ==
  LET visit(h, n) ==
        IF h.nodes[n].type # "ConcatenateLayer" \/ ~ h.nodes[n].attributes.deep THEN h
        ELSE LET parent == h.tensors[h.nodes[n].out].handle
                 part(k, i) == SubTensor(k, Input(h, n, i), parent, i)
             IN  [FoldLeftDomain(part, h, h.nodes[n].in)
                    EXCEPT !.nodes[n].attributes.enabled = FALSE]
  IN  FoldLeft(visit, g, Reverse(Dfs(g)))
=============================================================================
