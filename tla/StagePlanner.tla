---------------------------- MODULE StagePlanner ----------------------------
(***************************************************************************)
(* How do_setup of graph_alexnet_n_pipe.cpp turns --order, one letter for  *)
(* each layer of the network, into the stages of the pipeline: it parses   *)
(* the letters into stages, adds the layers one by one to the stage they   *)
(* belong to, and Attach_Layer, after each layer, closes the stage when    *)
(* the next layer belongs to another and opens that one.  A stage is       *)
(* linked to the one before it by a sender and a receiver that must agree  *)
(* on an index into four global vectors; a '-' layer goes to dump_graph,   *)
(* which never runs, and leaves a cut.                                     *)
(***************************************************************************)
EXTENDS Integers, Sequences, FiniteSets

CONSTANTS
  NumLayers,  \* of the network: calls of Attach_Layer
  Orders      \* the values of --order considered

Letters == {"B", "L", "G", "-"}

\* An order that starts with '-' reads classes[-1]; one longer than the
\* network leaves its last stage open.  Neither is modelled.
ASSUME PlannerAssumption ==
  /\ NumLayers \in Nat \ {0}
  /\ \A o \in Orders : /\ o \in Seq(Letters) /\ Len(o) \in 1 .. NumLayers
                       /\ o[1] # "-"

VARIABLES
  order, lbl,    \* --order; --labels, "" or "file"
  pc,
  gr_layer,      \* the graph of each letter parsed so far
  classes,       \* the cluster of each stage: 0 little, 1 big, 2 GPU
  g,
  Layer, start_Layer,
  sub_graph,     \* the graph that takes the next layer
  core,          \* the cluster whose core the thread is pinned to
  image, labels, \* common_params, by which the accessors are chosen
  placed,        \* the graph each layer was added to
  stage_in, stage_out,      \* the accessors of each stage
  Transmitters, Receivers,  \* the stages whose output, input tensor they hold
  mx,            \* how many mutexes, buffers and queues there are
  finalized      \* the stages finalized: how, and with which layers

parsed == <<order, lbl, gr_layer, classes, g>>
accessors == <<image, labels, stage_in, stage_out>>
links == <<Transmitters, Receivers, mx>>
vars == <<parsed, pc, Layer, start_Layer, sub_graph, core, accessors, placed,
          links, finalized>>

Dump == -1
Cluster == [B |-> 1, L |-> 0, G |-> 2]
GPU == 2
Unpinned == -1
Class(s) == classes[s + 1]
\* gr_layer is a map, whose [] makes a missing entry 0.
GraphOf(k) == IF k < Len(gr_layer) THEN gr_layer[k + 1] ELSE 0

Input == [kind |-> "input", link |-> 0, copies |-> FALSE]
Dummy == [kind |-> "dummy", link |-> 0, copies |-> FALSE]
Result == [kind |-> "result", link |-> 0, copies |-> FALSE]
Receiver(l, c) == [kind |-> "receiver", link |-> l, copies |-> c]
Sender(l, c) == [kind |-> "sender", link |-> l, copies |-> c]

Init ==
  /\ order \in Orders
  /\ lbl \in {"", "file"}
  /\ pc = "parse"
  /\ gr_layer = <<>> /\ classes = <<>> /\ g = 0
  /\ Layer = 0 /\ start_Layer = 0
  /\ sub_graph = Dump
  /\ core = Unpinned
  /\ image = "file" /\ labels = lbl
  /\ placed = <<>> /\ stage_in = <<>> /\ stage_out = <<>>
  /\ Transmitters = <<>> /\ Receivers = <<>> /\ mx = 0
  /\ finalized = <<>>

(***************************************************************************)
(* The letters, from the first to the last.                                *)
(***************************************************************************)
Letter(k) == order[k + 1]
i == Len(gr_layer)
Parsing == pc = "parse" /\ i < Len(order)
NewRun == i > 0 => Letter(i) # Letter(i - 1)

OneTooMany == Len(classes) + 1                            \* a mutant
StageId == Len(classes)            \* graphs.size() - 1, once pushed

KeepG == g                                                \* a mutant
NewG == Len(classes)

ParseNewStage ==
  /\ Parsing /\ NewRun /\ Letter(i) # "-"
  /\ classes' = Append(classes, Cluster[Letter(i)])
  /\ gr_layer' = Append(gr_layer, StageId)
  /\ g' = NewG
  /\ UNCHANGED <<order, lbl, pc, Layer, start_Layer, sub_graph, core,
                 accessors, placed, links, finalized>>

ParseSameStage ==
  /\ Parsing /\ ~NewRun /\ Letter(i) # "-"
  /\ gr_layer' = Append(gr_layer, g)
  /\ UNCHANGED <<order, lbl, classes, g, pc, Layer, start_Layer, sub_graph,
                 core, accessors, placed, links, finalized>>

ParseDump ==
  /\ Parsing /\ Letter(i) = "-"
  /\ gr_layer' = Append(gr_layer, Dump)
  /\ UNCHANGED <<order, lbl, classes, g, pc, Layer, start_Layer, sub_graph,
                 core, accessors, placed, links, finalized>>

\* The thread pins itself to the first stage's core and gives it its input.
OpenFirst ==
  /\ pc = "parse" /\ i = Len(order)
  /\ pc' = "layers"
  /\ core' = Class(GraphOf(0))
  /\ sub_graph' = GraphOf(0)
  /\ stage_in' = <<Input>>
  /\ UNCHANGED <<parsed, Layer, start_Layer, image, labels, stage_out, placed,
                 links, finalized>>

(***************************************************************************)
(* A layer is added to the current graph, then Attach_Layer.               *)
(***************************************************************************)
This == GraphOf(Layer)
Following == GraphOf(Layer + 1)
LastLetter == Layer + 1 = Len(order)

AddLayer ==
  /\ pc = "layers"
  /\ placed' = Append(placed, sub_graph)
  /\ Layer' = Layer + 1
  /\ pc' = IF Layer + 1 = NumLayers THEN "done" ELSE pc

LabelsAsLeft == labels                                    \* a mutant
LabelsRestored == lbl

\* get_output_accessor, in the graph of the network's last layer.
WriteResults ==
  IF Layer + 1 = NumLayers
  THEN /\ labels' = LabelsRestored
       /\ stage_out' = IF sub_graph = Dump THEN stage_out
                       ELSE Append(stage_out, IF labels' = "" THEN Dummy
                                              ELSE Result)
  ELSE UNCHANGED <<labels, stage_out>>

SameGraph ==
  /\ AddLayer
  /\ ~LastLetter /\ This = Following
  /\ WriteResults
  /\ UNCHANGED <<parsed, start_Layer, sub_graph, core, image, stage_in, links,
                 finalized>>

AnyStage(s) == s > 0                                      \* a mutant
HasReceiver(s) == s > 0 /\ image # ""

Finalize(s) ==
  /\ finalized' = Append(finalized,
       [stage |-> s, cluster |-> Class(s), core |-> core,
        first |-> start_Layer, last |-> Layer])
  /\ Receivers' = IF HasReceiver(s) THEN Append(Receivers, s) ELSE Receivers

KeepStart == start_Layer                                  \* a mutant
NextStart == Layer + 1

KeepCore(s) == core                                       \* a mutant
PinTo(s) == Class(s)

ImageOfNext == IF Class(Following) = GPU                  \* a mutant
               THEN "transfer_wait" ELSE "transfer"
ImageOfLinked == IF Class(This) = GPU THEN "transfer_wait" ELSE "transfer"

NextDestination == Len(Transmitters) + 2                  \* a mutant
Destination == Len(Transmitters) + 1

StageToStage ==
  /\ AddLayer
  /\ ~LastLetter /\ This # Following /\ This # Dump /\ Following # Dump
  /\ labels' = IF Class(This) = GPU THEN "transfer" ELSE "transfer_wait"
  /\ stage_out' = Append(stage_out, Sender(Destination - 1,
                                           labels' = "transfer"))
  /\ Finalize(This)
  /\ Transmitters' = Append(Transmitters, This)
  /\ sub_graph' = Following
  /\ image' = ImageOfLinked
  /\ stage_in' = Append(stage_in, Receiver(Len(Transmitters') - 1,
                                           image' = "transfer"))
  /\ mx' = mx + 1
  /\ core' = PinTo(Following)
  /\ start_Layer' = NextStart
  /\ UNCHANGED <<parsed>>

StageToDump ==
  /\ AddLayer
  /\ ~LastLetter /\ This # Dump /\ Following = Dump
  /\ labels' = "" /\ image' = ""
  /\ stage_out' = Append(stage_out, Dummy)
  /\ Finalize(This)
  /\ sub_graph' = Dump
  /\ start_Layer' = NextStart
  /\ UNCHANGED <<parsed, core, stage_in, Transmitters, mx>>

DumpToStage ==
  /\ AddLayer
  /\ ~LastLetter /\ This = Dump /\ Following # Dump
  /\ labels' = "" /\ image' = ""
  /\ sub_graph' = Following
  /\ stage_in' = Append(stage_in, Dummy)
  /\ core' = PinTo(Following)
  /\ start_Layer' = NextStart
  /\ UNCHANGED <<parsed, stage_out, links, finalized>>

\* Layer reaches Layers: the last stage is finalized, a dump graph is not.
LastOfOrder ==
  /\ AddLayer
  /\ LastLetter
  /\ WriteResults
  /\ IF This = Dump THEN UNCHANGED <<finalized, Receivers>> ELSE Finalize(This)
  /\ start_Layer' = NextStart
  /\ UNCHANGED <<parsed, sub_graph, core, image, stage_in, Transmitters, mx>>

Next ==
  \/ ParseNewStage \/ ParseSameStage \/ ParseDump \/ OpenFirst
  \/ SameGraph \/ StageToStage \/ StageToDump \/ DumpToStage \/ LastOfOrder

Spec == Init /\ [][Next]_vars

-----------------------------------------------------------------------------
(***************************************************************************)
(* What --order means.                                                     *)
(***************************************************************************)
Places == 0 .. Len(order) - 1
Firsts == {k \in Places : Letter(k) # "-" /\ (k = 0 \/ Letter(k) # Letter(k - 1))}
StageAt(k) == IF Letter(k) = "-" THEN Dump
              ELSE Cardinality({f \in Firsts : f <= k}) - 1
Joined == {k \in Firsts : k > 0 /\ Letter(k - 1) # "-"}
LinkAt(k) == Cardinality({j \in Joined : j < k})

AccessorType == [kind : {"input", "dummy", "result", "receiver", "sender"},
                 link : 0 .. NumLayers - 1, copies : BOOLEAN]

\* The stages and layers recorded are those of the network, and a stage is
\* only ever finalized, linked or given accessors once it exists.
TypeOK ==
  /\ order \in Orders /\ lbl \in {"", "file"}
  /\ pc \in {"parse", "layers", "done"}
  /\ classes \in Seq(0 .. 2) /\ Len(classes) <= Len(order)
  /\ gr_layer \in Seq({Dump} \cup 0 .. Len(classes) - 1)
  /\ g \in 0 .. NumLayers - 1
  /\ Layer \in 0 .. NumLayers /\ start_Layer \in 0 .. NumLayers
  /\ sub_graph \in {Dump} \cup 0 .. Len(classes) - 1
  /\ core \in {Unpinned} \cup 0 .. 2
  /\ image \in {"", "file", "transfer", "transfer_wait"}
  /\ labels \in {"", "file", "transfer", "transfer_wait"}
  /\ placed \in Seq({Dump} \cup 0 .. Len(classes) - 1)
  /\ stage_in \in Seq(AccessorType) /\ Len(stage_in) <= Len(classes)
  /\ stage_out \in Seq(AccessorType) /\ Len(stage_out) <= Len(classes)
  /\ Transmitters \in Seq(0 .. Len(classes) - 1)
  /\ Receivers \in Seq(0 .. Len(classes) - 1)
  /\ mx \in 0 .. NumLayers - 1
  /\ Len(finalized) <= Len(classes)

\* Stages side by side are joined by one link: its sender, its receiver, the
\* two tensors and the mutex, queue and buffer all have the same index.
\* Around a '-' neither end is a sender or a receiver.
LinksJoin ==
  pc = "done" =>
    /\ \A k \in Joined :
         LET s == StageAt(k)
             l == LinkAt(k) IN
         /\ stage_out[s].kind = "sender" /\ stage_out[s].link = l
         /\ stage_in[s + 1].kind = "receiver" /\ stage_in[s + 1].link = l
         /\ Transmitters[l + 1] = s - 1 /\ Receivers[l + 1] = s
    /\ \A k \in Firsts \ Joined :
         LET s == StageAt(k) IN
         /\ stage_in[s + 1].kind # "receiver"
         /\ s > 0 => stage_out[s].kind # "sender"
    /\ \A v \in {Len(Transmitters), Len(Receivers), mx} :
         v = Cardinality(Joined)

\* Exactly one end of a link copies the frame across: the sender when its
\* stage runs on the GPU, else the receiver.
OneSideCopies ==
  pc = "done" =>
    \A k \in Joined :
      LET s == StageAt(k) IN
      /\ stage_out[s].copies # stage_in[s + 1].copies
      /\ stage_out[s].copies <=> Letter(k - 1) = "G"

\* Each stage is finalized once, in order, for its own cluster and by a
\* thread pinned to it, and the layers whose tasks it counts are those that
\* were added to it.
FinalizedOnItsCluster ==
  pc = "done" /\ Len(order) = NumLayers =>
    /\ Len(finalized) = Cardinality(Firsts)
    /\ \A n \in 1 .. Len(finalized) :
         LET f == finalized[n] IN
         /\ f.stage = n - 1
         /\ f.cluster = Class(n - 1) /\ f.core = f.cluster
         /\ f.first .. f.last = {k \in Places : placed[k + 1] = f.stage}

\* Each run of equal letters is a stage of its own, in order, '-' the dump
\* graph; each layer is added to the stage of its letter, which runs on the
\* letter's cluster.
LayersInPlace ==
  \A k \in 0 .. Layer - 1 : k < Len(order) =>
    /\ placed[k + 1] = StageAt(k)
    /\ Letter(k) # "-" => Class(StageAt(k)) = Cluster[Letter(k)]

\* The network's last layer writes results for the labels the user gave,
\* whatever the labels have been used for on the way.
ResultsGoOut ==
  pc = "done" /\ Len(order) = NumLayers /\ Letter(NumLayers - 1) # "-" =>
    stage_out[Len(stage_out)] = IF lbl = "" THEN Dummy ELSE Result
=============================================================================
