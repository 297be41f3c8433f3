------------------------------ MODULE Workload ------------------------------
(***************************************************************************)
(* What finalize_graph hands to the memory of transition tensors: the      *)
(* tasks in order, each with the handles that it reads (ins) and writes    *)
(* (outs).  GraphManager shows that it has this form, TransitionMemory     *)
(* takes it from there.                                                    *)
(***************************************************************************)
EXTENDS Integers, Sequences, Functions

\* A tensor that is read has been written, and one that is written will be
\* read: one that no task reads has no count and makes hc.at() throw.
WellFormed(w) ==
  \A i \in DOMAIN w :
    /\ \A x \in Range(w[i].ins) : \E j \in 1 .. i - 1 : x \in Range(w[j].outs)
    /\ \A x \in Range(w[i].outs) : \E j \in i + 1 .. Len(w) : x \in Range(w[j].ins)
=============================================================================
