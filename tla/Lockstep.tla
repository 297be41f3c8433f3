------------------------------ MODULE Lockstep ------------------------------
(***************************************************************************)
(* What the gated pipeline promises: frames enter one at a time, each only *)
(* after the result of the one before it has come out, and the results     *)
(* come out once each and in order.                                        *)
(***************************************************************************)
EXTENDS Naturals, Sequences

CONSTANT Frames

VARIABLES
  issued,      \* frames the first stage has taken
  delivered    \* results, in the order the last stage wrote them

vars == <<issued, delivered>>

Init == issued = 0 /\ delivered = <<>>

Issue ==
  /\ issued < Frames
  /\ Len(delivered) = issued
  /\ issued' = issued + 1
  /\ UNCHANGED delivered

Deliver ==
  /\ Len(delivered) < issued
  /\ delivered' = Append(delivered, issued)
  /\ UNCHANGED issued

Next == Issue \/ Deliver

Spec == Init /\ [][Next]_vars
=============================================================================
