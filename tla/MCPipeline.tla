----------------------------- MODULE MCPipeline -----------------------------
(***************************************************************************)
(* Instances of Pipeline with three stages: link 0 is copied by its        *)
(* sender, link 1 by its receiver or replaced by a cut.                    *)
(***************************************************************************)
EXTENDS Pipeline

NoLinks == {}
Link0 == {0}
Link1 == {1}
=============================================================================
