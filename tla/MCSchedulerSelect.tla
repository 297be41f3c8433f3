-------------------------- MODULE MCSchedulerSelect --------------------------
(***************************************************************************)
(* Instances of SchedulerSelect: two threads on big cores, one on a little *)
(* core.                                                                   *)
(***************************************************************************)
EXTENDS SchedulerSelect
=============================================================================
