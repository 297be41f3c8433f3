--------------------------- MODULE MCCppScheduler ---------------------------
(***************************************************************************)
(* Instances of CppScheduler.  Callers are interchangeable for invariants  *)
(* and action properties.                                                  *)
(***************************************************************************)
EXTENDS CppScheduler, FiniteSetsExt, TLC

\* The calls that c has begun, the one it is in included.
Begun(c) == calls[c] + (IF pc[c] = "idle" THEN 0 ELSE 1)

\* A bound: three calls in all, of one caller or of several.
ThreeCalls == MapThenSumSet(Begun, Callers) <= 3

Alike == Permutations(Callers)
=============================================================================
