--------------------------- MODULE MCJobPipeline ---------------------------
(***************************************************************************)
(* Instances of JobPipeline for TLC.  Jobs, calls, slots and requests are  *)
(* model values; interchangeable ones are a symmetry set in the runs that  *)
(* check no liveness.                                                      *)
(***************************************************************************)
EXTENDS JobPipeline, TLC

Symmetry == Permutations(Jobs) \cup Permutations(Calls) \cup Permutations(Slots)

=============================================================================
