---------------------------- MODULE MCJobEvents ----------------------------
(***************************************************************************)
(* Instances of JobEvents for TLC: handlers are numbers, so that the first *)
(* free one can be taken; liveness forbids symmetry.                       *)
(***************************************************************************)
EXTENDS JobEvents

=============================================================================
