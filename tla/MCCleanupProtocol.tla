------------------------- MODULE MCCleanupProtocol -------------------------
(***************************************************************************)
(* Instances of CleanupProtocol for TLC.  One tick stands for 30 seconds.  *)
(***************************************************************************)
EXTENDS CleanupProtocol, TLC

Symmetry == Permutations(Handlers) \cup Permutations(Cleaners)

=============================================================================
