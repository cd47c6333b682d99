--------------------------- MODULE MCOrphanSweep ---------------------------
(***************************************************************************)
(* Instances of OrphanSweep for TLC: jobs and replicas are model values.   *)
(***************************************************************************)
EXTENDS OrphanSweep

=============================================================================
