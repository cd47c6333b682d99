------------------------------ MODULE MCAccess ------------------------------
(***************************************************************************)
(* Instances of Access for TLC: everything but the admins is symmetric.    *)
(***************************************************************************)
EXTENDS Access, TLC

Symmetry ==
    Permutations(Replicas) \cup Permutations(Peppers) \cup Permutations(Sessions)
      \cup Permutations(Keys) \cup Permutations(Requests)

=============================================================================
