------------------------------ MODULE MCSignIn ------------------------------
(***************************************************************************)
(* Instances of SignIn for TLC: requests and emails are model values.      *)
(***************************************************************************)
EXTENDS SignIn, TLC

Symmetry == Permutations(Logins) \cup Permutations(Redeems) \cup Permutations(Emails)

=============================================================================
