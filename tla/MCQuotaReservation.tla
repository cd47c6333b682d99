------------------------- MODULE MCQuotaReservation -------------------------
(***************************************************************************)
(* Instances of QuotaReservation for TLC: one user and three uploads of as *)
(* many contents.                                                          *)
(***************************************************************************)
EXTENDS QuotaReservation, TLC

CONSTANTS u1, x1, x2, x3, small, other, large

MCOwner == [x \in Uploads |-> u1]
MCContent == [x \in Uploads |-> CASE x = x2 -> other [] x = x3 -> large [] OTHER -> small]
MCSize == [t \in {small, other, large} |-> IF t = large THEN 2 ELSE 1]

MCInitialQuota == [storage |-> 3, parallel |-> 2, hourly |-> 2]
MCQuotas == {MCInitialQuota, [storage |-> 4, parallel |-> 1, hourly |-> 3]}

Symmetry == Permutations(Calls) \cup Permutations(Jobs)

=============================================================================
