----------------------------- MODULE FileLease -----------------------------
(***************************************************************************)
(* What the cleanup locks and the download sets promise together: whoever  *)
(* has entered keeps the file as it is until he leaves, and the file goes  *)
(* only while nobody is inside.  No keys, clocks or timers here;           *)
(* CleanupProtocol is shown to implement this.                             *)
(***************************************************************************)

CONSTANT Readers

VARIABLES present, reader

-----------------------------------------------------------------------------

Init ==
    /\ present = TRUE
    /\ reader = [r \in Readers |-> "outside"]

Enter(r) ==
    /\ reader[r] = "outside"
    /\ reader' = [reader EXCEPT ![r] = "inside"]
    /\ UNCHANGED present

Read(r) ==
    /\ reader[r] = "inside"
    /\ present
    /\ reader' = [reader EXCEPT ![r] = "reading"]
    /\ UNCHANGED present

Leave(r) ==
    /\ reader[r] # "outside"
    /\ reader' = [reader EXCEPT ![r] = "outside"]
    /\ UNCHANGED present

Remove ==
    /\ \A r \in Readers : reader[r] = "outside"
    /\ present' = FALSE
    /\ UNCHANGED reader

Next ==
    \/ \E r \in Readers : Enter(r) \/ Read(r) \/ Leave(r)
    \/ Remove

Spec == Init /\ [][Next]_<<present, reader>>

=============================================================================
