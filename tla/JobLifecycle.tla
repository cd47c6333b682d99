---------------------------- MODULE JobLifecycle ----------------------------
(***************************************************************************)
(* What a job's row promises to everybody who reads it: the statuses of    *)
(* the Job table (packages/db/prisma/schema.prisma) and the only ways one  *)
(* status may follow another.  It says nothing of hooks, queues, workers   *)
(* or sweeps; JobPipeline is shown to implement it.                        *)
(***************************************************************************)

CONSTANT Jobs

VARIABLE status

-----------------------------------------------------------------------------

\* "absent" stands for a job whose row does not exist yet.
Status == {"absent", "uploading", "queued", "processing",
           "succeeded", "failed", "canceled", "expired"}

\* TERMINAL_STATUS: the worker and the cancel route leave such a row alone.
Terminal == {"canceled", "succeeded", "failed", "expired"}

Become(j, from, to) ==
    /\ status[j] \in from
    /\ status' = [status EXCEPT ![j] = to]

Reserve(j) == Become(j, {"absent"}, "uploading")
Accept(j)  == Become(j, {"uploading"}, "queued")
Reject(j)  == Become(j, {"uploading"}, "failed")
Start(j)   == Become(j, {"queued"}, "processing")
Succeed(j) == Become(j, {"processing"}, "succeeded")
Fail(j)    == Become(j, {"processing"}, "failed")
Cancel(j)  == Become(j, {"queued", "processing"}, "canceled")
Expire(j)  == Become(j, Status \ {"absent", "expired"}, "expired")

Init == status = [j \in Jobs |-> "absent"]

Next == \E j \in Jobs :
            \/ Reserve(j)
            \/ Accept(j)
            \/ Reject(j)
            \/ Start(j)
            \/ Succeed(j)
            \/ Fail(j)
            \/ Cancel(j)
            \/ Expire(j)

Spec == Init /\ [][Next]_status

=============================================================================
