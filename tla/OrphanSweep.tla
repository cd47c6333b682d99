---------------------------- MODULE OrphanSweep ----------------------------
(***************************************************************************)
(* The orphan sweep and the worker process it runs in: the directories     *)
(* uploads/<user>/<job> and results/<user>/<job> of each job, the row that *)
(* decides over them, the BullMQ schedule that starts a sweep in one of    *)
(* the replicas, and the replica's shutdown.                               *)
(*                                                                         *)
(* The rows and files are written as in JobPipeline, with what the sweep   *)
(* looks at: the status, the age of finishedAt, and the age of each        *)
(* directory's mtime.  BullMQ and the operator, who may remove a row, are  *)
(* external.                                                               *)
(***************************************************************************)
EXTENDS Naturals, FiniteSets

CONSTANTS
    Jobs,
    Replicas,  \* worker processes; each sweeps with concurrency 1
    Faults     \* bound: crashes and sweeps that throw

ASSUME OrphanAssumption == Faults \in Nat

VARIABLES
    row,       \* Job.status and the age of finishedAt
    call,      \* the job's post-finish hook call
    running,   \* jobs with a compression at work
    dir,       \* the directories
    tick,      \* the scheduler's entry: upserted?, a sweep waiting?
    replica,   \* the worker processes
    faults     \* faults suffered so far

vars == <<row, call, running, dir, tick, replica, faults>>

-----------------------------------------------------------------------------

Dirs == {"uploads", "results"} \X Jobs
Finished == {"succeeded", "failed", "canceled"}
Status == {"missing", "uploading", "queued", "processing", "expired"} \cup Finished
NoSweep == [pc |-> "idle", left |-> {}, long |-> {}, at |-> {}]

TypeOK ==
    /\ row \in [Jobs -> [status : Status, finished : {"null", "recent", "old"}]]
    /\ call \in [Jobs -> {"none", "move", "decide", "mkdir", "done"}]
    /\ running \subseteq Jobs
    /\ dir \in [Dirs -> {"none", "fresh", "old", "gone"}]
    /\ tick \in [upserted : BOOLEAN, waiting : BOOLEAN]
    /\ \A w \in Replicas :
        /\ replica[w].state \in {"down", "up", "draining", "drained", "closed"}
        /\ replica[w].sweep.pc \in {"idle", "next", "find", "rm"}
        /\ replica[w].sweep.left \subseteq Dirs
        /\ replica[w].sweep.long \subseteq Jobs
        /\ replica[w].sweep.at \subseteq Dirs
        /\ Cardinality(replica[w].sweep.at) = IF replica[w].sweep.pc \in {"find", "rm"} THEN 1 ELSE 0
    /\ faults \in 0 .. Faults

Init ==
    /\ row = [j \in Jobs |-> [status |-> "uploading", finished |-> "null"]]
    /\ call = [j \in Jobs |-> "none"]
    /\ running = {}
    /\ dir = [d \in Dirs |-> "none"]
    /\ tick = [upserted |-> FALSE, waiting |-> FALSE]
    /\ replica = [w \in Replicas |-> [state |-> "down", sweep |-> NoSweep]]
    /\ faults = 0

Fault == faults < Faults /\ faults' = faults + 1

-----------------------------------------------------------------------------
(* The rows and directories, as the rest of the system writes them.        *)

Becomes(j, s, f) == row' = [row EXCEPT ![j] = [status |-> s, finished |-> f]]
Touched(d) == [dir EXCEPT ![d] = IF @ = "gone" THEN @ ELSE "fresh"]

\* The hook has read an uploading row; its move may come much later.
CallBegins(j) ==
    /\ call[j] = "none"
    /\ row[j].status = "uploading"
    /\ call' = [call EXCEPT ![j] = "move"]
    /\ UNCHANGED <<row, running, dir, tick, replica, faults>>

\* mkdir -p and rename into it.
CallMoves(j) ==
    /\ call[j] = "move"
    /\ dir' = [dir EXCEPT ![<<"uploads", j>>] = "fresh"]
    /\ call' = [call EXCEPT ![j] = "decide"]
    /\ UNCHANGED <<row, running, tick, replica, faults>>

CallDecides(j) ==
    /\ call[j] = "decide"
    /\ \/ /\ row[j].status = "uploading"
          /\ Becomes(j, "queued", "null")
          /\ call' = [call EXCEPT ![j] = "mkdir"]
       \/ /\ row[j].status = "uploading"
          /\ Becomes(j, "failed", "recent")
          /\ call' = [call EXCEPT ![j] = "done"]
       \/ /\ row[j].status # "uploading"
          /\ call' = [call EXCEPT ![j] = "done"]
          /\ UNCHANGED row
    /\ UNCHANGED <<running, dir, tick, replica, faults>>

\* mkdir -p of the results directory, and queue.add.
CallMakesResults(j) ==
    /\ call[j] = "mkdir"
    /\ dir' = [dir EXCEPT ![<<"results", j>>] = "fresh"]
    /\ call' = [call EXCEPT ![j] = "done"]
    /\ running' = running \cup {j}
    /\ UNCHANGED <<row, tick, replica, faults>>

\* processJob's first update; the output file is created in its directory,
\* whose mtime does not change while the file grows.
RunWrites(j) ==
    /\ j \in running
    /\ dir' = Touched(<<"results", j>>)
    /\ row' = [row EXCEPT ![j].status = IF @ = "queued" THEN "processing" ELSE @]
    /\ UNCHANGED <<call, running, tick, replica, faults>>

RunEnds(j) ==
    /\ j \in running
    /\ running' = running \ {j}
    /\ \/ row[j].status \in {"queued", "processing"} /\ \E s \in {"succeeded", "failed"} : Becomes(j, s, "recent")
       \/ row[j].status \notin {"queued", "processing"} /\ UNCHANGED row
    /\ UNCHANGED <<call, dir, tick, replica, faults>>

Cancel(j) ==
    /\ row[j].status \in {"queued", "processing"}
    /\ Becomes(j, "canceled", "recent")
    /\ UNCHANGED <<call, running, dir, tick, replica, faults>>

\* A reservation of the same user reclaims the upload and dates its end.
Reclaim(j) ==
    /\ row[j].status = "uploading"
    /\ Becomes(j, "expired", "recent")
    /\ UNCHANGED <<call, running, dir, tick, replica, faults>>

\* The expired sweep: a result after seven days, or an upload that was late
\* when the sweep read it, whatever it has become; finishedAt stays as it is.
\* The input is unlinked from its directory, if its key was read.
Expire(j) ==
    /\ \/ row[j].status = "succeeded" /\ row[j].finished = "old"
       \/ row[j].status \in {"uploading", "queued", "processing"}
    /\ row' = [row EXCEPT ![j].status = "expired"]
    /\ \/ row[j].status = "succeeded" /\ dir' = Touched(<<"uploads", j>>)
       \/ UNCHANGED dir
    /\ UNCHANGED <<call, running, tick, replica, faults>>

\* No code of the repository deletes a Job row: an operator does.
RowRemoved(j) ==
    /\ row[j].status # "missing"
    /\ call[j] \in {"none", "done"}
    /\ j \notin running
    /\ Becomes(j, "missing", "null")
    /\ UNCHANGED <<call, running, dir, tick, replica, faults>>

\* An hour without a change of the directory; a day since the end.
DirAges(d) ==
    /\ dir[d] = "fresh"
    /\ dir' = [dir EXCEPT ![d] = "old"]
    /\ UNCHANGED <<row, call, running, tick, replica, faults>>

EndAges(j) ==
    /\ row[j].finished = "recent"
    /\ row' = [row EXCEPT ![j].finished = "old"]
    /\ UNCHANGED <<call, running, dir, tick, replica, faults>>

-----------------------------------------------------------------------------
(* The schedule and the process.                                           *)

Sweep(w) == replica[w].sweep
State(w, s) == replica' = [replica EXCEPT ![w].state = s]
Sweeps(w, s) == replica' = [replica EXCEPT ![w].sweep = s]

\* startWorker, startCleanupCron: every replica upserts the one scheduler.
Boot(w) ==
    /\ replica[w].state = "down"
    /\ State(w, "up")
    /\ tick' = [tick EXCEPT !.upserted = TRUE]
    /\ UNCHANGED <<row, call, running, dir, faults>>

\* Every six hours, or when a sweep that takes too long is declared stalled.
Tick ==
    /\ tick.upserted
    /\ ~tick.waiting
    /\ tick' = [tick EXCEPT !.waiting = TRUE]
    /\ UNCHANGED <<row, call, running, dir, replica, faults>>

Terminate(w) ==
    /\ replica[w].state = "up"
    /\ State(w, "draining")
    /\ UNCHANGED <<row, call, running, dir, tick, faults>>

\* A shutdown that does not wait for the sweep at work.
NotAwaited(w) == TRUE

\* cleanupCron.close() waits for it.
Drained(w) == Sweep(w).pc = "idle"

CronCloses(w) ==
    /\ replica[w].state = "draining"
    /\ Drained(w)
    /\ State(w, "drained")
    /\ UNCHANGED <<row, call, running, dir, tick, faults>>

\* handle.close(): Prisma and Redis, which the sweep has shared.
HandleCloses(w) ==
    /\ replica[w].state = "drained"
    /\ State(w, "closed")
    /\ UNCHANGED <<row, call, running, dir, tick, faults>>

Exit(w) ==
    /\ replica[w].state = "closed"
    /\ replica' = [replica EXCEPT ![w] = [state |-> "down", sweep |-> NoSweep]]
    /\ UNCHANGED <<row, call, running, dir, tick, faults>>

Crash(w) ==
    /\ replica[w].state # "down"
    /\ Fault
    /\ replica' = [replica EXCEPT ![w] = [state |-> "down", sweep |-> NoSweep]]
    /\ UNCHANGED <<row, call, running, dir, tick>>

-----------------------------------------------------------------------------
(* sweepOrphans                                                            *)

\* The graces count from "now", which is taken here: what is younger now is
\* kept in any case.  (What is listed later than here is younger.)
SweepStarts(w) ==
    /\ replica[w].state = "up"
    /\ Sweep(w).pc = "idle"
    /\ tick.waiting
    /\ tick' = [tick EXCEPT !.waiting = FALSE]
    /\ Sweeps(w, [NoSweep EXCEPT !.pc = "next",
                                 !.left = {d \in Dirs : dir[d] = "old"},
                                 !.long = {j \in Jobs : row[j].finished = "old"}])
    /\ UNCHANGED <<row, call, running, dir, faults>>

SweepEnds(w) ==
    /\ Sweep(w).pc = "next"
    /\ Sweep(w).left = {}
    /\ Sweeps(w, NoSweep)
    /\ UNCHANGED <<row, call, running, dir, tick, faults>>

\* A sweep that forgets to go on with the next directory.
Stuck(s) == [s EXCEPT !.pc = "next"]

\* The directory is done with: kept or deleted.
NextDir(s) == [s EXCEPT !.pc = "next", !.left = @ \ s.at, !.at = {}]

\* stat: a directory that was touched is kept; one that is gone is looked up.
Stat(w) ==
    /\ Sweep(w).pc = "next"
    /\ \E d \in Sweep(w).left :
           Sweeps(w, IF dir[d] = "fresh" THEN NextDir([Sweep(w) EXCEPT !.at = {d}])
                     ELSE [Sweep(w) EXCEPT !.pc = "find", !.at = {d}])
    /\ UNCHANGED <<row, call, running, dir, tick, faults>>

\* An orphan by the age of its end alone.
LongEnded(r, long) == r.status = "missing" \/ long

\* No row, or expired and ended more than a day ago.
IsOrphan(r, long) == r.status = "missing" \/ (r.status = "expired" /\ long)

\* findUnique
FindRow(w) ==
    /\ Sweep(w).pc = "find"
    /\ \E d \in Sweep(w).at :
           Sweeps(w, IF IsOrphan(row[d[2]], d[2] \in Sweep(w).long)
                     THEN [Sweep(w) EXCEPT !.pc = "rm"] ELSE NextDir(Sweep(w)))
    /\ UNCHANGED <<row, call, running, dir, tick, faults>>

\* rm -rf, whatever the directory has become.
Remove(w) ==
    /\ Sweep(w).pc = "rm"
    /\ dir' = [d \in Dirs |-> IF d \in Sweep(w).at /\ dir[d] # "none" THEN "gone" ELSE dir[d]]
    /\ Sweeps(w, NextDir(Sweep(w)))
    /\ UNCHANGED <<row, call, running, tick, faults>>

\* A call of the sweep throws: BullMQ fails the job, the next tick comes.
SweepThrows(w) ==
    /\ Sweep(w).pc \in {"find", "rm"}
    /\ Fault
    /\ Sweeps(w, NoSweep)
    /\ UNCHANGED <<row, call, running, dir, tick>>

-----------------------------------------------------------------------------

JobStep(j) ==
    \/ CallBegins(j)
    \/ CallMoves(j)
    \/ CallDecides(j)
    \/ CallMakesResults(j)
    \/ RunWrites(j)
    \/ RunEnds(j)
    \/ Cancel(j)
    \/ Reclaim(j)
    \/ Expire(j)
    \/ RowRemoved(j)
    \/ EndAges(j)

ReplicaStep(w) ==
    \/ Boot(w)
    \/ Terminate(w)
    \/ CronCloses(w)
    \/ HandleCloses(w)
    \/ Exit(w)
    \/ Crash(w)
    \/ SweepThrows(w)

SweepStep(w) ==
    \/ SweepEnds(w)
    \/ Stat(w)
    \/ FindRow(w)
    \/ Remove(w)

Next ==
    \/ \E j \in Jobs : JobStep(j)
    \/ \E d \in Dirs : DirAges(d)
    \/ Tick
    \/ \E w \in Replicas : ReplicaStep(w) \/ SweepStarts(w) \/ SweepStep(w)

Spec == Init /\ [][Next]_vars

\* Time passes, hooks and compressions end, replicas are started again and
\* finish their shutdown, and a sweep that a replica has taken goes on.  No
\* replica stays away for ever: strong fairness, since each may be told to
\* stop again and again.
Fairness ==
    /\ \A d \in Dirs : WF_vars(DirAges(d))
    /\ \A j \in Jobs :
        /\ WF_vars(CallMoves(j)) /\ WF_vars(CallDecides(j)) /\ WF_vars(CallMakesResults(j))
        /\ WF_vars(RunEnds(j)) /\ WF_vars(EndAges(j))
    /\ WF_vars(Tick)
    /\ \A w \in Replicas :
        /\ WF_vars(Boot(w)) /\ WF_vars(CronCloses(w)) /\ WF_vars(HandleCloses(w)) /\ WF_vars(Exit(w))
        /\ WF_vars(SweepStep(w))
    /\ SF_vars(\E w \in Replicas : SweepStarts(w))

FairSpec == Spec /\ Fairness

-----------------------------------------------------------------------------
(* Properties.                                                             *)

\* What a row still stands for is never swept: whatever the sweeps, the
\* calls and the row do between stat, findUnique and rm, a directory that is
\* gone belonged to no row or to one that expired after it had ended
\* (orphan-sweep.ts, "Considers a directory orphan when").
LiveJobsKeepTheirDirs ==
    \A d \in Dirs : dir[d] = "gone" =>
        LET r == row[d[2]] IN r.status = "missing" \/ (r.status = "expired" /\ r.finished = "old")

\* An orphan's directories go in the end, those of an upload that was moved
\* after its row had been reclaimed included, however sweeps crash, throw,
\* overlap or are shut down.  (An expired row without finishedAt is none.)
Orphan(j) == row[j].status = "missing" \/ (row[j].status = "expired" /\ row[j].finished # "null")
OrphansGo == \A d \in Dirs : Orphan(d[2]) ~> dir[d] \in {"none", "gone"}

\* No sweep is at work when the process closes the connections it uses
\* (index.ts, "Close cleanup-cron first so its in-flight sweeps drain").
SweepsDrainFirst ==
    \A w \in Replicas : replica[w].state \in {"drained", "closed"} => Sweep(w).pc = "idle"


\* What a replica relies on while its sweeps, its shutdown and the other
\* replica's sweeps go on side by side (index.ts:38-53).
OrphanInv == TypeOK /\ SweepsDrainFirst

=============================================================================
