------------------------- MODULE OrphanSweepProofs -------------------------
(***************************************************************************)
(* Proofs about OrphanSweep, for any number of jobs, replicas and faults.   *)
(*                                                                         *)
(* The route: what a row has become that makes its directories orphans      *)
(* stays so (RowsStep); what a sweep has collected and looked up is         *)
(* therefore still true when it removes a directory (SweepsStep).           *)
(***************************************************************************)
EXTENDS OrphanSweep, FiniteSetTheorems, TLAPS

-----------------------------------------------------------------------------
(* The inductive invariant.                                                *)

SweepRecord == [pc : {"idle", "next", "find", "rm"}, left : SUBSET Dirs, long : SUBSET Jobs,
           at : SUBSET Dirs]
Replica == [state : {"down", "up", "draining", "drained", "closed"}, sweep : SweepRecord]

RowsTyped == row \in [Jobs -> [status : Status, finished : {"null", "recent", "old"}]]
DirsTyped == dir \in [Dirs -> {"none", "fresh", "old", "gone"}]
RestTyped ==
    /\ call \in [Jobs -> {"none", "move", "decide", "mkdir", "done"}]
    /\ running \subseteq Jobs
    /\ tick \in [upserted : BOOLEAN, waiting : BOOLEAN]
    /\ faults \in 0 .. Faults
ReplicasTyped == replica \in [Replicas -> Replica]

\* A sweep looks at one directory from its stat to its rm, and at none else.
OneAtATime(s) ==
    IF s.pc \in {"find", "rm"} THEN \E d \in Dirs : s.at = {d} ELSE s.at = {}

\* What no row stands for any more.
Orphaned(r) == r.status = "missing" \/ (r.status = "expired" /\ r.finished = "old")

\* A job that goes on has no end yet.
RowsSound ==
    \A j \in Jobs : row[j].status \in {"uploading", "queued", "processing"} => row[j].finished = "null"

\* What a sweep knows of the rows: the ends it found a day old when it
\* started still are, or the row has gone; what it is about to remove is an
\* orphan.
Knows(s) ==
    /\ \A j \in s.long : row[j].finished = "old" \/ row[j].status = "missing"
    /\ s.pc = "rm" => \A d \in s.at : Orphaned(row[d[2]])

\* A sweep that a replica has closed over is over.
SweepsSound ==
    \A w \in Replicas :
        /\ OneAtATime(Sweep(w))
        /\ Knows(Sweep(w))
        /\ replica[w].state \in {"drained", "closed"} => Sweep(w).pc = "idle"

GoneWereOrphans == \A d \in Dirs : dir[d] = "gone" => Orphaned(row[d[2]])

Inv ==
    /\ RowsTyped
    /\ DirsTyped
    /\ RestTyped
    /\ ReplicasTyped
    /\ RowsSound
    /\ SweepsSound
    /\ GoneWereOrphans

\* How a step may change a row for those who have looked at it.
Follows(r, s) ==
    /\ Orphaned(r) => Orphaned(s)
    /\ r.finished = "old" \/ r.status = "missing" => s.finished = "old" \/ s.status = "missing"

-----------------------------------------------------------------------------
(* The rows.                                                               *)

\* One row is written, or none.
LEMMA OneRow ==
    ASSUME RowsTyped, RowsSound, NEW j \in Jobs,
           NEW s \in Status, NEW f \in {"null", "recent", "old"},
           row' = [row EXCEPT ![j] = [status |-> s, finished |-> f]],
           s \in {"uploading", "queued", "processing"} => f = "null",
           Follows(row[j], [status |-> s, finished |-> f])
    PROVE  RowsTyped' /\ RowsSound' /\ \A k \in Jobs : Follows(row[k], row'[k])
<1>1. RowsTyped'
  BY DEF RowsTyped
<1>2. row'[j] = [status |-> s, finished |-> f] /\ \A k \in Jobs \ {j} : row'[k] = row[k]
  BY DEF RowsTyped
<1>3. RowsSound'
  BY <1>2 DEF RowsSound
<1>4. ASSUME NEW k \in Jobs
      PROVE  Follows(row[k], row'[k])
  <2>1. CASE k = j
    BY <1>2, <2>1
  <2>2. CASE k # j
    BY <1>2, <2>2 DEF Follows
  <2> QED  BY <2>1, <2>2
<1> QED  BY <1>1, <1>3, <1>4

LEMMA SameRows ==
    ASSUME RowsTyped, RowsSound, UNCHANGED row
    PROVE  RowsTyped' /\ RowsSound' /\ \A k \in Jobs : Follows(row[k], row'[k])
BY DEF RowsTyped, RowsSound, Follows

\* A field of a row, written.
LEMMA RowFields ==
    ASSUME RowsTyped, NEW j \in Jobs
    PROVE  /\ row[j].status \in Status /\ row[j].finished \in {"null", "recent", "old"}
           /\ \A s : [row EXCEPT ![j].status = s]
                      = [row EXCEPT ![j] = [status |-> s, finished |-> row[j].finished]]
           /\ \A f : [row EXCEPT ![j].finished = f]
                      = [row EXCEPT ![j] = [status |-> row[j].status, finished |-> f]]
<1>1. row[j] \in [status : Status, finished : {"null", "recent", "old"}]
  BY DEF RowsTyped
<1>2. \A s : [row[j] EXCEPT !.status = s] = [status |-> s, finished |-> row[j].finished]
  BY <1>1
<1>3. \A f : [row[j] EXCEPT !.finished = f] = [status |-> row[j].status, finished |-> f]
  BY <1>1
<1> QED  BY <1>1, <1>2, <1>3

\* The end of a job that goes on, by whichever of its writers.
LEMMA BecomesRow ==
    ASSUME RowsTyped, RowsSound, NEW j \in Jobs, NEW s \in Status, NEW f \in {"null", "recent"},
           row[j].status \in {"uploading", "queued", "processing"} \/ s = "missing",
           s \in {"uploading", "queued", "processing"} => f = "null",
           Becomes(j, s, f)
    PROVE  RowsTyped' /\ RowsSound' /\ \A k \in Jobs : Follows(row[k], row'[k])
<1>1. Follows(row[j], [status |-> s, finished |-> f])
  BY DEF RowsTyped, RowsSound, Follows, Orphaned
<1> QED  BY <1>1, OneRow DEF Becomes

LEMMA JobRows ==
    ASSUME Inv, NEW j \in Jobs, JobStep(j)
    PROVE  RowsTyped' /\ RowsSound' /\ \A k \in Jobs : Follows(row[k], row'[k])
<1>0. RowsTyped /\ RowsSound
  BY DEF Inv
<1>1. CASE CallBegins(j) \/ CallMoves(j) \/ CallMakesResults(j)
  BY <1>0, <1>1, SameRows DEF CallBegins, CallMoves, CallMakesResults
<1>2. CASE CallDecides(j)
  <2>1. CASE row[j].status = "uploading" /\ Becomes(j, "queued", "null")
    BY <1>0, <2>1, BecomesRow DEF Status
  <2>2. CASE row[j].status = "uploading" /\ Becomes(j, "failed", "recent")
    BY <1>0, <2>2, BecomesRow DEF Status, Finished
  <2>3. CASE UNCHANGED row
    BY <1>0, <2>3, SameRows
  <2> QED  BY <1>2, <2>1, <2>2, <2>3 DEF CallDecides
<1>3. CASE RunWrites(j)
  <2>1. CASE row[j].status = "queued"
    <3>1. row' = [row EXCEPT ![j] = [status |-> "processing", finished |-> "null"]]
      <4>1. row' = [row EXCEPT ![j].status = "processing"]
        BY <1>3, <2>1 DEF RunWrites
      <4>2. row[j].finished = "null"
        BY <1>0, <2>1 DEF RowsSound
      <4> QED  BY <1>0, <4>1, <4>2, RowFields
    <3> QED  BY <1>0, <2>1, <3>1, BecomesRow DEF Becomes, Status
  <2>2. CASE row[j].status # "queued"
    <3>1. UNCHANGED row
      BY <1>0, <1>3, <2>2 DEF RunWrites, RowsTyped
    <3> QED  BY <1>0, <3>1, SameRows
  <2> QED  BY <2>1, <2>2
<1>4. CASE RunEnds(j)
  <2>1. ASSUME NEW s \in {"succeeded", "failed"}, Becomes(j, s, "recent"),
               row[j].status \in {"queued", "processing"}
        PROVE  RowsTyped' /\ RowsSound' /\ \A k \in Jobs : Follows(row[k], row'[k])
    BY <1>0, <2>1, BecomesRow DEF Status, Finished
  <2>2. CASE UNCHANGED row
    BY <1>0, <2>2, SameRows
  <2> QED  BY <1>4, <2>1, <2>2 DEF RunEnds
<1>5. CASE Cancel(j)
  BY <1>0, <1>5, BecomesRow DEF Cancel, Status, Finished
<1>6. CASE Reclaim(j)
  BY <1>0, <1>6, BecomesRow DEF Reclaim, Status, Finished
<1>7. CASE Expire(j)
  <2>1. row[j].finished \in {"null", "recent", "old"}
    BY <1>0 DEF RowsTyped
  <2>2. row' = [row EXCEPT ![j] = [status |-> "expired", finished |-> row[j].finished]]
    BY <1>0, <1>7, RowFields DEF Expire
  <2>3. row[j].status \notin {"missing", "expired"}
    BY <1>7 DEF Expire
  <2>4. Follows(row[j], [status |-> "expired", finished |-> row[j].finished])
    BY <2>3 DEF Follows, Orphaned
  <2> QED  BY <1>0, <2>1, <2>2, <2>4, OneRow DEF Status
<1>8. CASE RowRemoved(j)
  BY <1>0, <1>8, BecomesRow DEF RowRemoved, Status
<1>9. CASE EndAges(j)
  <2>1. row' = [row EXCEPT ![j] = [status |-> row[j].status, finished |-> "old"]]
    BY <1>0, <1>9, RowFields DEF EndAges
  <2>2. row[j].status \in Status \ {"uploading", "queued", "processing"}
    BY <1>0, <1>9 DEF EndAges, RowsTyped, RowsSound
  <2>3. Follows(row[j], [status |-> row[j].status, finished |-> "old"])
    BY <1>9 DEF EndAges, Follows, Orphaned
  <2> QED  BY <1>0, <2>1, <2>2, <2>3, OneRow
<1> QED  BY <1>1, <1>2, <1>3, <1>4, <1>5, <1>6, <1>7, <1>8, <1>9 DEF JobStep

-----------------------------------------------------------------------------
(* The directories.                                                        *)

\* A directory that a step has removed was there in an orphan's name.
RemovesOrphans == \A d \in Dirs : dir'[d] = "gone" => dir[d] = "gone" \/ Orphaned(row[d[2]])

LEMMA JobDirs ==
    ASSUME Inv, NEW j \in Jobs, JobStep(j)
    PROVE  DirsTyped' /\ RemovesOrphans /\ UNCHANGED replica
<1>0. DirsTyped /\ <<"uploads", j>> \in Dirs /\ <<"results", j>> \in Dirs
  BY DEF Inv, Dirs
<1>1. UNCHANGED replica
  BY DEF JobStep, CallBegins, CallMoves, CallDecides, CallMakesResults, RunWrites, RunEnds, Cancel,
         Reclaim, Expire, RowRemoved, EndAges
<1>2. \/ UNCHANGED dir
      \/ dir' = [dir EXCEPT ![<<"uploads", j>>] = "fresh"]
      \/ dir' = [dir EXCEPT ![<<"results", j>>] = "fresh"]
      \/ dir' = Touched(<<"uploads", j>>)
      \/ dir' = Touched(<<"results", j>>)
  BY DEF JobStep, CallBegins, CallMoves, CallDecides, CallMakesResults, RunWrites, RunEnds, Cancel,
         Reclaim, Expire, RowRemoved, EndAges
<1>3. ASSUME NEW d \in Dirs, dir' = [dir EXCEPT ![d] = "fresh"] \/ dir' = Touched(d)
      PROVE  DirsTyped' /\ RemovesOrphans
  <2>1. DirsTyped'
    BY <1>0, <1>3 DEF DirsTyped, Touched
  <2>2. \A c \in Dirs : dir'[c] = "gone" => dir[c] = "gone"
    BY <1>0, <1>3 DEF DirsTyped, Touched
  <2> QED  BY <2>1, <2>2 DEF RemovesOrphans
<1>4. CASE UNCHANGED dir
  BY <1>0, <1>1, <1>4 DEF DirsTyped, RemovesOrphans
<1> QED  BY <1>0, <1>1, <1>2, <1>3, <1>4

-----------------------------------------------------------------------------
(* The sweeps.                                                             *)

LEMMA SweepOps ==
    /\ NoSweep \in SweepRecord /\ OneAtATime(NoSweep) /\ Knows(NoSweep) /\ NoSweep.pc = "idle"
    /\ \A s \in SweepRecord :
          /\ NextDir(s) \in SweepRecord /\ OneAtATime(NextDir(s))
          /\ NextDir(s).pc = "next" /\ NextDir(s).long = s.long
<1>1. NoSweep \in SweepRecord /\ OneAtATime(NoSweep) /\ Knows(NoSweep) /\ NoSweep.pc = "idle"
  BY DEF NoSweep, SweepRecord, OneAtATime, Knows
<1>2. ASSUME NEW s \in SweepRecord
      PROVE  /\ NextDir(s) \in SweepRecord
             /\ NextDir(s).pc = "next" /\ NextDir(s).long = s.long /\ NextDir(s).at = {}
  BY DEF NextDir, SweepRecord
<1> QED  BY <1>1, <1>2 DEF OneAtATime

\* One replica changes; the rows do not.
LEMMA OneReplica ==
    ASSUME ReplicasTyped, SweepsSound, NEW w \in Replicas, NEW r \in Replica,
           replica' = [replica EXCEPT ![w] = r],
           UNCHANGED row,
           OneAtATime(r.sweep),
           Knows(r.sweep),
           r.state \in {"drained", "closed"} => r.sweep.pc = "idle"
    PROVE  ReplicasTyped' /\ SweepsSound'
<1>1. ReplicasTyped'
  BY DEF ReplicasTyped
<1>2. replica'[w] = r /\ \A v \in Replicas \ {w} : replica'[v] = replica[v]
  BY DEF ReplicasTyped
<1>3. ASSUME NEW v \in Replicas
      PROVE  /\ OneAtATime(Sweep(v)')
             /\ Knows(Sweep(v))'
             /\ replica'[v].state \in {"drained", "closed"} => Sweep(v)'.pc = "idle"
  <2>1. CASE v = w
    BY <1>2, <2>1 DEF Sweep, Knows
  <2>2. CASE v # w
    BY <1>2, <2>2 DEF Sweep, Knows, SweepsSound
  <2> QED  BY <2>1, <2>2
<1> QED  BY <1>1, <1>3 DEF SweepsSound, OneAtATime

\* Only the process's state changes.
LEMMA OnlyState ==
    ASSUME ReplicasTyped, SweepsSound, NEW w \in Replicas,
           NEW s \in {"down", "up", "draining", "drained", "closed"},
           State(w, s), UNCHANGED row,
           s \in {"drained", "closed"} => Sweep(w).pc = "idle"
    PROVE  ReplicasTyped' /\ SweepsSound'
<1> DEFINE r == [state |-> s, sweep |-> Sweep(w)]
<1>1. r \in Replica
  BY DEF ReplicasTyped, Replica, Sweep
<1>2. replica' = [replica EXCEPT ![w] = r]
  <2>1. replica[w] \in Replica
    BY DEF ReplicasTyped
  <2>2. [replica[w] EXCEPT !.state = s] = r
    BY <2>1 DEF Replica, Sweep
  <2> QED  BY <2>2 DEF State
<1>3. OneAtATime(r.sweep) /\ Knows(r.sweep)
  BY DEF SweepsSound
<1> HIDE DEF r
<1>4. r.state = s /\ r.sweep = Sweep(w)
  BY DEF r
<1> QED  BY <1>1, <1>2, <1>3, <1>4, OneReplica

\* Only the sweep changes, in a replica that is still sweeping.
LEMMA OnlySweep ==
    ASSUME ReplicasTyped, SweepsSound, NEW w \in Replicas, NEW s \in SweepRecord,
           Sweeps(w, s), UNCHANGED row,
           OneAtATime(s), Knows(s),
           s.pc = "idle" \/ replica[w].state \notin {"drained", "closed"}
    PROVE  ReplicasTyped' /\ SweepsSound'
<1> DEFINE r == [state |-> replica[w].state, sweep |-> s]
<1>1. r \in Replica
  BY DEF ReplicasTyped, Replica
<1>2. replica' = [replica EXCEPT ![w] = r]
  <2>1. replica[w] \in Replica
    BY DEF ReplicasTyped
  <2>2. [replica[w] EXCEPT !.sweep = s] = r
    BY <2>1 DEF Replica
  <2> QED  BY <2>2 DEF Sweeps
<1>3. r.state = replica[w].state /\ r.sweep = s
  OBVIOUS
<1> HIDE DEF r
<1> QED  BY <1>1, <1>2, <1>3, OneReplica

\* The process is gone, and its sweep with it.
LEMMA GoesDown ==
    ASSUME ReplicasTyped, SweepsSound, NEW w \in Replicas, UNCHANGED row,
           replica' = [replica EXCEPT ![w] = [state |-> "down", sweep |-> NoSweep]]
    PROVE  ReplicasTyped' /\ SweepsSound'
<1> DEFINE r == [state |-> "down", sweep |-> NoSweep]
<1>1. r \in Replica /\ r.state = "down" /\ r.sweep = NoSweep
  BY SweepOps DEF Replica
<1>2. replica' = [replica EXCEPT ![w] = r]
  OBVIOUS
<1> HIDE DEF r
<1> QED  BY <1>1, <1>2, SweepOps, OneReplica

LEMMA ReplicaSweeps ==
    ASSUME Inv, NEW w \in Replicas, ReplicaStep(w)
    PROVE  ReplicasTyped' /\ SweepsSound' /\ UNCHANGED <<row, dir>>
<1>0. ReplicasTyped /\ SweepsSound
  BY DEF Inv
<1>1. CASE Boot(w)
  BY <1>0, <1>1, OnlyState DEF Boot
<1>2. CASE Terminate(w)
  BY <1>0, <1>2, OnlyState DEF Terminate
<1>3. CASE CronCloses(w)
  BY <1>0, <1>3, OnlyState DEF CronCloses, Drained
<1>4. CASE HandleCloses(w)
  BY <1>0, <1>4, OnlyState DEF HandleCloses, SweepsSound
<1>5. CASE Exit(w)
  BY <1>0, <1>5, GoesDown DEF Exit
<1>6. CASE Crash(w)
  BY <1>0, <1>6, GoesDown DEF Crash
<1>7. CASE SweepThrows(w)
  BY <1>0, <1>7, OnlySweep, SweepOps DEF SweepThrows
<1> QED  BY <1>1, <1>2, <1>3, <1>4, <1>5, <1>6, <1>7 DEF ReplicaStep

LEMMA StartSweeps ==
    ASSUME Inv, NEW w \in Replicas, SweepStarts(w)
    PROVE  ReplicasTyped' /\ SweepsSound' /\ UNCHANGED <<row, dir>>
<1> DEFINE left == {d \in Dirs : dir[d] = "old"}
           long == {j \in Jobs : row[j].finished = "old"}
           s == [NoSweep EXCEPT !.pc = "next", !.left = left, !.long = long]
<1>0. ReplicasTyped /\ SweepsSound
  BY DEF Inv
<1>1. s \in SweepRecord /\ s.pc = "next" /\ s.long = long /\ s.at = {}
  BY DEF NoSweep, SweepRecord
<1>2. Sweeps(w, s) /\ replica[w].state = "up" /\ UNCHANGED <<row, dir>>
  BY DEF SweepStarts
<1>3. \A j \in long : row[j].finished = "old"
  OBVIOUS
<1> HIDE DEF left, long, s
<1>4. OneAtATime(s) /\ Knows(s)
  BY <1>1, <1>3 DEF OneAtATime, Knows
<1> QED  BY <1>0, <1>1, <1>2, <1>4, OnlySweep

\* What a sweep did to its record, with the state it did it in.
LEMMA StepSweeps ==
    ASSUME Inv, NEW w \in Replicas, SweepStep(w)
    PROVE  ReplicasTyped' /\ SweepsSound' /\ UNCHANGED row
<1>0. /\ ReplicasTyped /\ SweepsSound
      /\ Sweep(w) \in SweepRecord /\ OneAtATime(Sweep(w)) /\ Knows(Sweep(w))
  BY DEF Inv, ReplicasTyped, Replica, SweepsSound, Sweep
<1>1. CASE SweepEnds(w)
  BY <1>0, <1>1, OnlySweep, SweepOps DEF SweepEnds
<1>2. Sweep(w).pc # "idle" => replica[w].state \notin {"drained", "closed"}
  BY <1>0 DEF SweepsSound
<1>3. ASSUME NEW s \in SweepRecord, s.long = Sweep(w).long
      PROVE  Knows(NextDir(s))
  BY <1>0, <1>3, SweepOps DEF Knows
<1>4. CASE Stat(w)
  <2>1. PICK d \in Sweep(w).left :
           Sweeps(w, IF dir[d] = "fresh" THEN NextDir([Sweep(w) EXCEPT !.at = {d}])
                     ELSE [Sweep(w) EXCEPT !.pc = "find", !.at = {d}])
    BY <1>4 DEF Stat
  <2> DEFINE a == [Sweep(w) EXCEPT !.at = {d}]
             b == [Sweep(w) EXCEPT !.pc = "find", !.at = {d}]
  <2>2. d \in Dirs
    BY <1>0 DEF SweepRecord
  <2>3. a \in SweepRecord /\ a.long = Sweep(w).long
    BY <1>0, <2>2 DEF SweepRecord
  <2>4. b \in SweepRecord /\ b.long = Sweep(w).long /\ b.pc = "find" /\ b.at = {d}
    BY <1>0, <2>2 DEF SweepRecord
  <2>5. Sweeps(w, NextDir(a)) \/ Sweeps(w, b)
    BY <2>1
  <2>6. UNCHANGED row /\ Sweep(w).pc = "next"
    BY <1>4 DEF Stat
  <2> HIDE DEF a, b
  <2>7. OneAtATime(b) /\ Knows(b)
    BY <1>0, <2>2, <2>4 DEF OneAtATime, Knows
  <2>8. CASE Sweeps(w, NextDir(a))
    BY <1>0, <1>2, <1>3, <2>3, <2>6, <2>8, SweepOps, OnlySweep
  <2>9. CASE Sweeps(w, b)
    BY <1>0, <1>2, <2>4, <2>6, <2>7, <2>9, OnlySweep
  <2> QED  BY <2>5, <2>6, <2>8, <2>9
<1>5. CASE FindRow(w)
  <2>1. PICK d \in Sweep(w).at :
           Sweeps(w, IF IsOrphan(row[d[2]], d[2] \in Sweep(w).long)
                     THEN [Sweep(w) EXCEPT !.pc = "rm"] ELSE NextDir(Sweep(w)))
    BY <1>5 DEF FindRow
  <2> DEFINE b == [Sweep(w) EXCEPT !.pc = "rm"]
  <2>2. UNCHANGED row /\ Sweep(w).pc = "find"
    BY <1>5 DEF FindRow
  <2>3. b \in SweepRecord /\ b.long = Sweep(w).long /\ b.pc = "rm" /\ b.at = Sweep(w).at
    BY <1>0 DEF SweepRecord
  <2>4. d \in Dirs /\ Sweep(w).at = {d}
    BY <1>0, <2>2 DEF OneAtATime
  <2>5. CASE IsOrphan(row[d[2]], d[2] \in Sweep(w).long)
    <3>1. Sweeps(w, b)
      BY <2>1, <2>5
    <3> HIDE DEF b
    <3>2. Orphaned(row[d[2]])
      BY <1>0, <2>5 DEF IsOrphan, Orphaned, Knows
    <3>3. OneAtATime(b) /\ Knows(b)
      BY <1>0, <2>3, <2>4, <3>2 DEF OneAtATime, Knows
    <3> QED  BY <1>0, <1>2, <2>2, <2>3, <3>1, <3>3, OnlySweep
  <2>6. CASE ~IsOrphan(row[d[2]], d[2] \in Sweep(w).long)
    <3>1. Sweeps(w, NextDir(Sweep(w)))
      BY <2>1, <2>6
    <3> QED  BY <1>0, <1>2, <1>3, <2>2, <3>1, SweepOps, OnlySweep
  <2> QED  BY <2>5, <2>6
<1>6. CASE Remove(w)
  <2>1. Sweeps(w, NextDir(Sweep(w))) /\ UNCHANGED row /\ Sweep(w).pc = "rm"
    BY <1>6 DEF Remove
  <2> QED  BY <1>0, <1>2, <1>3, <2>1, SweepOps, OnlySweep
<1> QED  BY <1>1, <1>4, <1>5, <1>6 DEF SweepStep

LEMMA StepDirs ==
    ASSUME Inv, NEW w \in Replicas, SweepStep(w)
    PROVE  DirsTyped' /\ RemovesOrphans
<1>0. DirsTyped
  BY DEF Inv
<1>1. CASE Remove(w)
  <2>1. \A d \in Sweep(w).at : Orphaned(row[d[2]])
    BY <1>1 DEF Inv, Remove, SweepsSound, Knows
  <2>2. \A d \in Dirs :
          dir'[d] = IF d \in Sweep(w).at /\ dir[d] # "none" THEN "gone" ELSE dir[d]
    BY <1>1 DEF Remove
  <2>3. DirsTyped'
    BY <1>0, <1>1 DEF Remove, DirsTyped
  <2> QED  BY <2>1, <2>2, <2>3 DEF RemovesOrphans
<1>2. CASE ~Remove(w)
  <2>1. UNCHANGED dir
    BY <1>2 DEF SweepStep, SweepEnds, Stat, FindRow
  <2> QED  BY <1>0, <2>1 DEF DirsTyped, RemovesOrphans
<1> QED  BY <1>1, <1>2

-----------------------------------------------------------------------------
(* The invariant.                                                          *)

LEMMA InitInv == Init => Inv
<1> SUFFICES ASSUME Init
             PROVE  Inv
  OBVIOUS
<1>1. RowsTyped /\ RowsSound
  BY DEF Init, RowsTyped, RowsSound, Status
<1>2. DirsTyped /\ GoneWereOrphans
  BY DEF Init, DirsTyped, GoneWereOrphans
<1>3. RestTyped
  BY OrphanAssumption DEF Init, RestTyped
<1>4. \A w \in Replicas : replica[w].state = "down" /\ replica[w].sweep = NoSweep
  BY DEF Init
<1>5. ReplicasTyped
  BY SweepOps DEF Init, ReplicasTyped, Replica
<1>6. SweepsSound
  BY <1>4, SweepOps DEF SweepsSound, Sweep
<1> QED  BY <1>1, <1>2, <1>3, <1>5, <1>6 DEF Inv

\* What rows have become binds the sweeps that read them before.
LEMMA RowsKept ==
    ASSUME Inv, \A j \in Jobs : Follows(row[j], row'[j]), UNCHANGED replica
    PROVE  ReplicasTyped' /\ SweepsSound'
<1>1. ReplicasTyped'
  BY DEF Inv, ReplicasTyped
<1>2. ASSUME NEW w \in Replicas
      PROVE  Knows(Sweep(w))'
  <2>0. /\ Sweep(w) \in SweepRecord /\ Knows(Sweep(w)) /\ Sweep(w)' = Sweep(w)
        /\ \A d \in Dirs : d[2] \in Jobs
    BY DEF Inv, ReplicasTyped, Replica, SweepsSound, Sweep, Dirs
  <2>1. \A j \in Sweep(w).long : j \in Jobs /\ (row[j].finished = "old" \/ row[j].status = "missing")
    BY <2>0 DEF Knows, SweepRecord
  <2>2. \A j \in Sweep(w).long : row'[j].finished = "old" \/ row'[j].status = "missing"
    BY <2>1 DEF Follows
  <2>3. ASSUME Sweep(w).pc = "rm", NEW d \in Sweep(w).at
        PROVE  Orphaned(row'[d[2]])
    <3>1. d[2] \in Jobs /\ Orphaned(row[d[2]])
      BY <2>0, <2>3 DEF Knows, SweepRecord
    <3> QED  BY <3>1 DEF Follows
  <2> QED  BY <2>0, <2>2, <2>3 DEF Knows, Orphaned
<1> QED  BY <1>1, <1>2 DEF Inv, SweepsSound, OneAtATime, Sweep

LEMMA RestStep == Inv /\ [Next]_vars => RestTyped'
<1> SUFFICES ASSUME Inv, [Next]_vars
             PROVE  RestTyped'
  OBVIOUS
<1>0. RestTyped
  BY DEF Inv
<1>1. CASE UNCHANGED vars
  BY <1>0, <1>1 DEF vars, RestTyped
<1>2. ASSUME NEW j \in Jobs, JobStep(j)
      PROVE  RestTyped'
  <2>1. UNCHANGED <<tick, faults>>
    BY <1>2 DEF JobStep, CallBegins, CallMoves, CallDecides, CallMakesResults, RunWrites, RunEnds,
                Cancel, Reclaim, Expire, RowRemoved, EndAges
  <2>2. running' \in {running, running \cup {j}, running \ {j}}
    BY <1>2 DEF JobStep, CallBegins, CallMoves, CallDecides, CallMakesResults, RunWrites, RunEnds,
                Cancel, Reclaim, Expire, RowRemoved, EndAges
  <2>3. \/ UNCHANGED call
        \/ \E c \in {"move", "decide", "mkdir", "done"} : call' = [call EXCEPT ![j] = c]
    BY <1>2 DEF JobStep, CallBegins, CallMoves, CallDecides, CallMakesResults, RunWrites, RunEnds,
                Cancel, Reclaim, Expire, RowRemoved, EndAges
  <2>4. call' \in [Jobs -> {"none", "move", "decide", "mkdir", "done"}]
    BY <1>0, <2>3 DEF RestTyped
  <2> QED  BY <1>0, <2>1, <2>2, <2>4 DEF RestTyped
<1>3. ASSUME NEW d \in Dirs, DirAges(d)
      PROVE  RestTyped'
  BY <1>0, <1>3 DEF DirAges, RestTyped
<1>4. CASE Tick
  BY <1>0, <1>4 DEF Tick, RestTyped
<1>5. ASSUME NEW w \in Replicas, ReplicaStep(w) \/ SweepStarts(w) \/ SweepStep(w)
      PROVE  RestTyped'
  <2>1. UNCHANGED <<call, running>>
    BY <1>5 DEF ReplicaStep, Boot, Terminate, CronCloses, HandleCloses, Exit, Crash, SweepThrows,
                SweepStarts, SweepStep, SweepEnds, Stat, FindRow, Remove
  <2>2. UNCHANGED faults \/ Fault
    BY <1>5 DEF ReplicaStep, Boot, Terminate, CronCloses, HandleCloses, Exit, Crash, SweepThrows,
                SweepStarts, SweepStep, SweepEnds, Stat, FindRow, Remove
  <2>3. \/ UNCHANGED tick
        \/ tick' = [tick EXCEPT !.upserted = TRUE]
        \/ tick' = [tick EXCEPT !.waiting = FALSE]
    BY <1>5 DEF ReplicaStep, Boot, Terminate, CronCloses, HandleCloses, Exit, Crash, SweepThrows,
                SweepStarts, SweepStep, SweepEnds, Stat, FindRow, Remove
  <2>4. faults' \in 0 .. Faults
    BY <1>0, <2>2, OrphanAssumption DEF RestTyped, Fault
  <2>5. tick' \in [upserted : BOOLEAN, waiting : BOOLEAN]
    BY <1>0, <2>3 DEF RestTyped
  <2> QED  BY <1>0, <2>1, <2>4, <2>5 DEF RestTyped
<1> QED  BY <1>1, <1>2, <1>3, <1>4, <1>5 DEF Next

LEMMA FilesStep ==
    ASSUME Inv, [Next]_vars
    PROVE  /\ RowsTyped' /\ RowsSound' /\ \A j \in Jobs : Follows(row[j], row'[j])
           /\ DirsTyped' /\ RemovesOrphans
           /\ ReplicasTyped' /\ SweepsSound'
<1>0. RowsTyped /\ RowsSound /\ DirsTyped
  BY DEF Inv
<1>1. CASE UNCHANGED vars
  <2>1. UNCHANGED row /\ UNCHANGED dir /\ UNCHANGED replica
    BY <1>1 DEF vars
  <2>2. DirsTyped' /\ RemovesOrphans
    BY <1>0, <2>1 DEF DirsTyped, RemovesOrphans
  <2> QED  BY <1>0, <2>1, <2>2, SameRows, RowsKept
<1>2. ASSUME NEW j \in Jobs, JobStep(j)
      PROVE  /\ RowsTyped' /\ RowsSound' /\ \A k \in Jobs : Follows(row[k], row'[k])
             /\ DirsTyped' /\ RemovesOrphans
             /\ ReplicasTyped' /\ SweepsSound'
  BY <1>2, JobRows, JobDirs, RowsKept
<1>3. ASSUME NEW d \in Dirs, DirAges(d)
      PROVE  /\ RowsTyped' /\ RowsSound' /\ \A k \in Jobs : Follows(row[k], row'[k])
             /\ DirsTyped' /\ RemovesOrphans
             /\ ReplicasTyped' /\ SweepsSound'
  <2>1. UNCHANGED row /\ UNCHANGED replica /\ dir' = [dir EXCEPT ![d] = "old"]
    BY <1>3 DEF DirAges
  <2>2. DirsTyped' /\ RemovesOrphans
    BY <1>0, <2>1 DEF DirsTyped, RemovesOrphans
  <2> QED  BY <1>0, <2>1, <2>2, SameRows, RowsKept
<1>4. CASE Tick
  <2>1. UNCHANGED row /\ UNCHANGED dir /\ UNCHANGED replica
    BY <1>4 DEF Tick
  <2>2. DirsTyped' /\ RemovesOrphans
    BY <1>0, <2>1 DEF DirsTyped, RemovesOrphans
  <2> QED  BY <1>0, <2>1, <2>2, SameRows, RowsKept
<1>5. ASSUME NEW w \in Replicas, ReplicaStep(w) \/ SweepStarts(w)
      PROVE  /\ RowsTyped' /\ RowsSound' /\ \A k \in Jobs : Follows(row[k], row'[k])
             /\ DirsTyped' /\ RemovesOrphans
             /\ ReplicasTyped' /\ SweepsSound'
  <2>1. ReplicasTyped' /\ SweepsSound' /\ UNCHANGED row /\ UNCHANGED dir
    BY <1>5, ReplicaSweeps, StartSweeps
  <2>2. DirsTyped' /\ RemovesOrphans
    BY <1>0, <2>1 DEF DirsTyped, RemovesOrphans
  <2> QED  BY <1>0, <2>1, <2>2, SameRows
<1>6. ASSUME NEW w \in Replicas, SweepStep(w)
      PROVE  /\ RowsTyped' /\ RowsSound' /\ \A k \in Jobs : Follows(row[k], row'[k])
             /\ DirsTyped' /\ RemovesOrphans
             /\ ReplicasTyped' /\ SweepsSound'
  BY <1>0, <1>6, StepSweeps, StepDirs, SameRows
<1> QED  BY <1>1, <1>2, <1>3, <1>4, <1>5, <1>6 DEF Next

LEMMA StepInv == Inv /\ [Next]_vars => Inv'
<1> SUFFICES ASSUME Inv, [Next]_vars
             PROVE  Inv'
  OBVIOUS
<1>1. ASSUME NEW d \in Dirs, dir'[d] = "gone"
      PROVE  Orphaned(row'[d[2]])
  <2>1. d[2] \in Jobs
    BY DEF Dirs
  <2>2. Orphaned(row[d[2]])
    BY <1>1, FilesStep DEF RemovesOrphans, Inv, GoneWereOrphans
  <2> QED  BY <2>1, <2>2, FilesStep DEF Follows
<1>2. GoneWereOrphans'
  BY <1>1 DEF GoneWereOrphans, Orphaned
<1> QED  BY <1>2, FilesStep, RestStep DEF Inv

LEMMA AlwaysInv == Spec => []Inv
BY InitInv, StepInv, PTL DEF Spec

\* Whatever the sweeps, the hook's calls, the compressions, cancels and the
\* operator do between a sweep's readdir, stat, findUnique and rm, the rm takes
\* only directories of jobs without a row or expired a day after their end
\* (orphan-sweep.ts, "Considers a directory orphan when").
THEOREM SweepSparesLiveJobs == Spec => []LiveJobsKeepTheirDirs
<1>1. Inv => LiveJobsKeepTheirDirs
  BY DEF Inv, GoneWereOrphans, Orphaned, LiveJobsKeepTheirDirs
<1> QED  BY <1>1, AlwaysInv, PTL

\* However many replicas tick, crash and are told to stop, none closes its
\* connections under a sweep of its own (index.ts, "Close cleanup-cron first so
\* its in-flight sweeps drain").
THEOREM SweepsDrain == Spec => []OrphanInv
<1>1. ASSUME Inv
      PROVE  TypeOK
  <2>1. ASSUME NEW w \in Replicas
        PROVE  /\ replica[w].state \in {"down", "up", "draining", "drained", "closed"}
               /\ replica[w].sweep \in SweepRecord
               /\ OneAtATime(replica[w].sweep)
    BY <1>1 DEF Inv, ReplicasTyped, Replica, SweepsSound, Sweep
  <2>2. ASSUME NEW s \in SweepRecord, OneAtATime(s)
        PROVE  Cardinality(s.at) = IF s.pc \in {"find", "rm"} THEN 1 ELSE 0
    BY <2>2, FS_EmptySet, FS_Singleton DEF OneAtATime
  <2>3. ASSUME NEW w \in Replicas
        PROVE  Cardinality(replica[w].sweep.at)
                   = IF replica[w].sweep.pc \in {"find", "rm"} THEN 1 ELSE 0
    BY <2>1, <2>2
  <2> QED  BY <1>1, <2>1, <2>3 DEF Inv, RowsTyped, DirsTyped, RestTyped, TypeOK, SweepRecord
<1>2. Inv => SweepsDrainFirst
  BY DEF Inv, SweepsSound, SweepsDrainFirst
<1> QED  BY <1>1, <1>2, AlwaysInv, PTL DEF OrphanInv

=============================================================================
