---------------------------- MODULE JobPipeline ----------------------------
(***************************************************************************)
(* The life of compression jobs across the processes that touch their      *)
(* rows: the API (upload reservation, tusd's post-finish hook, DELETE),    *)
(* BullMQ, the worker's processJob and the expired sweep.  Every database  *)
(* or Redis call is a step of its own, so any two actors interleave        *)
(* between an await and the next statement, and an actor may die there.    *)
(*                                                                         *)
(* tusd (delivers and redelivers the hook) and BullMQ (hands an entry to a *)
(* worker, retries it, declares it stalled) are external: they do what the *)
(* code relies on.  A Prisma updateMany is one guarded UPDATE.             *)
(***************************************************************************)
EXTENDS Naturals, FiniteSets

CONSTANTS
    Jobs,          \* job ids
    Calls,         \* post-finish hook calls that may be in progress at once
    Slots,         \* worker concurrency slots, over all replicas
    Deletes,       \* DELETE /jobs/:id requests that may be in progress at once
    Sweepers,      \* expired-sweep ticks that may be in progress at once
    NoJob,         \* "no job", for idle actors
    NoSlot,        \* "no slot", for queue entries nobody holds
    MaxAttempts,   \* BullMQ "attempts" of queue.add (3 in the code)
    MaxStalled,    \* BullMQ maxStalledCount (its default, 1)
    MountDepth,    \* path segments of MEDIA_MOUNT_PATH ("/media" has 1)
    OneMount,      \* are tusd's files and the uploads on one mount?
    LockMayLapse,  \* may a live worker lose its BullMQ lock (5 min)?
    ApiFaults,     \* bound: crashes or thrown calls inside API handlers
    WorkerFaults,  \* bound: crashes or thrown calls inside the worker
    AllFaults      \* bound: the two together

ASSUME PipelineAssumption ==
    /\ NoJob \notin Jobs
    /\ NoSlot \notin Slots
    /\ MaxAttempts \in Nat \ {0}
    /\ MaxStalled \in Nat
    /\ MountDepth \in Nat
    /\ OneMount \in BOOLEAN
    /\ LockMayLapse \in BOOLEAN
    /\ ApiFaults \in Nat
    /\ WorkerFaults \in Nat
    /\ AllFaults \in Nat

VARIABLES
    status,     \* Job.status
    row,        \* the other columns that guard or are guarded
    source,     \* where the uploaded bytes are
    output,     \* results/<user>/<job>/output
    entry,      \* the job's BullMQ entry
    cancelFlag, \* Redis key cancel:<job>
    outcomes,   \* terminal statuses published on job:status:<job>
    call, slot, delete, sweep,   \* the actors
    faults      \* faults suffered so far

vars == <<status, row, source, output, entry, cancelFlag, outcomes,
          call, slot, delete, sweep, faults>>

-----------------------------------------------------------------------------

Lifecycle == INSTANCE JobLifecycle
Status == Lifecycle!Status
Terminal == Lifecycle!Terminal
Outcome == {"succeeded", "failed", "canceled"}
Clock == {"null", "ahead", "past"}     \* a nullable deadline column
Keys == {"input", "output"}            \* inputStorageKey, outputStorageKey

Row == [upload : Clock, result : Clock, keys : SUBSET Keys, finished : {"null", "set"}]
Entry == [state : {"none", "waiting", "active", "completed", "failed"},
          holder : Slots \cup {NoSlot},
          attempts : Nat, stalls : 0 .. MaxStalled]
\* Where the uploaded bytes are.  "tusd": in tusd's file alone; "copying",
\* "copied": there, and perhaps or surely in source.bin too; "final", "torn":
\* in source.bin alone, which in the second case may be cut or missing.
Source == {"none", "tusd", "copying", "copied", "final", "torn", "gone"}
Call == [pc : {"idle", "move", "copy", "fill", "patch", "unlink",
               "detect", "accept", "reject", "enqueue"},
         job : Jobs \cup {NoJob}]
Run == [pc : {"idle", "begin", "announce", "compress", "write",
              "publish", "settle"},
        job : Jobs \cup {NoJob}, signal : {"live", "aborted"},
        outcome : Outcome \cup {"none"}]
Slot == {r \in Run : r.pc \in {"write", "publish"} => r.outcome \in Outcome}
Delete == [pc : {"idle", "flag", "update", "publish"}, job : Jobs \cup {NoJob}]
Sweep == [pc : {"idle", "lock", "mark", "unlink"}, job : Jobs \cup {NoJob},
          keys : SUBSET Keys]

IdleCall == [pc |-> "idle", job |-> NoJob]
IdleSlot == [pc |-> "idle", job |-> NoJob, signal |-> "live", outcome |-> "none"]
IdleDelete == [pc |-> "idle", job |-> NoJob]
IdleSweep == [pc |-> "idle", job |-> NoJob, keys |-> {}]

TypeOK ==
    /\ status \in [Jobs -> Status]
    /\ row \in [Jobs -> Row]
    /\ source \in [Jobs -> Source]
    /\ output \in [Jobs -> {"none", "partial", "whole"}]
    /\ entry \in [Jobs -> Entry]
    /\ cancelFlag \in [Jobs -> BOOLEAN]
    /\ outcomes \in [Jobs -> [Outcome -> 0 .. 2]]
    /\ call \in [Calls -> Call]
    /\ slot \in [Slots -> Slot]
    /\ delete \in [Deletes -> Delete]
    /\ sweep \in [Sweepers -> Sweep]
    /\ faults \in [api : 0 .. ApiFaults, worker : 0 .. WorkerFaults]

Init ==
    /\ status = [j \in Jobs |-> "absent"]
    /\ row = [j \in Jobs |-> [upload |-> "null", result |-> "null",
                              keys |-> {}, finished |-> "null"]]
    /\ source = [j \in Jobs |-> "none"]
    /\ output = [j \in Jobs |-> "none"]
    /\ entry = [j \in Jobs |-> [state |-> "none", holder |-> NoSlot,
                                attempts |-> 0, stalls |-> 0]]
    /\ cancelFlag = [j \in Jobs |-> FALSE]
    /\ outcomes = [j \in Jobs |-> [o \in Outcome |-> 0]]
    /\ call = [c \in Calls |-> IdleCall]
    /\ slot = [w \in Slots |-> IdleSlot]
    /\ delete = [d \in Deletes |-> IdleDelete]
    /\ sweep = [s \in Sweepers |-> IdleSweep]
    /\ faults = [api |-> 0, worker |-> 0]

-----------------------------------------------------------------------------
(* Guards shared by the writers of a row.                                  *)

\* An update without a status guard, for the mutants of the guards below.
AnyStatus(j) == TRUE

\* The guard `status: { notIn: TERMINAL_STATUS }` of the worker's updates.
WorkerGuard(j) == status[j] \notin Terminal

\* The same list, written out in the DELETE route.
DeleteGuard(j) == status[j] \notin Terminal

\* The guard `status: 'uploading'` of the post-finish hook's updates.
UploadingGuard(j) == status[j] = "uploading"

\* A message on job:status:<job>; the count of equal messages is capped at 2.
Told(f, o) == [f EXCEPT ![o] = IF @ = 0 THEN 1 ELSE 2]
Publish(j, o) == outcomes' = [outcomes EXCEPT ![j] = Told(@, o)]

\* What an update writes into the other columns of the row.
RejectedRow(r) == [r EXCEPT !.upload = "null", !.finished = "set"]
AcceptedRow(r) == [r EXCEPT !.upload = "null", !.keys = {"input"}]
EndedRow(r) == [r EXCEPT !.finished = "set"]
SucceededRow(r) ==
    [r EXCEPT !.finished = "set", !.result = "ahead", !.keys = @ \cup {"output"}]

-----------------------------------------------------------------------------
(* Reservation, upload and the passing of deadlines.                       *)

\* reserveQuota's tx.job.create: a new row with a 24 h upload deadline.
Reserve(j) ==
    /\ status[j] = "absent"
    /\ status' = [status EXCEPT ![j] = "uploading"]
    /\ row' = [row EXCEPT ![j].upload = "ahead"]
    /\ UNCHANGED <<source, output, entry, cancelFlag, outcomes, call, slot, delete, sweep, faults>>

\* tusd has received the last byte of the upload.
UploadDone(j) ==
    /\ status[j] # "absent"
    /\ source[j] = "none"
    /\ source' = [source EXCEPT ![j] = "tusd"]
    /\ UNCHANGED <<status, row, output, entry, cancelFlag, outcomes, call, slot, delete, sweep, faults>>

UploadDeadlinePasses(j) ==
    /\ row[j].upload = "ahead"
    /\ row' = [row EXCEPT ![j].upload = "past"]
    /\ UNCHANGED <<status, source, output, entry, cancelFlag, outcomes, call, slot, delete, sweep, faults>>

ResultDeadlinePasses(j) ==
    /\ row[j].result = "ahead"
    /\ row' = [row EXCEPT ![j].result = "past"]
    /\ UNCHANGED <<status, source, output, entry, cancelFlag, outcomes, call, slot, delete, sweep, faults>>

\* The same user's next reserveQuota expires abandoned uploads.
Reclaim(j) ==
    /\ UploadingGuard(j)
    /\ row[j].upload = "past"
    /\ status' = [status EXCEPT ![j] = "expired"]
    /\ row' = [row EXCEPT ![j] = EndedRow(@)]
    /\ UNCHANGED <<source, output, entry, cancelFlag, outcomes, call, slot, delete, sweep, faults>>

-----------------------------------------------------------------------------
(* The post-finish hook.  tusd delivers it again after a 500 or a lost     *)
(* answer, possibly while an earlier call still runs.  A call that finds   *)
(* another status than uploading answers 200 and changes nothing.          *)

\* What follows the status check; in the mutant, the row goes first.
RowFirst == "accept"
AfterCheck == "move"

HookReceive(c, j) ==
    /\ call[c].pc = "idle"
    /\ source[j] # "none"
    /\ status[j] = "uploading"
    /\ call' = [call EXCEPT ![c] = [pc |-> AfterCheck, job |-> j]]
    /\ UNCHANGED <<status, row, source, output, entry, cancelFlag, outcomes, slot, delete, sweep, faults>>

\* Is the upload still where tusd left it?
WithTusd(j) == source[j] \in {"tusd", "copying", "copied"}

\* mkdir and rename.  Across mounts that is EXDEV, and copyFile opens tusd's
\* file.  A source that is no longer there ends in a 500.
HookMove(c) ==
    LET j == call[c].job IN
    /\ call[c].pc = "move"
    /\ \/ /\ WithTusd(j)
          /\ source' = [source EXCEPT ![j] = IF OneMount THEN "final" ELSE @]
          /\ call' = [call EXCEPT ![c].pc = IF OneMount THEN "detect" ELSE "copy"]
       \/ /\ ~WithTusd(j)
          /\ call' = [call EXCEPT ![c] = IdleCall]
          /\ UNCHANGED source
    /\ UNCHANGED <<status, row, output, entry, cancelFlag, outcomes, slot, delete, sweep, faults>>

\* A source.bin that is created or truncated, whose copy comes to its end,
\* that is left alone by tusd's file, that a failing copy removes.
Truncated(f) == IF f \in {"tusd", "copying", "copied"} THEN "copying" ELSE "torn"
Filled(f) == IF f = "copying" THEN "copied" ELSE IF f = "torn" THEN "final" ELSE f
Left(f) == IF f = "copied" THEN "final" ELSE "torn"
Spoiled(f) == IF f = "copied" THEN "copying" ELSE IF f = "final" THEN "torn" ELSE f

\* copyFile truncates source.bin, whoever may have filled it or be filling
\* it; the copies under way then no longer make it whole.
HookTruncate(c) ==
    LET j == call[c].job IN
    /\ call[c].pc = "copy"
    /\ source' = [source EXCEPT ![j] = Truncated(@)]
    /\ call' = [b \in Calls |->
          IF b = c THEN [pc |-> "fill", job |-> j]
          ELSE IF call[b].pc = "fill" /\ call[b].job = j THEN [pc |-> "patch", job |-> j]
          ELSE call[b]]
    /\ UNCHANGED <<status, row, output, entry, cancelFlag, outcomes, slot, delete, sweep, faults>>

HookFill(c) ==
    LET j == call[c].job IN
    /\ call[c].pc \in {"fill", "patch"}
    /\ source' = [source EXCEPT ![j] = IF call[c].pc = "fill" THEN Filled(@) ELSE @]
    /\ call' = [call EXCEPT ![c].pc = "unlink"]
    /\ UNCHANGED <<status, row, output, entry, cancelFlag, outcomes, slot, delete, sweep, faults>>

\* The second of two calls finds no file to unlink: a 500.
HookUnlink(c) ==
    LET j == call[c].job IN
    /\ call[c].pc = "unlink"
    /\ \/ /\ WithTusd(j)
          /\ source' = [source EXCEPT ![j] = Left(@)]
          /\ call' = [call EXCEPT ![c].pc = "detect"]
       \/ /\ ~WithTusd(j)
          /\ call' = [call EXCEPT ![c] = IdleCall]
          /\ UNCHANGED source
    /\ UNCHANGED <<status, row, output, entry, cancelFlag, outcomes, slot, delete, sweep, faults>>

\* detectMimeFromFile: the magic bytes name a type, or they do not; in the
\* mutant a file without a type leaves the row as it is.
UnmarkedReject == {"accept", "idle"}
AfterDetect == {"accept", "reject"}

HookDetect(c) ==
    /\ call[c].pc = "detect"
    /\ \E next \in AfterDetect : call' = [call EXCEPT ![c].pc = next]
    /\ UNCHANGED <<status, row, source, output, entry, cancelFlag, outcomes, slot, delete, sweep, faults>>

HookReject(c) ==
    LET j == call[c].job IN
    /\ call[c].pc = "reject"
    /\ \/ /\ UploadingGuard(j)
          /\ status' = [status EXCEPT ![j] = "failed"]
          /\ row' = [row EXCEPT ![j] = RejectedRow(@)]
       \/ ~UploadingGuard(j) /\ UNCHANGED <<status, row>>
    /\ call' = [call EXCEPT ![c] = IdleCall]
    /\ UNCHANGED <<source, output, entry, cancelFlag, outcomes, slot, delete, sweep, faults>>

\* Only the call whose updateMany counted a row goes on to queue.add; in
\* the mutant every call does.
EveryCallEnqueues(j, won) == [pc |-> "enqueue", job |-> j]
AfterAccept(j, won) == IF won THEN [pc |-> "enqueue", job |-> j] ELSE IdleCall

HookAccept(c) ==
    LET j == call[c].job IN
    /\ call[c].pc = "accept"
    /\ \/ /\ UploadingGuard(j)
          /\ status' = [status EXCEPT ![j] = "queued"]
          /\ row' = [row EXCEPT ![j] = AcceptedRow(@)]
       \/ ~UploadingGuard(j) /\ UNCHANGED <<status, row>>
    /\ call' = [call EXCEPT ![c] = AfterAccept(j, UploadingGuard(j))]
    /\ UNCHANGED <<source, output, entry, cancelFlag, outcomes, slot, delete, sweep, faults>>

Added(e) == [e EXCEPT !.state = IF @ = "none" THEN "waiting" ELSE @]

\* queue.add with jobId: BullMQ ignores an id it already has.
HookEnqueue(c) ==
    LET j == call[c].job IN
    /\ call[c].pc = "enqueue"
    /\ entry' = [entry EXCEPT ![j] = Added(@)]
    /\ call' = [call EXCEPT ![c] = IdleCall]
    /\ UNCHANGED <<status, row, source, output, cancelFlag, outcomes, slot, delete, sweep, faults>>

-----------------------------------------------------------------------------
(* DELETE /jobs/:id.                                                       *)

\* findFirst; a job that is not queued or processing gets its 204 at once.
DeleteRead(d, j) ==
    /\ delete[d].pc = "idle"
    /\ status[j] \in {"queued", "processing"}
    /\ delete' = [delete EXCEPT ![d] = [pc |-> "flag", job |-> j]]
    /\ UNCHANGED <<status, row, source, output, entry, cancelFlag, outcomes, call, slot, sweep, faults>>

DeleteFlag(d) ==
    /\ delete[d].pc = "flag"
    /\ cancelFlag' = [cancelFlag EXCEPT ![delete[d].job] = TRUE]
    /\ delete' = [delete EXCEPT ![d].pc = "update"]
    /\ UNCHANGED <<status, row, source, output, entry, outcomes, call, slot, sweep, faults>>

DeleteUpdate(d) ==
    LET j == delete[d].job IN
    /\ delete[d].pc = "update"
    /\ \/ /\ DeleteGuard(j)
          /\ status' = [status EXCEPT ![j] = "canceled"]
          /\ row' = [row EXCEPT ![j] = EndedRow(@)]
       \/ ~DeleteGuard(j) /\ UNCHANGED <<status, row>>
    /\ delete' = [delete EXCEPT ![d].pc = "publish"]
    /\ UNCHANGED <<source, output, entry, cancelFlag, outcomes, call, slot, sweep, faults>>

\* The publish does not look at updateMany's count.
DeletePublish(d) ==
    /\ delete[d].pc = "publish"
    /\ Publish(delete[d].job, "canceled")
    /\ delete' = [delete EXCEPT ![d] = IdleDelete]
    /\ UNCHANGED <<status, row, source, output, entry, cancelFlag, call, slot, sweep, faults>>

\* cancel:<job> lives 600 s.
CancelFlagExpires(j) ==
    /\ cancelFlag[j]
    /\ cancelFlag' = [cancelFlag EXCEPT ![j] = FALSE]
    /\ UNCHANGED <<status, row, source, output, entry, outcomes, call, slot, delete, sweep, faults>>

-----------------------------------------------------------------------------
(* BullMQ and processJob.                                                  *)

\* What becomes of the entry.
Held(e, w) == [e EXCEPT !.state = "active", !.holder = w]
Completed(e) == [e EXCEPT !.state = "completed", !.holder = NoSlot]
Failed(e) == [e EXCEPT !.state = "failed", !.holder = NoSlot]
Retried(e) ==
    [e EXCEPT !.state = IF e.attempts + 1 < MaxAttempts THEN "waiting" ELSE "failed",
              !.attempts = @ + 1,
              !.holder = NoSlot]
Settled(e, w, o) ==
    IF e.holder # w THEN e ELSE IF o = "succeeded" THEN Completed(e) ELSE Retried(e)
Stalled(e) == [e EXCEPT !.state = "waiting", !.stalls = @ + 1, !.holder = NoSlot]

\* How a run of processJob goes on.
Started(j) == [pc |-> "begin", job |-> j, signal |-> "live", outcome |-> "none"]
At(r, pc) == [r EXCEPT !.pc = pc]
Aborted(r) == [r EXCEPT !.signal = "aborted"]
Ended(r, o) == [r EXCEPT !.pc = "write", !.outcome = o]

Fetch(w, j) ==
    /\ slot[w].pc = "idle"
    /\ entry[j].state = "waiting"
    /\ entry' = [entry EXCEPT ![j] = Held(@, w)]
    /\ slot' = [slot EXCEPT ![w] = Started(j)]
    /\ UNCHANGED <<status, row, source, output, cancelFlag, outcomes, call, delete, sweep, faults>>

\* updateMany -> processing; the run goes on whatever the count was.
Begin(w) ==
    LET j == slot[w].job IN
    /\ slot[w].pc = "begin"
    /\ status' = [status EXCEPT ![j] = IF WorkerGuard(j) THEN "processing" ELSE @]
    /\ slot' = [slot EXCEPT ![w] = At(@, "announce")]
    /\ UNCHANGED <<row, source, output, entry, cancelFlag, outcomes, call, delete, sweep, faults>>

\* "processing" is published, and compress() starts.
Announce(w) ==
    /\ slot[w].pc = "announce"
    /\ slot' = [slot EXCEPT ![w] = At(@, "compress")]
    /\ UNCHANGED <<status, row, source, output, entry, cancelFlag, outcomes, call, delete, sweep, faults>>

\* The one-second poll of cancel:<job>.
Poll(w) ==
    /\ slot[w].pc = "compress"
    /\ cancelFlag[slot[w].job]
    /\ slot[w].signal = "live"
    /\ slot' = [slot EXCEPT ![w] = Aborted(@)]
    /\ UNCHANGED <<status, row, source, output, entry, cancelFlag, outcomes, call, delete, sweep, faults>>

\* ffmpeg -y (or sharp's toFile) truncates the output and starts writing.
OpenOutput(w) ==
    /\ slot[w].pc = "compress"
    /\ output[slot[w].job] # "partial"
    /\ output' = [output EXCEPT ![slot[w].job] = "partial"]
    /\ UNCHANGED <<status, row, source, entry, cancelFlag, outcomes, call, slot, delete, sweep, faults>>

\* compress() returned.  Only the image engine can return after an abort.
CompressReturns(w) ==
    /\ slot[w].pc = "compress"
    /\ output' = [output EXCEPT ![slot[w].job] = "whole"]
    /\ slot' = [slot EXCEPT ![w] = Ended(@, "succeeded")]
    /\ UNCHANGED <<status, row, source, entry, cancelFlag, outcomes, call, delete, sweep, faults>>

\* compress() threw: ffmpeg's error path removes the output, the others
\* leave what is there.
CompressThrows(w) ==
    /\ slot[w].pc = "compress"
    /\ \E left \in {output[slot[w].job], "none"} :
           output' = [output EXCEPT ![slot[w].job] = left]
    /\ slot' = [slot EXCEPT ![w] = Ended(@, "failed")]
    /\ UNCHANGED <<status, row, source, entry, cancelFlag, outcomes, call, delete, sweep, faults>>

\* ffmpeg ended by SIGTERM: the output is removed and CANCELED is thrown.
CompressAborts(w) ==
    /\ slot[w].pc = "compress"
    /\ slot[w].signal = "aborted"
    /\ output' = [output EXCEPT ![slot[w].job] = "none"]
    /\ slot' = [slot EXCEPT ![w] = Ended(@, "canceled")]
    /\ UNCHANGED <<status, row, source, entry, cancelFlag, outcomes, call, delete, sweep, faults>>

\* The outcome is published only if the row took it; in the mutant always.
EveryRunPublishes(won) == "publish"
AfterWrite(won) == IF won THEN "publish" ELSE "settle"

\* The guarded final update, of the try branch or of the catch branch.
WriteOutcome(w) ==
    LET j == slot[w].job
        o == slot[w].outcome IN
    /\ slot[w].pc = "write"
    /\ \/ /\ WorkerGuard(j)
          /\ status' = [status EXCEPT ![j] = o]
          /\ row' = [row EXCEPT ![j] = IF o = "succeeded" THEN SucceededRow(@) ELSE EndedRow(@)]
       \/ ~WorkerGuard(j) /\ UNCHANGED <<status, row>>
    /\ slot' = [slot EXCEPT ![w] = At(@, AfterWrite(WorkerGuard(j)))]
    /\ UNCHANGED <<source, output, entry, cancelFlag, outcomes, call, delete, sweep, faults>>

PublishOutcome(w) ==
    /\ slot[w].pc = "publish"
    /\ Publish(slot[w].job, slot[w].outcome)
    /\ slot' = [slot EXCEPT ![w] = At(@, "settle")]
    /\ UNCHANGED <<status, row, source, output, entry, cancelFlag, call, delete, sweep, faults>>

\* processJob returned or rethrew.  BullMQ completes the entry, retries it
\* or fails it, if this slot still holds its lock.
Settle(w) ==
    LET j == slot[w].job IN
    /\ slot[w].pc = "settle"
    /\ entry' = [entry EXCEPT ![j] = Settled(@, w, slot[w].outcome)]
    /\ slot' = [slot EXCEPT ![w] = IdleSlot]
    /\ UNCHANGED <<status, row, source, output, cancelFlag, outcomes, call, delete, sweep, faults>>

\* BullMQ's stalled check: the lock of an active entry has run out.  It
\* waits again, or fails once it has stalled more than MaxStalled times;
\* nothing in the worker tells the row.
HolderLives(j) == \E w \in Slots : entry[j].holder = w /\ slot[w].pc # "idle" /\ slot[w].job = j

Stall(j) ==
    /\ entry[j].state = "active"
    /\ LockMayLapse \/ ~HolderLives(j)
    /\ \/ /\ entry[j].stalls < MaxStalled
          /\ entry' = [entry EXCEPT ![j] = Stalled(@)]
       \/ /\ entry[j].stalls = MaxStalled
          /\ entry' = [entry EXCEPT ![j] = Failed(@)]
    /\ UNCHANGED <<status, row, source, output, cancelFlag, outcomes, call, slot, delete, sweep, faults>>

-----------------------------------------------------------------------------
(* The expired sweep.  A tick reads its batch once and then handles row    *)
(* after row; a row of the batch is modelled as a tick of its own whose    *)
(* read lies arbitrarily far back, which is all a later row can tell.      *)

Sweepable(j) ==
    \/ status[j] \in Outcome /\ row[j].result = "past"
    \/ status[j] = "uploading" /\ row[j].upload = "past"

SweepRead(s, j) ==
    /\ sweep[s].pc = "idle"
    /\ Sweepable(j)
    /\ sweep' = [sweep EXCEPT ![s] = [pc |-> "lock", job |-> j, keys |-> row[j].keys]]
    /\ UNCHANGED <<status, row, source, output, entry, cancelFlag, outcomes, call, slot, delete, faults>>

\* The cleanup lock, whose own protocol is CleanupProtocol's: taken when no
\* other sweeper holds it, or refused because of it or of a download.
LockFree(j) == \A s \in Sweepers : sweep[s].job = j => sweep[s].pc \notin {"mark", "unlink"}

\* The row is marked before its files go; in the mutant, after.
UnlinkFirst == "unlink"
AfterLock == "mark"

SweepLock(s) ==
    /\ sweep[s].pc = "lock"
    /\ \/ /\ LockFree(sweep[s].job)
          /\ sweep' = [sweep EXCEPT ![s].pc = AfterLock]
       \/ sweep' = [sweep EXCEPT ![s] = IdleSweep]
    /\ UNCHANGED <<status, row, source, output, entry, cancelFlag, outcomes, call, slot, delete, faults>>

\* updateMany notIn ['expired'] -> expired, whatever the row has become.
SweepMark(s) ==
    LET j == sweep[s].job IN
    /\ sweep[s].pc = "mark"
    /\ status' = [status EXCEPT ![j] = "expired"]
    /\ sweep' = [sweep EXCEPT ![s].pc = "unlink"]
    /\ UNCHANGED <<row, source, output, entry, cancelFlag, outcomes, call, slot, delete, faults>>

\* unlink(join(mount, key)) for the keys of the row as it was read.  The
\* output key is absolute, so the joined path is the file only if the mount
\* is "/".
Resolves(key) == key = "input" \/ MountDepth = 0

SweepUnlink(s) ==
    LET j == sweep[s].job
        gone == {k \in sweep[s].keys : Resolves(k)} IN
    /\ sweep[s].pc = "unlink"
    /\ source' = [source EXCEPT ![j] = IF "input" \in gone THEN "gone" ELSE @]
    /\ output' = [output EXCEPT ![j] = IF "output" \in gone THEN "none" ELSE @]
    /\ sweep' = [sweep EXCEPT ![s] = IdleSweep]
    /\ UNCHANGED <<status, row, entry, cancelFlag, outcomes, call, slot, delete, faults>>

-----------------------------------------------------------------------------
(* Faults.  A handler dies (crash, or an exception of a database, Redis or *)
(* file call) between two steps; ApiFaults, WorkerFaults and AllFaults      *)
(* bound how often.                                                        *)

MayFail == faults.api + faults.worker < AllFaults

HookDies(c) ==
    /\ call[c].pc # "idle"
    /\ faults.api < ApiFaults /\ MayFail
    /\ faults' = [faults EXCEPT !.api = @ + 1]
    /\ call' = [call EXCEPT ![c] = IdleCall]
    /\ \/ /\ call[c].pc \in {"fill", "patch"}
          /\ source' = [source EXCEPT ![call[c].job] = Spoiled(@)]
       \/ UNCHANGED source
    /\ UNCHANGED <<status, row, output, entry, cancelFlag, outcomes, slot, delete, sweep>>

DeleteDies(d) ==
    /\ delete[d].pc # "idle"
    /\ faults.api < ApiFaults /\ MayFail
    /\ faults' = [faults EXCEPT !.api = @ + 1]
    /\ delete' = [delete EXCEPT ![d] = IdleDelete]
    /\ UNCHANGED <<status, row, source, output, entry, cancelFlag, outcomes, call, slot, sweep>>

SlotDies(w) ==
    /\ slot[w].pc # "idle"
    /\ faults.worker < WorkerFaults /\ MayFail
    /\ faults' = [faults EXCEPT !.worker = @ + 1]
    /\ slot' = [slot EXCEPT ![w] = IdleSlot]
    /\ UNCHANGED <<status, row, source, output, entry, cancelFlag, outcomes, call, delete, sweep>>

SweepDies(s) ==
    /\ sweep[s].pc # "idle"
    /\ faults.worker < WorkerFaults /\ MayFail
    /\ faults' = [faults EXCEPT !.worker = @ + 1]
    /\ sweep' = [sweep EXCEPT ![s] = IdleSweep]
    /\ UNCHANGED <<status, row, source, output, entry, cancelFlag, outcomes, call, slot, delete>>

\* Mutants: a catch that forgets the outcome, and one that swallows.
ThrowForgotten(r) == [r EXCEPT !.pc = "write"]
ThrowSwallowed(r) == [r EXCEPT !.pc = "settle"]

\* A database or publish call of processJob throws.  In the try block a
\* success turns into a failure; elsewhere the exception leaves processJob.
AfterThrow(r) ==
    IF r.pc \in {"write", "publish"} /\ r.outcome = "succeeded"
    THEN Ended(r, "failed")
    ELSE [r EXCEPT !.pc = "settle", !.outcome = "failed"]

StoreThrows(w) ==
    /\ slot[w].pc \in {"begin", "announce", "write", "publish"}
    /\ faults.worker < WorkerFaults /\ MayFail
    /\ faults' = [faults EXCEPT !.worker = @ + 1]
    /\ slot' = [slot EXCEPT ![w] = AfterThrow(@)]
    /\ UNCHANGED <<status, row, source, output, entry, cancelFlag, outcomes, call, delete, sweep>>

-----------------------------------------------------------------------------

JobStep(j) ==
    \/ Reserve(j)
    \/ UploadDone(j)
    \/ UploadDeadlinePasses(j)
    \/ ResultDeadlinePasses(j)
    \/ Reclaim(j)
    \/ CancelFlagExpires(j)
    \/ Stall(j)

CallStep(c) ==
    \/ \E j \in Jobs : HookReceive(c, j)
    \/ HookMove(c)
    \/ HookTruncate(c)
    \/ HookFill(c)
    \/ HookUnlink(c)
    \/ HookDetect(c)
    \/ HookReject(c)
    \/ HookAccept(c)
    \/ HookEnqueue(c)
    \/ HookDies(c)

DeleteStep(d) ==
    \/ \E j \in Jobs : DeleteRead(d, j)
    \/ DeleteFlag(d)
    \/ DeleteUpdate(d)
    \/ DeletePublish(d)
    \/ DeleteDies(d)

SlotStep(w) ==
    \/ \E j \in Jobs : Fetch(w, j)
    \/ Begin(w)
    \/ Announce(w)
    \/ Poll(w)
    \/ OpenOutput(w)
    \/ CompressReturns(w)
    \/ CompressThrows(w)
    \/ CompressAborts(w)
    \/ WriteOutcome(w)
    \/ PublishOutcome(w)
    \/ Settle(w)
    \/ SlotDies(w)
    \/ StoreThrows(w)

SweepStep(s) ==
    \/ \E j \in Jobs : SweepRead(s, j)
    \/ SweepLock(s)
    \/ SweepMark(s)
    \/ SweepUnlink(s)
    \/ SweepDies(s)

Next ==
    \/ \E j \in Jobs : JobStep(j)
    \/ \E c \in Calls : CallStep(c)
    \/ \E d \in Deletes : DeleteStep(d)
    \/ \E w \in Slots : SlotStep(w)
    \/ \E s \in Sweepers : SweepStep(s)

Spec == Init /\ [][Next]_vars

\* A handler that runs goes on (Node's event loop), compress() ends, tusd
\* delivers the hook until the row has moved on, BullMQ hands out waiting
\* entries and checks for stalled ones.
HookGoesOn(c) ==
    \/ HookMove(c)
    \/ HookTruncate(c)
    \/ HookFill(c)
    \/ HookUnlink(c)
    \/ HookDetect(c)
    \/ HookReject(c)
    \/ HookAccept(c)
    \/ HookEnqueue(c)

RunGoesOn(w) ==
    \/ Begin(w)
    \/ Announce(w)
    \/ CompressReturns(w)
    \/ CompressThrows(w)
    \/ CompressAborts(w)
    \/ WriteOutcome(w)
    \/ PublishOutcome(w)
    \/ Settle(w)

Fairness ==
    /\ \A j \in Jobs : WF_vars(\E c \in Calls : HookReceive(c, j))
    /\ \A c \in Calls : WF_vars(HookGoesOn(c))
    /\ \A w \in Slots : WF_vars(\E j \in Jobs : Fetch(w, j))
    /\ \A w \in Slots : WF_vars(RunGoesOn(w))
    /\ \A j \in Jobs : WF_vars(Stall(j) /\ ~HolderLives(j))

FairSpec == Spec /\ Fairness

-----------------------------------------------------------------------------
(* Properties.                                                             *)

\* Whatever the hooks, workers, cancels and sweeps interleave to, the row
\* only moves the way JobLifecycle allows: in particular no late worker
\* write, retry or cancel ever replaces a final status (the notIn guards
\* of consumer.ts and jobs-routes.ts), and nothing but the hook's accepted
\* call lets a job reach processing.
ImplementsLifecycle == Lifecycle!Spec

\* A job has a queue entry only if the hook accepted its upload: one that
\* was reclaimed, swept or rejected while a call was still moving its file
\* never reaches a worker (post-finish-hook.ts, "queue.add ONLY when the
\* status-transition actually happened").
EntryOnlyIfAccepted ==
    \A j \in Jobs : entry[j].state # "none" => "input" \in row[j].keys

\* A worker that may still write the row finds the input where the payload
\* says: a queued or processing job has its source.bin in place (the hook
\* moves first and marks later; no sweep unlinks an input in use).  Moved by
\* a rename it is whole, too; across mounts the bytes have left tusd, but a
\* late delivery's copy may still be writing over the file.
InputInPlace ==
    \A j \in Jobs : status[j] \in {"queued", "processing"} =>
        source[j] = "final" \/ (~OneMount /\ source[j] = "torn")

\* Subscribers are told at most one result of the work, once, and it is the
\* one the row holds (or held until it expired), with stalled re-runs,
\* retries and crashes included (consumer.ts, "stalled-retry darf nicht
\* doppelt publizieren").
ResultAnnouncedOnce ==
    \A j \in Jobs :
        /\ outcomes[j]["succeeded"] + outcomes[j]["failed"] <= 1
        /\ \A o \in {"succeeded", "failed"} :
              outcomes[j][o] > 0 => status[j] \in {o, "expired"}

\* As long as no worker dies and the entry never stalls, a succeeded job has
\* a complete output file: no retry, cancel or sweep touches it.
SucceededHasOutput ==
    \A j \in Jobs :
        status[j] = "succeeded" /\ entry[j].stalls = 0 /\ faults.worker = 0
        => output[j] = "whole"

\* BullMQ never gives an entry up while its row still says in flight: when
\* the queue is done with a job, everybody can see how it ended.
QueueDoneMeansRowDone ==
    \A j \in Jobs : entry[j].state \in {"completed", "failed"} => status[j] \in Terminal

\* A job that was accepted ends: it succeeds, fails, is canceled or expires,
\* unless an API handler died (between the row and queue.add, or with the
\* DELETE's flag set and its row not written).
AcceptedJobsEnd ==
    \A j \in Jobs : status[j] = "queued" ~> status[j] \in Terminal \/ faults.api > 0

\* An upload whose last byte tusd has leaves the status uploading: some
\* delivery of the hook accepts or rejects it, however the deliveries race
\* (post-finish-hook.ts, "tusd retries the post-finish hook").
UploadsSettle ==
    \A j \in Jobs :
        source[j] # "none" ~> status[j] # "uploading" \/ faults.api > 0

-----------------------------------------------------------------------------
(* The inductive invariant behind the safety properties: what each actor   *)
(* knows about the row between two of its steps.                           *)

\* The hook has let the job through; it never goes back.
Accepted(j) == status[j] \notin {"absent", "uploading"} /\ "input" \in row[j].keys

UnacceptedHasNoKeys ==
    \A j \in Jobs : status[j] \in {"absent", "uploading"} => row[j].keys = {}

OnlyAcceptedInFlight ==
    \A j \in Jobs :
        /\ status[j] \in {"queued", "processing", "succeeded"} => Accepted(j)
        /\ entry[j].state # "none" => Accepted(j)

CallKnows(c) ==
    LET j == call[c].job IN
    /\ call[c].pc # "idle" => j \in Jobs /\ status[j] # "absent"
    /\ call[c].pc \in {"copy", "fill", "patch", "unlink"} => ~OneMount
    /\ call[c].pc \in {"detect", "accept", "reject"} => source[j] \in {"final", "torn", "gone"}
    /\ call[c].pc = "enqueue" => Accepted(j)

DeleteKnows(d) ==
    delete[d].pc # "idle" => delete[d].job \in Jobs /\ Accepted(delete[d].job)

SlotKnows(w) ==
    LET j == slot[w].job IN
    /\ slot[w].pc # "idle" => j \in Jobs /\ Accepted(j)
    /\ slot[w].pc \in {"announce", "compress", "write"} => status[j] \in {"processing"} \cup Terminal
    /\ slot[w].pc = "publish" =>
          /\ status[j] \in {slot[w].outcome, "expired"}
          /\ outcomes[j]["succeeded"] = 0 /\ outcomes[j]["failed"] = 0

OnePublisher ==
    \A v, w \in Slots :
        slot[v].pc = "publish" /\ slot[w].pc = "publish" /\ slot[v].job = slot[w].job => v = w

SweepKnows(s) ==
    LET j == sweep[s].job IN
    /\ sweep[s].pc # "idle" => j \in Jobs /\ status[j] # "absent"
    /\ sweep[s].keys # {} => sweep[s].pc # "idle" /\ status[j] \in Terminal

SourceGoesLast ==
    \A j \in Jobs : source[j] = "gone" => status[j] \in Terminal

RenamesAreWhole ==
    OneMount => \A j \in Jobs : source[j] \notin {"copying", "copied", "torn"}

PipelineInv ==
    /\ UnacceptedHasNoKeys
    /\ OnlyAcceptedInFlight
    /\ \A c \in Calls : CallKnows(c)
    /\ \A d \in Deletes : DeleteKnows(d)
    /\ \A w \in Slots : SlotKnows(w)
    /\ OnePublisher
    /\ \A s \in Sweepers : SweepKnows(s)
    /\ SourceGoesLast
    /\ RenamesAreWhole
    /\ InputInPlace
    /\ ResultAnnouncedOnce

-----------------------------------------------------------------------------
(* What a comment or a test says and the code does not do.                 *)

\* post-finish-hook.ts:98: tusd retries the hook after a transient failure.  As
\* long as the row is uploading and no other call has its file in hand, a
\* retry finds the upload where tusd left it, so it can still succeed.
RetryFindsUpload ==
    \A c \in Calls : LET j == call[c].job IN
        /\ call[c].pc = "move"
        /\ status[j] = "uploading"
        /\ \A b \in Calls : call[b].job = j => call[b].pc = "move"
        => WithTusd(j)

\* jobs-routes.ts:109: attempts are there "für transiente Fehler".  An
\* attempt that ends well after one that did not leaves a usable job.
RetriesCanSucceed ==
    \A j \in Jobs : entry[j].state = "completed" => status[j] # "failed"

=============================================================================
