# MediaCompressor in TLA+

Specifications, model checks and proofs for MediaCompressor, a self-hosted
service that takes image and video uploads, compresses them in worker processes
and keeps the results for a while.  Paths below are relative to the repository
root; `apps/api` and `apps/worker` are the two Node processes, `packages/*` the
code they share.

How to run (tlc and tlapm on the path, inside this directory):

    tlc -config PipelineRaces.cfg MCJobPipeline.tla
    tlapm JobPipelineProofs.tla

and likewise for the other seven modules with theorems: CleanupProtocolProofs,
QuotaReservationProofs, Argon2SemaphoreProofs, SignInProofs, AccessProofs,
JobEventsProofs, OrphanSweepProofs.

`PROJECT.json` maps every definition to the lines it stands for, lists the runs,
the mutated definitions that each property must catch, the hazards of the code
and the theorems.

## 1. Inventory

Processes: any number of API replicas (Fastify), any number of worker replicas
(BullMQ consumers plus the cleanup cron), tusd (receives the bytes and calls the
API's hooks), PostgreSQL (through Prisma), Redis (BullMQ, locks, flags,
pub/sub), and a media volume that all of them mount.  Nothing else is shared, so
every interaction is a row, a key, a file, or a message.

| part | state | operations | talks to |
|---|---|---|---|
| Quota reservation (`quota/reserve.ts`, `quota/disk-free.ts`, `uploads/pre-create-hook.ts`) | `Job` rows of a user, the advisory lock, free disk | reserve, replay of a reservation, expiry of abandoned uploads, quota changes by an admin | tusd (pre-create), PostgreSQL |
| Upload completion (`uploads/post-finish-hook.ts`) | row status, upload file | lookup, move, magic-number check, reject or accept, enqueue | tusd, PostgreSQL, BullMQ |
| Worker (`worker/src/consumer.ts`) | row status, output file, abort signal | begin, compress, poll of the cancel flag, final update, publish | BullMQ, PostgreSQL, Redis |
| Cancel (`jobs/jobs-routes.ts`, DELETE) | row status, `cancel:<job>` | read, flag, update, publish | PostgreSQL, Redis |
| Expired sweep (`worker/src/cleanup/expired-sweep.ts`) | row status, both files | read a batch, lock, mark, unlink, release | PostgreSQL, cleanup lock |
| Cleanup protocol (`packages/cleanup`, `jobs/download-route.ts`) | `cleanup-lock:<job>`, `downloads:<job>`, TTLs, refresh timers | acquire, refresh, release; register, re-check, refresh, withdraw, abort | Redis, expired sweep |
| Orphan sweep and schedule (`cleanup/orphan-sweep.ts`, `cleanup/cron.ts`) | directories, their mtime, rows | scan, delete a directory; one scheduler for all replicas | file system, PostgreSQL |
| Job events (`jobs/jobs-events-route.ts`) | one subscription per client | snapshot, subscribe, forward, end | Redis pub/sub |
| Login (`auth/login-routes.ts`, `packages/auth`) | sliding-window counters, semaphore permits and waiters, sessions | count, hash, reset, create a session | Redis, PostgreSQL |
| Invites (`web/invite-redeem-page.ts`, `admin/invites-routes.ts`) | invite row, user row | create, revoke, claim, redeem, revert | PostgreSQL |
| Sessions, API keys, roles, audit (`auth/*-routes.ts`, `web/require-admin-session.ts`, `web/admin-*.ts`, `packages/audit`) | session, key and user rows, audit events | authenticate, revoke, disable, change a role or quota, coerce and write an event | PostgreSQL |
| Pepper canary (`packages/auth/src/pepper-canary.ts`) | one row | insert if absent, compare | PostgreSQL |
| Compression engines (`packages/compression`) | a child process or sharp, the output file | run, abort, clean up | file system |
| Job page and watchdog (`web/job-detail-page.ts`, `public/job-detail-watchdog.js`) | the open page: EventSource, pending fetch, polling | fetch the fragment, fall back to polling, restore | job events |
| Lists (`jobs-routes.ts`, `web/job-list-page.ts`, `web/admin-*-page.ts`) | the cursor in the link, the polling table | read a page, follow the link, poll | PostgreSQL |
| Storage, other web pages, locales, OpenAPI, tooling | none that outlives a request | render, validate | - |

What makes these parts hard, and what would make them correct:

* **Job lifecycle.**  Seven kinds of writers update one row with one guarded
  UPDATE each and hold no lock in between.  Hooks are redelivered, BullMQ starts
  a job again after a lapse or a throw, cancels and sweeps come at any moment,
  every process may die between two awaits.  Correct means: a final status is
  never replaced (except by `expired`), only accepted uploads reach a worker, the
  input a worker reads is there, a result is announced once and truthfully, every
  accepted job ends, and a finished job keeps its output until it is swept.
* **Quota.**  Reservations of one user race with each other, with the worker that
  ends jobs, and with an admin who lowers a quota.  Correct means: the number and
  the bytes of jobs in flight stay within the quota in force at the reservation,
  and a repeated hook changes nothing.
* **Cleanup protocol.**  Readers and the cleaner use two Redis keys with TTLs and
  refresh timers and no common lock.  Correct means: no file is deleted under a
  streaming download, one cleaner per job, and what a crash leaves behind lapses.
* **Events.**  Snapshot and subscription are two steps, and the stream may hang or
  break.  Correct means: an open page shows in the end that its job ended, and goes back
  to an earlier status at most while two fetches overlap.
* **Login and invites.**  Correct means: permits are conserved, a waiter runs or
  is rejected but not both; a token makes at most one user, an invite nobody
  used can still be used, and concurrent guesses do not get past the limit.
* **Authority.**  A form route checks, injects a JSON route that checks again, acts
  and then records.  Correct means: nothing is done on authority that was gone at
  the last check, every admin change through a form is recorded, and a key works on
  every replica.
* **Orphan sweep.**  stat, findUnique and rm are three steps beside every writer of
  the row, in several replicas that stop and crash.  Correct means: no directory of a
  live job is deleted, and orphans go in the end.
* **Compression.**  A child process's events, an abort and failing file calls settle
  one promise.  Correct means: no process outlives its call, a kill is told as a
  cancel, and the answer fits the file.
* **Lists.**  Rows come and end while pages are read.  Correct means: no row twice,
  none missed, and the polling table settles.

The full list of hazards, each at its line, is in `PROJECT.json`.

## 2. Plan

| module | content | checked | proved |
|---|---|---|---|
| `JobLifecycle` | abstract: the statuses of a row and their order | as a refinement | refinement |
| `JobPipeline`, `MCJobPipeline` | hook, queue, worker, cancel, sweep, files, faults; refines it | safety and liveness | `JobPipelineProofs`: types, every safety property, refinement |
| `FileLease` | abstract: who may read a file, and when it may go | as a refinement | refinement |
| `CleanupProtocol`, `MCCleanupProtocol` | lock, download set, timers, outages, download route; refines it | safety and liveness | `CleanupProtocolProofs`: types, every safety property, refinement |
| `QuotaReservation`, `MCQuotaReservation` | advisory lock, idempotency key, reclaim, three quotas, disk check | safety | `QuotaReservationProofs`: types, the lock, the key, the three quotas |
| `Argon2Semaphore` | abstract: permits, waiters, timers | as a refinement | `Argon2SemaphoreProofs`: its invariant |
| `SignIn`, `MCSignIn` | rate limit, login, invites, both over the semaphore | safety, refinement | `SignInProofs`: all of it |
| `Access`, `MCAccess` | sessions, keys, roles, admin changes, audit events, pepper canary | safety | `AccessProofs`: all of it |
| `JobEvents`, `MCJobEvents` | publishers, streams, the page and its watchdog | safety and liveness | `JobEventsProofs`: safety |
| `OrphanSweep`, `MCOrphanSweep` | directories, sweeps, schedule, shutdown | safety and liveness | `OrphanSweepProofs`: safety |
| `CompressionEngine`, `MCCompressionEngine` | one call of compress() with its child process | safety and liveness | `JobPipelineProofs`, last section: safety |
| `Listings`, `MCListings` | the lists, their cursors, the polling table | safety and liveness | `JobEventsProofs`, last section: safety |
| `AuditEvent`, in `MCListings` | the coercion of audit payloads | an action property | - (recursive) |

Every safety property and every refinement that a run checks is a theorem too,
but for one.  Left to TLC:

* liveness (`AcceptedJobsEnd`, `UploadsSettle`, `DueJobsExpire`, `PageLearnsEnd`,
  `OrphansGo`, `AbortsEnd`, `ShownJobsSettle`), which needs ENABLED;
* `RefusedForAReason`: `AuditEvent` is recursive as its code is, and what a recursion
  over payloads computes for every payload is an induction over data, which the
  provers cannot do.

`HookRetryStuck` checks a claim that the code refutes.

A theorem holds for every value of the constants that the named assumption of its
module allows.  Four have a hypothesis beyond that, because the code does not keep
the property without it: `CleanupSafe` and `CleanupImplementsLease`
(`OrderlyReaders`), `CleanerIsAlone` (`OrderlySweeps`), `QueueNeverGivesUpFirst`
(`EnoughAttempts`).  Each hypothesis is met by the constants of the run that checks
the property, and says what a single run could not: which faults it does not
survive, and how the intervals have to be related.

## 3. Job lifecycle: `JobLifecycle`, `JobPipeline`

### State

| variable | code |
|---|---|
| `status[j]` | `Job.status`; `"absent"` before the row exists |
| `row[j]` | `uploadExpiresAt` (`upload`), `expiresAt` (`result`), which storage keys are set (`keys`), `finishedAt` (`finished`); a deadline is null, ahead or past |
| `source[j]` | the uploaded bytes: in tusd's file; there and, perhaps or surely whole, in `uploads/<user>/<job>/source.bin` too (`"copying"`, `"copied"`); in `source.bin` alone, whole (`"final"`) or perhaps cut (`"torn"`); unlinked (`"gone"`) |
| `output[j]` | `results/<user>/<job>/output`: missing, partly written, whole |
| `entry[j]` | the BullMQ job with `jobId` j: state, holder of its lock, attempts made, stalls |
| `cancelFlag[j]` | the key `cancel:<job>` |
| `outcomes[j][o]` | how often status `o` was published on `job:status:<job>`, counted up to 2 |
| `call[c]`, `slot[w]`, `delete[d]`, `sweep[s]` | post-finish calls, worker concurrency slots, DELETE requests, sweep iterations in progress: where they are and the locals they carry over an await |
| `faults` | faults so far, bounded by `ApiFaults`, `WorkerFaults` and, together, `AllFaults` |

### Actions

One action per database, Redis or file call; whatever happens between two awaits
belongs to the call before it.  The hook is `HookReceive` (lookup, status check),
`HookMove` (mkdir, rename), `HookDetect`, `HookReject` or `HookAccept` (the
guarded updates), `HookEnqueue`.  If tusd's files and the uploads are not on
`OneMount`, the rename ends in EXDEV and the hook copies and unlinks
(`post-finish-hook.ts:117-121`): `HookMove` opens tusd's file, `HookTruncate` creates
or truncates `source.bin`, `HookFill` comes to the end of the bytes, `HookUnlink`
removes tusd's file or finds that another delivery has done so (500).  The copy that
truncated last leaves the file whole; the earlier ones (`"patch"`) write the same
bytes at the same places and do not.  processJob is `Begin`, `Announce`, `Poll`,
`OpenOutput`, one of `CompressReturns`, `CompressThrows`, `CompressAborts`, then
`WriteOutcome` (guarded), `PublishOutcome` (only when the update counted a row)
and `Settle` (the promise BullMQ waits for).  `StoreThrows` is an exception of a
database or Redis call; where it lands depends on the try block it is thrown in
(`AfterThrow`).  DELETE is `DeleteRead`, `DeleteFlag`, `DeleteUpdate`,
`DeletePublish`; the sweep `SweepRead`, `SweepLock`, `SweepMark`, `SweepUnlink`.
`HookDies`, `DeleteDies`, `SlotDies`, `SweepDies` end an actor between two steps.

External, modelled from the way the code uses it: tusd (`UploadDone`, redelivery,
which is `HookReceive` for any idle call), BullMQ (`Fetch`, `Settle`, `Stall`
with `MaxAttempts` and `MaxStalled`), Redis PUBLISH.  A Prisma `updateMany` is
one atomic guarded UPDATE: PostgreSQL re-evaluates the WHERE clause of a single
UPDATE against the latest committed row.  A run that lost its lock while it lives
(`LockMayLapse`) goes on to the end, as processJob does, and its settling is
refused by BullMQ (`Settled`).

Abstractions: user ids, paths, mime types and byte counts are left out; progress
messages and the progress column are left out; the two processes of one replica
are not told apart, because no state is shared by them but what is listed above.
The cleanup lock is taken here as a lock that can be refused at any time; its own
protocol is `CleanupProtocol`.

### Runs

`CHECK_DEADLOCK FALSE` everywhere: once every job is final, every deadline past
and every actor idle, the system has nothing to do.

| run | instance | shows |
|---|---|---|
| `PipelineRaces` | 1 job, 2 hook calls, 2 slots, 1 DELETE, 1 sweep, 3 attempts, 1 stall, locks may lapse, 1 worker fault, volume mounted at `/`, one mount | `PipelineInv`, `EntryOnlyIfAccepted`, `ResultAnnouncedOnce`, `SucceededHasOutput`, refinement of `JobLifecycle` |
| `PipelineLiveness` | `FairSpec`; 1 slot, otherwise the same actors, tusd on another mount, 2 attempts, 1 stall, 1 fault of the API or the worker | `TypeOK`, `InputInPlace`, `AcceptedJobsEnd`, `UploadsSettle`, `QueueDoneMeansRowDone` |
| `HookRetryStuck` | 1 call, 1 API fault | refutes `RetryFindsUpload` |

Bounds.  The processes meet only in a job's own row, keys, files and entry, so one
job with several actors of each kind that can race has all the interleavings.
Two calls and two slots are the least that race with themselves; a third would
have to lose against one of the two in the same guarded UPDATE.  Three attempts
and one stall are BullMQ's numbers; `PipelineLiveness` has two attempts, which only
shortens the chain of equal retries, and one slot, because no lock of a live run
lapses there and so no second slot could hold the job.  It has one fault, of an API
handler (a hook that dies between copyFile and unlink, say) or of the worker
(`AllFaults`).  Fault bounds are named in the cfg.

`QueueDoneMeansRowDone` is checked for one worker fault: a second crash of the
same job exceeds `maxStalledCount`, BullMQ fails the entry and nobody updates the
row; that is a hazard of the list, not a property.  `SucceededHasOutput` excepts
jobs that stalled and runs with a worker fault, `AcceptedJobsEnd` and
`UploadsSettle` behaviours in which an API handler died: without the exceptions
they do not hold (below).  `PipelineRaces` takes `MountDepth = 0` (volume mounted
at `/`), the one configuration in which the sweep's joined path names the output
at all, so that the sweep can threaten it.

`HookRetryStuck` refutes what a comment of the repository says (quoted in
`PROJECT.json`, findings): a redelivered hook fails in `rename`, because the first
delivery had moved the file.

`InputInPlace` says different things of the two layouts.  The comment at
`post-finish-hook.ts:107` has tusd's files and the uploads on one mount, and the
shipped deployment has; there the move is a rename and a job in flight has its whole
input in place.  Across mounts a job in flight has its input in place and nowhere
else, but perhaps torn (first item below).

Other behaviour TLC shows with this module and a changed configuration, without a
run of its own:

* Across mounts `InputInPlace` without `"torn"`: a second delivery has opened tusd's
  file, the first copies, unlinks, accepts and queues, a run starts to read, and then
  the second truncates `source.bin` and writes it anew (`post-finish-hook.ts:119`).  It
  finds nothing to unlink and answers 500, and if its copy fails, `source.bin` is gone.
  Swept inputs can come back the same way.  A crash between copy and unlink leaves
  both files, and the redelivered hook copies again.
* `AcceptedJobsEnd` without its exception: a crash between the row's update and
  `queue.add` (`post-finish-hook.ts:154-185`) leaves a job queued for ever.
* `SucceededHasOutput` without its exceptions: a worker that dies after writing
  `succeeded` is replaced by a stalled re-run, which opens and so truncates the
  finished output.
* DELETE publishes `canceled` whatever its update counted
  (`jobs-routes.ts:227-236`): subscribers of a job that ends between the read and
  the update are told `canceled` after `succeeded`.
* The sweep marks by id only (`expired-sweep.ts:72-76`): a batch that read an
  overdue upload expires it after it was accepted.
* `RetriesCanSucceed` does not hold: the first failed attempt writes `failed`
  (`consumer.ts:158-165`), so the retries that `jobs-routes.ts:109` announces
  ("attempts/backoff" for transient errors) compress in vain.
* With `MountDepth > 0` the sweep never unlinks an output: mount path joined to
  an absolute key (`expired-sweep.ts:82`).

### Fairness

`FairSpec` assumes weak fairness of: the next step of a running hook call
(`HookGoesOn`) and of a running processJob (`RunGoesOn`; Node's event loop runs ready continuations; database and
Redis calls return or throw), the end of compress() (it ends in one of its three
ways; ffmpeg has no timeout in the code, so this is an assumption about ffmpeg),
redelivery by tusd while the row is uploading, BullMQ handing out waiting entries
and finding entries whose holder is dead.  Nothing is assumed of cancels, sweeps,
deadlines, lapses of a live worker's lock, or faults.

### Proofs (`JobPipelineProofs`)

For any finite or infinite sets of jobs, calls, slots, requests and sweepers, any
number of attempts, stalls and faults, and locks that lapse or do not:

| theorem | statement |
|---|---|
| `PipelineTyped` | `Spec => []TypeOK` |
| `PipelineSafe` | `Spec => []PipelineInv` |
| `EntriesAreAccepted`, `InputsStay`, `ResultsAnnouncedOnce` | `Spec => []EntryOnlyIfAccepted`, `[]InputInPlace`, `[]ResultAnnouncedOnce` |
| `SucceededJobsHaveOutput` | `Spec => []SucceededHasOutput` |
| `QueueNeverGivesUpFirst` | `Spec => []QueueDoneMeansRowDone`, if `EnoughAttempts` |
| `PipelineImplementsLifecycle` | `Spec => Lifecycle!Spec` |

Assumption: `PipelineAssumption` (the naturals are naturals, `NoJob` is no job,
`NoSlot` no slot).  `TypeOK` is inductive by itself and includes that a run which
writes or publishes has an outcome.  The safety properties are not inductive:
`ResultAnnouncedOnce` depends on what a run about to publish knows, that on what
a run about to write knows, and that on the guard of `Begin`.  `PipelineInv` adds
exactly these facts, one conjunct per actor (`CallKnows`, `DeleteKnows`,
`SlotKnows`, `SweepKnows`), `RenamesAreWhole`, and `OnePublisher`: two runs of one job are never
both about to publish, because the guarded update let only one through.

The argument: `StepsFrame` says which of the variables each action may touch and
in which way; `RowChanges` condenses that to what any step may do to one job's
row (`RowMoves`, `RowKeys`, `SourceMoves`); each conjunct of the invariant then
has one lemma that uses the condensed step and, where it must, the action
itself (`OnlyAcceptedStep`, `InputStep`, `ResultStep`, `CallsStep`,
`DeletesStep`, `SlotsStep`, `OnePublisherStep`, `SweepsStep`).  The refinement
needs the invariant at one place: `SweepMark` expires a row only if it exists.

`SucceededHasOutput` is about jobs that never stalled and whose runs met no fault
(`Smooth`).  `OutputInv` follows such a job: nobody else runs it (`RunsAlone`), a run
past compress() with a success has left a whole output (`OutputReady`), and once the
row says succeeded only the end of that same run is to come (`SuccessIsLast`).
`UnlinkAfterMark` keeps the sweep away from rows it has not marked.  Most steps are
not of a run of the job; what they leave alone is said once (`OffRun`).

`QueueDoneMeansRowDone` counts: as long as a row has not ended, its attempts and
stalls, and one more if the entry is about to lose one (`Pending`), have each cost a
fault of the worker (`Counted`).  BullMQ gives up after `MaxAttempts` attempts or more
than `MaxStalled` stalls, so `EnoughAttempts` asks that the faults stay below the one
and within the other, and that a live run does not lose its lock (`LockHeld`).  The
hypothesis is needed: a second crash of one job exceeds `maxStalledCount` and leaves
its row in processing for ever, and so may locks that lapse.

Model-checked only: `AcceptedJobsEnd` and `UploadsSettle`, which are liveness.

## 4. Downloads and cleanup: `FileLease`, `CleanupProtocol`

`FileLease` says what readers and the cleaner promise each other about a file:
who has entered may read until he leaves, and the file goes only while nobody is
inside.  `CleanupProtocol` is how the code gets there, with two Redis keys that
live for a limited time.

### State and actions

| variable | code |
|---|---|
| `due`, `status`, `file` | `expiresAt` has passed; `Job.status`; the output file |
| `lock` | `cleanup-lock:<job>`: owner and remaining TTL |
| `readers` | the set `downloads:<job>`: members and remaining TTL, if it has one |
| `online` | which side (API, worker) reaches Redis |
| `cleaner[c]` | an iteration of the expired sweep at this job, with the lock's refresh timer |
| `handler[h]` | a download request, with the set's refresh timer; `gone`: it answered 410 "file gone" |
| `faults` | faults so far, bounded by `HandlerFaults`, `CleanerFaults`, `RefreshFaults`, `Outages` |

A timer carries the time until it fires, the refreshes sent and not answered, and
the failures in a row.  One tick (`Tick`) stands for 30 s, of which the code's
intervals are multiples: lock 60 s refreshed every 30 s, set 300 s refreshed every
60 s, abort after two failures.

One action per Redis command or script: the Lua scripts (`Acquirable`,
`SafeRefreshed`, `SafeUnlocked`) are atomic, as Redis runs them.
startDownloadHandler is `PreCheck`, `Register` (SADD), `SetExpiry` (EXPIRE),
`Recheck` (EXISTS again, then the timer or `Withdraw`).  The route adds `ReadRow`,
`Stat`, `StreamEnds`, `ReleaseHandler`; the sweep is `Batch`, `Acquire`, `Mark`,
`Unlink`, `ReleaseLock`.

Time.  What takes milliseconds (a command of a handler that reaches Redis, a
timer that is due, an expiry) happens before the next tick (`HandlerUrgent`,
`CleanerUrgent`); database and file calls of the sweep may take any number of
ticks, and so may a stream.  Commands of a lost connection wait and are executed
after it returns: both clients set `maxRetriesPerRequest: null`.  A state in which
time is stuck would be a deadlock, and TLC checks that there is none.

Abstractions: one succeeded job, because the keys of jobs do not interact; the
output file only; HTTP ranges and headers are left out.   `MountDepth` is 0 so
that the sweep and the route reach the file at all (below).

### Runs

| run | instance | shows |
|---|---|---|
| `CleanupLease` | 2 handlers, 2 sweeps, 3 rejected refreshes, a sweep that dies, the worker loses Redis once | `CleanupInv` (`TypeOK`, `StreamsAreRegistered`), refinement of `FileLease`, `LockIsNotStolen` |
| `CleanupLiveness` | `FairSpec`; 2 handlers and 2 sweeps, 2 of each die; no rejected refresh | `OneCleaner`, `DueJobsExpire` |

Bounds.  Two handlers are the least that can keep a dead one's membership alive,
two sweeps the least that can steal a lock.  Three rejected refreshes are one
more than an abort takes.  `DiesAt` leaves out the step before EXPIRE in
`CleanupLiveness`: a handler that dies there leaves a set without a TTL, and the
job is never expired (a hazard of the list).

`OneCleaner` needs that no refresh is rejected: lock TTL 60 s, refresh every 30 s,
so one rejected refresh lets the lock lapse before the next one, and the abort is
only logged after the files are gone (`expired-sweep.ts:87`).  `StreamsAreRegistered` needs that no handler
dies: otherwise the set a dead handler left may lapse between the SADD and the
EXPIRE of the next one (`download-set.ts:55-56`), whose result is not looked at.
The file is safe in `CleanupLease` although its locks lapse: what protects it is
the set, and the re-check.

Two statements are kept in the module that a comment makes and the code does not
keep.  `NoUnlinkUnderHandler` (`download-route.ts:15`) fails when the API is in
`Unreliable`: refreshes wait for the connection instead of failing, the set lapses,
and the sweep deletes the file under the stream.  `GoneMeansGone`
(`download-route.ts:23`) fails with `MountDepth > 0`: mount path joined to an
absolute key names no file, so every download is answered 410.

Fairness: the event loop runs ready steps, Redis answers who reaches it, streams
end, sweeps come round and their calls return, time passes, connections return.
Nothing is assumed of requests, deaths or outages.

### Proofs (`CleanupProtocolProofs`)

For any number of downloads and sweeps, any intervals, TTLs and bounds on faults:

| theorem | statement | hypothesis |
|---|---|---|
| `CleanupTyped` | `Spec => []TypeOK` | - |
| `LockChangesHands` | `Spec => LockIsNotStolen` | - |
| `CleanupSafe` | `Spec => []CleanupInv` | `OrderlyReaders` |
| `CleanupImplementsLease` | `Spec => Lease!Spec` | `OrderlyReaders` |
| `CleanerIsAlone` | `Spec => []OneCleaner` | `OrderlySweeps` |

`OrderlyReaders`: no handler dies where its membership would outlive it, the API
keeps its connection, and `MaxFailures * SetRefresh < SetTtl`, in the code 2 * 60 s
against 300 s.  `OrderlySweeps`: no refresh of the lock is rejected, the worker keeps
its connection, and `LockRefresh < LockTtl`, in the code 30 s against 60 s.  Without them
the properties fail (above).  Under `OrderlyReaders` sweeps may still die, throw, and
lose their lock or their connection at any point.

The argument is about what a timer leaves of a TTL.  `Covered` says that since the last
refresh that worked the set's TTL has fallen no further than the timer has run, plus one
interval for each refresh that failed or is under way, so that the abort comes before
the set lapses; `Held` says it of the lock, where no refresh fails.
`CoverKept` and `HoldKept` show that firing, an answer and a tick keep them, so that
`SetInv` (the set holds exactly the handlers between SADD and SREM) and `HoldInv` (who
sweeps holds the lock) are inductive.  The refinement needs `LeaseInv`: nothing is
swept before it is due (`SweepsWhenDue`), a handler on its way in finds the lock of a
sweep that works (`LockIsSeen`), and nobody is inside while one does (`NobodyInside`).
`LockIsSeen` is where time comes in: a sweep may outlast its lock's TTL, but not while
a handler is between its two checks, because those steps are done before the next tick.

Model-checked only: `DueJobsExpire`, which is liveness.

## 5. Quota reservation: `QuotaReservation`

| variable | code |
|---|---|
| `row[j]` | a `Job` row as committed: status (`accepted` is queued or processing, `ended` is failed, canceled or expired), whose upload, `precreateIdempotencyKey`, `outputBytes`, whether its deadline has passed, whether it was created within the hour |
| `quota[u]` | the three quotas of a `User` row |
| `holder[u]` | who holds `pg_advisory_xact_lock` of the user |
| `call[c]` | a pre-create call: the statement it is at and the locals it carries |
| `given[x]` | the job id tusd was told for an upload |
| `disturbed` | quota changes and failed calls so far, at most `Disturbances` |

The transaction runs at READ COMMITTED (Prisma's and PostgreSQL's default), so
every statement is an action (`Lock`, `Find`, `Reclaim`, `ReadUser`,
`SumInFlight`, `SumSucceeded`, `CountInFlight`, `CountRecent`, `Create` with the
commit) and whatever other writers commit happens between them (`Accept`,
`Succeed`, `End`, `DeadlinePasses`, `HourPasses`, `ChangeQuota`).  The rows the
transaction has reclaimed are locked (`Writable`) and seen as ended by itself only
(`CountedInFlight`); a refusal, a timeout or a crash rolls them back (`Abandon`,
`CallFails`).  `Receive` is any delivery of the hook for any upload, again and
again, and includes the disk check.

A result may have more bytes than its input had, up to `MaxGrowth` more.  The
transaction reserves the input's size, so a job that succeeds with a larger result
after the sums makes the storage total exceed what was measured: the storage part
of `ReservedWithinQuota` allows exactly that growth (`Growth`), and without the
allowance it does not hold.  Not included: what is on disk of an unfinished upload.

| run | instance | shows |
|---|---|---|
| `Reservation` | 1 user, 3 contents of sizes 1, 1, 2, 2 concurrent calls, results 1 larger at most, 1 quota change or failed call | `ReservedWithinQuota`, `CallsNeverCollide`, `RetryGetsSameJob`, `LockHeldInside`, `TypeOK`, no deadlock |

One user is enough, because users share only the disk; two calls are the least
that race; three contents make each of the three quotas refuse in some behaviour.
The number of rows needs no bound: the key admits one row per content.
`ReservedWithinQuota` measures all three quotas at the commit, not at the
statement that read them.  That it holds rests on the lock and on the order of
the two sums: a job that succeeds between them is counted twice, never missed.

`OneJobPerUpload` is kept as a statement that does not hold
(`pre-create-hook.ts:55-56`): a content uploaded twice is answered with the first
upload's job, ended or not.

### Proofs (`QuotaReservationProofs`)

For any users, uploads, contents, calls, quotas and bounds, and any finite set of
rows, from `ReservationAssumption`:

| theorem | statement |
|---|---|
| `ReservationSafe` | `Spec => []ReservationInv` |
| `LockIsHeldInside`, `CallsDoNotCollide` | `LockHeldInside`, `CallsNeverCollide` |
| `RetriesAgree` | `Spec => RetryGetsSameJob` |
| `ReservationTyped` | `Spec => []TypeOK` |
| `ReservationsWithinQuota` | `Spec => ReservedWithinQuota` |

`RetryGetsSameJob` is about two answers that may be far apart, so the invariant
has to say what connects them: the id a call is about to give (`AnswerKnown`) and
the id tusd was given (`GivenKnown`) are both that of the row with the upload's
key, keys never change (`KeysStay`), and no two rows share one (`OneRowPerKey`).
That last fact would follow from the unique index alone; that no call ever meets
the index (`MissedStill`) needs the lock: two calls that are past their lookups
have different users (`InsideDiffer`), hence different keys.

The argument: every step is of one of nine kinds (`StepKinds`: a call receives,
locks, misses, hits, works, leaves, inserts or answers, or a row moves and keeps
its key), and each conjunct has one lemma that looks at kinds only.  `Shape`
stands in for `TypeOK` there and leaves the range of the sums open.

The quotas need the sums.  They are folds, which choose one element after the other,
and nothing can be proved of a fold by induction over a predicate.  `SubsetInduction`
is induction over the subsets of a finite set for a *set* of subsets, from the
library's minimal elements (`WFMin`); with it `FoldExists` shows that the fold's
function exists, and from that come the facts about a total: it depends on the
summands only (`TotalSame`), is a natural number (`TotalNat`), splits off an element
(`TotalWithout`) and bounds its parts (`TotalPart`).  `SumsKnown` says them of
`reserved` and `output`.

`Measured` then says of every statement past a sum or a count that what it measured
still bounds what is there.  It is kept by the transaction's own steps because each
adds one term, and by everybody else's because of `Falls`: a job of the user stays,
ends, leaves the results, or trades its reservation for a result larger by its growth
at most (`OneRowFalls`); nobody inserts, because the lock is held (`LockHeldInside`);
and what the transaction has reclaimed is locked (`ReclaimedSound`).  Here the order
of the two sums is used: with the results summed first the trade would be missed.

Nothing of this module is left to TLC alone.

## 6. Sign-in and invites: `Argon2Semaphore`, `SignIn`

`Argon2Semaphore` is the abstract semaphore and at once a model of the whole class:
`sem` is the object (`active`, `waiters`), `phase[t]` what has become of one call of
`run()`.  `run()` and `release()` are synchronous around the task, so `Run`, `Finish`
and `TimeOut` are one step each; `Restart` replaces the object.  `SignIn` is one API
process in which two of them (login, redeem) are used.

| variable | code |
|---|---|
| `user[e]` | `User.status` of each email, "none" without a row |
| `invite`, `invited` | the `Invite` row (open or revoked, bound email, `consumedAt`, `consumedByUserId`, expiry); the users it made |
| `window` | entries of the sliding-window sets `ratelimit:login:*`, for the address and each account |
| `dummy` | `dummyHashPromise`: unset, pending, or settled either way |
| `sem` | the two semaphores |
| `login[l]`, `redeem[r]` | requests: the await they are at, their hash, the locals they carry, the answer |

`POST /auth/login` is `LimitIp`, `LimitAccount` (one script each: `BelowLimit` and the
count are atomic), `Find`, `LoginEnter` (for an unknown user with the dummy hash, which
is awaited first: `DummyReady`, `DummyFails`), `LoginVerified` or `LoginTimesOut`, `ResetAccount`,
`CreateSession`.  The redeem form is `GetForm`, `PostForm`; its POST is `Claim` (the
conditional updateMany), `Probe` (why the claim failed), `Fetch`, `Unbind` (give back
after a wrong email), `RedeemEnter`, then `RedeemHashed`, `RedeemHashFails` (a hash that
rejects) or `RedeemTimesOut`, `Commit`, `Revert`.  Redemptions of other invites meet these only at the semaphore and in the
users (`RedeemElsewhere`, `HashedElsewhere`); one invite alone never makes a second
hash wait, because only its claimant hashes.  An admin invites, revokes (`AdminRevokes`) and disables users between any
two steps, entries leave the windows, the invite expires.  Faults: a call throws
(`LoginThrows`, `RedeemThrows`; where it lands follows the try blocks, `AfterThrow`), a
hash rejects (`RedeemHashFails`, `DummyFails`; `verifyPassword` catches its own errors),
a COMMIT is executed and reported as an error (`CommitUnheard`), the process restarts
(`RestartApi`).

| run | instance | shows |
|---|---|---|
| `SignIn` | 2 logins, 2 redeems, 2 emails, of which 2 requests come in one behaviour; 1 permit, limits 1, 1 fault | `SignInInv` (`TypeOK`, `ClaimIsExclusive`, `OneUserPerInvite`, `RedeemedStaysRedeemed`), `GuessesBounded`, `ClaimsComeBack`, and that both semaphores implement `Argon2Semaphore` (`ImplementsSemaphores`) |

Bounds.  Two requests of a kind are the least that race; a login and a redeem share
only users, and all pairs of requests come.  One permit makes the second hash wait;
limits of 1 make the second guess reach the limit.  With larger limits the numbers in
the windows grow and the two concurrent increments stay the same script.  One fault
separates what a single failure can do from what needs two.

`ClaimsComeBack` names the request whose claim stays and why (`CutOff`): its own wait
timed out, its own call threw outside the try block or in the revert, or the process
died under it.  A fault somewhere else excuses nothing: a taken email, a wrong email
and a transaction that fails always give the claim back.

### Proof (`Argon2SemaphoreProofs`)

`SemaphoreSafe`: for any finite set of tasks and any positive number of permits,
`Spec => []SemaphoreInv`: `active` is the number of running tasks and never more than
the permits (`PermitsConserved`), the queue names every waiting task once
(`QueueIsWaiters`), and nobody waits beside a free permit (`NoIdlePermit`).  The
number of permits is a hypothesis of the theorem (`SemaphoreConstants`: the
constructor throws otherwise) because the module is only instantiated, and TLC
evaluates no assumption of an instantiated module.  The three conjuncts need each
other: a permit handed on leaves `active` alone because one task ends while another
starts, which is right only because the head of the queue is waiting and occurs once.
The argument has one lemma per action; lemmas on sets say what one task that starts,
ends or replaces another does to their number (`OneStarts`, `OneEnds`,
`OneForAnother`), and `SpliceMoves` what taking one waiter out of the queue leaves.
`SignInProofs` takes this module twice, once for each semaphore.

### Proof (`SignInProofs`)

For any finite sets of requests, any emails, and any limits and bounds on faults:

| theorem | statement |
|---|---|
| `OneInviteOneUser` | `Spec => []SignInInv` |
| `ClaimsAreReturned`, `GuessesAreBounded` | `Spec => []ClaimsComeBack`, `Spec => []GuessesBounded` |
| `SemaphoresUsedRight` | `Spec => ImplementsSemaphores` |

What a request's place says of it (`LoginSound`, `RedeemSound`) makes every step a step
of the abstract semaphore or none, so the queues keep that module's invariant
(`Queues`); it is needed in return, since whom a freed permit wakes depends on it.
Then `Claims`: whoever claimed holds the open, consumed row alone.  `ClaimsEnd`: a
claim that outlives its request made a user or was cut off.  `UsersPaidFor`: every user
but the one of the standing claim has cost a lost answer of a commit, which bounds
`invited` whatever the number of requests.  `CountedInWindow`: as long as no password
for an account was right, its window has at least as many entries as requests were let
through: an entry that leaves takes its request out of the count.

## 7. Who may do what: `Access`

| variable | code |
|---|---|
| `replica[r]`, `canary` | an API process and its `API_KEY_PEPPER`; the `PepperCanary` row |
| `status[u]`, `session[s]`, `key[k]`, `invite` | `User.status`, `Session` and `ApiKey` rows, whether an invite is open |
| `request[q]` | a request: form or JSON, its credential, what it asks for, the check or write it is at, the answer |
| `audit` | requests with an `AuditEvent` row |
| `overtaken` | history: requests whose authority went between their last check and their write |
| `disturbed` | crashes, throwing calls, logouts, expiries, at most `Disturbances` |

A replica boots by `InsertCanary` (ON CONFLICT DO NOTHING) and `ReadCanary`, and
serves or refuses.  A form request is `Outer` (requireSession or requireAdminSession
and the CSRF check), `Inner` (the auth middleware, role guard and CSRF of the injected
JSON route), one of the effects (`SetStatus`, `CreateInvite`, `RevokeInvite`,
`CreateKey`, `RevokeKey`, `CancelJob`, `ReadStats`, `ShowUser`), then the form route
again (`UserUpdateForm`, `InviteCreateForm`, ...), which records an admin's change
(`Record`) before it answers.  A JSON request starts at `Inner`.  The route that ends a
session acts itself (`FindSession`, `DeleteSession`).  Disabling a user leaves his
sessions in place; what refuses him are the checks of pages and of
admins, which look at the status (`SessionIsGood`, `IsAdmin`).

| run | instance | shows |
|---|---|---|
| `Access` | 2 replicas, 2 peppers, an admin and another user, 2 sessions, 1 key, 2 requests, 1 disturbance | `AccessInv` (`TypeOK`, `KeysWorkEverywhere`, `RevokedOnce`), `AuditTrail`, `NoStaleAuthority` |

Bounds.  Two requests: one that acts and one that takes its authority away between two
of its steps.  Two replicas with two peppers are the least that race for the canary.
One key and two sessions allow the revocation of the credential in use and of another.
No fairness: nothing here has to happen.  A request that ended without having done
anything is forgotten but for its place (`Ends`), since no property looks at it.

### Proof (`AccessProofs`)

For any number of replicas, peppers, users, sessions, keys and requests: `AccessSafe`
(`Spec => []AccessInv`), `AuditTrailKept` (`Spec => []AuditTrail`) and
`AuthorityIsFresh` (`Spec => NoStaleAuthority`).

A step of a request leaves its record sound (`RequestsSound`: it has acted when it is
answered "done", and not before) and changes it only along its route (`Follows`);
whoever is served is served by a replica that is up (`ServedByUp`), so that a crash
ends what it served.  The canary decides among boots (`OnePepper`), who was told of a
revocation finds the key revoked and nobody else revokes it (`RevokersTold`), and a
request past its last check is authorised or known to be overtaken (`Accounted`): every
step that takes authority away is looked at from the side of the requests it overtakes.

## 8. Job events and the job page: `JobEvents`

| variable | code |
|---|---|
| `row`, `worker`, `cancel` | `Job.status`; processJob and DELETE as publishers |
| `handler[h]` | a stream handler of `GET /jobs/:id/events`: at findFirst, at subscribe, listening, ended; whether its client is there; messages on their way to it; how often it has unsubscribed |
| `page` | the open job page: event stream or polling, the status it shows, the watchdog's clock; `fetch[f]`, its requests in flight with what each has read and whether another was in flight with it (`crossed`, for the property); `busy` and `again`, the `xhr` and the queue that htmx keeps of the element |
| `faults` | dropped connections, lost messages, failed fetches |

The handler is `Find` (the snapshot), `Subscribe`, `Deliver` (which ends the stream on
a final status), `TellProgress`, `StreamCloses`, `Forget`.  The page is `OpenPage`,
`FragmentRead` and `FragmentShown` (a fetch reads the row at one time and is shown at
another), `FragmentFails`, `GoQuiet`, `SwitchToPolling`, `Poll`, `RestoreSse`.  Each event
only makes the page fetch.  The vendored htmx keeps one request of an element in flight
and the last one wanted in a queue (`Asked`, `FetchDone`), until the watchdog changes the
element's attributes and calls `htmx.process()`: that deletes both without aborting the
request (`Forgotten`), so the next one goes out beside it and the answers may come in
either order.  Redis pub/sub and EventSource are external.

| run | instance | shows |
|---|---|---|
| `JobEvents` | `FairSpec`; 1 handler, 2 event sources, 2 fetches, 1 fault | `PageLearnsEnd`, `ShownNeverGoesBack`, `EventsInv` (`TypeOK`, `EndedMeansOver`, `CleanedOnce`) |

`ShownNeverGoesBack` says when the page may go back at all: by the answer of a fetch
that was in flight together with another, after the watchdog has switched.
`PageLearnsEnd` says that such a lapse does not last.

Bounds.  Two sources are the first one and the one opened by `RestoreSse`; two fetches
one that was forgotten and one that follows, and a switch waits (`MayForget`) while two
are in flight.  There is one stream handler at a time, which the two sources use in
turn; two at once do not finish in the time of a run.  The proofs cover any number of all
three.  Fairness: time passes in the page and its fetches are answered.  Nothing is
assumed of the streams, because a stream may hang without an error; `PageLearnsEnd`
rests on the watchdog alone.

### Proof (`JobEventsProofs`)

For any number of handlers, event sources, fetches and faults: `EndsAreTrue`
(`Spec => []EventsInv`) and `PageGoesForward` (`Spec => ShownNeverGoesBack`).

The row only goes forward (`RowStep`), so what was read from it, or published about it,
lies behind it: publishers of an end come after the row's (`PublishersAreRight`), an
inbox holds an end only when the job has one (`HandlersRight`).  Of the page, `PageRight`
says that a fetch that no other crossed is alone and was read no earlier than what is
shown, and that fetches meet only after a switch; `SentOps`, `AskedOps` and `FetchDoneOps`
carry it through htmx's queue.  `OnePerSource` counts the connections of the page.
`PageLearnsEnd` is liveness and stays with TLC.

## 9. Orphan sweep, schedule and shutdown: `OrphanSweep`

| variable | code |
|---|---|
| `row[j]` | `Job.status` (or no row) and the age of `finishedAt`: null, recent, older than a day |
| `call[j]`, `running` | the post-finish hook call; jobs with a compression at work |
| `dir[d]` | `uploads/<user>/<job>` and `results/<user>/<job>`: none, mtime within the hour (`fresh`), older, deleted |
| `tick` | the BullMQ scheduler: upserted, a sweep waiting |
| `replica[w]` | a worker process: down, up, draining (the cron closes first), drained, closed; its sweep with what it carries from step to step |
| `faults` | crashes and sweeps that throw |

The sweep is `SweepStarts` (which takes "now", so `left` and `long` are fixed here),
`Stat`, `FindRow`, `Remove`, `SweepEnds`.  The process is `Boot`, `Terminate`,
`CronCloses` (waits for the sweep), `HandleCloses`, `Exit`, `Crash`.  The row and the
directories are written by `CallMoves`, `CallDecides`, `CallMakesResults`, `RunWrites`,
`RunEnds`, `Cancel`, `Reclaim`, `Expire`, as in `JobPipeline` with the ages added;
`RowRemoved` is an operator.

| run | instance | shows |
|---|---|---|
| `OrphanSweep` | `FairSpec`; 1 job with 2 directories, 2 replicas, 1 fault | `LiveJobsKeepTheirDirs`, `OrphansGo`, `OrphanInv` (`TypeOK`, `SweepsDrainFirst`) |

Bounds.  A sweep decides each directory by itself, so one job with both directories
has all the interleavings; two replicas sweep at the same time.  Fairness: time
passes, hooks and compressions end, replicas come back, a sweep that runs goes on.
Strong fairness of `SweepStarts`: replicas may be stopped again and again, each time
before they have taken the waiting sweep, but not for ever.

A directory may age while a compression runs (`DirAges`), since its mtime does not
change while a file in it grows: the hour of grace protects nothing for longer, and
what keeps a live job's directories is the row.

### Proof (`OrphanSweepProofs`)

For any number of jobs, replicas and faults: `SweepSparesLiveJobs`
(`Spec => []LiveJobsKeepTheirDirs`) and `SweepsDrain` (`Spec => []OrphanInv`).

The sweep acts on what it read before, and that is right because being an orphan is
stable: no writer brings back a row, and none moves an end that is a day old
(`RowsStep`, which needs that a job that goes on has no end yet, `RowsSound`).  Hence
what a sweep collected at its start and looked up later still holds at its rm (`Knows`,
`SweepsSound`), and what has gone was an orphan and is one (`GoneWereOrphans`).
`OrphansGo` is liveness and stays with TLC.

## 10. Compression, lists, audit payloads

### `CompressionEngine`

One call of compress() by the worker: `req` (what is special about the input and the
overrides), `compression` (where it stands, with which reason it will reject, its answer),
`signal`, `ffmpeg` (the child, with its exit code and unread stderr text), `outputFile`,
`told` (the last progress), `worker`.  `Sniff`, `StatImage`, `StatVideo`, `ProbeEnds`
lead to the image engine (`SharpWrites`, `SharpEnds`) or to the child
(`FfmpegWrites`, `FfmpegTells`, `FfmpegEnds` beside the event loop's `OnData`,
`OnError`, `OnCloseAfterError`, `OnClose`); `Remove`, `Measure`, `RemoveCut`,
`StatOutput` are the file calls after it, `Abort` comes at any moment and `Vanish`
takes the file away.  `failures` counts what fails (`Fault`) and remembers of which
kind it was: rm or stat of the output, a third party that removed it, or anything else
(a spawn, a crash of ffmpeg, a stat of the input, sharp).

`OutputFitsAnswer` names its exceptions one by one, so it also speaks of calls in which
something else failed.  Done: the output is there and -fs did not cut it off, unless a
third party removed it or, for a cut one, that rm or a stat of the output has failed.
Rejected after ffmpeg ran and closed: no file, unless the stat after the run failed or
the worker died of a failing rm.  Calls that are rejected before ffmpeg is started, or
by sharp, leave what was there, and nothing is claimed of them.

| run | instance | shows |
|---|---|---|
| `Compression` | `EngineFairSpec`; every kind of request, 2 failures of spawn, stat, rm or ffmpeg | `EngineInv` (`EngineTypeOK`, `NoProcessOutlivesCall`, `KillMeansCanceled`), `OutputFitsAnswer`, `SettledIsFinal`, `AbortsEnd` |

One call suffices: calls share nothing but the file path, which `JobPipeline` has.
Two failures are one more than any path needs to reach its clean-up.  Fairness: the
event loop runs, and an ffmpeg that got SIGTERM ends; nothing else has a timeout.

Proof.  `JobPipeline` takes a whole compress() for one step, so the last section of
`JobPipelineProofs`, which EXTENDS both (hence `EngineInit`, `engineVars` and the
like), proves what it takes for granted, for every request and any number of failures:
`EngineSafe` (`[]EngineInv`), `OutputsFitAnswers` (`[]OutputFitsAnswer`) and
`SettledStaysSettled` (`SettledIsFinal`).  The inductive invariant `EngineKnows` says
which path the call is on and how far its child has come (`PathKnown`), that nothing is
left to read of a child whose close has come (`AllHeard`), that only a running ffmpeg
is killed and the close handler looks at that first (`KillsKnown`), and what the file
is after the encoder, given what has failed by then (`FileKnown`).  `AbortsEnd` is liveness and stays with TLC.

### `Listings`

`Listings` has four lists (jobs as JSON, the polling page of jobs, audit events,
users), each with its order (`Comes`), cursor (`CursorOf`, `Decode`), filter and page
size (`Query`).  `list` says which, `rows` is the table, `reader` follows the links,
`shown` is the table body of the jobs page.  Rows are inserted while they are read
(`Insert`, also with the time of an earlier millisecond, since a row becomes visible
at its commit) and jobs end (`JobEnds`).  A page is a set: the rows that fewer than
`limit` others come before (`FirstRows`), and its cursor stands for the one that comes
last (`LastRow`), which is what orderBy, take and slice come to.  Of the reader the
model keeps the ids it has `seen`, those it was shown `again`, and those it is `owed`:
they were in the list when it began and have not left it.

A time is a millisecond and a fraction of it (`at`, `rest`): `createdAt` is
`timestamptz(6)`, while a Date and the cursor made of it keep milliseconds.  `EachRowOnce`
excepts only rows of a millisecond in which the column holds a fraction (`Blurred`); how
often that is the case depends on who fills in `now()`, Prisma or the database, which the
model leaves open.  A link may have been cut (`BreakLink`): before the id, inside it, or
at the front, inside the time.  The audit page takes each of these for no cursor, the API's jobs only
one without an id, the jobs page also one whose time is none; the others make the query
throw (`Ignored`, `ReadFails`).

| run | instance | shows |
|---|---|---|
| `Listings` | `MCSpec`; 3 ids, 2 milliseconds with and without a fraction, pages of 1 or 2, payloads of up to 3 containers, towers of 5, depth 3 | `ListingsInv` (`ListTypeOK`, `EachRowOnce`), `ShownJobsSettle`, `RefusedForAReason` |

`MCSpec` records one audit event first (`AuditEvent`, below) and goes on, once one is
written, as `ListFairSpec`.  Three rows at two times and pages of one or two put the
edge of a page at a tie, before it and behind it.  Fairness: the page polls as long as
it is told to, and jobs end.

Proof (`JobEventsProofs`, last section, as the job page is an entry of these lists).
`ListsReadOnce` (`ListSpec => []ListingsInv`), for any ids, times and sizes of a page.
An order is used only as what it is, strict and total on rows that differ in their
id (`ListOrder`), and sorting is replaced by counting: a row's `Place` is how many
come before it.  Places grow along the order (`Places`) and natural numbers have a
least one (`LeastNat`), so a page comes before all that it leaves out and is empty
only if nothing was found (`FirstRowsComeFirst`), and has a last row
(`LastRowComesLast`), whose cursor finds nothing but what comes after it, and all of it
that is not `Blurred` (`BehindRow`).
The inductive invariant is `ListInv`: between two pages the rows that were seen lie
before the cursor, and those still owed behind it or blurred (`AtCursor`, part of `ReaderKnows`;
TLC finds it invariant on the run's instance too).  A row that is inserted was neither
seen nor is owed (`RowComes`), one whose job ends keeps its place or is owed no longer
(`JobHasEnded`), and a page turned moves the cursor forward (`PageTurned`,
`BehindAfter`).  With the time alone for a cursor (`BehindByTime`, the mutant) it is
`BehindRow` that fails.  `ShownJobsSettle` is liveness and stays with TLC.

### `AuditEvent`

The coercion of recordAuditEvent() as recursive operators over a graph of containers
(`CoerceValue`, `CoercePayload`), and one call of it (`RecordAuditEvent`), whose insert
may be rejected (an actor who does not exist).  `RefusedForAReason`, in the run
`Listings`, says of the whole graph, without recursion over the depth, what is
documented: what is written has no cycle, no secret's key, nothing that is not data
and no more than ten levels below the payload (`Nesting`; every container is one
level, as in `audit-event.ts:186` and the test at `audit-event.test.ts:130`); what is
refused has the defect that the error names.  One error says less than it is documented
to: an object inside an object counts twice, so "depth" is only required to mean that the
payload nests at least half as deep as the limit (section 11).

`MCDrafts` are all payloads of three containers with up to two entries in the first
two: among them are shared containers, cycles of each length and a secret's key at each
level; and towers of three to five containers, objects and arrays in every order, that
nest up to the limit and beyond it, with a limit of 3 for the code's 10: the limit only
counts.

## 11. Other behaviour the models show

What follows is allowed by the models and by the properties as they are stated.  It
has no run of its own; where a property makes an exception, this is the behaviour it
excepts.

Sign-in and invites

* A claim stays although nobody used the invite when the wait for the hash times out
  or the hash rejects: either error is thrown after the claim and outside the try that
  reverts it (`invite-redeem-page.ts:155`); likewise after a crash, a call that throws
  before the try, or a revert that fails.
* A dummy hash that rejects stays cached: logins for unknown emails then answer 500
  until the process restarts (`login-routes.ts:25-31`).
* A COMMIT that is executed and reported as an error is reverted, so a second user is
  reachable through the same invite (`invite-redeem-page.ts:187`).
* A user who is disabled while his password is hashed still gets a session
  (`login-routes.ts:79-88`); requests with it are refused by the later checks of
  `Access`.

Access

* A 403 of the inner route is told as a stale CSRF token, also when the admin has lost
  his role meanwhile.  JSON admin changes are never audited; the form's change and
  its event are two calls, and a crash or a throw in between leaves a change without
  an event (`admin-user-update-route.ts:146`).
* JSON routes that need no admin still serve the session of a disabled user; only the
  role guard refuses him (`role-guard.test.ts:199`).
* An admin may disable himself, as a test says he may
  (`admin-user-update-route.test.ts:289-294`).
* The canary covers the key pepper only: replicas with two session secrets serve side
  by side.  `bin/rotate-api-key-pepper.ts`, which `pepper-canary.ts:16` names, is not
  in the repository.
* The form takes an hourly quota up to 1000, the JSON route up to 10000, although
  `admin-user-update-route.ts:167` says that their bounds match.

Events

* The stream's heartbeats are comments, which EventSource does not report, so a quiet
  stream always looks hung: the page falls back to polling and restores, again and
  again.
* `htmx.process()` in the watchdog forgets a fetch in flight without aborting it
  (`job-detail-watchdog.js:61,73`, `vendor/htmx.min.js:846-862`): of two that overlap the
  older answer may come last, and the page shows an earlier status until its next fetch.
* Switching to polling does not close the event source
  (`PollingHasNoStream` does not hold; `job-detail-watchdog.js:52`).
* `processing` is published whatever the guarded update counted (`consumer.ts:96`), so
  a subscriber may hear it after `canceled`; the page does not show it, because it
  fetches the row.
* A client of the raw stream never learns an end that falls between findFirst and
  subscribe (`jobs-events-route.ts:16,45`); one that leaves before the close handler
  is registered (line 79) leaves a subscriber and a heartbeat behind.

Orphan sweep

* An upload that expired without ever being finished has `finishedAt` null, so the
  directory of its late move is never collected (`orphan-sweep.ts:57`).
* Failed and canceled rows never get an `expiresAt`, so the expired sweep looks at
  succeeded jobs and overdue uploads only (`expired-sweep.ts:41`).

Compression

* An abort during stat or ffprobe is not heard, nor any abort of an image
  (`video-engine.ts:106`); ffprobe, ffmpeg and sharp have no timeout.
* A film longer than the limit of `-t` is cut and counts as done; a whole output
  within 1024 bytes of the size cap is refused.
* A failing `rm` of an output that reached the size cap, or a failing `stat` before it,
  resolves with that output (`OutputFitsAnswer` says a cut output is kept in these
  cases only); a failing `rm` elsewhere in the close handler is an unhandled rejection and ends the worker
  (`video-engine.ts:145`).  A failed image may leave a partial file.

Lists and audit payloads

* The polling fragment drops the cursor, so page two of the jobs turns into page one
  at the first poll (`job-list-rows.hbs:1`).
* A link cut inside the id makes the query throw on the jobs page, in the API and in
  the list of users, although the comment on the jobs page says that it never does
  (`job-list-page.ts:60-62` checks the time only); the audit page checks both.
* Where `createdAt` has a fraction of a millisecond, rows of the same millisecond as the
  last one of a page may be missing on the next (`jobs-routes.ts:171-176`,
  `job-list-page.ts:69-74`, `admin-audit-events-page.ts:106-110`).
* An object inside an object counts twice (`audit-event.ts:127,171`), so six levels of
  objects that hold anything are refused, where the doc says more than ten
  (`audit-event.ts:186`); the test (`audit-event.test.ts:130`) tries thirteen.

Quota

* The free-disk check does not count bytes that were promised and are not written
  yet (`disk-free.ts:25`): calls that pass it together may promise more than there is.

## 12. Not modelled

* `POST /api/v1/jobs`: a stub for uploads without tusd, off by default; it is not
  reachable for a job that tusd uploads.
* The local storage adapter: no process of the repository uses it (paths and magic
  numbers are in `JobPipeline`, hence "partly").
* The hook dispatcher and its shared secret: a dispatch on the hook's type and a
  constant-time comparison, without state.
* Capabilities and OpenAPI, web pages, locales and server start: rendering, constants
  and wiring; no state outlives a request.  The forms that change something are in
  `Access`, `SignIn` and `JobPipeline`.
* Test helpers, the ESLint plugin, end-to-end tests: no part of the running system.
* Inside the modelled parts: the content of files and rows, codec arguments, names,
  headers and cookies; the progress column, which is written without being awaited
  and read by nobody else.
