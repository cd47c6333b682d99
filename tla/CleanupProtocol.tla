-------------------------- MODULE CleanupProtocol --------------------------
(***************************************************************************)
(* How a download keeps a job's output from being cleaned up under it.     *)
(* The route registers a handler in the Redis set downloads:<job>, the     *)
(* expired sweep takes the key cleanup-lock:<job>; both keys have a TTL    *)
(* and are refreshed by timers.  Keys of different jobs do not interact,   *)
(* so the module describes one succeeded job.                              *)
(*                                                                         *)
(* Time passes in ticks (Tick), which the code's intervals are multiples   *)
(* of.  What takes milliseconds (a Redis or file call of a handler that    *)
(* can reach its server, an expiry, a timer) happens before the next tick; *)
(* a sweep's database and file calls may take any time.                    *)
(***************************************************************************)
EXTENDS Naturals, FiniteSets

CONSTANTS
    Cleaners,      \* sweeps at work on the job, over all worker replicas
    Handlers,      \* GET .../download requests, one handler id each
    NoOne,         \* "nobody holds the lock"
    LockTtl,       \* CLEANUP_LOCK_TTL_SEC
    LockRefresh,   \* CLEANUP_REFRESH_INTERVAL_MS
    SetTtl,        \* DOWNLOAD_SET_TTL_SEC
    SetRefresh,    \* DOWNLOAD_REFRESH_INTERVAL_MS
    MaxFailures,   \* REFRESH_FAILURES_BEFORE_ABORT
    MountDepth,    \* path segments of MEDIA_MOUNT_PATH ("/media" has 1)
    DiesAt,        \* the steps at which a handler may die
    HandlerFaults, \* bound: handlers that die
    CleanerFaults, \* bound: sweeps that die or whose call throws
    RefreshFaults, \* bound: refreshes that Redis rejects
    Unreliable,    \* the sides that may lose their connection to Redis
    Outages        \* bound: losses of a connection to Redis

ASSUME CleanupAssumption ==
    /\ NoOne \notin Cleaners
    /\ {LockTtl, LockRefresh, SetTtl, SetRefresh, MaxFailures} \subseteq Nat \ {0}
    /\ Unreliable \subseteq {"api", "worker"}
    /\ {MountDepth, HandlerFaults, CleanerFaults, RefreshFaults, Outages} \subseteq Nat

VARIABLES
    due,       \* has Job.expiresAt passed?
    status,    \* Job.status
    file,      \* is the output file there?
    lock,      \* cleanup-lock:<job>
    readers,   \* downloads:<job>
    online,    \* the sides that reach Redis
    cleaner, handler,   \* the actors
    faults     \* faults suffered so far

vars == <<due, status, file, lock, readers, online, cleaner, handler, faults>>

-----------------------------------------------------------------------------

NoTtl == SetTtl + 1      \* a key without an expiry, or no key

Lock == [owner : Cleaners \cup {NoOne}, ttl : 0 .. LockTtl]
Readers == [ids : SUBSET Handlers, ttl : 0 .. NoTtl]
Timer(interval) ==       \* an interval timer and what its refreshes came to
    [left : 0 .. interval, sent : 0 .. MaxFailures, failures : 0 .. MaxFailures]
Cleaner == [pc : {"idle", "lock", "mark", "unlink", "release"}, timer : Timer(LockRefresh)]
Handler == [pc : {"start", "check", "add", "expire", "recheck", "withdraw",
                  "stat", "stream", "release", "done"},
            timer : Timer(SetRefresh), gone : BOOLEAN]

Free == [owner |-> NoOne, ttl |-> 0]
NoReaders == [ids |-> {}, ttl |-> NoTtl]
NewTimer(interval) == [left |-> interval, sent |-> 0, failures |-> 0]

TypeOK ==
    /\ due \in BOOLEAN
    /\ status \in {"succeeded", "expired"}
    /\ file \in BOOLEAN
    /\ lock \in Lock
    /\ readers \in Readers
    /\ online \subseteq {"api", "worker"}
    /\ cleaner \in [Cleaners -> Cleaner]
    /\ handler \in [Handlers -> Handler]
    /\ faults \in [handler : 0 .. HandlerFaults, cleaner : 0 .. CleanerFaults,
                   refresh : 0 .. RefreshFaults, outage : 0 .. Outages]

Init ==
    /\ due = FALSE
    /\ status = "succeeded"
    /\ file = TRUE
    /\ lock = Free
    /\ readers = NoReaders
    /\ online = {"api", "worker"}
    /\ cleaner = [c \in Cleaners |-> [pc |-> "idle", timer |-> NewTimer(LockRefresh)]]
    /\ handler = [h \in Handlers |->
                     [pc |-> "start", timer |-> NewTimer(SetRefresh), gone |-> FALSE]]
    /\ faults = [handler |-> 0, cleaner |-> 0, refresh |-> 0, outage |-> 0]

-----------------------------------------------------------------------------
(* The commands Redis executes.                                            *)

\* SADD keeps the TTL of the set, a new set has none.
Added(s, h) == [s EXCEPT !.ids = @ \cup {h}]

\* EXPIRE of the set; of a key that is gone it does nothing (and returns 0).
\* The mutants forget it, or take the lock's TTL.
NotRefreshed(s) == s
BrieflyRefreshed(s) == IF s.ids = {} THEN s ELSE [s EXCEPT !.ttl = LockTtl]
Refreshed(s) == IF s.ids = {} THEN s ELSE [s EXCEPT !.ttl = SetTtl]

\* SREM; an empty set is no key.
Removed(s, h) == IF s.ids \subseteq {h} THEN NoReaders ELSE [s EXCEPT !.ids = @ \ {h}]

\* tryCleanupAcquire: SCARD = 0, then SET NX EX; in the mutant without NX.
AnyLock(l, s) == s.ids = {}
Acquirable(l, s) == s.ids = {} /\ l.owner = NoOne

\* safeRefresh and safeUnlock compare the owner; the mutant just deletes.
SafeRefreshed(l, c) == IF l.owner = c THEN [l EXCEPT !.ttl = LockTtl] ELSE l
Deleted(l, c) == Free
SafeUnlocked(l, c) == IF l.owner = c THEN Free ELSE l

-----------------------------------------------------------------------------
(* The refresh timers of both sides.  A timer fires whether Redis can be   *)
(* reached or not; commands of a lost connection wait (the clients set     *)
(* maxRetriesPerRequest: null), at most MaxFailures of them are counted.   *)

Fired(t, interval) ==
    [t EXCEPT !.left = interval, !.sent = IF @ < MaxFailures THEN @ + 1 ELSE @]

\* MaxFailures failures in a row: the caller is told, the timer cleared.
Aborted(t) == t.failures = MaxFailures

\* onFailure, or the reset of the count after a refresh that worked.
Answered(t, ok) ==
    [t EXCEPT !.sent = @ - 1,
              !.failures = IF Aborted(t) THEN @ ELSE IF ok THEN 0 ELSE @ + 1]

Refreshing(h) == handler[h].pc \in {"stat", "stream"}
Guarding(c) == cleaner[c].pc \in {"mark", "unlink"}

HandlerTimerDue(h) ==
    Refreshing(h) /\ ~Aborted(handler[h].timer) /\ handler[h].timer.left = 0
CleanerTimerDue(c) ==
    Guarding(c) /\ ~Aborted(cleaner[c].timer) /\ cleaner[c].timer.left = 0

HandlerTimerFires(h) ==
    /\ HandlerTimerDue(h)
    /\ handler' = [handler EXCEPT ![h].timer = Fired(@, SetRefresh)]
    /\ UNCHANGED <<due, status, file, lock, readers, online, cleaner, faults>>

CleanerTimerFires(c) ==
    /\ CleanerTimerDue(c)
    /\ cleaner' = [cleaner EXCEPT ![c].timer = Fired(@, LockRefresh)]
    /\ UNCHANGED <<due, status, file, lock, readers, online, handler, faults>>

HandlerRefresh(h) ==
    /\ "api" \in online
    /\ handler[h].timer.sent > 0
    /\ readers' = Refreshed(readers)
    /\ handler' = [handler EXCEPT ![h].timer = Answered(@, readers.ids # {})]
    /\ UNCHANGED <<due, status, file, lock, online, cleaner, faults>>

CleanerRefresh(c) ==
    /\ "worker" \in online
    /\ cleaner[c].timer.sent > 0
    /\ lock' = SafeRefreshed(lock, c)
    /\ cleaner' = [cleaner EXCEPT ![c].timer = Answered(@, lock.owner = c)]
    /\ UNCHANGED <<due, status, file, readers, online, handler, faults>>

HandlerRefreshRejected(h) ==
    /\ "api" \in online
    /\ handler[h].timer.sent > 0
    /\ faults.refresh < RefreshFaults
    /\ faults' = [faults EXCEPT !.refresh = @ + 1]
    /\ handler' = [handler EXCEPT ![h].timer = Answered(@, FALSE)]
    /\ UNCHANGED <<due, status, file, lock, readers, online, cleaner>>

CleanerRefreshRejected(c) ==
    /\ "worker" \in online
    /\ cleaner[c].timer.sent > 0
    /\ faults.refresh < RefreshFaults
    /\ faults' = [faults EXCEPT !.refresh = @ + 1]
    /\ cleaner' = [cleaner EXCEPT ![c].timer = Answered(@, FALSE)]
    /\ UNCHANGED <<due, status, file, lock, readers, online, handler>>

-----------------------------------------------------------------------------
(* GET /jobs/:id/download: the row, startDownloadHandler, the stream.      *)

Goto(h, pc) == handler' = [handler EXCEPT ![h].pc = pc]

\* Only a succeeded job whose expiresAt is ahead is downloaded.
ReadRow(h) ==
    /\ handler[h].pc = "start"
    /\ Goto(h, IF status = "succeeded" /\ ~due THEN "check" ELSE "done")
    /\ UNCHANGED <<due, status, file, lock, readers, online, cleaner, faults>>

PreCheck(h) ==
    /\ handler[h].pc = "check"
    /\ "api" \in online
    /\ Goto(h, IF lock.owner = NoOne THEN "add" ELSE "done")
    /\ UNCHANGED <<due, status, file, lock, readers, online, cleaner, faults>>

Register(h) ==
    /\ handler[h].pc = "add"
    /\ "api" \in online
    /\ readers' = Added(readers, h)
    /\ Goto(h, "expire")
    /\ UNCHANGED <<due, status, file, lock, online, cleaner, faults>>

\* The result of this EXPIRE is not looked at.
SetExpiry(h) ==
    /\ handler[h].pc = "expire"
    /\ "api" \in online
    /\ readers' = Refreshed(readers)
    /\ Goto(h, "recheck")
    /\ UNCHANGED <<due, status, file, lock, online, cleaner, faults>>

\* Mutant: the lock is not looked at again.
NoRecheck(l) == "stat"
AfterRecheck(l) == IF l.owner = NoOne THEN "stat" ELSE "withdraw"

Recheck(h) ==
    /\ handler[h].pc = "recheck"
    /\ "api" \in online
    /\ Goto(h, AfterRecheck(lock))
    /\ UNCHANGED <<due, status, file, lock, readers, online, cleaner, faults>>

Withdraw(h) ==
    /\ handler[h].pc = "withdraw"
    /\ "api" \in online
    /\ readers' = Removed(readers, h)
    /\ Goto(h, "done")
    /\ UNCHANGED <<due, status, file, lock, online, cleaner, faults>>

\* join(mount, outputStorageKey) with the absolute key the worker stored is
\* the output's path only if the mount is "/".
KeyResolves == MountDepth = 0

\* stat; without a file the answer is 410 "file gone", with one it streams.
Stat(h) ==
    /\ handler[h].pc = "stat"
    /\ handler' = [handler EXCEPT
          ![h].pc = IF file /\ KeyResolves THEN "stream" ELSE "release",
          ![h].gone = ~(file /\ KeyResolves)]
    /\ UNCHANGED <<due, status, file, lock, readers, online, cleaner, faults>>

\* The stream ends, fails, is closed by the client, or is destroyed by the
\* one-second check because the refresh timer gave up.
StreamEnds(h) ==
    /\ handler[h].pc = "stream"
    /\ Goto(h, "release")
    /\ UNCHANGED <<due, status, file, lock, readers, online, cleaner, faults>>

\* release: SREM, after the refreshes already sent on the connection.
ReleaseHandler(h) ==
    /\ handler[h].pc = "release"
    /\ "api" \in online
    /\ handler[h].timer.sent = 0
    /\ readers' = Removed(readers, h)
    /\ Goto(h, "done")
    /\ UNCHANGED <<due, status, file, lock, online, cleaner, faults>>

-----------------------------------------------------------------------------
(* The expired sweep, for this job of its batch.                           *)

MoveTo(c, pc) == cleaner' = [cleaner EXCEPT ![c].pc = pc]

\* findMany; the loop may reach the job much later.
Batch(c) ==
    /\ cleaner[c].pc = "idle"
    /\ status = "succeeded" /\ due
    /\ MoveTo(c, "lock")
    /\ UNCHANGED <<due, status, file, lock, readers, online, handler, faults>>

Acquire(c) ==
    /\ cleaner[c].pc = "lock"
    /\ "worker" \in online
    /\ \/ /\ Acquirable(lock, readers)
          /\ lock' = [owner |-> c, ttl |-> LockTtl]
          /\ cleaner' = [cleaner EXCEPT ![c] = [pc |-> "mark", timer |-> NewTimer(LockRefresh)]]
       \/ /\ ~Acquirable(lock, readers)
          /\ MoveTo(c, "idle")
          /\ UNCHANGED lock
    /\ UNCHANGED <<due, status, file, readers, online, handler, faults>>

Mark(c) ==
    /\ cleaner[c].pc = "mark"
    /\ status' = "expired"
    /\ MoveTo(c, "unlink")
    /\ UNCHANGED <<due, file, lock, readers, online, handler, faults>>

\* unlink, whether the lock could be refreshed or not: an abort is logged.
Unlink(c) ==
    /\ cleaner[c].pc = "unlink"
    /\ file' = (file /\ ~KeyResolves)
    /\ MoveTo(c, "release")
    /\ UNCHANGED <<due, status, lock, readers, online, handler, faults>>

ReleaseLock(c) ==
    /\ cleaner[c].pc = "release"
    /\ "worker" \in online
    /\ cleaner[c].timer.sent = 0
    /\ lock' = SafeUnlocked(lock, c)
    /\ MoveTo(c, "idle")
    /\ UNCHANGED <<due, status, file, readers, online, handler, faults>>

-----------------------------------------------------------------------------
(* The environment: time, expiry, the connections, deaths.                 *)

Due ==
    /\ ~due
    /\ due' = TRUE
    /\ UNCHANGED <<status, file, lock, readers, online, cleaner, handler, faults>>

LockLapses ==
    /\ lock.owner # NoOne /\ lock.ttl = 0
    /\ lock' = Free
    /\ UNCHANGED <<due, status, file, readers, online, cleaner, handler, faults>>

SetLapses ==
    /\ readers.ttl = 0
    /\ readers' = NoReaders
    /\ UNCHANGED <<due, status, file, lock, online, cleaner, handler, faults>>

\* What must not wait for the next tick.
HandlerUrgent(h) ==
    \/ HandlerTimerDue(h)
    \/ handler[h].pc = "stat"
    \/ handler[h].pc = "stream" /\ Aborted(handler[h].timer)
    \/ "api" \in online /\
          \/ handler[h].timer.sent > 0
          \/ handler[h].pc \in {"check", "add", "expire", "recheck", "withdraw", "release"}

CleanerUrgent(c) ==
    \/ CleanerTimerDue(c)
    \/ "worker" \in online /\ (cleaner[c].timer.sent > 0 \/ cleaner[c].pc = "release")

Minus1(n) == IF n = 0 THEN 0 ELSE n - 1

Tick ==
    /\ \A h \in Handlers : ~HandlerUrgent(h)
    /\ \A c \in Cleaners : ~CleanerUrgent(c)
    /\ lock.owner # NoOne => lock.ttl > 0
    /\ readers.ttl > 0
    /\ lock' = [lock EXCEPT !.ttl = Minus1(@)]
    /\ readers' = [readers EXCEPT !.ttl = IF @ = NoTtl THEN @ ELSE Minus1(@)]
    /\ cleaner' = [c \in Cleaners |->
          IF Guarding(c) THEN [cleaner[c] EXCEPT !.timer.left = Minus1(@)] ELSE cleaner[c]]
    /\ handler' = [h \in Handlers |->
          IF Refreshing(h) THEN [handler[h] EXCEPT !.timer.left = Minus1(@)] ELSE handler[h]]
    /\ UNCHANGED <<due, status, file, online, faults>>

ConnectionLost(side) ==
    /\ side \in online \cap Unreliable
    /\ faults.outage < Outages
    /\ faults' = [faults EXCEPT !.outage = @ + 1]
    /\ online' = online \ {side}
    /\ UNCHANGED <<due, status, file, lock, readers, cleaner, handler>>

Reconnected(side) ==
    /\ side \in {"api", "worker"} \ online
    /\ online' = online \cup {side}
    /\ UNCHANGED <<due, status, file, lock, readers, cleaner, handler, faults>>

\* A crash, or a command that is rejected: nothing undoes what was done.
HandlerDies(h) ==
    /\ handler[h].pc \in DiesAt
    /\ faults.handler < HandlerFaults
    /\ faults' = [faults EXCEPT !.handler = @ + 1]
    /\ handler' = [handler EXCEPT ![h].pc = "done", ![h].timer = NewTimer(SetRefresh)]
    /\ UNCHANGED <<due, status, file, lock, readers, online, cleaner>>

CleanerDies(c) ==
    /\ cleaner[c].pc # "idle"
    /\ faults.cleaner < CleanerFaults
    /\ faults' = [faults EXCEPT !.cleaner = @ + 1]
    /\ cleaner' = [cleaner EXCEPT ![c] = [pc |-> "idle", timer |-> NewTimer(LockRefresh)]]
    /\ UNCHANGED <<due, status, file, lock, readers, online, handler>>

\* updateMany throws; finally still releases the lock.
MarkThrows(c) ==
    /\ cleaner[c].pc = "mark"
    /\ faults.cleaner < CleanerFaults
    /\ faults' = [faults EXCEPT !.cleaner = @ + 1]
    /\ MoveTo(c, "release")
    /\ UNCHANGED <<due, status, file, lock, readers, online, handler>>

-----------------------------------------------------------------------------

HandlerStep(h) ==
    \/ ReadRow(h)
    \/ PreCheck(h)
    \/ Register(h)
    \/ SetExpiry(h)
    \/ Recheck(h)
    \/ Withdraw(h)
    \/ Stat(h)
    \/ StreamEnds(h)
    \/ ReleaseHandler(h)
    \/ HandlerTimerFires(h)
    \/ HandlerRefresh(h)

CleanerStep(c) ==
    \/ Batch(c)
    \/ Acquire(c)
    \/ Mark(c)
    \/ Unlink(c)
    \/ ReleaseLock(c)
    \/ CleanerTimerFires(c)
    \/ CleanerRefresh(c)

Fault ==
    \/ \E h \in Handlers : HandlerDies(h) \/ HandlerRefreshRejected(h)
    \/ \E c \in Cleaners : CleanerDies(c) \/ MarkThrows(c) \/ CleanerRefreshRejected(c)
    \/ \E side \in {"api", "worker"} : ConnectionLost(side)

Next ==
    \/ \E h \in Handlers : HandlerStep(h)
    \/ \E c \in Cleaners : CleanerStep(c)
    \/ Due
    \/ LockLapses
    \/ SetLapses
    \/ Tick
    \/ \E side \in {"api", "worker"} : Reconnected(side)
    \/ Fault

Spec == Init /\ [][Next]_vars

\* Node runs what is ready, streams end, Redis answers who reaches it, the
\* sweep comes round every 15 minutes and its database and file calls end.
Fairness ==
    /\ \A h \in Handlers :
        /\ WF_vars(PreCheck(h) \/ Register(h) \/ SetExpiry(h) \/ Recheck(h) \/ Withdraw(h)
                     \/ Stat(h) \/ ReleaseHandler(h))
        /\ WF_vars(StreamEnds(h))
        /\ WF_vars(HandlerTimerFires(h))
        /\ WF_vars(HandlerRefresh(h))
    /\ \A c \in Cleaners :
        /\ WF_vars(Batch(c) \/ Acquire(c))
        /\ WF_vars(Mark(c) \/ Unlink(c) \/ ReleaseLock(c))
        /\ WF_vars(CleanerTimerFires(c))
        /\ WF_vars(CleanerRefresh(c))
    /\ WF_vars(LockLapses)
    /\ WF_vars(SetLapses)
    /\ WF_vars(Tick)
    /\ \A side \in {"api", "worker"} : WF_vars(Reconnected(side))

FairSpec == Spec /\ Fairness

-----------------------------------------------------------------------------
(* Properties.                                                             *)

\* What downloads and sweeps do to the file is what FileLease allows: a
\* handler that passed its re-check is inside until its stream has ended,
\* and the file goes only while nobody is (expired-sweep.ts, "parallel
\* downloads must not see vanishing files").
Place(pc) == CASE pc = "stat" -> "inside" [] pc = "stream" -> "reading" [] OTHER -> "outside"
Lease == INSTANCE FileLease WITH
    Readers <- Handlers, present <- file, reader <- [h \in Handlers |-> Place(handler[h].pc)]
ImplementsLease == Lease!Spec

\* Whoever streams is a member of the set: refreshes keep it alive, and a
\* handler gives up before the set can lapse (download-set.ts, the timer).
StreamsAreRegistered == \A h \in Handlers : Refreshing(h) => h \in readers.ids

\* What the route and the timers keep between them through rejected refreshes
\* and lapsing keys (download-set.ts:64-91).
CleanupInv == TypeOK /\ StreamsAreRegistered

\* The lock passes from one sweep to the next only when the first released
\* it or its TTL ran out: nobody deletes or takes another's lock
\* (redis-scripts.ts, the owner comparisons and NX).
LockIsNotStolen ==
    [][lock.owner # NoOne /\ lock'.owner # lock.owner
          => lock.ttl = 0 \/ cleaner[lock.owner].pc = "release"]_vars

\* At most one sweep at a time works on the job's row and files
\* (expired-sweep.ts, "at-most-one-worker-per-job semantics").
OneCleaner ==
    \A b, c \in Cleaners : Guarding(b) /\ Guarding(c) => b = c

\* A job whose time is over is expired in the end: handlers that died lapse
\* with the set's TTL, sweeps that died with the lock's.
DueJobsExpire == due ~> status = "expired"

-----------------------------------------------------------------------------
(* What a comment or a test says and the code does not do.                 *)

\* download-route.ts:15: "refuses to delete the file while any handler
\* exists", that is between startDownloadHandler and the end of the stream.
NoUnlinkUnderHandler ==
    [][file /\ ~file' => \A h \in Handlers : ~Refreshing(h)]_vars

\* download-route.ts:23: the answer 410 "file gone" is for a file that is gone.
GoneMeansGone == \A h \in Handlers : handler[h].gone => ~file

=============================================================================
