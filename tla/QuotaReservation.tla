-------------------------- MODULE QuotaReservation --------------------------
(***************************************************************************)
(* The pre-create hook and the quota reservation it makes: a disk check,   *)
(* then one transaction under the user's advisory lock (reserve.ts).  The  *)
(* transaction runs at READ COMMITTED, so each of its statements sees what *)
(* the hook, the workers, the sweeps and an admin have committed by then;  *)
(* only reservations of the same user wait for each other.                 *)
(***************************************************************************)
EXTENDS Naturals, FiniteSets, FiniteSetsExt

CONSTANTS
    Users, Uploads, Calls,
    Jobs,         \* ids of rows, finitely many: one for each key of a user is enough
    NoCall, NoUpload, NoJob,
    Owner,        \* whose upload it is
    Content,      \* its metadata and size: all the idempotency key is made of
    Size,         \* the bytes of a content
    Quotas,       \* quotas an admin may give: storage, parallel, hourly
    InitialQuota, \* the one a user starts with
    Capacity,     \* bytes of the media volume
    MinFree,      \* MIN_FREE_BYTES_RESERVE
    MaxGrowth,    \* bound: by how much a result may exceed its input
    Disturbances  \* bound: PATCHes of quotas, and calls that fail

ASSUME ReservationAssumption ==
    /\ Owner \in [Uploads -> Users]
    /\ \A x \in Uploads : Size[Content[x]] \in Nat
    /\ Quotas \subseteq [storage : Nat, parallel : Nat, hourly : Nat]
    /\ InitialQuota \in Quotas
    /\ IsFiniteSet(Jobs)
    /\ {Capacity, MinFree, MaxGrowth, Disturbances} \subseteq Nat
    /\ NoCall \notin Calls /\ NoUpload \notin Uploads /\ NoJob \notin Jobs

VARIABLES
    row,      \* the Job rows, as committed
    quota,    \* the quotas in the User rows
    holder,   \* who holds a user's advisory lock
    call,     \* pre-create calls in progress
    given,    \* the job an upload was given as its id
    disturbed \* quota changes and failed calls so far

vars == <<row, quota, holder, call, given, disturbed>>

-----------------------------------------------------------------------------

Contents == {Content[x] : x \in Uploads}
Keys == Users \X Contents

\* past: the row's own deadline (uploadExpiresAt, expiresAt) is over;
\* recent: created within the last hour.
Row == [status : {"absent", "uploading", "accepted", "succeeded", "ended"},
        upload : Uploads \cup {NoUpload}, key : Keys \cup {<<>>},
        output : Nat, past : BOOLEAN, recent : BOOLEAN]
Call == [pc : {"idle", "lock", "find", "reclaim", "user", "inflight", "succeeded",
               "count", "hour", "create", "answer"},
         upload : Uploads \cup {NoUpload}, job : Jobs \cup {NoJob},
         reclaimed : SUBSET Jobs, quota : Quotas, used : Nat]

NoRow == [status |-> "absent", upload |-> NoUpload, key |-> <<>>,
          output |-> 0, past |-> FALSE, recent |-> FALSE]
Idle == [pc |-> "idle", upload |-> NoUpload, job |-> NoJob,
         reclaimed |-> {}, quota |-> InitialQuota, used |-> 0]

TypeOK ==
    /\ row \in [Jobs -> Row]
    /\ quota \in [Users -> Quotas]
    /\ holder \in [Users -> Calls \cup {NoCall}]
    /\ call \in [Calls -> Call]
    /\ given \in [Uploads -> Jobs \cup {NoJob}]
    /\ disturbed \in 0 .. Disturbances

Init ==
    /\ row = [j \in Jobs |-> NoRow]
    /\ quota = [u \in Users |-> InitialQuota]
    /\ holder = [u \in Users |-> NoCall]
    /\ call = [c \in Calls |-> Idle]
    /\ given = [x \in Uploads |-> NoJob]
    /\ disturbed = 0

-----------------------------------------------------------------------------
(* Sums and counts over the rows of a user.                                *)

Exists(j) == row[j].status # "absent"
Of(j) == Owner[row[j].upload]
Reserved(j) == Size[Content[row[j].upload]]

RowsOf(u) == {j \in Jobs : Exists(j) /\ Of(j) = u}
InFlight(u) == {j \in RowsOf(u) : row[j].status \in {"uploading", "accepted"}}
Results(u) == {j \in RowsOf(u) : row[j].status = "succeeded" /\ ~row[j].past}
Recent(u) == {j \in RowsOf(u) : row[j].recent}

ReservedBytes(S) == MapThenSumSet(Reserved, S)
OutputBytes(S) == MapThenSumSet(LAMBDA j : row[j].output, S)

\* What results take beyond the bytes that were reserved for their inputs.
Growth(S) ==
    MapThenSumSet(LAMBDA j : IF row[j].output > Reserved(j) THEN row[j].output - Reserved(j) ELSE 0, S)

\* What takes room on the volume: inputs of accepted jobs, inputs and
\* outputs of finished ones (statfs; the sweep that unlinks them is timely).
Taken ==
    LET Stored == {j \in Jobs : row[j].status \in {"accepted", "succeeded"} /\ ~row[j].past} IN
    ReservedBytes(Stored) + OutputBytes(Stored)

\* free - claimedSize < minFreeReserve, kept in the naturals
DiskHasRoomFor(bytes) == Taken + bytes + MinFree <= Capacity

-----------------------------------------------------------------------------
(* The hook and the transaction.                                           *)

UserOf(c) == Owner[call[c].upload]

\* The idempotency key; a mutant draws another one for each call.
KeyOfCall(c) == <<UserOf(c), c>>
KeyOf(c) == <<UserOf(c), Content[call[c].upload]>>

\* A call inside its transaction does not see the rows it has reclaimed as
\* in flight.
CountedInFlight(c) == InFlight(UserOf(c)) \ call[c].reclaimed

\* The bound on disturbances.
Disturbs == disturbed < Disturbances /\ disturbed' = disturbed + 1

InTransaction(c) == call[c].pc \notin {"idle", "lock", "answer"}
\* The mutant forgets the lock of a call that is over.
Kept(c) == holder
Unlocked(c) == [u \in Users |-> IF holder[u] = c THEN NoCall ELSE holder[u]]

Advance(c, pc) == call' = [call EXCEPT ![c].pc = pc]

Answering(x, j) == [Idle EXCEPT !.pc = "answer", !.upload = x, !.job = j]

\* Roll back: the reclaimed rows are as they were.
Abandon(c) ==
    /\ call' = [call EXCEPT ![c] = Idle]
    /\ holder' = Unlocked(c)
    /\ UNCHANGED row

\* The synchronous part: statfs and the key.  tusd calls the hook again
\* whenever it wants, and also for an upload it has an answer for.
Receive(c, x) ==
    /\ call[c].pc = "idle"
    /\ DiskHasRoomFor(Size[Content[x]])
    /\ call' = [call EXCEPT ![c] = [Idle EXCEPT !.pc = "lock", !.upload = x]]
    /\ UNCHANGED <<row, quota, holder, given, disturbed>>

\* pg_advisory_xact_lock; the mutant does not wait.
AnyHolder(c) == TRUE
LockFree(c) == holder[UserOf(c)] = NoCall

Lock(c) ==
    /\ call[c].pc = "lock"
    /\ LockFree(c)
    /\ holder' = [holder EXCEPT ![UserOf(c)] = c]
    /\ Advance(c, "find")
    /\ UNCHANGED <<row, quota, given, disturbed>>

\* The job of an earlier call with this key, whatever became of it.
Find(c) ==
    /\ call[c].pc = "find"
    /\ LET found == {j \in Jobs : row[j].key = KeyOf(c)} IN
       \/ /\ found = {}
          /\ Advance(c, "reclaim")
          /\ UNCHANGED holder
       \/ \E j \in found :
          /\ call' = [call EXCEPT ![c] = Answering(call[c].upload, j)]
          /\ holder' = Unlocked(c)
    /\ UNCHANGED <<row, quota, given, disturbed>>

Reclaim(c) ==
    /\ call[c].pc = "reclaim"
    /\ call' = [call EXCEPT ![c].pc = "user",
          ![c].reclaimed = {j \in RowsOf(UserOf(c)) : row[j].status = "uploading" /\ row[j].past}]
    /\ UNCHANGED <<row, quota, holder, given, disturbed>>

ReadUser(c) ==
    /\ call[c].pc = "user"
    /\ call' = [call EXCEPT ![c].pc = "inflight", ![c].quota = quota[UserOf(c)]]
    /\ UNCHANGED <<row, quota, holder, given, disturbed>>

SumInFlight(c) ==
    /\ call[c].pc = "inflight"
    /\ call' = [call EXCEPT ![c].pc = "succeeded", ![c].used = ReservedBytes(CountedInFlight(c))]
    /\ UNCHANGED <<row, quota, holder, given, disturbed>>

\* totalUsed + claimedSize > storageQuota
OverStorage(c) ==
    call[c].used + OutputBytes(Results(UserOf(c))) + Size[Content[call[c].upload]]
        > call[c].quota.storage

SumSucceeded(c) ==
    /\ call[c].pc = "succeeded"
    /\ IF OverStorage(c) THEN Abandon(c)
       ELSE /\ call' = [call EXCEPT ![c].pc = "count", ![c].used = 0]
            /\ UNCHANGED <<row, holder>>
    /\ UNCHANGED <<quota, given, disturbed>>

CountInFlight(c) ==
    /\ call[c].pc = "count"
    /\ IF Cardinality(CountedInFlight(c)) >= call[c].quota.parallel
       THEN Abandon(c) ELSE Advance(c, "hour") /\ UNCHANGED <<row, holder>>
    /\ UNCHANGED <<quota, given, disturbed>>

CountRecent(c) ==
    /\ call[c].pc = "hour"
    /\ IF Cardinality(Recent(UserOf(c))) >= call[c].quota.hourly
       THEN Abandon(c) ELSE Advance(c, "create") /\ UNCHANGED <<row, holder>>
    /\ UNCHANGED <<quota, given, disturbed>>

KeyTaken(c) == \E j \in Jobs : row[j].key = KeyOf(c)

\* Nobody looks at the deadline or the result of a row that has ended.
Ended(r) == [r EXCEPT !.status = "ended", !.past = FALSE, !.output = 0]

NewRow(c) ==
    [status |-> "uploading", upload |-> call[c].upload, key |-> KeyOf(c),
     output |-> 0, past |-> FALSE, recent |-> TRUE]

\* The insert, with an id randomUUID gave to nobody else, and the commit.  A
\* key the table has by now makes the insert fail (unique index).
Create(c) ==
    /\ call[c].pc = "create"
    /\ \/ \E j \in Jobs :
          /\ ~KeyTaken(c) /\ ~Exists(j)
          /\ row' = [i \in Jobs |->
                IF i = j THEN NewRow(c)
                ELSE IF i \in call[c].reclaimed THEN Ended(row[i])
                ELSE row[i]]
          /\ call' = [call EXCEPT ![c] = Answering(call[c].upload, j)]
          /\ holder' = Unlocked(c)
       \/ KeyTaken(c) /\ Abandon(c)
    /\ UNCHANGED <<quota, given, disturbed>>

\* ChangeFileInfo.ID
Answer(c) ==
    /\ call[c].pc = "answer"
    /\ given' = [given EXCEPT ![call[c].upload] = call[c].job]
    /\ call' = [call EXCEPT ![c] = Idle]
    /\ UNCHANGED <<row, quota, holder, disturbed>>

\* Prisma's transaction timeout, a lost connection, a crash, at any point
\* before the answer: what is not committed is rolled back, and tusd hears
\* nothing but an error.
CallFails(c) ==
    /\ call[c].pc # "idle"
    /\ Disturbs
    /\ Abandon(c)
    /\ UNCHANGED <<quota, given>>

-----------------------------------------------------------------------------
(* What happens to the rows meanwhile.                                     *)

\* A row a transaction has reclaimed is locked until its end.
Writable(j) == \A c \in Calls : j \notin call[c].reclaimed

\* post-finish: the row is queued and uploadExpiresAt cleared.
Accept(j) ==
    /\ row[j].status = "uploading" /\ Writable(j)
    /\ row' = [row EXCEPT ![j].status = "accepted", ![j].past = FALSE]
    /\ UNCHANGED <<quota, holder, call, given, disturbed>>

\* The worker's final update; a result may be larger than its input was.
Succeed(j) ==
    /\ row[j].status = "accepted"
    /\ \E bytes \in {1, Reserved(j) + MaxGrowth} :
          row' = [row EXCEPT ![j].status = "succeeded", ![j].output = bytes]
    /\ UNCHANGED <<quota, holder, call, given, disturbed>>

\* Rejected, failed, canceled, expired.
End(j) ==
    /\ row[j].status \in {"uploading", "accepted", "succeeded"} /\ Writable(j)
    /\ row[j].status = "succeeded" => row[j].past
    /\ row' = [row EXCEPT ![j] = Ended(@)]
    /\ UNCHANGED <<quota, holder, call, given, disturbed>>

DeadlinePasses(j) ==
    /\ row[j].status \in {"uploading", "succeeded"} /\ ~row[j].past
    /\ row' = [row EXCEPT ![j].past = TRUE]
    /\ UNCHANGED <<quota, holder, call, given, disturbed>>

HourPasses(j) ==
    /\ row[j].recent
    /\ row' = [row EXCEPT ![j].recent = FALSE]
    /\ UNCHANGED <<quota, holder, call, given, disturbed>>

\* PATCH /api/v1/admin/users/:id
ChangeQuota(u) ==
    /\ Disturbs
    /\ \E q \in Quotas : quota' = [quota EXCEPT ![u] = q]
    /\ UNCHANGED <<row, holder, call, given>>

-----------------------------------------------------------------------------

Step(c) ==
    \/ Lock(c)
    \/ Find(c)
    \/ Reclaim(c)
    \/ ReadUser(c)
    \/ SumInFlight(c)
    \/ SumSucceeded(c)
    \/ CountInFlight(c)
    \/ CountRecent(c)
    \/ Create(c)
    \/ Answer(c)

Next ==
    \/ \E c \in Calls : Step(c) \/ CallFails(c)
    \/ \E c \in Calls, x \in Uploads : Receive(c, x)
    \/ \E j \in Jobs : Accept(j) \/ Succeed(j) \/ End(j) \/ DeadlinePasses(j) \/ HourPasses(j)
    \/ \E u \in Users : ChangeQuota(u)

Spec == Init /\ [][Next]_vars

-----------------------------------------------------------------------------
(* Properties.                                                             *)

\* A reservation keeps the user within the quotas it read, all three
\* measured when it commits: with its own row counted, with the jobs that
\* ended or succeeded and the quotas that changed between its statements,
\* and with the other reservations of the user (reserve.ts:42, "Atomic quota
\* reservation").  Only a result larger than its input can exceed the storage
\* quota, by the difference: its job may succeed after the sums.
Creates(c) == call[c].pc = "create" /\ call'[c].pc = "answer"

ReservedWithinQuota ==
    [][\A c \in Calls, u \in Users : Creates(c) /\ u = UserOf(c) =>
          /\ Cardinality(InFlight(u)') <= call[c].quota.parallel
          /\ (ReservedBytes(InFlight(u)) + OutputBytes(Results(u)))'
                <= call[c].quota.storage + Growth(Results(u))'
          /\ Cardinality(Recent(u)') <= call[c].quota.hourly]_vars

\* A call that has passed its lookup is the only one to create a row with
\* its key: redelivered hooks find the row or create it, none runs into the
\* unique index and fails (pre-create-hook.ts:130-133).
CallsNeverCollide == \A c \in Calls : call[c].pc = "create" => ~KeyTaken(c)

\* Whatever calls for an upload are repeated, when, and after which failure:
\* tusd is always told the same id (reserve.ts:47-48).
RetryGetsSameJob ==
    [][\A x \in Uploads : given[x] # NoJob => given'[x] = given[x]]_given

\* The lock is held by a transaction of its user or by nobody: no two calls
\* of a user are in their transactions, and no refusal, timeout or crash
\* leaves the lock behind for the user's next upload to wait on
\* (reserve.ts:42, pg_advisory_xact_lock).
LockHeldInside ==
    \A c \in Calls, u \in Users : holder[u] = c <=> InTransaction(c) /\ UserOf(c) = u

-----------------------------------------------------------------------------
(* What a comment says and the code does not do.                           *)

\* pre-create-hook.ts:55: the row's id is the upload's id, one to one.
OneJobPerUpload ==
    \A x, y \in Uploads : given[x] = given[y] /\ given[x] # NoJob => x = y

=============================================================================
