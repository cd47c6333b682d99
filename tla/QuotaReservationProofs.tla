----------------------- MODULE QuotaReservationProofs -----------------------
(***************************************************************************)
(* Proofs about QuotaReservation, for any users, uploads, contents, calls, *)
(* quotas and bounds, and any finite set of rows.                          *)
(*                                                                         *)
(* The route: Shape says that the variables are functions of records;      *)
(* every step then is of one of a few kinds (Kinds), named for what they   *)
(* do to the lock, the keys and the calls; from the kinds, one lemma per   *)
(* conjunct of ReservationInv.                                             *)
(*                                                                         *)
(* Then the quotas.  The sums are folds over sets; SubsetInduction proves  *)
(* what is needed of them (Total) with a set in place of a predicate.      *)
(* Falls says how steps of the rows change what a transaction of their     *)
(* user has summed and counted, and Measured carries it to the insert.     *)
(***************************************************************************)
EXTENDS QuotaReservation, FiniteSetTheorems, WellFoundedInduction, TLAPS

KeyFor(x) == <<Owner[x], Content[x]>>

RowWith(O) ==
    [status : {"absent", "uploading", "accepted", "succeeded", "ended"},
     upload : Uploads \cup {NoUpload}, key : {KeyFor(x) : x \in Uploads} \cup {<<>>},
     output : O, past : BOOLEAN, recent : BOOLEAN]

CallWith(U) ==
    [pc : {"idle", "lock", "find", "reclaim", "user", "inflight", "succeeded",
           "count", "hour", "create", "answer"},
     upload : Uploads \cup {NoUpload}, job : Jobs \cup {NoJob},
     reclaimed : SUBSET Jobs, quota : Quotas, used : U]

Shape ==
    /\ \E O : 0 \in O /\ row \in [Jobs -> RowWith(O)]
    /\ \E U : 0 \in U /\ call \in [Calls -> CallWith(U)]
    /\ quota \in [Users -> Quotas]
    /\ holder \in [Users -> Calls \cup {NoCall}]
    /\ given \in [Uploads -> Jobs \cup {NoJob}]

\* A call at work has an upload.
UploadKnown == \A c \in Calls : call[c].pc # "idle" => call[c].upload \in Uploads

-----------------------------------------------------------------------------
(* Steps keep the shape.                                                   *)

LEMMA RowOps ==
    ASSUME NEW O, 0 \in O, NEW r \in RowWith(O)
    PROVE  /\ Ended(r) \in RowWith(O)
           /\ [r EXCEPT !.status = "accepted", !.past = FALSE] \in RowWith(O)
           /\ [r EXCEPT !.past = TRUE] \in RowWith(O)
           /\ [r EXCEPT !.recent = FALSE] \in RowWith(O)
           /\ \A n : [r EXCEPT !.status = "succeeded", !.output = n] \in RowWith(O \cup {n})
BY DEF RowWith, Ended

LEMMA CallOps ==
    ASSUME NEW U, 0 \in U
    PROVE  /\ Idle \in CallWith(U)
           /\ \A x \in Uploads : [Idle EXCEPT !.pc = "lock", !.upload = x] \in CallWith(U)
           /\ \A x \in Uploads, j \in Jobs : Answering(x, j) \in CallWith(U)
BY ReservationAssumption DEF CallWith, Idle, Answering

LEMMA CallPcs ==
    ASSUME NEW U, 0 \in U, NEW r \in CallWith(U),
           NEW pc \in {"find", "reclaim", "count", "hour", "create"}
    PROVE  [r EXCEPT !.pc = pc] \in CallWith(U)
BY DEF CallWith

\* Calls other than c stay as they are; c's call gets r.
LEMMA SetCall ==
    ASSUME NEW U, call \in [Calls -> CallWith(U)], NEW c \in Calls, NEW r,
           call' = [call EXCEPT ![c] = r]
    PROVE  call'[c] = r /\ \A b \in Calls \ {c} : call'[b] = call[b]
OBVIOUS

LEMMA SetCallTyped ==
    ASSUME NEW U, call \in [Calls -> CallWith(U)], NEW c \in Calls,
           NEW V, NEW r \in CallWith(V),
           call' = [call EXCEPT ![c] = r]
    PROVE  call' \in [Calls -> CallWith(U \cup V)]
<1>1. \A q : q \in CallWith(U) \/ q \in CallWith(V) => q \in CallWith(U \cup V)
  BY DEF CallWith
<1>2. \A b \in Calls : call'[b] \in CallWith(U \cup V)  BY <1>1
<1> QED  BY <1>2

-----------------------------------------------------------------------------
(* The kinds of steps.                                                     *)

\* Past its lookup and before its insert.
Measuring == {"reclaim", "user", "inflight", "succeeded", "count", "hour", "create"}

Others(c) == \A b \in Calls \ {c} : call'[b] = call[b]
SameUpload(c) == call'[c].upload = call[c].upload
SameKey(j) == row'[j].key = row[j].key /\ (Exists(j) => Exists(j)')

Receives(c) ==
    /\ call[c].pc = "idle" /\ call'[c].pc = "lock" /\ call'[c].upload \in Uploads
    /\ Others(c) /\ UNCHANGED <<row, holder, given>>

Locks(c) ==
    /\ call[c].pc = "lock" /\ call'[c].pc = "find" /\ SameUpload(c)
    /\ holder[UserOf(c)] = NoCall
    /\ holder' = [holder EXCEPT ![UserOf(c)] = c]
    /\ Others(c) /\ UNCHANGED <<row, given>>

Misses(c) ==
    /\ call[c].pc = "find" /\ call'[c].pc = "reclaim" /\ SameUpload(c)
    /\ ~KeyTaken(c)
    /\ Others(c) /\ UNCHANGED <<row, holder, given>>

Hits(c) ==
    /\ call[c].pc = "find" /\ call'[c].pc = "answer" /\ SameUpload(c)
    /\ call'[c].job \in Jobs /\ row[call'[c].job].key = KeyOf(c)
    /\ holder' = Unlocked(c)
    /\ Others(c) /\ UNCHANGED <<row, given>>

Works(c) ==
    /\ call[c].pc \in Measuring /\ call'[c].pc \in Measuring /\ SameUpload(c)
    /\ Others(c) /\ UNCHANGED <<row, holder, given>>

Leaves(c) ==
    /\ call'[c].pc = "idle"
    /\ holder' = Unlocked(c)
    /\ Others(c) /\ UNCHANGED <<row, given>>

Inserts(c) ==
    /\ call[c].pc = "create" /\ call'[c].pc = "answer" /\ SameUpload(c)
    /\ ~KeyTaken(c)
    /\ call'[c].job \in Jobs /\ ~Exists(call'[c].job)
    /\ row'[call'[c].job].key = KeyOf(c) /\ row'[call'[c].job].status # "absent"
    /\ \A j \in Jobs \ {call'[c].job} : SameKey(j)
    /\ holder' = Unlocked(c)
    /\ Others(c) /\ UNCHANGED given

Answers(c) ==
    /\ call[c].pc = "answer" /\ call'[c].pc = "idle"
    /\ given' = [given EXCEPT ![call[c].upload] = call[c].job]
    /\ Others(c) /\ UNCHANGED <<row, holder>>

RowMoves == (\A j \in Jobs : SameKey(j)) /\ UNCHANGED <<call, holder, given>>

Kinds ==
    \/ \E c \in Calls :
        \/ Receives(c) \/ Locks(c) \/ Misses(c) \/ Hits(c) \/ Works(c)
        \/ Leaves(c) \/ Inserts(c) \/ Answers(c)
    \/ RowMoves

\* Giving up, for whatever reason.
LEMMA AbandonStep ==
    ASSUME Shape, NEW c \in Calls, Abandon(c), UNCHANGED given, quota' \in [Users -> Quotas]
    PROVE  Shape' /\ Leaves(c)
<1>1. PICK U : 0 \in U /\ call \in [Calls -> CallWith(U)]  BY DEF Shape
<1>2. Idle \in CallWith(U)  BY <1>1, CallOps
<1>3. call' \in [Calls -> CallWith(U)]  BY <1>1, <1>2 DEF Abandon
<1>4. call'[c] = Idle /\ Others(c)  BY <1>1 DEF Abandon, Others
<1>5. Idle.pc = "idle"  BY DEF Idle
<1>6. holder' \in [Users -> Calls \cup {NoCall}]  BY DEF Shape, Abandon, Unlocked
<1>7. Shape'  BY <1>1, <1>3, <1>6 DEF Shape, Abandon
<1> QED  BY <1>4, <1>5, <1>7 DEF Leaves, Abandon

\* A statement that only moves the call on.
LEMMA WorkStep ==
    ASSUME Shape, NEW c \in Calls, NEW V, NEW r \in CallWith(V),
           call' = [call EXCEPT ![c] = r],
           call[c].pc \in Measuring, r.pc \in Measuring, r.upload = call[c].upload,
           UNCHANGED <<row, quota, holder, given>>
    PROVE  Shape' /\ Works(c)
<1>1. PICK U : 0 \in U /\ call \in [Calls -> CallWith(U)]  BY DEF Shape
<1>2. call'[c] = r /\ Others(c)  BY <1>1 DEF Others
<1>3. call' \in [Calls -> CallWith(U \cup V)]  BY <1>1, SetCallTyped
<1>4. Shape'  BY <1>1, <1>3 DEF Shape
<1> QED  BY <1>2, <1>4 DEF Works, SameUpload

LEMMA ReceiveStep ==
    ASSUME Shape, NEW c \in Calls, NEW x \in Uploads, Receive(c, x)
    PROVE  Shape' /\ Receives(c)
<1> DEFINE r == [Idle EXCEPT !.pc = "lock", !.upload = x]
<1>1. PICK U : 0 \in U /\ call \in [Calls -> CallWith(U)]  BY DEF Shape
<1>2. r \in CallWith(U) /\ r.pc = "lock" /\ r.upload = x
  <2>1. r \in CallWith(U)  BY <1>1, CallOps
  <2> QED  BY <2>1 DEF Idle
<1>3. call' = [call EXCEPT ![c] = r]  BY DEF Receive
<1> HIDE DEF r
<1>4. call'[c] = r /\ Others(c)  BY <1>1, <1>3 DEF Others
<1>5. call' \in [Calls -> CallWith(U)]  BY <1>1, <1>2, <1>3
<1>6. Shape'  BY <1>1, <1>5 DEF Shape, Receive
<1> QED  BY <1>2, <1>4, <1>6 DEF Receives, Receive

LEMMA LockStep ==
    ASSUME Shape, UploadKnown, NEW c \in Calls, Lock(c)
    PROVE  Shape' /\ Locks(c)
<1> DEFINE r == [call[c] EXCEPT !.pc = "find"]
<1>1. PICK U : 0 \in U /\ call \in [Calls -> CallWith(U)]  BY DEF Shape
<1>2. r \in CallWith(U) /\ r.pc = "find" /\ r.upload = call[c].upload
  <2>1. r \in CallWith(U)  BY <1>1, CallPcs
  <2> QED  BY <1>1, <2>1 DEF CallWith
<1>3. call' = [call EXCEPT ![c] = r]  BY DEF Lock, Advance
<1> HIDE DEF r
<1>4. call'[c] = r /\ Others(c)  BY <1>1, <1>3 DEF Others
<1>5. call' \in [Calls -> CallWith(U)]  BY <1>1, <1>2, <1>3
<1>6. holder' \in [Users -> Calls \cup {NoCall}]  BY DEF Shape, Lock
<1>7. Shape'  BY <1>1, <1>5, <1>6 DEF Shape, Lock
<1> QED  BY <1>2, <1>4, <1>7 DEF Locks, Lock, LockFree, SameUpload

LEMMA FindStep ==
    ASSUME Shape, UploadKnown, NEW c \in Calls, Find(c)
    PROVE  Shape' /\ (Misses(c) \/ Hits(c))
<1>1. PICK U : 0 \in U /\ call \in [Calls -> CallWith(U)]  BY DEF Shape
<1>2. CASE Advance(c, "reclaim") /\ UNCHANGED holder /\ {j \in Jobs : row[j].key = KeyOf(c)} = {}
  <2> DEFINE r == [call[c] EXCEPT !.pc = "reclaim"]
  <2>1. r \in CallWith(U) /\ r.pc = "reclaim" /\ r.upload = call[c].upload
    <3>1. r \in CallWith(U)  BY <1>1, CallPcs
    <3> QED  BY <1>1, <3>1 DEF CallWith
  <2>2. call' = [call EXCEPT ![c] = r]  BY <1>2 DEF Advance
  <2> HIDE DEF r
  <2>3. call'[c] = r /\ Others(c)  BY <1>1, <2>2 DEF Others
  <2>4. call' \in [Calls -> CallWith(U)]  BY <1>1, <2>1, <2>2
  <2>5. Shape'  BY <1>1, <1>2, <2>4 DEF Shape, Find
  <2>6. ~KeyTaken(c)  BY <1>2 DEF KeyTaken
  <2> QED  BY <1>2, <2>1, <2>3, <2>5, <2>6 DEF Misses, Find, SameUpload
<1>3. ASSUME NEW j \in Jobs, row[j].key = KeyOf(c),
             call' = [call EXCEPT ![c] = Answering(call[c].upload, j)],
             holder' = Unlocked(c)
      PROVE  Shape' /\ Hits(c)
  <2> DEFINE r == Answering(call[c].upload, j)
  <2>1. call[c].upload \in Uploads  BY DEF Find, UploadKnown
  <2>2. r \in CallWith(U) /\ r.pc = "answer" /\ r.upload = call[c].upload /\ r.job = j
    <3>1. r \in CallWith(U)  BY <1>1, <2>1, CallOps
    <3> QED  BY <3>1 DEF Answering, Idle
  <2>3. call' = [call EXCEPT ![c] = r]  BY <1>3
  <2> HIDE DEF r
  <2>4. call'[c] = r /\ Others(c)  BY <1>1, <2>3 DEF Others
  <2>5. call' \in [Calls -> CallWith(U)]  BY <1>1, <2>2, <2>3
  <2>6. holder' \in [Users -> Calls \cup {NoCall}]  BY <1>3 DEF Shape, Unlocked
  <2>7. Shape'  BY <1>1, <2>5, <2>6 DEF Shape, Find
  <2> QED  BY <1>3, <2>2, <2>4, <2>7 DEF Hits, Find, SameUpload
<1> QED  BY <1>2, <1>3 DEF Find

LEMMA ReclaimStep ==
    ASSUME Shape, NEW c \in Calls, Reclaim(c)
    PROVE  Shape' /\ Works(c)
<1> DEFINE S == {j \in RowsOf(UserOf(c)) : row[j].status = "uploading" /\ row[j].past}
           r == [call[c] EXCEPT !.pc = "user", !.reclaimed = S]
<1>1. PICK U : 0 \in U /\ call \in [Calls -> CallWith(U)]  BY DEF Shape
<1>2. S \in SUBSET Jobs  BY DEF RowsOf
<1>3. call' = [call EXCEPT ![c] = r]  BY DEF Reclaim
<1> HIDE DEF S
<1>4. r \in CallWith(U) /\ r.pc = "user" /\ r.upload = call[c].upload
  BY <1>1, <1>2 DEF CallWith
<1> HIDE DEF r
<1>5. call[c].pc \in Measuring /\ r.pc \in Measuring  BY <1>4 DEF Reclaim, Measuring
<1>6. UNCHANGED <<row, quota, holder, given>>  BY DEF Reclaim
<1> QED  BY <1>3, <1>4, <1>5, <1>6, WorkStep

LEMMA ReadUserStep ==
    ASSUME Shape, UploadKnown, NEW c \in Calls, ReadUser(c)
    PROVE  Shape' /\ Works(c)
<1> DEFINE q == quota[UserOf(c)]
           r == [call[c] EXCEPT !.pc = "inflight", !.quota = q]
<1>1. PICK U : 0 \in U /\ call \in [Calls -> CallWith(U)]  BY DEF Shape
<1>2. q \in Quotas  BY ReservationAssumption DEF Shape, UserOf, ReadUser, UploadKnown
<1>3. call' = [call EXCEPT ![c] = r]  BY DEF ReadUser
<1> HIDE DEF q
<1>4. r \in CallWith(U) /\ r.pc = "inflight" /\ r.upload = call[c].upload
  BY <1>1, <1>2 DEF CallWith
<1> HIDE DEF r
<1>5. call[c].pc \in Measuring /\ r.pc \in Measuring  BY <1>4 DEF ReadUser, Measuring
<1>6. UNCHANGED <<row, quota, holder, given>>  BY DEF ReadUser
<1> QED  BY <1>3, <1>4, <1>5, <1>6, WorkStep

LEMMA SumInFlightStep ==
    ASSUME Shape, NEW c \in Calls, SumInFlight(c)
    PROVE  Shape' /\ Works(c)
<1> DEFINE n == ReservedBytes(CountedInFlight(c))
           r == [call[c] EXCEPT !.pc = "succeeded", !.used = n]
<1>1. PICK U : 0 \in U /\ call \in [Calls -> CallWith(U)]  BY DEF Shape
<1>2. call' = [call EXCEPT ![c] = r]  BY DEF SumInFlight
<1> HIDE DEF n
<1>3. r \in CallWith({n}) /\ r.pc = "succeeded" /\ r.upload = call[c].upload
  BY <1>1 DEF CallWith
<1> HIDE DEF r
<1>4. call[c].pc \in Measuring /\ r.pc \in Measuring  BY <1>3 DEF SumInFlight, Measuring
<1>5. UNCHANGED <<row, quota, holder, given>>  BY DEF SumInFlight
<1> QED  BY <1>2, <1>3, <1>4, <1>5, WorkStep

LEMMA SumSucceededStep ==
    ASSUME Shape, NEW c \in Calls, SumSucceeded(c)
    PROVE  Shape' /\ (Works(c) \/ Leaves(c))
<1>1. CASE OverStorage(c)
  <2>1. Abandon(c) /\ UNCHANGED given /\ quota' \in [Users -> Quotas]
    BY <1>1 DEF SumSucceeded, Shape
  <2> QED  BY <2>1, AbandonStep
<1>2. CASE ~OverStorage(c)
  <2> DEFINE r == [call[c] EXCEPT !.pc = "count", !.used = 0]
  <2>1. PICK U : 0 \in U /\ call \in [Calls -> CallWith(U)]  BY DEF Shape
  <2>2. call' = [call EXCEPT ![c] = r] /\ UNCHANGED <<row, quota, holder, given>>
    BY <1>2 DEF SumSucceeded
  <2>3. r \in CallWith(U) /\ r.pc = "count" /\ r.upload = call[c].upload
    BY <2>1 DEF CallWith
  <2> HIDE DEF r
  <2>4. call[c].pc \in Measuring /\ r.pc \in Measuring  BY <2>3 DEF SumSucceeded, Measuring
  <2> QED  BY <2>2, <2>3, <2>4, WorkStep
<1> QED  BY <1>1, <1>2

\* The two counts: on to the next pc, or refused.
LEMMA CountStep ==
    ASSUME Shape, NEW c \in Calls, call[c].pc \in Measuring, NEW pc \in {"hour", "create"},
           Advance(c, pc) /\ UNCHANGED <<row, holder>>, UNCHANGED <<quota, given>>
    PROVE  Shape' /\ Works(c)
<1> DEFINE r == [call[c] EXCEPT !.pc = pc]
<1>1. PICK U : 0 \in U /\ call \in [Calls -> CallWith(U)]  BY DEF Shape
<1>2. r \in CallWith(U) /\ r.pc = pc /\ r.upload = call[c].upload
  BY <1>1 DEF CallWith
<1>3. call' = [call EXCEPT ![c] = r]  BY DEF Advance
<1> HIDE DEF r
<1>4. r.pc \in Measuring  BY <1>2 DEF Measuring
<1> QED  BY <1>2, <1>3, <1>4, WorkStep

LEMMA CountInFlightStep ==
    ASSUME Shape, NEW c \in Calls, CountInFlight(c)
    PROVE  Shape' /\ (Works(c) \/ Leaves(c))
<1>1. CASE Abandon(c)
  BY <1>1, AbandonStep DEF CountInFlight, Shape
<1>2. CASE Advance(c, "hour") /\ UNCHANGED <<row, holder>>
  <2>1. call[c].pc \in Measuring /\ UNCHANGED <<quota, given>>  BY DEF CountInFlight, Measuring
  <2> QED  BY <1>2, <2>1, CountStep
<1> QED  BY <1>1, <1>2 DEF CountInFlight

LEMMA CountRecentStep ==
    ASSUME Shape, NEW c \in Calls, CountRecent(c)
    PROVE  Shape' /\ (Works(c) \/ Leaves(c))
<1>1. CASE Abandon(c)
  BY <1>1, AbandonStep DEF CountRecent, Shape
<1>2. CASE Advance(c, "create") /\ UNCHANGED <<row, holder>>
  <2>1. call[c].pc \in Measuring /\ UNCHANGED <<quota, given>>  BY DEF CountRecent, Measuring
  <2> QED  BY <1>2, <2>1, CountStep
<1> QED  BY <1>1, <1>2 DEF CountRecent

LEMMA NewRowOps ==
    ASSUME NEW O, 0 \in O, NEW c, call[c].upload \in Uploads
    PROVE  /\ NewRow(c) \in RowWith(O)
           /\ NewRow(c).key = KeyOf(c) /\ NewRow(c).status # "absent"
<1>1. KeyOf(c) \in {KeyFor(x) : x \in Uploads}  BY DEF KeyOf, KeyFor, UserOf
<1> QED  BY <1>1 DEF NewRow, RowWith

LEMMA CreateStep ==
    ASSUME Shape, UploadKnown, NEW c \in Calls, Create(c)
    PROVE  Shape' /\ (Inserts(c) \/ Leaves(c))
<1>1. CASE Abandon(c)
  BY <1>1, AbandonStep DEF Create, Shape
<1>2. ASSUME NEW j \in Jobs, ~KeyTaken(c), ~Exists(j),
             row' = [i \in Jobs |->
                IF i = j THEN NewRow(c)
                ELSE IF i \in call[c].reclaimed THEN Ended(row[i])
                ELSE row[i]],
             call' = [call EXCEPT ![c] = Answering(call[c].upload, j)],
             holder' = Unlocked(c)
      PROVE  Shape' /\ Inserts(c)
  <2> DEFINE r == Answering(call[c].upload, j)
  <2>1. PICK U : 0 \in U /\ call \in [Calls -> CallWith(U)]  BY DEF Shape
  <2>2. PICK O : 0 \in O /\ row \in [Jobs -> RowWith(O)]  BY DEF Shape
  <2>3. call[c].upload \in Uploads  BY DEF Create, UploadKnown
  <2>4. r \in CallWith(U) /\ r.pc = "answer" /\ r.upload = call[c].upload /\ r.job = j
    <3>1. r \in CallWith(U)  BY <2>1, <2>3, CallOps
    <3> QED  BY <3>1 DEF Answering, Idle
  <2>5. call' = [call EXCEPT ![c] = r]  BY <1>2
  <2> HIDE DEF r
  <2>6. call'[c] = r /\ Others(c)  BY <2>1, <2>5 DEF Others
  <2>7. call' \in [Calls -> CallWith(U)]  BY <2>1, <2>4, <2>5
  <2>8. holder' \in [Users -> Calls \cup {NoCall}]  BY <1>2 DEF Shape, Unlocked
  <2>9. \A i \in Jobs : Ended(row[i]) \in RowWith(O)  BY <2>2, RowOps
  <2>10. NewRow(c) \in RowWith(O) /\ NewRow(c).key = KeyOf(c) /\ NewRow(c).status # "absent"
    BY <2>2, <2>3, NewRowOps
  <2>11. row' \in [Jobs -> RowWith(O)]  BY <1>2, <2>2, <2>9, <2>10
  <2>12. row'[j].key = KeyOf(c) /\ row'[j].status # "absent"  BY <1>2, <2>10
  <2>13. ASSUME NEW i \in Jobs \ {j} PROVE SameKey(i)
    <3>1. Ended(row[i]).key = row[i].key /\ Ended(row[i]).status = "ended"
      BY <2>2 DEF Ended, RowWith
    <3>2. row'[i] = Ended(row[i]) \/ row'[i] = row[i]  BY <1>2
    <3> QED  BY <3>1, <3>2 DEF SameKey, Exists
  <2>14. Shape'
    <3>1. quota' \in [Users -> Quotas] /\ given' \in [Uploads -> Jobs \cup {NoJob}]
      BY DEF Create, Shape
    <3> QED  BY <2>1, <2>2, <2>7, <2>8, <2>11, <3>1 DEF Shape
  <2> QED  BY <1>2, <2>4, <2>6, <2>12, <2>13, <2>14 DEF Inserts, Create, SameUpload
<1> QED  BY <1>1, <1>2 DEF Create

\* Also needs to know that the job of an answer is one (AnswerKnown).
LEMMA AnswerStep ==
    ASSUME Shape, UploadKnown, NEW c \in Calls, Answer(c), call[c].job \in Jobs
    PROVE  Shape' /\ Answers(c)
<1>1. PICK U : 0 \in U /\ call \in [Calls -> CallWith(U)]  BY DEF Shape
<1>2. Idle \in CallWith(U)  BY <1>1, CallOps
<1>3. call' \in [Calls -> CallWith(U)]  BY <1>1, <1>2 DEF Answer
<1>4. call'[c] = Idle /\ Others(c)  BY <1>1 DEF Answer, Others
<1>5. Idle.pc = "idle"  BY DEF Idle
<1>6. given' \in [Uploads -> Jobs \cup {NoJob}]  BY DEF Shape, Answer, UploadKnown
<1>7. Shape'  BY <1>1, <1>3, <1>6 DEF Shape, Answer
<1> QED  BY <1>4, <1>5, <1>7 DEF Answers, Answer

\* A change of one row that leaves its key alone.
LEMMA RowStep ==
    ASSUME Shape, NEW j \in Jobs, NEW O, 0 \in O, NEW r \in RowWith(O),
           row' = [row EXCEPT ![j] = r],
           r.key = row[j].key, Exists(j) => r.status # "absent",
           UNCHANGED <<quota, holder, call, given>>
    PROVE  Shape' /\ RowMoves
<1>1. PICK P : 0 \in P /\ row \in [Jobs -> RowWith(P)]  BY DEF Shape
<1>2. \A q : q \in RowWith(O) \/ q \in RowWith(P) => q \in RowWith(O \cup P)
  BY DEF RowWith
<1>3. row' \in [Jobs -> RowWith(O \cup P)]  BY <1>1, <1>2
<1>4. \A i \in Jobs : row'[i] = IF i = j THEN r ELSE row[i]  BY <1>1
<1>5. \A i \in Jobs : SameKey(i)  BY <1>4 DEF SameKey, Exists
<1>6. Shape'  BY <1>1, <1>3 DEF Shape
<1> QED  BY <1>5, <1>6 DEF RowMoves

LEMMA RowActions ==
    ASSUME Shape, NEW j \in Jobs,
           Accept(j) \/ Succeed(j) \/ End(j) \/ DeadlinePasses(j) \/ HourPasses(j)
    PROVE  Shape' /\ RowMoves
<1>1. PICK O : 0 \in O /\ row \in [Jobs -> RowWith(O)]  BY DEF Shape
<1>2. row[j] \in RowWith(O)  BY <1>1
<1>3. CASE Accept(j)
  <2> DEFINE r == [row[j] EXCEPT !.status = "accepted", !.past = FALSE]
  <2>1. r \in RowWith(O)  BY <1>1, <1>2, RowOps
  <2>2. r.key = row[j].key /\ r.status # "absent"  BY <1>2 DEF RowWith
  <2>3. row' = [row EXCEPT ![j] = r] /\ UNCHANGED <<quota, holder, call, given>>
    BY <1>3 DEF Accept
  <2> HIDE DEF r
  <2> QED  BY <1>1, <2>1, <2>2, <2>3, RowStep
<1>4. CASE Succeed(j)
  <2>1. PICK n \in {1, Reserved(j) + MaxGrowth} :
           row' = [row EXCEPT ![j].status = "succeeded", ![j].output = n]
    BY <1>4 DEF Succeed
  <2> DEFINE r == [row[j] EXCEPT !.status = "succeeded", !.output = n]
  <2>2. r \in RowWith(O \cup {n})  BY <1>1, <1>2, RowOps
  <2>3. r.key = row[j].key /\ r.status # "absent"  BY <1>2 DEF RowWith
  <2>4. row' = [row EXCEPT ![j] = r]  BY <2>1
  <2>5. UNCHANGED <<quota, holder, call, given>>  BY <1>4 DEF Succeed
  <2> HIDE DEF r
  <2> QED  BY <1>1, <2>2, <2>3, <2>4, <2>5, RowStep
<1>5. CASE End(j)
  <2> DEFINE r == Ended(row[j])
  <2>1. r \in RowWith(O)  BY <1>1, <1>2, RowOps
  <2>2. r.key = row[j].key /\ r.status # "absent"  BY <1>2 DEF RowWith, Ended
  <2>3. row' = [row EXCEPT ![j] = r] /\ UNCHANGED <<quota, holder, call, given>>
    BY <1>5 DEF End
  <2> HIDE DEF r
  <2> QED  BY <1>1, <2>1, <2>2, <2>3, RowStep
<1>6. CASE DeadlinePasses(j)
  <2> DEFINE r == [row[j] EXCEPT !.past = TRUE]
  <2>1. r \in RowWith(O)  BY <1>1, <1>2, RowOps
  <2>2. r.key = row[j].key /\ r.status # "absent"  BY <1>2, <1>6 DEF RowWith, DeadlinePasses
  <2>3. row' = [row EXCEPT ![j] = r] /\ UNCHANGED <<quota, holder, call, given>>
    BY <1>6 DEF DeadlinePasses
  <2> HIDE DEF r
  <2> QED  BY <1>1, <2>1, <2>2, <2>3, RowStep
<1>7. CASE HourPasses(j)
  <2> DEFINE r == [row[j] EXCEPT !.recent = FALSE]
  <2>1. r \in RowWith(O)  BY <1>1, <1>2, RowOps
  <2>2. r.key = row[j].key /\ (Exists(j) => r.status # "absent")
    BY <1>2 DEF RowWith, Exists
  <2>3. row' = [row EXCEPT ![j] = r] /\ UNCHANGED <<quota, holder, call, given>>
    BY <1>7 DEF HourPasses
  <2> HIDE DEF r
  <2> QED  BY <1>1, <2>1, <2>2, <2>3, RowStep
<1> QED  BY <1>3, <1>4, <1>5, <1>6, <1>7

-----------------------------------------------------------------------------
(* The invariant.                                                          *)

\* The id a call is about to answer is that of the row with its key.
AnswerKnown ==
    \A c \in Calls : call[c].pc = "answer" =>
        call[c].job \in Jobs /\ row[call[c].job].key = KeyOf(c)

\* So is the id tusd was told.
GivenKnown == \A x \in Uploads : given[x] # NoJob => row[given[x]].key = KeyFor(x)

MissedStill == \A c \in Calls : call[c].pc \in Measuring => ~KeyTaken(c)

OneRowPerKey ==
    \A i, j \in Jobs : row[i].key = row[j].key /\ row[i].key # <<>> => i = j

AbsentHasNoKey == \A j \in Jobs : ~Exists(j) => row[j].key = <<>>

ReservationInv ==
    /\ Shape /\ UploadKnown /\ LockHeldInside
    /\ MissedStill /\ OneRowPerKey /\ AbsentHasNoKey
    /\ AnswerKnown /\ GivenKnown

LEMMA KeyIsOne == \A x : KeyFor(x) # <<>>
BY DEF KeyFor

LEMMA KeyOfIs == \A c : KeyOf(c) = KeyFor(call[c].upload)
BY DEF KeyOf, KeyFor, UserOf

LEMMA KeyHasUser ==
    ASSUME NEW x, NEW y, KeyFor(x) = KeyFor(y)
    PROVE  Owner[x] = Owner[y]
BY DEF KeyFor

LEMMA ReservationInit == Init => ReservationInv
<1> SUFFICES ASSUME Init PROVE ReservationInv  OBVIOUS
<1>1. Shape
  <2>1. NoRow \in RowWith({0})  BY DEF NoRow, RowWith
  <2>2. Idle \in CallWith({0})  BY CallOps
  <2>3. row \in [Jobs -> RowWith({0})]  BY <2>1 DEF Init
  <2>4. call \in [Calls -> CallWith({0})]  BY <2>2 DEF Init
  <2> QED  BY <2>3, <2>4, ReservationAssumption DEF Shape, Init
<1>2. \A c \in Calls : call[c].pc = "idle"  BY DEF Init, Idle
<1>3. \A j \in Jobs : row[j].key = <<>> /\ ~Exists(j)  BY DEF Init, NoRow, Exists
<1>4. LockHeldInside
  BY <1>2, ReservationAssumption DEF LockHeldInside, InTransaction, Init
<1>5. GivenKnown  BY DEF GivenKnown, Init
<1> QED
  BY <1>1, <1>2, <1>3, <1>4, <1>5
  DEF ReservationInv, UploadKnown, MissedStill, Measuring, OneRowPerKey, AbsentHasNoKey, AnswerKnown

\* Every step is of one of the kinds.
LEMMA StepKinds ==
    ASSUME ReservationInv, [Next]_vars
    PROVE  Shape' /\ Kinds
<1> USE DEF ReservationInv
<1>1. CASE UNCHANGED vars
  BY <1>1 DEF vars, Shape, Kinds, RowMoves, SameKey, Exists
<1>2. ASSUME NEW c \in Calls, NEW x \in Uploads, Receive(c, x) PROVE Shape' /\ Kinds
  BY <1>2, ReceiveStep DEF Kinds
<1>3. ASSUME NEW c \in Calls, Step(c) PROVE Shape' /\ Kinds
  <2>1. CASE Lock(c)  BY <2>1, LockStep DEF Kinds
  <2>2. CASE Find(c)  BY <2>2, FindStep DEF Kinds
  <2>3. CASE Reclaim(c)  BY <2>3, ReclaimStep DEF Kinds
  <2>4. CASE ReadUser(c)  BY <2>4, ReadUserStep DEF Kinds
  <2>5. CASE SumInFlight(c)  BY <2>5, SumInFlightStep DEF Kinds
  <2>6. CASE SumSucceeded(c)  BY <2>6, SumSucceededStep DEF Kinds
  <2>7. CASE CountInFlight(c)  BY <2>7, CountInFlightStep DEF Kinds
  <2>8. CASE CountRecent(c)  BY <2>8, CountRecentStep DEF Kinds
  <2>9. CASE Create(c)  BY <2>9, CreateStep DEF Kinds
  <2>10. CASE Answer(c)
    <3>1. call[c].job \in Jobs  BY <2>10 DEF Answer, AnswerKnown
    <3> QED  BY <2>10, <3>1, AnswerStep DEF Kinds
  <2> QED  BY <1>3, <2>1, <2>2, <2>3, <2>4, <2>5, <2>6, <2>7, <2>8, <2>9, <2>10 DEF Step
<1>4. ASSUME NEW c \in Calls, CallFails(c) PROVE Shape' /\ Kinds
  <2>1. Abandon(c) /\ UNCHANGED given /\ quota' \in [Users -> Quotas]
    BY <1>4 DEF CallFails, Shape
  <2> QED  BY <2>1, AbandonStep DEF Kinds
<1>5. ASSUME NEW j \in Jobs,
             Accept(j) \/ Succeed(j) \/ End(j) \/ DeadlinePasses(j) \/ HourPasses(j)
      PROVE  Shape' /\ Kinds
  BY <1>5, RowActions DEF Kinds
<1>6. ASSUME NEW u \in Users, ChangeQuota(u) PROVE Shape' /\ Kinds
  <2>1. quota' \in [Users -> Quotas]  BY <1>6 DEF ChangeQuota, Shape
  <2>2. UNCHANGED <<row, holder, call, given>>  BY <1>6 DEF ChangeQuota
  <2> QED  BY <2>1, <2>2 DEF Shape, Kinds, RowMoves, SameKey, Exists
<1> QED  BY <1>1, <1>2, <1>3, <1>4, <1>5, <1>6 DEF Next

\* A key that is set stays, and so does its owner's claim to it.
LEMMA KeysStay ==
    ASSUME ReservationInv, [Next]_vars, NEW j \in Jobs, row[j].key # <<>>
    PROVE  row'[j].key = row[j].key
<1>1. Kinds  BY StepKinds
<1>2. Exists(j)  BY DEF ReservationInv, AbsentHasNoKey
<1>3. ASSUME NEW c \in Calls, Inserts(c) PROVE SameKey(j)
  BY <1>2, <1>3 DEF Inserts
<1>4. row' = row \/ SameKey(j)
  BY <1>1, <1>3 DEF Kinds, RowMoves, Receives, Locks, Misses, Hits, Works, Leaves, Answers
<1> QED  BY <1>4 DEF SameKey

LEMMA UploadStep ==
    ASSUME ReservationInv, [Next]_vars
    PROVE  UploadKnown'
<1>1. Kinds  BY StepKinds
<1>2. CASE RowMoves  BY <1>2 DEF RowMoves, ReservationInv, UploadKnown
<1>3. ASSUME NEW c \in Calls, Others(c),
             call'[c].pc = "idle" \/ call'[c].upload \in Uploads
      PROVE  UploadKnown'
  BY <1>3 DEF ReservationInv, UploadKnown, Others
<1>4. ASSUME NEW c \in Calls,
             Locks(c) \/ Misses(c) \/ Hits(c) \/ Works(c) \/ Inserts(c)
      PROVE  Others(c) /\ call'[c].upload \in Uploads
  BY <1>4 DEF Locks, Misses, Hits, Works, Inserts, SameUpload, Measuring, ReservationInv, UploadKnown
<1>5. ASSUME NEW c \in Calls, Receives(c) \/ Leaves(c) \/ Answers(c)
      PROVE  Others(c) /\ (call'[c].pc = "idle" \/ call'[c].upload \in Uploads)
  BY <1>5 DEF Receives, Leaves, Answers
<1> QED  BY <1>1, <1>2, <1>3, <1>4, <1>5 DEF Kinds

LEMMA LockHeldStep ==
    ASSUME ReservationInv, [Next]_vars
    PROVE  LockHeldInside'
<1>1. Kinds  BY StepKinds
<1>2. LockHeldInside /\ UploadKnown /\ holder \in [Users -> Calls \cup {NoCall}]
  BY DEF ReservationInv, Shape
<1>3. CASE RowMoves
  BY <1>2, <1>3 DEF RowMoves, LockHeldInside, InTransaction, UserOf
\* c stays outside or inside, the lock with it
<1>4. ASSUME NEW c \in Calls, Others(c), UNCHANGED holder,
             \/ ~InTransaction(c) /\ call'[c].pc \in {"idle", "lock", "answer"}
             \/ InTransaction(c) /\ call'[c].pc \notin {"idle", "lock", "answer"} /\ SameUpload(c)
      PROVE  LockHeldInside'
  BY <1>2, <1>4 DEF LockHeldInside, InTransaction, UserOf, Others, SameUpload
\* c is outside after the step and gives the lock up
<1>5. ASSUME NEW c \in Calls, Others(c), holder' = Unlocked(c),
             call'[c].pc \in {"idle", "lock", "answer"}
      PROVE  LockHeldInside'
  <2> SUFFICES ASSUME NEW b \in Calls, NEW u \in Users
               PROVE  holder'[u] = b <=> (InTransaction(b)' /\ UserOf(b)' = u)
    BY DEF LockHeldInside
  <2>1. holder'[u] = IF holder[u] = c THEN NoCall ELSE holder[u]  BY <1>5 DEF Unlocked
  <2>2. CASE b = c
    BY <1>5, <2>1, <2>2, ReservationAssumption DEF InTransaction
  <2>3. CASE b # c
    <3>1. call'[b] = call[b]  BY <1>5, <2>3 DEF Others
    <3>2. holder'[u] = b <=> holder[u] = b  BY <2>1, <2>3, ReservationAssumption
    <3> QED  BY <1>2, <3>1, <3>2 DEF LockHeldInside, InTransaction, UserOf
  <2> QED  BY <2>2, <2>3
<1>6. ASSUME NEW c \in Calls, Locks(c) PROVE LockHeldInside'
  <2>1. UserOf(c) \in Users  BY <1>2, <1>6, ReservationAssumption DEF Locks, UploadKnown, UserOf
  <2>2. UserOf(c)' = UserOf(c)  BY <1>6 DEF Locks, SameUpload, UserOf
  <2> SUFFICES ASSUME NEW b \in Calls, NEW u \in Users
               PROVE  holder'[u] = b <=> (InTransaction(b)' /\ UserOf(b)' = u)
    BY DEF LockHeldInside
  <2>3. holder'[u] = IF u = UserOf(c) THEN c ELSE holder[u]  BY <1>2, <1>6, <2>1 DEF Locks
  <2>4. holder[UserOf(c)] \notin Calls  BY <1>6, ReservationAssumption DEF Locks
  <2>5. CASE b = c
    <3>1. InTransaction(c)' /\ ~InTransaction(c)  BY <1>6 DEF Locks, InTransaction
    <3>2. holder[u] # c  BY <1>2, <3>1 DEF LockHeldInside
    <3> QED  BY <2>2, <2>3, <2>5, <3>1, <3>2
  <2>6. CASE b # c
    <3>1. call'[b] = call[b]  BY <1>6, <2>6 DEF Locks, Others
    <3>2. holder'[u] = b <=> holder[u] = b  BY <2>3, <2>4, <2>6
    <3> QED  BY <1>2, <3>1, <3>2 DEF LockHeldInside, InTransaction, UserOf
  <2> QED  BY <2>5, <2>6
<1>7. ASSUME NEW c \in Calls, Receives(c) \/ Answers(c) PROVE LockHeldInside'
  BY <1>4, <1>7 DEF Receives, Answers, InTransaction
<1>8. ASSUME NEW c \in Calls, Misses(c) \/ Works(c) PROVE LockHeldInside'
  BY <1>4, <1>8 DEF Misses, Works, InTransaction, Measuring
<1>9. ASSUME NEW c \in Calls, Hits(c) \/ Leaves(c) \/ Inserts(c) PROVE LockHeldInside'
  BY <1>5, <1>9 DEF Hits, Leaves, Inserts
<1> QED  BY <1>1, <1>3, <1>6, <1>7, <1>8, <1>9 DEF Kinds

\* Two calls inside have different users, so different keys.
LEMMA InsideDiffer ==
    ASSUME LockHeldInside, UploadKnown, NEW b \in Calls, NEW c \in Calls, b # c,
           InTransaction(b), InTransaction(c)
    PROVE  KeyOf(b) # KeyOf(c)
<1>1. UserOf(b) \in Users /\ UserOf(c) \in Users
  BY ReservationAssumption DEF InTransaction, UploadKnown, UserOf
<1>2. UserOf(b) # UserOf(c)  BY <1>1 DEF LockHeldInside
<1> QED  BY <1>2, KeyHasUser, KeyOfIs DEF UserOf

LEMMA MissedStep ==
    ASSUME ReservationInv, [Next]_vars
    PROVE  MissedStill'
<1>1. Kinds  BY StepKinds
<1>2. MissedStill /\ LockHeldInside /\ UploadKnown  BY DEF ReservationInv
<1> SUFFICES ASSUME NEW b \in Calls, call'[b].pc \in Measuring
             PROVE  ~(KeyTaken(b)')
  BY DEF MissedStill
\* without a new key, the call must have missed before or now
<1>3. ASSUME \A j \in Jobs : row'[j].key = row[j].key,
             ~KeyTaken(b), call'[b].upload = call[b].upload
      PROVE  ~(KeyTaken(b)')
  BY <1>3 DEF KeyTaken, KeyOf, UserOf
<1>4. CASE RowMoves
  <2>1. ~KeyTaken(b)  BY <1>2, <1>4 DEF RowMoves, MissedStill
  <2> QED  BY <1>3, <1>4, <2>1 DEF RowMoves, SameKey
<1>5. ASSUME NEW c \in Calls, Others(c), UNCHANGED row,
             b = c => ~KeyTaken(c) /\ SameUpload(c)
      PROVE  ~(KeyTaken(b)')
  <2>1. CASE b = c  BY <1>3, <1>5, <2>1 DEF SameUpload
  <2>2. CASE b # c
    <3>1. call'[b] = call[b]  BY <1>5, <2>2 DEF Others
    <3>2. ~KeyTaken(b)  BY <1>2, <3>1 DEF MissedStill
    <3> QED  BY <1>3, <1>5, <3>1, <3>2
  <2> QED  BY <2>1, <2>2
<1>6. ASSUME NEW c \in Calls, Receives(c) \/ Locks(c) \/ Hits(c) \/ Leaves(c) \/ Answers(c)
      PROVE  ~(KeyTaken(b)')
  <2>1. b # c  BY <1>6 DEF Receives, Locks, Hits, Leaves, Answers, Measuring
  <2> QED  BY <1>5, <1>6, <2>1 DEF Receives, Locks, Hits, Leaves, Answers
<1>7. ASSUME NEW c \in Calls, Misses(c) PROVE ~(KeyTaken(b)')
  BY <1>5, <1>7 DEF Misses
<1>8. ASSUME NEW c \in Calls, Works(c) PROVE ~(KeyTaken(b)')
  BY <1>2, <1>5, <1>8 DEF Works, MissedStill
<1>9. ASSUME NEW c \in Calls, Inserts(c) PROVE ~(KeyTaken(b)')
  <2>1. b # c  BY <1>9 DEF Inserts, Measuring
  <2>2. call'[b] = call[b]  BY <1>9, <2>1 DEF Inserts, Others
  <2>3. ~KeyTaken(b)  BY <1>2, <2>2 DEF MissedStill
  <2>4. InTransaction(b) /\ InTransaction(c)  BY <1>9, <2>2 DEF Inserts, InTransaction, Measuring
  <2>5. KeyOf(b) # KeyOf(c)  BY <1>2, <2>1, <2>4, InsideDiffer
  <2>6. \A j \in Jobs : row'[j].key = row[j].key \/ row'[j].key = KeyOf(c)
    BY <1>9 DEF Inserts, SameKey
  <2>7. KeyOf(b)' = KeyOf(b)  BY <2>2 DEF KeyOf, UserOf
  <2> QED  BY <2>3, <2>5, <2>6, <2>7 DEF KeyTaken
<1> QED  BY <1>1, <1>4, <1>6, <1>7, <1>8, <1>9 DEF Kinds

LEMMA RowKeysStep ==
    ASSUME ReservationInv, [Next]_vars
    PROVE  OneRowPerKey' /\ AbsentHasNoKey'
<1>1. Kinds  BY StepKinds
<1>2. OneRowPerKey /\ AbsentHasNoKey  BY DEF ReservationInv
<1>3. ASSUME \A j \in Jobs : SameKey(j) PROVE OneRowPerKey' /\ AbsentHasNoKey'
  BY <1>2, <1>3 DEF OneRowPerKey, AbsentHasNoKey, SameKey
<1>4. ASSUME UNCHANGED row PROVE OneRowPerKey' /\ AbsentHasNoKey'
  BY <1>3, <1>4 DEF SameKey, Exists
<1>5. ASSUME NEW c \in Calls, Inserts(c) PROVE OneRowPerKey' /\ AbsentHasNoKey'
  <2> DEFINE k == call'[c].job
  <2>1. k \in Jobs /\ row'[k].key = KeyOf(c) /\ row'[k].status # "absent"
    BY <1>5 DEF Inserts
  <2>2. \A j \in Jobs \ {k} : row'[j].key = row[j].key /\ row[j].key # KeyOf(c)
    BY <1>5 DEF Inserts, SameKey, KeyTaken
  <2>3. \A j \in Jobs \ {k} : Exists(j) => row'[j].status # "absent"
    BY <1>5 DEF Inserts, SameKey, Exists
  <2> HIDE DEF k
  <2>4. OneRowPerKey'  BY <1>2, <2>1, <2>2 DEF OneRowPerKey
  <2>5. AbsentHasNoKey'  BY <1>2, <2>1, <2>2, <2>3 DEF AbsentHasNoKey, Exists
  <2> QED  BY <2>4, <2>5
<1>6. ASSUME NEW c \in Calls,
             Receives(c) \/ Locks(c) \/ Misses(c) \/ Hits(c) \/ Works(c) \/ Leaves(c) \/ Answers(c)
      PROVE  UNCHANGED row
  BY <1>6 DEF Receives, Locks, Misses, Hits, Works, Leaves, Answers
<1>7. CASE RowMoves  BY <1>3, <1>7 DEF RowMoves
<1> QED  BY <1>1, <1>4, <1>5, <1>6, <1>7 DEF Kinds

LEMMA AnswerKnownStep ==
    ASSUME ReservationInv, [Next]_vars
    PROVE  AnswerKnown'
<1>1. Kinds  BY StepKinds
<1> SUFFICES ASSUME NEW b \in Calls, call'[b].pc = "answer"
             PROVE  call'[b].job \in Jobs /\ row'[call'[b].job].key = KeyOf(b)'
  BY DEF AnswerKnown
\* a call that was about to answer is so still
<1>2. ASSUME call'[b] = call[b]
      PROVE  call'[b].job \in Jobs /\ row'[call'[b].job].key = KeyOf(b)'
  <2>1. call[b].job \in Jobs /\ row[call[b].job].key = KeyOf(b)
    BY <1>2 DEF ReservationInv, AnswerKnown
  <2>2. row[call[b].job].key # <<>>  BY <2>1, KeyIsOne, KeyOfIs
  <2>3. row'[call[b].job].key = row[call[b].job].key  BY <2>1, <2>2, KeysStay
  <2>4. KeyOf(b)' = KeyOf(b)  BY <1>2 DEF KeyOf, UserOf
  <2> QED  BY <1>2, <2>1, <2>3, <2>4
<1>3. CASE RowMoves  BY <1>2, <1>3 DEF RowMoves
<1>4. ASSUME NEW c \in Calls,
             Receives(c) \/ Locks(c) \/ Misses(c) \/ Works(c) \/ Leaves(c) \/ Answers(c)
      PROVE  call'[b] = call[b]
  BY <1>4 DEF Receives, Locks, Misses, Works, Leaves, Answers, Others, Measuring
<1>5. ASSUME NEW c \in Calls, Hits(c) \/ Inserts(c)
      PROVE  call'[b].job \in Jobs /\ row'[call'[b].job].key = KeyOf(b)'
  <2>1. CASE b = c
    <3>1. KeyOf(c)' = KeyOf(c)  BY <1>5 DEF Hits, Inserts, SameUpload, KeyOf, UserOf
    <3> QED  BY <1>5, <2>1, <3>1 DEF Hits, Inserts
  <2>2. CASE b # c  BY <1>2, <1>5, <2>2 DEF Hits, Inserts, Others
  <2> QED  BY <2>1, <2>2
<1> QED  BY <1>1, <1>2, <1>3, <1>4, <1>5 DEF Kinds

\* tusd is told the id of the row with the upload's key, and told it again.
LEMMA GivenStep ==
    ASSUME ReservationInv, [Next]_vars
    PROVE  /\ GivenKnown'
           /\ \A x \in Uploads : given[x] # NoJob => given'[x] = given[x]
<1>1. Kinds  BY StepKinds
<1>2. given \in [Uploads -> Jobs \cup {NoJob}] /\ GivenKnown /\ OneRowPerKey /\ AnswerKnown
  BY DEF ReservationInv, Shape
<1> SUFFICES ASSUME NEW x \in Uploads
             PROVE  /\ given'[x] # NoJob => row'[given'[x]].key = KeyFor(x)
                    /\ given[x] # NoJob => given'[x] = given[x]
  BY DEF GivenKnown
<1>3. ASSUME given[x] # NoJob
      PROVE  given[x] \in Jobs /\ row'[given[x]].key = KeyFor(x)
  BY <1>2, <1>3, KeyIsOne, KeysStay DEF GivenKnown
<1>4. CASE UNCHANGED given  BY <1>3, <1>4
<1>5. ASSUME NEW c \in Calls, Answers(c)
      PROVE  /\ given'[x] # NoJob => row'[given'[x]].key = KeyFor(x)
             /\ given[x] # NoJob => given'[x] = given[x]
  <2>1. CASE x # call[c].upload
    <3>1. given'[x] = given[x]  BY <1>2, <1>5, <2>1 DEF Answers
    <3> QED  BY <1>3, <3>1
  <2>2. CASE x = call[c].upload
    <3>1. given'[x] = call[c].job  BY <1>2, <1>5, <2>2 DEF Answers
    <3>2. call[c].job \in Jobs /\ row[call[c].job].key = KeyFor(x)
      BY <1>2, <1>5, <2>2, KeyOfIs DEF Answers, AnswerKnown
    <3>3. row' = row  BY <1>5 DEF Answers
    <3>4. given[x] # NoJob => given[x] = call[c].job
      BY <1>3, <3>2, <3>3, <1>2, KeyIsOne DEF OneRowPerKey
    <3> QED  BY <3>1, <3>2, <3>3, <3>4
  <2> QED  BY <2>1, <2>2
<1>6. ASSUME NEW c \in Calls,
             Receives(c) \/ Locks(c) \/ Misses(c) \/ Hits(c) \/ Works(c) \/ Leaves(c) \/ Inserts(c)
      PROVE  UNCHANGED given
  BY <1>6 DEF Receives, Locks, Misses, Hits, Works, Leaves, Inserts
<1>7. CASE RowMoves  BY <1>4, <1>7 DEF RowMoves
<1> QED  BY <1>1, <1>4, <1>5, <1>6, <1>7 DEF Kinds

-----------------------------------------------------------------------------
(* The theorems.                                                           *)

LEMMA ReservationStep == ReservationInv /\ [Next]_vars => ReservationInv'
<1> SUFFICES ASSUME ReservationInv, [Next]_vars PROVE ReservationInv'  OBVIOUS
<1>1. Shape'  BY StepKinds
<1> QED
  BY <1>1, UploadStep, LockHeldStep, MissedStep, RowKeysStep, AnswerKnownStep, GivenStep
  DEF ReservationInv

\* The invariant holds in every reachable state (reserve.ts, the transaction).
THEOREM ReservationSafe == Spec => []ReservationInv
BY ReservationInit, ReservationStep, PTL DEF Spec

\* The user's lock is held by a transaction of that user or by nobody, for
\* any number of concurrent calls, however they end (reserve.ts:52-56).
THEOREM LockIsHeldInside == Spec => []LockHeldInside
<1>1. ReservationInv => LockHeldInside  BY DEF ReservationInv
<1> QED  BY <1>1, ReservationSafe, PTL

\* No call runs into the unique index: who creates a row is the only one to
\* have missed it (reserve.ts:59-64).
THEOREM CallsDoNotCollide == Spec => []CallsNeverCollide
<1>1. ReservationInv => CallsNeverCollide
  BY DEF ReservationInv, MissedStill, Measuring, CallsNeverCollide
<1> QED  BY <1>1, ReservationSafe, PTL

\* An upload that was given a job is given the same one by every later call
\* (reserve.ts:47-48, pre-create-hook.ts:168-176).
THEOREM RetriesAgree == Spec => RetryGetsSameJob
<1>1. ReservationInv /\ [Next]_vars =>
        [\A x \in Uploads : given[x] # NoJob => given'[x] = given[x]]_given
  BY GivenStep
<1> QED  BY <1>1, ReservationSafe, PTL DEF Spec, RetryGetsSameJob

-----------------------------------------------------------------------------
(* Sums over finite sets.                                                  *)

Pick(s) == CHOOSE x \in s : TRUE

\* g is the function the fold of f over S defines.
Folds(g, f, S) ==
    g = [s \in SUBSET S |-> IF s = {} THEN 0 ELSE f[Pick(s)] + g[s \ {Pick(s)}]]

Total(f, S) == (CHOOSE g : Folds(g, f, S))[S]

\* Induction over the subsets of a finite set, with the set of those that
\* have the property in place of a predicate.
LEMMA SubsetInduction ==
    ASSUME NEW S, IsFiniteSet(S), NEW Q,
           \A T \in SUBSET S : (\A U \in SUBSET T : U # T => U \in Q) => T \in Q
    PROVE  \A T \in SUBSET S : T \in Q
<1> SUFFICES ASSUME (SUBSET S) \ Q # {} PROVE FALSE  OBVIOUS
<1> DEFINE Less == StrictSubsetOrdering(S)
           Subsets == SUBSET S
           Rest == Subsets \ Q
<1>1. IsWellFoundedOn(Less, Subsets)
  <2>1. IsWellFoundedOn(Less, FiniteSubsetsOf(S))  BY FS_StrictSubsetOrderingWellFounded
  <2>2. FiniteSubsetsOf(S) = Subsets  BY FS_FiniteSubsetsOfFinite
  <2> QED  BY <2>1, <2>2, Zenon
<1>2. PICK T \in Rest : \A U \in Rest : ~(<<U, T>> \in Less)
  <2>1. Rest \subseteq Subsets /\ Rest # {}  OBVIOUS
  <2> HIDE DEF Less, Subsets, Rest
  <2> QED  BY <1>1, <2>1, WFMin
<1>3. ASSUME NEW U \in SUBSET T, U # T PROVE U \in Q
  BY <1>2, <1>3 DEF StrictSubsetOrdering
<1> QED  BY <1>2, <1>3

\* A fold over a finite set has a value: for each bound on the number of
\* elements there is a function that is right for the sets up to it.
LEMMA FoldExists ==
    ASSUME NEW S, IsFiniteSet(S), NEW f
    PROVE  \E g : Folds(g, f, S)
<1> DEFINE Right(g, s) == g[s] = IF s = {} THEN 0 ELSE f[Pick(s)] + g[s \ {Pick(s)}]
           UpTo(g, n) == \A s \in SUBSET S : Cardinality(s) <= n => Right(g, s)
           Fine == {T \in SUBSET S : \E R : \E g \in [SUBSET S -> R] : UpTo(g, Cardinality(T))}
<1>1. \A s \in SUBSET S : IsFiniteSet(s) /\ Cardinality(s) \in Nat /\ Cardinality(s) <= Cardinality(S)
  BY FS_Subset, FS_CardinalityType
<1>2. \A s \in SUBSET S : s # {} =>
        Pick(s) \in s /\ s \ {Pick(s)} \in SUBSET S /\ Cardinality(s \ {Pick(s)}) = Cardinality(s) - 1
  BY <1>1, FS_RemoveElement DEF Pick
<1>3. {} \in Fine
  <2>1. [s \in SUBSET S |-> 0] \in [SUBSET S -> {0}]  OBVIOUS
  <2>2. UpTo([s \in SUBSET S |-> 0], Cardinality({}))
    BY <1>1, FS_EmptySet
  <2> QED  BY <2>1, <2>2
<1>4. ASSUME NEW T \in SUBSET S, T # {}, T \ {Pick(T)} \in Fine PROVE T \in Fine
  <2> DEFINE n == Cardinality(T \ {Pick(T)})
  <2>1. PICK R : \E g \in [SUBSET S -> R] : UpTo(g, n)  BY <1>4
  <2>2. PICK g \in [SUBSET S -> R] : UpTo(g, n)  BY <2>1
  <2> DEFINE h == [s \in SUBSET S |->
                     IF s = {} THEN 0 ELSE f[Pick(s)] + g[s \ {Pick(s)}]]
  <2>3. \A s \in SUBSET S : Cardinality(s) <= n => h[s] = g[s]
    BY <2>2
  <2>4. n \in Nat /\ Cardinality(T) = n + 1  BY <1>1, <1>2, <1>4
  <2> HIDE DEF n
  <2>5. ASSUME NEW s \in SUBSET S, Cardinality(s) <= n + 1 PROVE Right(h, s)
    <3>1. CASE s = {}  BY <3>1
    <3>2. CASE s # {}
      <4>1. Cardinality(s \ {Pick(s)}) <= n /\ s \ {Pick(s)} \in SUBSET S
        BY <1>1, <1>2, <2>4, <2>5, <3>2
      <4> QED  BY <2>3, <3>2, <4>1
    <3> QED  BY <3>1, <3>2
  <2>6. h \in [SUBSET S -> {h[s] : s \in SUBSET S}]  OBVIOUS
  <2> HIDE DEF h
  <2>7. UpTo(h, Cardinality(T))  BY <2>4, <2>5
  <2> QED  BY <2>6, <2>7
<1>5. \A T \in SUBSET S : T \in Fine
  <2> HIDE DEF Fine
  <2>1. ASSUME NEW T \in SUBSET S, \A U \in SUBSET T : U # T => U \in Fine PROVE T \in Fine
    <3>1. CASE T = {}  BY <1>3, <3>1
    <3>2. CASE T # {}
      <4>1. T \ {Pick(T)} \in SUBSET T /\ T \ {Pick(T)} # T  BY <1>2, <3>2
      <4> QED  BY <1>4, <2>1, <3>2, <4>1
    <3> QED  BY <3>1, <3>2
  <2> QED  BY <2>1, SubsetInduction
<1>6. PICK R : \E g \in [SUBSET S -> R] : UpTo(g, Cardinality(S))
  BY <1>5
<1>7. PICK g \in [SUBSET S -> R] : UpTo(g, Cardinality(S))  BY <1>6
<1>8. \A s \in SUBSET S : Right(g, s)  BY <1>1, <1>7
<1>9. g = [s \in SUBSET S |-> IF s = {} THEN 0 ELSE f[Pick(s)] + g[s \ {Pick(s)}]]
  BY <1>8
<1> QED  BY <1>9 DEF Folds
LEMMA TotalFolds ==
    ASSUME NEW S, IsFiniteSet(S), NEW f
    PROVE  Folds(CHOOSE g : Folds(g, f, S), f, S)
BY FoldExists

\* Folds over nested sets agree where both are defined.
LEMMA FoldsAgree ==
    ASSUME NEW S, IsFiniteSet(S), NEW T \in SUBSET S, NEW f, NEW e,
           \A x \in T : f[x] = e[x],
           NEW g, Folds(g, f, S), NEW h, Folds(h, e, T)
    PROVE  \A s \in SUBSET T : g[s] = h[s]
<1> DEFINE Q == {s \in SUBSET T : g[s] = h[s]}
<1>1. IsFiniteSet(T)  BY FS_Subset
<1>2. ASSUME NEW U \in SUBSET T, \A V \in SUBSET U : V # U => V \in Q
      PROVE  U \in Q
  <2>1. CASE U = {}  BY <2>1 DEF Folds
  <2>2. CASE U # {}
    <3>1. Pick(U) \in U  BY <2>2 DEF Pick
    <3>2. g[U \ {Pick(U)}] = h[U \ {Pick(U)}]  BY <1>2, <3>1
    <3>3. g[U] = f[Pick(U)] + g[U \ {Pick(U)}]  BY <2>2 DEF Folds
    <3>4. h[U] = e[Pick(U)] + h[U \ {Pick(U)}]  BY <2>2 DEF Folds
    <3> QED  BY <3>1, <3>2, <3>3, <3>4
  <2> QED  BY <2>1, <2>2
<1>3. \A s \in SUBSET T : s \in Q
  <2> HIDE DEF Q
  <2> QED  BY <1>1, <1>2, SubsetInduction
<1> QED  BY <1>3

\* The value of a total depends only on f's values on the set.
LEMMA TotalSame ==
    ASSUME NEW S, IsFiniteSet(S), NEW f, NEW e, \A x \in S : f[x] = e[x]
    PROVE  Total(f, S) = Total(e, S)
BY TotalFolds, FoldsAgree DEF Total

\* What the fold does first: one element, and the rest.
LEMMA TotalPicked ==
    ASSUME NEW S, IsFiniteSet(S), NEW f
    PROVE  Total(f, S) = IF S = {} THEN 0 ELSE f[Pick(S)] + Total(f, S \ {Pick(S)})
<1> DEFINE g == CHOOSE g : Folds(g, f, S)
           T == S \ {Pick(S)}
           h == CHOOSE h : Folds(h, f, T)
<1>1. T \in SUBSET S /\ IsFiniteSet(T)  BY FS_Subset
<1>2. Folds(g, f, S) /\ Folds(h, f, T)  BY <1>1, TotalFolds
<1>3. Total(f, S) = g[S] /\ Total(f, T) = h[T]  BY DEF Total
<1> HIDE DEF g, h
<1>4. g[T] = h[T]  BY <1>1, <1>2, FoldsAgree
<1>5. g[S] = IF S = {} THEN 0 ELSE f[Pick(S)] + g[T]  BY <1>2 DEF Folds
<1> QED  BY <1>3, <1>4, <1>5

LEMMA TotalNat ==
    ASSUME NEW S, IsFiniteSet(S), NEW f, \A x \in S : f[x] \in Nat
    PROVE  \A T \in SUBSET S : Total(f, T) \in Nat
<1> DEFINE Q == {T \in SUBSET S : Total(f, T) \in Nat}
<1>1. ASSUME NEW T \in SUBSET S, \A U \in SUBSET T : U # T => U \in Q
      PROVE  T \in Q
  <2>1. IsFiniteSet(T)  BY FS_Subset
  <2>2. Total(f, T) = IF T = {} THEN 0 ELSE f[Pick(T)] + Total(f, T \ {Pick(T)})
    BY <2>1, TotalPicked
  <2>3. T # {} => Pick(T) \in T  BY DEF Pick
  <2> QED  BY <1>1, <2>2, <2>3
<1>2. \A T \in SUBSET S : T \in Q
  <2> HIDE DEF Q
  <2> QED  BY <1>1, SubsetInduction
<1> QED  BY <1>2

\* Any element may be taken first.
LEMMA TotalWithout ==
    ASSUME NEW S, IsFiniteSet(S), NEW f, \A x \in S : f[x] \in Nat
    PROVE  \A T \in SUBSET S : \A x \in T : Total(f, T) = f[x] + Total(f, T \ {x})
<1> DEFINE Q == {T \in SUBSET S : \A x \in T : Total(f, T) = f[x] + Total(f, T \ {x})}
<1>1. ASSUME NEW T \in SUBSET S, \A U \in SUBSET T : U # T => U \in Q
      PROVE  T \in Q
  <2> SUFFICES ASSUME NEW x \in T PROVE Total(f, T) = f[x] + Total(f, T \ {x})  OBVIOUS
  <2> DEFINE p == Pick(T)
  <2>1. p \in T /\ IsFiniteSet(T)  BY FS_Subset DEF Pick
  <2>2. Total(f, T) = f[p] + Total(f, T \ {p})  BY <2>1, TotalPicked
  <2> HIDE DEF p
  <2>3. CASE x = p  BY <2>2, <2>3
  <2>4. CASE x # p
    <3>1. T \ {p} \in Q /\ x \in T \ {p}  BY <1>1, <2>1, <2>4
    <3>2. T \ {x} \in Q /\ p \in T \ {x}  BY <1>1, <2>1, <2>4
    <3>3. Total(f, T \ {p}) = f[x] + Total(f, (T \ {p}) \ {x})  BY <3>1
    <3>4. Total(f, T \ {x}) = f[p] + Total(f, (T \ {x}) \ {p})  BY <3>2
    <3>5. (T \ {p}) \ {x} = (T \ {x}) \ {p}  OBVIOUS
    <3>6. Total(f, (T \ {x}) \ {p}) \in Nat  BY TotalNat
    <3> QED  BY <2>1, <2>2, <3>3, <3>4, <3>5, <3>6
  <2> QED  BY <2>3, <2>4
<1>2. \A T \in SUBSET S : T \in Q
  <2> HIDE DEF Q
  <2> QED  BY <1>1, SubsetInduction
<1> QED  BY <1>2

\* A part of a set does not total to more.
LEMMA TotalPart ==
    ASSUME NEW S, IsFiniteSet(S), NEW f, \A x \in S : f[x] \in Nat
    PROVE  \A T \in SUBSET S : \A U \in SUBSET T : Total(f, U) <= Total(f, T)
<1> DEFINE Q == {T \in SUBSET S : \A U \in SUBSET T : Total(f, U) <= Total(f, T)}
<1>1. ASSUME NEW T \in SUBSET S, \A U \in SUBSET T : U # T => U \in Q
      PROVE  T \in Q
  <2> SUFFICES ASSUME NEW U \in SUBSET T PROVE Total(f, U) <= Total(f, T)  OBVIOUS
  <2>1. CASE U = T  BY <2>1, TotalNat
  <2>2. CASE U # T
    <3>1. PICK x \in T : x \notin U  BY <2>2
    <3>2. T \ {x} \in Q /\ U \in SUBSET (T \ {x})  BY <1>1, <3>1
    <3>3. Total(f, T) = f[x] + Total(f, T \ {x})  BY <3>1, TotalWithout
    <3>4. Total(f, U) \in Nat /\ Total(f, T \ {x}) \in Nat /\ f[x] \in Nat  BY <3>1, TotalNat
    <3>5. Total(f, U) <= Total(f, T \ {x})  BY <3>2
    <3> QED  BY <3>3, <3>4, <3>5
  <2> QED  BY <2>1, <2>2
<1>2. \A T \in SUBSET S : T \in Q
  <2> HIDE DEF Q
  <2> QED  BY <1>1, SubsetInduction
<1> QED  BY <1>2

-----------------------------------------------------------------------------
(* The sums of a transaction, as totals over a value of the table.         *)

ReservedOf(r) ==
    [j \in Jobs |-> IF r[j].status = "absent" THEN 0 ELSE Size[Content[r[j].upload]]]
OutputOf(r) == [j \in Jobs |-> r[j].output]
GrowthOf(r) ==
    [j \in Jobs |-> IF r[j].output > ReservedOf(r)[j] THEN r[j].output - ReservedOf(r)[j] ELSE 0]

There(r, u) == {j \in Jobs : r[j].status # "absent" /\ Owner[r[j].upload] = u}
Flying(r, u, X) == {j \in There(r, u) : r[j].status \in {"uploading", "accepted"}} \ X
Done(r, u) == {j \in There(r, u) : r[j].status = "succeeded" /\ ~r[j].past}
Fresh(r, u) == {j \in There(r, u) : r[j].recent}

Bytes(r, u, X) == Total(ReservedOf(r), Flying(r, u, X))
Outputs(r, u) == Total(OutputOf(r), Done(r, u))
Excess(r, u) == Total(GrowthOf(r), Done(r, u))

RowsFit(r) ==
    \A j \in Jobs : r[j].output \in Nat /\ (r[j].status # "absent" => r[j].upload \in Uploads)

\* A result takes no more than was reserved for it and its growth.
LEMMA RowData ==
    ASSUME NEW r, RowsFit(r)
    PROVE  \A j \in Jobs :
              /\ ReservedOf(r)[j] \in Nat /\ OutputOf(r)[j] \in Nat /\ GrowthOf(r)[j] \in Nat
              /\ GrowthOf(r)[j] <= OutputOf(r)[j]
              /\ OutputOf(r)[j] <= ReservedOf(r)[j] + GrowthOf(r)[j]
<1> SUFFICES ASSUME NEW j \in Jobs
             PROVE  /\ ReservedOf(r)[j] \in Nat /\ OutputOf(r)[j] \in Nat /\ GrowthOf(r)[j] \in Nat
                    /\ GrowthOf(r)[j] <= OutputOf(r)[j]
                    /\ OutputOf(r)[j] <= ReservedOf(r)[j] + GrowthOf(r)[j]
  OBVIOUS
<1>1. ReservedOf(r)[j] \in Nat  BY ReservationAssumption DEF ReservedOf, RowsFit
<1>2. OutputOf(r)[j] = r[j].output /\ r[j].output \in Nat  BY DEF OutputOf, RowsFit
<1>3. GrowthOf(r)[j] = IF r[j].output > ReservedOf(r)[j] THEN r[j].output - ReservedOf(r)[j] ELSE 0
  BY DEF GrowthOf
<1> QED  BY <1>1, <1>2, <1>3

LEMMA SetsFinite ==
    \A r, u, X : /\ Flying(r, u, X) \in SUBSET Jobs /\ IsFiniteSet(Flying(r, u, X))
                 /\ Done(r, u) \in SUBSET Jobs /\ IsFiniteSet(Done(r, u))
                 /\ Fresh(r, u) \in SUBSET Jobs /\ IsFiniteSet(Fresh(r, u))
<1>1. \A r, u, X : Flying(r, u, X) \in SUBSET Jobs /\ Done(r, u) \in SUBSET Jobs /\ Fresh(r, u) \in SUBSET Jobs
  BY DEF Flying, Done, Fresh, There
<1> QED  BY <1>1, FS_Subset, ReservationAssumption

LEMMA SumsNat ==
    ASSUME NEW r, RowsFit(r), NEW u, NEW X
    PROVE  Bytes(r, u, X) \in Nat /\ Outputs(r, u) \in Nat /\ Excess(r, u) \in Nat
<1>1. IsFiniteSet(Jobs)  BY ReservationAssumption
<1>2. \A j \in Jobs : ReservedOf(r)[j] \in Nat /\ OutputOf(r)[j] \in Nat /\ GrowthOf(r)[j] \in Nat
  BY RowData
<1>3. Bytes(r, u, X) \in Nat  BY <1>1, <1>2, SetsFinite, TotalNat DEF Bytes
<1>4. Outputs(r, u) \in Nat  BY <1>1, <1>2, SetsFinite, TotalNat DEF Outputs
<1>5. Excess(r, u) \in Nat  BY <1>1, <1>2, SetsFinite, TotalNat DEF Excess
<1> QED  BY <1>3, <1>4, <1>5

\* What rows may do to the sums of a transaction that is measuring u.
Falls(r, q, u, X) ==
    /\ Bytes(q, u, X) <= Bytes(r, u, X)
    /\ Bytes(q, u, X) + Outputs(q, u) + Excess(r, u) <= Bytes(r, u, X) + Outputs(r, u) + Excess(q, u)
    /\ Cardinality(Flying(q, u, X)) <= Cardinality(Flying(r, u, X))
    /\ Cardinality(Fresh(q, u)) <= Cardinality(Fresh(r, u))

\* One row changes, and is there if it was.
Changes(r, q, j) ==
    /\ \A i \in Jobs \ {j} : q[i] = r[i]
    /\ r[j].status = "absent" <=> q[j].status = "absent"
    /\ q[j].upload = r[j].upload

\* It may leave what is in flight or the results, or trade its reservation
\* for its result.
LEMMA OneRowFalls ==
    ASSUME NEW r, NEW q, RowsFit(r), RowsFit(q), NEW j \in Jobs, Changes(r, q, j), NEW u, NEW X,
           Fresh(q, u) \subseteq Fresh(r, u),
           \/ /\ Flying(q, u, X) \in {Flying(r, u, X), Flying(r, u, X) \ {j}}
              /\ \/ Done(q, u) = Done(r, u) /\ (j \in Done(r, u) => q[j].output = r[j].output)
                 \/ Done(q, u) = Done(r, u) \ {j}
           \/ /\ j \in Flying(r, u, X) /\ Flying(q, u, X) = Flying(r, u, X) \ {j}
              /\ j \notin Done(r, u) /\ Done(q, u) = Done(r, u) \cup {j}
    PROVE  Falls(r, q, u, X)
<1> DEFINE F == Flying(r, u, X)
           G == Flying(q, u, X)
           D == Done(r, u)
           E == Done(q, u)
           a == ReservedOf(r)
           o == OutputOf(r)
           p == OutputOf(q)
           g == GrowthOf(r)
           h == GrowthOf(q)
<1>0. IsFiniteSet(Jobs)  BY ReservationAssumption
<1>1. F \in SUBSET Jobs /\ G \in SUBSET Jobs /\ D \in SUBSET Jobs /\ E \in SUBSET Jobs
      /\ IsFiniteSet(F) /\ IsFiniteSet(G) /\ IsFiniteSet(D) /\ IsFiniteSet(E)
      /\ IsFiniteSet(Fresh(r, u))
  BY SetsFinite
<1>2. ReservedOf(q) = a  BY DEF Changes, ReservedOf
<1>3. \A i \in Jobs : a[i] \in Nat /\ o[i] \in Nat /\ g[i] \in Nat /\ p[i] \in Nat /\ h[i] \in Nat
  BY RowData
<1>4. \A i \in Jobs \ {j} : p[i] = o[i]  BY DEF OutputOf, Changes
<1>5. \A i \in Jobs : p[i] = o[i] => h[i] = g[i]
  <2>1. \A i \in Jobs : g[i] = IF o[i] > a[i] THEN o[i] - a[i] ELSE 0  BY DEF GrowthOf, OutputOf
  <2>2. \A i \in Jobs : h[i] = IF p[i] > a[i] THEN p[i] - a[i] ELSE 0  BY <1>2 DEF GrowthOf, OutputOf
  <2> QED  BY <2>1, <2>2
<1>6. p[j] <= a[j] + h[j] /\ g[j] <= o[j]  BY <1>2, RowData
<1>7. Bytes(r, u, X) = Total(a, F) /\ Bytes(q, u, X) = Total(a, G)  BY <1>2 DEF Bytes
<1>8. Outputs(r, u) = Total(o, D) /\ Outputs(q, u) = Total(p, E)  BY DEF Outputs
<1>9. Excess(r, u) = Total(g, D) /\ Excess(q, u) = Total(h, E)  BY DEF Excess
<1>10. j \in Done(r, u) /\ q[j].output = r[j].output => p[j] = o[j]  BY DEF OutputOf
<1>11. G \in SUBSET F /\ Cardinality(Fresh(q, u)) <= Cardinality(Fresh(r, u)) /\ Cardinality(G) <= Cardinality(F)
  <2>1. G \in SUBSET F  OBVIOUS
  <2> QED  BY <1>1, <2>1, FS_Subset
<1>12. \/ /\ G \in SUBSET F
          /\ \/ E = D /\ (j \in D => p[j] = o[j])
             \/ E = D \ {j}
       \/ j \in F /\ G = F \ {j} /\ j \notin D /\ E = D \cup {j}
  BY <1>10, <1>11
<1> HIDE DEF F, G, D, E, a, o, p, g, h
<1>13. /\ Total(a, F) \in Nat /\ Total(a, G) \in Nat
       /\ Total(o, D) \in Nat /\ Total(p, D) \in Nat /\ Total(p, E) \in Nat
       /\ Total(g, D) \in Nat /\ Total(h, D) \in Nat /\ Total(h, E) \in Nat
  <2>1. Total(a, F) \in Nat /\ Total(a, G) \in Nat  BY <1>0, <1>1, <1>3, TotalNat
  <2>2. Total(o, D) \in Nat  BY <1>0, <1>1, <1>3, TotalNat
  <2>3. Total(p, D) \in Nat /\ Total(p, E) \in Nat  BY <1>0, <1>1, <1>3, TotalNat
  <2>4. Total(g, D) \in Nat  BY <1>0, <1>1, <1>3, TotalNat
  <2>5. Total(h, D) \in Nat /\ Total(h, E) \in Nat  BY <1>0, <1>1, <1>3, TotalNat
  <2> QED  BY <2>1, <2>2, <2>3, <2>4, <2>5
<1>14. Total(a, G) <= Total(a, F)
  BY <1>0, <1>1, <1>3, <1>11, TotalPart
<1>15. Total(a, G) + Total(p, E) + Total(g, D) <= Total(a, F) + Total(o, D) + Total(h, E)
  <2>1. CASE E = D /\ (j \in D => p[j] = o[j])
    <3>1. \A i \in D : o[i] = p[i]  BY <1>1, <1>4, <2>1
    <3>2. \A i \in D : g[i] = h[i]  BY <1>1, <1>5, <3>1
    <3>3. Total(o, D) = Total(p, D)  BY <1>1, <3>1, TotalSame
    <3>4. Total(g, D) = Total(h, D)  BY <1>1, <3>2, TotalSame
    <3> QED  BY <1>13, <1>14, <2>1, <3>3, <3>4
  <2>2. CASE E = D \ {j} /\ j \in D
    <3>1. \A i \in E : o[i] = p[i]  BY <1>1, <1>4, <2>2
    <3>2. \A i \in E : g[i] = h[i]  BY <1>1, <1>5, <3>1
    <3>3. Total(o, E) = Total(p, E)  BY <1>1, <3>1, TotalSame
    <3>4. Total(g, E) = Total(h, E)  BY <1>1, <3>2, TotalSame
    <3>5. Total(o, D) = o[j] + Total(o, E)  BY <1>0, <1>1, <1>3, <2>2, TotalWithout
    <3>6. Total(g, D) = g[j] + Total(g, E)  BY <1>0, <1>1, <1>3, <2>2, TotalWithout
    <3> QED  BY <1>3, <1>6, <1>13, <1>14, <3>3, <3>4, <3>5, <3>6
  <2>3. CASE j \in F /\ G = F \ {j} /\ j \notin D /\ E = D \cup {j}
    <3>1. \A i \in D : o[i] = p[i]  BY <1>1, <1>4, <2>3
    <3>2. \A i \in D : g[i] = h[i]  BY <1>1, <1>5, <3>1
    <3>3. Total(o, D) = Total(p, D)  BY <1>1, <3>1, TotalSame
    <3>4. Total(g, D) = Total(h, D)  BY <1>1, <3>2, TotalSame
    <3>5. D = E \ {j} /\ j \in E  BY <2>3
    <3>6. Total(p, E) = p[j] + Total(p, D)  BY <1>0, <1>1, <1>3, <3>5, TotalWithout
    <3>7. Total(h, E) = h[j] + Total(h, D)  BY <1>0, <1>1, <1>3, <3>5, TotalWithout
    <3>8. Total(a, F) = a[j] + Total(a, G)  BY <1>0, <1>1, <1>3, <2>3, TotalWithout
    <3> QED  BY <1>3, <1>6, <1>13, <3>3, <3>4, <3>6, <3>7, <3>8
  <2>4. CASE E = D \ {j} /\ j \notin D
    <3>1. E = D  BY <2>4
    <3> QED  BY <2>1, <2>4, <3>1
  <2> QED  BY <1>12, <2>1, <2>2, <2>3, <2>4
<1> QED  BY <1>7, <1>8, <1>9, <1>11, <1>14, <1>15 DEF Falls, F, G

-----------------------------------------------------------------------------
(* The invariant behind the quotas.                                        *)

\* What a call inside has reclaimed is overdue, its user's, and nobody's to change.
ReclaimedSound ==
    \A c \in Calls :
        /\ call[c].reclaimed \subseteq Jobs
        /\ call[c].reclaimed # {} => InTransaction(c)
        /\ \A j \in call[c].reclaimed : row[j].status = "uploading" /\ Of(j) = UserOf(c)

NumbersFit ==
    /\ \A c \in Calls : call[c].used \in Nat
    /\ disturbed \in 0 .. Disturbances

\* What a transaction has measured bounds what is there now: meanwhile jobs
\* only end, or trade their reservation for a result.
MeasuredBy(r, k) ==
    LET u == Owner[k.upload]  X == k.reclaimed IN
    /\ k.pc = "succeeded" => Bytes(r, u, X) <= k.used
    /\ k.pc \in {"count", "hour", "create"} =>
          Bytes(r, u, X) + Outputs(r, u) + Size[Content[k.upload]] <= k.quota.storage + Excess(r, u)
    /\ k.pc \in {"hour", "create"} => Cardinality(Flying(r, u, X)) < k.quota.parallel
    /\ k.pc = "create" => Cardinality(Fresh(r, u)) < k.quota.hourly

Measured == \A c \in Calls : MeasuredBy(row, call[c])

QuotaInv == ReservationInv /\ RowsFit(row) /\ ReclaimedSound /\ NumbersFit /\ Measured

\* A step of a row that no transaction has reclaimed leaves what they hold.
LEMMA ReclaimedStay ==
    ASSUME ReclaimedSound, UNCHANGED call,
           \A c \in Calls : \A i \in call[c].reclaimed :
               row'[i].status = row[i].status /\ row'[i].upload = row[i].upload
    PROVE  ReclaimedSound'
<1>1. ASSUME NEW c \in Calls, NEW i \in call[c].reclaimed
      PROVE  row'[i].status = "uploading" /\ Of(i)' = UserOf(c)'
  BY <1>1 DEF ReclaimedSound, Of, UserOf
<1> QED  BY <1>1 DEF ReclaimedSound, InTransaction

LEMMA AcceptFalls ==
    ASSUME Shape, RowsFit(row), ReclaimedSound, NEW j \in Jobs, Accept(j)
    PROVE  /\ RowsFit(row') /\ ReclaimedSound'
           /\ \A c \in Calls, u \in Users : Falls(row, row', u, call[c].reclaimed)
<1>1. PICK O : row \in [Jobs -> RowWith(O)]  BY DEF Shape
<1>2. /\ row[j].status = "uploading" /\ row'[j].status = "accepted"
      /\ row'[j].upload = row[j].upload /\ row'[j].output = row[j].output
      /\ row'[j].recent = row[j].recent
      /\ \A i \in Jobs \ {j} : row'[i] = row[i]
  BY <1>1 DEF Accept, RowWith
<1>3. RowsFit(row') /\ Changes(row, row', j)  BY <1>2 DEF RowsFit, Changes
<1>4. \A c \in Calls : j \notin call[c].reclaimed  BY DEF Accept, Writable
<1>5. ReclaimedSound'
  BY <1>2, <1>4, ReclaimedStay DEF ReclaimedSound, Accept
<1>6. ASSUME NEW c \in Calls, NEW u \in Users PROVE Falls(row, row', u, call[c].reclaimed)
  <2>1. There(row', u) = There(row, u)  BY <1>2 DEF There
  <2>2. Flying(row', u, call[c].reclaimed) = Flying(row, u, call[c].reclaimed)
    BY <1>2, <2>1 DEF Flying, There
  <2>3. Done(row', u) = Done(row, u)  BY <1>2, <2>1 DEF Done, There
  <2>4. Fresh(row', u) = Fresh(row, u)  BY <1>2, <2>1 DEF Fresh, There
  <2> QED  BY <1>2, <1>3, <2>2, <2>3, <2>4, OneRowFalls
<1> QED  BY <1>3, <1>5, <1>6

LEMMA SucceedFalls ==
    ASSUME Shape, RowsFit(row), ReclaimedSound, NEW j \in Jobs, Succeed(j)
    PROVE  /\ RowsFit(row') /\ ReclaimedSound'
           /\ \A c \in Calls, u \in Users : Falls(row, row', u, call[c].reclaimed)
<1>1. PICK O : row \in [Jobs -> RowWith(O)]  BY DEF Shape
<1>2. PICK bytes \in {1, Reserved(j) + MaxGrowth} :
        row' = [row EXCEPT ![j].status = "succeeded", ![j].output = bytes]
  BY DEF Succeed
<1>3. /\ row[j].status = "accepted" /\ row'[j].status = "succeeded"
      /\ row'[j].upload = row[j].upload /\ row'[j].output = bytes
      /\ row'[j].recent = row[j].recent /\ row'[j].past = row[j].past
      /\ \A i \in Jobs \ {j} : row'[i] = row[i]
  BY <1>1, <1>2 DEF Succeed, RowWith
<1>4. bytes \in Nat
  <2>1. Reserved(j) \in Nat  BY <1>3, ReservationAssumption DEF RowsFit, Reserved
  <2> QED  BY <2>1, ReservationAssumption
<1>5. RowsFit(row') /\ Changes(row, row', j)  BY <1>3, <1>4 DEF RowsFit, Changes
<1>6. \A c \in Calls : j \notin call[c].reclaimed  BY <1>3 DEF ReclaimedSound
<1>7. ReclaimedSound'
  BY <1>3, <1>6, ReclaimedStay DEF ReclaimedSound, Succeed
<1>8. ASSUME NEW c \in Calls, NEW u \in Users PROVE Falls(row, row', u, call[c].reclaimed)
  <2>1. There(row', u) = There(row, u)  BY <1>3 DEF There
  <2>2. Flying(row', u, call[c].reclaimed) = Flying(row, u, call[c].reclaimed) \ {j}
    BY <1>3, <2>1 DEF Flying, There
  <2>3. Fresh(row', u) = Fresh(row, u)  BY <1>3, <2>1 DEF Fresh, There
  <2>4. j \notin Done(row, u)  BY <1>3 DEF Done
  <2>5. CASE j \in There(row, u) /\ ~row[j].past
    <3>1. Done(row', u) = Done(row, u) \cup {j}  BY <1>3, <2>1, <2>5 DEF Done, There
    <3>2. j \in Flying(row, u, call[c].reclaimed)  BY <1>3, <1>6, <2>5 DEF Flying
    <3> QED  BY <1>5, <2>2, <2>3, <2>4, <3>1, <3>2, OneRowFalls
  <2>6. CASE ~(j \in There(row, u) /\ ~row[j].past)
    <3>1. Done(row', u) = Done(row, u)  BY <1>3, <2>1, <2>6 DEF Done, There
    <3> QED  BY <1>5, <2>2, <2>3, <2>4, <3>1, OneRowFalls
  <2> QED  BY <2>5, <2>6
<1> QED  BY <1>5, <1>7, <1>8

LEMMA EndFalls ==
    ASSUME Shape, RowsFit(row), ReclaimedSound, NEW j \in Jobs, End(j)
    PROVE  /\ RowsFit(row') /\ ReclaimedSound'
           /\ \A c \in Calls, u \in Users : Falls(row, row', u, call[c].reclaimed)
<1>1. PICK O : row \in [Jobs -> RowWith(O)]  BY DEF Shape
<1>2. /\ row[j].status # "absent" /\ row'[j].status = "ended"
      /\ row'[j].upload = row[j].upload /\ row'[j].output = 0
      /\ row'[j].recent = row[j].recent
      /\ \A i \in Jobs \ {j} : row'[i] = row[i]
      /\ row[j].status = "succeeded" => row[j].past
  BY <1>1 DEF End, Ended, RowWith
<1>3. RowsFit(row') /\ Changes(row, row', j)  BY <1>2 DEF RowsFit, Changes
<1>4. \A c \in Calls : j \notin call[c].reclaimed  BY DEF End, Writable
<1>5. ReclaimedSound'
  BY <1>2, <1>4, ReclaimedStay DEF ReclaimedSound, End
<1>6. ASSUME NEW c \in Calls, NEW u \in Users PROVE Falls(row, row', u, call[c].reclaimed)
  <2>1. There(row', u) = There(row, u)  BY <1>2 DEF There
  <2>2. Flying(row', u, call[c].reclaimed) = Flying(row, u, call[c].reclaimed) \ {j}
    BY <1>2, <2>1 DEF Flying, There
  <2>3. Done(row', u) = Done(row, u) /\ j \notin Done(row, u)  BY <1>2, <2>1 DEF Done, There
  <2>4. Fresh(row', u) = Fresh(row, u)  BY <1>2, <2>1 DEF Fresh, There
  <2> QED  BY <1>3, <2>2, <2>3, <2>4, OneRowFalls
<1> QED  BY <1>3, <1>5, <1>6

LEMMA TimeFalls ==
    ASSUME Shape, RowsFit(row), ReclaimedSound, NEW j \in Jobs,
           DeadlinePasses(j) \/ HourPasses(j)
    PROVE  /\ RowsFit(row') /\ ReclaimedSound'
           /\ \A c \in Calls, u \in Users : Falls(row, row', u, call[c].reclaimed)
<1>1. PICK O : row \in [Jobs -> RowWith(O)]  BY DEF Shape
<1>2. /\ row'[j].status = row[j].status /\ row'[j].upload = row[j].upload
      /\ row'[j].output = row[j].output
      /\ row'[j].recent => row[j].recent
      /\ row[j].past => row'[j].past
      /\ \A i \in Jobs \ {j} : row'[i] = row[i]
      /\ UNCHANGED call
  BY <1>1 DEF DeadlinePasses, HourPasses, RowWith
<1>3. RowsFit(row')  BY <1>2 DEF RowsFit
<1>4. ReclaimedSound'
  BY <1>2, ReclaimedStay DEF ReclaimedSound
<1>5. ASSUME NEW c \in Calls, NEW u \in Users PROVE Falls(row, row', u, call[c].reclaimed)
  <2>1. There(row', u) = There(row, u)  BY <1>2 DEF There
  <2>2. Flying(row', u, call[c].reclaimed) = Flying(row, u, call[c].reclaimed)
    BY <1>2, <2>1 DEF Flying, There
  <2>3. Done(row', u) = Done(row, u) \/ Done(row', u) = Done(row, u) \ {j}
    BY <1>2, <2>1 DEF Done, There
  <2>4. Fresh(row', u) \subseteq Fresh(row, u)  BY <1>2, <2>1 DEF Fresh, There
  <2>5. Changes(row, row', j)  BY <1>2 DEF Changes
  <2> QED  BY <1>2, <1>3, <2>2, <2>3, <2>4, <2>5, OneRowFalls
<1> QED  BY <1>3, <1>4, <1>5

-----------------------------------------------------------------------------
(* The sums the model takes are these totals.                              *)

LEMMA SumsKnown ==
    RowsFit(row) => \A u \in Users :
        /\ InFlight(u) = Flying(row, u, {}) /\ Results(u) = Done(row, u) /\ Recent(u) = Fresh(row, u)
        /\ \A X : ReservedBytes(Flying(row, u, X)) = Bytes(row, u, X)
        /\ OutputBytes(Done(row, u)) = Outputs(row, u)
        /\ Growth(Done(row, u)) = Excess(row, u)
<1> SUFFICES ASSUME RowsFit(row), NEW u \in Users
             PROVE  /\ InFlight(u) = Flying(row, u, {}) /\ Results(u) = Done(row, u) /\ Recent(u) = Fresh(row, u)
                    /\ \A X : ReservedBytes(Flying(row, u, X)) = Bytes(row, u, X)
                    /\ OutputBytes(Done(row, u)) = Outputs(row, u)
                    /\ Growth(Done(row, u)) = Excess(row, u)
  OBVIOUS
<1>1. There(row, u) = RowsOf(u)  BY DEF There, RowsOf, Exists, Of
<1>2. InFlight(u) = Flying(row, u, {}) /\ Results(u) = Done(row, u) /\ Recent(u) = Fresh(row, u)
  BY <1>1 DEF Flying, Done, Fresh, InFlight, Results, Recent
<1>3. ASSUME NEW S, IsFiniteSet(S), S \subseteq There(row, u)
      PROVE  ReservedBytes(S) = Total(ReservedOf(row), S)
  <2> DEFINE f == ReservedOf(row)
             P(g) == g = [s \in SUBSET S |->
                 IF s = {} THEN 0
                 ELSE Reserved(CHOOSE x \in s : TRUE) + g[s \ {CHOOSE x \in s : TRUE}]]
  <2>1. \A x \in S : f[x] = Reserved(x)  BY <1>3 DEF ReservedOf, Reserved, There
  <2>2. \A s \in SUBSET S : s # {} => f[CHOOSE x \in s : TRUE] = Reserved(CHOOSE x \in s : TRUE)
    BY <2>1
  <2>3. \A g : Folds(g, f, S) <=> P(g)  BY <2>2 DEF Folds, Pick
  <2>4. ReservedBytes(S) = (CHOOSE g : P(g))[S]
    BY DEF ReservedBytes, MapThenSumSet, MapThenFoldSet
  <2> HIDE DEF P, f
  <2>5. (CHOOSE g : Folds(g, f, S)) = (CHOOSE g : P(g))  BY <2>3
  <2> QED  BY <2>4, <2>5 DEF f, Total
<1>4. ASSUME NEW S, IsFiniteSet(S), S \subseteq There(row, u)
      PROVE  OutputBytes(S) = Total(OutputOf(row), S)
  <2> DEFINE f == OutputOf(row)
             P(g) == g = [s \in SUBSET S |->
                 IF s = {} THEN 0
                 ELSE row[CHOOSE x \in s : TRUE].output + g[s \ {CHOOSE x \in s : TRUE}]]
  <2>1. \A x \in S : f[x] = row[x].output  BY <1>4 DEF OutputOf, There
  <2>2. \A s \in SUBSET S : s # {} => f[CHOOSE x \in s : TRUE] = row[CHOOSE x \in s : TRUE].output
    BY <2>1
  <2>3. \A g : Folds(g, f, S) <=> P(g)  BY <2>2 DEF Folds, Pick
  <2>4. OutputBytes(S) = (CHOOSE g : P(g))[S]
    BY DEF OutputBytes, MapThenSumSet, MapThenFoldSet
  <2> HIDE DEF P, f
  <2>5. (CHOOSE g : Folds(g, f, S)) = (CHOOSE g : P(g))  BY <2>3
  <2> QED  BY <2>4, <2>5 DEF f, Total
<1>5. ASSUME NEW S, IsFiniteSet(S), S \subseteq There(row, u)
      PROVE  Growth(S) = Total(GrowthOf(row), S)
  <2> DEFINE f == GrowthOf(row)
             G(x) == IF row[x].output > Reserved(x) THEN row[x].output - Reserved(x) ELSE 0
             P(g) == g = [s \in SUBSET S |->
                 IF s = {} THEN 0
                 ELSE G(CHOOSE x \in s : TRUE) + g[s \ {CHOOSE x \in s : TRUE}]]
  <2>1. \A x \in S : f[x] = G(x)  BY <1>5 DEF GrowthOf, ReservedOf, Reserved, There
  <2>2. Growth(S) = (CHOOSE g : P(g))[S]
    BY DEF Growth, MapThenSumSet, MapThenFoldSet
  <2> HIDE DEF f
  <2>3. \A g : Folds(g, f, S) <=> P(g)
    <3> HIDE DEF G
    <3>1. \A s \in SUBSET S : s # {} => f[CHOOSE x \in s : TRUE] = G(CHOOSE x \in s : TRUE)
      BY <2>1
    <3> QED  BY <3>1 DEF Folds, Pick
  <2> HIDE DEF P
  <2>5. (CHOOSE g : Folds(g, f, S)) = (CHOOSE g : P(g))  BY <2>3
  <2> QED  BY <2>2, <2>5 DEF f, Total
<1>6. \A X : ReservedBytes(Flying(row, u, X)) = Bytes(row, u, X)
  BY <1>3, SetsFinite DEF Bytes, Flying
<1>7. OutputBytes(Done(row, u)) = Outputs(row, u)
  BY <1>4, SetsFinite DEF Outputs, Done
<1>8. Growth(Done(row, u)) = Excess(row, u)
  BY <1>5, SetsFinite DEF Excess, Done
<1> QED  BY <1>2, <1>6, <1>7, <1>8

-----------------------------------------------------------------------------
(* Steps of a call.                                                        *)

ReclaimFits(r, k) ==
    /\ k.reclaimed \subseteq Jobs
    /\ k.reclaimed # {} => k.pc \notin {"idle", "lock", "answer"}
    /\ \A j \in k.reclaimed : r[j].status = "uploading" /\ Owner[r[j].upload] = Owner[k.upload]

CallParts == ReclaimedSound /\ NumbersFit /\ Measured

LEMMA PartsOf ==
    /\ ReclaimedSound <=> \A c \in Calls : ReclaimFits(row, call[c])
    /\ ReclaimedSound' <=> \A c \in Calls : ReclaimFits(row', call'[c])
BY DEF ReclaimedSound, ReclaimFits, InTransaction, UserOf, Of

\* c moves on, and the table stays.
LEMMA OneCall ==
    ASSUME CallParts, NEW c \in Calls, Others(c), UNCHANGED row,
           call'[c].used \in Nat, disturbed' \in 0 .. Disturbances,
           MeasuredBy(row, call'[c]), ReclaimFits(row, call'[c])
    PROVE  CallParts'
<1>1. \A b \in Calls : call'[b].used \in Nat /\ MeasuredBy(row, call'[b]) /\ ReclaimFits(row, call'[b])
  BY PartsOf DEF CallParts, NumbersFit, Measured, Others
<1>2. row' = row  OBVIOUS
<1>3. ReclaimedSound'  BY <1>1, <1>2, PartsOf
<1>4. Measured'  BY <1>1, <1>2 DEF Measured
<1> QED  BY <1>1, <1>3, <1>4 DEF CallParts, NumbersFit

\* A record whose call is not measuring and has reclaimed nothing asks for nothing.
LEMMA Outside ==
    ASSUME NEW k, k.reclaimed = {}, k.pc \notin {"succeeded", "count", "hour", "create"}, NEW r
    PROVE  MeasuredBy(r, k) /\ ReclaimFits(r, k)
BY DEF MeasuredBy, ReclaimFits

LEMMA AbandonParts ==
    ASSUME Shape, CallParts, NEW c \in Calls, Abandon(c), disturbed' \in 0 .. Disturbances
    PROVE  CallParts'
<1>1. call'[c] = Idle /\ Others(c) /\ UNCHANGED row  BY DEF Shape, Abandon, Others
<1>2. Idle.pc = "idle" /\ Idle.reclaimed = {} /\ Idle.used = 0  BY DEF Idle
<1> QED  BY <1>1, <1>2, OneCall, Outside

LEMMA LeaveParts ==
    ASSUME Shape, CallParts, NEW c \in Calls, disturbed' \in 0 .. Disturbances, UNCHANGED row,
           \/ \E x \in Uploads : Receive(c, x)
           \/ Lock(c) \/ Find(c) \/ Answer(c)
    PROVE  CallParts'
<1>0. PICK U : call \in [Calls -> CallWith(U)]  BY DEF Shape
<1>1. call[c].used \in Nat /\ ReclaimFits(row, call[c])  BY PartsOf DEF CallParts, NumbersFit
<1>2. ASSUME NEW x \in Uploads, Receive(c, x) PROVE CallParts'
  <2>1. call'[c] = [Idle EXCEPT !.pc = "lock", !.upload = x]  BY <1>0, <1>2 DEF Receive
  <2>2. Others(c)  BY <1>0, <1>2 DEF Receive, Others
  <2>3. call'[c].pc = "lock" /\ call'[c].reclaimed = {} /\ call'[c].used \in Nat  BY <2>1 DEF Idle
  <2>4. MeasuredBy(row, call'[c]) /\ ReclaimFits(row, call'[c])  BY <2>3, Outside
  <2> QED  BY <2>2, <2>3, <2>4, OneCall
<1>3. ASSUME Lock(c) PROVE CallParts'
  <2>1. call'[c] = [call[c] EXCEPT !.pc = "find"] /\ Others(c) /\ call[c].pc = "lock"
    BY <1>0, <1>3 DEF Lock, Advance, Others
  <2>2. call'[c].pc = "find" /\ call'[c].reclaimed = call[c].reclaimed /\ call'[c].used = call[c].used
    BY <1>0, <2>1 DEF CallWith
  <2>3. call[c].reclaimed = {}  BY <1>1, <2>1 DEF ReclaimFits
  <2> QED  BY <1>1, <2>1, <2>2, <2>3, OneCall, Outside
<1>4. ASSUME Find(c) PROVE CallParts'
  <2>1. CASE Advance(c, "reclaim")
    <3>1. call'[c] = [call[c] EXCEPT !.pc = "reclaim"] /\ Others(c) /\ call[c].pc = "find"
      BY <1>0, <1>4, <2>1 DEF Find, Advance, Others
    <3>2. /\ call'[c].pc = "reclaim" /\ call'[c].reclaimed = call[c].reclaimed
          /\ call'[c].used = call[c].used /\ call'[c].upload = call[c].upload
      BY <1>0, <3>1 DEF CallWith
    <3>3. MeasuredBy(row, call'[c])  BY <3>2 DEF MeasuredBy
    <3>4. ReclaimFits(row, call'[c])  BY <1>1, <3>2 DEF ReclaimFits
    <3> QED  BY <1>1, <3>1, <3>2, <3>3, <3>4, OneCall
  <2>2. ASSUME NEW j \in Jobs, call' = [call EXCEPT ![c] = Answering(call[c].upload, j)]
        PROVE  CallParts'
    <3>1. call'[c] = Answering(call[c].upload, j) /\ Others(c)  BY <1>0, <2>2 DEF Others
    <3>2. call'[c].pc = "answer" /\ call'[c].reclaimed = {} /\ call'[c].used = 0
      BY <3>1 DEF Answering, Idle
    <3> QED  BY <3>1, <3>2, OneCall, Outside
  <2> QED  BY <1>4, <2>1, <2>2 DEF Find
<1>5. ASSUME Answer(c) PROVE CallParts'
  <2>1. call'[c] = Idle /\ Others(c)  BY <1>0, <1>5 DEF Answer, Others
  <2>2. Idle.pc = "idle" /\ Idle.reclaimed = {} /\ Idle.used = 0  BY DEF Idle
  <2> QED  BY <2>1, <2>2, OneCall, Outside
<1> QED  BY <1>2, <1>3, <1>4, <1>5

\* The statements between the lookup and the insert.
LEMMA MeasureParts ==
    ASSUME Shape, UploadKnown, RowsFit(row), CallParts, NEW c \in Calls,
           \/ Reclaim(c) \/ ReadUser(c) \/ SumInFlight(c)
           \/ SumSucceeded(c) \/ CountInFlight(c) \/ CountRecent(c)
    PROVE  CallParts' \/ Abandon(c)
<1>0. PICK U : call \in [Calls -> CallWith(U)]  BY DEF Shape
<1> DEFINE u == UserOf(c)
           X == call[c].reclaimed
           k == call[c]
           l == call'[c]
           size == Size[Content[k.upload]]
<1>1. k.used \in Nat /\ ReclaimFits(row, k) /\ MeasuredBy(row, k) /\ disturbed \in 0 .. Disturbances
  BY PartsOf DEF CallParts, NumbersFit, Measured
<1>2. k.upload \in Uploads
  BY DEF UploadKnown, Reclaim, ReadUser, SumInFlight, SumSucceeded, CountInFlight, CountRecent
<1>3. u \in Users /\ size \in Nat  BY <1>2, ReservationAssumption DEF UserOf
<1>4. /\ ReservedBytes(CountedInFlight(c)) = Bytes(row, u, X)
      /\ CountedInFlight(c) = Flying(row, u, X)
      /\ OutputBytes(Results(u)) = Outputs(row, u) /\ Recent(u) = Fresh(row, u)
  <2>1. CountedInFlight(c) = Flying(row, u, X)
    BY <1>3, SumsKnown DEF CountedInFlight, Flying
  <2> QED  BY <1>3, <2>1, SumsKnown
<1>5. /\ Bytes(row, u, X) \in Nat /\ Outputs(row, u) \in Nat /\ Excess(row, u) \in Nat
      /\ Cardinality(Flying(row, u, X)) \in Nat /\ Cardinality(Fresh(row, u)) \in Nat
  BY SumsNat, SetsFinite, FS_CardinalityType
<1>6. k.quota.storage \in Nat /\ k.quota.parallel \in Nat /\ k.quota.hourly \in Nat
  <2>1. k.quota \in Quotas  BY <1>0 DEF CallWith
  <2> QED  BY <2>1, ReservationAssumption
<1>7. u = Owner[k.upload]  BY DEF UserOf
\* whatever keeps the upload and what was reclaimed
<1>8. ASSUME Others(c), UNCHANGED <<row, disturbed>>, l.used \in Nat, MeasuredBy(row, l),
             l.upload = k.upload, l.reclaimed = X, l.pc \notin {"idle", "lock", "answer"}
      PROVE  CallParts'
  <2>1. ReclaimFits(row, l)  BY <1>1, <1>8 DEF ReclaimFits
  <2> QED  BY <1>1, <1>8, <2>1, OneCall
<1>9. ASSUME Reclaim(c) PROVE CallParts'
  <2>1. l = [k EXCEPT !.pc = "user",
               !.reclaimed = {j \in RowsOf(u) : row[j].status = "uploading" /\ row[j].past}]
        /\ Others(c)
    BY <1>0, <1>9 DEF Reclaim, Others
  <2>2. /\ l.pc = "user" /\ l.used = k.used /\ l.upload = k.upload
        /\ l.reclaimed = {j \in RowsOf(u) : row[j].status = "uploading" /\ row[j].past}
    BY <1>0, <2>1 DEF CallWith
  <2>3. ReclaimFits(row, l)  BY <1>7, <2>2 DEF ReclaimFits, RowsOf, Of
  <2>4. MeasuredBy(row, l)  BY <2>2 DEF MeasuredBy
  <2> QED  BY <1>1, <1>9, <2>1, <2>2, <2>3, <2>4, OneCall DEF Reclaim
<1>10. ASSUME ReadUser(c) PROVE CallParts'
  <2>1. l = [k EXCEPT !.pc = "inflight", !.quota = quota[u]] /\ Others(c)
    BY <1>0, <1>10 DEF ReadUser, Others
  <2>2. l.pc = "inflight" /\ l.used = k.used /\ l.upload = k.upload /\ l.reclaimed = X
    BY <1>0, <2>1 DEF CallWith
  <2>3. MeasuredBy(row, l)  BY <2>2 DEF MeasuredBy
  <2> QED  BY <1>1, <1>8, <1>10, <2>1, <2>2, <2>3 DEF ReadUser
<1>11. ASSUME SumInFlight(c) PROVE CallParts'
  <2>1. l = [k EXCEPT !.pc = "succeeded", !.used = Bytes(row, u, X)] /\ Others(c)
    BY <1>0, <1>4, <1>11 DEF SumInFlight, Others
  <2>2. l.pc = "succeeded" /\ l.used = Bytes(row, u, X) /\ l.upload = k.upload /\ l.reclaimed = X
    BY <1>0, <2>1 DEF CallWith
  <2>3. MeasuredBy(row, l)  BY <1>5, <1>7, <2>2 DEF MeasuredBy
  <2> QED  BY <1>5, <1>8, <1>11, <2>1, <2>2, <2>3 DEF SumInFlight
<1>12. ASSUME SumSucceeded(c), ~Abandon(c) PROVE CallParts'
  <2>1. ~OverStorage(c) /\ call' = [call EXCEPT ![c].pc = "count", ![c].used = 0]
    BY <1>12 DEF SumSucceeded
  <2>2. l = [k EXCEPT !.pc = "count", !.used = 0] /\ Others(c) /\ k.pc = "succeeded"
    BY <1>0, <1>12, <2>1 DEF SumSucceeded, Others
  <2>3. /\ l.pc = "count" /\ l.used = 0 /\ l.upload = k.upload /\ l.reclaimed = X
        /\ l.quota = k.quota
    BY <1>0, <2>2 DEF CallWith
  <2>4. k.used + Outputs(row, u) + size <= k.quota.storage
    BY <1>1, <1>3, <1>4, <1>5, <1>6, <2>1 DEF OverStorage
  <2>5. Bytes(row, u, X) <= k.used  BY <1>1, <1>7, <2>2 DEF MeasuredBy
  <2>6. Bytes(row, u, X) + Outputs(row, u) + size <= k.quota.storage + Excess(row, u)
    BY <1>1, <1>3, <1>5, <1>6, <2>4, <2>5
  <2>7. MeasuredBy(row, l)  BY <1>7, <2>3, <2>6 DEF MeasuredBy
  <2> QED  BY <1>8, <1>12, <2>2, <2>3, <2>7 DEF SumSucceeded
<1>13. ASSUME CountInFlight(c), ~Abandon(c) PROVE CallParts'
  <2>1. ~(Cardinality(CountedInFlight(c)) >= k.quota.parallel) /\ Advance(c, "hour")
    BY <1>13 DEF CountInFlight
  <2>2. l = [k EXCEPT !.pc = "hour"] /\ Others(c) /\ k.pc = "count"
    BY <1>0, <1>13, <2>1 DEF CountInFlight, Advance, Others
  <2>3. /\ l.pc = "hour" /\ l.used = k.used /\ l.upload = k.upload /\ l.reclaimed = X
        /\ l.quota = k.quota
    BY <1>0, <2>2 DEF CallWith
  <2>4. Cardinality(Flying(row, u, X)) < k.quota.parallel  BY <1>4, <1>5, <1>6, <2>1
  <2>5. MeasuredBy(row, l)  BY <1>1, <1>7, <2>2, <2>3, <2>4 DEF MeasuredBy
  <2> QED  BY <1>1, <1>8, <1>13, <2>1, <2>2, <2>3, <2>5 DEF CountInFlight
<1>14. ASSUME CountRecent(c), ~Abandon(c) PROVE CallParts'
  <2>1. ~(Cardinality(Recent(u)) >= k.quota.hourly) /\ Advance(c, "create")
    BY <1>14 DEF CountRecent
  <2>2. l = [k EXCEPT !.pc = "create"] /\ Others(c) /\ k.pc = "hour"
    BY <1>0, <1>14, <2>1 DEF CountRecent, Advance, Others
  <2>3. /\ l.pc = "create" /\ l.used = k.used /\ l.upload = k.upload /\ l.reclaimed = X
        /\ l.quota = k.quota
    BY <1>0, <2>2 DEF CallWith
  <2>4. Cardinality(Fresh(row, u)) < k.quota.hourly  BY <1>4, <1>5, <1>6, <2>1
  <2>5. MeasuredBy(row, l)  BY <1>1, <1>7, <2>2, <2>3, <2>4 DEF MeasuredBy
  <2> QED  BY <1>1, <1>8, <1>14, <2>1, <2>2, <2>3, <2>5 DEF CountRecent
<1> QED  BY <1>9, <1>10, <1>11, <1>12, <1>13, <1>14

\* Rows nobody counts may differ.
LEMMA SameSums ==
    ASSUME NEW r, NEW q, NEW u, NEW X,
           \A i \in Jobs : i \in There(r, u) \/ i \in There(q, u) => q[i] = r[i]
    PROVE  /\ Flying(q, u, X) = Flying(r, u, X) /\ Fresh(q, u) = Fresh(r, u)
           /\ Bytes(q, u, X) = Bytes(r, u, X)
           /\ Outputs(q, u) = Outputs(r, u) /\ Excess(q, u) = Excess(r, u)
<1>1. There(q, u) = There(r, u)  BY DEF There
<1>2. Flying(q, u, X) = Flying(r, u, X) /\ Fresh(q, u) = Fresh(r, u) /\ Done(q, u) = Done(r, u)
  BY <1>1 DEF Flying, Fresh, Done, There
<1>3. \A i \in There(r, u) : /\ ReservedOf(q)[i] = ReservedOf(r)[i]
                             /\ OutputOf(q)[i] = OutputOf(r)[i]
                             /\ GrowthOf(q)[i] = GrowthOf(r)[i]
  <2> SUFFICES ASSUME NEW i \in There(r, u)
               PROVE  /\ ReservedOf(q)[i] = ReservedOf(r)[i]
                      /\ OutputOf(q)[i] = OutputOf(r)[i]
                      /\ GrowthOf(q)[i] = GrowthOf(r)[i]
    OBVIOUS
  <2>1. i \in Jobs /\ q[i] = r[i]  BY DEF There
  <2>2. ReservedOf(q)[i] = ReservedOf(r)[i]  BY <2>1 DEF ReservedOf
  <2> QED  BY <2>1, <2>2 DEF OutputOf, GrowthOf
<1>4. Flying(r, u, X) \subseteq There(r, u) /\ Done(r, u) \subseteq There(r, u)
  BY DEF Flying, Done
<1>5. Bytes(q, u, X) = Bytes(r, u, X)
  BY <1>2, <1>3, <1>4, SetsFinite, TotalSame DEF Bytes
<1>6. Outputs(q, u) = Outputs(r, u)
  BY <1>2, <1>3, <1>4, SetsFinite, TotalSame DEF Outputs
<1>7. Excess(q, u) = Excess(r, u)
  BY <1>2, <1>3, <1>4, SetsFinite, TotalSame DEF Excess
<1> QED  BY <1>2, <1>5, <1>6, <1>7

\* The insert with its reclaim, or the failing insert.
LEMMA CreateRows ==
    ASSUME Shape, UploadKnown, RowsFit(row), ReclaimedSound, NEW c \in Calls, Create(c), ~Abandon(c)
    PROVE  \E j \in Jobs :
              /\ row[j].status = "absent"
              /\ row' = [i \in Jobs |-> IF i = j THEN NewRow(c)
                                        ELSE IF i \in call[c].reclaimed THEN Ended(row[i])
                                        ELSE row[i]]
              /\ call'[c] = Answering(call[c].upload, j) /\ Others(c) /\ UNCHANGED disturbed
              /\ RowsFit(row')
<1>0. PICK U : call \in [Calls -> CallWith(U)]  BY DEF Shape
<1>1. PICK O : row \in [Jobs -> RowWith(O)]  BY DEF Shape
<1>2. PICK j \in Jobs :
        /\ ~Exists(j)
        /\ row' = [i \in Jobs |-> IF i = j THEN NewRow(c)
                                  ELSE IF i \in call[c].reclaimed THEN Ended(row[i])
                                  ELSE row[i]]
        /\ call' = [call EXCEPT ![c] = Answering(call[c].upload, j)]
  BY DEF Create
<1>3. call'[c] = Answering(call[c].upload, j) /\ Others(c)  BY <1>0, <1>2 DEF Others
<1>4. call[c].upload \in Uploads  BY DEF UploadKnown, Create
<1>5. \A i \in Jobs : Ended(row[i]).output = 0 /\ Ended(row[i]).upload = row[i].upload
  BY <1>1 DEF Ended, RowWith
<1>6. NewRow(c).output = 0 /\ NewRow(c).upload \in Uploads  BY <1>4 DEF NewRow
<1>7. \A i \in call[c].reclaimed : i \in Jobs /\ row[i].status # "absent"
  BY DEF ReclaimedSound
<1>8. RowsFit(row')  BY <1>2, <1>5, <1>6, <1>7 DEF RowsFit
<1> QED  BY <1>2, <1>3, <1>8 DEF Create, Exists

LEMMA CreateParts ==
    ASSUME Shape, UploadKnown, LockHeldInside, RowsFit(row), CallParts, NEW c \in Calls, Create(c)
    PROVE  CallParts' /\ RowsFit(row')
<1>0. disturbed' = disturbed  BY DEF Create
<1>1. CASE Abandon(c)
  <2>1. UNCHANGED row  BY <1>1 DEF Abandon
  <2> QED  BY <1>0, <1>1, <2>1, AbandonParts DEF CallParts, NumbersFit
<1>2. CASE ~Abandon(c)
  <2>0. ReclaimedSound /\ NumbersFit /\ Measured  BY DEF CallParts
  <2>1. PICK j \in Jobs :
          /\ row[j].status = "absent"
          /\ row' = [i \in Jobs |-> IF i = j THEN NewRow(c)
                                    ELSE IF i \in call[c].reclaimed THEN Ended(row[i])
                                    ELSE row[i]]
          /\ call'[c] = Answering(call[c].upload, j) /\ Others(c) /\ UNCHANGED disturbed
          /\ RowsFit(row')
    BY <1>2, <2>0, CreateRows
  <2>2. call'[c].pc = "answer" /\ call'[c].reclaimed = {} /\ call'[c].used = 0
    BY <2>1 DEF Answering, Idle
  <2>3. MeasuredBy(row', call'[c]) /\ ReclaimFits(row', call'[c])  BY <2>2, Outside
  <2>4. InTransaction(c)  BY DEF Create, InTransaction
  <2>5. UserOf(c) \in Users  BY ReservationAssumption DEF Create, UploadKnown, UserOf
  <2>6. PICK O : row \in [Jobs -> RowWith(O)]  BY DEF Shape
  \* the rows that change are the user's
  <2>7. \A i \in Jobs : row'[i] # row[i] =>
          /\ row[i].status # "absent" => Owner[row[i].upload] = UserOf(c)
          /\ Owner[row'[i].upload] = UserOf(c)
    <3> SUFFICES ASSUME NEW i \in Jobs, row'[i] # row[i]
                 PROVE  /\ row[i].status # "absent" => Owner[row[i].upload] = UserOf(c)
                        /\ Owner[row'[i].upload] = UserOf(c)
      OBVIOUS
    <3>1. CASE i = j  BY <2>1, <3>1 DEF NewRow, UserOf
    <3>2. CASE i # j
      <4>1. i \in call[c].reclaimed /\ row'[i] = Ended(row[i])  BY <2>1, <3>2
      <4>2. Ended(row[i]).upload = row[i].upload  BY <2>6 DEF Ended, RowWith
      <4> QED  BY <2>0, <4>1, <4>2 DEF ReclaimedSound, Of
    <3> QED  BY <3>1, <3>2
  <2>8. ASSUME NEW b \in Calls \ {c}
        PROVE  /\ call'[b].used \in Nat
               /\ MeasuredBy(row', call'[b]) /\ ReclaimFits(row', call'[b])
    <3>1. call'[b] = call[b] /\ call[b].used \in Nat
          /\ MeasuredBy(row, call[b]) /\ ReclaimFits(row, call[b])
      BY <2>0, <2>1, PartsOf DEF Others, NumbersFit, Measured
    <3>2. CASE InTransaction(b)
      <4> DEFINE u == Owner[call[b].upload]
      <4>1. u # UserOf(c)
        <5>1. u = UserOf(b)  BY DEF UserOf
        <5> QED  BY <2>4, <2>5, <3>2, <5>1 DEF LockHeldInside
      <4>2. \A i \in Jobs : i \in There(row, u) \/ i \in There(row', u) => row'[i] = row[i]
        BY <2>7, <4>1 DEF There
      <4>3. \A X : /\ Flying(row', u, X) = Flying(row, u, X) /\ Fresh(row', u) = Fresh(row, u)
                   /\ Bytes(row', u, X) = Bytes(row, u, X)
                   /\ Outputs(row', u) = Outputs(row, u) /\ Excess(row', u) = Excess(row, u)
        BY <4>2, SameSums
      <4>4. MeasuredBy(row', call[b])  BY <3>1, <4>3 DEF MeasuredBy
      <4>5. \A i \in call[b].reclaimed : row'[i] = row[i]
        <5> SUFFICES ASSUME NEW i \in call[b].reclaimed, row'[i] # row[i] PROVE FALSE  OBVIOUS
        <5>1. i \in Jobs /\ row[i].status = "uploading" /\ Owner[row[i].upload] = u
          BY <3>1 DEF ReclaimFits
        <5> QED  BY <2>7, <4>1, <5>1
      <4>6. ReclaimFits(row', call[b])  BY <3>1, <4>5 DEF ReclaimFits
      <4> QED  BY <3>1, <4>4, <4>6
    <3>3. CASE ~InTransaction(b)
      <4>1. call[b].pc \in {"idle", "lock", "answer"} /\ call[b].reclaimed = {}
        BY <3>1, <3>3 DEF InTransaction, ReclaimFits
      <4> QED  BY <3>1, <4>1, Outside
    <3> QED  BY <3>2, <3>3
  <2>9. \A b \in Calls : /\ call'[b].used \in Nat
                         /\ MeasuredBy(row', call'[b]) /\ ReclaimFits(row', call'[b])
    BY <2>2, <2>3, <2>8
  <2>10. ReclaimedSound'  BY <2>9, PartsOf
  <2>11. Measured'  BY <2>9 DEF Measured
  <2>12. NumbersFit'  BY <2>0, <2>1, <2>9 DEF NumbersFit
  <2> QED  BY <2>1, <2>10, <2>11, <2>12 DEF CallParts
<1> QED  BY <1>1, <1>2

\* Steps of the rows.
LEMMA RowParts ==
    ASSUME Shape, UploadKnown, RowsFit(row), CallParts, NEW j \in Jobs,
           Accept(j) \/ Succeed(j) \/ End(j) \/ DeadlinePasses(j) \/ HourPasses(j)
    PROVE  CallParts' /\ RowsFit(row')
<1>0. ReclaimedSound /\ NumbersFit /\ Measured  BY DEF CallParts
<1>1. UNCHANGED <<call, disturbed>>
  BY DEF Accept, Succeed, End, DeadlinePasses, HourPasses
<1>2. /\ RowsFit(row') /\ ReclaimedSound'
      /\ \A c \in Calls, u \in Users : Falls(row, row', u, call[c].reclaimed)
  BY <1>0, AcceptFalls, SucceedFalls, EndFalls, TimeFalls
<1>3. NumbersFit'  BY <1>0, <1>1 DEF NumbersFit
<1>4. ASSUME NEW c \in Calls PROVE MeasuredBy(row', call[c])
  <2> DEFINE k == call[c]
             u == Owner[k.upload]
             X == k.reclaimed
             size == Size[Content[k.upload]]
  <2>1. CASE k.pc = "idle"  BY <2>1 DEF MeasuredBy
  <2>2. CASE k.pc # "idle"
    <3>1. k.upload \in Uploads  BY <2>2 DEF UploadKnown
    <3>2. u \in Users /\ size \in Nat  BY <3>1, ReservationAssumption
    <3>3. Falls(row, row', u, X) /\ MeasuredBy(row, k) /\ k.used \in Nat
      BY <1>0, <1>2, <3>2 DEF Measured, NumbersFit
    <3>4. /\ Bytes(row, u, X) \in Nat /\ Outputs(row, u) \in Nat /\ Excess(row, u) \in Nat
          /\ Bytes(row', u, X) \in Nat /\ Outputs(row', u) \in Nat /\ Excess(row', u) \in Nat
      BY <1>2, SumsNat
    <3>5. /\ Cardinality(Flying(row, u, X)) \in Nat /\ Cardinality(Fresh(row, u)) \in Nat
          /\ Cardinality(Flying(row', u, X)) \in Nat /\ Cardinality(Fresh(row', u)) \in Nat
      BY SetsFinite, FS_CardinalityType
    <3>6. k.quota.storage \in Nat /\ k.quota.parallel \in Nat /\ k.quota.hourly \in Nat
      <4>1. PICK U : call \in [Calls -> CallWith(U)]  BY DEF Shape
      <4>2. k.quota \in Quotas  BY <4>1 DEF CallWith
      <4> QED  BY <4>2, ReservationAssumption
    <3>7. k.pc = "succeeded" => Bytes(row', u, X) <= k.used
      BY <3>3, <3>4 DEF Falls, MeasuredBy
    <3>8. k.pc \in {"count", "hour", "create"} =>
            Bytes(row', u, X) + Outputs(row', u) + size <= k.quota.storage + Excess(row', u)
      <4> SUFFICES ASSUME k.pc \in {"count", "hour", "create"}
                   PROVE  Bytes(row', u, X) + Outputs(row', u) + size <= k.quota.storage + Excess(row', u)
        OBVIOUS
      <4>1. Bytes(row, u, X) + Outputs(row, u) + size <= k.quota.storage + Excess(row, u)
        BY <3>3 DEF MeasuredBy
      <4>2. Bytes(row', u, X) + Outputs(row', u) + Excess(row, u)
              <= Bytes(row, u, X) + Outputs(row, u) + Excess(row', u)
        BY <3>3 DEF Falls
      <4> HIDE DEF u, X, size
      <4> QED  BY <3>2, <3>4, <3>6, <4>1, <4>2
    <3>9. /\ k.pc \in {"hour", "create"} => Cardinality(Flying(row', u, X)) < k.quota.parallel
          /\ k.pc = "create" => Cardinality(Fresh(row', u)) < k.quota.hourly
      BY <3>3, <3>5, <3>6 DEF Falls, MeasuredBy
    <3> QED  BY <3>7, <3>8, <3>9 DEF MeasuredBy
  <2> QED  BY <2>1, <2>2
<1>5. Measured'  BY <1>1, <1>4 DEF Measured
<1> QED  BY <1>2, <1>3, <1>5 DEF CallParts

-----------------------------------------------------------------------------
(* The invariant, and what it says of the quotas.                          *)

LEMMA QuotaInit == Init => QuotaInv
<1> SUFFICES ASSUME Init PROVE QuotaInv  OBVIOUS
<1>1. \A j \in Jobs : row[j] = NoRow  BY DEF Init
<1>2. \A c \in Calls : call[c] = Idle  BY DEF Init
<1>3. RowsFit(row)  BY <1>1 DEF RowsFit, NoRow
<1>4. Idle.pc = "idle" /\ Idle.reclaimed = {} /\ Idle.used = 0  BY DEF Idle
<1>5. \A c \in Calls : MeasuredBy(row, call[c]) /\ ReclaimFits(row, call[c])
  BY <1>2, <1>4, Outside
<1>6. NumbersFit  BY <1>2, <1>4, ReservationAssumption DEF NumbersFit, Init
<1> QED  BY <1>3, <1>5, <1>6, PartsOf, ReservationInit DEF QuotaInv, Measured

LEMMA QuotaStep == QuotaInv /\ [Next]_vars => QuotaInv'
<1> SUFFICES ASSUME QuotaInv, [Next]_vars PROVE QuotaInv'  OBVIOUS
<1>0. /\ ReservationInv /\ RowsFit(row) /\ CallParts /\ NumbersFit
      /\ Shape /\ UploadKnown /\ LockHeldInside
  BY DEF QuotaInv, ReservationInv, CallParts
<1>1. ReservationInv'  BY <1>0, ReservationStep
<1>2. disturbed \in 0 .. Disturbances  BY <1>0 DEF NumbersFit
<1>3. CASE UNCHANGED vars
  <2>1. row' = row /\ call' = call /\ disturbed' = disturbed  BY <1>3 DEF vars
  <2>2. ReclaimedSound' /\ NumbersFit' /\ Measured'
    <3>1. ReclaimedSound'  BY <1>0, <2>1, PartsOf DEF CallParts
    <3>2. Measured'  BY <1>0, <2>1 DEF CallParts, Measured
    <3> QED  BY <1>0, <2>1, <3>1, <3>2 DEF NumbersFit
  <2> QED  BY <1>0, <1>1, <2>1, <2>2 DEF QuotaInv
<1>4. ASSUME NEW c \in Calls, Step(c) \/ CallFails(c) \/ \E x \in Uploads : Receive(c, x)
      PROVE  CallParts' /\ RowsFit(row')
  <2>1. CASE Create(c)  BY <1>0, <2>1, CreateParts
  <2>2. CASE Abandon(c) /\ disturbed' \in 0 .. Disturbances
    <3>1. row' = row  BY <2>2 DEF Abandon
    <3> QED  BY <1>0, <2>2, <3>1, AbandonParts
  <2>3. CASE CallFails(c)
    <3>1. disturbed' \in 0 .. Disturbances
      BY <1>2, <2>3, ReservationAssumption DEF CallFails, Disturbs
    <3> QED  BY <2>2, <2>3, <3>1 DEF CallFails
  <2>4. CASE Reclaim(c) \/ ReadUser(c) \/ SumInFlight(c)
             \/ SumSucceeded(c) \/ CountInFlight(c) \/ CountRecent(c)
    <3>1. disturbed' \in 0 .. Disturbances
      BY <1>2, <2>4 DEF Reclaim, ReadUser, SumInFlight, SumSucceeded, CountInFlight, CountRecent
    <3>2. row' = row \/ Abandon(c)
      BY <2>4 DEF Reclaim, ReadUser, SumInFlight, SumSucceeded, CountInFlight, CountRecent
    <3>3. CallParts' \/ Abandon(c)  BY <1>0, <2>4, MeasureParts
    <3> QED  BY <1>0, <2>2, <3>1, <3>2, <3>3
  <2>5. CASE Lock(c) \/ Find(c) \/ Answer(c) \/ \E x \in Uploads : Receive(c, x)
    <3>1. UNCHANGED <<row, disturbed>>  BY <2>5 DEF Lock, Find, Answer, Receive
    <3> QED  BY <1>0, <1>2, <2>5, <3>1, LeaveParts
  <2> QED  BY <1>4, <2>1, <2>3, <2>4, <2>5 DEF Step
<1>5. ASSUME NEW j \in Jobs,
             Accept(j) \/ Succeed(j) \/ End(j) \/ DeadlinePasses(j) \/ HourPasses(j)
      PROVE  CallParts' /\ RowsFit(row')
  BY <1>0, <1>5, RowParts
<1>6. ASSUME NEW u \in Users, ChangeQuota(u) PROVE CallParts' /\ RowsFit(row')
  <2>1. row' = row /\ call' = call  BY <1>6 DEF ChangeQuota
  <2>2. disturbed' \in 0 .. Disturbances
    BY <1>2, <1>6, ReservationAssumption DEF ChangeQuota, Disturbs
  <2>3. ReclaimedSound'  BY <1>0, <2>1, PartsOf DEF CallParts
  <2>4. Measured'  BY <1>0, <2>1 DEF CallParts, Measured
  <2> QED  BY <1>0, <2>1, <2>2, <2>3, <2>4 DEF CallParts, NumbersFit
<1>7. CASE Next
  <2>1. CallParts' /\ RowsFit(row')  BY <1>4, <1>5, <1>6, <1>7 DEF Next
  <2> QED  BY <1>1, <2>1 DEF QuotaInv, CallParts
<1> QED  BY <1>3, <1>7

\* The invariant that bounds what a transaction has measured.
LEMMA QuotaSafe == Spec => []QuotaInv
BY QuotaInit, QuotaStep, PTL DEF Spec

LEMMA InvTyped == QuotaInv => TypeOK
<1> SUFFICES ASSUME QuotaInv PROVE TypeOK  OBVIOUS
<1>1. Shape /\ RowsFit(row) /\ NumbersFit  BY DEF QuotaInv, ReservationInv
<1>2. row \in [Jobs -> Row]
  <2>1. PICK O : row \in [Jobs -> RowWith(O)]  BY <1>1 DEF Shape
  <2>2. \A x \in Uploads : KeyFor(x) \in Keys
    BY ReservationAssumption DEF KeyFor, Keys, Contents
  <2>3. \A j \in Jobs : row[j] \in RowWith(O) /\ row[j].output \in Nat  BY <1>1, <2>1 DEF RowsFit
  <2>4. \A r \in RowWith(O) : r.output \in Nat => r \in Row  BY <2>2 DEF RowWith, Row
  <2> QED  BY <2>1, <2>3, <2>4
<1>3. call \in [Calls -> Call]
  <2>1. PICK U : call \in [Calls -> CallWith(U)]  BY <1>1 DEF Shape
  <2>2. \A c \in Calls : call[c] \in CallWith(U) /\ call[c].used \in Nat
    BY <1>1, <2>1 DEF NumbersFit
  <2>3. \A k \in CallWith(U) : k.used \in Nat => k \in Call  BY DEF CallWith, Call
  <2> QED  BY <2>1, <2>2, <2>3
<1> QED  BY <1>1, <1>2, <1>3 DEF TypeOK, Shape, NumbersFit

\* Every variable keeps its type; in particular the bytes a transaction has
\* summed, which are a fold over its user's rows, are a natural number
\* (reserve.ts:88-100).
THEOREM ReservationTyped == Spec => []TypeOK
BY QuotaSafe, InvTyped, PTL

\* Only the insert answers.
LEMMA CreatesIs ==
    ASSUME Shape, [Next]_vars, NEW c \in Calls, Creates(c)
    PROVE  Create(c) /\ ~Abandon(c)
<1>0. PICK U : call \in [Calls -> CallWith(U)]  BY DEF Shape
<1>1. call[c].pc = "create" /\ call'[c].pc = "answer"  BY DEF Creates
<1>2. ~Abandon(c)
  <2>1. Idle.pc = "idle"  BY DEF Idle
  <2> QED  BY <1>0, <1>1, <2>1 DEF Abandon
<1>3. call' # call  BY <1>1
<1>4. ASSUME NEW b \in Calls, b # c, call'[c] = call[c] PROVE FALSE  BY <1>1, <1>4
<1>5. ASSUME NEW b \in Calls, Step(b) \/ CallFails(b) PROVE Create(c)
  <2>1. CASE b = c
    BY <1>1, <1>2, <1>5, <2>1
    DEF Step, CallFails, Lock, Find, Reclaim, ReadUser, SumInFlight, SumSucceeded, CountInFlight, CountRecent, Answer
  <2>2. CASE b # c
    <3>1. call'[c] = call[c]
      BY <1>0, <1>5, <2>2
      DEF Step, CallFails, Lock, Find, Reclaim, ReadUser, SumInFlight, SumSucceeded,
          CountInFlight, CountRecent, Create, Answer, Abandon, Advance
    <3> QED  BY <1>1, <3>1
  <2> QED  BY <2>1, <2>2
<1>6. ASSUME NEW b \in Calls, NEW x \in Uploads, Receive(b, x) PROVE FALSE
  BY <1>0, <1>1, <1>6 DEF Receive, Idle
<1>7. ASSUME NEW j \in Jobs, Accept(j) \/ Succeed(j) \/ End(j) \/ DeadlinePasses(j) \/ HourPasses(j)
      PROVE  FALSE
  BY <1>3, <1>7 DEF Accept, Succeed, End, DeadlinePasses, HourPasses
<1>8. ASSUME NEW u \in Users, ChangeQuota(u) PROVE FALSE
  BY <1>3, <1>8 DEF ChangeQuota
<1>9. Next  BY <1>3 DEF vars
<1> QED  BY <1>2, <1>5, <1>6, <1>7, <1>8, <1>9 DEF Next

SumsAre ==
    \A u \in Users :
        /\ ReservedBytes(InFlight(u)) = Bytes(row, u, {})
        /\ OutputBytes(Results(u)) = Outputs(row, u)
        /\ Growth(Results(u)) = Excess(row, u)
        /\ InFlight(u) = Flying(row, u, {})
        /\ Recent(u) = Fresh(row, u)

LEMMA SumsHold == QuotaInv => SumsAre
BY SumsKnown DEF QuotaInv, SumsAre

\* What the insert leaves: the user's rows in flight are those that were
\* counted and the new one; the results are those that were there.
LEMMA CreateSums ==
    ASSUME QuotaInv, NEW c \in Calls, Create(c), ~Abandon(c), NEW u, u = UserOf(c)
    PROVE  /\ Cardinality(Flying(row', u, {})) <= call[c].quota.parallel
           /\ Bytes(row', u, {}) + Outputs(row', u) <= call[c].quota.storage + Excess(row', u)
           /\ Cardinality(Fresh(row', u)) <= call[c].quota.hourly
<1> DEFINE k == call[c]
           X == k.reclaimed
           size == Size[Content[k.upload]]
           F == Flying(row, u, X)
           D == Done(row, u)
<1>0. /\ Shape /\ UploadKnown /\ RowsFit(row) /\ ReclaimedSound /\ NumbersFit /\ Measured
  BY DEF QuotaInv, ReservationInv
<1>1. PICK j \in Jobs :
        /\ row[j].status = "absent"
        /\ row' = [i \in Jobs |-> IF i = j THEN NewRow(c)
                                  ELSE IF i \in X THEN Ended(row[i])
                                  ELSE row[i]]
        /\ RowsFit(row')
  BY <1>0, CreateRows
<1>2. PICK O : row \in [Jobs -> RowWith(O)]  BY <1>0 DEF Shape
<1>3. k.upload \in Uploads /\ k.pc = "create"  BY <1>0 DEF UploadKnown, Create
<1>4. u = Owner[k.upload] /\ u \in Users /\ size \in Nat
  BY <1>3, ReservationAssumption DEF UserOf
<1>5. \A i \in X : i \in Jobs /\ row[i].status = "uploading" /\ Owner[row[i].upload] = u
  BY <1>0 DEF ReclaimedSound, Of
<1>6. /\ row'[j].status = "uploading" /\ row'[j].upload = k.upload
      /\ row'[j].past = FALSE /\ row'[j].recent = TRUE
  BY <1>1 DEF NewRow
<1>7. \A i \in X : /\ row'[i].status = "ended" /\ row'[i].upload = row[i].upload
                   /\ row'[i].recent = row[i].recent
  <2> SUFFICES ASSUME NEW i \in X
               PROVE  /\ row'[i].status = "ended" /\ row'[i].upload = row[i].upload
                      /\ row'[i].recent = row[i].recent
    OBVIOUS
  <2>1. row'[i] = Ended(row[i]) /\ row[i] \in RowWith(O)  BY <1>1, <1>2, <1>5
  <2> QED  BY <2>1 DEF Ended, RowWith
<1>8. \A i \in Jobs \ (X \cup {j}) : row'[i] = row[i]  BY <1>1
<1>9. There(row', u) = There(row, u) \cup {j} /\ j \notin There(row, u)
  BY <1>1, <1>4, <1>5, <1>6, <1>7, <1>8 DEF There
<1>10. Flying(row', u, {}) = F \cup {j} /\ j \notin F
  BY <1>1, <1>5, <1>6, <1>7, <1>8, <1>9 DEF Flying, There
<1>11. Done(row', u) = D /\ \A i \in D : row'[i] = row[i]
  BY <1>1, <1>5, <1>6, <1>7, <1>8, <1>9 DEF Done, There
<1>12. Fresh(row', u) = Fresh(row, u) \cup {j} /\ j \notin Fresh(row, u)
  BY <1>1, <1>5, <1>6, <1>7, <1>8, <1>9 DEF Fresh, There
<1>13. /\ F \in SUBSET Jobs /\ IsFiniteSet(F) /\ D \in SUBSET Jobs /\ IsFiniteSet(D)
       /\ IsFiniteSet(Fresh(row, u)) /\ IsFiniteSet(Jobs)
  BY SetsFinite, ReservationAssumption
<1>14. k.quota.storage \in Nat /\ k.quota.parallel \in Nat /\ k.quota.hourly \in Nat
  <2>1. PICK U : call \in [Calls -> CallWith(U)]  BY <1>0 DEF Shape
  <2>2. k.quota \in Quotas  BY <2>1 DEF CallWith
  <2> QED  BY <2>2, ReservationAssumption
<1>15. /\ Bytes(row, u, X) + Outputs(row, u) + size <= k.quota.storage + Excess(row, u)
       /\ Cardinality(F) < k.quota.parallel
       /\ Cardinality(Fresh(row, u)) < k.quota.hourly
  <2>1. MeasuredBy(row, k)  BY <1>0 DEF Measured
  <2> QED  BY <1>3, <1>4, <2>1 DEF MeasuredBy
<1>16. Cardinality(F \cup {j}) <= k.quota.parallel
  <2>1. Cardinality(F \cup {j}) = Cardinality(F) + 1  BY <1>10, <1>13, FS_AddElement
  <2>2. Cardinality(F) \in Nat  BY <1>13, FS_CardinalityType
  <2> QED  BY <1>14, <1>15, <2>1, <2>2
<1>17. Cardinality(Fresh(row, u) \cup {j}) <= k.quota.hourly
  <2>1. Cardinality(Fresh(row, u) \cup {j}) = Cardinality(Fresh(row, u)) + 1  BY <1>12, <1>13, FS_AddElement
  <2>2. Cardinality(Fresh(row, u)) \in Nat  BY <1>13, FS_CardinalityType
  <2> QED  BY <1>14, <1>15, <2>1, <2>2
<1>18. Bytes(row', u, {}) = size + Bytes(row, u, X)
  <2> DEFINE a == ReservedOf(row)
             b == ReservedOf(row')
             G == F \cup {j}
  <2>1. \A i \in Jobs : b[i] \in Nat  BY <1>1, RowData
  <2>2. b[j] = size  BY <1>6 DEF ReservedOf
  <2>3. \A i \in F : b[i] = a[i]
    <3>1. \A i \in F : i \in Jobs /\ i \notin X /\ i # j  BY <1>10, <1>13 DEF Flying
    <3> QED  BY <1>8, <3>1 DEF ReservedOf
  <2>4. Bytes(row', u, {}) = Total(b, G)  BY <1>10 DEF Bytes
  <2>5. Bytes(row, u, X) = Total(a, F)  BY DEF Bytes
  <2> HIDE DEF a, b, F
  <2>6. G \in SUBSET Jobs /\ j \in G /\ G \ {j} = F  BY <1>10, <1>13
  <2> HIDE DEF G
  <2>7. Total(b, G) = b[j] + Total(b, F)  BY <1>13, <2>1, <2>6, TotalWithout
  <2>8. Total(b, F) = Total(a, F)  BY <1>13, <2>3, TotalSame
  <2> QED  BY <2>2, <2>4, <2>5, <2>7, <2>8
<1>19. Outputs(row', u) = Outputs(row, u)
  <2>1. \A i \in D : OutputOf(row')[i] = OutputOf(row)[i]  BY <1>11, <1>13 DEF OutputOf
  <2> QED  BY <1>11, <1>13, <2>1, TotalSame DEF Outputs
<1>20. Excess(row', u) = Excess(row, u)
  <2>1. \A i \in D : GrowthOf(row')[i] = GrowthOf(row)[i]
    BY <1>11, <1>13 DEF GrowthOf, ReservedOf
  <2> QED  BY <1>11, <1>13, <2>1, TotalSame DEF Excess
<1>21. Bytes(row, u, X) \in Nat /\ Outputs(row, u) \in Nat /\ Excess(row, u) \in Nat
  BY <1>0, SumsNat
<1>22. Bytes(row', u, {}) + Outputs(row', u) <= k.quota.storage + Excess(row', u)
  <2> HIDE DEF k, X, size, F, D
  <2> QED  BY <1>4, <1>14, <1>15, <1>18, <1>19, <1>20, <1>21
<1> QED  BY <1>10, <1>12, <1>16, <1>17, <1>22

\* A reservation keeps its user within all three quotas it read, whatever
\* ends, succeeds, expires or is reserved by others between its statements
\* (reserve.ts:88-132).
THEOREM ReservationsWithinQuota == Spec => ReservedWithinQuota
<1>1. SumsAre /\ SumsAre' /\ QuotaInv /\ [Next]_vars =>
        [\A c \in Calls, u \in Users : Creates(c) /\ u = UserOf(c) =>
            /\ Cardinality(InFlight(u)') <= call[c].quota.parallel
            /\ (ReservedBytes(InFlight(u)) + OutputBytes(Results(u)))'
                  <= call[c].quota.storage + Growth(Results(u))'
            /\ Cardinality(Recent(u)') <= call[c].quota.hourly]_vars
  <2> SUFFICES ASSUME SumsAre', QuotaInv, [Next]_vars,
                      NEW c \in Calls, NEW u \in Users, Creates(c), u = UserOf(c)
               PROVE  /\ Cardinality(InFlight(u)') <= call[c].quota.parallel
                      /\ (ReservedBytes(InFlight(u)) + OutputBytes(Results(u)))'
                            <= call[c].quota.storage + Growth(Results(u))'
                      /\ Cardinality(Recent(u)') <= call[c].quota.hourly
    OBVIOUS
  <2>1. Create(c) /\ ~Abandon(c)  BY CreatesIs DEF QuotaInv, ReservationInv
  <2>2. /\ Cardinality(Flying(row', u, {})) <= call[c].quota.parallel
        /\ Bytes(row', u, {}) + Outputs(row', u) <= call[c].quota.storage + Excess(row', u)
        /\ Cardinality(Fresh(row', u)) <= call[c].quota.hourly
    BY <2>1, CreateSums
  <2>3. /\ ReservedBytes(InFlight(u))' = Bytes(row', u, {})
        /\ OutputBytes(Results(u))' = Outputs(row', u)
        /\ Growth(Results(u))' = Excess(row', u)
        /\ InFlight(u)' = Flying(row', u, {})
        /\ Recent(u)' = Fresh(row', u)
    BY DEF SumsAre
  <2> QED  BY <2>2, <2>3
<1>2. []QuotaInv => []SumsAre  BY SumsHold, PTL
<1> QED  BY <1>1, <1>2, QuotaSafe, PTL DEF Spec, ReservedWithinQuota

=============================================================================
