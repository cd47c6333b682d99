----------------------- MODULE Argon2SemaphoreProofs -----------------------
(***************************************************************************)
(* The semaphore loses and doubles no permit, whatever the number of tasks *)
(* and permits and in whatever order tasks end, timers fire and processes  *)
(* restart.  The invariant is inductive as it stands, with the types: that *)
(* the queue names each waiter once is what keeps a permit that is handed  *)
(* on from being given to a task that was rejected.                        *)
(***************************************************************************)
EXTENDS Argon2Semaphore, FiniteSetTheorems, SequenceTheorems, TLAPS

\* What is assumed of the constants.
Finite == SemaphoreConstants /\ IsFiniteSet(Tasks)

Inv == TypeOK /\ SemaphoreInv

-----------------------------------------------------------------------------
(* Facts about the queue and the tasks that run.                           *)

\* The tasks that run are finitely many.
LEMMA RunningFinite ==
    ASSUME Finite
    PROVE  IsFiniteSet(Running) /\ Cardinality(Running) \in Nat
<1>1. Running \in SUBSET Tasks  BY DEF Running
<1>2. IsFiniteSet(Running)  BY <1>1, FS_Subset DEF Finite
<1> QED  BY <1>2, FS_CardinalityType

\* A task that starts makes one more.
LEMMA OneStarts ==
    ASSUME Finite, NEW t \in Tasks, t \notin Running
    PROVE  Cardinality(Running \cup {t}) = Cardinality(Running) + 1
BY RunningFinite, FS_AddElement

\* The task that ends has a permit to give back.
LEMMA OneEnds ==
    ASSUME Finite, NEW t \in Running
    PROVE  /\ Cardinality(Running \ {t}) = Cardinality(Running) - 1
           /\ Cardinality(Running) - 1 \in Nat
<1>1. Cardinality(Running \ {t}) = Cardinality(Running) - 1
  BY RunningFinite, FS_RemoveElement
<1>2. IsFiniteSet(Running \ {t})  BY RunningFinite, FS_RemoveElement
<1> QED  BY <1>1, <1>2, FS_CardinalityType

\* A permit that is handed on: as many run as before.
LEMMA OneForAnother ==
    ASSUME Finite, NEW t \in Running, NEW h \in Tasks \ Running
    PROVE  Cardinality((Running \ {t}) \cup {h}) = Cardinality(Running)
<1>1. IsFiniteSet(Running \ {t})  BY RunningFinite, FS_RemoveElement
<1>2. Cardinality((Running \ {t}) \cup {h}) = Cardinality(Running \ {t}) + 1
  BY <1>1, FS_AddElement
<1> QED  BY <1>2, OneEnds, RunningFinite

\* What stood before index i and what stood after it, joined.
LEMMA JoinedAround ==
    ASSUME NEW w \in Seq(Tasks), NEW i \in 1 .. Len(w), NEW a \in Seq(Tasks), NEW b \in Seq(Tasks),
           Len(a) = i - 1, \A k \in 1 .. i - 1 : a[k] = w[k],
           Len(b) = Len(w) - i, \A k \in 1 .. Len(w) - i : b[k] = w[k + i]
    PROVE  /\ a \o b \in Seq(Tasks)
           /\ Len(a \o b) = Len(w) - 1
           /\ \A k \in 1 .. Len(w) - 1 : (a \o b)[k] = IF k < i THEN w[k] ELSE w[k + 1]
<1>1. i \in Nat /\ Len(w) \in Nat /\ i <= Len(w) /\ i >= 1  OBVIOUS
<1>2. /\ a \o b \in Seq(Tasks)
      /\ Len(a \o b) = Len(a) + Len(b)
      /\ \A k \in 1 .. Len(a) + Len(b) :
             (a \o b)[k] = IF k <= Len(a) THEN a[k] ELSE b[k - Len(a)]
  BY ConcatProperties, Zenon
<1>3. Len(a) + Len(b) = Len(w) - 1  BY <1>1
<1>4. ASSUME NEW k \in 1 .. Len(w) - 1
      PROVE  (a \o b)[k] = IF k < i THEN w[k] ELSE w[k + 1]
  <2>1. (a \o b)[k] = IF k <= i - 1 THEN a[k] ELSE b[k - (i - 1)]  BY <1>2, <1>3, Zenon
  <2>2. CASE k < i
    <3>1. k \in 1 .. i - 1 /\ k <= i - 1  BY <1>1, <2>2
    <3> QED  BY <2>1, <2>2, <3>1, Zenon
  <2>3. CASE ~(k < i)
    <3>1. k - (i - 1) \in 1 .. Len(w) - i /\ ~(k <= i - 1) /\ (k - (i - 1)) + i = k + 1
      BY <1>1, <2>3
    <3>2. b[k - (i - 1)] = w[(k - (i - 1)) + i]  BY <3>1, Zenon
    <3> QED  BY <2>1, <2>3, <3>1, <3>2, Zenon
  <2> QED  BY <2>2, <2>3
<1> QED  BY <1>2, <1>3, <1>4, Zenon

\* splice(i, 1) moves what comes after i by one.
LEMMA SpliceMoves ==
    ASSUME NEW w \in Seq(Tasks), NEW i \in DOMAIN w,
           NEW v, v = SubSeq(w, 1, i - 1) \o SubSeq(w, i + 1, Len(w))
    PROVE  /\ v \in Seq(Tasks)
           /\ Len(v) = Len(w) - 1
           /\ \A k \in 1 .. Len(v) : v[k] = IF k < i THEN w[k] ELSE w[k + 1]
<1> DEFINE a == SubSeq(w, 1, i - 1)
           b == SubSeq(w, i + 1, Len(w))
<1>1. i \in 1 .. Len(w) /\ Len(w) \in Nat  OBVIOUS
<1>2. a \in Seq(Tasks) /\ Len(a) = i - 1 /\ \A k \in 1 .. i - 1 : a[k] = w[k]  BY <1>1
<1>3. b \in Seq(Tasks) /\ Len(b) = Len(w) - i /\ \A k \in 1 .. Len(w) - i : b[k] = w[k + i]
  BY <1>1
<1>4. v = a \o b  OBVIOUS
<1> HIDE DEF a, b
<1>5. /\ a \o b \in Seq(Tasks)
      /\ Len(a \o b) = Len(w) - 1
      /\ \A k \in 1 .. Len(w) - 1 : (a \o b)[k] = IF k < i THEN w[k] ELSE w[k + 1]
  BY <1>1, <1>2, <1>3, JoinedAround, Zenon
<1> QED  BY <1>4, <1>5, Zenon

-----------------------------------------------------------------------------
(* One lemma per step.                                                     *)

\* A task takes a permit, or its name joins the end of the queue.
LEMMA RunStep ==
    ASSUME Finite, Inv, NEW t \in Tasks, Run(t)
    PROVE  Inv'
<1> DEFINE w == sem.waiters
<1>1. /\ sem.active \in Nat /\ w \in Seq(Tasks) /\ MaxConcurrent \in Nat
      /\ sem.active = Cardinality(Running) /\ sem.active <= MaxConcurrent
      /\ w # <<>> => sem.active = MaxConcurrent
  BY DEF Inv, TypeOK, SemaphoreInv, PermitsConserved, NoIdlePermit, Finite, SemaphoreConstants
<1>2. QueueIsWaiters  BY DEF Inv, SemaphoreInv
<1>3. phase \in [Tasks -> {"new", "waiting", "running", "done", "rejected", "lost"}]
      /\ sem \in [active : Nat, waiters : Seq(Tasks)]
  BY DEF Inv, TypeOK
<1>4. phase[t] = "new"  BY DEF Run
<1>5. \A i \in 1 .. Len(w) : w[i] \in Tasks /\ w[i] # t
  BY <1>1, <1>2, <1>4 DEF QueueIsWaiters
<1>6. CASE HasPermit(sem)
  <2>1. /\ sem' = [sem EXCEPT !.active = @ + 1]
        /\ phase' = [phase EXCEPT ![t] = "running"]
    BY <1>6 DEF Run, Enter
  <2>2. w = <<>>  BY <1>1, <1>6 DEF HasPermit
  <2>3. sem'.active = sem.active + 1 /\ sem'.waiters = <<>>  BY <1>3, <2>1, <2>2
  <2>4. Running' = Running \cup {t}  BY <1>3, <2>1 DEF Running
  <2>5. t \notin Running  BY <1>4 DEF Running
  <2>6. PermitsConserved'
    <3>1. Cardinality(Running') = Cardinality(Running) + 1  BY <2>4, <2>5, OneStarts
    <3>2. sem.active + 1 <= MaxConcurrent  BY <1>1, <1>6 DEF HasPermit
    <3> QED  BY <1>1, <2>3, <3>1, <3>2 DEF PermitsConserved
  <2>7. QueueIsWaiters'
    <3>1. \A x \in Tasks : phase'[x] # "waiting"
      BY <1>2, <1>3, <2>1, <2>2 DEF QueueIsWaiters
    <3> QED  BY <2>3, <3>1 DEF QueueIsWaiters
  <2>8. NoIdlePermit'  BY <2>3 DEF NoIdlePermit
  <2>9. TypeOK'  BY <1>1, <1>3, <2>1 DEF TypeOK
  <2> QED  BY <2>6, <2>7, <2>8, <2>9 DEF Inv, SemaphoreInv
<1>7. CASE ~HasPermit(sem)
  <2>1. /\ sem' = [sem EXCEPT !.waiters = Append(@, t)]
        /\ phase' = [phase EXCEPT ![t] = "waiting"]
    BY <1>7 DEF Run, Enter
  <2>0. w \in Seq(Tasks) /\ Append(w, t) \in Seq(Tasks)  BY <1>1, AppendProperties
  <2>2. sem.active = MaxConcurrent  BY <1>1, <1>7 DEF HasPermit
  <2>3. sem'.active = sem.active /\ sem'.waiters = Append(w, t)  BY <1>3, <2>1
  <2>4. Running' = Running  BY <1>3, <1>4, <2>1 DEF Running
  <2>5. PermitsConserved'  BY <1>1, <2>3, <2>4 DEF PermitsConserved
  <2>6. QueueIsWaiters'
    <3> DEFINE v == Append(w, t)
    <3>1. /\ DOMAIN v = 1 .. Len(w) + 1 /\ DOMAIN w = 1 .. Len(w) /\ Len(w) \in Nat
          /\ v[Len(w) + 1] = t
          /\ \A i \in 1 .. Len(w) : v[i] = w[i]
      BY <1>1, <2>0, AppendProperties, LenProperties
    <3>2. phase'[t] = "waiting" /\ \A x \in Tasks : x # t => phase'[x] = phase[x]
      BY <1>3, <2>1
    <3>3. sem'.waiters = v  BY <2>3
    <3> HIDE DEF v
    <3>4. \A i \in 1 .. Len(w) : phase[w[i]] = "waiting"  BY <1>2, <3>1 DEF QueueIsWaiters
    <3>5. ASSUME NEW i \in DOMAIN v PROVE phase'[v[i]] = "waiting"
      <4>1. CASE i = Len(w) + 1  BY <3>1, <3>2, <4>1
      <4>2. CASE i \in 1 .. Len(w)  BY <1>5, <3>1, <3>2, <3>4, <4>2
      <4> QED  BY <3>1, <4>1, <4>2
    <3>6. ASSUME NEW x \in Tasks, phase'[x] = "waiting" PROVE \E i \in DOMAIN v : v[i] = x
      <4>1. CASE x = t  BY <3>1, <4>1
      <4>2. CASE x # t
        <5>1. PICK i \in DOMAIN w : w[i] = x  BY <1>2, <3>2, <3>6, <4>2 DEF QueueIsWaiters
        <5> QED  BY <3>1, <5>1
      <4> QED  BY <4>1, <4>2
    <3>7. ASSUME NEW i \in DOMAIN v, NEW j \in DOMAIN v, v[i] = v[j] PROVE i = j
      <4>1. CASE i \in 1 .. Len(w) /\ j \in 1 .. Len(w)
        BY <1>2, <3>1, <3>7, <4>1 DEF QueueIsWaiters
      <4>2. CASE i = Len(w) + 1 \/ j = Len(w) + 1  BY <1>5, <3>1, <3>7, <4>2
      <4> QED  BY <3>1, <4>1, <4>2
    <3> QED  BY <3>3, <3>5, <3>6, <3>7 DEF QueueIsWaiters
  <2>7. NoIdlePermit'  BY <2>2, <2>3 DEF NoIdlePermit
  <2>8. TypeOK'  BY <1>3, <2>0, <2>1 DEF TypeOK
  <2> QED  BY <2>5, <2>6, <2>7, <2>8 DEF Inv, SemaphoreInv
<1> QED  BY <1>6, <1>7

\* A permit goes back, or on to the first waiter.
LEMMA FinishStep ==
    ASSUME Finite, Inv, NEW t \in Tasks, Finish(t)
    PROVE  Inv'
<1> DEFINE w == sem.waiters
<1>1. /\ sem.active \in Nat /\ w \in Seq(Tasks) /\ MaxConcurrent \in Nat
      /\ sem.active = Cardinality(Running) /\ sem.active <= MaxConcurrent
      /\ w # <<>> => sem.active = MaxConcurrent
  BY DEF Inv, TypeOK, SemaphoreInv, PermitsConserved, NoIdlePermit, Finite, SemaphoreConstants
<1>2. QueueIsWaiters  BY DEF Inv, SemaphoreInv
<1>3. phase \in [Tasks -> {"new", "waiting", "running", "done", "rejected", "lost"}]
      /\ sem \in [active : Nat, waiters : Seq(Tasks)]
  BY DEF Inv, TypeOK
<1>4. t \in Running /\ phase[t] = "running"  BY DEF Finish, Running
<1>5. CASE w = <<>>
  <2>1. /\ sem' = [sem EXCEPT !.active = @ - 1]
        /\ phase' = [phase EXCEPT ![t] = "done"]
    BY <1>5 DEF Finish, Leave
  <2>2. sem'.active = sem.active - 1 /\ sem'.waiters = <<>>  BY <1>3, <1>5, <2>1
  <2>3. Running' = Running \ {t}  BY <1>3, <2>1 DEF Running
  <2>4. sem.active - 1 \in Nat /\ Cardinality(Running') = sem.active - 1
    BY <1>1, <1>4, <2>3, OneEnds
  <2>5. PermitsConserved'  BY <1>1, <2>2, <2>4 DEF PermitsConserved
  <2>6. QueueIsWaiters'
    <3>1. \A x \in Tasks : phase'[x] # "waiting"
      BY <1>2, <1>3, <1>5, <2>1 DEF QueueIsWaiters
    <3> QED  BY <2>2, <3>1 DEF QueueIsWaiters
  <2>7. NoIdlePermit'  BY <2>2 DEF NoIdlePermit
  <2>8. TypeOK'  BY <1>1, <1>3, <2>1, <2>4 DEF TypeOK
  <2> QED  BY <2>5, <2>6, <2>7, <2>8 DEF Inv, SemaphoreInv
<1>6. CASE w # <<>>
  <2> DEFINE h == Head(w)
  <2>1. /\ sem' = [sem EXCEPT !.waiters = Tail(@)]
        /\ phase' = [phase EXCEPT ![t] = "done", ![h] = "running"]
    BY <1>6 DEF Finish, Leave
  <2>2. h \in Tasks /\ 1 \in DOMAIN w /\ h = w[1]  BY <1>1, <1>6
  <2>3. phase[h] = "waiting" /\ h # t  BY <1>2, <1>4, <2>2 DEF QueueIsWaiters
  <2> HIDE DEF h
  <2>4. sem'.active = sem.active /\ sem'.waiters = Tail(w)  BY <1>3, <2>1
  <2>5. Running' = (Running \ {t}) \cup {h}  BY <1>3, <2>1, <2>2, <2>3 DEF Running
  <2>6. h \in Tasks \ Running  BY <2>2, <2>3 DEF Running
  <2>7. PermitsConserved'
    <3>1. Cardinality(Running') = Cardinality(Running)
      BY <1>4, <2>5, <2>6, OneForAnother
    <3> QED  BY <1>1, <2>4, <3>1 DEF PermitsConserved
  <2>8. QueueIsWaiters'
    <3> DEFINE v == Tail(w)
    <3>1. DOMAIN v = 1 .. Len(w) - 1 /\ \A i \in 1 .. Len(w) - 1 : v[i] = w[i + 1]
      BY <1>1, <1>6
    <3>2. \A i \in 1 .. Len(w) - 1 : w[i + 1] # h
      BY <1>1, <1>2, <2>2 DEF QueueIsWaiters
    <3>3. \A x \in Tasks : phase'[x] = IF x = h THEN "running" ELSE IF x = t THEN "done" ELSE phase[x]
      BY <1>3, <2>1, <2>2, <2>3
    <3> HIDE DEF v
    <3>4. \A i \in DOMAIN v : phase'[v[i]] = "waiting"
      <4> SUFFICES ASSUME NEW i \in 1 .. Len(w) - 1 PROVE phase'[w[i + 1]] = "waiting"
        BY <3>1
      <4>1. i + 1 \in DOMAIN w /\ w[i + 1] \in Tasks  BY <1>1
      <4>2. phase[w[i + 1]] = "waiting"  BY <1>2, <4>1 DEF QueueIsWaiters
      <4> QED  BY <1>4, <3>2, <3>3, <4>1, <4>2
    <3>5. ASSUME NEW x \in Tasks, phase'[x] = "waiting"
          PROVE  \E i \in DOMAIN v : v[i] = x
      <4>1. phase[x] = "waiting" /\ x # h  BY <3>3, <3>5
      <4>2. PICK k \in DOMAIN w : w[k] = x  BY <1>2, <4>1 DEF QueueIsWaiters
      <4>3. k # 1 /\ k \in 1 .. Len(w) /\ Len(w) \in Nat  BY <1>1, <2>2, <4>1, <4>2
      <4>4. k - 1 \in 1 .. Len(w) - 1 /\ (k - 1) + 1 = k  BY <4>3
      <4>5. v[k - 1] = x  BY <3>1, <4>2, <4>4
      <4> QED  BY <3>1, <4>4, <4>5
    <3>6. ASSUME NEW i \in DOMAIN v, NEW j \in DOMAIN v, v[i] = v[j] PROVE i = j
      <4>1. i + 1 \in DOMAIN w /\ j + 1 \in DOMAIN w  BY <1>1, <3>1
      <4>2. i + 1 = j + 1  BY <1>2, <3>1, <3>6, <4>1 DEF QueueIsWaiters
      <4> QED  BY <3>1, <4>2
    <3>7. sem'.waiters = v  BY <2>4 DEF v
    <3> QED  BY <3>4, <3>5, <3>6, <3>7 DEF QueueIsWaiters
  <2>9. NoIdlePermit'  BY <1>1, <1>6, <2>4 DEF NoIdlePermit
  <2>10. Tail(w) \in Seq(Tasks)  BY <1>1, <1>6, HeadTailProperties
  <2>11. TypeOK'  BY <1>3, <2>1, <2>10 DEF TypeOK
  <2> QED  BY <2>7, <2>8, <2>9, <2>11 DEF Inv, SemaphoreInv
<1> QED  BY <1>5, <1>6

\* A rejected waiter leaves the queue, and no permit moves.
LEMMA TimeOutStep ==
    ASSUME Finite, Inv, NEW t \in Tasks, TimeOut(t)
    PROVE  Inv'
<1> DEFINE w == sem.waiters
<1>1. /\ sem.active \in Nat /\ w \in Seq(Tasks) /\ MaxConcurrent \in Nat
      /\ sem.active = Cardinality(Running) /\ sem.active <= MaxConcurrent
      /\ w # <<>> => sem.active = MaxConcurrent
  BY DEF Inv, TypeOK, SemaphoreInv, PermitsConserved, NoIdlePermit, Finite, SemaphoreConstants
<1>2. QueueIsWaiters  BY DEF Inv, SemaphoreInv
<1>3. phase \in [Tasks -> {"new", "waiting", "running", "done", "rejected", "lost"}]
      /\ sem \in [active : Nat, waiters : Seq(Tasks)]
  BY DEF Inv, TypeOK
<1>4. phase[t] = "waiting" /\ phase' = [phase EXCEPT ![t] = "rejected"]  BY DEF TimeOut
<1>5. PICK p \in DOMAIN w : w[p] = t /\ sem' = Spliced(sem, p)  BY DEF TimeOut
<1> DEFINE v == SubSeq(w, 1, p - 1) \o SubSeq(w, p + 1, Len(w))
<1>6. sem'.active = sem.active /\ sem'.waiters = v /\ sem' = [sem EXCEPT !.waiters = v]
  BY <1>3, <1>5 DEF Spliced
<1>7. /\ v \in Seq(Tasks)
      /\ Len(v) = Len(w) - 1
      /\ \A k \in 1 .. Len(v) : v[k] = IF k < p THEN w[k] ELSE w[k + 1]
  BY <1>1, SpliceMoves
<1> HIDE DEF v
<1>8. p \in 1 .. Len(w) /\ Len(w) \in Nat  BY <1>1, <1>5
<1>9. \A x \in Tasks : phase'[x] = IF x = t THEN "rejected" ELSE phase[x]  BY <1>3, <1>4
<1>10. Running' = Running  BY <1>3, <1>4 DEF Running
<1>11. PermitsConserved'  BY <1>1, <1>6, <1>10 DEF PermitsConserved
<1>12. QueueIsWaiters'
  <2> DEFINE At(k) == IF k < p THEN k ELSE k + 1
  <2>1. \A k \in 1 .. Len(v) : At(k) \in DOMAIN w /\ At(k) # p /\ v[k] = w[At(k)]
    BY <1>1, <1>7, <1>8
  <2>2. \A k, m \in 1 .. Len(v) : At(k) = At(m) => k = m  BY <1>7, <1>8
  <2>3. \A i \in DOMAIN w : i # p => \E k \in 1 .. Len(v) : At(k) = i
    <3> TAKE i \in DOMAIN w
    <3> HAVE i # p
    <3>1. i \in 1 .. Len(w)  BY <1>1
    <3>2. CASE i < p  BY <1>7, <1>8, <3>1, <3>2
    <3>3. CASE i > p
      <4>1. i - 1 \in 1 .. Len(v) /\ At(i - 1) = i  BY <1>7, <1>8, <3>1, <3>3
      <4> QED  BY <4>1
    <3> QED  BY <1>8, <3>1, <3>2, <3>3
  <2>4. DOMAIN v = 1 .. Len(v)  BY <1>7
  <2> HIDE DEF At
  <2>5. \A i \in DOMAIN w : i # p => w[i] # t /\ w[i] \in Tasks /\ phase[w[i]] = "waiting"
    BY <1>1, <1>2, <1>5 DEF QueueIsWaiters
  <2>6. \A k \in 1 .. Len(v) : phase'[v[k]] = "waiting"  BY <1>9, <2>1, <2>5
  <2>7. ASSUME NEW x \in Tasks, phase'[x] = "waiting"
        PROVE  \E k \in 1 .. Len(v) : v[k] = x
    <3>1. phase[x] = "waiting" /\ x # t  BY <1>9, <2>7
    <3>2. PICK i \in DOMAIN w : w[i] = x  BY <1>2, <3>1 DEF QueueIsWaiters
    <3>3. i # p  BY <1>5, <3>1, <3>2
    <3> QED  BY <2>1, <2>3, <3>2, <3>3
  <2>8. ASSUME NEW k \in 1 .. Len(v), NEW m \in 1 .. Len(v), v[k] = v[m] PROVE k = m
    <3>1. At(k) = At(m)  BY <1>2, <2>1, <2>8 DEF QueueIsWaiters
    <3> QED  BY <2>2, <3>1
  <2> QED  BY <1>6, <2>4, <2>6, <2>7, <2>8 DEF QueueIsWaiters
<1>13. w # <<>>  BY <1>8
<1>14. NoIdlePermit'  BY <1>1, <1>6, <1>13 DEF NoIdlePermit
<1>15. TypeOK'  BY <1>3, <1>4, <1>6, <1>7 DEF TypeOK
<1> QED  BY <1>11, <1>12, <1>14, <1>15 DEF Inv, SemaphoreInv

\* A new object, and no task that knows it: the invariant needs no history.
LEMMA FreshObject ==
    ASSUME Finite, sem = NoPermits, \A t \in Tasks : phase[t] \notin {"waiting", "running"}
    PROVE  SemaphoreInv
<1>1. sem.active = 0 /\ sem.waiters = <<>>  BY DEF NoPermits
<1>2. Running = {}  BY DEF Running
<1>3. Cardinality(Running) = 0  BY <1>2, FS_EmptySet
<1>4. MaxConcurrent \in Nat  BY DEF Finite, SemaphoreConstants
<1> QED
  BY <1>1, <1>3, <1>4 DEF SemaphoreInv, PermitsConserved, QueueIsWaiters, NoIdlePermit

\* What a restart leaves is a fresh object.
LEMMA RestartStep ==
    ASSUME Finite, Inv, Restart
    PROVE  Inv'
<1>1. sem' = NoPermits  BY DEF Restart
<1>2. PICK early \in SUBSET {t \in Tasks : phase[t] = "new"} :
          phase' = [t \in Tasks |->
              IF t \in early \/ phase[t] \in {"waiting", "running"} THEN "lost" ELSE phase[t]]
  BY DEF Restart
<1>3. \A t \in Tasks : phase'[t] \notin {"waiting", "running"}  BY <1>2
<1>4. sem'.active = 0 /\ sem'.waiters = <<>>  BY <1>1 DEF NoPermits
<1>5. Running' = {}  BY <1>3 DEF Running
<1>6. Cardinality(Running') = 0  BY <1>5, FS_EmptySet
<1>7. MaxConcurrent \in Nat  BY DEF Finite, SemaphoreConstants
<1>8. SemaphoreInv'
  BY <1>3, <1>4, <1>6, <1>7 DEF SemaphoreInv, PermitsConserved, QueueIsWaiters, NoIdlePermit
<1>9. TypeOK'  BY <1>1, <1>2 DEF TypeOK, NoPermits, Inv
<1> QED  BY <1>8, <1>9 DEF Inv

-----------------------------------------------------------------------------

\* The invariant holds in the beginning and over every step; SignIn's requests
\* use two semaphores, and its proofs take these facts from here.
LEMMA InvHolds ==
    ASSUME Finite
    PROVE  (Init => Inv) /\ (Inv /\ [Next]_vars => Inv')
<1>1. Init => Inv
  <2> SUFFICES ASSUME Init PROVE Inv  OBVIOUS
  <2>1. sem = NoPermits /\ \A t \in Tasks : phase[t] \notin {"waiting", "running"}  BY DEF Init
  <2>2. SemaphoreInv  BY <2>1, FreshObject
  <2>3. TypeOK  BY DEF Init, TypeOK, NoPermits
  <2> QED  BY <2>2, <2>3 DEF Inv
<1>2. Inv /\ [Next]_vars => Inv'
  <2> SUFFICES ASSUME Inv, [Next]_vars PROVE Inv'  OBVIOUS
  <2>1. CASE UNCHANGED vars
    BY <2>1 DEF vars, Inv, TypeOK, SemaphoreInv, PermitsConserved, QueueIsWaiters,
                NoIdlePermit, Running
  <2>2. ASSUME NEW t \in Tasks, Run(t) PROVE Inv'  BY <2>2, RunStep
  <2>3. ASSUME NEW t \in Tasks, Finish(t) PROVE Inv'  BY <2>3, FinishStep
  <2>4. ASSUME NEW t \in Tasks, TimeOut(t) PROVE Inv'  BY <2>4, TimeOutStep
  <2>5. CASE Restart  BY <2>5, RestartStep
  <2> QED  BY <2>1, <2>2, <2>3, <2>4, <2>5 DEF Next
<1> QED  BY <1>1, <1>2

\* active counts exactly the hashes that run and never exceeds the limit, the
\* queue names exactly the tasks that wait, and nobody waits next to a free
\* permit: for any number of calls of run(), however they end, time out or are
\* cut off by a restart (argon2-semaphore.ts:31-76).
THEOREM SemaphoreSafe ==
    ASSUME Finite
    PROVE  Spec => []SemaphoreInv
<1>1. Inv => SemaphoreInv  BY DEF Inv
<1> QED  BY <1>1, InvHolds, PTL DEF Spec

=============================================================================
