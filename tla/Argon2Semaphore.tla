-------------------------- MODULE Argon2Semaphore --------------------------
(***************************************************************************)
(* The semaphore in front of argon2: at most MaxConcurrent hashes run, the *)
(* others wait in order until a permit is handed on to them or their timer *)
(* rejects them.  run() and release() are synchronous around the task, so  *)
(* each is one step; what interleaves is the end of tasks and the timers.  *)
(***************************************************************************)
EXTENDS Naturals, Sequences, FiniteSets

CONSTANTS
    Tasks,         \* calls of run()
    MaxConcurrent  \* the constructor's argument

\* The constructor throws for less than one permit: what every result about
\* the semaphore assumes of its argument.
SemaphoreConstants == MaxConcurrent \in Nat \ {0}

VARIABLES
    sem,    \* the object: active permits and the queue of waiters
    phase   \* what has become of each task

vars == <<sem, phase>>

NoPermits == [active |-> 0, waiters |-> <<>>]

TypeOK ==
    /\ sem \in [active : Nat, waiters : Seq(Tasks)]
    /\ phase \in [Tasks -> {"new", "waiting", "running", "done", "rejected", "lost"}]

Init ==
    /\ sem = NoPermits
    /\ phase = [t \in Tasks |-> "new"]

-----------------------------------------------------------------------------

HasPermit(s) == s.active < MaxConcurrent

\* run(): take a permit, or join the waiters with a timer.
Enter(s, t) ==
    IF HasPermit(s) THEN [s EXCEPT !.active = @ + 1] ELSE [s EXCEPT !.waiters = Append(@, t)]

\* release(): the permit goes back, and the first waiter takes it again.
Leave(s) ==
    IF s.waiters = <<>>
    THEN [s EXCEPT !.active = @ - 1]
    ELSE [s EXCEPT !.waiters = Tail(@)]

\* waiters.splice(i, 1)
Spliced(s, i) ==
    [s EXCEPT !.waiters = SubSeq(@, 1, i - 1) \o SubSeq(@, i + 1, Len(@))]

Run(t) ==
    /\ phase[t] = "new"
    /\ sem' = Enter(sem, t)
    /\ phase' = [phase EXCEPT ![t] = IF HasPermit(sem) THEN "running" ELSE "waiting"]

\* The task's promise settles, one way or the other.
Finish(t) ==
    /\ phase[t] = "running"
    /\ sem' = Leave(sem)
    /\ phase' = IF sem.waiters = <<>>
                THEN [phase EXCEPT ![t] = "done"]
                ELSE [phase EXCEPT ![t] = "done", ![Head(sem.waiters)] = "running"]

\* The timer finds its waiter still queued.
TimeOut(t) ==
    /\ phase[t] = "waiting"
    /\ \E i \in DOMAIN sem.waiters :
        /\ sem.waiters[i] = t
        /\ sem' = Spliced(sem, i)
    /\ phase' = [phase EXCEPT ![t] = "rejected"]

\* The process restarts with a new object.  What was in flight is lost, and
\* so are the callers that had not come to run() yet.
Restart ==
    /\ sem' = NoPermits
    /\ \E early \in SUBSET {t \in Tasks : phase[t] = "new"} :
           phase' = [t \in Tasks |->
               IF t \in early \/ phase[t] \in {"waiting", "running"} THEN "lost" ELSE phase[t]]

Next ==
    \/ \E t \in Tasks : Run(t) \/ Finish(t) \/ TimeOut(t)
    \/ Restart

Spec == Init /\ [][Next]_vars

-----------------------------------------------------------------------------
(* Properties.                                                             *)

Running == {t \in Tasks : phase[t] = "running"}

\* active counts the tasks that run, and they are never more than the
\* permits: run() and release() both increment it, and a permit handed to a
\* waiter is neither lost nor doubled (argon2-semaphore.ts:60).
PermitsConserved ==
    /\ sem.active = Cardinality(Running)
    /\ sem.active <= MaxConcurrent

\* The queue holds every waiting task once and nobody else: a timer that
\* fires after the permit was handed on finds nothing to reject.
QueueIsWaiters ==
    /\ \A i \in DOMAIN sem.waiters : phase[sem.waiters[i]] = "waiting"
    /\ \A t \in Tasks : phase[t] = "waiting" => \E i \in DOMAIN sem.waiters : sem.waiters[i] = t
    /\ \A i, j \in DOMAIN sem.waiters : sem.waiters[i] = sem.waiters[j] => i = j

\* Nobody waits while a permit is free.
NoIdlePermit == sem.waiters # <<>> => sem.active = MaxConcurrent

SemaphoreInv == PermitsConserved /\ QueueIsWaiters /\ NoIdlePermit

=============================================================================
