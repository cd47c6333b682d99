----------------------- MODULE CleanupProtocolProofs -----------------------
(***************************************************************************)
(* Proofs about CleanupProtocol, for any number of downloads and sweeps,   *)
(* any intervals and TTLs, and any bounds on the faults.                   *)
(*                                                                         *)
(* The route: TypeOK is inductive; LockIsNotStolen is read off the steps;  *)
(* what a timer's refreshes leave of a key's TTL (Covered, Held) is kept   *)
(* by every step of a timer, which carries SetInv and HoldInv; LeaseInv    *)
(* says that a handler and a sweep see one another; StepsRefine maps each  *)
(* step to one of FileLease.                                               *)
(***************************************************************************)
EXTENDS CleanupProtocol, TLAPS

-----------------------------------------------------------------------------
(* Types.                                                                  *)

\* A timer that is new, fires, is answered or runs stays within its bounds.
LEMMA TimersTyped ==
    ASSUME NEW interval \in Nat \ {0}
    PROVE  /\ NewTimer(interval) \in Timer(interval)
           /\ \A t \in Timer(interval) :
                 /\ Fired(t, interval) \in Timer(interval)
                 /\ t.sent > 0 => \A ok \in BOOLEAN : Answered(t, ok) \in Timer(interval)
                 /\ [t EXCEPT !.left = Minus1(@)] \in Timer(interval)
<1>1. NewTimer(interval) \in Timer(interval)
  BY CleanupAssumption DEF Timer, NewTimer
<1>2. ASSUME NEW t \in Timer(interval)
      PROVE  /\ Fired(t, interval) \in Timer(interval)
             /\ t.sent > 0 => \A ok \in BOOLEAN : Answered(t, ok) \in Timer(interval)
             /\ [t EXCEPT !.left = Minus1(@)] \in Timer(interval)
  <2>1. /\ t \in [left : 0 .. interval, sent : 0 .. MaxFailures, failures : 0 .. MaxFailures]
        /\ MaxFailures \in Nat \ {0}
    BY CleanupAssumption DEF Timer
  <2>2. Fired(t, interval) \in Timer(interval)
    <3>1. (IF t.sent < MaxFailures THEN t.sent + 1 ELSE t.sent) \in 0 .. MaxFailures
      BY <2>1
    <3>2. interval \in 0 .. interval
      OBVIOUS
    <3> QED  BY <2>1, <3>1, <3>2 DEF Timer, Fired
  <2>3. ASSUME t.sent > 0, NEW ok \in BOOLEAN PROVE Answered(t, ok) \in Timer(interval)
    <3>1. t.sent - 1 \in 0 .. MaxFailures  BY <2>1, <2>3
    <3>2. (IF Aborted(t) THEN t.failures ELSE IF ok THEN 0 ELSE t.failures + 1) \in 0 .. MaxFailures
      BY <2>1 DEF Aborted
    <3> QED  BY <2>1, <3>1, <3>2 DEF Timer, Answered
  <2>4. [t EXCEPT !.left = Minus1(@)] \in Timer(interval)
    BY <2>1 DEF Timer, Minus1
  <2> QED  BY <2>2, <2>3, <2>4
<1> QED  BY <1>1, <1>2

\* The commands on the set of readers and on the lock keep both well formed.
LEMMA KeysTyped ==
    /\ Free \in Lock /\ NoReaders \in Readers
    /\ \A l \in Lock, c \in Cleaners :
          SafeRefreshed(l, c) \in Lock /\ SafeUnlocked(l, c) \in Lock
            /\ [l EXCEPT !.ttl = Minus1(@)] \in Lock
    /\ \A s \in Readers, h \in Handlers :
          Added(s, h) \in Readers /\ Refreshed(s) \in Readers /\ Removed(s, h) \in Readers
            /\ [s EXCEPT !.ttl = IF @ = NoTtl THEN @ ELSE Minus1(@)] \in Readers
BY CleanupAssumption DEF Free, NoReaders, Lock, Readers, NoTtl, SafeRefreshed, SafeUnlocked, Added, Refreshed, Removed, Minus1

\* What a step does to one actor leaves a well-formed actor.
LEMMA ActorsTyped ==
    /\ \A r \in Cleaner :
          /\ \A pc \in {"idle", "lock", "mark", "unlink", "release"} : [r EXCEPT !.pc = pc] \in Cleaner
          /\ \A t \in Timer(LockRefresh) : [r EXCEPT !.timer = t] \in Cleaner
    /\ \A r \in Handler :
          /\ \A pc \in {"start", "check", "add", "expire", "recheck", "withdraw",
                        "stat", "stream", "release", "done"} : [r EXCEPT !.pc = pc] \in Handler
          /\ \A t \in Timer(SetRefresh) : [r EXCEPT !.timer = t] \in Handler
          /\ r.timer \in Timer(SetRefresh)
    /\ \A r \in Cleaner : r.timer \in Timer(LockRefresh)
BY DEF Cleaner, Handler

\* A handler's step, a cleaner's step, the rest.
LEMMA HandlerTyped ==
    ASSUME TypeOK, NEW h \in Handlers, HandlerStep(h) \/ HandlerDies(h) \/ HandlerRefreshRejected(h)
    PROVE  TypeOK'
<1>1. handler \in [Handlers -> Handler] /\ readers \in Readers /\ handler[h] \in Handler
  BY DEF TypeOK
<1>2. handler[h].timer \in Timer(SetRefresh)
  BY <1>1, ActorsTyped
<1>3. SetRefresh \in Nat \ {0} /\ HandlerFaults \in Nat /\ RefreshFaults \in Nat
  BY CleanupAssumption
<1>4. CASE ReadRow(h)
  BY <1>4, <1>1, ActorsTyped DEF ReadRow, Goto, TypeOK
<1>5. CASE PreCheck(h)
  BY <1>5, <1>1, ActorsTyped DEF PreCheck, Goto, TypeOK
<1>6. CASE Register(h)
  BY <1>6, <1>1, ActorsTyped, KeysTyped DEF Register, Goto, TypeOK
<1>7. CASE SetExpiry(h)
  BY <1>7, <1>1, ActorsTyped, KeysTyped DEF SetExpiry, Goto, TypeOK
<1>8. CASE Recheck(h)
  BY <1>8, <1>1, ActorsTyped DEF Recheck, AfterRecheck, Goto, TypeOK
<1>9. CASE Withdraw(h)
  BY <1>9, <1>1, ActorsTyped, KeysTyped DEF Withdraw, Goto, TypeOK
<1>10. CASE Stat(h)
  BY <1>10, <1>1 DEF Stat, Handler, TypeOK
<1>11. CASE StreamEnds(h)
  BY <1>11, <1>1, ActorsTyped DEF StreamEnds, Goto, TypeOK
<1>12. CASE ReleaseHandler(h)
  BY <1>12, <1>1, ActorsTyped, KeysTyped DEF ReleaseHandler, Goto, TypeOK
<1>13. CASE HandlerTimerFires(h)
  BY <1>13, <1>1, <1>2, <1>3, ActorsTyped, TimersTyped DEF HandlerTimerFires, TypeOK
<1>14. CASE HandlerRefresh(h)
  BY <1>14, <1>1, <1>2, <1>3, ActorsTyped, TimersTyped, KeysTyped DEF HandlerRefresh, TypeOK
<1>15. CASE HandlerDies(h)
  <2>1. handler' \in [Handlers -> Handler]
    BY <1>15, <1>1, <1>3, TimersTyped DEF HandlerDies, Handler
  <2>2. faults' \in [handler : 0 .. HandlerFaults, cleaner : 0 .. CleanerFaults,
                     refresh : 0 .. RefreshFaults, outage : 0 .. Outages]
    BY <1>15, <1>3 DEF HandlerDies, TypeOK
  <2> QED  BY <1>15, <2>1, <2>2 DEF HandlerDies, TypeOK
<1>16. CASE HandlerRefreshRejected(h)
  <2>1. handler' \in [Handlers -> Handler]
    BY <1>16, <1>1, <1>2, <1>3, ActorsTyped, TimersTyped DEF HandlerRefreshRejected
  <2>2. faults' \in [handler : 0 .. HandlerFaults, cleaner : 0 .. CleanerFaults,
                     refresh : 0 .. RefreshFaults, outage : 0 .. Outages]
    BY <1>16, <1>3 DEF HandlerRefreshRejected, TypeOK
  <2> QED  BY <1>16, <2>1, <2>2 DEF HandlerRefreshRejected, TypeOK
<1> QED
  BY <1>4, <1>5, <1>6, <1>7, <1>8, <1>9, <1>10, <1>11, <1>12, <1>13, <1>14, <1>15, <1>16 DEF HandlerStep

LEMMA CleanerTyped ==
    ASSUME TypeOK, NEW c \in Cleaners,
           CleanerStep(c) \/ CleanerDies(c) \/ MarkThrows(c) \/ CleanerRefreshRejected(c)
    PROVE  TypeOK'
<1>1. cleaner \in [Cleaners -> Cleaner] /\ lock \in Lock /\ cleaner[c] \in Cleaner
  BY DEF TypeOK
<1>2. cleaner[c].timer \in Timer(LockRefresh)
  BY <1>1, ActorsTyped
<1>3. LockRefresh \in Nat \ {0} /\ LockTtl \in Nat /\ CleanerFaults \in Nat /\ RefreshFaults \in Nat
  BY CleanupAssumption
<1>4. CASE Batch(c)
  BY <1>4, <1>1, ActorsTyped DEF Batch, MoveTo, TypeOK
<1>5. CASE Acquire(c)
  <2>1. [pc |-> "mark", timer |-> NewTimer(LockRefresh)] \in Cleaner
    BY <1>3, TimersTyped DEF Cleaner
  <2>2. [owner |-> c, ttl |-> LockTtl] \in Lock
    BY <1>3 DEF Lock
  <2>3. lock' \in Lock /\ cleaner' \in [Cleaners -> Cleaner]
    BY <1>5, <1>1, <2>1, <2>2, ActorsTyped DEF Acquire, MoveTo
  <2> QED  BY <1>5, <2>3 DEF Acquire, TypeOK
<1>6. CASE Mark(c)
  BY <1>6, <1>1, ActorsTyped DEF Mark, MoveTo, TypeOK
<1>7. CASE Unlink(c)
  <2>1. file' \in BOOLEAN
    BY <1>7 DEF Unlink, TypeOK
  <2> QED  BY <1>7, <1>1, <2>1, ActorsTyped DEF Unlink, MoveTo, TypeOK
<1>8. CASE ReleaseLock(c)
  BY <1>8, <1>1, ActorsTyped, KeysTyped DEF ReleaseLock, MoveTo, TypeOK
<1>9. CASE CleanerTimerFires(c)
  BY <1>9, <1>1, <1>2, <1>3, ActorsTyped, TimersTyped DEF CleanerTimerFires, TypeOK
<1>10. CASE CleanerRefresh(c)
  BY <1>10, <1>1, <1>2, <1>3, ActorsTyped, TimersTyped, KeysTyped DEF CleanerRefresh, TypeOK
<1>11. CASE CleanerDies(c)
  <2>1. cleaner' \in [Cleaners -> Cleaner]
    BY <1>11, <1>1, <1>3, TimersTyped DEF CleanerDies, Cleaner
  <2>2. faults' \in [handler : 0 .. HandlerFaults, cleaner : 0 .. CleanerFaults,
                     refresh : 0 .. RefreshFaults, outage : 0 .. Outages]
    BY <1>11, <1>3 DEF CleanerDies, TypeOK
  <2> QED  BY <1>11, <2>1, <2>2 DEF CleanerDies, TypeOK
<1>12. CASE MarkThrows(c)
  <2>1. faults' \in [handler : 0 .. HandlerFaults, cleaner : 0 .. CleanerFaults,
                     refresh : 0 .. RefreshFaults, outage : 0 .. Outages]
    BY <1>12, <1>3 DEF MarkThrows, TypeOK
  <2> QED  BY <1>12, <1>1, <2>1, ActorsTyped DEF MarkThrows, MoveTo, TypeOK
<1>13. CASE CleanerRefreshRejected(c)
  <2>1. cleaner' \in [Cleaners -> Cleaner]
    BY <1>13, <1>1, <1>2, <1>3, ActorsTyped, TimersTyped DEF CleanerRefreshRejected
  <2>2. faults' \in [handler : 0 .. HandlerFaults, cleaner : 0 .. CleanerFaults,
                     refresh : 0 .. RefreshFaults, outage : 0 .. Outages]
    BY <1>13, <1>3 DEF CleanerRefreshRejected, TypeOK
  <2> QED  BY <1>13, <2>1, <2>2 DEF CleanerRefreshRejected, TypeOK
<1> QED
  BY <1>4, <1>5, <1>6, <1>7, <1>8, <1>9, <1>10, <1>11, <1>12, <1>13 DEF CleanerStep

\* Type correctness, for any number of downloads and sweeps, any intervals
\* and any faults.
THEOREM CleanupTyped == Spec => []TypeOK
<1>1. Init => TypeOK
  <2> SUFFICES ASSUME Init PROVE TypeOK
    OBVIOUS
  <2>1. NewTimer(LockRefresh) \in Timer(LockRefresh) /\ NewTimer(SetRefresh) \in Timer(SetRefresh)
    BY CleanupAssumption, TimersTyped
  <2>2. cleaner \in [Cleaners -> Cleaner] /\ handler \in [Handlers -> Handler]
    BY <2>1 DEF Init, Cleaner, Handler
  <2>3. faults \in [handler : 0 .. HandlerFaults, cleaner : 0 .. CleanerFaults,
                    refresh : 0 .. RefreshFaults, outage : 0 .. Outages]
    BY CleanupAssumption DEF Init
  <2> QED  BY <2>2, <2>3, KeysTyped DEF Init, TypeOK
<1>2. TypeOK /\ [Next]_vars => TypeOK'
  <2> SUFFICES ASSUME TypeOK, [Next]_vars PROVE TypeOK'
    OBVIOUS
  <2>1. CASE Due
    BY <2>1 DEF Due, TypeOK
  <2>2. CASE LockLapses
    BY <2>2, KeysTyped DEF LockLapses, TypeOK
  <2>3. CASE SetLapses
    BY <2>3, KeysTyped DEF SetLapses, TypeOK
  <2>4. CASE Tick
    <3>1. lock' \in Lock
      BY <2>4, CleanupAssumption DEF Tick, TypeOK, Lock, Minus1
    <3>2. readers' \in Readers
      BY <2>4, CleanupAssumption DEF Tick, TypeOK, Readers, Minus1, NoTtl
    <3>3. cleaner' \in [Cleaners -> Cleaner]
      <4>1. ASSUME NEW r \in Cleaner PROVE [r EXCEPT !.timer.left = Minus1(@)] \in Cleaner
        BY <4>1, CleanupAssumption, TimersTyped DEF Cleaner, Timer, Minus1
      <4> QED  BY <2>4, <4>1 DEF Tick, TypeOK
    <3>4. handler' \in [Handlers -> Handler]
      <4>1. ASSUME NEW r \in Handler PROVE [r EXCEPT !.timer.left = Minus1(@)] \in Handler
        BY <4>1, CleanupAssumption, TimersTyped DEF Handler, Timer, Minus1
      <4> QED  BY <2>4, <4>1 DEF Tick, TypeOK
    <3> QED  BY <2>4, <3>1, <3>2, <3>3, <3>4 DEF Tick, TypeOK
  <2>5. ASSUME NEW side \in {"api", "worker"}, Reconnected(side) PROVE TypeOK'
    BY <2>5 DEF Reconnected, TypeOK
  <2>6. ASSUME NEW side \in {"api", "worker"}, ConnectionLost(side) PROVE TypeOK'
    BY <2>6, CleanupAssumption DEF ConnectionLost, TypeOK
  <2>7. CASE UNCHANGED vars
    BY <2>7 DEF vars, TypeOK
  <2> QED
    BY <2>1, <2>2, <2>3, <2>4, <2>5, <2>6, <2>7, HandlerTyped, CleanerTyped DEF Next, Fault
<1> QED  BY <1>1, <1>2, PTL DEF Spec

-----------------------------------------------------------------------------
(* The lock.                                                               *)

\* The lock changes hands only after its release or at the end of its TTL:
\* SET NX takes a free one, the scripts of refresh and release compare the
\* owner, and nothing else writes the key (redis-scripts.ts).  Holds through
\* any crash, outage or rejected refresh.
THEOREM LockChangesHands == Spec => LockIsNotStolen
<1> DEFINE Passes == lock.owner # NoOne /\ lock'.owner # lock.owner
                        => lock.ttl = 0 \/ cleaner[lock.owner].pc = "release"
<1>1. TypeOK /\ [Next]_vars => Passes
  <2> SUFFICES ASSUME TypeOK, [Next]_vars PROVE Passes
    OBVIOUS
  <2>0. lock \in Lock
    BY DEF TypeOK
  <2>1. ASSUME NEW c \in Cleaners, Acquire(c) PROVE Passes
    BY <2>1 DEF Acquire, Acquirable
  <2>2. ASSUME NEW c \in Cleaners, ReleaseLock(c) PROVE Passes
    BY <2>2 DEF ReleaseLock, SafeUnlocked
  <2>3. ASSUME NEW c \in Cleaners, CleanerRefresh(c) PROVE Passes
    BY <2>3, <2>0 DEF CleanerRefresh, SafeRefreshed, Lock
  <2>4. CASE LockLapses
    BY <2>4 DEF LockLapses
  <2>5. CASE Tick
    BY <2>5, <2>0 DEF Tick, Lock
  <2>6. ASSUME NEW h \in Handlers,
               HandlerStep(h) \/ HandlerDies(h) \/ HandlerRefreshRejected(h)
        PROVE  lock' = lock
    BY <2>6 DEF HandlerStep, ReadRow, PreCheck, Register, SetExpiry, Recheck, Withdraw, Stat, StreamEnds,
       ReleaseHandler, HandlerTimerFires, HandlerRefresh, HandlerDies, HandlerRefreshRejected
  <2>7. ASSUME NEW c \in Cleaners,
               \/ Batch(c) \/ Mark(c) \/ Unlink(c) \/ CleanerTimerFires(c)
               \/ CleanerDies(c) \/ MarkThrows(c) \/ CleanerRefreshRejected(c)
        PROVE  lock' = lock
    BY <2>7 DEF Batch, Mark, Unlink, CleanerTimerFires, CleanerDies, MarkThrows, CleanerRefreshRejected
  <2>8. ASSUME Due \/ SetLapses \/ UNCHANGED vars PROVE lock' = lock
    BY <2>8 DEF Due, SetLapses, vars
  <2>9. ASSUME NEW side, Reconnected(side) \/ ConnectionLost(side) PROVE lock' = lock
    BY <2>9 DEF Reconnected, ConnectionLost
  <2> QED
    BY <2>1, <2>2, <2>3, <2>4, <2>5, <2>6, <2>7, <2>8, <2>9 DEF Next, Fault, CleanerStep
<1> QED  BY <1>1, CleanupTyped, PTL DEF Spec, LockIsNotStolen

-----------------------------------------------------------------------------
(* How long a refreshed key lasts.  Between two refreshes that worked its  *)
(* TTL falls no further than its timer has run, plus one interval for each *)
(* refresh that failed or is under way.                                    *)

\* What n failed refreshes of a member cost the set.
Lost(n) == n * SetRefresh

\* The set of readers, seen from the timer of a member.
Covered(t, ttl) ==
    /\ t.sent <= 1
    /\ t.sent = 1 => t.left = SetRefresh
    /\ t.failures + t.sent <= MaxFailures
    /\ ttl + Lost(t.failures + t.sent) + SetRefresh >= SetTtl + t.left

\* The lock, seen from the timer of its holder, as long as no refresh fails.
Held(t, ttl) ==
    /\ ttl > 0
    /\ t.failures = 0
    /\ t.sent <= 1
    /\ t.sent = 1 => t.left = LockRefresh
    /\ ttl + (IF t.sent = 1 THEN LockRefresh ELSE 0) + LockRefresh >= LockTtl + t.left

\* Lost is a multiple of the interval.
LEMMA Multiples ==
    /\ Lost(0) = 0
    /\ \A n \in Nat : Lost(n) \in Nat /\ Lost(n + 1) = Lost(n) + SetRefresh
    /\ \A m, n \in Nat : m <= n => Lost(m) <= Lost(n)
<1>1. SetRefresh \in Nat
  BY CleanupAssumption
<1>2. \A n \in Nat : n * SetRefresh \in Nat /\ (n + 1) * SetRefresh = n * SetRefresh + SetRefresh
  BY <1>1
<1>3. ASSUME NEW m \in Nat, NEW n \in Nat, m <= n PROVE m * SetRefresh <= n * SetRefresh
  <2>1. PICK d \in Nat : n = m + d
    <3>1. n - m \in Nat /\ n = m + (n - m)
      BY <1>3
    <3> QED  BY <3>1
  <2>2. n * SetRefresh = m * SetRefresh + d * SetRefresh
    BY <2>1, <1>1
  <2> QED  BY <2>2, <1>2
<1> QED  BY <1>1, <1>2, <1>3 DEF Lost

\* The fields of a timer after it fired, was answered or ran.
LEMMA TimerFields ==
    ASSUME NEW interval \in Nat \ {0}, NEW t \in Timer(interval)
    PROVE  t.left \in 0 .. interval /\ t.sent \in 0 .. MaxFailures /\ t.failures \in 0 .. MaxFailures
BY DEF Timer

LEMMA FiredFields ==
    ASSUME NEW interval \in Nat \ {0}, NEW t \in Timer(interval), t.sent = 0
    PROVE  /\ Fired(t, interval).left = interval
           /\ Fired(t, interval).sent = 1
           /\ Fired(t, interval).failures = t.failures
BY CleanupAssumption DEF Timer, Fired

LEMMA AnsweredFields ==
    ASSUME NEW interval \in Nat \ {0}, NEW t \in Timer(interval), NEW ok \in BOOLEAN,
           t.sent = 1, ~Aborted(t)
    PROVE  /\ Answered(t, ok).left = t.left
           /\ Answered(t, ok).sent = 0
           /\ Answered(t, ok).failures = IF ok THEN 0 ELSE t.failures + 1
BY DEF Timer, Answered

Ran(t) == [t EXCEPT !.left = Minus1(@)]

LEMMA RanFields ==
    ASSUME NEW interval \in Nat \ {0}, NEW t \in Timer(interval), t.left > 0
    PROVE  /\ Ran(t).left = t.left - 1
           /\ Ran(t).sent = t.sent
           /\ Ran(t).failures = t.failures
BY DEF Timer, Minus1, Ran

\* What happens to a member's timer, or to the set under it, keeps the set
\* alive as long as failures of one timer abort it before the set lapses.
LEMMA CoverKept ==
    ASSUME Lost(MaxFailures) < SetTtl
    PROVE  /\ \A ttl \in Nat : ttl >= SetTtl => Covered(NewTimer(SetRefresh), ttl)
           /\ \A t \in Timer(SetRefresh), ttl \in Nat : Covered(t, ttl) =>
                 /\ Covered(t, SetTtl)
                 /\ t.left = 0 /\ ~Aborted(t) => Covered(Fired(t, SetRefresh), ttl)
                 /\ t.sent > 0 => /\ Covered(Answered(t, TRUE), SetTtl)
                                  /\ Covered(Answered(t, FALSE), ttl)
                 /\ t.sent = 0 /\ t.left > 0 /\ ~Aborted(t) =>
                       ttl > 1 /\ Covered(Ran(t), ttl - 1)
                               /\ Covered(Ran(t), ttl)
<1>1. SetRefresh \in Nat \ {0} /\ SetTtl \in Nat \ {0} /\ MaxFailures \in Nat \ {0}
  BY CleanupAssumption
<1>2. ASSUME NEW ttl \in Nat, ttl >= SetTtl PROVE Covered(NewTimer(SetRefresh), ttl)
  BY <1>1, <1>2, Multiples DEF Covered, NewTimer
<1>3. ASSUME NEW t \in Timer(SetRefresh), NEW ttl \in Nat, Covered(t, ttl)
      PROVE  /\ Covered(t, SetTtl)
             /\ t.left = 0 /\ ~Aborted(t) => Covered(Fired(t, SetRefresh), ttl)
             /\ t.sent > 0 => /\ Covered(Answered(t, TRUE), SetTtl)
                              /\ Covered(Answered(t, FALSE), ttl)
             /\ t.sent = 0 /\ t.left > 0 /\ ~Aborted(t) =>
                   ttl > 1 /\ Covered(Ran(t), ttl - 1)
                           /\ Covered(Ran(t), ttl)
  <2>1. t.left \in 0 .. SetRefresh /\ t.sent \in 0 .. MaxFailures /\ t.failures \in 0 .. MaxFailures
    BY <1>1, TimerFields
  <2>2. /\ t.sent <= 1 /\ (t.sent = 1 => t.left = SetRefresh) /\ t.failures + t.sent <= MaxFailures
        /\ ttl + Lost(t.failures + t.sent) + SetRefresh >= SetTtl + t.left
    BY <1>3 DEF Covered
  <2>3. /\ Lost(t.failures) \in Nat /\ Lost(t.failures + t.sent) \in Nat
        /\ Lost(t.failures + 1) = Lost(t.failures) + SetRefresh
    <3>1. t.failures \in Nat /\ t.failures + t.sent \in Nat
      BY <1>1, <2>1
    <3>2. Lost(t.failures) \in Nat /\ Lost(t.failures + 1) = Lost(t.failures) + SetRefresh
      BY <3>1, Multiples
    <3>3. Lost(t.failures + t.sent) \in Nat
      BY <3>1, Multiples
    <3> QED  BY <3>2, <3>3
  <2>4. Covered(t, SetTtl)
    BY <1>1, <2>1, <2>2, <2>3 DEF Covered
  <2>5. ASSUME t.left = 0, ~Aborted(t) PROVE Covered(Fired(t, SetRefresh), ttl)
    <3>1. t.sent = 0 /\ t.failures + 0 = t.failures /\ t.failures + 1 <= MaxFailures
      BY <1>1, <2>1, <2>2, <2>5 DEF Aborted
    <3>2. /\ Fired(t, SetRefresh).left = SetRefresh
          /\ Fired(t, SetRefresh).sent = 1
          /\ Fired(t, SetRefresh).failures = t.failures
      BY <1>1, <3>1, FiredFields
    <3> QED  BY <1>1, <2>1, <2>2, <2>3, <2>5, <3>1, <3>2 DEF Covered
  <2>6. ASSUME t.sent > 0 PROVE Covered(Answered(t, TRUE), SetTtl) /\ Covered(Answered(t, FALSE), ttl)
    <3>1. t.sent = 1 /\ t.left = SetRefresh /\ ~Aborted(t)
      BY <1>1, <2>1, <2>2, <2>6 DEF Aborted
    <3>2. ASSUME NEW r, r.left = SetRefresh, r.sent = 0, r.failures = 0 PROVE Covered(r, SetTtl)
      BY <1>1, <3>2, Multiples DEF Covered
    <3>3. ASSUME NEW r, r.left = SetRefresh, r.sent = 0, r.failures = t.failures + 1 PROVE Covered(r, ttl)
      BY <1>1, <2>1, <2>2, <2>3, <3>1, <3>3 DEF Covered
    <3>4. /\ Answered(t, TRUE).left = SetRefresh /\ Answered(t, FALSE).left = SetRefresh
          /\ Answered(t, TRUE).sent = 0 /\ Answered(t, FALSE).sent = 0
          /\ Answered(t, TRUE).failures = 0 /\ Answered(t, FALSE).failures = t.failures + 1
      BY <1>1, <3>1, AnsweredFields
    <3> QED  BY <3>2, <3>3, <3>4, Zenon
  <2>7. ASSUME t.sent = 0, t.left > 0, ~Aborted(t)
        PROVE  ttl > 1 /\ Covered(Ran(t), ttl - 1)
                       /\ Covered(Ran(t), ttl)
    <3>1. /\ Ran(t).left = t.left - 1
          /\ Ran(t).sent = 0
          /\ Ran(t).failures = t.failures
      BY <1>1, <2>7, RanFields
    <3>2. t.failures + 0 = t.failures /\ t.failures + 1 <= MaxFailures
      BY <1>1, <2>1, <2>7 DEF Aborted
    <3>3. Lost(t.failures + 1) <= Lost(MaxFailures) /\ Lost(MaxFailures) \in Nat
      <4>1. t.failures + 1 \in Nat /\ MaxFailures \in Nat
        BY <1>1, <2>1
      <4>2. Lost(t.failures + 1) <= Lost(MaxFailures)
        BY <3>2, <4>1, Multiples
      <4> QED  BY <4>1, <4>2, Multiples
    <3>4. ttl > 1
      BY <1>1, <2>1, <2>2, <2>3, <2>7, <3>2, <3>3
    <3> QED  BY <1>1, <2>1, <2>2, <2>3, <2>7, <3>1, <3>2, <3>4 DEF Covered
  <2> QED  BY <2>4, <2>5, <2>6, <2>7
<1> QED  BY <1>2, <1>3

\* The same for the lock and its holder's timer.
LEMMA HoldKept ==
    ASSUME LockRefresh < LockTtl
    PROVE  /\ Held(NewTimer(LockRefresh), LockTtl)
           /\ \A t \in Timer(LockRefresh), ttl \in Nat : Held(t, ttl) =>
                 /\ ~Aborted(t)
                 /\ t.left = 0 => Held(Fired(t, LockRefresh), ttl)
                 /\ t.sent > 0 => Held(Answered(t, TRUE), LockTtl)
                 /\ t.sent = 0 /\ t.left > 0 =>
                       Held(Ran(t), Minus1(ttl))
<1>1. LockRefresh \in Nat \ {0} /\ LockTtl \in Nat \ {0} /\ MaxFailures \in Nat \ {0}
  BY CleanupAssumption
<1>2. Held(NewTimer(LockRefresh), LockTtl)
  BY <1>1 DEF Held, NewTimer
<1>3. ASSUME NEW t \in Timer(LockRefresh), NEW ttl \in Nat, Held(t, ttl)
      PROVE  /\ ~Aborted(t)
             /\ t.left = 0 => Held(Fired(t, LockRefresh), ttl)
             /\ t.sent > 0 => Held(Answered(t, TRUE), LockTtl)
             /\ t.sent = 0 /\ t.left > 0 => Held(Ran(t), Minus1(ttl))
  <2>1. t.left \in 0 .. LockRefresh /\ t.sent \in 0 .. MaxFailures /\ t.failures \in 0 .. MaxFailures
    BY <1>1, TimerFields
  <2>2. /\ ttl > 0 /\ t.failures = 0 /\ t.sent <= 1 /\ (t.sent = 1 => t.left = LockRefresh)
        /\ ttl + (IF t.sent = 1 THEN LockRefresh ELSE 0) + LockRefresh >= LockTtl + t.left
    BY <1>3 DEF Held
  <2>3. ~Aborted(t)
    BY <1>1, <2>2 DEF Aborted
  <2>4. ASSUME t.left = 0 PROVE Held(Fired(t, LockRefresh), ttl)
    <3>1. t.sent = 0
      BY <1>1, <2>1, <2>2, <2>4
    <3>2. /\ Fired(t, LockRefresh).left = LockRefresh
          /\ Fired(t, LockRefresh).sent = 1
          /\ Fired(t, LockRefresh).failures = 0
      BY <1>1, <2>2, <3>1, FiredFields
    <3> QED  BY <1>1, <2>2, <2>4, <3>1, <3>2 DEF Held
  <2>5. ASSUME t.sent > 0 PROVE Held(Answered(t, TRUE), LockTtl)
    <3>1. t.sent = 1 /\ t.left = LockRefresh
      BY <2>1, <2>2, <2>5
    <3>2. ASSUME NEW r, r.left = LockRefresh, r.sent = 0, r.failures = 0 PROVE Held(r, LockTtl)
      BY <1>1, <3>2 DEF Held
    <3>3. /\ Answered(t, TRUE).left = LockRefresh
          /\ Answered(t, TRUE).sent = 0
          /\ Answered(t, TRUE).failures = 0
      BY <1>1, <2>3, <3>1, AnsweredFields
    <3> QED  BY <3>2, <3>3, Zenon
  <2>6. ASSUME t.sent = 0, t.left > 0 PROVE Held(Ran(t), Minus1(ttl))
    <3>1. /\ Ran(t).left = t.left - 1
          /\ Ran(t).sent = 0
          /\ Ran(t).failures = 0
      BY <1>1, <2>2, <2>6, RanFields
    <3>2. Minus1(ttl) = ttl - 1 /\ ttl > 1
      BY <1>1, <2>1, <2>2, <2>6 DEF Minus1
    <3> QED  BY <1>1, <2>1, <2>2, <2>6, <3>1, <3>2 DEF Held
  <2> QED  BY <2>3, <2>4, <2>5, <2>6
<1> QED  BY <1>2, <1>3

-----------------------------------------------------------------------------
(* The download set, while handlers do not die between SADD and SREM, the  *)
(* API keeps its connection and a handler aborts before the set lapses.    *)

OrderlyReaders ==
    /\ \/ HandlerFaults = 0
       \/ DiesAt \cap {"expire", "recheck", "withdraw", "stat", "stream", "release"} = {}
    /\ Outages = 0 \/ "api" \notin Unreliable
    /\ MaxFailures * SetRefresh < SetTtl

Registered(h) ==
    handler[h].pc \in {"expire", "recheck", "withdraw", "stat", "stream", "release"}

\* A handler's timer is new until it starts; once the set's TTL was renewed
\* before the re-check, the timer's refreshes cover the stream.
Timely(h) ==
    /\ handler[h].pc \in {"start", "check", "add", "expire", "recheck"}
          => handler[h].timer = NewTimer(SetRefresh)
    /\ handler[h].pc = "recheck" => readers.ttl >= SetTtl
    /\ Refreshing(h) => Covered(handler[h].timer, readers.ttl)

\* The set holds exactly the handlers between SADD and SREM, and never lapses.
SetInv ==
    /\ "api" \in online
    /\ readers.ids = {h \in Handlers : Registered(h)}
    /\ readers.ids = {} => readers = NoReaders
    /\ readers.ttl > 0
    /\ \A h \in Handlers : Timely(h)

\* One handler moves, with at most one command on the set.
LEMMA HandlerMoves ==
    ASSUME OrderlyReaders, TypeOK, SetInv, NEW h \in Handlers,
           online' = online,
           \A g \in Handlers \ {h} : handler'[g] = handler[g],
           \/ readers' = readers \/ readers' = Added(readers, h)
           \/ readers' = Refreshed(readers) \/ readers' = Removed(readers, h),
           Registered(h)' <=> h \in readers'.ids,
           Timely(h)'
    PROVE  SetInv'
<1>1. /\ SetTtl \in Nat \ {0} /\ Lost(MaxFailures) < SetTtl
      /\ NoTtl = SetTtl + 1
  BY CleanupAssumption DEF OrderlyReaders, Lost, NoTtl
<1>2. /\ readers \in [ids : SUBSET Handlers, ttl : 0 .. NoTtl]
      /\ handler \in [Handlers -> Handler]
  BY DEF TypeOK, Readers
<1>3. readers.ttl \in Nat
  BY <1>1, <1>2
<1>4. \A g \in Handlers \ {h} : /\ Registered(g)' <=> Registered(g)
                                /\ Refreshing(g)' <=> Refreshing(g)
  BY DEF Registered, Refreshing
<1>5. \A g \in Handlers : Refreshing(g) => Registered(g)
  BY DEF Registered, Refreshing
<1>6. \A g \in Handlers : Timely(g) /\ (g \in readers.ids <=> Registered(g))
  BY DEF SetInv
<1>7. \A g \in Handlers : handler[g].timer \in Timer(SetRefresh)
  BY <1>2 DEF Handler
<1>8. CASE readers' = readers
  <2>1. ASSUME NEW g \in Handlers \ {h} PROVE Timely(g)'
    BY <1>4, <1>6, <1>8 DEF Timely
  <2> QED  BY <1>4, <1>6, <1>8, <2>1 DEF SetInv
<1>9. CASE readers' = Added(readers, h)
  <2>1. readers'.ids = readers.ids \cup {h} /\ readers'.ttl = readers.ttl
    BY <1>2, <1>9 DEF Added
  <2>2. ASSUME NEW g \in Handlers \ {h} PROVE Timely(g)'
    BY <1>4, <1>6, <2>1 DEF Timely
  <2>3. readers'.ids = {g \in Handlers : Registered(g)'}
    BY <1>2, <1>4, <1>6, <2>1
  <2> QED  BY <2>1, <2>2, <2>3 DEF SetInv
<1>10. CASE readers' = Refreshed(readers) /\ readers.ids # {}
  <2>1. readers'.ids = readers.ids /\ readers'.ttl = SetTtl
    BY <1>2, <1>10 DEF Refreshed
  <2>2. ASSUME NEW g \in Handlers \ {h} PROVE Timely(g)'
    <3>1. Refreshing(g) => Covered(handler[g].timer, SetTtl)
      BY <1>1, <1>3, <1>6, <1>7, CoverKept DEF Timely
    <3> QED  BY <1>1, <1>4, <1>6, <2>1, <3>1 DEF Timely
  <2>3. readers'.ids = {g \in Handlers : Registered(g)'}
    BY <1>2, <1>4, <1>6, <2>1
  <2> QED  BY <1>1, <1>10, <2>1, <2>2, <2>3 DEF SetInv
<1>11. CASE readers' = Removed(readers, h)
  <2>1. readers'.ids = readers.ids \ {h}
    BY <1>2, <1>11 DEF Removed, NoReaders
  <2>2. readers'.ids = {} => readers' = NoReaders
    BY <1>2, <1>11, <2>1 DEF Removed, NoReaders
  <2>3. readers'.ids # {} => readers'.ttl = readers.ttl
    BY <1>2, <1>11, <2>1 DEF Removed
  <2>4. ASSUME NEW g \in Handlers \ {h} PROVE Timely(g)'
    <3>1. CASE Registered(g)
      BY <1>4, <1>6, <2>1, <2>3, <3>1 DEF Timely
    <3>2. CASE ~Registered(g)
      BY <1>4, <1>5, <1>6, <3>2 DEF Timely, Registered
    <3> QED  BY <3>1, <3>2
  <2>5. readers'.ids = {g \in Handlers : Registered(g)'}
    BY <1>2, <1>4, <1>6, <2>1
  <2>6. readers'.ttl > 0
    BY <1>1, <2>2, <2>3 DEF SetInv, NoReaders
  <2> QED  BY <2>2, <2>4, <2>5, <2>6 DEF SetInv
<1> QED  BY <1>8, <1>9, <1>10, <1>11 DEF Refreshed

LEMMA SetHandlerStep ==
    ASSUME OrderlyReaders, TypeOK, SetInv, NEW h \in Handlers,
           HandlerStep(h) \/ HandlerDies(h) \/ HandlerRefreshRejected(h)
    PROVE  SetInv'
<1>1. /\ SetTtl \in Nat \ {0} /\ Lost(MaxFailures) < SetTtl /\ SetRefresh \in Nat \ {0}
      /\ NoTtl = SetTtl + 1
  BY CleanupAssumption DEF OrderlyReaders, Lost, NoTtl
<1>2. /\ readers \in [ids : SUBSET Handlers, ttl : 0 .. NoTtl]
      /\ handler \in [Handlers -> Handler]
      /\ handler[h] \in Handler
  BY DEF TypeOK, Readers
<1>3. handler[h].timer \in Timer(SetRefresh) /\ readers.ttl \in Nat
  BY <1>1, <1>2 DEF Handler
<1>4. Timely(h) /\ (h \in readers.ids <=> Registered(h)) /\ "api" \in online
  BY DEF SetInv
<1>5. ASSUME NEW pc, Goto(h, pc)
      PROVE  /\ handler'[h].pc = pc /\ handler'[h].timer = handler[h].timer
             /\ \A g \in Handlers \ {h} : handler'[g] = handler[g]
  BY <1>2, <1>5 DEF Goto, Handler
<1>6. ASSUME NEW t, handler' = [handler EXCEPT ![h].timer = t]
      PROVE  /\ handler'[h].pc = handler[h].pc /\ handler'[h].timer = t
             /\ \A g \in Handlers \ {h} : handler'[g] = handler[g]
  BY <1>2, <1>6 DEF Handler
<1> USE DEF Registered, Refreshing
<1>7. CASE ReadRow(h)
  <2>1. PICK pc \in {"check", "done"} : Goto(h, pc)
    BY <1>7 DEF ReadRow
  <2>2. Timely(h)'
    BY <1>4, <1>5, <1>7, <2>1 DEF ReadRow, Timely
  <2> QED  BY <1>4, <1>5, <1>7, <2>1, <2>2, HandlerMoves DEF ReadRow
<1>8. CASE PreCheck(h)
  <2>1. PICK pc \in {"add", "done"} : Goto(h, pc)
    BY <1>8 DEF PreCheck
  <2>2. Timely(h)'
    BY <1>4, <1>5, <1>8, <2>1 DEF PreCheck, Timely
  <2> QED  BY <1>4, <1>5, <1>8, <2>1, <2>2, HandlerMoves DEF PreCheck
<1>9. CASE Register(h)
  <2>1. Goto(h, "expire") /\ h \in readers'.ids
    BY <1>2, <1>9 DEF Register, Added
  <2>2. Timely(h)'
    BY <1>4, <1>5, <1>9, <2>1 DEF Register, Timely
  <2> QED  BY <1>4, <1>5, <1>9, <2>1, <2>2, HandlerMoves DEF Register
<1>10. CASE SetExpiry(h)
  <2>1. Goto(h, "recheck") /\ h \in readers.ids
    BY <1>4, <1>10 DEF SetExpiry
  <2>2. readers'.ids = readers.ids /\ readers'.ttl = SetTtl
    BY <1>2, <1>10, <2>1 DEF SetExpiry, Refreshed
  <2>3. Timely(h)'
    BY <1>1, <1>4, <1>5, <1>10, <2>1, <2>2 DEF SetExpiry, Timely
  <2> QED  BY <1>4, <1>5, <1>10, <2>1, <2>2, <2>3, HandlerMoves DEF SetExpiry
<1>11. CASE Recheck(h)
  <2>1. PICK pc \in {"stat", "withdraw"} : Goto(h, pc)
    BY <1>11 DEF Recheck, AfterRecheck
  <2>2. Covered(handler[h].timer, readers.ttl)
    BY <1>1, <1>3, <1>4, <1>11, CoverKept DEF Recheck, Timely
  <2>3. Timely(h)'
    BY <1>4, <1>5, <1>11, <2>1, <2>2 DEF Recheck, Timely
  <2> QED  BY <1>4, <1>5, <1>11, <2>1, <2>3, HandlerMoves DEF Recheck
<1>12. CASE Withdraw(h)
  <2>1. Goto(h, "done") /\ h \notin readers'.ids
    BY <1>2, <1>12 DEF Withdraw, Removed, NoReaders
  <2>2. Timely(h)'
    BY <1>5, <2>1 DEF Timely
  <2> QED  BY <1>4, <1>5, <1>12, <2>1, <2>2, HandlerMoves DEF Withdraw
<1>13. CASE Stat(h)
  <2>1. /\ handler'[h].pc \in {"stream", "release"} /\ handler'[h].timer = handler[h].timer
        /\ \A g \in Handlers \ {h} : handler'[g] = handler[g]
    BY <1>2, <1>13 DEF Stat, Handler
  <2>2. Timely(h)'
    BY <1>4, <1>13, <2>1 DEF Stat, Timely
  <2> QED  BY <1>4, <1>13, <2>1, <2>2, HandlerMoves DEF Stat
<1>14. CASE StreamEnds(h)
  <2>1. Timely(h)'
    BY <1>5, <1>14 DEF StreamEnds, Timely
  <2> QED  BY <1>4, <1>5, <1>14, <2>1, HandlerMoves DEF StreamEnds
<1>15. CASE ReleaseHandler(h)
  <2>1. Goto(h, "done") /\ h \notin readers'.ids
    BY <1>2, <1>15 DEF ReleaseHandler, Removed, NoReaders
  <2>2. Timely(h)'
    BY <1>5, <2>1 DEF Timely
  <2> QED  BY <1>4, <1>5, <1>15, <2>1, <2>2, HandlerMoves DEF ReleaseHandler
<1>16. CASE HandlerTimerFires(h)
  <2>1. /\ handler' = [handler EXCEPT ![h].timer = Fired(handler[h].timer, SetRefresh)]
        /\ Refreshing(h) /\ ~Aborted(handler[h].timer) /\ handler[h].timer.left = 0
        /\ readers' = readers /\ online' = online
    BY <1>16 DEF HandlerTimerFires, HandlerTimerDue
  <2>2. Covered(Fired(handler[h].timer, SetRefresh), readers.ttl)
    BY <1>1, <1>3, <1>4, <2>1, CoverKept DEF Timely
  <2>3. Timely(h)'
    BY <1>6, <2>1, <2>2 DEF Timely
  <2> QED  BY <1>4, <1>6, <2>1, <2>3, HandlerMoves
<1>17. CASE HandlerRefresh(h)
  <2>1. /\ handler' = [handler EXCEPT ![h].timer = Answered(handler[h].timer, readers.ids # {})]
        /\ handler[h].timer.sent > 0 /\ readers' = Refreshed(readers) /\ online' = online
    BY <1>17 DEF HandlerRefresh
  <2>2. handler[h].pc \notin {"start", "check", "add", "expire", "recheck"}
    BY <1>4, <2>1 DEF Timely, NewTimer
  <2>3. readers'.ids = readers.ids
    BY <1>2, <2>1 DEF Refreshed
  <2>4. ASSUME Refreshing(h) PROVE Covered(Answered(handler[h].timer, readers.ids # {}), readers'.ttl)
    <3>1. readers.ids # {} /\ readers'.ttl = SetTtl
      BY <1>2, <1>4, <2>1, <2>4 DEF Refreshed
    <3>2. Covered(Answered(handler[h].timer, TRUE), SetTtl)
      BY <1>1, <1>3, <1>4, <2>1, <2>4, CoverKept DEF Timely
    <3> QED  BY <3>1, <3>2
  <2>5. Timely(h)'
    BY <1>6, <2>1, <2>2, <2>4 DEF Timely
  <2> QED  BY <1>4, <1>6, <2>1, <2>3, <2>5, HandlerMoves
<1>18. CASE HandlerRefreshRejected(h)
  <2>1. /\ handler' = [handler EXCEPT ![h].timer = Answered(handler[h].timer, FALSE)]
        /\ handler[h].timer.sent > 0 /\ readers' = readers /\ online' = online
    BY <1>18 DEF HandlerRefreshRejected
  <2>2. handler[h].pc \notin {"start", "check", "add", "expire", "recheck"}
    BY <1>4, <2>1 DEF Timely, NewTimer
  <2>3. Refreshing(h) => Covered(Answered(handler[h].timer, FALSE), readers.ttl)
    BY <1>1, <1>3, <1>4, <2>1, CoverKept DEF Timely
  <2>4. Timely(h)'
    BY <1>6, <2>1, <2>2, <2>3 DEF Timely
  <2> QED  BY <1>4, <1>6, <2>1, <2>4, HandlerMoves
<1>19. CASE HandlerDies(h)
  <2>1. ~Registered(h)
    BY <1>19, CleanupAssumption DEF HandlerDies, OrderlyReaders, TypeOK
  <2>2. /\ handler'[h].pc = "done" /\ \A g \in Handlers \ {h} : handler'[g] = handler[g]
    BY <1>2, <1>19 DEF HandlerDies, Handler
  <2>3. Timely(h)'
    BY <2>2 DEF Timely
  <2> QED  BY <1>4, <1>19, <2>1, <2>2, <2>3, HandlerMoves DEF HandlerDies
<1> QED
  BY <1>7, <1>8, <1>9, <1>10, <1>11, <1>12, <1>13, <1>14, <1>15, <1>16, <1>17, <1>18, <1>19
     DEF HandlerStep

\* What sweeps do touches neither the set nor a handler.
LEMMA CleanerFrame ==
    ASSUME NEW c \in Cleaners,
           CleanerStep(c) \/ CleanerDies(c) \/ MarkThrows(c) \/ CleanerRefreshRejected(c)
    PROVE  UNCHANGED <<due, readers, online, handler>>
BY DEF CleanerStep, Batch, Acquire, Mark, Unlink, ReleaseLock, CleanerTimerFires, CleanerRefresh,
   CleanerDies, MarkThrows, CleanerRefreshRejected

LEMMA SetUntouched ==
    ASSUME SetInv, UNCHANGED <<readers, handler>>, "api" \in online'
    PROVE  SetInv'
BY DEF SetInv, Timely, Registered, Refreshing

\* Time passes only while every member streams, its timer runs and no
\* refresh of it is under way.
LEMMA SetTick ==
    ASSUME OrderlyReaders, TypeOK, SetInv, Tick
    PROVE  SetInv'
<1>1. /\ SetTtl \in Nat \ {0} /\ Lost(MaxFailures) < SetTtl /\ SetRefresh \in Nat \ {0}
      /\ NoTtl = SetTtl + 1
  BY CleanupAssumption DEF OrderlyReaders, Lost, NoTtl
<1>2. /\ readers \in [ids : SUBSET Handlers, ttl : 0 .. NoTtl]
      /\ handler \in [Handlers -> Handler]
  BY DEF TypeOK, Readers
<1>3. readers.ttl \in Nat /\ \A h \in Handlers : handler[h].timer \in Timer(SetRefresh)
  BY <1>1, <1>2 DEF Handler
<1>4. "api" \in online /\ \A h \in Handlers : Timely(h) /\ (h \in readers.ids <=> Registered(h))
  BY DEF SetInv
<1>5. ASSUME NEW h \in Handlers
      PROVE  handler[h].pc \in {"start", "done"} \/ Refreshing(h)
  BY <1>4 DEF Tick, HandlerUrgent, Refreshing, TypeOK, Handler
<1>6. ASSUME NEW h \in Handlers, Refreshing(h)
      PROVE  /\ handler[h].timer.sent = 0 /\ handler[h].timer.left > 0 /\ ~Aborted(handler[h].timer)
             /\ Covered(handler[h].timer, readers.ttl)
  <2>1. /\ handler[h].timer.sent \in Nat /\ handler[h].timer.left \in Nat
    BY <1>1, <1>3, TimerFields, CleanupAssumption
  <2>2. ~HandlerUrgent(h)
    BY DEF Tick
  <2>3. ~Aborted(handler[h].timer) /\ handler[h].timer.left # 0 /\ ~(handler[h].timer.sent > 0)
    BY <1>4, <1>6, <2>2 DEF HandlerUrgent, HandlerTimerDue, Refreshing
  <2> QED  BY <1>4, <1>6, <2>1, <2>3 DEF Timely
<1>7. ASSUME NEW h \in Handlers
      PROVE  /\ handler'[h].pc = handler[h].pc
             /\ Refreshing(h) => handler'[h].timer = Ran(handler[h].timer)
  BY <1>2 DEF Tick, Handler, Ran
<1>8. readers'.ids = readers.ids
      /\ readers'.ttl = IF readers.ttl = NoTtl THEN readers.ttl ELSE readers.ttl - 1
  BY <1>1, <1>2, <1>3 DEF Tick, Minus1
<1>9. ASSUME readers.ids = {} PROVE readers' = NoReaders
  <2>1. readers = NoReaders /\ readers.ttl = NoTtl
    BY <1>9 DEF SetInv, NoReaders
  <2>2. readers' = [readers EXCEPT !.ttl = readers.ttl]
    BY <2>1 DEF Tick
  <2> QED  BY <1>2, <2>1, <2>2
<1>10. readers'.ttl > 0
  <2>1. CASE readers.ids = {}
    BY <1>1, <1>9, <2>1 DEF NoReaders
  <2>2. CASE readers.ids # {}
    <3>1. PICK h \in Handlers : h \in readers.ids /\ Registered(h)
      BY <1>2, <1>4, <2>2
    <3>2. Refreshing(h)
      BY <1>5, <3>1 DEF Registered
    <3>3. readers.ttl > 1
      BY <1>1, <1>3, <1>6, <3>2, CoverKept
    <3> QED  BY <1>1, <1>3, <1>8, <3>3
  <2> QED  BY <2>1, <2>2
<1>11. ASSUME NEW h \in Handlers PROVE Timely(h)'
  <2>1. CASE handler[h].pc = "start" \/ handler[h].pc = "done"
    <3>1. handler'[h] = handler[h]
      BY <2>1 DEF Tick, Refreshing
    <3> QED  BY <1>4, <2>1, <3>1 DEF Timely, Refreshing
  <2>2. CASE Refreshing(h)
    <3>1. Covered(Ran(handler[h].timer), readers.ttl - 1) /\ Covered(Ran(handler[h].timer), readers.ttl)
      BY <1>1, <1>3, <1>6, <2>2, CoverKept
    <3>2. Covered(Ran(handler[h].timer), readers'.ttl)
      BY <1>8, <3>1
    <3> QED  BY <1>7, <2>2, <3>2 DEF Timely, Refreshing
  <2> QED  BY <1>5, <2>1, <2>2
<1>12. readers'.ids = {h \in Handlers : Registered(h)'}
  BY <1>7, <1>8 DEF SetInv, Registered
<1>13. "api" \in online'
  BY <1>4 DEF Tick
<1> QED  BY <1>8, <1>9, <1>10, <1>11, <1>12, <1>13 DEF SetInv

LEMMA SetStep ==
    ASSUME OrderlyReaders, TypeOK, SetInv, [Next]_vars
    PROVE  SetInv'
<1>1. ASSUME NEW c \in Cleaners,
             CleanerStep(c) \/ CleanerDies(c) \/ MarkThrows(c) \/ CleanerRefreshRejected(c)
      PROVE  SetInv'
  BY <1>1, CleanerFrame, SetUntouched DEF SetInv
<1>2. CASE Due \/ LockLapses \/ UNCHANGED vars
  BY <1>2, SetUntouched DEF Due, LockLapses, vars, SetInv
<1>3. CASE SetLapses
  BY <1>3 DEF SetLapses, SetInv
<1>4. ASSUME NEW side \in {"api", "worker"}, Reconnected(side) PROVE SetInv'
  BY <1>4, SetUntouched DEF Reconnected, SetInv
<1>5. ASSUME NEW side \in {"api", "worker"}, ConnectionLost(side) PROVE SetInv'
  <2>1. side # "api"
    BY <1>5, CleanupAssumption DEF ConnectionLost, OrderlyReaders, TypeOK
  <2> QED  BY <1>5, <2>1, SetUntouched DEF ConnectionLost, SetInv
<1> QED
  BY <1>1, <1>2, <1>3, <1>4, <1>5, SetTick, SetHandlerStep DEF Next, Fault

\* While handlers keep order, whoever streams is a member of the set: a
\* rejected refresh, other members' comings and goings and a sweep at any
\* moment do not change that (download-set.ts:64-91).
THEOREM CleanupSafe ==
    ASSUME OrderlyReaders
    PROVE  Spec => []CleanupInv
<1>1. Init => SetInv
  BY CleanupAssumption DEF Init, SetInv, NoReaders, NoTtl, Registered, Timely, Refreshing
<1>2. TypeOK /\ SetInv /\ [Next]_vars => SetInv'
  BY SetStep
<1>3. TypeOK /\ SetInv => CleanupInv
  BY DEF SetInv, CleanupInv, StreamsAreRegistered, Registered, Refreshing
<1> QED  BY <1>1, <1>2, <1>3, CleanupTyped, PTL DEF Spec

-----------------------------------------------------------------------------
(* The lease.  A handler that passed the first check before the job was    *)
(* due is seen by the sweep, or it sees the sweep's lock at its re-check.  *)

Entering(h) == handler[h].pc \in {"check", "add", "expire", "recheck"}

\* Nothing is swept before it is due.
SweepsWhenDue ==
    status = "expired" \/ lock.owner # NoOne \/ (\E c \in Cleaners : cleaner[c].pc # "idle") => due

\* A sweep that works while a handler is on its way in holds the lock.
LockIsSeen ==
    \A h \in Handlers, c \in Cleaners :
        Entering(h) /\ Guarding(c) => lock.owner = c /\ lock.ttl > 0

\* Nobody is inside while a sweep works.
NobodyInside ==
    \A h \in Handlers, c \in Cleaners : Refreshing(h) => ~Guarding(c)

LeaseInv == SweepsWhenDue /\ LockIsSeen /\ NobodyInside

\* The ways of a handler through the route, and what else a step of its
\* leaves alone.
LEMMA HandlerPath ==
    ASSUME TypeOK, NEW h \in Handlers,
           HandlerStep(h) \/ HandlerDies(h) \/ HandlerRefreshRejected(h)
    PROVE  /\ UNCHANGED <<due, status, file, lock, cleaner, online>>
           /\ \A g \in Handlers \ {h} : handler'[g] = handler[g]
           /\ LET from == handler[h].pc
                  to == handler'[h].pc
              IN  \/ to \in {from, "done", "withdraw", "release"}
                  \/ from = "start" /\ to = "check" /\ status = "succeeded" /\ ~due
                  \/ from = "check" /\ to = "add"
                  \/ from = "add" /\ to = "expire"
                  \/ from = "expire" /\ to = "recheck"
                  \/ from = "recheck" /\ to = "stat" /\ lock.owner = NoOne
                  \/ from = "stat" /\ to = "stream" /\ file
<1>1. handler \in [Handlers -> Handler] /\ handler[h] \in Handler
  BY DEF TypeOK
<1>2. UNCHANGED <<due, status, file, lock, cleaner, online>>
  BY DEF HandlerStep, ReadRow, PreCheck, Register, SetExpiry, Recheck, Withdraw, Stat, StreamEnds,
     ReleaseHandler, HandlerTimerFires, HandlerRefresh, HandlerDies, HandlerRefreshRejected
<1>3. \A g \in Handlers \ {h} : handler'[g] = handler[g]
  BY <1>1 DEF HandlerStep, ReadRow, PreCheck, Register, SetExpiry, Recheck, Withdraw, Stat, StreamEnds,
     ReleaseHandler, HandlerTimerFires, HandlerRefresh, HandlerDies, HandlerRefreshRejected, Goto
<1>4. ASSUME NEW pc, Goto(h, pc) PROVE handler'[h].pc = pc
  BY <1>1, <1>4 DEF Goto, Handler
<1>5. CASE ReadRow(h) \/ PreCheck(h) \/ Register(h) \/ SetExpiry(h)
  BY <1>2, <1>3, <1>4, <1>5 DEF ReadRow, PreCheck, Register, SetExpiry
<1>6. CASE Recheck(h) \/ Withdraw(h) \/ StreamEnds(h) \/ ReleaseHandler(h)
  BY <1>2, <1>3, <1>4, <1>6 DEF Recheck, AfterRecheck, Withdraw, StreamEnds, ReleaseHandler
<1>7. CASE Stat(h)
  <2>1. handler'[h].pc = IF file /\ KeyResolves THEN "stream" ELSE "release"
    BY <1>1, <1>7 DEF Stat, Handler
  <2> QED  BY <1>2, <1>3, <1>7, <2>1 DEF Stat
<1>8. CASE HandlerTimerFires(h) \/ HandlerRefresh(h) \/ HandlerRefreshRejected(h)
  <2>1. PICK t : handler' = [handler EXCEPT ![h].timer = t]
    BY <1>8 DEF HandlerTimerFires, HandlerRefresh, HandlerRefreshRejected
  <2>2. handler'[h].pc = handler[h].pc
    BY <1>1, <2>1 DEF Handler
  <2> QED  BY <1>2, <1>3, <2>2
<1>9. CASE HandlerDies(h)
  <2>1. handler'[h].pc = "done"
    BY <1>1, <1>9 DEF HandlerDies, Handler
  <2> QED  BY <1>2, <1>3, <2>1
<1> QED  BY <1>5, <1>6, <1>7, <1>8, <1>9 DEF HandlerStep

LEMMA LeaseHandlerStep ==
    ASSUME TypeOK, LeaseInv, NEW h \in Handlers,
           HandlerStep(h) \/ HandlerDies(h) \/ HandlerRefreshRejected(h)
    PROVE  LeaseInv'
<1>1. handler[h] \in Handler
  BY DEF TypeOK
<1>2. UNCHANGED <<due, status, lock, cleaner>>
  BY HandlerPath
<1>3. \A g \in Handlers \ {h} : handler'[g] = handler[g]
  BY HandlerPath
<1>4. Entering(h)' => Entering(h) \/ (~due /\ status = "succeeded")
  BY HandlerPath DEF Entering
<1>5. Refreshing(h)' => Refreshing(h) \/ (Entering(h) /\ lock.owner = NoOne)
  BY HandlerPath DEF Entering, Refreshing
<1>6. \A c \in Cleaners : Guarding(c)' <=> Guarding(c)
  BY <1>2 DEF Guarding
<1>7. SweepsWhenDue'
  BY <1>2 DEF LeaseInv, SweepsWhenDue
<1>8. \A c \in Cleaners : Guarding(c) => due
  BY DEF LeaseInv, SweepsWhenDue, Guarding
<1>9. LockIsSeen'
  BY <1>2, <1>3, <1>4, <1>6, <1>8 DEF LeaseInv, LockIsSeen, Entering
<1>10. NobodyInside'
  BY <1>2, <1>3, <1>5, <1>6, CleanupAssumption DEF LeaseInv, LockIsSeen, NobodyInside, Entering, Refreshing
<1> QED  BY <1>7, <1>9, <1>10 DEF LeaseInv

LEMMA LeaseCleanerStep ==
    ASSUME TypeOK, SetInv, LeaseInv, NEW c \in Cleaners,
           CleanerStep(c) \/ CleanerDies(c) \/ MarkThrows(c) \/ CleanerRefreshRejected(c)
    PROVE  LeaseInv'
<1>1. cleaner \in [Cleaners -> Cleaner] /\ lock \in Lock /\ cleaner[c] \in Cleaner
  BY DEF TypeOK
<1>2. UNCHANGED <<due, readers, online, handler>>
  BY CleanerFrame
<1>3. \A h \in Handlers : (Entering(h)' <=> Entering(h)) /\ (Refreshing(h)' <=> Refreshing(h))
  BY <1>2 DEF Entering, Refreshing
<1>4. CASE Acquire(c) /\ Acquirable(lock, readers)
  <2>1. /\ lock' = [owner |-> c, ttl |-> LockTtl] /\ LockTtl > 0
        /\ cleaner[c].pc = "lock" /\ status' = status
        /\ \A d \in Cleaners \ {c} : cleaner'[d] = cleaner[d]
        /\ lock.owner = NoOne /\ readers.ids = {}
    BY <1>1, <1>4, CleanupAssumption DEF Acquire, Acquirable
  <2>2. due
    BY <2>1 DEF LeaseInv, SweepsWhenDue
  <2>3. \A h \in Handlers : ~Refreshing(h)
    BY <2>1 DEF SetInv, Registered, Refreshing
  <2>4. LockIsSeen'
    BY <1>3, <2>1, CleanupAssumption DEF LeaseInv, LockIsSeen, Guarding
  <2> QED  BY <1>2, <1>3, <2>2, <2>3, <2>4 DEF LeaseInv, SweepsWhenDue, NobodyInside
<1>5. ASSUME \A d \in Cleaners \ {c} : cleaner'[d] = cleaner[d],
             Guarding(c)' => Guarding(c),
             SweepsWhenDue',
             lock' = lock \/ lock' = SafeRefreshed(lock, c)
                \/ (~Guarding(c)' /\ lock' = SafeUnlocked(lock, c))
      PROVE  LeaseInv'
  <2>1. \A d \in Cleaners : Guarding(d)' => Guarding(d)
    BY <1>5 DEF Guarding
  <2>2. NobodyInside'
    BY <1>3, <2>1 DEF LeaseInv, NobodyInside
  <2>3. ASSUME NEW h \in Handlers, NEW d \in Cleaners, Entering(h)', Guarding(d)'
        PROVE  lock'.owner = d /\ lock'.ttl > 0
    <3>1. lock.owner = d /\ lock.ttl > 0
      BY <1>3, <2>1, <2>3 DEF LeaseInv, LockIsSeen
    <3>2. CASE lock' = lock
      BY <3>1, <3>2
    <3>3. CASE lock' = SafeRefreshed(lock, c)
      BY <1>1, <3>1, <3>3, CleanupAssumption DEF SafeRefreshed, Lock
    <3>4. CASE ~Guarding(c)' /\ lock' = SafeUnlocked(lock, c)
      BY <2>3, <3>1, <3>4 DEF SafeUnlocked
    <3> QED  BY <1>5, <3>2, <3>3, <3>4
  <2>4. LockIsSeen'
    BY <2>3 DEF LockIsSeen
  <2> QED  BY <1>5, <2>2, <2>4 DEF LeaseInv
<1>6. CASE Batch(c)
  <2>1. due /\ lock' = lock /\ cleaner'[c].pc = "lock" /\ \A d \in Cleaners \ {c} : cleaner'[d] = cleaner[d]
    BY <1>1, <1>6 DEF Batch, MoveTo, Cleaner
  <2> QED  BY <1>2, <1>5, <2>1 DEF Guarding, SweepsWhenDue
<1>7. ASSUME cleaner[c].pc # "idle", lock'.owner # NoOne => lock.owner # NoOne
      PROVE  SweepsWhenDue'
  BY <1>2, <1>7 DEF LeaseInv, SweepsWhenDue
<1>8. CASE Acquire(c) /\ ~Acquirable(lock, readers)
  <2>1. /\ lock' = lock /\ cleaner[c].pc = "lock" /\ cleaner'[c].pc = "idle"
        /\ \A d \in Cleaners \ {c} : cleaner'[d] = cleaner[d]
    BY <1>1, <1>8 DEF Acquire, MoveTo, Cleaner
  <2> QED  BY <1>5, <1>7, <2>1 DEF Guarding
<1>9. CASE Mark(c)
  <2>1. /\ lock' = lock /\ cleaner[c].pc = "mark" /\ \A d \in Cleaners \ {c} : cleaner'[d] = cleaner[d]
    BY <1>1, <1>9 DEF Mark, MoveTo
  <2> QED  BY <1>5, <1>7, <2>1 DEF Guarding
<1>10. CASE Unlink(c)
  <2>1. /\ lock' = lock /\ cleaner[c].pc = "unlink" /\ cleaner'[c].pc = "release"
        /\ \A d \in Cleaners \ {c} : cleaner'[d] = cleaner[d]
    BY <1>1, <1>10 DEF Unlink, MoveTo, Cleaner
  <2> QED  BY <1>5, <1>7, <2>1 DEF Guarding
<1>11. CASE ReleaseLock(c)
  <2>1. /\ lock' = SafeUnlocked(lock, c) /\ cleaner[c].pc = "release" /\ cleaner'[c].pc = "idle"
        /\ \A d \in Cleaners \ {c} : cleaner'[d] = cleaner[d]
    BY <1>1, <1>11 DEF ReleaseLock, MoveTo, Cleaner
  <2>2. lock'.owner # NoOne => lock.owner # NoOne
    BY <2>1 DEF SafeUnlocked, Free
  <2> QED  BY <1>5, <1>7, <2>1, <2>2 DEF Guarding
<1>12. ASSUME cleaner'[c].pc = cleaner[c].pc, \A d \in Cleaners \ {c} : cleaner'[d] = cleaner[d],
              status' = status, lock' = lock \/ lock' = SafeRefreshed(lock, c)
       PROVE  LeaseInv'
  <2>1. lock'.owner = lock.owner
    BY <1>1, <1>12 DEF SafeRefreshed, Lock
  <2>2. SweepsWhenDue'
    BY <1>2, <1>12, <2>1 DEF LeaseInv, SweepsWhenDue
  <2> QED  BY <1>5, <1>12, <2>2 DEF Guarding
<1>13. CASE CleanerTimerFires(c)
  BY <1>1, <1>12, <1>13 DEF CleanerTimerFires, Cleaner
<1>14. CASE CleanerRefresh(c)
  BY <1>1, <1>12, <1>14 DEF CleanerRefresh, Cleaner
<1>15. CASE CleanerRefreshRejected(c)
  BY <1>1, <1>12, <1>15 DEF CleanerRefreshRejected, Cleaner
<1>16. CASE CleanerDies(c)
  <2>1. /\ lock' = lock /\ cleaner[c].pc # "idle" /\ cleaner'[c].pc = "idle"
        /\ \A d \in Cleaners \ {c} : cleaner'[d] = cleaner[d]
    BY <1>1, <1>16 DEF CleanerDies
  <2> QED  BY <1>5, <1>7, <2>1 DEF Guarding
<1>17. CASE MarkThrows(c)
  <2>1. /\ lock' = lock /\ cleaner[c].pc # "idle" /\ cleaner'[c].pc = "release"
        /\ \A d \in Cleaners \ {c} : cleaner'[d] = cleaner[d]
    BY <1>1, <1>17 DEF MarkThrows, MoveTo, Cleaner
  <2> QED  BY <1>5, <1>7, <2>1 DEF Guarding
<1> QED
  BY <1>4, <1>6, <1>8, <1>9, <1>10, <1>11, <1>13, <1>14, <1>15, <1>16, <1>17 DEF CleanerStep

LEMMA LeaseStep ==
    ASSUME TypeOK, SetInv, LeaseInv, [Next]_vars
    PROVE  LeaseInv'
<1> USE DEF LeaseInv, SweepsWhenDue, LockIsSeen, NobodyInside
<1>1. CASE Due
  BY <1>1 DEF Due, Entering, Guarding, Refreshing
<1>2. CASE LockLapses
  BY <1>2 DEF LockLapses, Free, Entering, Guarding, Refreshing
<1>3. CASE SetLapses \/ UNCHANGED vars
  BY <1>3 DEF SetLapses, vars, Entering, Guarding, Refreshing
<1>4. CASE Tick
  <2>1. \A c \in Cleaners : cleaner'[c].pc = cleaner[c].pc
    BY <1>4 DEF Tick, TypeOK, Cleaner
  <2>2. \A h \in Handlers : handler'[h].pc = handler[h].pc
    BY <1>4 DEF Tick, TypeOK, Handler
  <2>3. \A h \in Handlers : ~Entering(h)
    BY <1>4 DEF Tick, HandlerUrgent, Entering, SetInv
  <2>4. lock'.owner = lock.owner /\ UNCHANGED <<due, status>>
    BY <1>4 DEF Tick, TypeOK, Lock
  <2> QED  BY <2>1, <2>2, <2>3, <2>4 DEF Entering, Guarding, Refreshing
<1>5. ASSUME NEW side, Reconnected(side) \/ ConnectionLost(side) PROVE LeaseInv'
  BY <1>5 DEF Reconnected, ConnectionLost, Entering, Guarding, Refreshing
<1> QED
  BY <1>1, <1>2, <1>3, <1>4, <1>5, LeaseHandlerStep, LeaseCleanerStep DEF Next, Fault

\* A step of the protocol is a step of the lease or leaves it alone.
LEMMA StepsRefine ==
    ASSUME TypeOK, SetInv, LeaseInv, [Next]_vars
    PROVE  [Lease!Next]_<<file, [h \in Handlers |-> Place(handler[h].pc)]>>
<1> DEFINE reader == [h \in Handlers |-> Place(handler[h].pc)]
<1>1. handler \in [Handlers -> Handler]
  BY DEF TypeOK
<1>2. ASSUME handler' = handler \/ \A h \in Handlers : handler'[h].pc = handler[h].pc
      PROVE  reader' = reader
  BY <1>2
<1>3. ASSUME NEW h \in Handlers, HandlerStep(h) \/ HandlerDies(h) \/ HandlerRefreshRejected(h)
      PROVE  Lease!Enter(h) \/ Lease!Read(h) \/ Lease!Leave(h) \/ (file' = file /\ reader' = reader)
  <2>1. file' = file
    BY <1>3, HandlerPath
  <2>2. \A g \in Handlers \ {h} : handler'[g] = handler[g]
    BY <1>3, HandlerPath
  <2>3. \/ Place(handler'[h].pc) = Place(handler[h].pc)
        \/ Place(handler[h].pc) = "outside" /\ Place(handler'[h].pc) = "inside"
        \/ Place(handler[h].pc) = "inside" /\ file /\ Place(handler'[h].pc) = "reading"
        \/ Place(handler[h].pc) # "outside" /\ Place(handler'[h].pc) = "outside"
    BY <1>3, HandlerPath DEF Place
  <2>4. reader' = [reader EXCEPT ![h] = Place(handler'[h].pc)]
    BY <2>2
  <2> QED  BY <2>1, <2>3, <2>4 DEF Lease!Enter, Lease!Read, Lease!Leave
<1>4. ASSUME NEW c \in Cleaners,
             CleanerStep(c) \/ CleanerDies(c) \/ MarkThrows(c) \/ CleanerRefreshRejected(c)
      PROVE  Lease!Remove \/ (file' = file /\ reader' = reader)
  <2>1. handler' = handler
    BY <1>4, CleanerFrame
  <2>2. CASE Unlink(c)
    <3>1. \A h \in Handlers : ~Refreshing(h)
      BY <2>2 DEF Unlink, LeaseInv, NobodyInside, Guarding
    <3>2. \A h \in Handlers : reader[h] = "outside"
      BY <3>1 DEF Refreshing, Place
    <3>3. file' = FALSE \/ file' = file
      BY <2>2 DEF Unlink, TypeOK
    <3> QED  BY <1>2, <2>1, <3>2, <3>3 DEF Lease!Remove
  <2>3. CASE ~Unlink(c)
    BY <1>2, <1>4, <2>1, <2>3 DEF CleanerStep, Batch, Acquire, Mark, ReleaseLock, CleanerTimerFires,
       CleanerRefresh, CleanerDies, MarkThrows, CleanerRefreshRejected
  <2> QED  BY <2>2, <2>3
<1>5. CASE Due \/ LockLapses \/ SetLapses \/ UNCHANGED vars
  BY <1>2, <1>5 DEF Due, LockLapses, SetLapses, vars
<1>6. CASE Tick
  BY <1>1, <1>2, <1>6 DEF Tick, Handler
<1>7. ASSUME NEW side, Reconnected(side) \/ ConnectionLost(side)
      PROVE  file' = file /\ reader' = reader
  BY <1>2, <1>7 DEF Reconnected, ConnectionLost
<1> QED
  BY <1>3, <1>4, <1>5, <1>6, <1>7 DEF Next, Fault, Lease!Next

\* The download route and the sweep together keep the lease: the file is not
\* removed while anybody is between his re-check and the end of his stream
\* (download-set.ts:33-46, expired-sweep.ts, redis-scripts.ts).  Sweeps may
\* die, throw, lose the lock or their connection at any point.
THEOREM CleanupImplementsLease ==
    ASSUME OrderlyReaders
    PROVE  Spec => ImplementsLease
<1>1. Init => Lease!Init
  BY DEF Init, Lease!Init, Place
<1>2. Init => SetInv /\ LeaseInv
  BY CleanupAssumption DEF Init, SetInv, NoReaders, NoTtl, Registered, Timely, Refreshing, LeaseInv,
     SweepsWhenDue, LockIsSeen, NobodyInside, Entering, Guarding, Free
<1>3. TypeOK /\ SetInv /\ LeaseInv /\ [Next]_vars => SetInv' /\ LeaseInv'
  BY SetStep, LeaseStep
<1>4. TypeOK /\ SetInv /\ LeaseInv /\ [Next]_vars
         => [Lease!Next]_<<file, [h \in Handlers |-> Place(handler[h].pc)]>>
  BY StepsRefine
<1> QED
  BY <1>1, <1>2, <1>3, <1>4, CleanupTyped, PTL DEF Spec, ImplementsLease, Lease!Spec

-----------------------------------------------------------------------------
(* One sweep at a time, while no refresh of the lock is rejected, the      *)
(* worker keeps its connection and the interval is below the TTL.          *)

OrderlySweeps ==
    /\ RefreshFaults = 0
    /\ Outages = 0 \/ "worker" \notin Unreliable
    /\ LockRefresh < LockTtl

\* Whoever works holds the lock, and his timer renews it in time.
HoldInv ==
    /\ "worker" \in online
    /\ \A c \in Cleaners : Guarding(c) => lock.owner = c /\ Held(cleaner[c].timer, lock.ttl)

LEMMA HoldCleanerStep ==
    ASSUME OrderlySweeps, TypeOK, HoldInv, NEW c \in Cleaners,
           CleanerStep(c) \/ CleanerDies(c) \/ MarkThrows(c) \/ CleanerRefreshRejected(c)
    PROVE  HoldInv'
<1>1. /\ LockTtl \in Nat \ {0} /\ LockRefresh \in Nat \ {0} /\ LockRefresh < LockTtl
  BY CleanupAssumption DEF OrderlySweeps
<1>2. /\ cleaner \in [Cleaners -> Cleaner] /\ cleaner[c] \in Cleaner
      /\ lock \in [owner : Cleaners \cup {NoOne}, ttl : 0 .. LockTtl] /\ lock.ttl \in Nat
  BY <1>1 DEF TypeOK, Lock
<1>3. cleaner[c].timer \in Timer(LockRefresh)
  BY <1>2 DEF Cleaner
<1>4. "worker" \in online'
  BY CleanerFrame DEF HoldInv
<1>5. ASSUME \A d \in Cleaners \ {c} : cleaner'[d] = cleaner[d],
             Guarding(c)' => lock'.owner = c /\ Held(cleaner'[c].timer, lock'.ttl),
             \A d \in Cleaners \ {c} : lock.owner = d => lock' = lock
      PROVE  HoldInv'
  BY <1>4, <1>5 DEF HoldInv, Guarding
<1>6. CASE Batch(c) \/ (Acquire(c) /\ ~Acquirable(lock, readers)) \/ Unlink(c) \/ CleanerDies(c) \/ MarkThrows(c)
  <2>1. lock' = lock /\ \A d \in Cleaners \ {c} : cleaner'[d] = cleaner[d]
    BY <1>2, <1>6 DEF Batch, Acquire, Unlink, CleanerDies, MarkThrows, MoveTo
  <2>2. ~Guarding(c)'
    BY <1>2, <1>6 DEF Batch, Acquire, Unlink, CleanerDies, MarkThrows, MoveTo, Guarding, Cleaner
  <2> QED  BY <1>5, <2>1, <2>2
<1>7. CASE Acquire(c) /\ Acquirable(lock, readers)
  <2>1. /\ lock' = [owner |-> c, ttl |-> LockTtl] /\ lock.owner = NoOne
        /\ cleaner'[c].timer = NewTimer(LockRefresh)
        /\ \A d \in Cleaners \ {c} : cleaner'[d] = cleaner[d]
    BY <1>2, <1>7 DEF Acquire, Acquirable
  <2> QED  BY <1>1, <1>5, <2>1, HoldKept, CleanupAssumption
<1>8. CASE Mark(c)
  <2>1. /\ lock' = lock /\ Guarding(c) /\ cleaner'[c].timer = cleaner[c].timer
        /\ \A d \in Cleaners \ {c} : cleaner'[d] = cleaner[d]
    BY <1>2, <1>8 DEF Mark, MoveTo, Guarding, Cleaner
  <2> QED  BY <1>5, <2>1 DEF HoldInv
<1>9. CASE ReleaseLock(c)
  <2>1. /\ lock' = SafeUnlocked(lock, c) /\ cleaner'[c].pc = "idle"
        /\ \A d \in Cleaners \ {c} : cleaner'[d] = cleaner[d]
    BY <1>2, <1>9 DEF ReleaseLock, MoveTo, Cleaner
  <2> QED  BY <1>5, <2>1 DEF SafeUnlocked, Guarding
<1>10. CASE CleanerTimerFires(c)
  <2>1. /\ lock' = lock /\ Guarding(c) /\ cleaner[c].timer.left = 0
        /\ cleaner'[c].timer = Fired(cleaner[c].timer, LockRefresh)
        /\ \A d \in Cleaners \ {c} : cleaner'[d] = cleaner[d]
    BY <1>2, <1>10 DEF CleanerTimerFires, CleanerTimerDue, Cleaner
  <2>2. lock.owner = c /\ Held(Fired(cleaner[c].timer, LockRefresh), lock.ttl)
    BY <1>1, <1>2, <1>3, <2>1, HoldKept DEF HoldInv
  <2> QED  BY <1>5, <2>1, <2>2
<1>11. CASE CleanerRefresh(c)
  <2>1. /\ lock' = SafeRefreshed(lock, c) /\ cleaner[c].timer.sent > 0
        /\ cleaner'[c].timer = Answered(cleaner[c].timer, lock.owner = c)
        /\ cleaner'[c].pc = cleaner[c].pc
        /\ \A d \in Cleaners \ {c} : cleaner'[d] = cleaner[d]
    BY <1>2, <1>11 DEF CleanerRefresh, Cleaner
  <2>2. ASSUME Guarding(c)' PROVE lock'.owner = c /\ Held(cleaner'[c].timer, lock'.ttl)
    <3>1. Guarding(c)
      BY <2>1, <2>2 DEF Guarding
    <3>2. lock.owner = c /\ Held(Answered(cleaner[c].timer, TRUE), LockTtl)
      BY <1>1, <1>2, <1>3, <2>1, <3>1, HoldKept DEF HoldInv
    <3>3. lock'.owner = c /\ lock'.ttl = LockTtl
      BY <1>2, <2>1, <3>2 DEF SafeRefreshed
    <3>4. cleaner'[c].timer = Answered(cleaner[c].timer, TRUE)
      BY <2>1, <3>2
    <3> QED  BY <3>2, <3>3, <3>4
  <2>3. \A d \in Cleaners \ {c} : lock.owner = d => lock' = lock
    BY <2>1 DEF SafeRefreshed
  <2> QED  BY <1>5, <2>1, <2>2, <2>3
<1>12. CASE CleanerRefreshRejected(c)
  BY <1>12 DEF CleanerRefreshRejected, OrderlySweeps, TypeOK
<1> QED
  BY <1>6, <1>7, <1>8, <1>9, <1>10, <1>11, <1>12 DEF CleanerStep

LEMMA HoldStep ==
    ASSUME OrderlySweeps, TypeOK, HoldInv, [Next]_vars
    PROVE  HoldInv'
<1>1. /\ LockTtl \in Nat \ {0} /\ LockRefresh \in Nat \ {0} /\ LockRefresh < LockTtl
  BY CleanupAssumption DEF OrderlySweeps
<1>2. /\ cleaner \in [Cleaners -> Cleaner] /\ lock.ttl \in Nat
      /\ lock \in [owner : Cleaners \cup {NoOne}, ttl : 0 .. LockTtl]
  BY <1>1 DEF TypeOK, Lock
<1>3. ASSUME NEW h \in Handlers, HandlerStep(h) \/ HandlerDies(h) \/ HandlerRefreshRejected(h)
      PROVE  UNCHANGED <<lock, online, cleaner>>
  BY <1>3 DEF HandlerStep, ReadRow, PreCheck, Register, SetExpiry, Recheck, Withdraw, Stat, StreamEnds,
     ReleaseHandler, HandlerTimerFires, HandlerRefresh, HandlerDies, HandlerRefreshRejected
<1>4. ASSUME UNCHANGED <<lock, cleaner>>, "worker" \in online' PROVE HoldInv'
  BY <1>4 DEF HoldInv, Guarding
<1>5. CASE Due \/ SetLapses \/ UNCHANGED vars
  BY <1>4, <1>5 DEF Due, SetLapses, vars, HoldInv
<1>6. CASE LockLapses
  BY <1>6 DEF LockLapses, HoldInv, Held, Guarding
<1>7. CASE Tick
  <2>1. lock'.owner = lock.owner /\ lock'.ttl = Minus1(lock.ttl) /\ "worker" \in online'
    BY <1>2, <1>7 DEF Tick, HoldInv
  <2>2. ASSUME NEW c \in Cleaners, Guarding(c)' PROVE lock'.owner = c /\ Held(cleaner'[c].timer, lock'.ttl)
    <3>1. Guarding(c)
      BY <1>2, <1>7, <2>2 DEF Tick, Guarding, Cleaner
    <3>2. cleaner'[c].timer = Ran(cleaner[c].timer)
      BY <1>2, <1>7, <3>1 DEF Tick, Cleaner, Ran
    <3>3. cleaner[c].timer \in Timer(LockRefresh)
      BY <1>2 DEF Cleaner
    <3>4. lock.owner = c /\ Held(cleaner[c].timer, lock.ttl)
      BY <3>1 DEF HoldInv
    <3>5. cleaner[c].timer.left # 0 /\ ~(cleaner[c].timer.sent > 0)
      <4>1. ~Aborted(cleaner[c].timer)
        BY <1>1, <1>2, <3>3, <3>4, HoldKept
      <4> QED  BY <1>7, <3>1, <4>1 DEF Tick, CleanerUrgent, CleanerTimerDue, HoldInv
    <3>6. cleaner[c].timer.left > 0 /\ cleaner[c].timer.sent = 0
      BY <1>1, <3>3, <3>5, TimerFields, CleanupAssumption
    <3>7. Held(Ran(cleaner[c].timer), Minus1(lock.ttl))
      BY <1>1, <1>2, <3>3, <3>4, <3>6, HoldKept
    <3> QED  BY <2>1, <3>2, <3>4, <3>7
  <2> QED  BY <2>1, <2>2 DEF HoldInv
<1>8. ASSUME NEW side, Reconnected(side) PROVE HoldInv'
  BY <1>4, <1>8 DEF Reconnected, HoldInv
<1>9. ASSUME NEW side \in {"api", "worker"}, ConnectionLost(side) PROVE HoldInv'
  <2>1. side # "worker"
    BY <1>9, CleanupAssumption DEF ConnectionLost, OrderlySweeps, TypeOK
  <2> QED  BY <1>4, <1>9, <2>1 DEF ConnectionLost, HoldInv
<1> QED
  BY <1>3, <1>4, <1>5, <1>6, <1>7, <1>8, <1>9, HoldCleanerStep DEF Next, Fault, HoldInv

\* At most one sweep works on the job's row and files, whatever sweeps die
\* or throw, as long as every refresh of the lock gets through
\* (expired-sweep.ts, "at-most-one-worker-per-job semantics").
THEOREM CleanerIsAlone ==
    ASSUME OrderlySweeps
    PROVE  Spec => []OneCleaner
<1>1. Init => HoldInv
  BY DEF Init, HoldInv, Guarding
<1>2. TypeOK /\ HoldInv /\ [Next]_vars => HoldInv'
  BY HoldStep
<1>3. HoldInv => OneCleaner
  BY DEF HoldInv, OneCleaner
<1> QED  BY <1>1, <1>2, <1>3, CleanupTyped, PTL DEF Spec

=============================================================================
