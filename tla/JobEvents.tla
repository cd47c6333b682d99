----------------------------- MODULE JobEvents -----------------------------
(***************************************************************************)
(* How the job page learns what becomes of a job: the row's writers        *)
(* publish on job:status:<id>, the API turns what it hears into server-    *)
(* sent events, each event makes the page fetch its status fragment, and a *)
(* watchdog in the page falls back to polling when the stream is silent.   *)
(*                                                                         *)
(* Redis pub/sub and the browser's EventSource are external: a message     *)
(* reaches those who listen when it is published, in order, or is lost     *)
(* with the connection; a closed EventSource connects again.               *)
(***************************************************************************)
EXTENDS Naturals, Sequences, FiniteSets

CONSTANTS
    MaxHandlers,  \* bound: GET /jobs/:id/events handlers at once
    MaxSources,   \* bound: EventSource objects one page opens
    MaxFetches,   \* bound: fetches of the fragment in flight at once
    Faults        \* bound: dropped connections, lost messages, failed fetches

ASSUME EventsAssumption ==
    /\ MaxHandlers \in Nat
    /\ {MaxSources, MaxFetches} \subseteq Nat \ {0}
    /\ Faults \in Nat

VARIABLES
    row,       \* Job.status
    worker,    \* processJob
    cancel,    \* DELETE /jobs/:id
    handler,   \* the API's stream handlers
    page,      \* the open page
    faults     \* faults suffered so far

vars == <<row, worker, cancel, handler, page, faults>>

-----------------------------------------------------------------------------

Terminal == {"succeeded", "failed", "canceled", "expired"}
Status == {"uploading", "queued", "processing"} \cup Terminal
Unread == "unread"
Handlers == 1 .. MaxHandlers
Fetches == 1 .. MaxFetches

Handler ==
    [pc : {"idle", "find", "subscribe", "listen", "ended"},
     here : BOOLEAN,                        \* is the client still connected?
     inbox : Seq({"processing", "succeeded", "canceled"}),
     cleanups : 0 .. 2]
Fetch ==
    [answer : {"none", "asked"} \cup Status,
     crossed : BOOLEAN]                     \* was another in flight with it?
Page ==
    [mode : {"closed", "sse", "polling"}, shown : Status \cup {Unread},
     fetch : [Fetches -> Fetch],
     busy : BOOLEAN, again : BOOLEAN,       \* the element's xhr and queuedRequests
     quiet : BOOLEAN, polled : BOOLEAN, sources : 0 .. MaxSources]

TypeOK ==
    /\ row \in Status
    /\ worker \in {"none", "waiting", "announce", "work", "publish", "done"}
    /\ cancel \in {"none", "update", "publish", "done"}
    /\ handler \in [Handlers -> Handler]
    /\ page \in Page
    /\ Cardinality({h \in Handlers : handler[h].here}) <= page.sources
    /\ \A h \in Handlers : handler[h].cleanups > 0 => handler[h].pc \in {"listen", "ended"}
    /\ faults \in 0 .. Faults

IdleHandler == [pc |-> "idle", here |-> FALSE, inbox |-> <<>>, cleanups |-> 0]
NoFetch == [answer |-> "none", crossed |-> FALSE]
ClosedPage ==
    [mode |-> "closed", shown |-> Unread, fetch |-> [f \in Fetches |-> NoFetch],
     busy |-> FALSE, again |-> FALSE, quiet |-> FALSE, polled |-> FALSE, sources |-> 0]

Init ==
    /\ row = "uploading"
    /\ worker = "none"
    /\ cancel = "none"
    /\ handler = [h \in Handlers |-> IdleHandler]
    /\ page = ClosedPage
    /\ faults = 0

Fault == faults < Faults /\ faults' = faults + 1

\* Those who listen get the message; one whose subscription or message
\* handler is not there yet does not.
Publish(message) ==
    handler' = [h \in Handlers |->
        IF handler[h].pc = "listen" /\ handler[h].cleanups = 0
        THEN [handler[h] EXCEPT !.inbox = Append(@, message)] ELSE handler[h]]

-----------------------------------------------------------------------------
(* The row's writers, as JobPipeline has them in detail.                   *)

\* A write that does not ask what the row has become.
Unguarded == TRUE

\* updateMany where status is notIn the final ones.
InFlight == row \notin Terminal

\* The hook queues the job, or rejects the upload; a sweep expires it.  The
\* page is told of none of them.
UploadEnds ==
    /\ row = "uploading"
    /\ \/ row' = "queued" /\ worker' = "waiting"
       \/ row' \in {"failed", "expired"} /\ UNCHANGED worker
    /\ UNCHANGED <<cancel, handler, page, faults>>

WorkerBegins ==
    /\ worker = "waiting"
    /\ row' = IF InFlight THEN "processing" ELSE row
    /\ worker' = "announce"
    /\ UNCHANGED <<cancel, handler, page, faults>>

\* Published whatever the update has counted.
WorkerAnnounces ==
    /\ worker = "announce"
    /\ Publish("processing")
    /\ worker' = "work"
    /\ UNCHANGED <<row, cancel, page, faults>>

\* A failure is written and published like a success.
WorkerFinishes ==
    /\ worker = "work"
    /\ \/ /\ InFlight
          /\ row' = "succeeded"
          /\ worker' = "publish"
       \/ /\ ~InFlight
          /\ worker' = "done"
          /\ UNCHANGED row
    /\ UNCHANGED <<cancel, handler, page, faults>>

WorkerPublishes ==
    /\ worker = "publish"
    /\ Publish("succeeded")
    /\ worker' = "done"
    /\ UNCHANGED <<row, cancel, page, faults>>

CancelStarts ==
    /\ cancel = "none"
    /\ row \in {"queued", "processing"}
    /\ cancel' = "update"
    /\ UNCHANGED <<row, worker, handler, page, faults>>

CancelUpdates ==
    /\ cancel = "update"
    /\ row' = IF InFlight THEN "canceled" ELSE row
    /\ cancel' = "publish"
    /\ UNCHANGED <<worker, handler, page, faults>>

\* Published whatever the update has counted.
CancelPublishes ==
    /\ cancel = "publish"
    /\ Publish("canceled")
    /\ cancel' = "done"
    /\ UNCHANGED <<row, worker, page, faults>>

\* The expired sweep publishes nothing.
Expire ==
    /\ row = "succeeded"
    /\ row' = "expired"
    /\ UNCHANGED <<worker, cancel, handler, page, faults>>

-----------------------------------------------------------------------------
(* GET /api/v1/jobs/:id/events                                             *)

InFlightOf(p) == {f \in Fetches : p.fetch[f].answer # "none"}

\* A request goes out, beside those that htmx has forgotten.
Sent(p) ==
    LET others == InFlightOf(p)
        new == CHOOSE f \in Fetches \ others : TRUE
    IN  [p EXCEPT !.busy = TRUE, !.fetch = [f \in Fetches |->
            CASE f = new -> [answer |-> "asked", crossed |-> others # {}]
              [] f \in others -> [p.fetch[f] EXCEPT !.crossed = TRUE]
              [] OTHER -> p.fetch[f]]]

\* htmx: an element that has a request in flight queues the last one asked.
Asked(p) == IF p.busy THEN [p EXCEPT !.again = TRUE] ELSE Sent(p)

\* An event reaches the page: it is a sign of life in either mode, and a
\* trigger only as long as hx-trigger names the stream's events.
Event(p) == IF p.mode = "sse" THEN Asked([p EXCEPT !.quiet = FALSE]) ELSE [p EXCEPT !.quiet = FALSE]
Sends(h) == page' = IF handler[h].here THEN Event(page) ELSE page

\* A set of end states with one that is none.
EndsOnProcessing(status) == status \in Terminal \cup {"processing"}

IsEnd(status) == status \in Terminal

\* A source of the page has no connection at the moment.
SourceIdle == Cardinality({h \in Handlers : handler[h].here}) < page.sources

\* An EventSource of the page connects, or connects again, to the first
\* handler that is free.
Connect(h) ==
    /\ handler[h] = IdleHandler
    /\ \A g \in Handlers : g < h => handler[g] # IdleHandler
    /\ page.sources > 0
    /\ SourceIdle
    /\ handler' = [handler EXCEPT ![h] = [IdleHandler EXCEPT !.pc = "find", !.here = TRUE]]
    /\ UNCHANGED <<row, worker, cancel, page, faults>>

\* findFirst, the snapshot event, and the end of the stream of a job that
\* has ended; or the subscription is asked for.
Find(h) ==
    /\ handler[h].pc = "find"
    /\ handler' = [handler EXCEPT ![h].pc = IF IsEnd(row) THEN "ended" ELSE "subscribe"]
    /\ Sends(h)
    /\ UNCHANGED <<row, worker, cancel, faults>>

\* The subscription is there, and sub.on('message') and req.raw.on('close')
\* are attached when the await returns.
Subscribe(h) ==
    /\ handler[h].pc = "subscribe"
    /\ handler' = [handler EXCEPT ![h].pc = "listen"]
    /\ UNCHANGED <<row, worker, cancel, page, faults>>

\* cleanup(), by the end of the stream or by the client's leaving.
Cleaned(r) == [r EXCEPT !.cleanups = 1]

Deliver(h) ==
    /\ handler[h].pc = "listen"
    /\ handler[h].inbox # <<>>
    /\ LET r == [handler[h] EXCEPT !.inbox = Tail(@)] IN
       handler' = [handler EXCEPT ![h] =
           IF IsEnd(Head(handler[h].inbox))
           THEN [Cleaned(r) EXCEPT !.pc = "ended", !.inbox = <<>>] ELSE r]
    /\ Sends(h)
    /\ UNCHANGED <<row, worker, cancel, faults>>

\* onProgress: an event without a status, whose place among the others does
\* not matter; it only makes the page ask.
TellProgress(h) ==
    /\ worker = "work"
    /\ handler[h].pc = "listen"
    /\ handler[h].cleanups = 0
    /\ Sends(h)
    /\ UNCHANGED <<row, worker, cancel, handler, faults>>

\* The client's connection ends: after the stream's end, or by a fault.  The
\* close event finds its listener only if that was attached in time.
Closed(r) ==
    LET gone == [r EXCEPT !.here = FALSE, !.inbox = <<>>] IN
    IF r.pc = "listen" \/ r.cleanups > 0 THEN Cleaned(gone) ELSE gone

StreamCloses(h) ==
    /\ handler[h].pc = "ended"
    /\ handler[h].here
    /\ handler' = [handler EXCEPT ![h] = Closed(@)]
    /\ UNCHANGED <<row, worker, cancel, page, faults>>

ConnectionDrops(h) ==
    /\ handler[h].here
    /\ handler[h].pc # "ended"
    /\ Fault
    /\ handler' = [handler EXCEPT ![h] = Closed(@)]
    /\ UNCHANGED <<row, worker, cancel, page>>

MessageLost(h) ==
    /\ handler[h].inbox # <<>>
    /\ Fault
    /\ handler' = [handler EXCEPT ![h].inbox = Tail(@)]
    /\ UNCHANGED <<row, worker, cancel, page>>

\* A handler that is through is forgotten.
Forget(h) ==
    /\ ~handler[h].here
    /\ handler[h].pc = "ended" \/ handler[h].cleanups > 0
    /\ handler' = [handler EXCEPT ![h] = IdleHandler]
    /\ UNCHANGED <<row, worker, cancel, page, faults>>

-----------------------------------------------------------------------------
(* The page.                                                               *)

OpenPage ==
    /\ page.mode = "closed"
    /\ page' = [page EXCEPT !.mode = "sse", !.shown = row, !.sources = 1]
    /\ UNCHANGED <<row, worker, cancel, handler, faults>>

\* GET /jobs/:id?fragment=1 reads the row, ...
FragmentRead(f) ==
    /\ page.fetch[f].answer = "asked"
    /\ page' = [page EXCEPT !.fetch[f].answer = row]
    /\ UNCHANGED <<row, worker, cancel, handler, faults>>

\* A request ends: the element's xhr is cleared, whichever request it was,
\* and what was queued is sent.
FetchDone(p, f) ==
    LET q == [p EXCEPT !.fetch[f] = NoFetch, !.busy = FALSE, !.again = FALSE] IN
    IF p.again THEN Sent(q) ELSE q

\* ... and its answer is swapped in.
FragmentShown(f) ==
    /\ page.fetch[f].answer \in Status
    /\ page' = FetchDone([page EXCEPT !.shown = page.fetch[f].answer], f)
    /\ UNCHANGED <<row, worker, cancel, handler, faults>>

FragmentFails(f) ==
    /\ f \in InFlightOf(page)
    /\ Fault
    /\ page' = FetchDone(page, f)
    /\ UNCHANGED <<row, worker, cancel, handler>>

\* FALLBACK_MS pass without an event; the server's heartbeats are comments,
\* which an EventSource does not report.
GoQuiet ==
    /\ page.mode = "sse"
    /\ ~page.quiet
    /\ page' = [page EXCEPT !.quiet = TRUE]
    /\ UNCHANGED <<row, worker, cancel, handler, faults>>

\* A watchdog that takes an open connection for a sign of life.
SilentTooLongUnlessConnected(p) == p.quiet /\ \A h \in Handlers : ~handler[h].here

SilentTooLong(p) == p.quiet

\* htmx.process() on an element whose attributes have changed: its data are
\* deleted, xhr and queue among them.  The requests in flight go on, and so
\* does the EventSource.
Forgotten(p) == [p EXCEPT !.busy = FALSE, !.again = FALSE]

\* The bound on fetches leaves room for the one that may follow.
MayForget == Cardinality(InFlightOf(page)) < MaxFetches

\* tick() and switchToPolling(); the silence is measured anew after the way back.
SwitchToPolling ==
    /\ page.mode = "sse"
    /\ SilentTooLong(page)
    /\ MayForget
    /\ page' = Forgotten([page EXCEPT !.mode = "polling", !.quiet = FALSE])
    /\ UNCHANGED <<row, worker, cancel, handler, faults>>

\* every 3s
Poll ==
    /\ page.mode = "polling"
    /\ page' = Asked([page EXCEPT !.polled = TRUE])
    /\ UNCHANGED <<row, worker, cancel, handler, faults>>

\* RECONNECT_MS after the switch, which is twenty polls, of which the model
\* asks for one: another EventSource.
RestoreSse ==
    /\ page.mode = "polling"
    /\ page.polled
    /\ page.sources < MaxSources
    /\ MayForget
    /\ page' = Forgotten([page EXCEPT !.mode = "sse", !.polled = FALSE, !.sources = @ + 1])
    /\ UNCHANGED <<row, worker, cancel, handler, faults>>

-----------------------------------------------------------------------------

HandlerStep(h) ==
    \/ Connect(h)
    \/ Find(h)
    \/ Subscribe(h)
    \/ Deliver(h)
    \/ TellProgress(h)
    \/ StreamCloses(h)
    \/ ConnectionDrops(h)
    \/ MessageLost(h)
    \/ Forget(h)

WriterStep ==
    \/ UploadEnds
    \/ WorkerBegins
    \/ WorkerAnnounces
    \/ WorkerFinishes
    \/ WorkerPublishes
    \/ CancelStarts
    \/ CancelUpdates
    \/ CancelPublishes
    \/ Expire

PageStep ==
    \/ OpenPage
    \/ \E f \in Fetches : FragmentRead(f) \/ FragmentShown(f) \/ FragmentFails(f)
    \/ GoQuiet
    \/ SwitchToPolling
    \/ Poll
    \/ RestoreSse

Next == WriterStep \/ PageStep \/ \E h \in Handlers : HandlerStep(h)

Spec == Init /\ [][Next]_vars

\* Time passes in the page and its fetches are answered.  Nothing is asked
\* of the streams: not that they connect, nor that a message arrives.
Fairness ==
    /\ \A f \in Fetches : WF_vars(FragmentRead(f)) /\ WF_vars(FragmentShown(f))
    /\ WF_vars(GoQuiet)
    /\ WF_vars(SwitchToPolling)
    /\ WF_vars(Poll)

FairSpec == Spec /\ Fairness

-----------------------------------------------------------------------------
(* Properties.                                                             *)

\* An open page shows in the end that its job has ended, and goes on showing
\* it, even when the end fell between snapshot and subscription, was
\* published to nobody, the stream hangs, or an older answer comes late
\* (job-detail-watchdog.js, "SSE-Fallback").
PageLearnsEnd ==
    page.mode # "closed" /\ row \in Terminal ~> [](page.shown \in Terminal)

\* What the page shows goes back (a job shown as canceled is shown as
\* processing) only by the answer of a fetch that was in flight together
\* with another, and fetches are in flight together only once the watchdog
\* has switched and htmx.process() has forgotten the first
\* (job-detail-watchdog.js:61,73).  Late events, events told twice, a queued
\* fetch and one that fails never make it go back.
Rank == [s \in Status \cup {Unread} |->
    CASE s = Unread -> 0 [] s = "uploading" -> 1 [] s = "queued" -> 2 [] s = "processing" -> 3
      [] s = "expired" -> 5 [] OTHER -> 4]
HasSwitched(p) == p.mode = "polling" \/ p.sources > 1
ShownNeverGoesBack ==
    [][page.shown' # page.shown /\ ~(Rank[page.shown'] > Rank[page.shown]) =>
           /\ HasSwitched(page)
           /\ \E f \in Fetches : page.fetch[f].answer = page.shown' /\ page.fetch[f].crossed]_vars

\* The server ends a stream only when the job is over, and then every
\* subscriber has heard its last message: an end that is told has happened.
EndedMeansOver == \A h \in Handlers : handler[h].pc = "ended" => row \in Terminal

\* A subscription is given back at most once, though the stream's end and the
\* client's leaving both ask for it (jobs-events-route.ts, "idempotenter
\* Cleanup").
CleanedOnce == \A h \in Handlers : handler[h].cleanups <= 1

\* What the streams of a job promise, however ends, drops and departures
\* interleave (jobs-events-route.ts:51-80).
EventsInv ==
    /\ TypeOK
    /\ EndedMeansOver
    /\ CleanedOnce

\* job-detail-watchdog.js:52: to switch to polling is to "tear down the SSE
\* connection".
PollingHasNoStream ==
    page.mode = "polling" => \A h \in Handlers : ~(handler[h].here /\ handler[h].pc = "listen")

=============================================================================
