-------------------------- MODULE JobEventsProofs --------------------------
(***************************************************************************)
(* Proofs about JobEvents, for any number of handlers, of EventSource       *)
(* objects and of faults, and about Listings (last section), for any ids,   *)
(* times and sizes of a page.                                              *)
(*                                                                         *)
(* The route: the row only ever goes forward (RowStep), so what was read    *)
(* from it or published about it before lies behind it; a handler's inbox   *)
(* and the page's fetches are then followed step by step.  A list is followed *)
(* by the places its rows have in its order, with no sorting.              *)
(***************************************************************************)
EXTENDS JobEvents, Listings, FiniteSetTheorems, WellFoundedInduction, TLAPS

-----------------------------------------------------------------------------
(* The inductive invariant.                                                *)

\* s comes before t in the life of a job, or is t.
Before(s, t) == s = t \/ Rank[s] < Rank[t]

Message == {"processing", "succeeded", "canceled"}

WritersTyped ==
    /\ row \in Status
    /\ worker \in {"none", "waiting", "announce", "work", "publish", "done"}
    /\ cancel \in {"none", "update", "publish", "done"}
    /\ faults \in 0 .. Faults

\* An end is published after the row has got it, or another.
PublishersAreRight == worker = "publish" \/ cancel = "publish" => row \in Terminal

\* A handler has ended, or has an end in its inbox, only when the job has;
\* it has cleaned up at most once, and what it had subscribed.
Right(r) ==
    /\ r.pc = "ended" => row \in Terminal
    /\ row \notin Terminal => r.inbox \in Seq({"processing"})
    /\ r.cleanups <= 1
    /\ r.cleanups > 0 => r.pc \in {"listen", "ended"}

HandlersTyped == handler \in [Handlers -> Handler]
HandlersRight == \A h \in Handlers : Right(handler[h])

\* The connections of the page, of which each source has one at most.
Here == {h \in Handlers : handler[h].here}
OnePerSource == Cardinality(Here) <= page.sources

\* What the page shows comes before what the row has become, and so does
\* every answer that is on its way.  One whose fetch was never in flight with
\* another comes after what is shown.  Fetches meet only after a switch.
Follows(p, f) == p.fetch[f].answer \in Status => Before(p.shown, p.fetch[f].answer)
PageRight(p) ==
    /\ p.mode = "closed" => p.shown = Unread /\ p.sources = 0 /\ InFlightOf(p) = {}
    /\ p.mode # "closed" => p.sources >= 1
    /\ Before(p.shown, row)
    /\ \A f \in Fetches : p.fetch[f].answer \in Status => Before(p.fetch[f].answer, row)
    /\ \A f \in InFlightOf(p) :
          p.fetch[f].crossed \/ (InFlightOf(p) = {f} /\ Follows(p, f))
    /\ \A f \in InFlightOf(p) : p.fetch[f].crossed => HasSwitched(p)
    /\ p.again => p.busy
    /\ ~p.busy => InFlightOf(p) # Fetches /\ (InFlightOf(p) # {} => HasSwitched(p))

Inv ==
    /\ WritersTyped
    /\ PublishersAreRight
    /\ HandlersTyped
    /\ HandlersRight
    /\ OnePerSource
    /\ page \in Page
    /\ PageRight(page)

-----------------------------------------------------------------------------
(* The order of a job's states.                                            *)

LEMMA Ranks ==
    /\ Rank[Unread] = 0 /\ Rank["uploading"] = 1 /\ Rank["queued"] = 2 /\ Rank["processing"] = 3
    /\ Rank["succeeded"] = 4 /\ Rank["failed"] = 4 /\ Rank["canceled"] = 4 /\ Rank["expired"] = 5
    /\ \A s \in Status \cup {Unread} : Rank[s] \in 0 .. 5
BY DEF Rank, Status, Terminal, Unread

LEMMA BeforeOps ==
    /\ \A s \in Status \cup {Unread} : Before(s, s)
    /\ \A s, t, u \in Status \cup {Unread} : Before(s, t) /\ Before(t, u) => Before(s, u)
    /\ \A s \in Status : Before(Unread, s)
    /\ \A s, t \in Status \cup {Unread} : Before(s, t) /\ s # t => Rank[t] > Rank[s]
<1>1. \A s \in Status \cup {Unread} : Rank[s] \in Int
  BY Ranks
<1>2. \A s \in Status : Rank[Unread] < Rank[s]
  BY Ranks DEF Status, Terminal
<1> QED  BY <1>1, <1>2 DEF Before

-----------------------------------------------------------------------------
(* The writers.                                                            *)

\* The row goes forward, and once it has ended it stays ended.
Forward == Before(row, row') /\ (row \in Terminal => row' \in Terminal)

LEMMA NoRowStep ==
    ASSUME WritersTyped, UNCHANGED row
    PROVE  Forward
BY BeforeOps DEF WritersTyped, Forward

LEMMA RowStep ==
    ASSUME Inv, WriterStep
    PROVE  Forward /\ WritersTyped' /\ PublishersAreRight' /\ UNCHANGED page
<1>0. WritersTyped /\ PublishersAreRight
  BY DEF Inv
<1>1. CASE UploadEnds
  BY <1>0, <1>1, Ranks DEF UploadEnds, Forward, Before, WritersTyped, PublishersAreRight, Status, Terminal
<1>2. CASE WorkerBegins
  BY <1>0, <1>2, Ranks DEF WorkerBegins, InFlight, Forward, Before, WritersTyped, PublishersAreRight,
                           Status, Terminal
<1>3. CASE WorkerAnnounces
  BY <1>0, <1>3, NoRowStep DEF WorkerAnnounces, WritersTyped, PublishersAreRight
<1>4. CASE WorkerFinishes
  BY <1>0, <1>4, Ranks DEF WorkerFinishes, InFlight, Forward, Before, WritersTyped, PublishersAreRight,
                           Status, Terminal
<1>5. CASE WorkerPublishes
  BY <1>0, <1>5, NoRowStep DEF WorkerPublishes, WritersTyped, PublishersAreRight
<1>6. CASE CancelStarts
  BY <1>0, <1>6, NoRowStep DEF CancelStarts, WritersTyped, PublishersAreRight
<1>7. CASE CancelUpdates
  BY <1>0, <1>7, Ranks DEF CancelUpdates, InFlight, Forward, Before, WritersTyped, PublishersAreRight,
                           Status, Terminal
<1>8. CASE CancelPublishes
  BY <1>0, <1>8, NoRowStep DEF CancelPublishes, WritersTyped, PublishersAreRight
<1>9. CASE Expire
  BY <1>0, <1>9, Ranks DEF Expire, Forward, Before, WritersTyped, PublishersAreRight, Status, Terminal
<1> QED  BY <1>1, <1>2, <1>3, <1>4, <1>5, <1>6, <1>7, <1>8, <1>9 DEF WriterStep

\* Nobody but the writers touches what is theirs.
LEMMA WritersRest ==
    ASSUME Inv, UNCHANGED <<row, worker, cancel>>, UNCHANGED faults \/ Fault
    PROVE  WritersTyped' /\ PublishersAreRight'
BY EventsAssumption DEF Inv, WritersTyped, PublishersAreRight, Fault

-----------------------------------------------------------------------------
(* The handlers.                                                           *)

\* What was right of a handler stays so when only the row has gone on.
LEMMA RightStays ==
    ASSUME NEW r \in Handler, Right(r), Forward
    PROVE  Right(r)'
BY DEF Right, Forward

LEMMA HandlersRest ==
    ASSUME Inv, Forward, UNCHANGED handler
    PROVE  HandlersTyped' /\ HandlersRight' /\ Here' = Here
<1>1. HandlersTyped'
  BY DEF Inv, HandlersTyped
<1>2. ASSUME NEW h \in Handlers
      PROVE  Right(handler[h])'
  BY RightStays DEF Inv, HandlersTyped, HandlersRight, Right, Forward
<1> QED  BY <1>1, <1>2 DEF HandlersRight, Here

\* A message that is right when it is published reaches those who listen.
LEMMA Publishes ==
    ASSUME Inv, NEW m \in Message, row \in Terminal \/ m = "processing",
           UNCHANGED row, Publish(m)
    PROVE  HandlersTyped' /\ HandlersRight' /\ Here' = Here
<1>1. ASSUME NEW h \in Handlers
      PROVE  handler'[h] \in Handler /\ Right(handler[h])' /\ handler'[h].here = handler[h].here
  <2>0. handler[h] \in Handler /\ Right(handler[h])
    BY DEF Inv, HandlersTyped, HandlersRight
  <2>1. CASE handler'[h] = handler[h]
    BY <2>0, <2>1 DEF Right
  <2>2. CASE handler'[h] = [handler[h] EXCEPT !.inbox = Append(@, m)]
    <3> DEFINE q == Append(handler[h].inbox, m)
    <3>1. q \in Seq(Message) /\ (row \notin Terminal => q \in Seq({"processing"}))
      BY <2>0 DEF Handler, Message, Right
    <3> HIDE DEF q
    <3>2. handler'[h] = [handler[h] EXCEPT !.inbox = q]
      BY <2>2 DEF q
    <3>3. /\ handler'[h] \in Handler
          /\ handler'[h].inbox = q /\ handler'[h].pc = handler[h].pc
          /\ handler'[h].cleanups = handler[h].cleanups /\ handler'[h].here = handler[h].here
      BY <2>0, <3>1, <3>2 DEF Handler, Message
    <3> QED  BY <2>0, <3>1, <3>3 DEF Right
  <2> QED  BY <2>1, <2>2 DEF Publish
<1>2. DOMAIN handler' = Handlers
  BY DEF Publish
<1>3. HandlersTyped'
  BY <1>1, <1>2 DEF HandlersTyped, Publish
<1> QED  BY <1>1, <1>3 DEF HandlersRight, Here

LEMMA WriterHandlers ==
    ASSUME Inv, WriterStep
    PROVE  HandlersTyped' /\ HandlersRight' /\ Here' = Here
<1>1. CASE WorkerAnnounces
  BY <1>1, Publishes DEF WorkerAnnounces, Message
<1>2. CASE WorkerPublishes
  BY <1>2, Publishes DEF WorkerPublishes, Message, Inv, PublishersAreRight
<1>3. CASE CancelPublishes
  BY <1>3, Publishes DEF CancelPublishes, Message, Inv, PublishersAreRight
<1>4. CASE ~(WorkerAnnounces \/ WorkerPublishes \/ CancelPublishes)
  <2>1. UNCHANGED handler
    BY <1>4 DEF WriterStep, UploadEnds, WorkerBegins, WorkerFinishes, CancelStarts, CancelUpdates, Expire
  <2> QED  BY <2>1, RowStep, HandlersRest
<1> QED  BY <1>1, <1>2, <1>3, <1>4

\* One handler goes on.
LEMMA OneHandler ==
    ASSUME Inv, UNCHANGED row, NEW h \in Handlers, NEW r \in Handler, Right(r),
           handler' = [handler EXCEPT ![h] = r]
    PROVE  /\ HandlersTyped' /\ HandlersRight'
           /\ Here' \subseteq Here \cup {h}
           /\ (r.here => handler[h].here) => Here' \subseteq Here
<1>1. HandlersTyped'
  BY DEF Inv, HandlersTyped
<1>2. handler'[h] = r /\ \A g \in Handlers \ {h} : handler'[g] = handler[g]
  BY DEF Inv, HandlersTyped
<1>3. ASSUME NEW g \in Handlers
      PROVE  Right(handler[g])'
  <2>1. CASE g = h
    BY <1>2, <2>1 DEF Right
  <2>2. CASE g # h
    BY <1>2, <2>2 DEF Right, Inv, HandlersRight
  <2> QED  BY <2>1, <2>2
<1> QED  BY <1>1, <1>2, <1>3 DEF HandlersRight, Here

\* A handler that leaves has given back what it had subscribed.
LEMMA ClosedOps ==
    ASSUME NEW r \in Handler, Right(r)
    PROVE  Closed(r) \in Handler /\ Right(Closed(r)) /\ ~Closed(r).here
<1> DEFINE gone == [r EXCEPT !.here = FALSE, !.inbox = <<>>]
<1>4. <<>> \in Seq({"processing"}) /\ <<>> \in Seq(Message)
  OBVIOUS
<1>1. /\ gone \in Handler /\ gone.pc = r.pc /\ ~gone.here /\ gone.cleanups = r.cleanups
      /\ gone.inbox = <<>>
  BY <1>4 DEF Handler, Message
<1>3. Closed(r) = IF r.pc = "listen" \/ r.cleanups > 0 THEN Cleaned(gone) ELSE gone
  BY DEF Closed
<1> HIDE DEF gone
<1>2. /\ Cleaned(gone) \in Handler /\ Cleaned(gone).pc = r.pc /\ ~Cleaned(gone).here
      /\ Cleaned(gone).cleanups = 1 /\ Cleaned(gone).inbox = <<>>
  BY <1>1 DEF Handler, Cleaned
<1>5. CASE r.pc = "listen" \/ r.cleanups > 0
  <2>1. Closed(r) = Cleaned(gone)
    BY <1>3, <1>5
  <2>2. r.pc \in {"listen", "ended"} /\ (r.pc = "ended" => row \in Terminal)
    BY <1>5 DEF Right
  <2>3. Right(Cleaned(gone))
    BY <1>2, <1>4, <2>2 DEF Right
  <2> QED  BY <1>2, <2>1, <2>3
<1>6. CASE ~(r.pc = "listen" \/ r.cleanups > 0)
  BY <1>1, <1>3, <1>4, <1>6 DEF Right
<1> QED  BY <1>5, <1>6

LEMMA IdleOps ==
    /\ IdleHandler \in Handler /\ Right(IdleHandler) /\ ~IdleHandler.here
    /\ IdleHandler.inbox = <<>> /\ IdleHandler.cleanups = 0
BY DEF IdleHandler, Handler, Right

\* The handler's place in its work changes, nothing else.
LEMMA PlaceOps ==
    ASSUME NEW r \in Handler, Right(r), r.cleanups = 0,
           NEW pc \in {"subscribe", "listen", "ended"}, pc = "ended" => row \in Terminal
    PROVE  /\ [r EXCEPT !.pc = pc] \in Handler /\ Right([r EXCEPT !.pc = pc])
           /\ [r EXCEPT !.pc = pc].here = r.here
<1> DEFINE s == [r EXCEPT !.pc = pc]
<1>1. /\ s \in Handler /\ s.pc = pc /\ s.here = r.here /\ s.inbox = r.inbox
      /\ s.cleanups = r.cleanups
  BY DEF Handler
<1> HIDE DEF s
<1>2. Right(s)
  BY <1>1 DEF Right
<1> QED  BY <1>1, <1>2 DEF s

\* The first message of the inbox goes, delivered or lost.
LEMMA TailOps ==
    ASSUME NEW r \in Handler, Right(r), r.inbox # <<>>
    PROVE  /\ [r EXCEPT !.inbox = Tail(@)] \in Handler /\ Right([r EXCEPT !.inbox = Tail(@)])
           /\ [r EXCEPT !.inbox = Tail(@)].here = r.here
           /\ Head(r.inbox) \in Message /\ (row \notin Terminal => Head(r.inbox) = "processing")
<1> DEFINE q == Tail(r.inbox)
           s == [r EXCEPT !.inbox = q]
<1>1. q \in Seq(Message) /\ (row \notin Terminal => q \in Seq({"processing"}))
  BY DEF Handler, Message, Right
<1>2. Head(r.inbox) \in Message /\ (row \notin Terminal => Head(r.inbox) = "processing")
  BY DEF Handler, Message, Right
<1> HIDE DEF q
<1>3. s \in Handler /\ s.pc = r.pc /\ s.here = r.here /\ s.inbox = q /\ s.cleanups = r.cleanups
  BY <1>1 DEF Handler, Message
<1> HIDE DEF s
<1>4. Right(s)
  BY <1>1, <1>3 DEF Right
<1> QED  BY <1>2, <1>3, <1>4 DEF s, q

\* The end is delivered: the stream ends, the subscription is given back.
LEMMA EndOps ==
    ASSUME NEW r \in Handler, row \in Terminal
    PROVE  /\ [Cleaned(r) EXCEPT !.pc = "ended", !.inbox = <<>>] \in Handler
           /\ Right([Cleaned(r) EXCEPT !.pc = "ended", !.inbox = <<>>])
           /\ [Cleaned(r) EXCEPT !.pc = "ended", !.inbox = <<>>].here = r.here
<1> DEFINE c == Cleaned(r)
           s == [c EXCEPT !.pc = "ended", !.inbox = <<>>]
<1>0. <<>> \in Seq({"processing"}) /\ <<>> \in Seq(Message)
  OBVIOUS
<1>c. c \in Handler /\ c.here = r.here /\ c.cleanups = 1
  BY DEF Handler, Cleaned
<1> HIDE DEF c
<1>1. /\ s \in Handler /\ s.pc = "ended" /\ s.here = r.here /\ s.inbox = <<>> /\ s.cleanups = 1
  BY <1>0, <1>c DEF Handler, Message
<1> HIDE DEF s
<1>2. Right(s)
  BY <1>0, <1>1 DEF Right
<1> QED  BY <1>1, <1>2 DEF s, c

LEMMA HandlerMoves ==
    ASSUME Inv, NEW h \in Handlers, HandlerStep(h)
    PROVE  /\ HandlersTyped' /\ HandlersRight'
           /\ Here' \subseteq Here \/ (Connect(h) /\ Here' \subseteq Here \cup {h})
<1>0. /\ handler[h] \in Handler /\ Right(handler[h])
      /\ handler[h].pc \in {"find", "subscribe"} => handler[h].cleanups = 0
      /\ handler[h].here \in BOOLEAN
  BY DEF Inv, HandlersTyped, HandlersRight, Handler, Right
<1> DEFINE Goal == /\ HandlersTyped' /\ HandlersRight'
                   /\ Here' \subseteq Here \/ (Connect(h) /\ Here' \subseteq Here \cup {h})
<1>r. UNCHANGED row
  BY DEF HandlerStep, Connect, Find, Subscribe, Deliver, TellProgress, StreamCloses,
         ConnectionDrops, MessageLost, Forget
<1>s. ASSUME NEW r \in Handler, Right(r), r.here = handler[h].here \/ ~r.here,
             handler' = [handler EXCEPT ![h] = r]
      PROVE  Goal
  BY <1>0, <1>r, <1>s, OneHandler
<1>1. CASE Connect(h)
  <2> DEFINE r == [IdleHandler EXCEPT !.pc = "find", !.here = TRUE]
  <2>0. <<>> \in Seq({"processing"})
    OBVIOUS
  <2>1. /\ r \in Handler /\ r.pc = "find" /\ r.inbox = <<>> /\ r.cleanups = 0
    BY IdleOps DEF Handler
  <2>2. handler' = [handler EXCEPT ![h] = r]
    BY <1>1 DEF Connect
  <2> HIDE DEF r
  <2>3. r \in Handler /\ Right(r)
    BY <2>0, <2>1 DEF Right
  <2> QED  BY <1>1, <1>r, <2>2, <2>3, OneHandler
<1>2. CASE Find(h)
  <2> DEFINE pc == IF IsEnd(row) THEN "ended" ELSE "subscribe"
  <2>1. pc \in {"subscribe", "listen", "ended"} /\ (pc = "ended" => row \in Terminal)
    BY DEF IsEnd
  <2>2. handler' = [handler EXCEPT ![h] = [handler[h] EXCEPT !.pc = pc]]
    BY <1>2 DEF Find
  <2>3. handler[h].pc = "find"
    BY <1>2 DEF Find
  <2> HIDE DEF pc
  <2> QED  BY <1>0, <1>s, <2>1, <2>2, <2>3, PlaceOps
<1>3. CASE Subscribe(h)
  <2>1. handler' = [handler EXCEPT ![h] = [handler[h] EXCEPT !.pc = "listen"]]
    BY <1>3 DEF Subscribe
  <2>2. handler[h].pc = "subscribe"
    BY <1>3 DEF Subscribe
  <2> QED  BY <1>0, <1>s, <2>1, <2>2, PlaceOps
<1>4. CASE Deliver(h)
  <2> DEFINE r == [handler[h] EXCEPT !.inbox = Tail(@)]
             e == [Cleaned(r) EXCEPT !.pc = "ended", !.inbox = <<>>]
  <2>1. handler[h].inbox # <<>>
    BY <1>4 DEF Deliver
  <2>2. r \in Handler /\ Right(r) /\ r.here = handler[h].here
    BY <1>0, <2>1, TailOps
  <2>3. handler' = [handler EXCEPT ![h] = IF IsEnd(Head(handler[h].inbox)) THEN e ELSE r]
    BY <1>4 DEF Deliver
  <2>4. CASE IsEnd(Head(handler[h].inbox))
    <3>1. row \in Terminal
      BY <1>0, <2>1, <2>4, TailOps DEF IsEnd, Terminal
    <3>2. handler' = [handler EXCEPT ![h] = e]
      BY <2>3, <2>4
    <3>3. e \in Handler /\ Right(e) /\ e.here = handler[h].here
      BY <2>2, <3>1, EndOps
    <3> HIDE DEF e
    <3> QED  BY <1>s, <3>2, <3>3
  <2>5. CASE ~IsEnd(Head(handler[h].inbox))
    <3>1. handler' = [handler EXCEPT ![h] = r]
      BY <2>3, <2>5
    <3> HIDE DEF r
    <3> QED  BY <1>s, <2>2, <3>1
  <2> QED  BY <2>4, <2>5
<1>5. CASE TellProgress(h)
  <2>1. UNCHANGED handler
    BY <1>5 DEF TellProgress
  <2>2. Forward
    BY <1>r, NoRowStep DEF Inv
  <2> QED  BY <2>1, <2>2, HandlersRest
<1>6. CASE StreamCloses(h) \/ ConnectionDrops(h)
  <2>1. handler' = [handler EXCEPT ![h] = Closed(handler[h])]
    BY <1>6 DEF StreamCloses, ConnectionDrops
  <2> QED  BY <1>0, <1>s, <2>1, ClosedOps
<1>7. CASE MessageLost(h)
  <2>1. handler' = [handler EXCEPT ![h] = [handler[h] EXCEPT !.inbox = Tail(@)]]
    BY <1>7 DEF MessageLost
  <2>2. handler[h].inbox # <<>>
    BY <1>7 DEF MessageLost
  <2> QED  BY <1>0, <1>s, <2>1, <2>2, TailOps
<1>8. CASE Forget(h)
  BY <1>s, <1>8, IdleOps DEF Forget
<1> QED  BY <1>1, <1>2, <1>3, <1>4, <1>5, <1>6, <1>7, <1>8 DEF HandlerStep

-----------------------------------------------------------------------------
(* The page.                                                               *)

\* What a step may make of the page without touching what it shows.
Keeps(p, q) ==
    /\ q \in Page /\ PageRight(q)
    /\ q.shown = p.shown
    /\ q.sources = p.sources
    /\ q.mode = "closed" <=> p.mode = "closed"

LEMMA PageFields ==
    ASSUME NEW p \in Page
    PROVE  /\ p.fetch \in [Fetches -> Fetch] /\ p.busy \in BOOLEAN /\ p.again \in BOOLEAN
           /\ p.shown \in Status \cup {Unread} /\ p.sources \in Nat
           /\ InFlightOf(p) \subseteq Fetches
BY DEF Page, InFlightOf

\* The pages that have the same requests in flight, and show the same.
LEMMA SameFetches ==
    ASSUME NEW p \in Page, PageRight(p), NEW q \in Page, q.fetch = p.fetch, q.shown = p.shown,
           q.sources >= p.sources, q.mode = "closed" <=> p.mode = "closed",
           q.mode = "closed" => q.sources = p.sources,
           HasSwitched(p) => HasSwitched(q), q.again => q.busy,
           q.busy = p.busy \/ (~q.busy /\ HasSwitched(q) /\ InFlightOf(q) # Fetches)
    PROVE  PageRight(q)
<1>1. InFlightOf(q) = InFlightOf(p)
  BY DEF InFlightOf
<1>2. q.mode # "closed" => q.sources >= 1
  BY PageFields DEF PageRight
<1> QED  BY <1>1, <1>2 DEF PageRight, Follows

LEMMA SentFields ==
    ASSUME NEW p \in Page, InFlightOf(p) # Fetches
    PROVE  /\ Sent(p) \in Page /\ Sent(p).busy /\ Sent(p).shown = p.shown
           /\ Sent(p).sources = p.sources /\ Sent(p).mode = p.mode
           /\ \E new \in Fetches \ InFlightOf(p) :
                 /\ InFlightOf(Sent(p)) = InFlightOf(p) \cup {new}
                 /\ Sent(p).fetch[new].answer = "asked"
                 /\ Sent(p).fetch[new].crossed <=> InFlightOf(p) # {}
                 /\ \A f \in InFlightOf(p) :
                       Sent(p).fetch[f].answer = p.fetch[f].answer /\ Sent(p).fetch[f].crossed
<1> DEFINE others == InFlightOf(p)
           new == CHOOSE f \in Fetches \ others : TRUE
           F == [f \in Fetches |->
                    CASE f = new -> [answer |-> "asked", crossed |-> others # {}]
                      [] f \in others -> [p.fetch[f] EXCEPT !.crossed = TRUE]
                      [] OTHER -> p.fetch[f]]
<1>1. Sent(p) = [p EXCEPT !.busy = TRUE, !.fetch = F]
  BY DEF Sent
<1>2. others \subseteq Fetches /\ p.fetch \in [Fetches -> Fetch]
  BY PageFields
<1>3. new \in Fetches \ others
  BY <1>2
<1>o. others = InFlightOf(p)
  OBVIOUS
<1> HIDE DEF new, others
<1>4. [answer |-> "asked", crossed |-> others # {}] \in Fetch
  BY DEF Fetch
<1>5. ASSUME NEW f \in others
      PROVE  /\ [p.fetch[f] EXCEPT !.crossed = TRUE] \in Fetch
             /\ [p.fetch[f] EXCEPT !.crossed = TRUE].answer = p.fetch[f].answer
             /\ [p.fetch[f] EXCEPT !.crossed = TRUE].crossed
  BY <1>2, <1>5 DEF Fetch
<1>6. /\ F[new].answer = "asked" /\ (F[new].crossed <=> others # {})
      /\ \A f \in others : F[f].answer = p.fetch[f].answer /\ F[f].crossed
      /\ \A f \in Fetches : f # new /\ f \notin others => F[f] = p.fetch[f]
  BY <1>2, <1>3, <1>5
<1>7. F \in [Fetches -> Fetch]
  BY <1>2, <1>3, <1>4, <1>5
<1> HIDE DEF F
<1>8. /\ Sent(p) \in Page /\ Sent(p).busy /\ Sent(p).shown = p.shown
      /\ Sent(p).sources = p.sources /\ Sent(p).mode = p.mode /\ Sent(p).fetch = F
  BY <1>1, <1>7 DEF Page
<1>9. InFlightOf(Sent(p)) = others \cup {new}
  BY <1>2, <1>3, <1>6, <1>8, <1>o DEF InFlightOf
<1> QED  BY <1>3, <1>6, <1>8, <1>9, <1>o

\* A request goes out only beside those that were forgotten.
LEMMA SentOps ==
    ASSUME NEW p \in Page, PageRight(p), p.mode # "closed", ~p.busy
    PROVE  Keeps(p, Sent(p))
<1>1. InFlightOf(p) # Fetches /\ (InFlightOf(p) # {} => HasSwitched(p))
  BY DEF PageRight
<1>2. /\ Sent(p) \in Page /\ Sent(p).busy /\ Sent(p).shown = p.shown
      /\ Sent(p).sources = p.sources /\ Sent(p).mode = p.mode
  BY <1>1, SentFields
<1>3. PICK new \in Fetches \ InFlightOf(p) :
         /\ InFlightOf(Sent(p)) = InFlightOf(p) \cup {new}
         /\ Sent(p).fetch[new].answer = "asked"
         /\ Sent(p).fetch[new].crossed <=> InFlightOf(p) # {}
         /\ \A f \in InFlightOf(p) :
               Sent(p).fetch[f].answer = p.fetch[f].answer /\ Sent(p).fetch[f].crossed
  BY <1>1, SentFields
<1> DEFINE q == Sent(p)
<1>q. q = Sent(p)
  OBVIOUS
<1> HIDE DEF q
<1>4. HasSwitched(q) <=> HasSwitched(p)
  BY <1>2, <1>q DEF HasSwitched
<1>5. ASSUME NEW f \in Fetches, q.fetch[f].answer \in Status
      PROVE  Before(q.fetch[f].answer, row)
  <2>1. q.fetch[f].answer # "none" /\ q.fetch[f].answer # "asked"
    BY <1>5 DEF Status, Terminal
  <2>2. f \in InFlightOf(q)
    BY <2>1 DEF InFlightOf
  <2>3. f \in InFlightOf(p) /\ q.fetch[f].answer = p.fetch[f].answer
    BY <1>3, <1>q, <2>1, <2>2
  <2> QED  BY <1>5, <2>3 DEF PageRight
<1>6. ASSUME NEW f \in InFlightOf(q)
      PROVE  /\ q.fetch[f].crossed \/ (InFlightOf(q) = {f} /\ Follows(q, f))
             /\ q.fetch[f].crossed => HasSwitched(q)
  <2>1. CASE f = new
    BY <1>1, <1>3, <1>4, <1>q, <2>1 DEF Follows, Status, Terminal
  <2>2. CASE f \in InFlightOf(p)
    BY <1>1, <1>3, <1>4, <1>q, <2>2
  <2> QED  BY <1>3, <1>q, <1>6, <2>1, <2>2
<1>7. PageRight(q)
  BY <1>2, <1>5, <1>6, <1>q DEF PageRight
<1> QED  BY <1>2, <1>7, <1>q DEF Keeps

LEMMA AskedOps ==
    ASSUME NEW p \in Page, PageRight(p), p.mode # "closed"
    PROVE  Keeps(p, Asked(p))
<1>1. CASE p.busy
  <2> DEFINE q == [p EXCEPT !.again = TRUE]
  <2>1. /\ q \in Page /\ q.fetch = p.fetch /\ q.shown = p.shown /\ q.sources = p.sources
        /\ q.mode = p.mode /\ q.busy = p.busy
    BY DEF Page
  <2>2. Asked(p) = q
    BY <1>1 DEF Asked
  <2> HIDE DEF q
  <2>3. PageRight(q)
    <3>1. q.busy /\ q.sources >= p.sources /\ (HasSwitched(p) => HasSwitched(q))
      BY <1>1, <2>1, PageFields DEF HasSwitched
    <3> QED  BY <1>1, <2>1, <3>1, SameFetches
  <2> QED  BY <2>1, <2>2, <2>3 DEF Keeps
<1>2. CASE ~p.busy
  BY <1>2, SentOps DEF Asked
<1> QED  BY <1>1, <1>2

LEMMA EventOps ==
    ASSUME NEW p \in Page, PageRight(p)
    PROVE  Keeps(p, Event(p))
<1> DEFINE q == [p EXCEPT !.quiet = FALSE]
<1>1. /\ q \in Page /\ q.fetch = p.fetch /\ q.shown = p.shown /\ q.sources = p.sources
      /\ q.mode = p.mode /\ q.busy = p.busy /\ q.again = p.again
  BY DEF Page
<1>d. Event(p) = IF p.mode = "sse" THEN Asked(q) ELSE q
  BY DEF Event
<1> HIDE DEF q
<1>2. PageRight(q)
  BY <1>1, SameFetches, PageFields DEF HasSwitched, PageRight
<1>3. CASE p.mode = "sse"
  <2>1. Keeps(q, Asked(q))
    BY <1>1, <1>2, <1>3, AskedOps
  <2> QED  BY <1>1, <1>3, <1>d, <2>1 DEF Keeps
<1>4. CASE p.mode # "sse"
  BY <1>1, <1>2, <1>4, <1>d DEF Keeps
<1> QED  BY <1>3, <1>4

\* The request that ends leaves the others in flight.
LEMMA FetchDoneOps ==
    ASSUME NEW p \in Page, PageRight(p), NEW f \in InFlightOf(p)
    PROVE  Keeps(p, FetchDone(p, f))
<1>0. f \in Fetches /\ p.mode # "closed" /\ p.fetch \in [Fetches -> Fetch]
  BY PageFields DEF PageRight
<1> DEFINE F == [p.fetch EXCEPT ![f] = NoFetch]
           q == [p EXCEPT !.fetch = F, !.busy = FALSE, !.again = FALSE]
<1>1. FetchDone(p, f) = IF p.again THEN Sent(q) ELSE q
  BY DEF FetchDone
<1>2. /\ F \in [Fetches -> Fetch] /\ F[f].answer = "none"
      /\ \A g \in Fetches \ {f} : F[g] = p.fetch[g]
  BY <1>0 DEF NoFetch, Fetch
<1> HIDE DEF F
<1>3. /\ q \in Page /\ q.fetch = F /\ q.shown = p.shown /\ q.sources = p.sources
      /\ q.mode = p.mode /\ ~q.busy /\ ~q.again
  BY <1>2 DEF Page
<1> HIDE DEF q
<1>4. InFlightOf(q) = InFlightOf(p) \ {f}
  BY <1>0, <1>2, <1>3 DEF InFlightOf
<1>5. HasSwitched(q) <=> HasSwitched(p)
  BY <1>3 DEF HasSwitched
<1>6. ASSUME NEW g \in InFlightOf(q)
      PROVE  q.fetch[g].crossed /\ HasSwitched(q)
  BY <1>2, <1>3, <1>4, <1>5, PageFields DEF PageRight
<1>7. ASSUME NEW g \in Fetches, q.fetch[g].answer \in Status
      PROVE  Before(q.fetch[g].answer, row)
  BY <1>2, <1>3, <1>7 DEF PageRight, Status, Terminal
<1>8. PageRight(q)
  BY <1>0, <1>3, <1>4, <1>6, <1>7 DEF PageRight
<1>9. CASE p.again
  <2>1. Keeps(q, Sent(q))
    BY <1>0, <1>3, <1>8, SentOps
  <2> QED  BY <1>1, <1>3, <1>9, <2>1 DEF Keeps
<1>10. CASE ~p.again
  BY <1>1, <1>3, <1>8, <1>10 DEF Keeps
<1> QED  BY <1>9, <1>10

\* What a step does to the page: it stays right, and what it shows goes back
\* only by the answer of a fetch that another crossed.
GoesBackByCrossing ==
    page.shown' # page.shown /\ ~(Rank[page.shown'] > Rank[page.shown]) =>
        /\ HasSwitched(page)
        /\ \E f \in Fetches : page.fetch[f].answer = page.shown' /\ page.fetch[f].crossed
Shows ==
    /\ page' \in Page
    /\ PageRight(page)'
    /\ GoesBackByCrossing
    /\ page'.sources >= page.sources

\* What was right of a page stays so when only the row has gone on.
LEMMA PageAhead ==
    ASSUME NEW p \in Page, PageRight(p), Forward, row \in Status, row' \in Status
    PROVE  PageRight(p)'
<1>1. p.shown \in Status \cup {Unread} /\ p.fetch \in [Fetches -> Fetch]
  BY PageFields
<1>2. Before(p.shown, row) /\ Before(row, row')
  BY DEF PageRight, Forward
<1>3. Before(p.shown, row')
  BY <1>1, <1>2, BeforeOps
<1>4. \A f \in Fetches : p.fetch[f].answer \in Status => Before(p.fetch[f].answer, row')
  BY <1>2, BeforeOps DEF PageRight
<1>5. Before(p.shown, row)' /\ \A f \in Fetches :
         p.fetch[f].answer \in Status => Before(p.fetch[f].answer, row)'
  BY <1>3, <1>4 DEF Before
<1> QED  BY <1>5 DEF PageRight, Follows, Before, InFlightOf, HasSwitched

LEMMA PageRest ==
    ASSUME Inv, Forward, row' \in Status, Keeps(page, page')
    PROVE  Shows
<1>1. page' \in Page /\ PageRight(page') /\ page'.shown = page.shown /\ page'.sources = page.sources
  BY DEF Keeps
<1>2. \A p \in Page : PageRight(p) => PageRight(p)'
  BY PageAhead DEF Inv, WritersTyped
<1>3. page.sources \in Nat
  BY PageFields DEF Inv
<1> QED  BY <1>1, <1>2, <1>3 DEF Shows, GoesBackByCrossing

LEMMA PageSame ==
    ASSUME Inv, UNCHANGED page
    PROVE  Keeps(page, page')
BY DEF Inv, Keeps

LEMMA Room == Cardinality(InFlightOf(page)) < MaxFetches => InFlightOf(page) # Fetches
<1>1. Cardinality(Fetches) = MaxFetches
  BY EventsAssumption, FS_Interval DEF Fetches
<1>2. MaxFetches \in Nat
  BY EventsAssumption
<1> QED  BY <1>1, <1>2

\* A page that asks, forgets or goes on polling shows what it has shown.
LEMMA PageMoves ==
    ASSUME Inv, PageStep
    PROVE  Shows /\ UNCHANGED <<row, worker, cancel, handler>>
<1>0. /\ page \in Page /\ PageRight(page) /\ row \in Status
      /\ page.fetch \in [Fetches -> Fetch] /\ page.sources \in Nat
      /\ page.shown \in Status \cup {Unread} /\ InFlightOf(page) \subseteq Fetches
  BY PageFields DEF Inv, WritersTyped
<1>1. UNCHANGED <<row, worker, cancel, handler>>
  BY DEF PageStep, OpenPage, FragmentRead, FragmentShown, FragmentFails, GoQuiet, SwitchToPolling,
         Poll, RestoreSse
<1>2. Forward /\ row' \in Status
  BY <1>0, <1>1, NoRowStep DEF Inv
<1>3. CASE OpenPage
  <2>1. page' = [page EXCEPT !.mode = "sse", !.shown = row, !.sources = 1] /\ page.mode = "closed"
    BY <1>3 DEF OpenPage
  <2>2. page.shown = Unread /\ page.sources = 0 /\ InFlightOf(page) = {}
    BY <1>0, <2>1 DEF PageRight
  <2>3. /\ page' \in Page /\ page'.mode = "sse" /\ page'.shown = row /\ page'.sources = 1
        /\ page'.fetch = page.fetch /\ page'.busy = page.busy /\ page'.again = page.again
    <3>1. 1 \in 0 .. MaxSources
      BY EventsAssumption
    <3> QED  BY <1>0, <2>1, <3>1 DEF Page
  <2>4. InFlightOf(page') = {} /\ Before(row, row) /\ Rank[row] > Rank[Unread]
    BY <1>0, <2>2, <2>3, Ranks DEF Before, Status, Terminal, InFlightOf
  <2>5. PageRight(page')
    BY <1>0, <2>2, <2>3, <2>4 DEF PageRight
  <2>6. PageRight(page)'
    BY <1>0, <1>2, <2>3, <2>5, PageAhead
  <2> QED  BY <1>1, <2>2, <2>3, <2>4, <2>6 DEF Shows, GoesBackByCrossing
<1>4. ASSUME NEW f \in Fetches, FragmentRead(f)
      PROVE  Shows
  <2>1. page' = [page EXCEPT !.fetch = [page.fetch EXCEPT ![f] = [page.fetch[f] EXCEPT !.answer = row]]]
    BY <1>4 DEF FragmentRead
  <2>2. page.fetch[f].answer = "asked" /\ f \in InFlightOf(page)
    BY <1>4 DEF FragmentRead, InFlightOf
  <2> DEFINE r == [page.fetch[f] EXCEPT !.answer = row]
             F == [page.fetch EXCEPT ![f] = r]
  <2>3. r \in Fetch /\ r.answer = row /\ r.crossed = page.fetch[f].crossed
    BY <1>0 DEF Fetch
  <2> HIDE DEF r
  <2>4. F \in [Fetches -> Fetch] /\ F[f] = r /\ \A g \in Fetches \ {f} : F[g] = page.fetch[g]
    BY <1>0, <2>3
  <2>5. page' = [page EXCEPT !.fetch = F]
    BY <2>1 DEF r
  <2> HIDE DEF F
  <2>6. /\ page' \in Page /\ page'.fetch = F /\ page'.shown = page.shown
        /\ page'.sources = page.sources /\ page'.mode = page.mode
        /\ page'.busy = page.busy /\ page'.again = page.again
    BY <1>0, <2>4, <2>5 DEF Page
  <2>7. InFlightOf(page') = InFlightOf(page)
    BY <1>0, <2>2, <2>3, <2>4, <2>6 DEF InFlightOf, Status, Terminal
  <2>8. Before(page.shown, row) /\ Before(row, row)
    BY <1>0 DEF PageRight, Before
  <2>9. PageRight(page')
    BY <1>0, <2>3, <2>4, <2>6, <2>7, <2>8 DEF PageRight, Follows, HasSwitched
  <2>10. Keeps(page, page')
    BY <2>6, <2>9 DEF Keeps
  <2> QED  BY <1>2, <2>10, PageRest
<1>5. ASSUME NEW f \in Fetches, FragmentShown(f)
      PROVE  Shows
  <2> DEFINE a == page.fetch[f].answer
             p == [page EXCEPT !.shown = a]
  <2>1. page' = FetchDone(p, f) /\ a \in Status
    BY <1>5 DEF FragmentShown
  <2>2. f \in InFlightOf(page)
    BY <2>1 DEF InFlightOf, Status, Terminal
  <2>3. /\ p \in Page /\ p.shown = a /\ p.fetch = page.fetch /\ p.mode = page.mode
        /\ p.sources = page.sources /\ p.busy = page.busy /\ p.again = page.again
    BY <1>0, <2>1 DEF Page
  <2> HIDE DEF p
  <2>4. InFlightOf(p) = InFlightOf(page)
    BY <2>3 DEF InFlightOf
  <2>5. Before(a, row) /\ Before(a, a) /\ page.mode # "closed"
    BY <1>0, <2>1, <2>2 DEF PageRight, Before
  <2>6. PageRight(p)
    BY <1>0, <2>2, <2>3, <2>4, <2>5 DEF PageRight, Follows, HasSwitched
  <2>7. Keeps(p, page')
    BY <2>1, <2>2, <2>3, <2>4, <2>6, FetchDoneOps
  <2>8. page' \in Page /\ PageRight(page') /\ page'.shown = a /\ page'.sources = page.sources
    BY <2>3, <2>7 DEF Keeps
  <2>9. PageRight(page)'
    BY <1>0, <1>2, <2>8, PageAhead
  <2>10. GoesBackByCrossing
    <3>1. CASE page.fetch[f].crossed
      BY <1>0, <2>2, <2>8, <3>1 DEF GoesBackByCrossing, PageRight
    <3>2. CASE ~page.fetch[f].crossed
      <4>1. Before(page.shown, a)
        BY <1>0, <2>1, <2>2, <3>2 DEF PageRight, Follows
      <4>2. a # page.shown => Rank[a] > Rank[page.shown]
        BY <1>0, <2>1, <4>1, BeforeOps
      <4> QED  BY <2>8, <4>2 DEF GoesBackByCrossing
    <3> QED  BY <3>1, <3>2
  <2> QED  BY <1>0, <2>8, <2>9, <2>10 DEF Shows
<1>6. ASSUME NEW f \in Fetches, FragmentFails(f)
      PROVE  Shows
  <2>1. Keeps(page, page')
    BY <1>0, <1>6, FetchDoneOps DEF FragmentFails
  <2> QED  BY <1>2, <2>1, PageRest
<1>7. CASE GoQuiet
  <2>1. /\ page' \in Page /\ page'.fetch = page.fetch /\ page'.shown = page.shown
        /\ page'.sources = page.sources /\ page'.mode = page.mode
        /\ page'.busy = page.busy /\ page'.again = page.again
    BY <1>0, <1>7 DEF GoQuiet, Page
  <2>2. PageRight(page')
    BY <1>0, <2>1, SameFetches DEF HasSwitched, PageRight
  <2> QED  BY <1>1, <1>2, <2>1, <2>2, PageRest DEF Keeps
<1>8. CASE SwitchToPolling
  <2>1. /\ page' \in Page /\ page'.fetch = page.fetch /\ page'.shown = page.shown
        /\ page'.sources = page.sources /\ page'.mode = "polling" /\ page.mode = "sse"
        /\ ~page'.busy /\ ~page'.again
    BY <1>0, <1>8 DEF SwitchToPolling, Forgotten, Page
  <2>2. InFlightOf(page') # Fetches
    BY <1>8, <2>1, Room DEF SwitchToPolling, MayForget, InFlightOf
  <2>3. PageRight(page')
    BY <1>0, <2>1, <2>2, SameFetches DEF HasSwitched
  <2> QED  BY <1>1, <1>2, <2>1, <2>3, PageRest DEF Keeps
<1>9. CASE Poll
  <2> DEFINE p == [page EXCEPT !.polled = TRUE]
  <2>1. page' = Asked(p) /\ page.mode = "polling"
    BY <1>9 DEF Poll
  <2>2. /\ p \in Page /\ p.fetch = page.fetch /\ p.shown = page.shown
        /\ p.sources = page.sources /\ p.mode = page.mode
        /\ p.busy = page.busy /\ p.again = page.again
    BY <1>0 DEF Page
  <2> HIDE DEF p
  <2>3. PageRight(p)
    BY <1>0, <2>2, SameFetches DEF HasSwitched, PageRight
  <2>4. Keeps(p, page')
    BY <2>1, <2>2, <2>3, AskedOps
  <2>5. Keeps(page, page')
    BY <2>2, <2>4 DEF Keeps
  <2> QED  BY <1>1, <1>2, <2>5, PageRest
<1>10. CASE RestoreSse
  <2>1. page.mode = "polling" /\ page.sources + 1 \in 0 .. MaxSources
    BY <1>0, <1>10, EventsAssumption DEF RestoreSse
  <2>2. /\ page' \in Page /\ page'.fetch = page.fetch /\ page'.shown = page.shown
        /\ page'.sources = page.sources + 1 /\ page'.mode = "sse"
        /\ ~page'.busy /\ ~page'.again
    BY <1>0, <1>10, <2>1 DEF RestoreSse, Forgotten, Page
  <2>3. InFlightOf(page') # Fetches
    BY <1>10, <2>2, Room DEF RestoreSse, MayForget, InFlightOf
  <2>4. page.sources >= 1
    BY <1>0, <2>1 DEF PageRight
  <2>5. HasSwitched(page')
    BY <1>0, <2>2, <2>4 DEF HasSwitched
  <2>6. PageRight(page')
    BY <1>0, <2>1, <2>2, <2>3, <2>5, SameFetches
  <2>7. PageRight(page)'
    BY <1>0, <1>2, <2>2, <2>6, PageAhead
  <2> QED  BY <1>0, <1>1, <2>2, <2>7 DEF Shows, GoesBackByCrossing
<1> QED  BY <1>1, <1>3, <1>4, <1>5, <1>6, <1>7, <1>8, <1>9, <1>10 DEF PageStep

\* A handler's step tells the page something, or nothing.
LEMMA HandlerPage ==
    ASSUME Inv, NEW h \in Handlers, HandlerStep(h)
    PROVE  Keeps(page, page') /\ UNCHANGED <<row, worker, cancel>> /\ (UNCHANGED faults \/ Fault)
<1>1. UNCHANGED page \/ Sends(h)
  BY DEF HandlerStep, Connect, Find, Subscribe, Deliver, TellProgress, StreamCloses,
         ConnectionDrops, MessageLost, Forget
<1>2. Keeps(page, page')
  BY <1>1, EventOps, PageSame DEF Sends, Inv
<1>3. UNCHANGED <<row, worker, cancel>> /\ (UNCHANGED faults \/ Fault)
  BY DEF HandlerStep, Connect, Find, Subscribe, Deliver, TellProgress, StreamCloses,
         ConnectionDrops, MessageLost, Forget
<1> QED  BY <1>2, <1>3

-----------------------------------------------------------------------------
(* The connections.                                                        *)

LEMMA HereFinite ==
    /\ IsFiniteSet(Handlers)
    /\ \A S \in SUBSET Handlers : IsFiniteSet(S) /\ Cardinality(S) \in Nat
<1>1. IsFiniteSet(Handlers)
  BY EventsAssumption, FS_Interval DEF Handlers
<1> QED  BY <1>1, FS_Subset, FS_CardinalityType

\* Connections go, or one comes where a source had none.
LEMMA Connections ==
    ASSUME Inv, Shows,
           \/ Here' \subseteq Here
           \/ \E h \in Handlers : Here' \subseteq Here \cup {h} /\ SourceIdle
    PROVE  OnePerSource'
<1>0. /\ Here \subseteq Handlers /\ IsFiniteSet(Here) /\ Cardinality(Here) \in Nat
      /\ Cardinality(Here) <= page.sources
      /\ page.sources \in Nat /\ page'.sources \in Nat /\ page'.sources >= page.sources
  <2>1. Here \subseteq Handlers
    BY DEF Here
  <2> QED  BY <2>1, HereFinite DEF Inv, OnePerSource, Shows, Page
<1>1. Cardinality(Here') <= page.sources
  <2>1. CASE Here' \subseteq Here
    <3>1. Cardinality(Here') \in Nat /\ Cardinality(Here') <= Cardinality(Here)
      BY <1>0, <2>1, FS_Subset, FS_CardinalityType
    <3> QED  BY <1>0, <3>1
  <2>2. ASSUME NEW h \in Handlers, Here' \subseteq Here \cup {h}, SourceIdle
        PROVE  Cardinality(Here') <= page.sources
    <3>1. Cardinality(Here) < page.sources
      BY <2>2 DEF SourceIdle, Here
    <3>2. IsFiniteSet(Here \cup {h}) /\ Cardinality(Here \cup {h}) <= Cardinality(Here) + 1
      <4>1. /\ IsFiniteSet(Here \cup {h})
            /\ Cardinality(Here \cup {h}) = IF h \in Here THEN Cardinality(Here)
                                            ELSE Cardinality(Here) + 1
        BY <1>0, FS_AddElement, Zenon
      <4> QED  BY <1>0, <4>1
    <3>3. Cardinality(Here') \in Nat /\ Cardinality(Here') <= Cardinality(Here \cup {h})
      BY <2>2, <3>2, FS_Subset, FS_CardinalityType
    <3>4. Cardinality(Here \cup {h}) \in Nat
      BY <3>2, FS_CardinalityType
    <3> QED  BY <1>0, <3>1, <3>2, <3>3, <3>4
  <2> QED  BY <2>1, <2>2
<1>2. IsFiniteSet(Here') /\ Cardinality(Here') \in Nat
  <2>1. Here' \subseteq Handlers
    BY DEF Here, Handlers
  <2> QED  BY <2>1, HereFinite
<1> QED  BY <1>0, <1>1, <1>2 DEF OnePerSource

-----------------------------------------------------------------------------
(* The invariant.                                                          *)

LEMMA InitInv == Init => Inv
<1> SUFFICES ASSUME Init
             PROVE  Inv
  OBVIOUS
<1>1. WritersTyped /\ PublishersAreRight
  BY EventsAssumption DEF Init, WritersTyped, PublishersAreRight, Status
<1>2. HandlersTyped /\ HandlersRight
  BY IdleOps DEF Init, HandlersTyped, HandlersRight
<1>3. page \in Page /\ page.sources = 0
  <2>1. NoFetch \in Fetch /\ 0 \in 0 .. MaxSources
    BY EventsAssumption DEF NoFetch, Fetch
  <2> QED  BY <2>1 DEF Init, ClosedPage, Page
<1>4. PageRight(page)
  <2>1. \A f \in Fetches : page.fetch[f].answer = "none"
    BY DEF Init, ClosedPage, NoFetch
  <2>2. InFlightOf(page) = {} /\ 1 \in Fetches
    BY <2>1, EventsAssumption DEF InFlightOf, Fetches
  <2>3. page.mode = "closed" /\ page.shown = Unread /\ ~page.again /\ Before(Unread, row)
    BY <1>1, BeforeOps DEF Init, ClosedPage, WritersTyped
  <2> QED  BY <1>3, <2>1, <2>2, <2>3 DEF PageRight, Status, Terminal
<1>5. OnePerSource
  <2>1. Here = {}
    BY IdleOps DEF Init, Here
  <2> QED  BY <1>3, <2>1, FS_EmptySet DEF OnePerSource
<1> QED  BY <1>1, <1>2, <1>3, <1>4, <1>5 DEF Inv

LEMMA StepInv ==
    ASSUME Inv, [Next]_vars
    PROVE  Inv' /\ Shows
<1>0. WritersTyped
  BY DEF Inv
<1>1. CASE UNCHANGED vars
  <2>1. UNCHANGED <<row, worker, cancel, handler, page>> /\ UNCHANGED faults
    BY <1>1 DEF vars
  <2>2. Forward /\ WritersTyped' /\ PublishersAreRight'
    BY <1>0, <2>1, NoRowStep, WritersRest
  <2>3. HandlersTyped' /\ HandlersRight' /\ Here' = Here
    BY <2>1, <2>2, HandlersRest
  <2>4. Shows
    BY <2>1, <2>2, PageSame, PageRest DEF WritersTyped
  <2> QED  BY <2>2, <2>3, <2>4, Connections DEF Inv, Shows
<1>2. CASE WriterStep
  <2>1. Forward /\ WritersTyped' /\ PublishersAreRight' /\ UNCHANGED page
    BY <1>2, RowStep
  <2>2. HandlersTyped' /\ HandlersRight' /\ Here' = Here
    BY <1>2, WriterHandlers
  <2>3. Shows
    BY <2>1, PageSame, PageRest DEF WritersTyped
  <2> QED  BY <2>1, <2>2, <2>3, Connections DEF Inv, Shows
<1>3. CASE PageStep
  <2>1. Shows /\ UNCHANGED <<row, worker, cancel, handler>>
    BY <1>3, PageMoves
  <2>2. UNCHANGED faults \/ Fault
    BY <1>3 DEF PageStep, OpenPage, FragmentRead, FragmentShown, FragmentFails, GoQuiet,
                SwitchToPolling, Poll, RestoreSse
  <2>3. Forward /\ WritersTyped' /\ PublishersAreRight'
    BY <1>0, <2>1, <2>2, NoRowStep, WritersRest
  <2>4. HandlersTyped' /\ HandlersRight' /\ Here' = Here
    BY <2>1, <2>3, HandlersRest
  <2> QED  BY <2>1, <2>3, <2>4, Connections DEF Inv, Shows
<1>4. ASSUME NEW h \in Handlers, HandlerStep(h)
      PROVE  Inv' /\ Shows
  <2>1. Keeps(page, page') /\ UNCHANGED <<row, worker, cancel>> /\ (UNCHANGED faults \/ Fault)
    BY <1>4, HandlerPage
  <2>2. Forward /\ WritersTyped' /\ PublishersAreRight'
    BY <1>0, <2>1, NoRowStep, WritersRest
  <2>3. Shows
    BY <2>1, <2>2, PageRest DEF WritersTyped
  <2>4. /\ HandlersTyped' /\ HandlersRight'
        /\ Here' \subseteq Here \/ (Here' \subseteq Here \cup {h} /\ SourceIdle)
    BY <1>4, HandlerMoves DEF Connect
  <2>5. OnePerSource'
    BY <2>3, <2>4, Connections
  <2> QED  BY <2>2, <2>3, <2>4, <2>5 DEF Inv, Shows
<1> QED  BY <1>1, <1>2, <1>3, <1>4 DEF Next

LEMMA AlwaysInv == Spec => []Inv
BY InitInv, StepInv, PTL DEF Spec

\* However streams end, connections drop, messages are lost and clients leave
\* in between: a stream that was ended belongs to a job that is over, each
\* handler cleans up at most once, and no source of the page has two
\* connections (jobs-events-route.ts:51-80).
THEOREM EndsAreTrue == Spec => []EventsInv
<1>1. ASSUME Inv
      PROVE  EventsInv
  <2>1. TypeOK
    BY <1>1 DEF Inv, WritersTyped, HandlersTyped, HandlersRight, Right, OnePerSource, Here, TypeOK
  <2>2. EndedMeansOver /\ CleanedOnce
    BY <1>1 DEF Inv, HandlersRight, Right, EndedMeansOver, CleanedOnce
  <2> QED  BY <2>1, <2>2 DEF EventsInv
<1> QED  BY <1>1, AlwaysInv, PTL

\* Late events, events told twice, queued fetches, failed ones and any number
\* of handlers and switches included, the page goes back to a state that
\* comes before the one it has shown only by the answer of a fetch that was
\* in flight with another, which takes a switch of the watchdog
\* (job-detail-watchdog.js:61,73).
THEOREM PageGoesForward == Spec => ShownNeverGoesBack
<1>1. Inv /\ [Next]_vars => [GoesBackByCrossing]_vars
  BY StepInv DEF Shows
<1> QED  BY <1>1, AlwaysInv, PTL DEF Spec, ShownNeverGoesBack, GoesBackByCrossing

-----------------------------------------------------------------------------
(* The lists of which the job page is one entry (Listings).  The order of  *)
(* a list is strict and total; a page takes its first rows, and the cursor *)
(* stands for the place of the last of them.                               *)

ListRows == rows \subseteq Row /\ \A r, s \in rows : r.id = s.id => r = s

LEMMA RowFields ==
    \A r \in Row : /\ r.id \in Ids /\ r.id \in Nat
                   /\ r.at \in 0 .. MaxTime /\ r.at \in Nat
                   /\ r.rest \in 0 .. MaxRest /\ r.rest \in Nat
<1>1. /\ Ids \subseteq Nat /\ MaxTime \in Nat /\ MaxRest \in Nat
      /\ \A t \in 0 .. MaxTime : t \in Nat
      /\ \A f \in 0 .. MaxRest : f \in Nat
  BY ListingsAssumption
<1>2. \A r \in Row : r.id \in Ids /\ r.at \in 0 .. MaxTime /\ r.rest \in 0 .. MaxRest
  BY DEF Row
<1> QED  BY <1>1, <1>2

LEMMA ListOrder ==
    ASSUME ListRows
    PROVE  /\ \A r, s \in rows : Comes(r, s) => r # s /\ ~Comes(s, r)
           /\ \A r, s \in rows : r # s => Comes(r, s) \/ Comes(s, r)
           /\ \A r, s, t \in rows : Comes(r, s) /\ Comes(s, t) => Comes(r, t)
<1>1. \A r \in rows : r.id \in Nat /\ r.at \in Nat /\ r.rest \in Nat
  BY RowFields DEF ListRows
<1>2. \A r, s \in rows : r.id = s.id => r = s
  BY DEF ListRows
<1> QED  BY <1>1, <1>2 DEF Comes

\* The where clause of a cursor that stands for a row finds rows that come
\* after it, and misses only rows of a blurred millisecond.
LEMMA BehindRow ==
    ASSUME ListRows, NEW l \in rows
    PROVE  /\ CursorOf(l) \in Cursor /\ CursorOf(l) # NoCursor /\ CursorOf(l) \notin Broken
           /\ \A r \in Behind(CursorOf(l)) : r \in rows /\ Comes(l, r)
           /\ \A r \in rows : Comes(l, r) => r \in Behind(CursorOf(l)) \/ Blurred(r)
<1>1. \A r \in rows : /\ r.id \in Ids /\ r.at \in 0 .. MaxTime
                      /\ r.id \in Nat /\ r.at \in Nat /\ r.rest \in Nat
  BY RowFields DEF ListRows
<1> DEFINE c == CursorOf(l)
<1>2. c.kind = "row" /\ c.at = l.at /\ c.id = l.id /\ c \in Cursor
  BY <1>1 DEF CursorOf, Cursor
<1>3. c # NoCursor /\ c \notin Broken
  BY <1>2 DEF NoCursor, Broken
<1> HIDE DEF c
<1>4. ASSUME NEW r \in Behind(c)
      PROVE  r \in rows /\ Comes(l, r)
  BY <1>1, <1>2, <1>3 DEF Behind, Comes
<1>5. ASSUME NEW r \in rows, Comes(l, r), r \notin Behind(c)
      PROVE  Blurred(r)
  <2>1. list # "users" /\ r.at = l.at /\ (l.rest > 0 \/ r.rest > 0)
    BY <1>1, <1>2, <1>3, <1>5 DEF Behind, Comes
  <2> QED  BY <2>1 DEF Blurred
<1> QED  BY <1>2, <1>3, <1>4, <1>5 DEF c

LEMMA LeastNat ==
    ASSUME NEW T, T \subseteq Nat, T # {}
    PROVE  \E m \in T : \A k \in T : m <= k
<1> DEFINE Less == OpToRel(<, Nat)
<1>1. IsWellFoundedOn(Less, Nat)
  BY NatLessThanWellFounded, Zenon
<1>2. \A k, m \in Nat : <<k, m>> \in Less <=> k < m
  BY DEF OpToRel
<1> HIDE DEF Less
<1>3. PICK m \in T : \A k \in T : ~(<<k, m>> \in Less)
  BY <1>1, WFMin
<1>4. \A k \in T : ~(k < m)
  BY <1>2, <1>3, Zenon
<1> QED  BY <1>4

\* How many rows of S come before r.
Ahead(S, r) == {s \in S : Comes(s, r)}
Place(S, r) == Cardinality(Ahead(S, r))

LEMMA Places ==
    ASSUME ListRows, NEW S, S \subseteq rows, IsFiniteSet(S)
    PROVE  /\ Cardinality(S) \in Nat
           /\ \A r \in S : Place(S, r) \in Nat /\ Place(S, r) < Cardinality(S)
           /\ \A r, s \in S : Comes(r, s) => Place(S, r) < Place(S, s)
<1>1. ASSUME NEW T, NEW U, IsFiniteSet(U), T \subseteq U, NEW x \in U, x \notin T
      PROVE  /\ Cardinality(T) \in Nat /\ Cardinality(U) \in Nat /\ Cardinality(T) < Cardinality(U)
  <2>1. /\ IsFiniteSet(T) /\ Cardinality(T) <= Cardinality(U)
        /\ Cardinality(U) = Cardinality(T) => T = U
    BY <1>1, FS_Subset
  <2>2. Cardinality(T) \in Nat /\ Cardinality(U) \in Nat
    BY <1>1, <2>1, FS_CardinalityType
  <2> QED  BY <1>1, <2>1, <2>2
<1>2. Cardinality(S) \in Nat
  BY FS_CardinalityType
<1>3. ASSUME NEW r \in S PROVE Place(S, r) \in Nat /\ Place(S, r) < Cardinality(S)
  <2>1. Ahead(S, r) \subseteq S /\ r \notin Ahead(S, r)
    BY ListOrder DEF Ahead
  <2> QED  BY <1>1, <2>1 DEF Place
<1>4. ASSUME NEW r \in S, NEW s \in S, Comes(r, s) PROVE Place(S, r) < Place(S, s)
  <2>1. Ahead(S, r) \subseteq Ahead(S, s)
    BY <1>4, ListOrder DEF Ahead
  <2>2. r \in Ahead(S, s) /\ r \notin Ahead(S, r)
    BY <1>4, ListOrder DEF Ahead
  <2>3. Ahead(S, s) \subseteq S
    BY DEF Ahead
  <2>4. IsFiniteSet(Ahead(S, s))
    BY <2>3, FS_Subset
  <2> QED  BY <1>1, <2>1, <2>2, <2>4 DEF Place
<1> QED  BY <1>2, <1>3, <1>4

\* A page has the rows that come before all others, all rows if there are no
\* more than it can take, and one at least if there is any.
LEMMA FirstRowsComeFirst ==
    ASSUME ListRows, NEW S, S \subseteq rows, IsFiniteSet(S), NEW n \in Nat
    PROVE  /\ FirstRows(S, n) \subseteq S /\ IsFiniteSet(FirstRows(S, n))
           /\ \A r \in FirstRows(S, n), s \in S \ FirstRows(S, n) : Comes(r, s)
           /\ Cardinality(S) <= n => FirstRows(S, n) = S
           /\ n > 0 /\ S # {} => FirstRows(S, n) # {}
<1>1. FirstRows(S, n) = {r \in S : Place(S, r) < n}
  BY DEF FirstRows, Place, Ahead
<1>2. IsFiniteSet(FirstRows(S, n))
  BY <1>1, FS_Subset
<1>3. ASSUME NEW r \in FirstRows(S, n), NEW s \in S \ FirstRows(S, n) PROVE Comes(r, s)
  <2>1. Place(S, r) < n /\ ~(Place(S, s) < n) /\ r \in S /\ r # s
    BY <1>1, <1>3
  <2>2. Place(S, r) \in Nat /\ Place(S, s) \in Nat
    BY <2>1, Places
  <2>3. ~Comes(s, r)
    BY <2>1, <2>2, Places
  <2> QED  BY <2>1, <2>3, ListOrder
<1>4. ASSUME Cardinality(S) <= n PROVE FirstRows(S, n) = S
  <2>1. \A r \in S : Place(S, r) < n
    BY <1>4, Places
  <2> QED  BY <1>1, <2>1
<1>5. ASSUME n > 0, S # {} PROVE FirstRows(S, n) # {}
  <2> DEFINE T == {Place(S, r) : r \in S}
  <2>1. T \subseteq Nat /\ T # {}
    BY <1>5, Places
  <2>2. PICK m \in T : \A k \in T : m <= k
    <3> HIDE DEF T
    <3> QED  BY <2>1, LeastNat
  <2>3. PICK r \in S : m = Place(S, r)
    OBVIOUS
  <2>4. Ahead(S, r) = {}
    <3> SUFFICES ASSUME NEW s \in S, Comes(s, r) PROVE FALSE
      BY DEF Ahead
    <3>1. Place(S, s) < Place(S, r) /\ Place(S, s) \in Nat /\ Place(S, r) \in Nat
      BY Places
    <3>2. m <= Place(S, s)
      BY <2>2
    <3> QED  BY <2>3, <3>1, <3>2
  <2>5. Place(S, r) = 0
    BY <2>4, FS_EmptySet DEF Place
  <2> QED  BY <1>1, <1>5, <2>5
<1> QED  BY <1>1, <1>2, <1>3, <1>4, <1>5

\* The last row of a page comes after the others.
LEMMA LastRowComesLast ==
    ASSUME ListRows, NEW S, S \subseteq rows, IsFiniteSet(S), S # {}
    PROVE  /\ LastRow(S) \in S
           /\ \A s \in S : s = LastRow(S) \/ Comes(s, LastRow(S))
<1> DEFINE T == {Cardinality(S) - Place(S, r) : r \in S}
<1>1. T \subseteq Nat /\ T # {}
  BY Places
<1>2. PICK m \in T : \A k \in T : m <= k
  <2> HIDE DEF T
  <2> QED  BY <1>1, LeastNat
<1>3. PICK r \in S : m = Cardinality(S) - Place(S, r)
  OBVIOUS
<1>4. \A s \in S : ~Comes(r, s)
  <2> SUFFICES ASSUME NEW s \in S, Comes(r, s) PROVE FALSE
    OBVIOUS
  <2>1. /\ Place(S, r) < Place(S, s)
        /\ Cardinality(S) \in Nat /\ Place(S, s) \in Nat /\ Place(S, r) \in Nat
    BY Places
  <2>2. m <= Cardinality(S) - Place(S, s)
    BY <1>2
  <2> QED  BY <1>3, <2>1, <2>2
<1>5. LastRow(S) \in S /\ \A s \in S : ~Comes(LastRow(S), s)
  BY <1>4 DEF LastRow
<1> QED  BY <1>5, ListOrder

\* What comes after a row behind a cursor is behind that cursor too.
LEMMA BehindAfter ==
    ASSUME ListRows, reader \in Reader, NEW l \in rows,
           reader.cursor # NoCursor, reader.cursor \notin Broken, l \in Behind(reader.cursor)
    PROVE  \A r \in rows : Comes(l, r) => r \in Behind(reader.cursor)
<1>1. \A r \in rows : r.id \in Nat /\ r.at \in Nat /\ r.rest \in Nat
  BY RowFields DEF ListRows
<1>2. reader.cursor \in Cursor
  BY DEF Reader
<1>3. reader.cursor.id \in Nat /\ reader.cursor.at \in Nat
  <2>1. reader.cursor.id \in Ids /\ reader.cursor.at \in 0 .. MaxTime
    BY <1>2 DEF Cursor
  <2>2. Ids \subseteq Nat /\ \A t \in 0 .. MaxTime : t \in Nat
    BY ListingsAssumption
  <2> QED  BY <2>1, <2>2
<1> QED  BY <1>1, <1>3 DEF Behind, Comes

-----------------------------------------------------------------------------
(* Whoever follows the links.                                              *)

\* Between two pages the rows the reader was shown lie before its cursor,
\* and what it is still owed lies behind it, or in a blurred millisecond.
AtCursor ==
    \A r \in rows :
        /\ r.id \in reader.seen => r \notin Behind(reader.cursor)
        /\ r.id \in reader.owed =>
              \/ r.id \in reader.seen \/ Blurred(r)
              \/ r \in Behind(reader.cursor) \cap Matching(reader.filter)

ReaderKnows ==
    /\ IsFiniteSet(rows)
    /\ reader.again = {}
    /\ reader.seen \subseteq IdsOf(rows) /\ reader.owed \subseteq IdsOf(rows)
    /\ reader.pc = "start" => reader.cursor = NoCursor
    /\ reader.pc = "reading" => reader.cursor # NoCursor
    /\ reader.pc = "reading" /\ reader.cursor \notin Broken => AtCursor
    /\ reader.pc = "end" => \A r \in rows : r.id \in reader.owed \ reader.seen => Blurred(r)

ListInv == ListTypeOK /\ ReaderKnows

\* What a query returns: a page of the rows found, and whether there is more.
LEMMA QueryFinds ==
    ASSUME ListInv, NEW c, Behind(c) \subseteq rows, NEW f, NEW limit \in Nat \ {0},
           NEW found, found = Behind(c) \cap Matching(f),
           NEW slice, slice = Query(c, f, limit).slice,
           NEW next, next = Query(c, f, limit).next
    PROVE  /\ slice \subseteq found /\ IsFiniteSet(slice)
           /\ \/ next = NoCursor /\ slice = found
              \/ \E l \in slice :
                    /\ next = CursorOf(l)
                    /\ \A r \in slice : r = l \/ Comes(r, l)
                    /\ \A r \in found \ slice : Comes(l, r)
<1>1. ListRows /\ found \subseteq rows /\ IsFiniteSet(found) /\ limit \in Nat /\ limit > 0
  BY FS_Subset DEF ListInv, ListTypeOK, ReaderKnows, ListRows
<1>2. /\ slice = FirstRows(found, limit)
      /\ next = IF Cardinality(found) > limit THEN CursorOf(LastRow(slice)) ELSE NoCursor
  BY DEF Query
<1>3. /\ slice \subseteq found /\ IsFiniteSet(slice)
      /\ \A r \in slice, s \in found \ slice : Comes(r, s)
      /\ Cardinality(found) <= limit => slice = found
      /\ found # {} => slice # {}
  <2>1. /\ FirstRows(found, limit) \subseteq found /\ IsFiniteSet(FirstRows(found, limit))
        /\ \A r \in FirstRows(found, limit), s \in found \ FirstRows(found, limit) : Comes(r, s)
        /\ Cardinality(found) <= limit => FirstRows(found, limit) = found
        /\ limit > 0 /\ found # {} => FirstRows(found, limit) # {}
    BY <1>1, FirstRowsComeFirst
  <2> QED  BY <1>1, <1>2, <2>1
<1>4. Cardinality(found) \in Nat
  BY <1>1, FS_CardinalityType
<1>5. CASE Cardinality(found) <= limit
  <2>1. next = NoCursor
    BY <1>1, <1>2, <1>4, <1>5
  <2> QED  BY <1>3, <1>5, <2>1
<1>6. CASE Cardinality(found) > limit
  <2>1. found # {}
    BY <1>1, <1>6, FS_EmptySet
  <2>2. slice # {} /\ slice \subseteq rows
    BY <1>1, <1>3, <2>1
  <2>3. /\ LastRow(slice) \in slice
        /\ \A s \in slice : s = LastRow(slice) \/ Comes(s, LastRow(slice))
    BY <1>1, <1>3, <2>2, LastRowComesLast
  <2> QED  BY <1>2, <1>3, <1>6, <2>3
<1> QED  BY <1>1, <1>4, <1>5, <1>6

\* A page the reader turns to.
LEMMA PageTurned ==
    ASSUME ListInv, ReadPage
    PROVE  ListInv'
<1>1. PICK limit \in Limits :
        LET result == Query(Decode(reader.cursor), reader.filter, limit)
            first  == Decode(reader.cursor) = NoCursor
            ids    == IdsOf(result.slice)
        IN  /\ reader' = [reader EXCEPT
                    !.pc = IF result.next = NoCursor THEN "end" ELSE "reading",
                    !.cursor = result.next,
                    !.seen = IF first THEN ids ELSE @ \cup ids,
                    !.again = IF first THEN {} ELSE @ \cup (reader.seen \cap ids),
                    !.owed = IF first THEN IdsOf(Matching(reader.filter)) ELSE @]
            /\ Show(result.slice)
  BY DEF ReadPage
<1> DEFINE c == Decode(reader.cursor)
           f == reader.filter
           found == Behind(c) \cap Matching(f)
           slice == Query(c, f, limit).slice
           next == Query(c, f, limit).next
           ids == IdsOf(slice)
<1>2. /\ reader \in Reader /\ ListRows /\ rows \subseteq Row
      /\ IsFiniteSet(rows) /\ reader.again = {}
      /\ reader.seen \subseteq IdsOf(rows) /\ reader.owed \subseteq IdsOf(rows)
  BY DEF ListInv, ListTypeOK, ReaderKnows, ListRows
<1>3. /\ UNCHANGED <<list, rows, clock>>
      /\ reader.pc \in {"start", "reading"}
      /\ Decode(reader.cursor) \notin Broken
  BY DEF ReadPage
<1>4. limit \in Nat \ {0}
  BY <1>1, ListingsAssumption DEF Limits
<1>5. Behind(c) \subseteq rows /\ Matching(f) \subseteq rows
  BY DEF Behind, Matching
<1>6. /\ slice \subseteq found
      /\ \/ next = NoCursor /\ slice = found
         \/ \E l \in slice :
               /\ next = CursorOf(l)
               /\ \A r \in slice : r = l \/ Comes(r, l)
               /\ \A r \in found \ slice : Comes(l, r)
  <2> HIDE DEF c, f
  <2>1. /\ found = Behind(c) \cap Matching(f)
        /\ slice = Query(c, f, limit).slice /\ next = Query(c, f, limit).next
    OBVIOUS
  <2> HIDE DEF found, slice, next
  <2> QED  BY <1>4, <1>5, <2>1, QueryFinds
<1>7. reader' = [reader EXCEPT
                    !.pc = IF next = NoCursor THEN "end" ELSE "reading",
                    !.cursor = next,
                    !.seen = IF c = NoCursor THEN ids ELSE @ \cup ids,
                    !.again = IF c = NoCursor THEN {} ELSE @ \cup (reader.seen \cap ids),
                    !.owed = IF c = NoCursor THEN IdsOf(Matching(f)) ELSE @]
  BY <1>1
<1>8. shown' \in [rows: SUBSET Row, polls: BOOLEAN]
  <2>1. Show(slice)
    BY <1>1
  <2>2. slice \subseteq Row
    BY <1>2, <1>5, <1>6
  <2>3. shown \in [rows: SUBSET Row, polls: BOOLEAN]
    BY DEF ListInv, ListTypeOK
  <2> HIDE DEF slice
  <2> QED  BY <2>1, <2>2, <2>3 DEF Show, SomeInFlight
<1> HIDE DEF c, f, slice, next, ids
<1>9. /\ reader'.pc = IF next = NoCursor THEN "end" ELSE "reading"
      /\ reader'.cursor = next /\ reader'.filter = f
      /\ reader'.seen = IF c = NoCursor THEN ids ELSE reader.seen \cup ids
      /\ reader'.again = IF c = NoCursor THEN {} ELSE reader.again \cup (reader.seen \cap ids)
      /\ reader'.owed = IF c = NoCursor THEN IdsOf(Matching(f)) ELSE reader.owed
  BY <1>2, <1>7 DEF Reader, f
<1>10. slice \subseteq rows /\ ids \subseteq IdsOf(rows) /\ IdsOf(rows) \subseteq Ids
  BY <1>2, <1>5, <1>6, RowFields DEF IdsOf, ids
<1>11. next = NoCursor \/ next \in Cursor
  BY <1>2, <1>6, <1>10, BehindRow
<1>12. \A r \in rows : r.id \in ids => r \in slice
  BY <1>2, <1>10 DEF ids, IdsOf, ListRows
<1>13. IdsOf(Matching(f)) \subseteq IdsOf(rows)
  BY <1>5 DEF IdsOf
<1>14. reader'.seen \subseteq IdsOf(rows) /\ reader'.owed \subseteq IdsOf(rows)
  BY <1>2, <1>9, <1>10, <1>13
\* On a page further on nothing was shown before, and all that is owed is
\* found or was shown.
<1>15. ASSUME c # NoCursor
       PROVE  /\ \A r \in rows : r.id \in reader.seen => r \notin Behind(c)
              /\ \A r \in rows :
                    r.id \in reader.owed => r.id \in reader.seen \/ r \in found \/ Blurred(r)
              /\ c = reader.cursor /\ c \notin Broken
  <2>1. c = reader.cursor /\ reader.cursor \notin Broken /\ reader.cursor # NoCursor
    BY <1>3, <1>15 DEF c, Decode
  <2>2. reader.pc = "reading"
    BY <1>3, <2>1 DEF ListInv, ReaderKnows
  <2> QED  BY <2>1, <2>2 DEF ListInv, ReaderKnows, AtCursor, f
<1>16. c = NoCursor => Behind(c) = rows
  BY DEF Behind
<1>17. reader'.again = {}
  <2>1. ASSUME c # NoCursor PROVE reader.seen \cap ids = {}
    <3> SUFFICES ASSUME NEW i \in ids, i \in reader.seen PROVE FALSE
      OBVIOUS
    <3>1. PICK r \in slice : r.id = i
      BY DEF ids, IdsOf
    <3>2. r \in rows /\ r \in Behind(c)
      BY <1>6, <1>10, <3>1
    <3> QED  BY <1>15, <2>1, <3>1, <3>2
  <2> QED  BY <1>2, <1>9, <2>1
\* All that is owed is in the page, was shown, or is found behind the page.
<1>18. \A r \in rows :
         r.id \in reader'.owed => r.id \in reader'.seen \/ r \in found \ slice \/ Blurred(r)
  <2>1. ASSUME NEW r \in rows, r.id \in reader'.owed
        PROVE  r \in found \/ r.id \in reader'.seen \/ Blurred(r)
    <3>1. CASE c = NoCursor
      <4>1. PICK s \in Matching(f) : s.id = r.id
        BY <1>9, <2>1, <3>1 DEF IdsOf
      <4>2. s = r
        BY <1>2, <1>5, <4>1 DEF ListRows
      <4> QED  BY <1>16, <3>1, <4>1, <4>2
    <3>2. CASE c # NoCursor
      BY <1>9, <1>15, <2>1, <3>2
    <3> QED  BY <3>1, <3>2
  <2>2. \A r \in slice : r.id \in reader'.seen
    BY <1>9 DEF ids, IdsOf
  <2> QED  BY <2>1, <2>2
<1>19. ASSUME next = NoCursor
       PROVE  \A r \in rows : r.id \in reader'.owed \ reader'.seen => Blurred(r)
  <2>1. slice = found
    BY <1>6, <1>10, <1>19, BehindRow, <1>2
  <2> QED  BY <1>18, <2>1
<1>20. ASSUME next # NoCursor
       PROVE  \A r \in rows :
                 /\ r.id \in reader'.seen => r \notin Behind(next)
                 /\ r.id \in reader'.owed =>
                       \/ r.id \in reader'.seen \/ Blurred(r)
                       \/ r \in Behind(next) \cap Matching(f)
  <2>1. PICK l \in slice :
           /\ next = CursorOf(l)
           /\ \A r \in slice : r = l \/ Comes(r, l)
           /\ \A r \in found \ slice : Comes(l, r)
    BY <1>6, <1>20
  <2>2. /\ l \in rows /\ l \in Behind(c)
        /\ \A r \in Behind(next) : r \in rows /\ Comes(l, r)
        /\ \A r \in rows : Comes(l, r) => r \in Behind(next) \/ Blurred(r)
    BY <1>2, <1>6, <1>10, <2>1, BehindRow
  <2>3. ASSUME NEW r \in rows, r.id \in reader'.seen PROVE r \notin Behind(next)
    <3>1. CASE r \in slice
      BY <1>2, <2>1, <2>2, <3>1, ListOrder
    <3>2. CASE r \notin slice
      <4>1. c # NoCursor /\ r.id \in reader.seen
        BY <1>9, <1>12, <2>3, <3>2
      <4>2. r \notin Behind(c) /\ c = reader.cursor /\ c \notin Broken
        BY <1>15, <4>1
      <4>3. Comes(l, r) => r \in Behind(c)
        BY <1>2, <2>2, <4>1, <4>2, BehindAfter
      <4> QED  BY <2>2, <4>2, <4>3
    <3> QED  BY <3>1, <3>2
  <2>4. ASSUME NEW r \in rows, r.id \in reader'.owed
        PROVE  \/ r.id \in reader'.seen \/ Blurred(r)
               \/ r \in Behind(next) \cap Matching(f)
    BY <1>18, <2>1, <2>2, <2>4
  <2> QED  BY <2>3, <2>4
<1>21. reader' \in Reader
  <2>1. next \in Cursor \cup Broken \cup {NoCursor}
    BY <1>11
  <2>2. reader'.seen \in SUBSET Ids /\ reader'.owed \in SUBSET Ids /\ reader'.again \in SUBSET Ids
    BY <1>10, <1>14, <1>17
  <2> QED  BY <1>2, <1>7, <1>9, <2>1, <2>2 DEF Reader
<1>22. ListTypeOK'
  BY <1>3, <1>8, <1>21 DEF ListInv, ListTypeOK
<1>23. AtCursor' <=> \A r \in rows :
          /\ r.id \in reader'.seen => r \notin Behind(next)
          /\ r.id \in reader'.owed =>
                \/ r.id \in reader'.seen \/ Blurred(r)
                \/ r \in Behind(next) \cap Matching(f)
  BY <1>3, <1>9 DEF AtCursor, Behind, Matching, Blurred
<1>24. ReaderKnows'
  BY <1>2, <1>3, <1>9, <1>14, <1>17, <1>19, <1>20, <1>23 DEF ReaderKnows, IdsOf, Blurred
<1> QED  BY <1>22, <1>24 DEF ListInv

-----------------------------------------------------------------------------
(* The steps.                                                              *)

LEMMA ListStarts == ListInit => ListInv
<1> SUFFICES ASSUME ListInit PROVE ListInv
  OBVIOUS
<1>1. ListTypeOK
  BY ListingsAssumption DEF ListInit, ListTypeOK, Reader, Lists
<1>2. ReaderKnows
  BY FS_EmptySet DEF ListInit, ReaderKnows, IdsOf
<1> QED  BY <1>1, <1>2 DEF ListInv

\* A row that comes was shown to nobody and is owed to nobody.
LEMMA RowComes ==
    ASSUME ListInv, Insert
    PROVE  ListInv'
<1>1. PICK i \in Ids \ IdsOf(rows), t \in {clock, clock - 1} \cap Nat, f \in 0 .. MaxRest,
           tag \in Tags :
        rows' = rows \cup {[id |-> i, at |-> t, rest |-> f, tag |-> tag]}
  BY DEF Insert, Tags
<1>2. UNCHANGED <<list, clock, reader, shown>>
  BY DEF Insert
<1> DEFINE new == [id |-> i, at |-> t, rest |-> f, tag |-> tag]
<1>3. /\ clock \in 0 .. MaxTime /\ MaxTime \in Nat /\ rows \subseteq Row
      /\ \A r, s \in rows : r.id = s.id => r = s
      /\ IsFiniteSet(rows) /\ ReaderKnows
  BY ListingsAssumption DEF ListInv, ListTypeOK, ReaderKnows
<1>4. new \in Row /\ new.id = i /\ \A r \in rows : r.id # i
  <2>1. t \in 0 .. MaxTime
    BY <1>1, <1>3
  <2> QED  BY <1>1, <2>1 DEF Row, IdsOf
<1>5. rows' = rows \cup {new}
  BY <1>1
<1> HIDE DEF new
<1>6. ListTypeOK'
  <2>1. rows' \subseteq Row /\ \A r, s \in rows' : r.id = s.id => r = s
    BY <1>3, <1>4, <1>5
  <2> QED  BY <1>2, <2>1 DEF ListInv, ListTypeOK
<1>7. IsFiniteSet(rows') /\ IdsOf(rows)  \subseteq IdsOf(rows')
  BY <1>3, <1>5, FS_AddElement DEF IdsOf
<1>b. \A r \in rows : Blurred(r) => Blurred(r)'
  BY <1>2, <1>5 DEF Blurred
<1>n. i \notin reader.seen /\ i \notin reader.owed
  BY <1>1, <1>3 DEF ReaderKnows
<1>8. ASSUME AtCursor PROVE AtCursor'
  <2>2. \A r \in rows : /\ r \in Behind(reader.cursor)' <=> r \in Behind(reader.cursor)
                        /\ r \in Matching(reader.filter)' <=> r \in Matching(reader.filter)
    BY <1>2, <1>5 DEF Behind, Matching
  <2>3. ASSUME NEW r \in rows'
        PROVE  /\ r.id \in reader.seen => r \notin Behind(reader.cursor)'
               /\ r.id \in reader.owed =>
                     \/ r.id \in reader.seen \/ Blurred(r)'
                     \/ r \in Behind(reader.cursor)' \cap Matching(reader.filter)'
    <3>1. CASE r \in rows
      BY <1>8, <1>b, <2>2, <3>1 DEF AtCursor
    <3>2. CASE r = new
      BY <1>4, <1>n, <3>2
    <3> QED  BY <1>5, <3>1, <3>2
  <2> QED  BY <1>2, <2>3 DEF AtCursor
<1>9. ReaderKnows'
  BY <1>2, <1>3, <1>4, <1>5, <1>7, <1>8, <1>b, <1>n DEF ReaderKnows
<1> QED  BY <1>6, <1>9 DEF ListInv

\* A job that ends keeps its place in the list.
LEMMA JobHasEnded ==
    ASSUME ListInv, NEW i \in Ids, JobEnds(i)
    PROVE  ListInv'
<1>1. PICK r \in rows :
        r.id = i /\ r.tag = "open" /\ rows' = (rows \ {r}) \cup {[r EXCEPT !.tag = "ended"]}
  BY DEF JobEnds
<1>2. /\ UNCHANGED <<list, clock, shown>>
      /\ reader' = IF reader.filter = "any" THEN reader ELSE [reader EXCEPT !.owed = @ \ {i}]
  BY DEF JobEnds
<1> DEFINE new == [r EXCEPT !.tag = "ended"]
<1>3. /\ rows \subseteq Row /\ reader \in Reader /\ IsFiniteSet(rows) /\ ReaderKnows
      /\ \A s, u \in rows : s.id = u.id => s = u
  BY DEF ListInv, ListTypeOK, ReaderKnows
<1>4. new \in Row /\ new.id = i /\ new.at = r.at /\ new.rest = r.rest
  BY <1>1, <1>3 DEF Row, Tags
<1>5. rows' = (rows \ {r}) \cup {new}
  BY <1>1
<1> HIDE DEF new
<1>6. /\ reader'.pc = reader.pc /\ reader'.cursor = reader.cursor /\ reader'.filter = reader.filter
      /\ reader'.seen = reader.seen /\ reader'.again = reader.again
      /\ reader'.owed \subseteq reader.owed /\ reader' \in Reader
      /\ reader.filter # "any" => i \notin reader'.owed
  BY <1>2, <1>3 DEF Reader
<1>7. ListTypeOK'
  <2>1. rows' \subseteq Row /\ \A s, u \in rows' : s.id = u.id => s = u
    BY <1>1, <1>3, <1>4, <1>5
  <2> QED  BY <1>2, <1>6, <2>1 DEF ListInv, ListTypeOK
<1>8. IsFiniteSet(rows') /\ IdsOf(rows') = IdsOf(rows)
  <2>1. IsFiniteSet(rows \ {r})
    BY <1>3, FS_Subset
  <2>2. IsFiniteSet(rows')
    BY <1>5, <2>1, FS_AddElement
  <2>3. IdsOf(rows') = IdsOf(rows)
    BY <1>1, <1>4, <1>5 DEF IdsOf
  <2> QED  BY <2>2, <2>3
<1>b. /\ \A s \in rows : Blurred(s) => Blurred(s)'
      /\ Blurred(r) => Blurred(new)'
  BY <1>1, <1>2, <1>4, <1>5 DEF Blurred
<1>9. ASSUME AtCursor PROVE AtCursor'
  <2>1. \A s \in rows \ {r} : /\ s \in Behind(reader.cursor)' <=> s \in Behind(reader.cursor)
                              /\ s \in Matching(reader.filter)' <=> s \in Matching(reader.filter)
    BY <1>2, <1>5, <1>6 DEF Behind, Matching
  <2>2. /\ new \in Behind(reader.cursor)' <=> r \in Behind(reader.cursor)
        /\ reader.filter = "any" => new \in Matching(reader.filter)'
    BY <1>1, <1>2, <1>4, <1>5, <1>6 DEF Behind, Matching
  <2>3. ASSUME NEW s \in rows'
        PROVE  /\ s.id \in reader.seen => s \notin Behind(reader.cursor)'
               /\ s.id \in reader'.owed =>
                     \/ s.id \in reader.seen \/ Blurred(s)'
                     \/ s \in Behind(reader.cursor)' \cap Matching(reader.filter)'
    <3>1. CASE s \in rows \ {r}
      BY <1>6, <1>9, <1>b, <2>1, <3>1 DEF AtCursor
    <3>2. CASE s = new
      BY <1>1, <1>4, <1>6, <1>9, <1>b, <2>2, <3>2 DEF AtCursor
    <3> QED  BY <1>5, <3>1, <3>2
  <2> QED  BY <1>6, <2>3 DEF AtCursor
<1>e. ASSUME reader.pc = "end", NEW s \in rows', s.id \in reader'.owed \ reader'.seen
      PROVE  Blurred(s)'
  BY <1>1, <1>3, <1>4, <1>5, <1>6, <1>b, <1>e DEF ReaderKnows
<1>10. ReaderKnows'
  BY <1>3, <1>6, <1>8, <1>9, <1>e DEF ReaderKnows
<1> QED  BY <1>7, <1>10 DEF ListInv

\* What else the reader does, and the page that polls, leave the rows alone.
LEMMA ListRests ==
    ASSUME ListInv, Tick \/ ChooseFilter \/ BreakLink \/ ReadFails \/ PollList \/ UNCHANGED listVars
    PROVE  ListInv'
<1> USE DEF ListInv
<1>1. rows' = rows /\ list' = list
  BY DEF Tick, ChooseFilter, BreakLink, ReadFails, PollList, listVars
<1>2. /\ ListTypeOK /\ reader \in Reader /\ rows \subseteq Row
      /\ shown \in [rows: SUBSET Row, polls: BOOLEAN]
  BY DEF ListTypeOK
<1>3. ASSUME reader' = reader PROVE ReaderKnows'
  BY <1>1, <1>3 DEF ReaderKnows, AtCursor, IdsOf, Behind, Matching, Blurred
<1>4. CASE Tick
  <2>1. ListTypeOK'
    BY <1>4, ListingsAssumption DEF ListTypeOK, Tick
  <2> QED  BY <1>3, <1>4, <2>1 DEF Tick
<1>5. CASE ChooseFilter
  <2>1. PICK f \in Tags : reader' = [reader EXCEPT !.filter = f]
    BY <1>5 DEF ChooseFilter
  <2>2. reader' \in Reader /\ UNCHANGED <<list, rows, clock, shown>>
    BY <1>2, <1>5, <2>1 DEF ChooseFilter, Reader
  <2>3. ReaderKnows'
    BY <1>1, <1>2, <1>5, <2>1 DEF ReaderKnows, ChooseFilter, IdsOf, Reader
  <2> QED  BY <2>2, <2>3 DEF ListTypeOK
<1>6. CASE BreakLink
  <2>0. PICK b \in Broken : reader' = [reader EXCEPT !.cursor = b]
    BY <1>6 DEF BreakLink
  <2>1. reader' \in Reader /\ UNCHANGED <<list, rows, clock, shown>>
    BY <1>2, <1>6, <2>0 DEF BreakLink, Reader
  <2>2. ReaderKnows'
    BY <1>1, <1>2, <1>6, <2>0 DEF ReaderKnows, BreakLink, IdsOf, Reader, Broken, NoCursor
  <2> QED  BY <2>1, <2>2 DEF ListTypeOK
<1>7. CASE ReadFails
  <2>1. reader' \in Reader /\ UNCHANGED <<list, rows, clock, shown>>
    BY <1>2, <1>7 DEF ReadFails, Reader
  <2>2. ReaderKnows'
    BY <1>1, <1>2, <1>7 DEF ReaderKnows, ReadFails, IdsOf, Reader
  <2> QED  BY <2>1, <2>2 DEF ListTypeOK
<1>8. CASE PollList
  <2> DEFINE slice == Query(NoCursor, reader.filter, MaxLimit).slice
  <2>1. slice \subseteq Row
    BY <1>2 DEF Query, FirstRows, Matching
  <2>2. Show(slice) /\ UNCHANGED <<list, rows, clock, reader>>
    BY <1>8 DEF PollList
  <2> HIDE DEF slice
  <2>3. shown' \in [rows: SUBSET Row, polls: BOOLEAN]
    BY <1>2, <2>1, <2>2 DEF Show, SomeInFlight
  <2> QED  BY <1>2, <1>3, <2>2, <2>3 DEF ListTypeOK
<1>9. CASE UNCHANGED listVars
  BY <1>3, <1>9 DEF listVars, ListTypeOK
<1> QED  BY <1>4, <1>5, <1>6, <1>7, <1>8, <1>9

\* Whoever follows the links of a list sees no row twice and, at the end,
\* every row that was in it when the reading began and has not left it, for
\* any ids, times and sizes of a page and whatever comes and ends between two
\* pages, except where the fractions of a millisecond tell rows apart that the
\* cursor does not; a link that was cut begins anew or fails: the cursor of time and id (jobs-routes.ts, job-list-page.ts,
\* admin-audit-events-page.ts) or of the id (users-routes.ts).
THEOREM ListsReadOnce == ListSpec => []ListingsInv
<1>1. ListInv /\ [ListNext]_listVars => ListInv'
  BY PageTurned, RowComes, JobHasEnded, ListRests DEF ListNext
<1>2. ListInv => ListingsInv
  BY DEF ListInv, ListingsInv, EachRowOnce, ReaderKnows
<1> QED  BY ListStarts, <1>1, <1>2, PTL DEF ListSpec
=============================================================================
