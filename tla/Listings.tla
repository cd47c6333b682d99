------------------------------ MODULE Listings ------------------------------
(***************************************************************************)
(* The lists of the web pages and of the API, read page by page while rows  *)
(* come and change: the jobs of a user as JSON and as a page that polls     *)
(* itself, the audit events, the users.  Ids are random, so a new row may   *)
(* have any place among the ids.  A time is a millisecond and the rest of   *)
(* it: the column keeps microseconds, a Date and a cursor do not.           *)
(* Names are the lists' own (ListInit, listVars), so that a module can      *)
(* EXTEND this one beside JobEvents, the page of one job.                  *)
(***************************************************************************)
EXTENDS Naturals, FiniteSets

CONSTANTS
    Ids,      \* the ids rows may have, numbers: their order is that of uuids
    MaxTime,  \* the last millisecond
    MaxRest,  \* the last fraction of a millisecond
    MaxLimit  \* the largest page a client asks for

ASSUME ListingsAssumption ==
    Ids \subseteq Nat /\ {MaxTime, MaxRest} \subseteq Nat /\ MaxLimit \in Nat \ {0}

VARIABLES
    list,    \* which list this is about
    rows,    \* the table: [id, at, rest, tag]; the tag is what one may filter by
    clock,
    reader,  \* who follows the next-page links
    shown    \* the table body of the jobs page: its rows, does it poll

listVars == <<list, rows, clock, reader, shown>>

Lists == {"jobs", "jobsPage", "audit", "users"}
Tags == {"open", "ended"}  \* a job's status; the two actions of audit events
Row == [id: Ids, at: 0 .. MaxTime, rest: 0 .. MaxRest, tag: Tags]
NoCursor == [kind |-> "none"]
(* Links cut off when they were copied: before the id, inside it, or inside *)
(* the time at the front.                                                  *)
Broken == [kind: {"noId", "badId", "badTime"}]
Cursor == [kind: {"row"}, at: 0 .. MaxTime, id: Ids]

(* seen are the ids the reader was shown since it began at the first page,  *)
(* again those it was shown once more, owed those that were in the list     *)
(* when it began and have not left it.                                     *)
Reader ==
    [pc: {"start", "reading", "end", "error"}, filter: Tags \cup {"any"},
     cursor: Cursor \cup Broken \cup {NoCursor},
     seen: SUBSET Ids, again: SUBSET Ids, owed: SUBSET Ids]

IdsOf(S) == {r.id : r \in S}

ListTypeOK ==
    /\ list \in Lists
    /\ rows \subseteq Row /\ \A r, s \in rows : r.id = s.id => r = s
    /\ clock \in 0 .. MaxTime
    /\ reader \in Reader
    /\ shown \in [rows: SUBSET Row, polls: BOOLEAN]

ListInit ==
    /\ list \in Lists
    /\ rows = {}
    /\ clock = 0
    /\ reader = [pc |-> "start", filter |-> "any", cursor |-> NoCursor,
                 seen |-> {}, again |-> {}, owed |-> {}]
    /\ shown = [rows |-> {}, polls |-> FALSE]

-----------------------------------------------------------------------------
(* The tables.                                                             *)

Tick ==
    /\ clock < MaxTime
    /\ clock' = clock + 1
    /\ UNCHANGED <<list, rows, reader, shown>>

(* A row becomes visible when its transaction commits, which may be a       *)
(* little after the time it carries.                                       *)
Insert ==
    /\ \E i \in Ids \ IdsOf(rows), t \in {clock, clock - 1} \cap Nat, f \in 0 .. MaxRest :
        \E tag \in IF list \in {"jobs", "jobsPage"} THEN {"open"} ELSE Tags :
            rows' = rows \cup {[id |-> i, at |-> t, rest |-> f, tag |-> tag]}
    /\ UNCHANGED <<list, clock, reader, shown>>

(* A job ends; whoever filters by status is no longer owed its row.        *)
JobEnds(i) ==
    /\ list \in {"jobs", "jobsPage"}
    /\ \E r \in rows :
        /\ r.id = i /\ r.tag = "open"
        /\ rows' = (rows \ {r}) \cup {[r EXCEPT !.tag = "ended"]}
    /\ reader' = IF reader.filter = "any" THEN reader ELSE [reader EXCEPT !.owed = @ \ {i}]
    /\ UNCHANGED <<list, clock, shown>>

-----------------------------------------------------------------------------
(* The queries.                                                            *)

(* orderBy: createdAt and id descending; the users by id ascending.        *)
Comes(r, s) ==
    IF list = "users" THEN r.id < s.id
    ELSE \/ r.at > s.at
         \/ r.at = s.at /\ (r.rest > s.rest \/ (r.rest = s.rest /\ r.id > s.id))

(* toISOString() and getTime() keep the millisecond only.                  *)
CursorOf(r) == [kind |-> "row", at |-> r.at, id |-> r.id]

(* The broken cursors that a list takes for none; on any other the query    *)
(* fails, on a date or an id that the database cannot read.                *)
Ignored ==
    CASE list = "jobs" -> {"noId"}
      [] list = "jobsPage" -> {"noId", "badTime"}
      [] list = "audit" -> {"noId", "badId", "badTime"}
      [] list = "users" -> {}

Decode(cursor) == IF cursor.kind \in Ignored THEN NoCursor ELSE cursor

(* The rows behind a cursor: createdAt less, or the same and the id less;   *)
(* for users what follows the cursor's row.  The cursor's time is that of a  *)
(* whole millisecond.  Mutant: the time alone.                             *)
BehindByTime(cursor) ==
    IF cursor = NoCursor THEN rows
    ELSE IF list = "users" THEN {r \in rows : r.id > cursor.id}
    ELSE {r \in rows : r.at < cursor.at}
Behind(cursor) ==
    IF cursor = NoCursor THEN rows
    ELSE IF list = "users" THEN {r \in rows : r.id > cursor.id}
    ELSE {r \in rows : r.at < cursor.at \/ (r.at = cursor.at /\ r.rest = 0 /\ r.id < cursor.id)}

Matching(filter) == {r \in rows : filter \in {"any", r.tag}}

(* take, and slice(0, limit): the rows that fewer than n others precede.   *)
FirstRows(S, n) == {r \in S : Cardinality({s \in S : Comes(s, r)}) < n}
LastRow(S) == CHOOSE r \in S : \A s \in S : ~Comes(r, s)

(* findMany takes one more than the page to know whether there is more.    *)
Query(cursor, filter, limit) ==
    LET found == Behind(cursor) \cap Matching(filter)
        slice == FirstRows(found, limit)
    IN  [slice |-> slice,
         next  |-> IF Cardinality(found) > limit THEN CursorOf(LastRow(slice)) ELSE NoCursor]

(* The page of jobs has a fixed size, the others are asked for one.        *)
Limits == IF list = "jobsPage" THEN {MaxLimit} ELSE 1 .. MaxLimit

(* The jobs page polls while a row it shows is in flight; mutant: while all *)
(* of them are.                                                            *)
AllInFlight(slice) == slice # {} /\ \A r \in slice : r.tag = "open"
SomeInFlight(slice) == \E r \in slice : r.tag = "open"

Show(slice) ==
    shown' = IF list = "jobsPage" THEN [rows |-> slice, polls |-> SomeInFlight(slice)] ELSE shown

-----------------------------------------------------------------------------
(* The reader chooses a filter, opens the list and follows its links, which *)
(* keep the filter.                                                        *)

ChooseFilter ==
    /\ reader.pc = "start" /\ reader.filter = "any" /\ list # "users"
    /\ \E f \in Tags : reader' = [reader EXCEPT !.filter = f]
    /\ UNCHANGED <<list, rows, clock, shown>>

ReadPage ==
    /\ reader.pc \in {"start", "reading"}
    /\ Decode(reader.cursor) \notin Broken
    /\ \E limit \in Limits :
        LET result == Query(Decode(reader.cursor), reader.filter, limit)
            first  == Decode(reader.cursor) = NoCursor
            ids    == IdsOf(result.slice)
        IN  /\ reader' = [reader EXCEPT
                    !.pc = IF result.next = NoCursor THEN "end" ELSE "reading",
                    !.cursor = result.next,
                    !.seen = IF first THEN ids ELSE @ \cup ids,
                    !.again = IF first THEN {} ELSE @ \cup (reader.seen \cap ids),
                    !.owed = IF first THEN IdsOf(Matching(reader.filter)) ELSE @]
            /\ Show(result.slice)
    /\ UNCHANGED <<list, rows, clock>>

(* A link of the users has an id only.                                     *)
BreakLink ==
    /\ reader.pc = "reading" /\ reader.cursor \notin Broken
    /\ \E broken \in Broken :
        /\ list = "users" => broken.kind = "badId"
        /\ reader' = [reader EXCEPT !.cursor = broken]
    /\ UNCHANGED <<list, rows, clock, shown>>

ReadFails ==
    /\ reader.pc = "reading" /\ Decode(reader.cursor) \in Broken
    /\ reader' = [reader EXCEPT !.pc = "error"]
    /\ UNCHANGED <<list, rows, clock, shown>>

(* GET /jobs?fragment=1, every three seconds: the link has the filter but   *)
(* no cursor, so whatever page was shown gives way to the first.           *)
PollList ==
    /\ shown.polls
    /\ Show(Query(NoCursor, reader.filter, MaxLimit).slice)
    /\ UNCHANGED <<list, rows, clock, reader>>

-----------------------------------------------------------------------------

ListNext ==
    \/ Tick \/ Insert
    \/ \E i \in Ids : JobEnds(i)
    \/ ChooseFilter \/ ReadPage \/ BreakLink \/ ReadFails \/ PollList

ListSpec == ListInit /\ [][ListNext]_listVars

(* The page's timer fires as long as it polls, and jobs end.               *)
ListFairness == WF_listVars(PollList) /\ \A i \in Ids : WF_listVars(JobEnds(i))

ListFairSpec == ListSpec /\ ListFairness

-----------------------------------------------------------------------------
(* Properties.                                                             *)

(* A row that shares its millisecond with one that has a fraction of it.   *)
Blurred(r) == list # "users" /\ \E s \in rows : s.at = r.at /\ s.rest > 0

\* Whoever follows the links sees no row twice and, at the end, every row
\* that was in the list when the reading began and has not left it since:
\* rows that come in between, at the same time or before it, push nothing off
\* a page (admin-audit-events-page.ts, "Composite key (createdAt, id) defeats
\* the WC-audit-5 tie-break problem").  A row may be missed only where the
\* column holds fractions of the millisecond that the cursor stands for.
EachRowOnce ==
    /\ reader.again = {}
    /\ reader.pc = "end" => \A r \in rows : r.id \in reader.owed \ reader.seen => Blurred(r)

ListingsInv == ListTypeOK /\ EachRowOnce

\* A row that the jobs page shows in flight is not shown so for ever once
\* jobs end: the page polls until every row it shows has ended
\* (job-list-page.ts, "When all visible jobs are terminal ... HTMX naturally
\* stops re-polling").
ShownOpen(i) == \E r \in shown.rows : r.id = i /\ r.tag = "open"
ShownJobsSettle == \A i \in Ids : ShownOpen(i) ~> ~ShownOpen(i)
=============================================================================
