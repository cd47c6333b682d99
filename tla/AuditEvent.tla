----------------------------- MODULE AuditEvent -----------------------------
(***************************************************************************)
(* One call of recordAuditEvent().  A payload is a graph: heap maps the    *)
(* names of objects and arrays, "root" is the payload itself, to what they  *)
(* hold; every other value is a leaf.  The coercion walks the graph as the  *)
(* code does and says "ok" or the first error; the last section says of the  *)
(* whole graph what is documented.                                         *)
(***************************************************************************)
EXTENDS Naturals, FiniteSets, Sequences, SequencesExt

CONSTANTS
    MaxNesting,  \* MAX_NESTING_DEPTH, 10 in the code
    Drafts       \* the events that are tried

ASSUME AuditAssumption == MaxNesting \in Nat

VARIABLES
    draft,    \* the event to be recorded, gone when the call is over
    verdict,  \* what the call said of it
    written   \* is it in the table?

auditVars == <<draft, verdict, written>>

AuditInit ==
    /\ \E d \in Drafts : draft = {d}
    /\ verdict = "none"
    /\ written = FALSE

(* heap[n] is [type, entries]; entries are [key, value], in an array under  *)
(* the key "item".  A secret's key may be written in capitals.             *)
SecretKeys == {"secret", "SECRET"}
Leaves == {"text", "bigint", "nothing", "date", "class", "function"}

(* Keys are compared in lower case; mutant: as they are written.           *)
ForbiddenAsWritten(key) == key = "secret"
Forbidden(key) == key \in SecretKeys

FirstError(outcomes) ==
    LET errors == SelectSeq(outcomes, LAMBDA o : o # "ok")
    IN  IF errors = <<>> THEN "ok" ELSE Head(errors)

RECURSIVE CoerceValue(_, _, _, _), CoercePayload(_, _, _, _)

CoerceValue(heap, value, depth, seen) ==
    CASE depth > MaxNesting -> "depth"
      [] depth <= MaxNesting /\ value \in {"bigint", "nothing", "text", "date"} -> "ok"
      [] depth <= MaxNesting /\ value \in {"function", "class"} -> "type"
      [] depth <= MaxNesting /\ value \notin Leaves ->
            IF value \in seen THEN "cyclic"
            ELSE IF heap[value].type = "array"
            THEN FirstError([i \in DOMAIN heap[value].entries |->
                    CoerceValue(heap, heap[value].entries[i].value, depth + 1, seen \cup {value})])
            ELSE CoercePayload(heap, value, depth + 1, seen \cup {value})

CoercePayload(heap, object, depth, seen) ==
    IF depth > MaxNesting THEN "depth"
    ELSE FirstError([i \in DOMAIN heap[object].entries |->
            LET entry == heap[object].entries[i]
            IN  IF Forbidden(entry.key) THEN "forbidden"
                ELSE CoerceValue(heap, entry.value, depth + 1, seen \cup {object})])

(* recordAuditEvent() before its insert: an unknown action, the coercion,   *)
(* the length of the result.                                               *)
Check(event) ==
    IF ~event.known THEN "unknown"
    ELSE LET outcome == CoercePayload(event.heap, "root", 0, {})
         IN  IF outcome = "ok" /\ event.long THEN "size" ELSE outcome

(* What is refused is not written, nor what the database rejects, an actor  *)
(* who does not exist for one.                                             *)
RecordAuditEvent ==
    /\ \E event \in draft :
        LET outcome == Check(event)
        IN  verdict' \in IF outcome = "ok" THEN {"ok", "rejected"} ELSE {outcome}
    /\ draft' = {}
    /\ written' = (verdict' = "ok")

AuditNext == RecordAuditEvent

AuditSpec == AuditInit /\ [][AuditNext]_auditVars

-----------------------------------------------------------------------------
(* The same, said of the graph.                                            *)

Children(heap, n) == {heap[n].entries[i].value : i \in DOMAIN heap[n].entries}

(* The chains of containers from the payload downwards, up to the first     *)
(* repetition.                                                             *)
Chains(heap) ==
    {c \in UNION {[1 .. k -> DOMAIN heap] : k \in 1 .. Cardinality(DOMAIN heap) + 1} :
        c[1] = "root" /\ \A i \in 1 .. Len(c) - 1 : c[i + 1] \in Children(heap, c[i])}

HasCycle(heap) == \E c \in Chains(heap) : Len(c) > Cardinality(DOMAIN heap)

HoldsSecret(heap) ==
    \E c \in Chains(heap) : \E i \in DOMAIN heap[Last(c)].entries :
        heap[Last(c)].entries[i].key \in SecretKeys

OnlyData(heap) ==
    \A c \in Chains(heap) : Children(heap, Last(c)) \cap {"class", "function"} = {}

(* How deep a chain goes: every container below the payload is one level.  *)
Nesting(chain) == Len(chain) - 1

\* What is written has no cycle, no secret's key, only values that are data,
\* and no more than MaxNesting levels, at any place of the payload; what the
\* coercion refuses is refused for the reason it tells, a value used twice
\* being no cycle, except that it may call half of the limit too deep
\* (audit-event.ts:180-187, "Rejection is per-key at ANY nesting depth").
RefusedForAReason ==
    [][\A event \in draft \ draft' :
        /\ written' =>
            /\ event.known /\ ~event.long
            /\ ~HasCycle(event.heap) /\ ~HoldsSecret(event.heap) /\ OnlyData(event.heap)
            /\ \A c \in Chains(event.heap) : Nesting(c) <= MaxNesting
        /\ verdict' = "cyclic" => HasCycle(event.heap)
        /\ verdict' = "forbidden" => HoldsSecret(event.heap)
        /\ verdict' = "type" => ~OnlyData(event.heap)
        /\ verdict' = "depth" => \E c \in Chains(event.heap) : 2 * Nesting(c) >= MaxNesting]_auditVars
=============================================================================
