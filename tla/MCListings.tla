----------------------------- MODULE MCListings -----------------------------
(* Enough rows for pages of each size whose edge falls on a tie, and        *)
(* payloads of up to three containers: any two entries in the payload, any  *)
(* two in the second container, at most one in the third; and towers.      *)
EXTENDS Listings, AuditEvent

Values == {"text", "root", "a", "b"}

Objects(keys, n) ==
    {[type |-> "object", entries |-> e] :
        e \in {s \in UNION {[1 .. k -> [key: keys, value: Values]] : k \in 0 .. n} :
            \A i, j \in DOMAIN s : i # j => s[i].key # s[j].key}}

Arrays(n) ==
    {[type |-> "array", entries |-> e] :
        e \in UNION {[1 .. k -> [key: {"item"}, value: Values]] : k \in 0 .. n}}

Graphs3 ==
    {[root |-> r, a |-> x, b |-> y] :
        r \in Objects({"plain", "SECRET"}, 2),
        x \in Objects({"plain", "other"}, 2) \cup Arrays(2),
        y \in Objects({"secret"}, 1) \cup Arrays(1)}

(* The leaves of every kind, and the refusals that have nothing to do with  *)
(* the graph.                                                              *)
Leaf(l) == [root |-> [type |-> "object", entries |-> <<[key |-> "plain", value |-> l]>>]]

(* Up to five containers, each an object or an array, one inside the other  *)
(* beyond the limit; the innermost holds a text or nothing.                *)
Levels == <<"root", "a", "b", "c", "d">>

Tower(types, height, inside) ==
    [n \in {Levels[i] : i \in 1 .. height} |->
        LET level == CHOOSE i \in 1 .. height : Levels[i] = n
            held == IF level < height THEN {Levels[level + 1]} ELSE inside
        IN  [type |-> types[level],
             entries |-> SetToSeq({[key |-> IF types[level] = "array" THEN "item" ELSE "plain",
                                    value |-> v] : v \in held})]]

Towers ==
    {Tower(types, height, inside) :
        types \in {t \in [1 .. 5 -> {"object", "array"}] : t[1] = "object"},
        height \in 3 .. 5, inside \in {{}, {"text"}}}

MCDrafts ==
    [known: {TRUE}, long: {FALSE}, heap: Graphs3 \cup Towers \cup {Leaf(l) : l \in Leaves}]
        \cup [known: BOOLEAN, long: BOOLEAN, heap: {Leaf("text"), Leaf("class")}]

(* One event is recorded, and the lists are read when it is in the table.  *)
MCInit == ListInit /\ AuditInit

RecordFirst == RecordAuditEvent /\ UNCHANGED listVars
ThenList == written /\ ListNext /\ UNCHANGED auditVars

MCSpec ==
    /\ MCInit /\ [][RecordFirst \/ ThenList]_<<listVars, auditVars>>
    /\ ListFairness
=============================================================================
