------------------------------- MODULE Access -------------------------------
(***************************************************************************)
(* Who may do what, while it changes: requests of users and admins run on  *)
(* API replicas, sessions end, keys are revoked and users disabled between *)
(* their steps, and replicas boot against the pepper canary and crash.     *)
(*                                                                         *)
(* A form route checks its cookie, injects the JSON route, which checks    *)
(* again and acts, and then records what an admin did.  Every check, every *)
(* effect and the audit event is a database call of its own.  CSRF cookie  *)
(* and token travel with the request: the second check sees what the first *)
(* saw, so only the first one can refuse them.                             *)
(***************************************************************************)
EXTENDS Naturals, FiniteSets

CONSTANTS
    Replicas,    \* API processes
    Peppers,     \* values API_KEY_PEPPER is set to
    NoPepper,    \* the canary row is not there
    Users, Admins,
    Sessions,    \* Session rows
    Keys,        \* ApiKey rows
    Nothing,     \* no user, credential, operation or target
    Requests,
    Disturbances \* bound: crashes, calls that throw, logouts and expiries

ASSUME AccessAssumption ==
    /\ Admins \subseteq Users
    /\ NoPepper \notin Peppers
    /\ Nothing \notin Users \cup Sessions \cup Keys \cup Replicas
    /\ Sessions \cap Keys = {}
    /\ Disturbances \in Nat

VARIABLES
    replica,    \* the API processes
    canary,     \* PepperCanary.expectedHmac
    status,     \* User.status
    session,    \* Session rows
    key,        \* ApiKey rows
    invite,     \* is there an open invite?
    request,    \* the requests
    audit,      \* requests with an AuditEvent row
    overtaken,  \* requests that lost their authority after their last check
    disturbed   \* disturbances so far

vars == <<replica, canary, status, session, key, invite, request, audit, overtaken, disturbed>>
data == <<status, session, key, invite>>

-----------------------------------------------------------------------------

Credentials == Sessions \cup Keys
AdminOp == {"setStatus", "invite", "uninvite"}
ReadOp == {"stats", "showUser"}  \* what only admins may see
Op == AdminOp \cup ReadOp \cup {"newKey", "revokeKey", "cancel", "endSession"}

Answer == {"none", "done", "missing", "login", "forbidden", "stale", "own", "error", "dead"}

Request ==
    [pc : {"idle", "outer", "inner", "act", "back", "audit", "find", "delete", "end"},
     at : Replicas \cup {Nothing}, form : BOOLEAN, with : Credentials \cup {Nothing},
     op : Op \cup {Nothing}, on : Sessions \cup Keys \cup {Nothing},
     acted : BOOLEAN, answer : Answer]

TypeOK ==
    /\ replica \in [Replicas -> [pc : {"down", "insert", "read", "up", "refused"},
                                 pepper : Peppers \cup {NoPepper}]]
    /\ canary \in Peppers \cup {NoPepper}
    /\ status \in [Users -> {"active", "disabled"}]
    /\ session \in [Sessions -> [state : {"live", "expired", "gone"}, owner : Users]]
    /\ key \in [Keys -> [state : {"none", "live", "revoked"}, owner : Users \cup {Nothing},
                         pepper : Peppers \cup {NoPepper}]]
    /\ invite \in BOOLEAN
    /\ request \in [Requests -> Request]
    /\ \A q \in Requests : request[q].answer # "none" <=> request[q].pc \in {"back", "audit", "end"}
    /\ audit \subseteq Requests
    /\ overtaken \subseteq Requests
    /\ disturbed \in 0 .. Disturbances

NewRequest ==
    [pc |-> "idle", at |-> Nothing, form |-> FALSE, with |-> Nothing, op |-> Nothing,
     on |-> Nothing, acted |-> FALSE, answer |-> "none"]
NoKey == [state |-> "none", owner |-> Nothing, pepper |-> NoPepper]

\* An admin and others have signed in, an invite is open; an earlier
\* deployment may have left a canary and keys.
Init ==
    /\ replica = [r \in Replicas |-> [pc |-> "down", pepper |-> NoPepper]]
    /\ status = [u \in Users |-> "active"]
    /\ session \in [Sessions -> [state : {"live"}, owner : Users]]
    /\ \E s \in Sessions : session[s].owner \in Admins
    /\ \/ canary = NoPepper /\ key = [k \in Keys |-> NoKey]
       \/ /\ canary \in Peppers
          /\ key \in [Keys -> {NoKey} \cup [state : {"live"}, owner : Users, pepper : {canary}]]
    /\ invite = TRUE
    /\ request = [q \in Requests |-> NewRequest]
    /\ audit = {}
    /\ overtaken = {}
    /\ disturbed = 0

\* How a request goes on, and how it ends: of one that did nothing only the
\* answer is kept.
At(r, pc) == [r EXCEPT !.pc = pc]
Ends(r, answer) ==
    [IF r.acted THEN r ELSE NewRequest
        EXCEPT !.pc = "end", !.at = Nothing, !.with = Nothing, !.answer = answer]

\* The bound on disturbances.
Disturbs == disturbed < Disturbances /\ disturbed' = disturbed + 1

-----------------------------------------------------------------------------
(* Boot and crash of a replica.                                            *)

Configure(r, p) ==
    /\ replica[r].pc = "down"
    /\ replica' = [replica EXCEPT ![r] = [pc |-> "insert", pepper |-> p]]
    /\ UNCHANGED <<canary, data, request, audit, disturbed>>

\* An insert that overwrites the row of an earlier boot.
Overwritten(p) == p

\* INSERT ... ON CONFLICT DO NOTHING.
CanaryAfter(p) == IF canary = NoPepper THEN p ELSE canary

InsertCanary(r) ==
    /\ replica[r].pc = "insert"
    /\ canary' = CanaryAfter(replica[r].pepper)
    /\ replica' = [replica EXCEPT ![r].pc = "read"]
    /\ UNCHANGED <<data, request, audit, disturbed>>

\* findUnique and the comparison: a mismatch aborts the start.
ReadCanary(r) ==
    /\ replica[r].pc = "read"
    /\ replica' = [replica EXCEPT ![r].pc = IF canary = replica[r].pepper THEN "up" ELSE "refused"]
    /\ UNCHANGED <<canary, data, request, audit, disturbed>>

\* The supervisor starts the process again, perhaps with another pepper.
Crash(r) ==
    /\ replica[r].pc # "down"
    /\ Disturbs
    /\ replica' = [replica EXCEPT ![r] = [pc |-> "down", pepper |-> NoPepper]]
    /\ request' = [q \in Requests |->
           IF request[q].at = r THEN Ends(request[q], "dead") ELSE request[q]]
    /\ UNCHANGED <<canary, data, audit>>

-----------------------------------------------------------------------------
(* The checks.                                                             *)

Actor(q) ==
    LET c == request[q].with IN IF c \in Sessions THEN session[c].owner ELSE key[c].owner

IsAdmin(q) == Actor(q) \in Admins /\ status[Actor(q)] = "active"

\* requireSession and requireAdminSession, before a form route's handler.
SessionIsGood(q) == session[request[q].with].state = "live" /\ status[Actor(q)] = "active"

\* resolveAuth: a key is looked up by its hash under this replica's pepper,
\* a session by its token's; only for keys the user's status counts.
Resolves(q) ==
    LET c == request[q].with IN
    IF c \in Sessions THEN session[c].state = "live"
    ELSE /\ key[c].state = "live"
         /\ key[c].pepper = replica[request[q].at].pepper
         /\ status[key[c].owner] = "active"

\* What the last check before the effect asked for.
NeedsAdmin(op) == op \in AdminOp \cup ReadOp
Authorised(q) ==
    IF request[q].op = "endSession" THEN SessionIsGood(q)
    ELSE Resolves(q) /\ (NeedsAdmin(request[q].op) => IsAdmin(q))

-----------------------------------------------------------------------------
(* The requests come in and are checked.                                   *)

\* The JSON route's answer, which a form route has asked for by inject().
Replies(r, answer) ==
    IF r.form THEN [r EXCEPT !.pc = "back", !.answer = answer] ELSE Ends(r, answer)

\* A form comes with a session cookie, a JSON call with either credential.
\* What the operation is done to is chosen where it is first looked at.  The
\* page of a user and the end of a session have no JSON route.
Send(q, r, c, op) ==
    /\ request[q].pc = "idle"
    /\ replica[r].pc = "up"
    /\ c \in Keys => key[c].state # "none"
    /\ \E form \in BOOLEAN :
        /\ form => c \in Sessions
        /\ op \in {"endSession", "showUser"} => form
        /\ request' = [request EXCEPT ![q] =
               [NewRequest EXCEPT !.pc = IF form THEN "outer" ELSE "inner", !.at = r,
                                  !.form = form, !.with = c, !.op = op]]
    /\ UNCHANGED <<replica, canary, data, audit, disturbed>>

\* The form route's own check.
Outer(q) ==
    /\ request[q].pc = "outer"
    /\ \E csrf \in IF request[q].op \in ReadOp THEN {TRUE} ELSE BOOLEAN :
           request' = [request EXCEPT ![q] =
               IF ~SessionIsGood(q) THEN Ends(@, "login")
               ELSE IF (NeedsAdmin(@.op) /\ ~IsAdmin(q)) \/ ~csrf THEN Ends(@, "forbidden")
               ELSE At(@, CASE @.op = "endSession" -> "find"
                            [] @.op = "showUser" -> "act"
                            [] OTHER -> "inner")]
    /\ UNCHANGED <<replica, canary, data, audit, disturbed>>

\* An inner route that trusts the form route's check.
FormTrusted(q) == request[q].form \/ IsAdmin(q)

\* requireAdmin on top of requireAuth.
AdminPasses(q) == IsAdmin(q)

\* runCsrfHook: what a form brought has been checked, a key needs no token,
\* nor does a GET.
CsrfOutcomes(q) ==
    IF request[q].form \/ request[q].with \in Keys \/ request[q].op \in ReadOp
    THEN {TRUE} ELSE BOOLEAN

\* requireAuthCsrf or requireAdminCsrf.
Inner(q) ==
    /\ request[q].pc = "inner"
    /\ \E csrf \in CsrfOutcomes(q) :
           request' = [request EXCEPT ![q] =
               IF ~Resolves(q) THEN Replies(@, "login")
               ELSE IF (NeedsAdmin(@.op) /\ ~AdminPasses(q)) \/ ~csrf THEN Replies(@, "forbidden")
               ELSE At(@, "act")]
    /\ UNCHANGED <<replica, canary, data, audit, disturbed>>

-----------------------------------------------------------------------------
(* The JSON routes' effects.                                               *)

\* The row was there: the handler answers 2xx, having changed or shown it.
Acted(q) == request' = [request EXCEPT ![q] = Replies([@ EXCEPT !.acted = TRUE], "done")]
Missing(q) == request' = [request EXCEPT ![q] = Replies(@, "missing")] /\ UNCHANGED data
Acts(q, op) == request[q].pc = "act" /\ request[q].op = op

\* PATCH /admin/users/:id, with some user's id or nobody's.
SetStatus(q) ==
    /\ Acts(q, "setStatus")
    /\ \/ \E u \in Users, value \in {"active", "disabled"} :
           /\ status' = [status EXCEPT ![u] = value]
           /\ Acted(q)
           /\ UNCHANGED <<session, key, invite>>
       \/ Missing(q)

\* POST /admin/invites
CreateInvite(q) ==
    /\ Acts(q, "invite")
    /\ invite' = TRUE
    /\ Acted(q)
    /\ UNCHANGED <<status, session, key>>

\* DELETE /admin/invites/:id: deleteMany where consumedAt is null.
RevokeInvite(q) ==
    /\ Acts(q, "uninvite")
    /\ \/ invite /\ invite' = FALSE /\ Acted(q) /\ UNCHANGED <<status, session, key>>
       \/ ~invite /\ Missing(q)

\* POST /users/me/api-keys
CreateKey(q) ==
    /\ Acts(q, "newKey")
    /\ \E k \in Keys :
        /\ key[k].state = "none"
        /\ key' = [key EXCEPT ![k] = [state |-> "live", owner |-> Actor(q),
                                      pepper |-> replica[request[q].at].pepper]]
    /\ Acted(q)
    /\ UNCHANGED <<status, session, invite>>

\* updateMany where id, userId and revokedAt is null.
RevocableKey(q, k) == key[k].state = "live" /\ key[k].owner = Actor(q)

\* DELETE /users/me/api-keys/:id
RevokeKey(q) ==
    /\ Acts(q, "revokeKey")
    /\ \E k \in Keys :
        \/ /\ RevocableKey(q, k)
           /\ key' = [key EXCEPT ![k].state = "revoked"]
           /\ request' = [request EXCEPT ![q] = Replies([@ EXCEPT !.acted = TRUE, !.on = k], "done")]
           /\ UNCHANGED <<status, session, invite>>
        \/ ~RevocableKey(q, k) /\ Missing(q)

\* DELETE /jobs/:id, whose effect is JobPipeline's.
CancelJob(q) ==
    /\ Acts(q, "cancel")
    /\ \/ Acted(q) /\ UNCHANGED data
       \/ Missing(q)

\* GET /admin/stats
ReadStats(q) == Acts(q, "stats") /\ Acted(q) /\ UNCHANGED data

\* GET /admin/users/:id, the page: it reads the user itself.
ShowUser(q) ==
    /\ Acts(q, "showUser")
    /\ \E answer \in {"done", "missing"} :
           request' = [request EXCEPT ![q] = Ends([@ EXCEPT !.acted = answer = "done"], answer)]
    /\ UNCHANGED data

Act(q) ==
    /\ \/ SetStatus(q) \/ CreateInvite(q) \/ RevokeInvite(q)
       \/ CreateKey(q) \/ RevokeKey(q) \/ CancelJob(q)
       \/ ReadStats(q) \/ ShowUser(q)
    /\ UNCHANGED <<replica, canary, audit, disturbed>>

-----------------------------------------------------------------------------
(* The form routes, when the JSON route has answered.                      *)

Back(q, ops) ==
    /\ request[q].pc = "back"
    /\ request[q].op \in ops
    /\ UNCHANGED <<replica, canary, data, audit, disturbed>>

\* 401 clears the cookie, and 403 is taken for a stale CSRF token.
Told(r) ==
    CASE r.answer = "login" -> Ends(r, "login")
      [] r.answer = "forbidden" -> Ends(r, "stale")
      [] OTHER -> Ends(r, r.answer)

\* A route that answers before it records.
RecordSkipped(r) == Told(r)

\* An admin's change is recorded before it is answered.
Recorded(r) == IF r.answer = "done" THEN At(r, "audit") ELSE Told(r)

UserUpdateForm(q) ==
    Back(q, {"setStatus"}) /\ request' = [request EXCEPT ![q] = Recorded(@)]

InviteCreateForm(q) ==
    Back(q, {"invite"}) /\ request' = [request EXCEPT ![q] = Recorded(@)]

InviteRevokeForm(q) ==
    Back(q, {"uninvite"}) /\ request' = [request EXCEPT ![q] = Recorded(@)]

\* The new key is shown once; any other answer than 201, 401, 403 is an error.
KeyCreateForm(q) ==
    Back(q, {"newKey"}) /\ request' = [request EXCEPT ![q] = Told(@)]

KeyRevokeForm(q) ==
    Back(q, {"revokeKey"}) /\ request' = [request EXCEPT ![q] = Told(@)]

JobCancelForm(q) ==
    Back(q, {"cancel"}) /\ request' = [request EXCEPT ![q] = Told(@)]

\* The page of statistics takes every other answer than 200 for an error.
StatsPage(q) ==
    /\ Back(q, {"stats"})
    /\ request' = [request EXCEPT ![q] =
           Ends(@, IF @.answer = "done" THEN "done" ELSE "error")]

\* recordAuditEvent
Record(q) ==
    /\ request[q].pc = "audit"
    /\ audit' = audit \cup {q}
    /\ request' = [request EXCEPT ![q] = Ends(@, "done")]
    /\ UNCHANGED <<replica, canary, data, disturbed>>

-----------------------------------------------------------------------------
(* POST /profile/sessions/:id/revoke, which acts itself.                   *)

FindSession(q) ==
    /\ request[q].pc = "find"
    /\ \E s \in Sessions :
           request' = [request EXCEPT ![q] =
               IF session[s].state = "gone" \/ session[s].owner # Actor(q) THEN Ends(@, "missing")
               ELSE IF s = @.with THEN Ends(@, "own")
               ELSE [At(@, "delete") EXCEPT !.on = s]]
    /\ UNCHANGED <<replica, canary, data, audit, disturbed>>

\* session.delete throws when the row has gone meanwhile.
DeleteSession(q) ==
    LET s == request[q].on IN
    /\ request[q].pc = "delete"
    /\ IF session[s].state = "gone"
       THEN request' = [request EXCEPT ![q] = Ends(@, "error")] /\ UNCHANGED session
       ELSE /\ session' = [session EXCEPT ![s].state = "gone"]
            /\ request' = [request EXCEPT ![q] = Ends([@ EXCEPT !.acted = TRUE], "done")]
    /\ UNCHANGED <<replica, canary, status, key, invite, audit, disturbed>>

\* POST /logout and POST /api/v1/auth/logout: deleteMany by the cookie.
Logout(s) ==
    /\ session[s].state # "gone"
    /\ Disturbs
    /\ session' = [session EXCEPT ![s].state = "gone"]
    /\ UNCHANGED <<replica, canary, status, key, invite, request, audit>>

SessionExpires(s) ==
    /\ session[s].state = "live"
    /\ Disturbs
    /\ session' = [session EXCEPT ![s].state = "expired"]
    /\ UNCHANGED <<replica, canary, status, key, invite, request, audit>>

\* A database call throws: a 500, which a form route passes on.
Throws(q) ==
    /\ request[q].pc \in {"outer", "inner", "act", "audit", "find", "delete"}
    /\ Disturbs
    /\ request' = [request EXCEPT ![q] = Ends(@, "error")]
    /\ UNCHANGED <<replica, canary, data, audit>>

-----------------------------------------------------------------------------

RequestStep(q) ==
    \/ \E r \in Replicas, c \in Credentials, op \in Op : Send(q, r, c, op)
    \/ Outer(q)
    \/ Inner(q)
    \/ Act(q)
    \/ UserUpdateForm(q)
    \/ InviteCreateForm(q)
    \/ InviteRevokeForm(q)
    \/ KeyCreateForm(q)
    \/ KeyRevokeForm(q)
    \/ JobCancelForm(q)
    \/ StatsPage(q)
    \/ Record(q)
    \/ FindSession(q)
    \/ DeleteSession(q)
    \/ Throws(q)

ReplicaStep(r) ==
    \/ \E p \in Peppers : Configure(r, p)
    \/ InsertCanary(r)
    \/ ReadCanary(r)
    \/ Crash(r)

\* Requests past their last check, and those of them that the step deprives
\* of their authority.
Passed == {q \in Requests : request[q].pc \in {"act", "find", "delete"}}
Deprived == {q \in Passed \cap Passed' : Authorised(q) /\ ~Authorised(q)'}

Next ==
    /\ \/ \E q \in Requests : RequestStep(q)
       \/ \E r \in Replicas : ReplicaStep(r)
       \/ \E s \in Sessions : Logout(s) \/ SessionExpires(s)
    /\ overtaken' = (overtaken \cap Passed') \cup Deprived

Spec == Init /\ [][Next]_vars

-----------------------------------------------------------------------------
(* Properties.                                                             *)

\* A key works at every replica that serves, whenever and wherever it was
\* made and however boots with different peppers race (pepper-canary.ts,
\* "Boot-time self-check ... Race-safe via ON CONFLICT DO NOTHING").
KeysWorkEverywhere ==
    \A r \in Replicas, k \in Keys :
        replica[r].pc = "up" /\ key[k].state # "none" => replica[r].pepper = key[k].pepper

\* Nobody acts on authority that was gone before the last check: a form
\* route's check, a cached role or a revoked key is never enough, and what
\* slips through is only what was overtaken between that check and the write.
NoStaleAuthority ==
    [][\A q \in Requests :
         request'[q].acted /\ ~request[q].acted => Authorised(q) \/ q \in overtaken]_vars

\* Every change an admin makes through a form is recorded before it is
\* answered, and nothing is recorded that did not happen; only an error or a
\* crash in between leaves a change without its event
\* (admin-user-update-route.ts, "not in a transaction ... fail-loud").
AuditTrail ==
    /\ \A q \in Requests : request[q].form /\ request[q].op \in AdminOp /\ request[q].acted =>
          q \in audit \/ request[q].pc \in {"back", "audit"} \/ request[q].answer \in {"error", "dead"}
    /\ \A q \in audit : request[q].acted

\* Of several revocations of one key exactly one is told that it revoked it.
RevokedOnce ==
    \A p, q \in Requests :
        /\ request[p].op = "revokeKey" /\ request[p].acted
        /\ request[q].op = "revokeKey" /\ request[q].acted
        /\ request[p].on = request[q].on
        => p = q


\* What racing boots and racing requests leave behind: one pepper, and one
\* revocation per key (pepper-canary.ts:33-47, api-key-routes.ts:60-62).
AccessInv ==
    /\ TypeOK
    /\ KeysWorkEverywhere
    /\ RevokedOnce

=============================================================================
