---------------------------- MODULE AccessProofs ----------------------------
(***************************************************************************)
(* Proofs about Access, for any number of replicas, peppers, users,        *)
(* sessions, keys and requests, and any number of disturbances.            *)
(*                                                                         *)
(* The route: a step of a request leaves its record sound (Sound) and      *)
(* changes it only as Follows says; peppers, revocations, audit events and *)
(* authority are then followed one by one over the steps.                  *)
(***************************************************************************)
EXTENDS Access, TLAPS

-----------------------------------------------------------------------------
(* What a request knows.                                                   *)

Going(r) == r.pc \in {"outer", "inner", "act", "back", "audit", "find", "delete"}
Unacted(r) == r.pc \in {"outer", "inner", "act", "find", "delete"}

\* A request under way has a replica, a credential and an operation; it has
\* acted by the time it is answered "done", and not before.
Sound(r) ==
    /\ r.answer # "none" <=> r.pc \in {"back", "audit", "end"}
    /\ r.pc = "idle" => r = NewRequest
    /\ Going(r) => r.at \in Replicas /\ r.with \in Credentials /\ r.op \in Op
    /\ r.pc = "end" => r.at = Nothing
    /\ Unacted(r) => ~r.acted
    /\ r.pc = "back" => r.form /\ (r.acted <=> r.answer = "done")
    /\ r.pc = "audit" => r.acted
    /\ r.pc = "outer" => r.form /\ r.with \in Sessions
    /\ r.pc = "inner" => r.op \notin {"endSession", "showUser"}
    /\ r.pc = "act" => r.op # "endSession"
    /\ r.pc \in {"find", "delete"} => r.op = "endSession"
    /\ r.pc = "delete" => r.on \in Sessions
    /\ r.acted /\ r.op = "revokeKey" => r.on \in Keys

RequestsSound == \A q \in Requests : Sound(request[q])

\* Whoever is served is served by a replica that is up.
ServedByUp == \A q \in Requests : Going(request[q]) => replica[request[q].at].pc = "up"

\* The first boot that inserts its pepper decides: replicas that serve and
\* keys that were made have the canary's.
OnePepper ==
    /\ \A r \in Replicas :
          /\ replica[r].pc \in {"insert", "read", "up", "refused"} => replica[r].pepper \in Peppers
          /\ replica[r].pc = "read" => canary # NoPepper
          /\ replica[r].pc = "up" => canary # NoPepper /\ replica[r].pepper = canary
    /\ \A k \in Keys : key[k].state # "none" => canary # NoPepper /\ key[k].pepper = canary

\* Who revoked a key finds it revoked.
RevokersTold ==
    \A q \in Requests :
        request[q].acted /\ request[q].op = "revokeKey" => key[request[q].on].state = "revoked"

\* A request past its last check is authorised, or known to be overtaken.
Accounted == \A q \in Passed : Authorised(q) \/ q \in overtaken

Inv ==
    /\ TypeOK
    /\ RequestsSound
    /\ ServedByUp
    /\ OnePepper
    /\ RevokersTold
    /\ RevokedOnce
    /\ AuditTrail
    /\ Accounted

-----------------------------------------------------------------------------
(* The updates of a request's record.                                      *)

\* What has been done stays as it was done.
Keeps(r, s) ==
    /\ r.acted => s.acted /\ s.op = r.op /\ s.on = r.on /\ s.form = r.form
    /\ s.acted => r.acted

LEMMA NewOps ==
    /\ NewRequest \in Request /\ Sound(NewRequest)
    /\ NewRequest.acted = FALSE /\ NewRequest.pc = "idle" /\ NewRequest.at = Nothing
BY DEF NewRequest, Request, Answer, Sound, Going, Unacted

LEMMA EndsOps ==
    ASSUME NEW r \in Request, Sound(r), NEW a \in Answer \ {"none"}
    PROVE  /\ Ends(r, a) \in Request /\ Sound(Ends(r, a)) /\ Keeps(r, Ends(r, a))
           /\ Ends(r, a).pc = "end" /\ Ends(r, a).at = Nothing /\ Ends(r, a).answer = a
<1>1. CASE r.acted
  <2>1. Ends(r, a) = [r EXCEPT !.pc = "end", !.at = Nothing, !.with = Nothing, !.answer = a]
    BY <1>1 DEF Ends
  <2>2. Ends(r, a) \in Request
    BY <2>1 DEF Request
  <2>3. /\ Ends(r, a).pc = "end" /\ Ends(r, a).at = Nothing /\ Ends(r, a).answer = a
        /\ Ends(r, a).acted = r.acted /\ Ends(r, a).op = r.op /\ Ends(r, a).on = r.on
        /\ Ends(r, a).form = r.form
    BY <2>1 DEF Request
  <2> QED  BY <2>2, <2>3 DEF Sound, Keeps, Going, Unacted
<1>2. CASE ~r.acted
  <2>1. Ends(r, a) = [NewRequest EXCEPT !.pc = "end", !.at = Nothing, !.with = Nothing, !.answer = a]
    BY <1>2 DEF Ends
  <2>2. Ends(r, a) \in Request
    BY <2>1, NewOps DEF Request
  <2>3. /\ Ends(r, a).pc = "end" /\ Ends(r, a).at = Nothing /\ Ends(r, a).answer = a
        /\ Ends(r, a).acted = FALSE
    BY <2>1 DEF NewRequest
  <2> QED  BY <1>2, <2>2, <2>3 DEF Sound, Keeps, Going, Unacted
<1> QED  BY <1>1, <1>2

\* A request that goes on to the next check, or to the event.
LEMMA AtOps ==
    ASSUME NEW r \in Request, Sound(r), Going(r), NEW pc \in {"inner", "act", "find", "delete", "audit"},
           pc = "audit" <=> r.pc = "back",
           pc = "audit" => r.acted,
           pc \in {"inner", "act", "find", "delete"} => Unacted(r),
           pc = "inner" => r.op \notin {"endSession", "showUser"},
           pc = "act" => r.op # "endSession",
           pc \in {"find", "delete"} => r.op = "endSession",
           pc = "delete" => r.on \in Sessions
    PROVE  /\ At(r, pc) \in Request /\ Sound(At(r, pc)) /\ Keeps(r, At(r, pc))
           /\ At(r, pc).pc = pc /\ At(r, pc).at = r.at
<1>1. At(r, pc) \in Request
  BY DEF At, Request
<1>2. /\ At(r, pc).pc = pc /\ At(r, pc).at = r.at /\ At(r, pc).with = r.with /\ At(r, pc).op = r.op
      /\ At(r, pc).on = r.on /\ At(r, pc).acted = r.acted /\ At(r, pc).form = r.form
      /\ At(r, pc).answer = r.answer
  BY DEF At, Request
<1> QED  BY <1>1, <1>2 DEF Sound, Keeps, Going, Unacted

\* A JSON route's answer to a request that has not acted.
LEMMA RepliesOps ==
    ASSUME NEW r \in Request, Sound(r), r.pc \in {"inner", "act"},
           NEW a \in {"login", "forbidden", "missing"}
    PROVE  /\ Replies(r, a) \in Request /\ Sound(Replies(r, a)) /\ Keeps(r, Replies(r, a))
           /\ Replies(r, a).pc \in {"back", "end"}
           /\ Going(Replies(r, a)) => Replies(r, a).at = r.at
<1>1. CASE r.form
  <2>1. Replies(r, a) = [r EXCEPT !.pc = "back", !.answer = a]
    BY <1>1 DEF Replies
  <2>2. Replies(r, a) \in Request
    BY <2>1 DEF Request, Answer
  <2>3. /\ Replies(r, a).pc = "back" /\ Replies(r, a).answer = a /\ Replies(r, a).at = r.at
        /\ Replies(r, a).with = r.with /\ Replies(r, a).op = r.op /\ Replies(r, a).on = r.on
        /\ Replies(r, a).acted = r.acted /\ Replies(r, a).form = r.form
    BY <2>1 DEF Request
  <2> QED  BY <1>1, <2>2, <2>3 DEF Sound, Keeps, Going, Unacted
<1>2. CASE ~r.form
  <2>1. Replies(r, a) = Ends(r, a) /\ a \in Answer \ {"none"}
    BY <1>2 DEF Replies, Answer
  <2> QED  BY <2>1, EndsOps DEF Going
<1> QED  BY <1>1, <1>2

\* A JSON route's answer to a request that has acted, on the key k if it
\* revoked one.
RepliesDone(r, k) == Replies([r EXCEPT !.acted = TRUE, !.on = k], "done")

LEMMA ActedOps ==
    ASSUME NEW r \in Request, Sound(r), r.pc = "act",
           NEW k, k \in Keys \/ (k = r.on /\ r.op # "revokeKey"),
           NEW s, s = RepliesDone(r, k)
    PROVE  /\ s \in Request /\ Sound(s) /\ s.acted
           /\ s.form = r.form /\ s.op = r.op /\ s.on = k
           /\ s.pc \in {"back", "end"} /\ (s.form => s.pc = "back")
           /\ Going(s) => s.at = r.at
<1> DEFINE d == [r EXCEPT !.acted = TRUE, !.on = k]
<1>1. /\ d \in Request /\ d.acted /\ d.on = k /\ d.pc = "act" /\ d.at = r.at /\ d.with = r.with
      /\ d.op = r.op /\ d.form = r.form
  BY DEF Request
<1>2. CASE r.form
  <2>1. s = [d EXCEPT !.pc = "back", !.answer = "done"]
    BY <1>1, <1>2 DEF Replies, RepliesDone
  <2>2. s \in Request
    BY <1>1, <2>1 DEF Request, Answer
  <2>3. /\ s.pc = "back" /\ s.answer = "done" /\ s.at = r.at /\ s.with = r.with
        /\ s.op = r.op /\ s.on = k /\ s.acted /\ s.form = r.form
    BY <1>1, <2>1 DEF Request
  <2> QED  BY <1>2, <2>2, <2>3 DEF Sound, Going, Unacted
<1>3. CASE ~r.form
  <2>1. s = [d EXCEPT !.pc = "end", !.at = Nothing, !.with = Nothing, !.answer = "done"]
    BY <1>1, <1>3 DEF Replies, Ends, RepliesDone
  <2>2. s \in Request
    BY <1>1, <2>1 DEF Request, Answer
  <2>3. /\ s.pc = "end" /\ s.answer = "done" /\ s.at = Nothing
        /\ s.op = r.op /\ s.on = k /\ s.acted /\ s.form = r.form
    BY <1>1, <2>1 DEF Request
  <2> QED  BY <1>3, <2>2, <2>3 DEF Sound, Going, Unacted
<1> QED  BY <1>2, <1>3

\* The same for the two routes that act and answer themselves.
LEMMA EndsActedOps ==
    ASSUME NEW r \in Request, Sound(r), r.pc \in {"act", "delete"}, r.op # "revokeKey",
           NEW s, s = Ends([r EXCEPT !.acted = TRUE], "done")
    PROVE  /\ s \in Request /\ Sound(s) /\ s.acted
           /\ s.form = r.form /\ s.op = r.op /\ s.pc = "end"
<1> DEFINE d == [r EXCEPT !.acted = TRUE]
<1>1. d \in Request /\ d.acted /\ d.op = r.op /\ d.form = r.form
  BY DEF Request
<1>2. s = [d EXCEPT !.pc = "end", !.at = Nothing, !.with = Nothing, !.answer = "done"]
  BY <1>1 DEF Ends
<1> HIDE DEF d
<1>3. s \in Request
  BY <1>1, <1>2 DEF Request, Answer
<1>4. /\ s.pc = "end" /\ s.answer = "done" /\ s.at = Nothing /\ s.acted
      /\ s.op = r.op /\ s.form = r.form
  BY <1>1, <1>2 DEF Request
<1> QED  BY <1>3, <1>4 DEF Sound, Going, Unacted

-----------------------------------------------------------------------------
(* The steps of a request.                                                 *)

\* What every step of a request leaves true of it.
Proceeds(q) ==
    LET r == request[q]
        s == request'[q]
    IN  /\ UNCHANGED <<replica, canary>>
        /\ request' = [request EXCEPT ![q] = s]
        /\ s \in Request /\ Sound(s)
        /\ Going(s) => (Going(r) /\ s.at = r.at) \/ replica[s.at].pc = "up"
        /\ r.acted => s.acted /\ s.op = r.op /\ s.on = r.on /\ s.form = r.form

\* A step that does nothing but decide how the request goes on.
Only(q) == Proceeds(q) /\ (request'[q].acted => request[q].acted) /\ UNCHANGED data

LEMMA Known ==
    ASSUME TypeOK, RequestsSound, NEW q \in Requests
    PROVE  request \in [Requests -> Request] /\ request[q] \in Request /\ Sound(request[q])
BY DEF TypeOK, RequestsSound

\* Ends, At and Replies as steps.
LEMMA EndsProceeds ==
    ASSUME TypeOK, RequestsSound, NEW q \in Requests, NEW a \in Answer \ {"none"},
           request' = [request EXCEPT ![q] = Ends(request[q], a)],
           UNCHANGED <<replica, canary, data>>
    PROVE  Only(q) /\ request'[q].pc = "end" /\ request'[q].answer = a
<1>1. request'[q] = Ends(request[q], a)
  BY Known
<1> QED  BY <1>1, Known, EndsOps DEF Only, Proceeds, Keeps, Going

LEMMA RepliesProceeds ==
    ASSUME TypeOK, RequestsSound, NEW q \in Requests, NEW a \in {"login", "forbidden", "missing"},
           request[q].pc \in {"inner", "act"},
           request' = [request EXCEPT ![q] = Replies(request[q], a)],
           UNCHANGED <<replica, canary, data>>
    PROVE  Only(q) /\ request'[q].pc \in {"back", "end"}
<1>1. request'[q] = Replies(request[q], a) /\ Going(request[q])
  BY Known DEF Going
<1>2. /\ Replies(request[q], a) \in Request /\ Sound(Replies(request[q], a))
      /\ Keeps(request[q], Replies(request[q], a))
      /\ Replies(request[q], a).pc \in {"back", "end"}
      /\ Going(Replies(request[q], a)) => Replies(request[q], a).at = request[q].at
  BY Known, RepliesOps
<1> QED  BY <1>1, <1>2 DEF Only, Proceeds, Keeps

LEMMA AtProceeds ==
    ASSUME TypeOK, RequestsSound, NEW q \in Requests,
           NEW pc \in {"inner", "act", "find", "audit"},
           pc = "audit" <=> request[q].pc = "back",
           pc = "audit" => request[q].acted,
           pc # "audit" => request[q].pc \in {"outer", "inner"},
           pc = "inner" => request[q].op \notin {"endSession", "showUser"},
           pc = "act" => request[q].op # "endSession",
           pc = "find" => request[q].op = "endSession",
           request' = [request EXCEPT ![q] = At(request[q], pc)],
           UNCHANGED <<replica, canary, data>>
    PROVE  Only(q) /\ request'[q].pc = pc
<1>1. request'[q] = At(request[q], pc)
  BY Known
<1>2. /\ At(request[q], pc) \in Request /\ Sound(At(request[q], pc))
      /\ Keeps(request[q], At(request[q], pc))
      /\ At(request[q], pc).pc = pc /\ At(request[q], pc).at = request[q].at
  <2>1. Going(request[q]) /\ (pc # "audit" => Unacted(request[q]))
    BY DEF Going, Unacted
  <2> QED  BY <2>1, Known, AtOps
<1> QED  BY <1>1, <1>2, Known DEF Only, Proceeds, Keeps, Going

\* The checks.
LEMMA SendProceeds ==
    ASSUME TypeOK, RequestsSound, NEW q \in Requests, NEW r \in Replicas, NEW c \in Credentials,
           NEW op \in Op, Send(q, r, c, op)
    PROVE  Only(q) /\ request'[q].pc \in {"outer", "inner"} /\ request[q].pc = "idle"
<1>1. PICK form \in BOOLEAN :
         /\ form => c \in Sessions
         /\ op \in {"endSession", "showUser"} => form
         /\ request' = [request EXCEPT ![q] =
               [NewRequest EXCEPT !.pc = IF form THEN "outer" ELSE "inner", !.at = r,
                                  !.form = form, !.with = c, !.op = op]]
  BY DEF Send
<1> DEFINE s == [NewRequest EXCEPT !.pc = IF form THEN "outer" ELSE "inner", !.at = r,
                                   !.form = form, !.with = c, !.op = op]
<1>2. s \in Request
  BY NewOps DEF Request
<1>3. /\ s.pc = IF form THEN "outer" ELSE "inner"
      /\ s.at = r /\ s.form = form /\ s.with = c /\ s.op = op /\ s.acted = FALSE /\ s.answer = "none"
  BY DEF NewRequest
<1>4. Sound(s)
  BY <1>1, <1>3 DEF Sound, Going, Unacted
<1>5. request'[q] = s
  BY <1>1, Known
<1>6. ~request[q].acted /\ request[q].pc = "idle"
  BY Known, NewOps DEF Send, Sound
<1> QED  BY <1>1, <1>2, <1>3, <1>4, <1>5, <1>6 DEF Send, Only, Proceeds

LEMMA OuterProceeds ==
    ASSUME TypeOK, RequestsSound, NEW q \in Requests, Outer(q)
    PROVE  /\ Only(q)
           /\ \/ request'[q].pc \in {"end", "inner"}
              \/ /\ SessionIsGood(q) /\ request[q].with \in Sessions
                 /\ NeedsAdmin(request[q].op) => IsAdmin(q)
                 /\ \/ request[q].op = "showUser" /\ request'[q] = At(request[q], "act")
                    \/ request[q].op = "endSession" /\ request'[q] = At(request[q], "find")
<1>1. request[q].pc = "outer" /\ request[q].with \in Sessions /\ UNCHANGED <<replica, canary, data>>
  BY Known DEF Outer, Sound
<1>2. CASE \E a \in {"login", "forbidden"} : request' = [request EXCEPT ![q] = Ends(request[q], a)]
  BY <1>1, <1>2, EndsProceeds DEF Answer
<1>3. CASE /\ SessionIsGood(q) /\ (NeedsAdmin(request[q].op) => IsAdmin(q))
           /\ request' = [request EXCEPT ![q] = At(request[q],
                 CASE request[q].op = "endSession" -> "find"
                   [] request[q].op = "showUser" -> "act"
                   [] OTHER -> "inner")]
  <2>1. CASE request[q].op = "endSession"
    <3>1. request' = [request EXCEPT ![q] = At(request[q], "find")]
      BY <1>3, <2>1
    <3> QED  BY <1>1, <1>3, <2>1, <3>1, AtProceeds, Known
  <2>2. CASE request[q].op = "showUser"
    <3>1. request' = [request EXCEPT ![q] = At(request[q], "act")]
      BY <1>3, <2>2
    <3> QED  BY <1>1, <1>3, <2>2, <3>1, AtProceeds, Known
  <2>3. CASE request[q].op \notin {"endSession", "showUser"}
    <3>1. request' = [request EXCEPT ![q] = At(request[q], "inner")]
      BY <1>3, <2>3
    <3> QED  BY <1>1, <1>3, <2>3, <3>1, AtProceeds, Known
  <2> QED  BY <2>1, <2>2, <2>3
<1> QED  BY <1>2, <1>3 DEF Outer

LEMMA InnerProceeds ==
    ASSUME TypeOK, RequestsSound, NEW q \in Requests, Inner(q)
    PROVE  /\ Only(q)
           /\ \/ request'[q].pc \in {"end", "back"}
              \/ /\ request[q].op # "endSession" /\ request'[q] = At(request[q], "act")
                 /\ Resolves(q) /\ (NeedsAdmin(request[q].op) => IsAdmin(q))
<1>1. /\ request[q].pc = "inner" /\ request[q].op \notin {"endSession", "showUser"}
      /\ UNCHANGED <<replica, canary, data>>
  BY Known DEF Inner, Sound
<1>2. CASE \E a \in {"login", "forbidden"} : request' = [request EXCEPT ![q] = Replies(request[q], a)]
  BY <1>1, <1>2, RepliesProceeds
<1>3. CASE /\ Resolves(q) /\ (NeedsAdmin(request[q].op) => IsAdmin(q))
           /\ request' = [request EXCEPT ![q] = At(request[q], "act")]
  BY <1>1, <1>3, AtProceeds, Known
<1> QED  BY <1>2, <1>3 DEF Inner, AdminPasses

\* The effects.  Who acts has passed the checks; what he acts on is noted.
ActsOn(q) ==
    /\ Proceeds(q)
    /\ request[q].pc \in {"act", "delete"} /\ ~request[q].acted
    /\ request'[q].acted /\ request'[q].op = request[q].op /\ request'[q].form = request[q].form
    /\ request'[q].pc \in {"back", "end"}
    /\ request[q].form /\ request[q].op \in AdminOp => request'[q].pc = "back"

LEMMA ActedActs ==
    ASSUME TypeOK, RequestsSound, NEW q \in Requests, request[q].pc = "act",
           request[q].op # "revokeKey", Acted(q), UNCHANGED <<replica, canary>>
    PROVE  ActsOn(q)
<1> DEFINE r == request[q]
           s == request'[q]
<1>1. r \in Request /\ Sound(r) /\ request \in [Requests -> Request]
  BY Known
<1>2. request' = [request EXCEPT ![q] = s] /\ s = Replies([r EXCEPT !.acted = TRUE], "done")
  BY <1>1 DEF Acted
<1>3. s = RepliesDone(r, r.on)
  <2>1. [r EXCEPT !.acted = TRUE] = [r EXCEPT !.acted = TRUE, !.on = r.on]
    BY <1>1 DEF Request
  <2> QED  BY <1>2, <2>1 DEF RepliesDone
<1>4. /\ s \in Request /\ Sound(s) /\ s.acted /\ s.form = r.form /\ s.op = r.op
      /\ s.pc \in {"back", "end"} /\ (s.form => s.pc = "back") /\ (Going(s) => s.at = r.at)
  BY <1>1, <1>3, ActedOps
<1>5. Going(r) /\ ~r.acted
  BY <1>1 DEF Going, Sound, Unacted
<1> QED  BY <1>2, <1>4, <1>5 DEF ActsOn, Proceeds

LEMMA RevokesActs ==
    ASSUME TypeOK, RequestsSound, NEW q \in Requests, NEW k \in Keys,
           request[q].pc = "act", request[q].op = "revokeKey",
           request' = [request EXCEPT ![q] = Replies([@ EXCEPT !.acted = TRUE, !.on = k], "done")],
           UNCHANGED <<replica, canary>>
    PROVE  ActsOn(q) /\ request'[q].on = k
<1> DEFINE r == request[q]
           s == request'[q]
<1>1. r \in Request /\ Sound(r) /\ request \in [Requests -> Request]
  BY Known
<1>2. request' = [request EXCEPT ![q] = s] /\ s = RepliesDone(r, k)
  BY <1>1 DEF RepliesDone
<1>3. /\ s \in Request /\ Sound(s) /\ s.acted /\ s.form = r.form /\ s.op = r.op /\ s.on = k
      /\ s.pc \in {"back", "end"} /\ (s.form => s.pc = "back") /\ (Going(s) => s.at = r.at)
  BY <1>1, <1>2, ActedOps
<1>4. Going(r) /\ ~r.acted
  BY <1>1 DEF Going, Sound, Unacted
<1> QED  BY <1>2, <1>3, <1>4 DEF ActsOn, Proceeds

LEMMA EndsActs ==
    ASSUME TypeOK, RequestsSound, NEW q \in Requests, request[q].pc \in {"act", "delete"},
           request[q].op \notin AdminOp \cup {"revokeKey"},
           request' = [request EXCEPT ![q] = Ends([@ EXCEPT !.acted = TRUE], "done")],
           UNCHANGED <<replica, canary>>
    PROVE  ActsOn(q)
<1> DEFINE r == request[q]
           s == request'[q]
<1>1. r \in Request /\ Sound(r) /\ request \in [Requests -> Request]
  BY Known
<1>2. request' = [request EXCEPT ![q] = s] /\ s = Ends([r EXCEPT !.acted = TRUE], "done")
  BY <1>1
<1>3. s \in Request /\ Sound(s) /\ s.acted /\ s.form = r.form /\ s.op = r.op /\ s.pc = "end"
  BY <1>1, <1>2, EndsActedOps
<1>4. Going(r) /\ ~r.acted /\ ~Going(s)
  BY <1>1, <1>3 DEF Going, Sound, Unacted
<1> QED  BY <1>1, <1>2, <1>3, <1>4 DEF ActsOn, Proceeds

\* A key is revoked by the request that is told so, and once.
Revokes(q, k) ==
    /\ request[q].op = "revokeKey" /\ request'[q].on = k
    /\ key[k].state = "live" /\ key' = [key EXCEPT ![k].state = "revoked"]
    /\ UNCHANGED <<status, session, invite>>

\* A key is made with the pepper of the replica that makes it.
MakesKey(q, k) ==
    /\ request[q].op = "newKey" /\ key[k].state = "none"
    /\ key' = [key EXCEPT ![k] = [state |-> "live", owner |-> Actor(q),
                                  pepper |-> replica[request[q].at].pepper]]
    /\ UNCHANGED <<status, session, invite>>

\* The other effects leave keys alone.
ChangesOther(q) ==
    /\ request[q].op # "revokeKey"
    /\ UNCHANGED <<session, key>>
    /\ status' \in [Users -> {"active", "disabled"}] /\ invite' \in BOOLEAN

LEMMA ActProceeds ==
    ASSUME TypeOK, RequestsSound, NEW q \in Requests, Act(q)
    PROVE  \/ Only(q) /\ request'[q].pc \in {"back", "end"}
           \/ ActsOn(q) /\ \/ ChangesOther(q)
                           \/ \E k \in Keys : Revokes(q, k) \/ MakesKey(q, k)
<1>1. /\ UNCHANGED <<replica, canary>>
      /\ status \in [Users -> {"active", "disabled"}] /\ invite \in BOOLEAN
  BY DEF Act, TypeOK
<1>2. ASSUME request[q].pc = "act", Missing(q)
      PROVE  Only(q) /\ request'[q].pc \in {"back", "end"}
  BY <1>1, <1>2, RepliesProceeds DEF Missing
<1>3. CASE SetStatus(q)
  BY <1>1, <1>2, <1>3, ActedActs DEF SetStatus, Acts, ChangesOther
<1>4. CASE CreateInvite(q)
  BY <1>1, <1>4, ActedActs DEF CreateInvite, Acts, ChangesOther
<1>5. CASE RevokeInvite(q)
  BY <1>1, <1>2, <1>5, ActedActs DEF RevokeInvite, Acts, ChangesOther
<1>6. CASE CreateKey(q)
  BY <1>1, <1>6, ActedActs DEF CreateKey, Acts, MakesKey
<1>7. CASE RevokeKey(q)
  <2>1. request[q].pc = "act" /\ request[q].op = "revokeKey"
    BY <1>7 DEF RevokeKey, Acts
  <2>2. CASE Missing(q)
    BY <1>2, <2>1, <2>2
  <2>3. CASE ~Missing(q)
    <3>1. PICK k \in Keys :
             /\ RevocableKey(q, k)
             /\ key' = [key EXCEPT ![k].state = "revoked"]
             /\ request' = [request EXCEPT ![q] = Replies([@ EXCEPT !.acted = TRUE, !.on = k], "done")]
             /\ UNCHANGED <<status, session, invite>>
      BY <1>7, <2>3 DEF RevokeKey
    <3> QED  BY <1>1, <2>1, <3>1, RevokesActs DEF Revokes, RevocableKey
  <2> QED  BY <2>2, <2>3
<1>8. CASE CancelJob(q)
  BY <1>1, <1>2, <1>8, ActedActs DEF CancelJob, Acts, ChangesOther, data
<1>9. CASE ReadStats(q)
  BY <1>1, <1>9, ActedActs DEF ReadStats, Acts, ChangesOther, data
<1>10. CASE ShowUser(q)
  <2>1. request[q].pc = "act" /\ request[q].op = "showUser" /\ UNCHANGED data
    BY <1>10 DEF ShowUser, Acts
  <2>2. CASE request' = [request EXCEPT ![q] = Ends([@ EXCEPT !.acted = TRUE], "done")]
    BY <1>1, <2>1, <2>2, EndsActs DEF ChangesOther, data, AdminOp
  <2>3. CASE request' = [request EXCEPT ![q] = Ends([@ EXCEPT !.acted = FALSE], "missing")]
    <3>1. [request[q] EXCEPT !.acted = FALSE] = request[q]
      BY <2>1, Known DEF Request, Sound, Unacted
    <3>2. request' = [request EXCEPT ![q] = Ends(request[q], "missing")]
      BY <2>3, <3>1
    <3> QED  BY <1>1, <2>1, <3>2, EndsProceeds DEF Answer
  <2>4. PICK answer \in {"done", "missing"} :
           request' = [request EXCEPT ![q] = Ends([@ EXCEPT !.acted = answer = "done"], answer)]
    BY <1>10 DEF ShowUser
  <2>5. CASE answer = "done"
    <3>1. [request[q] EXCEPT !.acted = answer = "done"] = [request[q] EXCEPT !.acted = TRUE]
      BY <2>5
    <3> QED  BY <2>2, <2>4, <2>5, <3>1
  <2>6. CASE answer = "missing"
    <3>1. [request[q] EXCEPT !.acted = answer = "done"] = [request[q] EXCEPT !.acted = FALSE]
      BY <2>6
    <3> QED  BY <2>3, <2>4, <2>6, <3>1
  <2> QED  BY <2>5, <2>6
<1> QED  BY <1>3, <1>4, <1>5, <1>6, <1>7, <1>8, <1>9, <1>10 DEF Act

\* The form routes go on with what the JSON route answered.
LEMMA FormProceeds ==
    ASSUME TypeOK, RequestsSound, NEW q \in Requests,
           \/ UserUpdateForm(q) \/ InviteCreateForm(q) \/ InviteRevokeForm(q)
           \/ KeyCreateForm(q) \/ KeyRevokeForm(q) \/ JobCancelForm(q) \/ StatsPage(q)
    PROVE  /\ Only(q) /\ request'[q].pc \in {"audit", "end"} /\ audit' = audit
           /\ request[q].acted /\ request[q].op \in AdminOp => request'[q].pc = "audit"
<1> DEFINE r == request[q]
<1>1. /\ r.pc = "back" /\ UNCHANGED <<replica, canary, data>> /\ audit' = audit
  BY DEF Back, UserUpdateForm, InviteCreateForm, InviteRevokeForm, KeyCreateForm, KeyRevokeForm,
     JobCancelForm, StatsPage
<1>2. r.answer \in Answer \ {"none"} /\ (r.acted <=> r.answer = "done")
  BY <1>1, Known DEF Sound, Request
<1>3. ASSUME request' = [request EXCEPT ![q] = Told(@)] PROVE Only(q) /\ request'[q].pc = "end"
  <2>1. PICK a \in Answer \ {"none"} : Told(r) = Ends(r, a)
    <3>1. Told(r) = Ends(r, "login") \/ Told(r) = Ends(r, "stale") \/ Told(r) = Ends(r, r.answer)
      BY DEF Told
    <3>2. {"login", "stale"} \subseteq Answer \ {"none"}
      BY DEF Answer
    <3> QED  BY <1>2, <3>1, <3>2
  <2>2. request' = [request EXCEPT ![q] = Ends(request[q], a)]
    BY <1>3, <2>1
  <2> QED  BY <1>1, <2>2, EndsProceeds
<1>4. CASE UserUpdateForm(q) \/ InviteCreateForm(q) \/ InviteRevokeForm(q)
  <2>1. request' = [request EXCEPT ![q] = Recorded(@)]
    BY <1>4 DEF UserUpdateForm, InviteCreateForm, InviteRevokeForm
  <2>2. CASE r.answer = "done"
    <3>1. request' = [request EXCEPT ![q] = At(request[q], "audit")]
      BY <2>1, <2>2 DEF Recorded
    <3> QED  BY <1>1, <1>2, <2>2, <3>1, AtProceeds
  <2>3. CASE r.answer # "done"
    <3>1. request' = [request EXCEPT ![q] = Told(@)]
      BY <2>1, <2>3 DEF Recorded
    <3> QED  BY <1>1, <1>2, <1>3, <2>3, <3>1
  <2> QED  BY <2>2, <2>3
<1>5. CASE KeyCreateForm(q) \/ KeyRevokeForm(q) \/ JobCancelForm(q)
  <2>1. request' = [request EXCEPT ![q] = Told(@)] /\ r.op \notin AdminOp
    BY <1>5 DEF KeyCreateForm, KeyRevokeForm, JobCancelForm, Back, AdminOp
  <2> QED  BY <1>1, <1>3, <2>1
<1>6. CASE StatsPage(q)
  <2>1. r.op \notin AdminOp
    BY <1>6 DEF StatsPage, Back, AdminOp
  <2>2. PICK a \in {"done", "error"} : request' = [request EXCEPT ![q] = Ends(request[q], a)]
    BY <1>6 DEF StatsPage
  <2>3. a \in Answer \ {"none"}
    BY DEF Answer
  <2> QED  BY <1>1, <2>1, <2>2, <2>3, EndsProceeds
<1> QED  BY <1>4, <1>5, <1>6

\* The end of a session by its owner.
LEMMA FindProceeds ==
    ASSUME TypeOK, RequestsSound, NEW q \in Requests, FindSession(q)
    PROVE  Only(q) /\ ~request[q].acted /\ request[q].pc = "find"
<1> DEFINE r == request[q]
<1>1. r.pc = "find" /\ UNCHANGED <<replica, canary, data>>
  BY DEF FindSession
<1>2. ~r.acted
  BY <1>1, Known DEF Sound, Unacted
<1>3. CASE \E a \in {"missing", "own"} : request' = [request EXCEPT ![q] = Ends(request[q], a)]
  BY <1>1, <1>2, <1>3, EndsProceeds DEF Answer
<1>4. ASSUME NEW s \in Sessions, request' = [request EXCEPT ![q] = [At(@, "delete") EXCEPT !.on = s]]
      PROVE  Only(q)
  <2> DEFINE d == [At(r, "delete") EXCEPT !.on = s]
  <2>1. r \in Request /\ Sound(r)
    BY Known
  <2>2. d \in Request
    BY <2>1 DEF At, Request
  <2>3. /\ d.pc = "delete" /\ d.at = r.at /\ d.with = r.with /\ d.op = r.op /\ d.on = s
        /\ d.acted = r.acted /\ d.form = r.form /\ d.answer = r.answer
    BY <2>1 DEF At, Request
  <2>4. request' = [request EXCEPT ![q] = d] /\ request'[q] = d
    BY <1>4, Known
  <2> HIDE DEF d
  <2>5. Sound(d)
    BY <1>1, <1>2, <2>1, <2>3 DEF Sound, Going, Unacted
  <2> QED  BY <1>1, <1>2, <2>2, <2>3, <2>4, <2>5 DEF Only, Proceeds, Going
<1> QED  BY <1>1, <1>2, <1>3, <1>4 DEF FindSession

EndsSession(q) ==
    /\ UNCHANGED <<status, key, invite>>
    /\ session' \in [Sessions -> [state : {"live", "expired", "gone"}, owner : Users]]

LEMMA DeleteProceeds ==
    ASSUME TypeOK, RequestsSound, NEW q \in Requests, DeleteSession(q)
    PROVE  /\ Only(q) \/ (ActsOn(q) /\ EndsSession(q) /\ request[q].op = "endSession")
           /\ request'[q].pc = "end" /\ ~request[q].acted
<1>1. /\ request[q].pc = "delete" /\ request[q].op = "endSession" /\ request[q].on \in Sessions
      /\ ~request[q].acted
      /\ UNCHANGED <<replica, canary, status, key, invite>>
  BY Known DEF DeleteSession, Sound, Unacted
<1>2. CASE session[request[q].on].state = "gone"
  BY <1>1, <1>2, EndsProceeds DEF DeleteSession, data, Answer
<1>3. CASE session[request[q].on].state # "gone"
  <2>1. /\ session' = [session EXCEPT ![request[q].on].state = "gone"]
        /\ request' = [request EXCEPT ![q] = Ends([@ EXCEPT !.acted = TRUE], "done")]
    BY <1>3 DEF DeleteSession
  <2>2. session' \in [Sessions -> [state : {"live", "expired", "gone"}, owner : Users]]
    BY <1>1, <2>1 DEF TypeOK
  <2>3. ActsOn(q)
    BY <1>1, <2>1, EndsActs DEF AdminOp
  <2>4. request'[q].pc = "end"
    <3>1. request'[q] = Ends([request[q] EXCEPT !.acted = TRUE], "done") /\ request[q] \in Request
      BY <2>1, Known
    <3> QED  BY <1>1, <3>1, Known, EndsActedOps
  <2> QED  BY <1>1, <2>2, <2>3, <2>4 DEF EndsSession
<1> QED  BY <1>2, <1>3

\* A request is let past its last check.
Grants(q) ==
    /\ request[q].pc \in {"outer", "inner"}
    /\ Authorised(q)
    /\ request'[q] = At(request[q], request'[q].pc)
    /\ UNCHANGED <<replica, data>>

\* All steps of a request together.
LEMMA StepProceeds ==
    ASSUME TypeOK, RequestsSound, NEW q \in Requests, RequestStep(q)
    PROVE  /\ \/ Only(q)
              \/ ActsOn(q) /\ \/ ChangesOther(q)
                              \/ \E k \in Keys : Revokes(q, k) \/ MakesKey(q, k)
                              \/ EndsSession(q) /\ request[q].op = "endSession"
           /\ audit' = audit \/ (audit' = audit \cup {q} /\ request[q].acted)
           /\ request[q].acted /\ request[q].form /\ request[q].op \in AdminOp =>
                 q \in audit' \/ request'[q].pc = "audit" \/ request'[q].answer = "error"
           /\ request'[q].pc \in {"act", "find", "delete"} =>
                 request[q].pc \in {"act", "find", "delete"} \/ Grants(q)
           /\ disturbed' \in 0 .. Disturbances
<1>0. disturbed \in 0 .. Disturbances /\ Disturbances \in Nat
  BY AccessAssumption DEF TypeOK
<1>1. ASSUME NEW r \in Replicas, NEW c \in Credentials, NEW op \in Op, Send(q, r, c, op)
      PROVE  Only(q) /\ request'[q].pc \in {"outer", "inner"} /\ ~request[q].acted
             /\ audit' = audit /\ disturbed' = disturbed
  <2>1. ~request[q].acted
    BY <1>1, SendProceeds, Known, NewOps DEF Sound
  <2>2. audit' = audit /\ disturbed' = disturbed
    BY <1>1 DEF Send
  <2> QED  BY <1>1, <2>1, <2>2, SendProceeds
<1>2. CASE Outer(q)
  <2>1. ~request[q].acted /\ request[q].pc = "outer" /\ audit' = audit /\ disturbed' = disturbed
        /\ UNCHANGED <<replica, data>>
    BY <1>2, Known DEF Outer, Sound, Unacted
  <2>2. ASSUME request'[q].pc \in {"act", "find", "delete"} PROVE Grants(q)
    <3>1. /\ SessionIsGood(q) /\ request[q].with \in Sessions
          /\ NeedsAdmin(request[q].op) => IsAdmin(q)
          /\ \/ request[q].op = "showUser" /\ request'[q] = At(request[q], "act")
             \/ request[q].op = "endSession" /\ request'[q] = At(request[q], "find")
      BY <1>2, <2>2, OuterProceeds
    <3>2. Authorised(q)
      BY <3>1 DEF Authorised, SessionIsGood, Resolves
    <3>3. request'[q] = At(request[q], request'[q].pc)
      BY <3>1, Known DEF At, Request
    <3> QED  BY <2>1, <3>2, <3>3 DEF Grants
  <2> QED  BY <1>0, <1>2, <2>1, <2>2, OuterProceeds
<1>3. CASE Inner(q)
  <2>1. ~request[q].acted /\ request[q].pc = "inner" /\ audit' = audit /\ disturbed' = disturbed
        /\ UNCHANGED <<replica, data>>
    BY <1>3, Known DEF Inner, Sound, Unacted
  <2>2. ASSUME request'[q].pc \in {"act", "find", "delete"} PROVE Grants(q)
    <3>1. /\ request[q].op # "endSession" /\ request'[q] = At(request[q], "act")
          /\ Resolves(q) /\ (NeedsAdmin(request[q].op) => IsAdmin(q))
      BY <1>3, <2>2, InnerProceeds
    <3>2. Authorised(q)
      BY <3>1 DEF Authorised
    <3>3. request'[q] = At(request[q], request'[q].pc)
      BY <3>1, Known DEF At, Request
    <3> QED  BY <2>1, <3>2, <3>3 DEF Grants
  <2> QED  BY <1>0, <1>3, <2>1, <2>2, InnerProceeds
<1>4. CASE Act(q)
  <2>1. request[q].pc = "act" /\ audit' = audit /\ disturbed' = disturbed
    BY <1>4 DEF Act, SetStatus, CreateInvite, RevokeInvite, CreateKey, RevokeKey, CancelJob, ReadStats,
       ShowUser, Acts
  <2>2. ~request[q].acted
    BY <2>1, Known DEF Sound, Unacted
  <2> QED  BY <1>0, <1>4, <2>1, <2>2, ActProceeds
<1>5. CASE \/ UserUpdateForm(q) \/ InviteCreateForm(q) \/ InviteRevokeForm(q)
           \/ KeyCreateForm(q) \/ KeyRevokeForm(q) \/ JobCancelForm(q) \/ StatsPage(q)
  <2>1. disturbed' = disturbed
    BY <1>5 DEF Back, UserUpdateForm, InviteCreateForm, InviteRevokeForm, KeyCreateForm, KeyRevokeForm,
       JobCancelForm, StatsPage
  <2> QED  BY <1>0, <1>5, <2>1, FormProceeds
<1>6. CASE Record(q)
  <2>1. request[q].pc = "audit" /\ request[q].acted /\ audit' = audit \cup {q} /\ disturbed' = disturbed
    BY <1>6, Known DEF Record, Sound
  <2>2. Only(q) /\ request'[q].pc = "end"
    BY <1>6, EndsProceeds DEF Record, Answer
  <2> QED  BY <1>0, <2>1, <2>2
<1>7. CASE FindSession(q)
  <2>1. audit' = audit /\ disturbed' = disturbed
    BY <1>7 DEF FindSession
  <2> QED  BY <1>0, <1>7, <2>1, FindProceeds
<1>8. CASE DeleteSession(q)
  <2>1. audit' = audit /\ disturbed' = disturbed
    BY <1>8 DEF DeleteSession
  <2> QED  BY <1>0, <1>8, <2>1, DeleteProceeds
<1>9. CASE Throws(q)
  <2>1. audit' = audit /\ disturbed' \in 0 .. Disturbances
    BY <1>0, <1>9 DEF Throws, Disturbs
  <2>2. Only(q) /\ request'[q].pc = "end" /\ request'[q].answer = "error"
    BY <1>9, EndsProceeds DEF Throws, Answer
  <2> QED  BY <2>1, <2>2
<1> QED  BY <1>0, <1>1, <1>2, <1>3, <1>4, <1>5, <1>6, <1>7, <1>8, <1>9 DEF RequestStep

\* A crash ends the requests of its replica and nothing else.
LEMMA CrashEnds ==
    ASSUME TypeOK, RequestsSound, NEW r \in Replicas, Crash(r), NEW q \in Requests
    PROVE  /\ request'[q] \in Request /\ Sound(request'[q])
           /\ request[q].acted <=> request'[q].acted
           /\ request[q].acted => /\ request'[q].op = request[q].op /\ request'[q].on = request[q].on
                                  /\ request'[q].form = request[q].form
           /\ Going(request'[q]) => request'[q] = request[q] /\ request[q].at # r
           /\ request'[q] = request[q] \/ request'[q].answer = "dead"
<1>1. request'[q] = IF request[q].at = r THEN Ends(request[q], "dead") ELSE request[q]
  BY DEF Crash
<1>2. "dead" \in Answer \ {"none"}
  BY DEF Answer
<1>3. CASE request[q].at = r
  <2>1. request'[q] = Ends(request[q], "dead")
    BY <1>1, <1>3
  <2> QED  BY <1>2, <2>1, Known, EndsOps DEF Keeps, Going
<1>4. CASE request[q].at # r
  BY <1>1, <1>4, Known
<1> QED  BY <1>3, <1>4

-----------------------------------------------------------------------------
(* Types.                                                                  *)

LEMMA TypedStep ==
    ASSUME TypeOK, RequestsSound, [Next]_vars
    PROVE  TypeOK' /\ RequestsSound'
<1> USE DEF data
<1>1. /\ request \in [Requests -> Request]
      /\ overtaken \subseteq Requests /\ audit \subseteq Requests
      /\ disturbed \in 0 .. Disturbances /\ Disturbances \in Nat
      /\ session \in [Sessions -> [state : {"live", "expired", "gone"}, owner : Users]]
      /\ key \in [Keys -> [state : {"none", "live", "revoked"}, owner : Users \cup {Nothing},
                           pepper : Peppers \cup {NoPepper}]]
      /\ replica \in [Replicas -> [pc : {"down", "insert", "read", "up", "refused"},
                                   pepper : Peppers \cup {NoPepper}]]
      /\ canary \in Peppers \cup {NoPepper}
  BY AccessAssumption DEF TypeOK
<1>2. overtaken' \subseteq Requests
  BY <1>1 DEF Next, vars, Passed, Deprived
<1>3. ASSUME request' \in [Requests -> Request], RequestsSound'
      PROVE  \A q \in Requests : request'[q].answer # "none" <=> request'[q].pc \in {"back", "audit", "end"}
  BY <1>3 DEF RequestsSound, Sound
<1>4. ASSUME NEW q \in Requests, RequestStep(q) PROVE TypeOK' /\ RequestsSound'
  <2>1. Proceeds(q)
    BY <1>4, StepProceeds DEF Only, ActsOn
  <2>2. request' \in [Requests -> Request] /\ RequestsSound'
    BY <1>1, <2>1 DEF Proceeds, RequestsSound
  <2>3. /\ replica' = replica /\ canary' = canary
    BY <2>1 DEF Proceeds
  <2>4. audit' \subseteq Requests /\ disturbed' \in 0 .. Disturbances
    BY <1>1, <1>4, StepProceeds
  <2>5. CASE Only(q)
    BY <1>1, <1>2, <1>3, <2>2, <2>3, <2>4, <2>5 DEF Only, TypeOK
  <2>6. CASE ActsOn(q) /\ ChangesOther(q)
    BY <1>1, <1>2, <1>3, <2>2, <2>3, <2>4, <2>6 DEF ChangesOther, TypeOK
  <2>7. ASSUME NEW k \in Keys, ActsOn(q), Revokes(q, k) PROVE TypeOK'
    <3>1. key' \in [Keys -> [state : {"none", "live", "revoked"}, owner : Users \cup {Nothing},
                             pepper : Peppers \cup {NoPepper}]]
      BY <1>1, <2>7 DEF Revokes
    <3> QED  BY <1>1, <1>2, <1>3, <2>2, <2>3, <2>4, <2>7, <3>1 DEF Revokes, TypeOK
  <2>8. ASSUME NEW k \in Keys, ActsOn(q), MakesKey(q, k) PROVE TypeOK'
    <3>1. request[q].at \in Replicas /\ request[q].with \in Credentials
      BY <2>8, Known DEF ActsOn, Sound, Going
    <3>2. Actor(q) \in Users \cup {Nothing} /\ replica[request[q].at].pepper \in Peppers \cup {NoPepper}
      BY <1>1, <3>1 DEF Actor, Credentials
    <3>3. key' \in [Keys -> [state : {"none", "live", "revoked"}, owner : Users \cup {Nothing},
                             pepper : Peppers \cup {NoPepper}]]
      BY <1>1, <2>8, <3>2 DEF MakesKey
    <3> QED  BY <1>1, <1>2, <1>3, <2>2, <2>3, <2>4, <2>8, <3>3 DEF MakesKey, TypeOK
  <2>9. CASE ActsOn(q) /\ EndsSession(q)
    BY <1>1, <1>2, <1>3, <2>2, <2>3, <2>4, <2>9 DEF EndsSession, TypeOK
  <2> QED  BY <1>4, <2>2, <2>5, <2>6, <2>7, <2>8, <2>9, StepProceeds
<1>5. ASSUME NEW r \in Replicas, Crash(r) PROVE TypeOK' /\ RequestsSound'
  <2>1. request' \in [Requests -> Request]
    BY <1>5, CrashEnds DEF Crash
  <2>2. RequestsSound'
    BY <1>5, CrashEnds DEF RequestsSound
  <2>3. replica' \in [Replicas -> [pc : {"down", "insert", "read", "up", "refused"},
                                   pepper : Peppers \cup {NoPepper}]]
    BY <1>1, <1>5 DEF Crash
  <2>4. disturbed' \in 0 .. Disturbances
    BY <1>1, <1>5 DEF Crash, Disturbs
  <2> QED  BY <1>1, <1>2, <1>3, <1>5, <2>1, <2>2, <2>3, <2>4 DEF Crash, TypeOK
<1>6. ASSUME NEW r \in Replicas, NEW p \in Peppers, Configure(r, p) PROVE TypeOK' /\ RequestsSound'
  <2>1. replica' \in [Replicas -> [pc : {"down", "insert", "read", "up", "refused"},
                                   pepper : Peppers \cup {NoPepper}]]
    BY <1>1, <1>6 DEF Configure
  <2> QED  BY <1>2, <1>6, <2>1 DEF Configure, TypeOK, RequestsSound
<1>7. ASSUME NEW r \in Replicas, InsertCanary(r) \/ ReadCanary(r) PROVE TypeOK' /\ RequestsSound'
  <2>1. replica' \in [Replicas -> [pc : {"down", "insert", "read", "up", "refused"},
                                   pepper : Peppers \cup {NoPepper}]]
    <3>1. ASSUME NEW pc \in {"read", "up", "refused"}, replica' = [replica EXCEPT ![r].pc = pc]
          PROVE  replica' \in [Replicas -> [pc : {"down", "insert", "read", "up", "refused"},
                                            pepper : Peppers \cup {NoPepper}]]
      BY <1>1, <3>1
    <3>2. \E pc \in {"read", "up", "refused"} : replica' = [replica EXCEPT ![r].pc = pc]
      BY <1>7 DEF InsertCanary, ReadCanary
    <3> QED  BY <3>1, <3>2
  <2>2. canary' \in Peppers \cup {NoPepper}
    BY <1>1, <1>7 DEF InsertCanary, ReadCanary, CanaryAfter
  <2> QED  BY <1>2, <1>7, <2>1, <2>2 DEF InsertCanary, ReadCanary, TypeOK, RequestsSound
<1>8. ASSUME NEW s \in Sessions, Logout(s) \/ SessionExpires(s) PROVE TypeOK' /\ RequestsSound'
  <2>1. session' \in [Sessions -> [state : {"live", "expired", "gone"}, owner : Users]]
    BY <1>1, <1>8 DEF Logout, SessionExpires
  <2>2. disturbed' \in 0 .. Disturbances
    BY <1>1, <1>8 DEF Logout, SessionExpires, Disturbs
  <2> QED  BY <1>2, <1>8, <2>1, <2>2 DEF Logout, SessionExpires, TypeOK, RequestsSound
<1>9. CASE UNCHANGED vars
  BY <1>9 DEF vars, TypeOK, RequestsSound
<1> QED  BY <1>4, <1>5, <1>6, <1>7, <1>8, <1>9 DEF Next, ReplicaStep

-----------------------------------------------------------------------------
(* Peppers.                                                                *)

LEMMA SamePeppers ==
    ASSUME OnePepper, UNCHANGED <<replica, canary, key>>
    PROVE  OnePepper'
BY DEF OnePepper

LEMMA PepperStep ==
    ASSUME TypeOK, RequestsSound, ServedByUp, OnePepper, [Next]_vars
    PROVE  OnePepper' /\ ServedByUp'
<1>1. /\ request \in [Requests -> Request]
      /\ key \in [Keys -> [state : {"none", "live", "revoked"}, owner : Users \cup {Nothing},
                           pepper : Peppers \cup {NoPepper}]]
      /\ replica \in [Replicas -> [pc : {"down", "insert", "read", "up", "refused"},
                                   pepper : Peppers \cup {NoPepper}]]
      /\ canary \in Peppers \cup {NoPepper} /\ NoPepper \notin Peppers
  BY AccessAssumption DEF TypeOK
<1>2. ASSUME NEW q \in Requests, RequestStep(q) PROVE OnePepper' /\ ServedByUp'
  <2>1. Proceeds(q)
    BY <1>2, StepProceeds DEF Only, ActsOn
  <2>2. ServedByUp'
    BY <1>1, <2>1 DEF Proceeds, ServedByUp
  <2>3. CASE key' = key
    <3>1. replica' = replica /\ canary' = canary
      BY <2>1 DEF Proceeds
    <3> QED  BY <2>2, <2>3, <3>1, SamePeppers
  <2>4. ASSUME NEW k \in Keys, Revokes(q, k) PROVE OnePepper'
    BY <1>1, <2>1, <2>4 DEF Proceeds, Revokes, OnePepper
  <2>5. ASSUME NEW k \in Keys, ActsOn(q), MakesKey(q, k) PROVE OnePepper'
    <3>1. request[q].at \in Replicas /\ replica[request[q].at].pc = "up"
      BY <2>5, Known DEF ActsOn, Sound, Going, ServedByUp
    <3>2. canary # NoPepper /\ replica[request[q].at].pepper = canary
      BY <3>1 DEF OnePepper
    <3>3. key'[k].pepper = canary /\ \A j \in Keys \ {k} : key'[j] = key[j]
      BY <1>1, <2>5, <3>2 DEF MakesKey
    <3> QED  BY <2>1, <3>2, <3>3 DEF Proceeds, OnePepper
  <2> QED
    BY <1>2, <2>2, <2>3, <2>4, <2>5, StepProceeds DEF Only, ChangesOther, EndsSession, data
<1>3. ASSUME NEW r \in Replicas, Crash(r) PROVE OnePepper' /\ ServedByUp'
  <2>1. replica'[r].pc = "down" /\ \A t \in Replicas \ {r} : replica'[t] = replica[t]
    BY <1>1, <1>3 DEF Crash
  <2>2. UNCHANGED <<canary, key>>
    BY <1>3 DEF Crash, data
  <2>3. OnePepper'
    BY <2>1, <2>2 DEF OnePepper
  <2>4. ServedByUp'
    BY <1>3, <2>1, CrashEnds, Known DEF ServedByUp, Sound
  <2> QED  BY <2>3, <2>4
<1>4. ASSUME NEW r \in Replicas, replica[r].pc # "up", UNCHANGED <<key, request>>,
             \A t \in Replicas \ {r} : replica'[t] = replica[t]
      PROVE  ServedByUp'
  <2>1. ASSUME NEW q \in Requests, Going(request[q]) PROVE replica'[request[q].at].pc = "up"
    BY <1>4, <2>1, Known DEF ServedByUp, Sound
  <2> QED  BY <1>4, <2>1 DEF ServedByUp
<1>5. ASSUME NEW r \in Replicas, NEW p \in Peppers, Configure(r, p) PROVE OnePepper' /\ ServedByUp'
  <2>1. /\ replica[r].pc = "down" /\ replica'[r].pc = "insert" /\ replica'[r].pepper = p
        /\ \A t \in Replicas \ {r} : replica'[t] = replica[t]
        /\ UNCHANGED <<canary, key, request>>
    BY <1>1, <1>5 DEF Configure, data
  <2> QED  BY <1>4, <2>1 DEF OnePepper
<1>6. ASSUME NEW r \in Replicas, InsertCanary(r) PROVE OnePepper' /\ ServedByUp'
  <2>1. /\ replica[r].pc = "insert" /\ replica'[r].pc = "read" /\ replica'[r].pepper = replica[r].pepper
        /\ \A t \in Replicas \ {r} : replica'[t] = replica[t]
        /\ UNCHANGED <<key, request>> /\ canary' = CanaryAfter(replica[r].pepper)
    BY <1>1, <1>6 DEF InsertCanary, data
  <2>2. canary' # NoPepper /\ (canary # NoPepper => canary' = canary)
    BY <1>1, <2>1 DEF CanaryAfter, OnePepper
  <2> QED  BY <1>4, <2>1, <2>2 DEF OnePepper
<1>7. ASSUME NEW r \in Replicas, ReadCanary(r) PROVE OnePepper' /\ ServedByUp'
  <2>1. /\ replica[r].pc = "read"
        /\ replica'[r].pc = IF canary = replica[r].pepper THEN "up" ELSE "refused"
        /\ replica'[r].pepper = replica[r].pepper
        /\ \A t \in Replicas \ {r} : replica'[t] = replica[t]
        /\ UNCHANGED <<key, request, canary>>
    BY <1>1, <1>7 DEF ReadCanary, data
  <2> QED  BY <1>4, <2>1 DEF OnePepper
<1>8. ASSUME UNCHANGED <<replica, canary, key, request>> PROVE OnePepper' /\ ServedByUp'
  BY <1>8 DEF OnePepper, ServedByUp
<1>9. ASSUME NEW s \in Sessions, Logout(s) \/ SessionExpires(s) PROVE OnePepper' /\ ServedByUp'
  BY <1>8, <1>9 DEF Logout, SessionExpires
<1>10. CASE UNCHANGED vars
  BY <1>8, <1>10 DEF vars
<1> QED  BY <1>2, <1>3, <1>5, <1>6, <1>7, <1>9, <1>10 DEF Next, ReplicaStep

-----------------------------------------------------------------------------
(* Revocations.                                                            *)

\* A step that leaves keys alone, and after which no more requests have
\* revoked one.
NoNewRevoker ==
    /\ UNCHANGED key
    /\ \A q \in Requests : request'[q].acted /\ request'[q].op = "revokeKey" =>
          request[q].acted /\ request[q].op = "revokeKey" /\ request'[q].on = request[q].on

LEMMA NoNewRevokerKeeps ==
    ASSUME RevokersTold, RevokedOnce, NoNewRevoker
    PROVE  RevokersTold' /\ RevokedOnce'
BY DEF RevokersTold, RevokedOnce, NoNewRevoker

LEMMA RevocationStep ==
    ASSUME TypeOK, RequestsSound, RevokersTold, RevokedOnce, [Next]_vars
    PROVE  RevokersTold' /\ RevokedOnce'
<1>1. /\ request \in [Requests -> Request]
      /\ key \in [Keys -> [state : {"none", "live", "revoked"}, owner : Users \cup {Nothing},
                           pepper : Peppers \cup {NoPepper}]]
  BY DEF TypeOK
<1>2. ASSUME NEW q \in Requests, RequestStep(q) PROVE RevokersTold' /\ RevokedOnce'
  <2>1. Proceeds(q)
    BY <1>2, StepProceeds DEF Only, ActsOn
  <2>2. \A p \in Requests \ {q} : request'[p] = request[p]
    BY <1>1, <2>1 DEF Proceeds
  <2>3. request[q].acted => request'[q].op = request[q].op /\ request'[q].on = request[q].on
    BY <2>1 DEF Proceeds
  <2>4. CASE Only(q)
    <3>1. key' = key /\ (request'[q].acted => request[q].acted)
      BY <2>4 DEF Only, data
    <3>2. NoNewRevoker
      BY <2>2, <2>3, <3>1 DEF NoNewRevoker
    <3> QED  BY <3>2, NoNewRevokerKeeps
  <2>5. CASE ActsOn(q) /\ request[q].op # "revokeKey" /\ key' = key
    <3>1. NoNewRevoker
      BY <2>2, <2>5 DEF NoNewRevoker, ActsOn
    <3> QED  BY <3>1, NoNewRevokerKeeps
  <2>6. ASSUME NEW k \in Keys, ActsOn(q), MakesKey(q, k) PROVE RevokersTold' /\ RevokedOnce'
    <3>1. /\ request'[q].op # "revokeKey" /\ key[k].state = "none"
          /\ \A j \in Keys \ {k} : key'[j] = key[j]
      BY <1>1, <2>6 DEF ActsOn, MakesKey
    <3>2. ASSUME NEW p \in Requests, request[p].acted, request[p].op = "revokeKey"
          PROVE  request[p].on \in Keys \ {k}
      BY <3>1, <3>2, Known DEF Sound, RevokersTold
    <3> QED  BY <2>2, <3>1, <3>2 DEF RevokersTold, RevokedOnce
  <2>7. ASSUME NEW k \in Keys, ActsOn(q), Revokes(q, k) PROVE RevokersTold' /\ RevokedOnce'
    <3>1. /\ request'[q].on = k /\ key[k].state = "live" /\ key'[k].state = "revoked"
          /\ \A j \in Keys \ {k} : key'[j] = key[j]
      BY <1>1, <2>7 DEF Revokes
    <3>2. ASSUME NEW p \in Requests, request[p].acted, request[p].op = "revokeKey"
          PROVE  request[p].on \in Keys \ {k}
      BY <3>1, <3>2, Known DEF Sound, RevokersTold
    <3> QED  BY <2>2, <3>1, <3>2 DEF RevokersTold, RevokedOnce
  <2> QED
    BY <1>2, <2>4, <2>5, <2>6, <2>7, StepProceeds DEF ChangesOther, EndsSession
<1>3. ASSUME NEW r \in Replicas, Crash(r) PROVE RevokersTold' /\ RevokedOnce'
  <2>1. NoNewRevoker
    BY <1>3, CrashEnds DEF NoNewRevoker, Crash, data
  <2> QED  BY <2>1, NoNewRevokerKeeps
<1>4. ASSUME UNCHANGED <<key, request>> PROVE RevokersTold' /\ RevokedOnce'
  BY <1>4, NoNewRevokerKeeps DEF NoNewRevoker
<1>5. ASSUME NEW r \in Replicas, NEW p \in Peppers, Configure(r, p) PROVE UNCHANGED <<key, request>>
  BY <1>5 DEF Configure, data
<1>6. ASSUME NEW r \in Replicas, InsertCanary(r) \/ ReadCanary(r) PROVE UNCHANGED <<key, request>>
  BY <1>6 DEF InsertCanary, ReadCanary, data
<1>7. ASSUME NEW s \in Sessions, Logout(s) \/ SessionExpires(s) PROVE UNCHANGED <<key, request>>
  BY <1>7 DEF Logout, SessionExpires
<1>8. CASE UNCHANGED vars
  BY <1>4, <1>8 DEF vars
<1> QED  BY <1>2, <1>3, <1>4, <1>5, <1>6, <1>7, <1>8 DEF Next, ReplicaStep

-----------------------------------------------------------------------------
(* Audit events.                                                           *)

LEMMA AuditStep ==
    ASSUME TypeOK, RequestsSound, AuditTrail, [Next]_vars
    PROVE  AuditTrail'
<1>1. request \in [Requests -> Request]
  BY DEF TypeOK
<1>2. ASSUME NEW q \in Requests, RequestStep(q) PROVE AuditTrail'
  <2>1. /\ Proceeds(q)
        /\ audit' = audit \/ (audit' = audit \cup {q} /\ request[q].acted)
    BY <1>2, StepProceeds DEF Only, ActsOn
  <2>2. \A p \in Requests \ {q} : request'[p] = request[p]
    BY <1>1, <2>1 DEF Proceeds
  <2>3. request[q].acted =>
           request'[q].acted /\ request'[q].op = request[q].op /\ request'[q].form = request[q].form
    BY <2>1 DEF Proceeds
  <2>4. ASSUME request'[q].form, request'[q].op \in AdminOp, request'[q].acted
        PROVE  q \in audit' \/ request'[q].pc \in {"back", "audit"} \/ request'[q].answer \in {"error", "dead"}
    <3>1. CASE request[q].acted
      BY <1>2, <2>3, <2>4, <3>1, StepProceeds
    <3>2. CASE ~request[q].acted
      <4>1. ActsOn(q)
        BY <1>2, <2>4, <3>2, StepProceeds DEF Only
      <4> QED  BY <2>4, <4>1 DEF ActsOn
    <3> QED  BY <3>1, <3>2
  <2>5. \A p \in audit' : (p = q /\ request[q].acted) \/ p \in audit
    BY <2>1
  <2>6. \A p \in audit' : request'[p].acted
    BY <2>2, <2>3, <2>5 DEF AuditTrail, TypeOK
  <2>7. audit \subseteq audit'
    BY <2>1
  <2>8. ASSUME NEW p \in Requests \ {q}, request'[p].form, request'[p].op \in AdminOp, request'[p].acted
        PROVE  p \in audit' \/ request'[p].pc \in {"back", "audit"} \/ request'[p].answer \in {"error", "dead"}
    BY <2>2, <2>7, <2>8 DEF AuditTrail
  <2> QED  BY <2>4, <2>6, <2>8 DEF AuditTrail
<1>3. ASSUME NEW r \in Replicas, Crash(r) PROVE AuditTrail'
  <2>1. audit' = audit /\ audit \subseteq Requests
    BY <1>3 DEF Crash, TypeOK
  <2> QED  BY <1>3, <2>1, CrashEnds DEF AuditTrail
<1>4. ASSUME UNCHANGED <<request, audit>> PROVE AuditTrail'
  BY <1>4 DEF AuditTrail
<1>5. ASSUME NEW r \in Replicas, NEW p \in Peppers, Configure(r, p) PROVE UNCHANGED <<request, audit>>
  BY <1>5 DEF Configure
<1>6. ASSUME NEW r \in Replicas, InsertCanary(r) \/ ReadCanary(r) PROVE UNCHANGED <<request, audit>>
  BY <1>6 DEF InsertCanary, ReadCanary
<1>7. ASSUME NEW s \in Sessions, Logout(s) \/ SessionExpires(s) PROVE UNCHANGED <<request, audit>>
  BY <1>7 DEF Logout, SessionExpires
<1>8. CASE UNCHANGED vars
  BY <1>4, <1>8 DEF vars
<1> QED  BY <1>2, <1>3, <1>4, <1>5, <1>6, <1>7, <1>8 DEF Next, ReplicaStep

-----------------------------------------------------------------------------
(* Authority.                                                              *)

\* A request comes past its last check only by that check, and acts only
\* then.
LEMMA PassedBy ==
    ASSUME TypeOK, RequestsSound, Next, NEW q \in Requests
    PROVE  /\ q \in Passed' => q \in Passed \/ Grants(q)
           /\ request'[q].acted => request[q].acted \/ q \in Passed
<1>1. request \in [Requests -> Request]
  BY DEF TypeOK
<1>2. ASSUME NEW p \in Requests, RequestStep(p)
      PROVE  /\ q \in Passed' => q \in Passed \/ Grants(q)
             /\ request'[q].acted => request[q].acted \/ q \in Passed
  <2>1. CASE p = q
    BY <1>2, <2>1, StepProceeds DEF Passed, Only, ActsOn
  <2>2. CASE p # q
    <3>1. request'[q] = request[q]
      BY <1>1, <1>2, <2>2, StepProceeds DEF Only, ActsOn, Proceeds
    <3> QED  BY <3>1 DEF Passed
  <2> QED  BY <2>1, <2>2
<1>3. ASSUME NEW r \in Replicas, Crash(r)
      PROVE  /\ q \in Passed' => q \in Passed
             /\ request'[q].acted => request[q].acted
  BY <1>3, CrashEnds DEF Passed, Going
<1>4. ASSUME NEW r \in Replicas, NEW p \in Peppers, Configure(r, p) PROVE UNCHANGED request
  BY <1>4 DEF Configure
<1>5. ASSUME NEW r \in Replicas, InsertCanary(r) \/ ReadCanary(r) PROVE UNCHANGED request
  BY <1>5 DEF InsertCanary, ReadCanary
<1>6. ASSUME NEW s \in Sessions, Logout(s) \/ SessionExpires(s) PROVE UNCHANGED request
  BY <1>6 DEF Logout, SessionExpires
<1>7. CASE UNCHANGED request
  BY <1>7 DEF Passed
<1> QED  BY <1>2, <1>3, <1>4, <1>5, <1>6, <1>7 DEF Next, ReplicaStep

\* What is authorised when it is let past is so when it has been.
LEMMA GrantedIsAuthorised ==
    ASSUME TypeOK, NEW q \in Requests, Grants(q)
    PROVE  Authorised(q)'
<1>1. /\ request'[q].with = request[q].with /\ request'[q].op = request[q].op
      /\ request'[q].at = request[q].at
  BY DEF Grants, At, TypeOK, Request
<1>2. UNCHANGED <<replica, status, session, key>> /\ Authorised(q)
  BY DEF Grants, data
<1>3. /\ Actor(q)' = Actor(q)
  BY <1>1, <1>2 DEF Actor
<1>4. /\ SessionIsGood(q)' <=> SessionIsGood(q)
      /\ IsAdmin(q)' <=> IsAdmin(q)
      /\ Resolves(q)' <=> Resolves(q)
  BY <1>1, <1>2, <1>3 DEF SessionIsGood, IsAdmin, Resolves
<1> QED  BY <1>1, <1>2, <1>4 DEF Authorised

LEMMA AuthorityStep ==
    ASSUME TypeOK, RequestsSound, Accounted, [Next]_vars
    PROVE  Accounted'
<1>1. CASE Next
  <2>1. overtaken' = (overtaken \cap Passed') \cup Deprived
    BY <1>1 DEF Next
  <2>2. ASSUME NEW q \in Requests, q \in Passed' PROVE Authorised(q)' \/ q \in overtaken'
    <3>1. CASE q \in Passed
      BY <2>1, <2>2, <3>1 DEF Accounted, Deprived
    <3>2. CASE Grants(q)
      BY <3>2, GrantedIsAuthorised
    <3> QED  BY <1>1, <2>2, <3>1, <3>2, PassedBy
  <2>3. Passed' \subseteq Requests
    BY DEF Passed
  <2> QED  BY <2>2, <2>3 DEF Accounted
<1>2. CASE UNCHANGED vars
  BY <1>2 DEF vars, Accounted, Passed, Authorised, SessionIsGood, Resolves, IsAdmin, Actor
<1> QED  BY <1>1, <1>2

-----------------------------------------------------------------------------
(* The theorems.                                                           *)

LEMMA InitInv == Init => Inv
<1> SUFFICES ASSUME Init PROVE Inv
  OBVIOUS
<1>1. \A q \in Requests : request[q] = NewRequest
  BY DEF Init
<1>2. request \in [Requests -> Request] /\ RequestsSound
  BY <1>1, NewOps DEF Init, RequestsSound
<1>3. /\ \A q \in Requests : request[q].pc = "idle" /\ ~request[q].acted /\ request[q].answer = "none"
      /\ audit = {}
  BY <1>1 DEF Init, NewRequest
<1>4. key \in [Keys -> [state : {"none", "live", "revoked"}, owner : Users \cup {Nothing},
                        pepper : Peppers \cup {NoPepper}]]
      /\ canary \in Peppers \cup {NoPepper}
      /\ \A k \in Keys : key[k].state # "none" => canary # NoPepper /\ key[k].pepper = canary
  <2>1. CASE canary = NoPepper /\ key = [k \in Keys |-> NoKey]
    BY <2>1 DEF NoKey
  <2>2. CASE /\ canary \in Peppers
             /\ key \in [Keys -> {NoKey} \cup [state : {"live"}, owner : Users, pepper : {canary}]]
    BY <2>2, AccessAssumption DEF NoKey
  <2> QED  BY <2>1, <2>2 DEF Init
<1>5. replica \in [Replicas -> [pc : {"down", "insert", "read", "up", "refused"},
                                pepper : Peppers \cup {NoPepper}]]
      /\ \A r \in Replicas : replica[r].pc = "down"
  BY DEF Init
<1>6. /\ status \in [Users -> {"active", "disabled"}]
      /\ session \in [Sessions -> [state : {"live", "expired", "gone"}, owner : Users]]
  BY DEF Init
<1>7. TypeOK
  BY <1>2, <1>3, <1>4, <1>5, <1>6, AccessAssumption DEF Init, TypeOK
<1>8. ServedByUp /\ RevokersTold /\ RevokedOnce /\ AuditTrail
  BY <1>3 DEF ServedByUp, Going, RevokersTold, RevokedOnce, AuditTrail
<1>9. OnePepper
  BY <1>4, <1>5 DEF OnePepper
<1>10. Accounted
  BY <1>3 DEF Accounted, Passed
<1> QED  BY <1>2, <1>7, <1>8, <1>9, <1>10 DEF Inv

LEMMA StepInv == Inv /\ [Next]_vars => Inv'
BY TypedStep, PepperStep, RevocationStep, AuditStep, AuthorityStep DEF Inv

LEMMA AlwaysInv == Spec => []Inv
BY InitInv, StepInv, PTL DEF Spec

\* However boots with different peppers race, with each other and with the
\* crashes of replicas, every replica that serves has the canary's pepper and
\* so has every key ever made, and of racing revocations of a key one at most
\* is told that it revoked it (pepper-canary.ts, api-key-routes.ts).
THEOREM AccessSafe == Spec => []AccessInv
<1>1. Inv => AccessInv
  BY DEF Inv, OnePepper, AccessInv, KeysWorkEverywhere
<1> QED  BY <1>1, AlwaysInv, PTL

\* An admin's change made through a form has its audit event when it is
\* answered, unless an error or a crash came between the two, and no event
\* tells of a change that was not made (admin-user-update-route.ts).
THEOREM AuditTrailKept == Spec => []AuditTrail
<1>1. Inv => AuditTrail
  BY DEF Inv
<1> QED  BY <1>1, AlwaysInv, PTL

\* Whoever acts is authorised at that moment, or lost his authority after the
\* last check before the effect: no check is left out, and none is made on
\* what an earlier one had read (auth-middleware.ts, role-guard.ts).
THEOREM AuthorityIsFresh == Spec => NoStaleAuthority
<1>1. ASSUME Inv, [Next]_vars
      PROVE  [\A q \in Requests :
                request'[q].acted /\ ~request[q].acted => Authorised(q) \/ q \in overtaken]_vars
  <2>1. CASE Next
    BY <1>1, <2>1, PassedBy DEF Inv, Accounted
  <2>2. CASE UNCHANGED vars
    BY <2>2
  <2> QED  BY <1>1, <2>1, <2>2
<1> QED  BY <1>1, AlwaysInv, PTL DEF Spec, NoStaleAuthority

=============================================================================
