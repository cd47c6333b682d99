------------------------------- MODULE SignIn -------------------------------
(***************************************************************************)
(* How a person gets in: an admin's invite is redeemed for a user and a    *)
(* session, and a user signs in with a password.  Both hash with argon2    *)
(* behind a semaphore of their own, in one API process that may restart.   *)
(* The invite, the users and the sign-in limits outlive the process.       *)
(*                                                                         *)
(* Each database or Redis call is a step, as is each hash.  The sliding    *)
(* windows of the rate limit are counters from which time takes entries.   *)
(***************************************************************************)
EXTENDS Naturals, Sequences, FiniteSets

CONSTANTS
    Logins,        \* POST /auth/login requests
    Redeems,       \* POST /invites/:token requests, for one token or for others
    Emails,
    NoEmail,       \* an invite that is bound to nobody, or consumed by nobody
    MaxConcurrent, \* ARGON2_MAX_CONCURRENCY
    IpLimit,       \* RATE_LIMIT_IP (all requests come from one address)
    AccountLimit,  \* RATE_LIMIT_ACCOUNT
    Faults,        \* bound: calls that throw, commits reported as errors, restarts
    MaxRequests    \* bound: requests made, of either kind

ASSUME SignInAssumption ==
    /\ NoEmail \notin Emails
    /\ {MaxConcurrent, IpLimit, AccountLimit} \subseteq Nat \ {0}
    /\ {Faults, MaxRequests} \subseteq Nat
    /\ IsFiniteSet(Logins) /\ IsFiniteSet(Redeems)

VARIABLES
    user,      \* User.status of each email, "none" without a row
    invite,    \* the Invite row
    invited,   \* the users the invite was redeemed for
    window,    \* entries of the rate-limit sets
    dummy,     \* dummyHashPromise
    sem,       \* the two semaphores
    login, redeem,   \* the requests
    faults     \* faults suffered so far

vars == <<user, invite, invited, window, dummy, sem, login, redeem, faults>>

-----------------------------------------------------------------------------

Invite == [row : {"none", "open", "revoked"}, bound : Emails \cup {NoEmail},
           consumedAt : {"null", "set"}, consumedBy : Emails \cup {NoEmail}, expired : BOOLEAN]
Found == {"unread", "none", "active", "disabled"}
Task == {"new", "waiting", "running", "done", "rejected", "lost"}
Login == [pc : {"idle", "ip", "account", "find", "dummy", "hash", "reset", "create", "end"},
          task : Task, email : Emails \cup {NoEmail}, right : BOOLEAN, found : Found,
          counted : BOOLEAN, answer : {"none", "limited", "denied", "in", "error", "dead"}]
Redeem == [pc : {"idle", "form", "claim", "probe", "fetch", "unbind", "hash", "commit",
                 "revert", "end"},
           task : Task, email : Emails \cup {NoEmail}, claimed : BOOLEAN,
           threw : BOOLEAN,  \* a call failed where no catch block gives the claim back
           answer : {"none", "missing", "gone", "mismatch", "taken", "in", "error", "dead"}]

TypeOK ==
    /\ user \in [Emails -> {"none", "active", "disabled"}]
    /\ invite \in Invite
    /\ invited \subseteq Emails
    /\ window \in [ip : 0 .. IpLimit, account : [Emails -> 0 .. AccountLimit]]
    /\ dummy \in {"unset", "hashing", "set", "failed"}
    /\ DOMAIN sem = {"login", "redeem"}
    /\ \A k \in DOMAIN sem : sem[k].active \in 0 .. MaxConcurrent
    /\ login \in [Logins -> Login]
    /\ redeem \in [Redeems -> Redeem]
    /\ faults \in [throws : 0 .. Faults, lost : 0 .. Faults, restarts : 0 .. Faults]

LoginSem == INSTANCE Argon2Semaphore WITH
    Tasks <- Logins, sem <- sem.login, phase <- [l \in Logins |-> login[l].task]
RedeemSem == INSTANCE Argon2Semaphore WITH
    Tasks <- Redeems, sem <- sem.redeem, phase <- [r \in Redeems |-> redeem[r].task]

NewLogin == [pc |-> "idle", task |-> "new", email |-> NoEmail, right |-> FALSE, found |-> "unread",
             counted |-> FALSE, answer |-> "none"]
NewRedeem == [pc |-> "idle", task |-> "new", email |-> NoEmail, claimed |-> FALSE,
              threw |-> FALSE, answer |-> "none"]
NoInvite == [row |-> "none", bound |-> NoEmail, consumedAt |-> "null",
             consumedBy |-> NoEmail, expired |-> FALSE]

Init ==
    /\ user \in [Emails -> {"none", "active"}]
    /\ invite = NoInvite
    /\ invited = {}
    /\ window = [ip |-> 0, account |-> [e \in Emails |-> 0]]
    /\ dummy = "unset"
    /\ sem = [login |-> LoginSem!NoPermits, redeem |-> LoginSem!NoPermits]
    /\ login = [l \in Logins |-> NewLogin]
    /\ redeem = [r \in Redeems |-> NewRedeem]
    /\ faults = [throws |-> 0, lost |-> 0, restarts |-> 0]

-----------------------------------------------------------------------------
(* How a request goes on, and how it ends.                                 *)

At(r, pc) == [r EXCEPT !.pc = pc]
Ends(r, answer) == [r EXCEPT !.pc = "end", !.answer = answer]

\* run() admits the request to its hash or makes it wait.
Admitted(r, s) == [r EXCEPT !.task = IF LoginSem!HasPermit(s) THEN "running" ELSE "waiting"]

\* A release() that forgets the first waiter's task.
NotHandedOn(requests, s) == requests

\* release() starts the first waiter's hash.
HandedOn(requests, s) ==
    IF s.waiters = <<>> THEN requests ELSE [requests EXCEPT ![Head(s.waiters)].task = "running"]

\* The hash has settled, or the timer has given up on it.
Hashed(r) == [r EXCEPT !.task = "done"]
GivenUp(r) == [Ends(r, "error") EXCEPT !.task = "rejected"]

\* The bounds on the faults and the requests of a behaviour.
MayFail == faults.throws + faults.lost + faults.restarts < Faults
MayCome ==
    Cardinality({l \in Logins : login[l].pc # "idle"})
      + Cardinality({r \in Redeems : redeem[r].pc # "idle"}) < MaxRequests

-----------------------------------------------------------------------------
(* POST /api/v1/auth/login                                                 *)

LoginStart(l, e) ==
    /\ MayCome
    /\ login[l].pc = "idle"
    /\ \E right \in BOOLEAN :
           login' = [login EXCEPT ![l] = [At(@, "ip") EXCEPT !.email = e, !.right = right]]
    /\ UNCHANGED <<user, invite, invited, window, dummy, sem, redeem, faults>>

\* The script's test, made and counted in one step.
BelowLimit(count, limit) == count < limit

LimitIp(l) ==
    /\ login[l].pc = "ip"
    /\ \/ /\ BelowLimit(window.ip, IpLimit)
          /\ window' = [window EXCEPT !.ip = @ + 1]
          /\ login' = [login EXCEPT ![l] = At(@, "account")]
       \/ /\ ~BelowLimit(window.ip, IpLimit)
          /\ login' = [login EXCEPT ![l] = Ends(@, "limited")]
          /\ UNCHANGED window
    /\ UNCHANGED <<user, invite, invited, dummy, sem, redeem, faults>>

LimitAccount(l) ==
    LET count == window.account[login[l].email] IN
    /\ login[l].pc = "account"
    /\ \/ /\ BelowLimit(count, AccountLimit)
          /\ window' = [window EXCEPT !.account[login[l].email] = @ + 1]
          /\ login' = [login EXCEPT ![l] = [At(@, "find") EXCEPT !.counted = TRUE]]
       \/ /\ ~BelowLimit(count, AccountLimit)
          /\ login' = [login EXCEPT ![l] = Ends(@, "limited")]
          /\ UNCHANGED window
    /\ UNCHANGED <<user, invite, invited, dummy, sem, redeem, faults>>

\* findUnique; without a row the dummy hash is verified instead, and the
\* first such request since the start computes it, outside the semaphore.
\* Its promise is kept however it settles: after one that was rejected,
\* every such request fails until the process restarts.
AfterFind(r, found) ==
    CASE found # "none" \/ dummy = "set" -> At(r, "hash")
      [] found = "none" /\ dummy = "failed" -> Ends(r, "error")
      [] OTHER -> At(r, "dummy")

Find(l) ==
    LET found == user[login[l].email] IN
    /\ login[l].pc = "find"
    /\ login' = [login EXCEPT ![l] = AfterFind([@ EXCEPT !.found = found], found)]
    /\ dummy' = IF found = "none" /\ dummy = "unset" THEN "hashing" ELSE dummy
    /\ UNCHANGED <<user, invite, invited, window, sem, redeem, faults>>

DummyReady ==
    /\ dummy = "hashing"
    /\ dummy' = "set"
    /\ login' = [l \in Logins |-> IF login[l].pc = "dummy" THEN At(login[l], "hash") ELSE login[l]]
    /\ UNCHANGED <<user, invite, invited, window, sem, redeem, faults>>

DummyFails ==
    /\ dummy = "hashing"
    /\ MayFail
    /\ faults' = [faults EXCEPT !.throws = @ + 1]
    /\ dummy' = "failed"
    /\ login' = [l \in Logins |->
           IF login[l].pc = "dummy" THEN Ends(login[l], "error") ELSE login[l]]
    /\ UNCHANGED <<user, invite, invited, window, sem, redeem>>

LoginEnter(l) ==
    /\ login[l].pc = "hash"
    /\ login[l].task = "new"
    /\ sem' = [sem EXCEPT !.login = LoginSem!Enter(@, l)]
    /\ login' = [login EXCEPT ![l] = Admitted(@, sem.login)]
    /\ UNCHANGED <<user, invite, invited, window, dummy, redeem, faults>>

\* verifyPassword settles: a wrong password, an unknown email and a user
\* that is not active get the same answer.
Verified(r) == r.right /\ r.found = "active"

\* A handler that resets the counter before it looks at the result.
ResetAlways(r) == At(r, "reset")

AfterVerify(r) == IF Verified(r) THEN At(r, "reset") ELSE Ends(r, "denied")

LoginVerified(l) ==
    /\ login[l].task = "running"
    /\ sem' = [sem EXCEPT !.login = LoginSem!Leave(@)]
    /\ login' = [HandedOn(login, sem.login) EXCEPT ![l] =
           AfterVerify(Hashed(@))]
    /\ UNCHANGED <<user, invite, invited, window, dummy, redeem, faults>>

LoginTimesOut(l) ==
    /\ login[l].task = "waiting"
    /\ \E i \in DOMAIN sem.login.waiters :
        /\ sem.login.waiters[i] = l
        /\ sem' = [sem EXCEPT !.login = LoginSem!Spliced(@, i)]
    /\ login' = [login EXCEPT ![l] = GivenUp(@)]
    /\ UNCHANGED <<user, invite, invited, window, dummy, redeem, faults>>

\* DEL of the account's set, whatever other requests are counted in it.
ResetAccount(l) ==
    /\ login[l].pc = "reset"
    /\ window' = [window EXCEPT !.account[login[l].email] = 0]
    /\ login' = [login EXCEPT ![l] = At(@, "create")]
    /\ UNCHANGED <<user, invite, invited, dummy, sem, redeem, faults>>

\* session.create for the user as it was found.
CreateSession(l) ==
    /\ login[l].pc = "create"
    /\ login' = [login EXCEPT ![l] = Ends(@, "in")]
    /\ UNCHANGED <<user, invite, invited, window, dummy, sem, redeem, faults>>

\* Time takes the oldest entry out of a window.
IpWindowSlides ==
    /\ window.ip > 0
    /\ window' = [window EXCEPT !.ip = @ - 1]
    /\ UNCHANGED <<user, invite, invited, dummy, sem, login, redeem, faults>>

\* A request's entry: it leaves the set, or the set was deleted before.
AccountWindowSlides(l) ==
    /\ login[l].counted
    /\ window' = [window EXCEPT !.account[login[l].email] = IF @ = 0 THEN 0 ELSE @ - 1]
    /\ login' = [login EXCEPT ![l].counted = FALSE]
    /\ UNCHANGED <<user, invite, invited, dummy, sem, redeem, faults>>

-----------------------------------------------------------------------------
(* The admin's side of the invite.                                         *)

AdminInvites ==
    /\ invite.row = "none"
    /\ \E e \in Emails \cup {NoEmail} :
           invite' = [NoInvite EXCEPT !.row = "open", !.bound = e]
    /\ UNCHANGED <<user, invited, window, dummy, sem, login, redeem, faults>>

InviteExpires ==
    /\ invite.row = "open"
    /\ ~invite.expired
    /\ invite' = [invite EXCEPT !.expired = TRUE]
    /\ UNCHANGED <<user, invited, window, dummy, sem, login, redeem, faults>>

\* deleteMany where consumedAt is null.
Revocable(i) == i.consumedAt = "null"

AdminRevokes ==
    /\ invite.row = "open"
    /\ Revocable(invite)
    /\ invite' = [invite EXCEPT !.row = "revoked"]
    /\ UNCHANGED <<user, invited, window, dummy, sem, login, redeem, faults>>

Disable(e) ==
    /\ user[e] = "active"
    /\ user' = [user EXCEPT ![e] = "disabled"]
    /\ UNCHANGED <<invite, invited, window, dummy, sem, login, redeem, faults>>

-----------------------------------------------------------------------------
(* GET and POST /invites/:token                                            *)

\* The token's row as a reader sees it.
Open(i) == i.row = "open" /\ i.consumedAt = "null" /\ ~i.expired
Refusal(i) == IF i.row = "open" THEN "gone" ELSE "missing"

\* The form, or a 404 or 410 page; the form is posted later.
GetForm(r) ==
    /\ MayCome
    /\ redeem[r].pc = "idle"
    /\ invite.row # "none"
    /\ redeem' = [redeem EXCEPT ![r] =
           IF Open(invite) THEN At(@, "form") ELSE Ends(@, Refusal(invite))]
    /\ UNCHANGED <<user, invite, invited, window, dummy, sem, login, faults>>

PostForm(r, e) ==
    /\ redeem[r].pc = "form"
    /\ redeem' = [redeem EXCEPT ![r] = [At(@, "claim") EXCEPT !.email = e]]
    /\ UNCHANGED <<user, invite, invited, window, dummy, sem, login, faults>>

\* A claim that does not ask whether somebody else has claimed.
ClaimableTwice(i) == i.row = "open" /\ ~i.expired

\* updateMany where consumedAt is null and expiresAt lies ahead.
Claimable(i) == Open(i)

Claim(r) ==
    /\ redeem[r].pc = "claim"
    /\ \/ /\ Claimable(invite)
          /\ invite' = [invite EXCEPT !.consumedAt = "set"]
          /\ redeem' = [redeem EXCEPT ![r] = [At(@, "fetch") EXCEPT !.claimed = TRUE]]
       \/ /\ ~Claimable(invite)
          /\ redeem' = [redeem EXCEPT ![r] = At(@, "probe")]
          /\ UNCHANGED invite
    /\ UNCHANGED <<user, invited, window, dummy, sem, login, faults>>

Probe(r) ==
    /\ redeem[r].pc = "probe"
    /\ redeem' = [redeem EXCEPT ![r] = Ends(@, Refusal(invite))]
    /\ UNCHANGED <<user, invite, invited, window, dummy, sem, login, faults>>

AfterMismatch(r) == At(r, "unbind")

BoundElsewhere(e) == invite.bound \notin {NoEmail, e}

Fetch(r) ==
    /\ redeem[r].pc = "fetch"
    /\ redeem' = [redeem EXCEPT ![r] =
           IF invite.row # "open" THEN Ends(@, "error")
           ELSE IF BoundElsewhere(@.email) THEN AfterMismatch(@)
           ELSE At(@, "hash")]
    /\ UNCHANGED <<user, invite, invited, window, dummy, sem, login, faults>>

\* The claim is given back by the row's id, whoever holds it.
GivesBack(i) == [i EXCEPT !.consumedAt = "null"]

Unbind(r) ==
    /\ redeem[r].pc = "unbind"
    /\ invite' = GivesBack(invite)
    /\ redeem' = [redeem EXCEPT ![r] = [Ends(@, "mismatch") EXCEPT !.claimed = FALSE]]
    /\ UNCHANGED <<user, invited, window, dummy, sem, login, faults>>

RedeemEnter(r) ==
    /\ redeem[r].pc = "hash"
    /\ redeem[r].task = "new"
    /\ sem' = [sem EXCEPT !.redeem = RedeemSem!Enter(@, r)]
    /\ redeem' = [redeem EXCEPT ![r] = Admitted(@, sem.redeem)]
    /\ UNCHANGED <<user, invite, invited, window, dummy, login, faults>>

\* A redemption of another invite comes to the same semaphore; its own row
\* is left out, and so it has no email.
RedeemElsewhere(r) ==
    /\ MayCome
    /\ redeem[r].pc = "idle"
    /\ redeem' = [redeem EXCEPT ![r] = At(@, "hash")]
    /\ UNCHANGED <<user, invite, invited, window, dummy, sem, login, faults>>

RedeemHashed(r) ==
    /\ redeem[r].task = "running"
    /\ redeem[r].email # NoEmail
    /\ sem' = [sem EXCEPT !.redeem = RedeemSem!Leave(@)]
    /\ redeem' = [HandedOn(redeem, sem.redeem) EXCEPT ![r] = At(Hashed(@), "commit")]
    /\ UNCHANGED <<user, invite, invited, window, dummy, login, faults>>

\* Its transaction creates a user, or fails.
HashedElsewhere(r) ==
    /\ redeem[r].task = "running"
    /\ redeem[r].email = NoEmail
    /\ sem' = [sem EXCEPT !.redeem = RedeemSem!Leave(@)]
    /\ redeem' = [HandedOn(redeem, sem.redeem) EXCEPT ![r] = Ends(Hashed(@), "in")]
    /\ \/ \E e \in Emails : user[e] = "none" /\ user' = [user EXCEPT ![e] = "active"]
       \/ UNCHANGED user
    /\ UNCHANGED <<invite, invited, window, dummy, login, faults>>

\* An error that leaves the handler outside the try block: nothing is reverted.
Threw(r) == [Ends(r, "error") EXCEPT !.threw = TRUE]

\* hashPassword rejects.  The permit goes back, and the error leaves the
\* handler between the claim and the try block.
RedeemHashFails(r) ==
    /\ redeem[r].task = "running"
    /\ MayFail
    /\ faults' = [faults EXCEPT !.throws = @ + 1]
    /\ sem' = [sem EXCEPT !.redeem = RedeemSem!Leave(@)]
    /\ redeem' = [HandedOn(redeem, sem.redeem) EXCEPT ![r] = Threw(Hashed(@))]
    /\ UNCHANGED <<user, invite, invited, window, dummy, login>>

\* The timer's error leaves the handler between the claim and the try block.
RedeemTimesOut(r) ==
    /\ redeem[r].task = "waiting"
    /\ \E i \in DOMAIN sem.redeem.waiters :
        /\ sem.redeem.waiters[i] = r
        /\ sem' = [sem EXCEPT !.redeem = RedeemSem!Spliced(@, i)]
    /\ redeem' = [redeem EXCEPT ![r] = GivenUp(@)]
    /\ UNCHANGED <<user, invite, invited, window, dummy, login, faults>>

\* The transaction: the user, consumedById and the session, or none of them.
Commits(r) ==
    /\ invite.row = "open"
    /\ user[redeem[r].email] = "none"
    /\ user' = [user EXCEPT ![redeem[r].email] = "active"]
    /\ invite' = [invite EXCEPT !.consumedBy = redeem[r].email]
    /\ invited' = invited \cup {redeem[r].email}

\* A transaction error that is answered without giving the claim back.
FailureKept(r, answer) == Ends(r, answer)

\* The catch block reverts first and answers then.
AfterFailure(r, answer) == [At(r, "revert") EXCEPT !.answer = answer]

Commit(r) ==
    /\ redeem[r].pc = "commit"
    /\ \/ /\ Commits(r)
          /\ redeem' = [redeem EXCEPT ![r] = Ends(@, "in")]
       \/ /\ user[redeem[r].email] # "none"
          /\ redeem' = [redeem EXCEPT ![r] = AfterFailure(@, "taken")]
          /\ UNCHANGED <<user, invite, invited>>
    /\ UNCHANGED <<window, dummy, sem, login, faults>>

\* The database commits, and the answer to COMMIT does not arrive.
CommitUnheard(r) ==
    /\ redeem[r].pc = "commit"
    /\ MayFail
    /\ faults' = [faults EXCEPT !.lost = @ + 1]
    /\ Commits(r)
    /\ redeem' = [redeem EXCEPT ![r] = AfterFailure(@, "error")]
    /\ UNCHANGED <<window, dummy, sem, login>>

Revert(r) ==
    /\ redeem[r].pc = "revert"
    /\ invite' = GivesBack(invite)
    /\ redeem' = [redeem EXCEPT ![r] = [At(@, "end") EXCEPT !.claimed = FALSE]]
    /\ UNCHANGED <<user, invited, window, dummy, sem, login, faults>>

-----------------------------------------------------------------------------
(* Faults.                                                                 *)

\* A call throws and changes nothing: the request ends in a 500.
LoginThrows(l) ==
    /\ login[l].pc \in {"ip", "account", "find", "reset", "create"}
    /\ MayFail
    /\ faults' = [faults EXCEPT !.throws = @ + 1]
    /\ login' = [login EXCEPT ![l] = Ends(@, "error")]
    /\ UNCHANGED <<user, invite, invited, window, dummy, sem, redeem>>

\* Only the transaction is inside the try block, and only its revert's
\* error is caught and logged; the answer is then the first error's.
AfterThrow(r) ==
    CASE r.pc = "commit" -> AfterFailure(r, "error")
      [] r.pc = "revert" -> [At(r, "end") EXCEPT !.threw = TRUE]
      [] OTHER -> Threw(r)

RedeemThrows(r) ==
    /\ redeem[r].pc \in {"claim", "probe", "fetch", "unbind", "commit", "revert"}
    /\ MayFail
    /\ faults' = [faults EXCEPT !.throws = @ + 1]
    /\ redeem' = [redeem EXCEPT ![r] = AfterThrow(@)]
    /\ UNCHANGED <<user, invite, invited, window, dummy, sem, login>>

\* A request in progress dies with the process; a form waits in its browser.
Dead(r) ==
    IF r.pc \in {"idle", "form", "end"} THEN r
    ELSE [Ends(r, "dead") EXCEPT !.task = IF @ = "done" THEN @ ELSE "lost"]

RestartApi ==
    /\ MayFail
    /\ faults' = [faults EXCEPT !.restarts = @ + 1]
    /\ sem' = [login |-> LoginSem!NoPermits, redeem |-> LoginSem!NoPermits]
    /\ dummy' = "unset"
    /\ login' = [l \in Logins |-> Dead(login[l])]
    /\ redeem' = [r \in Redeems |-> Dead(redeem[r])]
    /\ UNCHANGED <<user, invite, invited, window>>

-----------------------------------------------------------------------------

LoginStep(l) ==
    \/ \E e \in Emails : LoginStart(l, e)
    \/ LimitIp(l)
    \/ LimitAccount(l)
    \/ Find(l)
    \/ LoginEnter(l)
    \/ LoginVerified(l)
    \/ LoginTimesOut(l)
    \/ ResetAccount(l)
    \/ CreateSession(l)
    \/ AccountWindowSlides(l)
    \/ LoginThrows(l)

RedeemStep(r) ==
    \/ GetForm(r)
    \/ \E e \in Emails : PostForm(r, e)
    \/ Claim(r)
    \/ Probe(r)
    \/ Fetch(r)
    \/ Unbind(r)
    \/ RedeemElsewhere(r)
    \/ RedeemEnter(r)
    \/ RedeemHashed(r)
    \/ RedeemHashFails(r)
    \/ HashedElsewhere(r)
    \/ RedeemTimesOut(r)
    \/ Commit(r)
    \/ CommitUnheard(r)
    \/ Revert(r)
    \/ RedeemThrows(r)

Next ==
    \/ \E l \in Logins : LoginStep(l)
    \/ \E r \in Redeems : RedeemStep(r)
    \/ DummyReady
    \/ DummyFails
    \/ IpWindowSlides
    \/ AdminInvites
    \/ InviteExpires
    \/ AdminRevokes
    \/ \E e \in Emails : Disable(e)
    \/ RestartApi

Spec == Init /\ [][Next]_vars

-----------------------------------------------------------------------------
(* Properties.                                                             *)

\* Requests use the two semaphores as Argon2Semaphore says: each hash runs
\* once, under a permit that comes back however the hash or the wait ends.
ImplementsSemaphores == LoginSem!Spec /\ RedeemSem!Spec

\* As long as no password for an account was right, at most AccountLimit
\* requests of one window reach argon2 for it, however many run at once
\* (login-routes.ts, "5/15min Account"; the count is made by one script).
GuessesBounded ==
    \A e \in Emails :
        (\A l \in Logins : login[l].email = e /\ login[l].task = "done" => ~Verified(login[l]))
        => Cardinality({l \in Logins : login[l].email = e /\ login[l].counted}) <= AccountLimit

\* While a redeem works on its claim nobody else has one and the row cannot
\* be revoked under it (invite-redeem-page.ts, "two racing POSTs cannot both
\* observe consumedAt=null", and the vanished invite "should not happen").
Working(r) == redeem[r].claimed /\ redeem[r].pc # "end"
ClaimIsExclusive ==
    \A r \in Redeems : Working(r) =>
        /\ invite.row = "open" /\ invite.consumedAt = "set"
        /\ \A q \in Redeems : Working(q) => q = r

\* One invite makes one user.  Only a commit whose answer was lost, which
\* the handler takes for a failure and reverts, lets it make another.
OneUserPerInvite == Cardinality(invited) <= 1 + faults.lost

\* A redeemed invite stays consumed and names its user: no late revert of
\* another request reopens it.
RedeemedStaysRedeemed ==
    invited # {} /\ faults.lost = 0 => invite.consumedAt = "set" /\ invite.consumedBy \in invited

\* What two redemptions, a revocation and an expiry of one invite must never
\* bring about, whatever the awaits between claim, hash and transaction let
\* in (invite-redeem-page.ts:105-113, the conditional updateMany as a claim).
SignInInv ==
    /\ TypeOK
    /\ ClaimIsExclusive
    /\ OneUserPerInvite
    /\ RedeemedStaysRedeemed

\* Nothing of this request's could give its claim back: its wait timed out,
\* the process died, or a call failed outside the try block (the hash
\* among them) or was the revert itself.
CutOff(r) == redeem[r].task = "rejected" \/ redeem[r].answer = "dead" \/ redeem[r].threw

\* A claim that made no user is given back by the request that made it,
\* unless this very request is still at work or was cut off, which the other
\* requests' faults do not excuse.  A wrong or taken email and a failed
\* transaction never lock the recipient out (invite-redeem-page.ts:133 and
\* 179, "so the legitimate recipient can retry").
ClaimsComeBack ==
    invite.consumedAt = "set" /\ invite.consumedBy = NoEmail =>
        \E r \in Redeems : redeem[r].claimed /\ (redeem[r].pc # "end" \/ CutOff(r))

=============================================================================
