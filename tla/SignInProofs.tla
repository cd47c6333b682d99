---------------------------- MODULE SignInProofs ----------------------------
(***************************************************************************)
(* Proofs about SignIn, for any number of requests, emails and permits,    *)
(* any limits and any number of faults.                                    *)
(*                                                                         *)
(* The route: what a request's program counter says of it (LoginSound,     *)
(* RedeemSound) makes every step one of Argon2Semaphore's or none, so that *)
(* the queues keep that module's invariant; claims, users and counted      *)
(* requests are then followed over the steps.                              *)
(***************************************************************************)
EXTENDS SignIn, FiniteSetTheorems, TLAPS

LoginQueue == INSTANCE Argon2SemaphoreProofs WITH
    Tasks <- Logins, sem <- sem.login, phase <- [l \in Logins |-> login[l].task]
RedeemQueue == INSTANCE Argon2SemaphoreProofs WITH
    Tasks <- Redeems, sem <- sem.redeem, phase <- [r \in Redeems |-> redeem[r].task]

-----------------------------------------------------------------------------
(* The inductive invariant.                                                *)

LoginTyped ==
    /\ window \in [ip : 0 .. IpLimit, account : [Emails -> 0 .. AccountLimit]]
    /\ dummy \in {"unset", "hashing", "set", "failed"}
    /\ login \in [Logins -> Login]

RedeemTyped ==
    /\ user \in [Emails -> {"none", "active", "disabled"}]
    /\ invite \in Invite
    /\ invited \subseteq Emails
    /\ redeem \in [Redeems -> Redeem]

SharedTyped ==
    /\ DOMAIN sem = {"login", "redeem"}
    /\ faults \in [throws : 0 .. Faults, lost : 0 .. Faults, restarts : 0 .. Faults]

\* Each semaphore and the requests at it.
Queues == LoginQueue!Inv /\ RedeemQueue!Inv

\* A login is hashed before its password can be right, and only then goes on
\* to the session; it is counted once it is past the account's limit.
LoginSound(r) ==
    /\ r.pc = "idle" => r.task = "new" /\ ~r.counted
    /\ r.pc # "idle" => r.email \in Emails
    /\ r.pc \in {"ip", "account"} => ~r.counted
    /\ r.task = "new" => r.pc \notin {"reset", "create"}
    /\ r.task \in {"waiting", "running"} => r.pc = "hash"
    /\ r.task = "done" => r.pc \in {"reset", "create", "end"}
    /\ r.task \in {"rejected", "lost"} => r.pc = "end"
    /\ r.pc \in {"reset", "create"} => Verified(r)

\* A redemption that works on this invite has an email and the claim.
RedeemSound(r) ==
    /\ r.pc = "idle" => r.task = "new" /\ r.email = NoEmail
    /\ r.pc = "form" => r.email = NoEmail
    /\ r.pc \in {"claim", "probe", "fetch", "unbind", "commit", "revert"} => r.email \in Emails
    /\ r.claimed => r.pc \in {"fetch", "unbind", "hash", "commit", "revert", "end"} /\ r.email \in Emails
    /\ r.pc \in {"fetch", "unbind", "commit", "revert"} => r.claimed
    /\ r.pc = "hash" /\ r.email # NoEmail => r.claimed
    /\ r.task = "new" => r.pc \notin {"commit", "revert"}
    /\ r.task \in {"waiting", "running"} => r.pc = "hash"
    /\ r.task = "done" => r.pc \in {"commit", "revert", "end"}
    /\ r.task \in {"rejected", "lost"} => r.pc = "end"

LoginsSound == \A l \in Logins : LoginSound(login[l])
RedeemsSound == \A r \in Redeems : RedeemSound(redeem[r])

\* Whoever claimed holds an open, consumed row, and is alone in that.
Claims ==
    /\ \A r \in Redeems : redeem[r].claimed => invite.row = "open" /\ invite.consumedAt = "set"
    /\ \A q, r \in Redeems : redeem[q].claimed /\ redeem[r].claimed => q = r
    /\ invite.consumedAt = "set" => \E r \in Redeems : redeem[r].claimed

\* A claim that outlives its request made a user, or was cut off.
ClaimsEnd ==
    \A r \in Redeems : redeem[r].claimed /\ redeem[r].pc = "end" =>
        (redeem[r].answer = "in" /\ invite.consumedBy \in invited) \/ CutOff(r)

\* Each user but the one that a standing claim made cost a lost answer.
Redeemed(r) ==
    /\ redeem[r].claimed /\ redeem[r].pc = "end" /\ redeem[r].answer = "in"
    /\ invite.consumedBy \in invited
UsersPaidFor ==
    \/ Cardinality(invited) <= faults.lost
    \/ Cardinality(invited) <= 1 + faults.lost /\ \E r \in Redeems : Redeemed(r)

\* As long as no password for an account was right, its window has an entry
\* for every request that is counted.
CountedFor(e) == {l \in Logins : login[l].email = e /\ login[l].counted}
NobodyVerified(e) == \A l \in Logins : login[l].email = e /\ login[l].task = "done" => ~Verified(login[l])
CountedInWindow ==
    \A e \in Emails : NobodyVerified(e) => Cardinality(CountedFor(e)) <= window.account[e]

LoginInv == LoginTyped /\ LoginsSound /\ CountedInWindow
RedeemInv == RedeemTyped /\ RedeemsSound /\ IsFiniteSet(invited) /\ Claims /\ ClaimsEnd /\ UsersPaidFor

Inv == SharedTyped /\ Queues /\ LoginInv /\ RedeemInv

-----------------------------------------------------------------------------
(* The constants.                                                          *)

LEMMA Constants ==
    /\ MaxConcurrent \in Nat \ {0} /\ AccountLimit \in Nat /\ IpLimit \in Nat /\ Faults \in Nat
    /\ NoEmail \notin Emails /\ IsFiniteSet(Logins) /\ IsFiniteSet(Redeems)
<1>1. MaxConcurrent \in {MaxConcurrent, IpLimit, AccountLimit}
      /\ IpLimit \in {MaxConcurrent, IpLimit, AccountLimit}
      /\ AccountLimit \in {MaxConcurrent, IpLimit, AccountLimit}
      /\ Faults \in {Faults, MaxRequests}
  OBVIOUS
<1> QED  BY <1>1, SignInAssumption

LEMMA QueuesFinite == LoginQueue!Finite /\ RedeemQueue!Finite
BY Constants DEF LoginQueue!Finite, LoginQueue!SemaphoreConstants,
   RedeemQueue!Finite, RedeemQueue!SemaphoreConstants,
   IsFiniteSet, LoginQueue!IsFiniteSet, RedeemQueue!IsFiniteSet

-----------------------------------------------------------------------------
(* The updates of a login's record.                                        *)

\* What a step may make of a login: one whose hash is done stays as it is
\* known, and only a login past the limit is counted.
LoginMove(r, s) ==
    /\ s \in Login /\ LoginSound(s)
    /\ r.task = "done" =>
          s.task = "done" /\ s.email = r.email /\ s.right = r.right /\ s.found = r.found
    /\ s.counted => s.email = r.email

LEMMA LoginMoves ==
    ASSUME NEW r \in Login, LoginSound(r), NEW s
    PROVE  /\ s = r => LoginMove(r, s)
           /\ r.pc = "ip" /\ s = At(r, "account") => LoginMove(r, s) /\ s.task = r.task /\ ~s.counted
           /\ r.pc = "account" /\ s = [At(r, "find") EXCEPT !.counted = TRUE] =>
                 LoginMove(r, s) /\ s.task = r.task /\ s.counted /\ ~r.counted /\ s.email = r.email
           /\ r.pc = "dummy" /\ s = At(r, "hash") =>
                 LoginMove(r, s) /\ s.task = r.task /\ (s.counted => r.counted)
           /\ r.pc = "reset" /\ s = At(r, "create") =>
                 LoginMove(r, s) /\ s.task = r.task /\ (s.counted => r.counted)
           /\ s = [r EXCEPT !.counted = FALSE] =>
                 LoginMove(r, s) /\ s.task = r.task /\ ~s.counted
           /\ r.pc = "hash" /\ r.task = "waiting" /\ s = GivenUp(r) =>
                 LoginMove(r, s) /\ s.task = "rejected" /\ (s.counted => r.counted)
<1> USE DEF Login, LoginSound, LoginMove, Verified
<1>1. s = r => LoginMove(r, s)
  OBVIOUS
<1>2. r.pc = "ip" /\ s = At(r, "account") => LoginMove(r, s) /\ s.task = r.task /\ ~s.counted
  BY DEF At
<1>3. r.pc = "account" /\ s = [At(r, "find") EXCEPT !.counted = TRUE] =>
         LoginMove(r, s) /\ s.task = r.task /\ s.counted /\ ~r.counted /\ s.email = r.email
  BY DEF At
<1>4. r.pc = "dummy" /\ s = At(r, "hash") =>
         LoginMove(r, s) /\ s.task = r.task /\ (s.counted => r.counted)
  BY DEF At
<1>5. r.pc = "reset" /\ s = At(r, "create") =>
         LoginMove(r, s) /\ s.task = r.task /\ (s.counted => r.counted)
  BY DEF At
<1>6. s = [r EXCEPT !.counted = FALSE] =>
         LoginMove(r, s) /\ s.task = r.task /\ ~s.counted
  OBVIOUS
<1>7. r.pc = "hash" /\ r.task = "waiting" /\ s = GivenUp(r) =>
         LoginMove(r, s) /\ s.task = "rejected" /\ (s.counted => r.counted)
  <2> SUFFICES ASSUME r.pc = "hash", r.task = "waiting", s = GivenUp(r)
               PROVE  LoginMove(r, s) /\ s.task = "rejected" /\ (s.counted => r.counted)
    OBVIOUS
  <2>1. s = [r EXCEPT !.pc = "end", !.answer = "error", !.task = "rejected"]
    BY DEF GivenUp, Ends
  <2> QED  BY <2>1 DEF Task
<1> QED  BY <1>1, <1>2, <1>3, <1>4, <1>5, <1>6, <1>7

LEMMA LoginComes ==
    ASSUME NEW r \in Login, LoginSound(r), r.pc = "idle", NEW e \in Emails, NEW right \in BOOLEAN,
           NEW s, s = [At(r, "ip") EXCEPT !.email = e, !.right = right]
    PROVE  LoginMove(r, s) /\ s.task = r.task /\ ~s.counted
BY DEF Login, LoginSound, LoginMove, Verified, At

LEMMA LoginEnds ==
    ASSUME NEW r \in Login, LoginSound(r), r.pc \notin {"idle", "hash"},
           NEW a \in {"limited", "error", "in"}, NEW s, s = Ends(r, a)
    PROVE  LoginMove(r, s) /\ s.task = r.task /\ (s.counted => r.counted)
BY DEF Login, LoginSound, LoginMove, Verified, Ends

FoundAt(r, f, pc) == At([r EXCEPT !.found = f], pc)

LEMMA LoginFinds ==
    ASSUME NEW r \in Login, LoginSound(r), r.pc = "find", NEW f \in Found, NEW s,
           \/ \E pc \in {"dummy", "hash"} : s = FoundAt(r, f, pc)
           \/ s = Ends([r EXCEPT !.found = f], "error")
    PROVE  LoginMove(r, s) /\ s.task = r.task /\ (s.counted => r.counted)
<1>1. CASE \E pc \in {"dummy", "hash"} : s = FoundAt(r, f, pc)
  BY <1>1 DEF Login, LoginSound, LoginMove, Verified, At, FoundAt
<1>2. CASE s = Ends([r EXCEPT !.found = f], "error")
  <2>1. s = [r EXCEPT !.found = f, !.pc = "end", !.answer = "error"]
    BY <1>2 DEF Ends
  <2> QED  BY <2>1 DEF Login, LoginSound, LoginMove, Verified
<1> QED  BY <1>1, <1>2

LEMMA LoginTask ==
    ASSUME NEW r \in Login, LoginSound(r), r.pc = "hash", r.task \in {"new", "waiting"},
           NEW t \in {"waiting", "running"}, NEW s, s = [r EXCEPT !.task = t]
    PROVE  LoginMove(r, s) /\ s.task = t /\ (s.counted => r.counted)
BY DEF Login, LoginSound, LoginMove, Verified, Task

LEMMA LoginHashed ==
    ASSUME NEW r \in Login, LoginSound(r), r.task = "running", NEW s, s = AfterVerify(Hashed(r))
    PROVE  LoginMove(r, s) /\ s.task = "done" /\ (s.counted => r.counted)
<1> DEFINE d == Hashed(r)
<1>1. /\ d \in [pc : {"hash"}, task : {"done"}, email : Emails \cup {NoEmail}, right : BOOLEAN,
                found : Found, counted : BOOLEAN,
                answer : {"none", "limited", "denied", "in", "error", "dead"}]
      /\ d.email \in Emails /\ d.email = r.email /\ d.counted = r.counted
  BY DEF Login, LoginSound, Hashed, Task
<1>2. s = IF Verified(d) THEN At(d, "reset") ELSE Ends(d, "denied")
  BY DEF AfterVerify
<1> HIDE DEF d
<1>3. CASE Verified(d)
  <2>1. s = [d EXCEPT !.pc = "reset"]
    BY <1>2, <1>3 DEF At
  <2> QED  BY <1>1, <1>3, <2>1 DEF Login, LoginSound, LoginMove, Verified, Task
<1>4. CASE ~Verified(d)
  <2>1. s = [d EXCEPT !.pc = "end", !.answer = "denied"]
    BY <1>2, <1>4 DEF Ends
  <2> QED  BY <1>1, <2>1 DEF Login, LoginSound, LoginMove, Verified, Task
<1> QED  BY <1>3, <1>4

LEMMA LoginDies ==
    ASSUME NEW r \in Login, LoginSound(r), NEW s, s = Dead(r)
    PROVE  /\ LoginMove(r, s) /\ (s.counted => r.counted)
           /\ s.task = IF \/ r.task \in {"waiting", "running"}
                          \/ r.task = "new" /\ r.pc \notin {"idle", "form", "end"}
                       THEN "lost" ELSE r.task
<1>1. CASE r.pc \in {"idle", "form", "end"}
  BY <1>1 DEF Dead, Login, LoginSound, LoginMove
<1>2. CASE r.pc \notin {"idle", "form", "end"}
  <2>1. s = [r EXCEPT !.pc = "end", !.answer = "dead", !.task = IF r.task = "done" THEN "done" ELSE "lost"]
    BY <1>2 DEF Dead, Ends, Login
  <2> QED  BY <1>2, <2>1 DEF Login, LoginSound, LoginMove, Verified, Task
<1> QED  BY <1>1, <1>2

-----------------------------------------------------------------------------
(* The steps of a login.                                                   *)

\* All logins are what LoginMove lets them become.
LoginsMove ==
    /\ DOMAIN login' = Logins /\ login' = [l \in Logins |-> login'[l]]
    /\ \A l \in Logins : LoginMove(login[l], login'[l])

LEMMA LoginsStaySound ==
    ASSUME LoginsMove
    PROVE  login' \in [Logins -> Login] /\ LoginsSound'
BY DEF LoginsMove, LoginMove, LoginsSound

\* One login moves.
LoginGoes(l) ==
    /\ login' = [login EXCEPT ![l] = login'[l]]
    /\ LoginMove(login[l], login'[l])

LEMMA KnownLogin ==
    ASSUME LoginTyped, LoginsSound, NEW l \in Logins
    PROVE  login \in [Logins -> Login] /\ login[l] \in Login /\ LoginSound(login[l])
BY DEF LoginTyped, LoginsSound

LEMMA OneMoves ==
    ASSUME LoginTyped, LoginsSound, NEW l \in Logins, LoginGoes(l)
    PROVE  LoginsMove /\ \A m \in Logins \ {l} : login'[m] = login[m]
<1>1. login \in [Logins -> Login]
  BY DEF LoginTyped
<1>2. \A m \in Logins \ {l} : login'[m] = login[m]
  BY <1>1 DEF LoginGoes
<1>3. \A m \in Logins : LoginMove(login[m], login'[m])
  BY <1>2, KnownLogin, LoginMoves DEF LoginGoes
<1>4. login' = [m \in Logins |-> login'[m]]
  BY <1>1 DEF LoginGoes
<1> QED  BY <1>2, <1>3, <1>4 DEF LoginsMove

\* To the semaphore nothing happens.
LEMMA LoginsQuiet ==
    ASSUME sem'.login = sem.login, \A l \in Logins : login'[l].task = login[l].task
    PROVE  UNCHANGED LoginQueue!vars
BY DEF LoginQueue!vars

\* No more requests are counted than before.
LEMMA NoMoreCounted ==
    ASSUME LoginTyped, LoginsSound, CountedInWindow, LoginsMove, NEW e \in Emails, NobodyVerified(e)'
    PROVE  /\ NobodyVerified(e)
           /\ \A l \in Logins : login'[l].counted => login'[l].email = login[l].email
           /\ IsFiniteSet(CountedFor(e)) /\ Cardinality(CountedFor(e)) \in Nat
           /\ IsFiniteSet(CountedFor(e)') /\ Cardinality(CountedFor(e)') \in Nat
           /\ Cardinality(CountedFor(e)) <= window.account[e] /\ window.account[e] \in Nat
<1>1. NobodyVerified(e)
  BY DEF NobodyVerified, LoginsMove, LoginMove, Verified
<1>2. CountedFor(e) \in SUBSET Logins /\ CountedFor(e)' \in SUBSET Logins
  BY DEF CountedFor
<1>3. IsFiniteSet(CountedFor(e)) /\ IsFiniteSet(CountedFor(e)')
  BY <1>2, Constants, FS_Subset
<1>4. window.account[e] \in Nat
  BY Constants DEF LoginTyped
<1> QED  BY <1>1, <1>3, <1>4, FS_CardinalityType DEF LoginsMove, LoginMove, CountedInWindow

LEMMA CountsAsBefore ==
    ASSUME LoginTyped, LoginsSound, CountedInWindow, LoginsMove, window'.account = window.account,
           \A l \in Logins : login'[l].counted => login[l].counted
    PROVE  CountedInWindow'
<1> SUFFICES ASSUME NEW e \in Emails, NobodyVerified(e)'
             PROVE  Cardinality(CountedFor(e)') <= window'.account[e]
  BY DEF CountedInWindow
<1>1. CountedFor(e)' \in SUBSET CountedFor(e)
  BY NoMoreCounted DEF CountedFor
<1>2. Cardinality(CountedFor(e)') <= Cardinality(CountedFor(e))
  BY <1>1, NoMoreCounted, FS_Subset
<1> QED  BY <1>2, NoMoreCounted

\* What a step of a login leaves: the other half of the state is as it was,
\* or nearly.
LoginLeaves ==
    /\ UNCHANGED <<user, invite, invited, redeem>>
    /\ sem'.redeem = sem.redeem /\ SharedTyped'
    /\ faults'.lost = faults.lost

LoginStepOk == LoginInv' /\ LoginLeaves /\ [LoginQueue!Next]_(LoginQueue!vars)

LEMMA FaultThrown ==
    ASSUME SharedTyped, MayFail, faults' = [faults EXCEPT !.throws = @ + 1]
    PROVE  /\ faults' \in [throws : 0 .. Faults, lost : 0 .. Faults, restarts : 0 .. Faults]
           /\ faults'.lost = faults.lost
<1>1. /\ faults.throws \in 0 .. Faults /\ faults.lost \in 0 .. Faults /\ faults.restarts \in 0 .. Faults
      /\ faults.throws + faults.lost + faults.restarts < Faults /\ Faults \in Nat
  BY Constants DEF SharedTyped, MayFail
<1>2. faults.throws + 1 \in 0 .. Faults
  BY <1>1
<1> QED  BY <1>1, <1>2 DEF SharedTyped

\* A step of one login that does not come to the semaphore.
LEMMA QuietLogin ==
    ASSUME SharedTyped, LoginInv, NEW l \in Logins, LoginGoes(l),
           login'[l].task = login[l].task, login'[l].counted => login[l].counted,
           UNCHANGED <<user, invite, invited, redeem, sem>>, window'.account = window.account,
           window' \in [ip : 0 .. IpLimit, account : [Emails -> 0 .. AccountLimit]],
           dummy' \in {"unset", "hashing", "set", "failed"},
           faults' \in [throws : 0 .. Faults, lost : 0 .. Faults, restarts : 0 .. Faults],
           faults'.lost = faults.lost
    PROVE  LoginStepOk
<1>1. LoginsMove /\ \A m \in Logins \ {l} : login'[m] = login[m]
  BY OneMoves DEF LoginInv
<1>2. LoginTyped' /\ LoginsSound'
  BY <1>1, LoginsStaySound DEF LoginTyped
<1>3. CountedInWindow'
  BY <1>1, CountsAsBefore DEF LoginInv
<1>4. UNCHANGED LoginQueue!vars
  BY <1>1, LoginsQuiet
<1>5. LoginLeaves
  BY DEF LoginLeaves, SharedTyped
<1> QED  BY <1>2, <1>3, <1>4, <1>5 DEF LoginStepOk, LoginInv

LEMMA Goes ==
    ASSUME LoginTyped, NEW l \in Logins, NEW s, login' = [login EXCEPT ![l] = s]
    PROVE  login'[l] = s /\ (LoginMove(login[l], s) => LoginGoes(l))
BY DEF LoginTyped, LoginGoes

LEMMA KnownState ==
    ASSUME Inv
    PROVE  /\ SharedTyped /\ LoginInv /\ LoginTyped /\ LoginsSound
           /\ user \in [Emails -> {"none", "active", "disabled"}]
           /\ window \in [ip : 0 .. IpLimit, account : [Emails -> 0 .. AccountLimit]]
           /\ dummy \in {"unset", "hashing", "set", "failed"}
           /\ faults \in [throws : 0 .. Faults, lost : 0 .. Faults, restarts : 0 .. Faults]
BY DEF Inv, LoginInv, LoginTyped, RedeemInv, RedeemTyped, SharedTyped

LEMMA LoginStartOk ==
    ASSUME Inv, NEW l \in Logins, NEW e \in Emails, LoginStart(l, e)
    PROVE  LoginStepOk
<1>1. PICK right \in BOOLEAN :
          login' = [login EXCEPT ![l] = [At(@, "ip") EXCEPT !.email = e, !.right = right]]
  BY DEF LoginStart
<1> DEFINE s == [At(login[l], "ip") EXCEPT !.email = e, !.right = right]
<1>2. login[l].pc = "idle" /\ UNCHANGED <<user, invite, invited, window, dummy, sem, redeem, faults>>
  BY DEF LoginStart
<1>3. LoginMove(login[l], s) /\ s.task = login[l].task /\ ~s.counted
  BY <1>2, KnownState, KnownLogin, LoginComes
<1>4. login'[l] = s /\ LoginGoes(l)
  BY <1>1, <1>3, KnownState, Goes
<1> HIDE DEF s
<1> QED  BY <1>2, <1>3, <1>4, KnownState, QuietLogin

LEMMA LoginEndsOk ==
    ASSUME Inv, NEW l \in Logins, login[l].pc \notin {"idle", "hash"}, NEW a \in {"limited", "error", "in"},
           login' = [login EXCEPT ![l] = Ends(@, a)],
           UNCHANGED <<user, invite, invited, redeem, sem, window, dummy>>,
           \/ UNCHANGED faults
           \/ MayFail /\ faults' = [faults EXCEPT !.throws = @ + 1]
    PROVE  LoginStepOk
<1> DEFINE s == Ends(login[l], a)
<1>1. LoginMove(login[l], s) /\ s.task = login[l].task /\ (s.counted => login[l].counted)
  BY KnownState, KnownLogin, LoginEnds
<1>2. login'[l] = s /\ LoginGoes(l)
  BY <1>1, KnownState, Goes
<1>3. /\ faults' \in [throws : 0 .. Faults, lost : 0 .. Faults, restarts : 0 .. Faults]
      /\ faults'.lost = faults.lost
  BY KnownState, FaultThrown
<1> HIDE DEF s
<1> QED  BY <1>1, <1>2, <1>3, KnownState, QuietLogin

LEMMA LimitIpOk ==
    ASSUME Inv, NEW l \in Logins, LimitIp(l)
    PROVE  LoginStepOk
<1>1. login[l].pc = "ip" /\ UNCHANGED <<user, invite, invited, dummy, sem, redeem, faults>>
  BY DEF LimitIp
<1>2. CASE login' = [login EXCEPT ![l] = Ends(@, "limited")] /\ UNCHANGED window
  BY <1>1, <1>2, LoginEndsOk
<1>3. CASE /\ BelowLimit(window.ip, IpLimit) /\ window' = [window EXCEPT !.ip = @ + 1]
           /\ login' = [login EXCEPT ![l] = At(@, "account")]
  <2> DEFINE s == At(login[l], "account")
  <2>1. LoginMove(login[l], s) /\ s.task = login[l].task /\ ~s.counted
    BY <1>1, KnownState, KnownLogin, LoginMoves
  <2>2. login'[l] = s /\ LoginGoes(l)
    BY <1>3, <2>1, KnownState, Goes
  <2>3. window.ip + 1 \in 0 .. IpLimit
    BY <1>3, KnownState, Constants DEF BelowLimit
  <2>4. /\ window' \in [ip : 0 .. IpLimit, account : [Emails -> 0 .. AccountLimit]]
        /\ window'.account = window.account
    BY <1>3, <2>3, KnownState
  <2> HIDE DEF s
  <2> QED  BY <1>1, <2>1, <2>2, <2>4, KnownState, QuietLogin
<1> QED  BY <1>2, <1>3 DEF LimitIp

LEMMA FindOk ==
    ASSUME Inv, NEW l \in Logins, Find(l)
    PROVE  LoginStepOk
<1> DEFINE found == user[login[l].email]
           s == AfterFind([login[l] EXCEPT !.found = found], found)
<1>1. /\ login[l].pc = "find" /\ login' = [login EXCEPT ![l] = s]
      /\ UNCHANGED <<user, invite, invited, window, sem, redeem, faults>>
      /\ dummy' \in {"unset", "hashing", "set", "failed"}
  BY KnownState DEF Find
<1>2. found \in Found
  BY <1>1, KnownState, KnownLogin DEF LoginSound, Found
<1>3. LoginMove(login[l], s) /\ s.task = login[l].task /\ (s.counted => login[l].counted)
  <2>1. login[l] \in Login /\ LoginSound(login[l]) /\ login[l].pc = "find"
    BY <1>1, KnownState, KnownLogin
  <2>2. \/ \E pc \in {"dummy", "hash"} : s = FoundAt(login[l], found, pc)
        \/ s = Ends([login[l] EXCEPT !.found = found], "error")
    BY DEF AfterFind, FoundAt
  <2> HIDE DEF s, found
  <2> QED  BY <1>2, <2>1, <2>2, LoginFinds
<1> HIDE DEF s, found
<1>4. login'[l] = s /\ LoginGoes(l)
  BY <1>1, <1>3, KnownState, Goes
<1> QED  BY <1>1, <1>3, <1>4, KnownState, QuietLogin

\* A request that is counted has its entry.
LEMMA LimitAccountOk ==
    ASSUME Inv, NEW l \in Logins, LimitAccount(l)
    PROVE  LoginStepOk
<1> DEFINE r == login[l]
           e == r.email
<1>1. r.pc = "account" /\ UNCHANGED <<user, invite, invited, dummy, sem, redeem, faults>>
  BY DEF LimitAccount
<1>2. CASE login' = [login EXCEPT ![l] = Ends(@, "limited")] /\ UNCHANGED window
  BY <1>1, <1>2, LoginEndsOk
<1>3. CASE /\ BelowLimit(window.account[e], AccountLimit)
           /\ window' = [window EXCEPT !.account[e] = @ + 1]
           /\ login' = [login EXCEPT ![l] = [At(@, "find") EXCEPT !.counted = TRUE]]
  <2> DEFINE s == [At(r, "find") EXCEPT !.counted = TRUE]
  <2>1. LoginMove(r, s) /\ s.task = r.task /\ s.counted /\ ~r.counted /\ s.email = e
    BY <1>1, KnownState, KnownLogin, LoginMoves
  <2>2. login'[l] = s /\ LoginGoes(l) /\ e \in Emails
    BY <1>1, <1>3, <2>1, KnownState, KnownLogin, Goes DEF LoginSound
  <2>3. LoginsMove /\ \A m \in Logins \ {l} : login'[m] = login[m]
    BY <2>2, KnownState, OneMoves
  <2>4. window.account \in [Emails -> 0 .. AccountLimit] /\ window.account[e] + 1 \in 0 .. AccountLimit
    BY <1>3, <2>2, KnownState, Constants DEF BelowLimit
  <2>5. /\ window' \in [ip : 0 .. IpLimit, account : [Emails -> 0 .. AccountLimit]]
        /\ window'.account[e] = window.account[e] + 1
        /\ \A f \in Emails \ {e} : window'.account[f] = window.account[f]
    BY <1>3, <2>2, <2>4, KnownState
  <2> HIDE DEF s
  <2>6. CountedInWindow'
    <3> SUFFICES ASSUME NEW f \in Emails, NobodyVerified(f)'
                 PROVE  Cardinality(CountedFor(f)') <= window'.account[f]
      BY DEF CountedInWindow
    <3>1. /\ IsFiniteSet(CountedFor(f)) /\ Cardinality(CountedFor(f)) \in Nat
          /\ Cardinality(CountedFor(f)) <= window.account[f] /\ window.account[f] \in Nat
      BY <2>3, KnownState, NoMoreCounted DEF LoginInv
    <3>2. CASE f = e
      <4>1. CountedFor(f)' = CountedFor(f) \cup {l} /\ l \notin CountedFor(f)
        BY <2>1, <2>2, <2>3, <3>2 DEF CountedFor
      <4>2. Cardinality(CountedFor(f)') = Cardinality(CountedFor(f)) + 1
        BY <3>1, <4>1, FS_AddElement
      <4> QED  BY <2>5, <3>1, <3>2, <4>2
    <3>3. CASE f # e
      <4>1. CountedFor(f)' = CountedFor(f)
        BY <2>1, <2>2, <2>3, <3>3 DEF CountedFor
      <4> QED  BY <2>5, <3>1, <3>3, <4>1
    <3> QED  BY <3>2, <3>3
  <2>7. UNCHANGED LoginQueue!vars
    BY <1>1, <2>1, <2>2, <2>3, LoginsQuiet
  <2>8. LoginLeaves
    BY <1>1, KnownState DEF LoginLeaves, SharedTyped
  <2>9. LoginTyped' /\ LoginsSound'
    BY <1>1, <2>3, <2>5, LoginsStaySound, KnownState DEF LoginTyped
  <2> QED  BY <2>6, <2>7, <2>8, <2>9 DEF LoginStepOk, LoginInv
<1> QED  BY <1>2, <1>3 DEF LimitAccount

\* The reset empties the window of an account whose password was right.
LEMMA ResetAccountOk ==
    ASSUME Inv, NEW l \in Logins, ResetAccount(l)
    PROVE  LoginStepOk
<1> DEFINE r == login[l]
           e == r.email
           s == At(r, "create")
<1>1. /\ r.pc = "reset" /\ UNCHANGED <<user, invite, invited, dummy, sem, redeem, faults>>
      /\ window' = [window EXCEPT !.account[e] = 0] /\ login' = [login EXCEPT ![l] = s]
  BY DEF ResetAccount
<1>2. r \in Login /\ LoginSound(r)
  BY KnownState, KnownLogin
<1>3. LoginMove(r, s) /\ s.task = r.task /\ (s.counted => r.counted)
  BY <1>1, <1>2, LoginMoves
<1>4. login'[l] = s /\ LoginGoes(l)
  BY <1>1, <1>3, KnownState, Goes
<1> HIDE DEF s
<1>5. LoginsMove /\ \A m \in Logins \ {l} : login'[m] = login[m]
  BY <1>4, KnownState, OneMoves
<1>6. e \in Emails /\ r.task = "done" /\ Verified(r)
  BY <1>1, <1>2 DEF LoginSound, Login, Task
<1>7. window.account \in [Emails -> 0 .. AccountLimit] /\ 0 \in 0 .. AccountLimit
  BY KnownState, Constants
<1>8. /\ window' \in [ip : 0 .. IpLimit, account : [Emails -> 0 .. AccountLimit]]
      /\ \A f \in Emails \ {e} : window'.account[f] = window.account[f]
  BY <1>1, <1>6, <1>7, KnownState
<1>9. CountedInWindow'
  <2> SUFFICES ASSUME NEW f \in Emails, NobodyVerified(f)'
               PROVE  Cardinality(CountedFor(f)') <= window'.account[f]
    BY DEF CountedInWindow
  <2>1. NobodyVerified(f) /\ Cardinality(CountedFor(f)) <= window.account[f]
    BY <1>5, KnownState, NoMoreCounted DEF LoginInv
  <2>2. f # e
    BY <1>6, <2>1 DEF NobodyVerified
  <2>3. CountedFor(f)' = CountedFor(f)
    <3>1. login'[l].email # f /\ login[l].email # f
      BY <1>3, <1>4, <1>6, <2>2 DEF LoginMove
    <3> QED  BY <1>5, <3>1 DEF CountedFor
  <2> QED  BY <1>8, <2>1, <2>2, <2>3
<1>10. UNCHANGED LoginQueue!vars
  BY <1>1, <1>3, <1>4, <1>5, LoginsQuiet
<1>11. LoginLeaves
  BY <1>1, KnownState DEF LoginLeaves, SharedTyped
<1>12. LoginTyped' /\ LoginsSound'
  BY <1>1, <1>5, <1>8, LoginsStaySound, KnownState DEF LoginTyped
<1> QED  BY <1>9, <1>10, <1>11, <1>12 DEF LoginStepOk, LoginInv

\* An entry leaves the window with the request it stands for.
LEMMA AccountWindowSlidesOk ==
    ASSUME Inv, NEW l \in Logins, AccountWindowSlides(l)
    PROVE  LoginStepOk
<1> DEFINE r == login[l]
           e == r.email
           s == [r EXCEPT !.counted = FALSE]
           n == IF window.account[e] = 0 THEN 0 ELSE window.account[e] - 1
<1>1. /\ r.counted /\ UNCHANGED <<user, invite, invited, dummy, sem, redeem, faults>>
      /\ window' = [window EXCEPT !.account[e] = n] /\ login' = [login EXCEPT ![l] = s]
  BY DEF AccountWindowSlides
<1>2. r \in Login /\ LoginSound(r)
  BY KnownState, KnownLogin
<1>3. LoginMove(r, s) /\ s.task = r.task /\ ~s.counted
  BY <1>2, LoginMoves
<1>4. login'[l] = s /\ LoginGoes(l)
  BY <1>1, <1>3, KnownState, Goes
<1> HIDE DEF s
<1>5. LoginsMove /\ \A m \in Logins \ {l} : login'[m] = login[m]
  BY <1>4, KnownState, OneMoves
<1>6. e \in Emails
  BY <1>1, <1>2 DEF LoginSound, Login
<1>7. window.account \in [Emails -> 0 .. AccountLimit] /\ n \in 0 .. AccountLimit
  BY <1>6, KnownState, Constants
<1>8. /\ window' \in [ip : 0 .. IpLimit, account : [Emails -> 0 .. AccountLimit]]
      /\ window'.account[e] = n
      /\ \A f \in Emails \ {e} : window'.account[f] = window.account[f]
  BY <1>1, <1>6, <1>7, KnownState
<1>9. CountedInWindow'
  <2> SUFFICES ASSUME NEW f \in Emails, NobodyVerified(f)'
               PROVE  Cardinality(CountedFor(f)') <= window'.account[f]
    BY DEF CountedInWindow
  <2>1. /\ IsFiniteSet(CountedFor(f)) /\ Cardinality(CountedFor(f)) \in Nat
        /\ Cardinality(CountedFor(f)') \in Nat
        /\ Cardinality(CountedFor(f)) <= window.account[f] /\ window.account[f] \in Nat
    BY <1>5, KnownState, NoMoreCounted DEF LoginInv
  <2>2. CASE f = e
    <3>1. CountedFor(f)' = CountedFor(f) \ {l} /\ l \in CountedFor(f)
      BY <1>1, <1>3, <1>4, <1>5, <2>2 DEF CountedFor
    <3>2. Cardinality(CountedFor(f)') = Cardinality(CountedFor(f)) - 1
      BY <2>1, <3>1, FS_RemoveElement
    <3> QED  BY <1>8, <2>1, <2>2, <3>2
  <2>3. CASE f # e
    <3>1. login'[l].email # f \/ ~login'[l].counted
      BY <1>3, <1>4
    <3>2. CountedFor(f)' = CountedFor(f)
      BY <1>5, <2>3, <3>1 DEF CountedFor
    <3> QED  BY <1>8, <2>1, <2>3, <3>2
  <2> QED  BY <2>2, <2>3
<1>10. UNCHANGED LoginQueue!vars
  BY <1>1, <1>3, <1>4, <1>5, LoginsQuiet
<1>11. LoginLeaves
  BY <1>1, KnownState DEF LoginLeaves, SharedTyped
<1>12. LoginTyped' /\ LoginsSound'
  BY <1>1, <1>5, <1>8, LoginsStaySound, KnownState DEF LoginTyped
<1> QED  BY <1>9, <1>10, <1>11, <1>12 DEF LoginStepOk, LoginInv

-----------------------------------------------------------------------------
(* The steps at the login semaphore.                                       *)

\* The queue names logins that wait.
LEMMA LoginWaits ==
    ASSUME Inv
    PROVE  /\ sem.login \in [active : Nat, waiters : Seq(Logins)]
           /\ \A i \in DOMAIN sem.login.waiters :
                 sem.login.waiters[i] \in Logins /\ login[sem.login.waiters[i]].task = "waiting"
<1>1. sem.login \in [active : Nat, waiters : Seq(Logins)]
  BY DEF Inv, Queues, LoginQueue!Inv, LoginQueue!TypeOK
<1>2. \A i \in DOMAIN sem.login.waiters : sem.login.waiters[i] \in Logins
  BY <1>1
<1>3. \A i \in DOMAIN sem.login.waiters :
         [l \in Logins |-> login[l].task][sem.login.waiters[i]] = "waiting"
  BY DEF Inv, Queues, LoginQueue!Inv, LoginQueue!SemaphoreInv, LoginQueue!QueueIsWaiters
<1> QED  BY <1>1, <1>2, <1>3

\* A step at the semaphore: the rest of the state is left alone.
LEMMA SemaphoreLogin ==
    ASSUME Inv, LoginsMove, \A l \in Logins : login'[l].counted => login[l].counted,
           UNCHANGED <<user, invite, invited, redeem, window, dummy, faults>>,
           NEW s, sem' = [sem EXCEPT !.login = s],
           [LoginQueue!Next]_(LoginQueue!vars)
    PROVE  LoginStepOk
<1>1. LoginTyped' /\ LoginsSound'
  BY LoginsStaySound, KnownState DEF LoginTyped
<1>2. CountedInWindow'
  BY CountsAsBefore, KnownState DEF LoginInv
<1>3. sem'.redeem = sem.redeem /\ DOMAIN sem' = {"login", "redeem"}
  BY KnownState DEF SharedTyped
<1>4. LoginLeaves
  BY <1>3, KnownState DEF LoginLeaves, SharedTyped
<1> QED  BY <1>1, <1>2, <1>4 DEF LoginStepOk, LoginInv

LEMMA LoginEnterOk ==
    ASSUME Inv, NEW l \in Logins, LoginEnter(l)
    PROVE  LoginStepOk
<1> DEFINE t == IF LoginSem!HasPermit(sem.login) THEN "running" ELSE "waiting"
           s == [login[l] EXCEPT !.task = t]
<1>1. /\ login[l].pc = "hash" /\ login[l].task = "new"
      /\ sem' = [sem EXCEPT !.login = LoginSem!Enter(sem.login, l)]
      /\ UNCHANGED <<user, invite, invited, window, dummy, redeem, faults>>
  BY DEF LoginEnter
<1>2. login' = [login EXCEPT ![l] = s]
  BY DEF LoginEnter, Admitted
<1>3. LoginMove(login[l], s) /\ s.task = t /\ (s.counted => login[l].counted)
  BY <1>1, KnownState, KnownLogin, LoginTask
<1>4. login'[l] = s /\ LoginGoes(l)
  BY <1>2, <1>3, KnownState, Goes
<1> HIDE DEF s
<1>5. LoginsMove /\ \A m \in Logins \ {l} : login'[m] = login[m]
  BY <1>4, KnownState, OneMoves
<1>6. LoginQueue!Run(l)
  <2>1. sem'.login = LoginQueue!Enter(sem.login, l)
    BY <1>1, KnownState DEF SharedTyped, LoginSem!Enter, LoginQueue!Enter, LoginSem!HasPermit,
       LoginQueue!HasPermit
  <2>2. t = IF LoginQueue!HasPermit(sem.login) THEN "running" ELSE "waiting"
    BY DEF LoginSem!HasPermit, LoginQueue!HasPermit
  <2>3. [m \in Logins |-> login'[m].task] = [[m \in Logins |-> login[m].task] EXCEPT ![l] = t]
    BY <1>3, <1>4, <1>5
  <2> HIDE DEF t
  <2> QED  BY <1>1, <2>1, <2>2, <2>3 DEF LoginQueue!Run
<1>7. [LoginQueue!Next]_(LoginQueue!vars)
  BY <1>6 DEF LoginQueue!Next
<1> QED  BY <1>1, <1>3, <1>4, <1>5, <1>7, SemaphoreLogin

LEMMA LoginVerifiedOk ==
    ASSUME Inv, NEW l \in Logins, LoginVerified(l)
    PROVE  LoginStepOk
<1> DEFINE w == sem.login.waiters
           s == AfterVerify(Hashed(login[l]))
<1>1. /\ login[l].task = "running"
      /\ sem' = [sem EXCEPT !.login = LoginSem!Leave(sem.login)]
      /\ UNCHANGED <<user, invite, invited, window, dummy, redeem, faults>>
      /\ login' = [HandedOn(login, sem.login) EXCEPT ![l] = AfterVerify(Hashed(@))]
  BY DEF LoginVerified
<1>2. login \in [Logins -> Login] /\ login[l] \in Login /\ LoginSound(login[l])
  BY KnownState, KnownLogin
<1>3. LoginMove(login[l], s) /\ s.task = "done" /\ (s.counted => login[l].counted)
  BY <1>1, <1>2, LoginHashed
<1>4. sem'.login = LoginQueue!Leave(sem.login)
  BY <1>1, KnownState DEF SharedTyped, LoginSem!Leave, LoginQueue!Leave
<1>5. CASE w = <<>>
  <2>1. login' = [login EXCEPT ![l] = s]
    BY <1>1, <1>5 DEF HandedOn
  <2>2. login'[l] = s /\ LoginGoes(l)
    BY <1>3, <2>1, KnownState, Goes
  <2> HIDE DEF s
  <2>3. LoginsMove /\ \A m \in Logins \ {l} : login'[m] = login[m]
    BY <2>2, KnownState, OneMoves
  <2>4. [m \in Logins |-> login'[m].task] = [[m \in Logins |-> login[m].task] EXCEPT ![l] = "done"]
    BY <1>3, <2>2, <2>3
  <2>5. LoginQueue!Finish(l)
    BY <1>1, <1>4, <1>5, <2>4 DEF LoginQueue!Finish
  <2>6. [LoginQueue!Next]_(LoginQueue!vars)
    BY <2>5 DEF LoginQueue!Next
  <2> QED  BY <1>1, <1>3, <2>2, <2>3, <2>6, SemaphoreLogin
<1>6. CASE w # <<>>
  <2> DEFINE h == Head(w)
             g == [login[h] EXCEPT !.task = "running"]
  <2>1. h = w[1] /\ 1 \in DOMAIN w
    BY <1>6, LoginWaits
  <2>2. h \in Logins /\ login[h].task = "waiting" /\ h # l
    BY <1>1, <2>1, LoginWaits
  <2>3. login' = [[login EXCEPT ![h] = g] EXCEPT ![l] = AfterVerify(Hashed(@))]
    BY <1>1, <1>6 DEF HandedOn
  <2> HIDE DEF h, g
  <2>4. login' = [[login EXCEPT ![h] = g] EXCEPT ![l] = s]
    BY <1>2, <2>2, <2>3
  <2>5. login[h] \in Login /\ LoginSound(login[h]) /\ login[h].pc = "hash"
    BY <2>2, KnownState, KnownLogin DEF LoginSound
  <2>6. LoginMove(login[h], g) /\ g.task = "running" /\ (g.counted => login[h].counted)
    BY <2>2, <2>5, LoginTask DEF g
  <2> HIDE DEF s
  <2>7. login'[l] = s /\ login'[h] = g /\ \A m \in Logins \ {h, l} : login'[m] = login[m]
    BY <1>2, <2>2, <2>4
  <2>8. LoginsMove
    <3>1. \A m \in Logins : LoginMove(login[m], login'[m])
      BY <1>3, <2>6, <2>7, KnownState, KnownLogin, LoginMoves
    <3> QED  BY <1>2, <2>4, <3>1 DEF LoginsMove
  <2>9. [m \in Logins |-> login'[m].task]
           = [[m \in Logins |-> login[m].task] EXCEPT ![l] = "done", ![h] = "running"]
    BY <1>3, <2>2, <2>6, <2>7
  <2>10. LoginQueue!Finish(l)
    BY <1>1, <1>4, <1>6, <2>9 DEF LoginQueue!Finish, h
  <2>11. [LoginQueue!Next]_(LoginQueue!vars)
    BY <2>10 DEF LoginQueue!Next
  <2>12. \A m \in Logins : login'[m].counted => login[m].counted
    BY <1>3, <2>6, <2>7
  <2> QED  BY <1>1, <2>8, <2>11, <2>12, SemaphoreLogin
<1> QED  BY <1>5, <1>6

LEMMA LoginTimesOutOk ==
    ASSUME Inv, NEW l \in Logins, LoginTimesOut(l)
    PROVE  LoginStepOk
<1> DEFINE s == GivenUp(login[l])
<1>1. /\ login[l].task = "waiting" /\ login' = [login EXCEPT ![l] = s]
      /\ UNCHANGED <<user, invite, invited, window, dummy, redeem, faults>>
  BY DEF LoginTimesOut
<1>2. PICK i \in DOMAIN sem.login.waiters :
         sem.login.waiters[i] = l /\ sem' = [sem EXCEPT !.login = LoginSem!Spliced(sem.login, i)]
  BY DEF LoginTimesOut
<1>3. LoginMove(login[l], s) /\ s.task = "rejected" /\ (s.counted => login[l].counted)
  <2>1. login[l] \in Login /\ LoginSound(login[l]) /\ login[l].pc = "hash"
    BY <1>1, KnownState, KnownLogin DEF LoginSound
  <2> QED  BY <1>1, <2>1, LoginMoves
<1>4. login'[l] = s /\ LoginGoes(l)
  BY <1>1, <1>3, KnownState, Goes
<1> HIDE DEF s
<1>5. LoginsMove /\ \A m \in Logins \ {l} : login'[m] = login[m]
  BY <1>4, KnownState, OneMoves
<1>6. [m \in Logins |-> login'[m].task] = [[m \in Logins |-> login[m].task] EXCEPT ![l] = "rejected"]
  BY <1>3, <1>4, <1>5
<1>7. sem'.login = LoginQueue!Spliced(sem.login, i)
  BY <1>2, KnownState DEF SharedTyped, LoginSem!Spliced, LoginQueue!Spliced
<1>8. LoginQueue!TimeOut(l)
  BY <1>1, <1>2, <1>6, <1>7 DEF LoginQueue!TimeOut
<1>9. [LoginQueue!Next]_(LoginQueue!vars)
  BY <1>8 DEF LoginQueue!Next
<1> QED  BY <1>1, <1>2, <1>3, <1>4, <1>5, <1>9, SemaphoreLogin

\* The dummy hash settles for all that wait for it, one way or the other.
LEMMA DummySettles ==
    ASSUME Inv, dummy' \in {"set", "failed"}, login' = [l \in Logins |-> login'[l]],
           UNCHANGED <<user, invite, invited, window, sem, redeem>>,
           faults' \in [throws : 0 .. Faults, lost : 0 .. Faults, restarts : 0 .. Faults],
           faults'.lost = faults.lost,
           \A l \in Logins :
              /\ login[l].pc = "dummy" =>
                    login'[l] = At(login[l], "hash") \/ login'[l] = Ends(login[l], "error")
              /\ login[l].pc # "dummy" => login'[l] = login[l]
    PROVE  LoginStepOk
<1>2. ASSUME NEW l \in Logins
      PROVE  /\ LoginMove(login[l], login'[l])
             /\ login'[l].task = login[l].task /\ (login'[l].counted => login[l].counted)
  <2>1. login[l] \in Login /\ LoginSound(login[l])
    BY KnownState, KnownLogin
  <2>2. CASE login[l].pc = "dummy"
    <3>1. login'[l] = At(login[l], "hash") \/ login'[l] = Ends(login[l], "error")
      BY <2>2
    <3> QED  BY <2>1, <2>2, <3>1, LoginMoves, LoginEnds
  <2>3. CASE login[l].pc # "dummy"
    <3>1. login'[l] = login[l]
      BY <2>3
    <3> QED  BY <2>1, <3>1, LoginMoves
  <2> QED  BY <2>2, <2>3
<1>3. LoginsMove
  BY <1>2 DEF LoginsMove
<1>4. LoginTyped' /\ LoginsSound'
  BY <1>3, LoginsStaySound, KnownState DEF LoginTyped
<1>5. CountedInWindow'
  BY <1>2, <1>3, CountsAsBefore, KnownState DEF LoginInv
<1>6. UNCHANGED LoginQueue!vars
  BY <1>2, LoginsQuiet
<1>7. LoginLeaves
  BY KnownState DEF LoginLeaves, SharedTyped
<1> QED  BY <1>4, <1>5, <1>6, <1>7 DEF LoginStepOk, LoginInv

LEMMA DummyOk ==
    ASSUME Inv, DummyReady \/ DummyFails
    PROVE  LoginStepOk
<1>1. CASE DummyReady
  BY <1>1, KnownState, DummySettles DEF DummyReady
<1>2. CASE DummyFails
  <2>1. /\ faults' \in [throws : 0 .. Faults, lost : 0 .. Faults, restarts : 0 .. Faults]
        /\ faults'.lost = faults.lost
    BY <1>2, KnownState, FaultThrown DEF DummyFails
  <2> QED  BY <1>2, <2>1, KnownState, DummySettles DEF DummyFails
<1> QED  BY <1>1, <1>2

LEMMA IpWindowSlidesOk ==
    ASSUME Inv, IpWindowSlides
    PROVE  LoginStepOk
<1>1. /\ window.ip > 0 /\ window' = [window EXCEPT !.ip = @ - 1]
      /\ UNCHANGED <<user, invite, invited, dummy, sem, login, redeem, faults>>
  BY DEF IpWindowSlides
<1>2. window.ip - 1 \in 0 .. IpLimit
  BY <1>1, KnownState, Constants
<1>3. /\ window' \in [ip : 0 .. IpLimit, account : [Emails -> 0 .. AccountLimit]]
      /\ window'.account = window.account
  BY <1>1, <1>2, KnownState
<1>4. LoginTyped' /\ LoginsSound'
  BY <1>1, <1>3, KnownState DEF LoginTyped, LoginsSound
<1>5. CountedInWindow'
  BY <1>1, <1>3, KnownState DEF LoginInv, CountedInWindow, NobodyVerified, CountedFor
<1>6. UNCHANGED LoginQueue!vars
  BY <1>1, LoginsQuiet
<1>7. LoginLeaves
  BY <1>1, KnownState DEF LoginLeaves, SharedTyped
<1> QED  BY <1>4, <1>5, <1>6, <1>7 DEF LoginStepOk, LoginInv

LEMMA LoginStepsOk ==
    ASSUME Inv, (\E l \in Logins : LoginStep(l)) \/ DummyReady \/ DummyFails \/ IpWindowSlides
    PROVE  LoginStepOk
<1>1. ASSUME NEW l \in Logins, CreateSession(l) PROVE LoginStepOk
  BY <1>1, LoginEndsOk DEF CreateSession
<1>2. ASSUME NEW l \in Logins, LoginThrows(l) PROVE LoginStepOk
  BY <1>2, LoginEndsOk DEF LoginThrows
<1> QED
  BY <1>1, <1>2, LoginStartOk, LimitIpOk, LimitAccountOk, FindOk, LoginEnterOk, LoginVerifiedOk,
     LoginTimesOutOk, ResetAccountOk, AccountWindowSlidesOk, DummyOk, IpWindowSlidesOk
  DEF LoginStep

-----------------------------------------------------------------------------
(* The updates of a redemption's record.                                   *)

RedeemMove(s) == s \in Redeem /\ RedeemSound(s)

LEMMA RedeemMoves ==
    ASSUME NEW r \in Redeem, RedeemSound(r), NEW s
    PROVE  /\ s = r => RedeemMove(s)
           /\ r.pc = "idle" /\ s = At(r, "form") => RedeemMove(s) /\ s.task = r.task /\ ~s.claimed
           /\ r.pc = "idle" /\ s = At(r, "hash") => RedeemMove(s) /\ s.task = r.task /\ ~s.claimed
           /\ r.pc = "claim" /\ s = [At(r, "fetch") EXCEPT !.claimed = TRUE] =>
                 RedeemMove(s) /\ s.task = r.task /\ s.claimed /\ s.pc = "fetch"
           /\ r.pc = "claim" /\ s = At(r, "probe") => RedeemMove(s) /\ s.task = r.task /\ ~s.claimed
           /\ r.pc = "fetch" /\ s = At(r, "unbind") =>
                 RedeemMove(s) /\ s.task = r.task /\ s.claimed /\ s.pc = "unbind"
           /\ r.pc = "fetch" /\ s = At(r, "hash") =>
                 RedeemMove(s) /\ s.task = r.task /\ s.claimed /\ s.pc = "hash"
           /\ r.pc = "unbind" /\ s = [Ends(r, "mismatch") EXCEPT !.claimed = FALSE] =>
                 RedeemMove(s) /\ s.task = r.task /\ ~s.claimed
           /\ r.pc = "revert" /\ s = [At(r, "end") EXCEPT !.claimed = FALSE] =>
                 RedeemMove(s) /\ s.task = r.task /\ ~s.claimed
           /\ r.pc = "revert" /\ s = [At(r, "end") EXCEPT !.threw = TRUE] =>
                 RedeemMove(s) /\ s.task = r.task /\ s.claimed /\ s.threw
<1> USE DEF Redeem, RedeemSound, RedeemMove, At
<1>1. s = r => RedeemMove(s)
  OBVIOUS
<1>2. r.pc = "idle" /\ s = At(r, "form") => RedeemMove(s) /\ s.task = r.task /\ ~s.claimed
  OBVIOUS
<1>3. r.pc = "idle" /\ s = At(r, "hash") => RedeemMove(s) /\ s.task = r.task /\ ~s.claimed
  OBVIOUS
<1>4. r.pc = "claim" /\ s = [At(r, "fetch") EXCEPT !.claimed = TRUE] =>
         RedeemMove(s) /\ s.task = r.task /\ s.claimed /\ s.pc = "fetch"
  OBVIOUS
<1>5. r.pc = "claim" /\ s = At(r, "probe") => RedeemMove(s) /\ s.task = r.task /\ ~s.claimed
  OBVIOUS
<1>6. r.pc = "fetch" /\ s = At(r, "unbind") =>
         RedeemMove(s) /\ s.task = r.task /\ s.claimed /\ s.pc = "unbind"
  OBVIOUS
<1>7. r.pc = "fetch" /\ s = At(r, "hash") =>
         RedeemMove(s) /\ s.task = r.task /\ s.claimed /\ s.pc = "hash"
  OBVIOUS
<1>8. r.pc = "unbind" /\ s = [Ends(r, "mismatch") EXCEPT !.claimed = FALSE] =>
         RedeemMove(s) /\ s.task = r.task /\ ~s.claimed
  BY DEF Ends
<1>9. r.pc = "revert" /\ s = [At(r, "end") EXCEPT !.claimed = FALSE] =>
         RedeemMove(s) /\ s.task = r.task /\ ~s.claimed
  OBVIOUS
<1>10. r.pc = "revert" /\ s = [At(r, "end") EXCEPT !.threw = TRUE] =>
          RedeemMove(s) /\ s.task = r.task /\ s.claimed /\ s.threw
  OBVIOUS
<1> QED  BY <1>1, <1>2, <1>3, <1>4, <1>5, <1>6, <1>7, <1>8, <1>9, <1>10

\* A request that is answered keeps the claim it has.
LEMMA RedeemEnds ==
    ASSUME NEW r \in Redeem, RedeemSound(r), r.pc \notin {"hash", "revert"},
           r.claimed \/ r.pc \in {"idle", "claim", "probe"},
           NEW a \in {"missing", "gone", "error", "in"}, NEW s, s = Ends(r, a)
    PROVE  RedeemMove(s) /\ s.task = r.task /\ (s.claimed <=> r.claimed) /\ s.pc = "end" /\ s.answer = a
BY DEF Redeem, RedeemSound, RedeemMove, Ends

\* So does one whose call fails outside the try block.
LEMMA RedeemThrew ==
    ASSUME NEW r \in Redeem, RedeemSound(r), r.pc \in {"claim", "probe", "fetch", "unbind"},
           NEW s, s = Threw(r)
    PROVE  RedeemMove(s) /\ s.task = r.task /\ (s.claimed <=> r.claimed) /\ s.threw
<1>1. s = [r EXCEPT !.pc = "end", !.answer = "error", !.threw = TRUE]
  BY DEF Threw, Ends
<1> QED  BY <1>1 DEF Redeem, RedeemSound, RedeemMove

LEMMA RedeemPosts ==
    ASSUME NEW r \in Redeem, RedeemSound(r), r.pc = "form", NEW e \in Emails,
           NEW s, s = [At(r, "claim") EXCEPT !.email = e]
    PROVE  RedeemMove(s) /\ s.task = r.task /\ ~s.claimed
BY DEF Redeem, RedeemSound, RedeemMove, At

LEMMA RedeemFails ==
    ASSUME NEW r \in Redeem, RedeemSound(r), r.pc = "commit", NEW a \in {"taken", "error"},
           NEW s, s = AfterFailure(r, a)
    PROVE  RedeemMove(s) /\ s.task = r.task /\ s.claimed /\ s.pc = "revert"
<1>1. s = [r EXCEPT !.pc = "revert", !.answer = a]
  BY DEF AfterFailure, At
<1> QED  BY <1>1 DEF Redeem, RedeemSound, RedeemMove

LEMMA RedeemTask ==
    ASSUME NEW r \in Redeem, RedeemSound(r), r.pc = "hash", r.task \in {"new", "waiting"},
           NEW t \in {"waiting", "running"}, NEW s, s = [r EXCEPT !.task = t]
    PROVE  RedeemMove(s) /\ s.task = t /\ (s.claimed <=> r.claimed) /\ s.pc = "hash"
BY DEF Redeem, RedeemSound, RedeemMove, Task

LEMMA RedeemHashDone ==
    ASSUME NEW r \in Redeem, RedeemSound(r), r.task = "running", NEW s,
           \/ r.email # NoEmail /\ s = At(Hashed(r), "commit")
           \/ r.email = NoEmail /\ s = Ends(Hashed(r), "in")
           \/ s = Threw(Hashed(r))
    PROVE  /\ RedeemMove(s) /\ s.task = "done" /\ (s.claimed <=> r.claimed)
           /\ s.claimed => s.pc = "commit" \/ s.threw
<1>1. CASE r.email # NoEmail /\ s = At(Hashed(r), "commit")
  <2>1. s = [r EXCEPT !.task = "done", !.pc = "commit"]
    BY <1>1 DEF At, Hashed
  <2>2. r.claimed /\ r.email \in Emails
    BY <1>1 DEF Redeem, RedeemSound
  <2> QED  BY <2>1, <2>2 DEF Redeem, RedeemSound, RedeemMove, Task
<1>2. CASE r.email = NoEmail /\ s = Ends(Hashed(r), "in")
  <2>1. s = [r EXCEPT !.task = "done", !.pc = "end", !.answer = "in"]
    BY <1>2 DEF Ends, Hashed
  <2>2. ~r.claimed
    BY <1>2, Constants DEF RedeemSound
  <2> QED  BY <2>1, <2>2 DEF Redeem, RedeemSound, RedeemMove, Task
<1>3. CASE s = Threw(Hashed(r))
  <2>1. s = [r EXCEPT !.task = "done", !.pc = "end", !.answer = "error", !.threw = TRUE]
    BY <1>3 DEF Threw, Ends, Hashed
  <2> QED  BY <2>1 DEF Redeem, RedeemSound, RedeemMove, Task
<1> QED  BY <1>1, <1>2, <1>3

LEMMA RedeemGivenUp ==
    ASSUME NEW r \in Redeem, RedeemSound(r), r.task = "waiting", NEW s, s = GivenUp(r)
    PROVE  RedeemMove(s) /\ s.task = "rejected" /\ (s.claimed <=> r.claimed)
<1>1. s = [r EXCEPT !.pc = "end", !.answer = "error", !.task = "rejected"]
  BY DEF GivenUp, Ends
<1> QED  BY <1>1 DEF Redeem, RedeemSound, RedeemMove, Task

LEMMA RedeemDies ==
    ASSUME NEW r \in Redeem, RedeemSound(r), NEW s, s = Dead(r)
    PROVE  /\ RedeemMove(s) /\ (s.claimed <=> r.claimed)
           /\ r.pc = "end" => s = r
           /\ s.pc = "end" => r.pc = "end" \/ s.answer = "dead"
           /\ s.task = IF \/ r.task \in {"waiting", "running"}
                          \/ r.task = "new" /\ r.pc \notin {"idle", "form", "end"}
                       THEN "lost" ELSE r.task
<1>1. CASE r.pc \in {"idle", "form", "end"}
  BY <1>1 DEF Dead, Redeem, RedeemSound, RedeemMove
<1>2. CASE r.pc \notin {"idle", "form", "end"}
  <2>1. s = [r EXCEPT !.pc = "end", !.answer = "dead", !.task = IF r.task = "done" THEN "done" ELSE "lost"]
    BY <1>2 DEF Dead, Ends, Redeem
  <2> QED  BY <1>2, <2>1 DEF Redeem, RedeemSound, RedeemMove, Task
<1> QED  BY <1>1, <1>2

-----------------------------------------------------------------------------
(* Claims and the users made by them.                                      *)

\* The row and the users stay, claims stay with their requests, and a claim
\* that its request leaves behind was cut off.
ClaimsKept ==
    /\ invite'.row = invite.row /\ invite'.consumedAt = invite.consumedAt
    /\ invite'.consumedBy = invite.consumedBy /\ invited' = invited
    /\ faults'.lost >= faults.lost
    /\ \A q \in Redeems :
          /\ redeem'[q].claimed <=> redeem[q].claimed
          /\ redeem[q].claimed /\ redeem[q].pc = "end" =>
                redeem'[q].pc = "end" /\ redeem'[q].answer = redeem[q].answer
                /\ redeem'[q].task = redeem[q].task /\ redeem'[q].threw = redeem[q].threw
          /\ redeem'[q].claimed /\ redeem'[q].pc = "end" => redeem[q].pc = "end" \/ CutOff(q)'

ClaimsInv == Claims /\ ClaimsEnd /\ UsersPaidFor

LEMMA NumbersTyped ==
    ASSUME Inv
    PROVE  /\ faults.lost \in Nat /\ faults.throws \in Nat /\ faults.restarts \in Nat
           /\ IsFiniteSet(invited) /\ Cardinality(invited) \in Nat
BY FS_CardinalityType, Constants DEF Inv, SharedTyped, RedeemInv

LEMMA ClaimsStay ==
    ASSUME Inv, ClaimsKept, faults'.lost \in Nat
    PROVE  ClaimsInv'
<1>1. Claims'
  BY DEF Claims, ClaimsKept, Inv, RedeemInv
<1>2. ClaimsEnd'
  <2> SUFFICES ASSUME NEW r \in Redeems, redeem'[r].claimed, redeem'[r].pc = "end"
               PROVE  (redeem'[r].answer = "in" /\ invite'.consumedBy \in invited') \/ CutOff(r)'
    BY DEF ClaimsEnd
  <2>1. CASE redeem[r].pc = "end"
    <3>1. (redeem[r].answer = "in" /\ invite.consumedBy \in invited) \/ CutOff(r)
      BY <2>1 DEF ClaimsKept, ClaimsEnd, Inv, RedeemInv
    <3> QED  BY <2>1, <3>1 DEF ClaimsKept, CutOff
  <2>2. CASE CutOff(r)'
    BY <2>2
  <2> QED  BY <2>1, <2>2 DEF ClaimsKept
<1>3. UsersPaidFor'
  <2>1. CASE Cardinality(invited) <= faults.lost
    <3>1. Cardinality(invited') <= faults'.lost
      BY <2>1, NumbersTyped DEF ClaimsKept
    <3> QED  BY <3>1 DEF UsersPaidFor
  <2>2. ASSUME NEW r \in Redeems, Redeemed(r), Cardinality(invited) <= 1 + faults.lost
        PROVE  UsersPaidFor'
    <3>1. Redeemed(r)'
      BY <2>2 DEF Redeemed, ClaimsKept
    <3>2. Cardinality(invited') <= 1 + faults'.lost
      BY <2>2, NumbersTyped DEF ClaimsKept
    <3> QED  BY <3>1, <3>2 DEF UsersPaidFor
  <2> QED  BY <2>1, <2>2 DEF Inv, RedeemInv, UsersPaidFor
<1> QED  BY <1>1, <1>2, <1>3 DEF ClaimsInv

\* Whoever works on a claim is the only one to hold one, and the users so far
\* are paid for.
LEMMA AloneAtWork ==
    ASSUME Inv, NEW r \in Redeems, redeem[r].claimed, redeem[r].pc # "end"
    PROVE  /\ \A q \in Redeems \ {r} : ~redeem[q].claimed
           /\ Cardinality(invited) <= faults.lost
           /\ invite.row = "open" /\ invite.consumedAt = "set"
<1>1. \A q \in Redeems \ {r} : ~redeem[q].claimed
  BY DEF Inv, RedeemInv, Claims
<1>2. \A q \in Redeems : ~Redeemed(q)
  BY <1>1 DEF Redeemed
<1> QED  BY <1>1, <1>2 DEF Inv, RedeemInv, Claims, UsersPaidFor

\* While the row is free nobody holds a claim.
LEMMA NobodyClaims ==
    ASSUME Inv, invite.consumedAt = "null" \/ invite.row # "open"
    PROVE  (\A q \in Redeems : ~redeem[q].claimed) /\ Cardinality(invited) <= faults.lost
BY DEF Inv, RedeemInv, Claims, UsersPaidFor, Redeemed

-----------------------------------------------------------------------------
(* The steps of a redemption, and the admin's.                             *)

RedeemsMove ==
    /\ redeem' = [r \in Redeems |-> redeem'[r]]
    /\ \A r \in Redeems : RedeemMove(redeem'[r])

RedeemGoes(r) == redeem' = [redeem EXCEPT ![r] = redeem'[r]] /\ RedeemMove(redeem'[r])

LEMMA KnownRedeem ==
    ASSUME Inv, NEW r \in Redeems
    PROVE  redeem \in [Redeems -> Redeem] /\ redeem[r] \in Redeem /\ RedeemSound(redeem[r])
BY DEF Inv, RedeemInv, RedeemTyped, RedeemsSound

LEMMA KnownRow ==
    ASSUME Inv
    PROVE  /\ SharedTyped /\ user \in [Emails -> {"none", "active", "disabled"}]
           /\ invite \in Invite /\ invited \subseteq Emails /\ IsFiniteSet(invited)
BY DEF Inv, RedeemInv, RedeemTyped

LEMMA RedeemsStaySound ==
    ASSUME RedeemsMove
    PROVE  redeem' \in [Redeems -> Redeem] /\ RedeemsSound'
BY DEF RedeemsMove, RedeemMove, RedeemsSound

LEMMA OneRedeemMoves ==
    ASSUME Inv, NEW r \in Redeems, RedeemGoes(r)
    PROVE  RedeemsMove /\ \A q \in Redeems \ {r} : redeem'[q] = redeem[q]
<1>1. redeem \in [Redeems -> Redeem]
  BY DEF Inv, RedeemInv, RedeemTyped
<1>2. \A q \in Redeems \ {r} : redeem'[q] = redeem[q]
  BY <1>1 DEF RedeemGoes
<1>3. \A q \in Redeems : RedeemMove(redeem'[q])
  BY <1>2, KnownRedeem, RedeemMoves DEF RedeemGoes
<1>4. redeem' = [q \in Redeems |-> redeem'[q]]
  BY <1>1 DEF RedeemGoes
<1> QED  BY <1>2, <1>3, <1>4 DEF RedeemsMove

LEMMA RGoes ==
    ASSUME Inv, NEW r \in Redeems, NEW s, redeem' = [redeem EXCEPT ![r] = s], RedeemMove(s)
    PROVE  redeem'[r] = s /\ RedeemGoes(r)
BY DEF Inv, RedeemInv, RedeemTyped, RedeemGoes

LEMMA RedeemsQuiet ==
    ASSUME sem'.redeem = sem.redeem, \A r \in Redeems : redeem'[r].task = redeem[r].task
    PROVE  UNCHANGED RedeemQueue!vars
BY DEF RedeemQueue!vars

\* What a step of a redemption leaves.
RedeemLeaves ==
    /\ UNCHANGED <<window, dummy, login>>
    /\ sem'.login = sem.login /\ SharedTyped'

RedeemStepOk == RedeemInv' /\ RedeemLeaves /\ [RedeemQueue!Next]_(RedeemQueue!vars)

FaultsTyped == faults \in [throws : 0 .. Faults, lost : 0 .. Faults, restarts : 0 .. Faults]

LEMMA FaultLost ==
    ASSUME Inv, MayFail, faults' = [faults EXCEPT !.lost = @ + 1]
    PROVE  FaultsTyped' /\ faults'.lost = faults.lost + 1
<1>1. /\ faults.throws \in 0 .. Faults /\ faults.lost \in 0 .. Faults /\ faults.restarts \in 0 .. Faults
      /\ faults.throws + faults.lost + faults.restarts < Faults /\ Faults \in Nat
  BY Constants, KnownRow DEF SharedTyped, MayFail
<1>2. faults.lost + 1 \in 0 .. Faults
  BY <1>1
<1> QED  BY <1>1, <1>2, KnownRow DEF SharedTyped, FaultsTyped

\* A step that does not come to the semaphore, from what it does to claims.
LEMMA QuietRedeem ==
    ASSUME Inv, NEW r \in Redeems, RedeemGoes(r), redeem'[r].task = redeem[r].task,
           UNCHANGED <<window, dummy, login, sem>>, FaultsTyped',
           user' \in [Emails -> {"none", "active", "disabled"}], invite' \in Invite,
           invited' \subseteq Emails, IsFiniteSet(invited'), ClaimsInv'
    PROVE  RedeemStepOk
<1>1. RedeemsMove /\ \A q \in Redeems \ {r} : redeem'[q] = redeem[q]
  BY OneRedeemMoves
<1>2. RedeemTyped' /\ RedeemsSound'
  BY <1>1, RedeemsStaySound DEF RedeemTyped
<1>3. UNCHANGED RedeemQueue!vars
  BY <1>1, RedeemsQuiet
<1>4. RedeemLeaves
  BY KnownRow DEF RedeemLeaves, SharedTyped, FaultsTyped
<1> QED  BY <1>2, <1>3, <1>4 DEF RedeemStepOk, RedeemInv, ClaimsInv

\* One that leaves the claims alone too.
LEMMA PlainRedeem ==
    ASSUME Inv, NEW r \in Redeems, NEW s, redeem' = [redeem EXCEPT ![r] = s], RedeemMove(s),
           s.task = redeem[r].task, s.claimed <=> redeem[r].claimed, redeem[r].pc # "end",
           s.claimed /\ s.pc = "end" => s.threw,
           UNCHANGED <<user, invite, invited, window, dummy, login, sem>>, FaultsTyped',
           faults'.lost = faults.lost
    PROVE  RedeemStepOk
<1>1. redeem'[r] = s /\ RedeemGoes(r)
  BY RGoes
<1>2. \A q \in Redeems \ {r} : redeem'[q] = redeem[q]
  BY <1>1, OneRedeemMoves
<1>3. faults.lost \in Nat /\ faults'.lost \in Nat /\ faults'.lost >= faults.lost
  BY NumbersTyped
<1>4. ClaimsKept
  BY <1>1, <1>2, <1>3 DEF ClaimsKept, CutOff
<1>5. ClaimsInv'
  BY <1>3, <1>4, ClaimsStay
<1> QED  BY <1>1, <1>5, KnownRow, QuietRedeem

LEMMA GetFormOk ==
    ASSUME Inv, NEW r \in Redeems, GetForm(r)
    PROVE  RedeemStepOk
<1>1. /\ redeem[r].pc = "idle" /\ ~redeem[r].claimed
      /\ UNCHANGED <<user, invite, invited, window, dummy, sem, login, faults>> /\ FaultsTyped'
  BY KnownRedeem, KnownRow DEF GetForm, RedeemSound, FaultsTyped, SharedTyped
<1>2. CASE redeem' = [redeem EXCEPT ![r] = At(@, "form")]
  <2> DEFINE s == At(redeem[r], "form")
  <2>1. RedeemMove(s) /\ s.task = redeem[r].task /\ ~s.claimed
    BY <1>1, KnownRedeem, RedeemMoves
  <2> HIDE DEF s
  <2> QED  BY <1>1, <1>2, <2>1, PlainRedeem DEF s
<1>3. CASE \E a \in {"gone", "missing"} : redeem' = [redeem EXCEPT ![r] = Ends(@, a)]
  <2>1. PICK a \in {"gone", "missing"} : redeem' = [redeem EXCEPT ![r] = Ends(@, a)]
    BY <1>3
  <2> DEFINE s == Ends(redeem[r], a)
  <2>2. RedeemMove(s) /\ s.task = redeem[r].task /\ ~s.claimed
    BY <1>1, KnownRedeem, RedeemEnds
  <2>3. redeem' = [redeem EXCEPT ![r] = s]
    BY <2>1
  <2> HIDE DEF s
  <2> QED  BY <1>1, <2>2, <2>3, PlainRedeem
<1> QED  BY <1>2, <1>3 DEF GetForm, Refusal

LEMMA PostFormOk ==
    ASSUME Inv, NEW r \in Redeems, NEW e \in Emails, PostForm(r, e)
    PROVE  RedeemStepOk
<1> DEFINE s == [At(redeem[r], "claim") EXCEPT !.email = e]
<1>1. /\ redeem[r].pc = "form" /\ ~redeem[r].claimed /\ redeem' = [redeem EXCEPT ![r] = s]
      /\ UNCHANGED <<user, invite, invited, window, dummy, sem, login, faults>> /\ FaultsTyped'
  BY KnownRedeem, KnownRow DEF PostForm, RedeemSound, FaultsTyped, SharedTyped
<1>2. RedeemMove(s) /\ s.task = redeem[r].task /\ ~s.claimed
  BY <1>1, KnownRedeem, RedeemPosts
<1> HIDE DEF s
<1> QED  BY <1>1, <1>2, PlainRedeem

\* The claim is taken where nobody has it.
LEMMA ClaimOk ==
    ASSUME Inv, NEW r \in Redeems, Claim(r)
    PROVE  RedeemStepOk
<1>1. /\ redeem[r].pc = "claim" /\ ~redeem[r].claimed
      /\ UNCHANGED <<user, invited, window, dummy, sem, login, faults>> /\ FaultsTyped'
  BY KnownRedeem, KnownRow DEF Claim, RedeemSound, FaultsTyped, SharedTyped
<1>2. CASE UNCHANGED invite /\ redeem' = [redeem EXCEPT ![r] = At(@, "probe")]
  <2> DEFINE s == At(redeem[r], "probe")
  <2>1. RedeemMove(s) /\ s.task = redeem[r].task /\ ~s.claimed
    BY <1>1, KnownRedeem, RedeemMoves
  <2>2. redeem' = [redeem EXCEPT ![r] = s]
    BY <1>2
  <2> HIDE DEF s
  <2> QED  BY <1>1, <1>2, <2>1, <2>2, PlainRedeem
<1>3. CASE /\ Claimable(invite) /\ invite' = [invite EXCEPT !.consumedAt = "set"]
           /\ redeem' = [redeem EXCEPT ![r] = [At(@, "fetch") EXCEPT !.claimed = TRUE]]
  <2> DEFINE s == [At(redeem[r], "fetch") EXCEPT !.claimed = TRUE]
  <2>1. RedeemMove(s) /\ s.task = redeem[r].task /\ s.claimed /\ s.pc = "fetch"
    BY <1>1, KnownRedeem, RedeemMoves
  <2>2. redeem' = [redeem EXCEPT ![r] = s]
    BY <1>3
  <2> HIDE DEF s
  <2>3. redeem'[r] = s /\ RedeemGoes(r)
    BY <2>1, <2>2, RGoes
  <2>4. \A q \in Redeems \ {r} : redeem'[q] = redeem[q]
    BY <2>3, OneRedeemMoves
  <2>5. /\ invite' \in Invite /\ invite'.row = "open" /\ invite'.consumedAt = "set"
        /\ invite.row = "open" /\ invite.consumedAt = "null"
    BY <1>3, KnownRow DEF Invite, Claimable, Open
  <2>6. (\A q \in Redeems : ~redeem[q].claimed) /\ Cardinality(invited) <= faults.lost
    BY <2>5, NobodyClaims
  <2>7. ClaimsInv'
    <3>1. Claims' /\ ClaimsEnd'
      BY <2>1, <2>3, <2>4, <2>5, <2>6 DEF Claims, ClaimsEnd
    <3>2. UsersPaidFor'
      BY <1>1, <2>6 DEF UsersPaidFor
    <3> QED  BY <3>1, <3>2 DEF ClaimsInv
  <2> QED  BY <1>1, <2>1, <2>3, <2>5, <2>7, KnownRow, QuietRedeem
<1> QED  BY <1>2, <1>3 DEF Claim

LEMMA RedeemEndsOk ==
    ASSUME Inv, NEW r \in Redeems, redeem[r].pc \in {"claim", "probe", "fetch", "unbind"},
           ~redeem[r].claimed, NEW a \in {"missing", "gone"},
           redeem' = [redeem EXCEPT ![r] = Ends(@, a)],
           UNCHANGED <<user, invite, invited, window, dummy, login, sem, faults>>
    PROVE  RedeemStepOk
<1> DEFINE s == Ends(redeem[r], a)
<1>1. redeem[r].pc \in {"idle", "claim", "probe"}
  BY KnownRedeem DEF RedeemSound
<1>2. RedeemMove(s) /\ s.task = redeem[r].task /\ (s.claimed <=> redeem[r].claimed)
  BY <1>1, KnownRedeem, RedeemEnds
<1>3. FaultsTyped' /\ faults'.lost = faults.lost
  BY KnownRow DEF FaultsTyped, SharedTyped
<1>4. redeem' = [redeem EXCEPT ![r] = s]
  OBVIOUS
<1> HIDE DEF s
<1> QED  BY <1>2, <1>3, <1>4, PlainRedeem

LEMMA ProbeOk ==
    ASSUME Inv, NEW r \in Redeems, Probe(r)
    PROVE  RedeemStepOk
<1>1. redeem[r].pc = "probe" /\ ~redeem[r].claimed
  BY KnownRedeem DEF Probe, RedeemSound
<1> QED  BY <1>1, RedeemEndsOk DEF Probe, Refusal

\* The row cannot have vanished under the claim.
LEMMA FetchOk ==
    ASSUME Inv, NEW r \in Redeems, Fetch(r)
    PROVE  RedeemStepOk
<1>1. /\ redeem[r].pc = "fetch" /\ redeem[r].claimed
      /\ UNCHANGED <<user, invite, invited, window, dummy, sem, login, faults>> /\ FaultsTyped'
  BY KnownRedeem, KnownRow DEF Fetch, RedeemSound, FaultsTyped, SharedTyped
<1>2. invite.row = "open"
  BY <1>1, AloneAtWork
<1>3. PICK pc \in {"unbind", "hash"} : redeem' = [redeem EXCEPT ![r] = At(@, pc)]
  BY <1>2 DEF Fetch, AfterMismatch
<1> DEFINE s == At(redeem[r], pc)
<1>4. RedeemMove(s) /\ s.task = redeem[r].task /\ s.claimed /\ s.pc = pc
  BY <1>1, KnownRedeem, RedeemMoves
<1>5. redeem' = [redeem EXCEPT ![r] = s]
  BY <1>3
<1> HIDE DEF s
<1> QED  BY <1>1, <1>4, <1>5, PlainRedeem

LEMMA RedeemElsewhereOk ==
    ASSUME Inv, NEW r \in Redeems, RedeemElsewhere(r)
    PROVE  RedeemStepOk
<1> DEFINE s == At(redeem[r], "hash")
<1>1. /\ redeem[r].pc = "idle" /\ ~redeem[r].claimed /\ redeem' = [redeem EXCEPT ![r] = s]
      /\ UNCHANGED <<user, invite, invited, window, dummy, sem, login, faults>> /\ FaultsTyped'
  BY KnownRedeem, KnownRow DEF RedeemElsewhere, RedeemSound, FaultsTyped, SharedTyped
<1>2. RedeemMove(s) /\ s.task = redeem[r].task /\ ~s.claimed
  BY <1>1, KnownRedeem, RedeemMoves
<1> HIDE DEF s
<1> QED  BY <1>1, <1>2, PlainRedeem

\* Giving back: whoever does it holds the claim.
LEMMA GivesBackOk ==
    ASSUME Inv, NEW r \in Redeems, redeem[r].pc \in {"unbind", "revert"}, invite' = GivesBack(invite),
           NEW s, redeem' = [redeem EXCEPT ![r] = s], RedeemMove(s), s.task = redeem[r].task, ~s.claimed,
           UNCHANGED <<user, invited, window, dummy, sem, login, faults>>
    PROVE  RedeemStepOk
<1>1. redeem[r].claimed /\ FaultsTyped'
  BY KnownRedeem, KnownRow DEF RedeemSound, FaultsTyped, SharedTyped
<1>2. /\ \A q \in Redeems \ {r} : ~redeem[q].claimed
      /\ Cardinality(invited) <= faults.lost
  BY <1>1, AloneAtWork
<1>3. redeem'[r] = s /\ RedeemGoes(r)
  BY RGoes
<1>4. \A q \in Redeems \ {r} : redeem'[q] = redeem[q]
  BY <1>3, OneRedeemMoves
<1>5. invite' \in Invite /\ invite'.consumedAt = "null"
  BY KnownRow DEF Invite, GivesBack
<1>6. \A q \in Redeems : ~redeem'[q].claimed
  BY <1>2, <1>3, <1>4
<1>7. Claims' /\ ClaimsEnd'
  BY <1>5, <1>6 DEF Claims, ClaimsEnd
<1>8. UsersPaidFor'
  BY <1>2 DEF UsersPaidFor
<1>9. ClaimsInv'
  BY <1>7, <1>8 DEF ClaimsInv
<1> QED  BY <1>1, <1>3, <1>5, <1>9, KnownRow, QuietRedeem

LEMMA UnbindOk ==
    ASSUME Inv, NEW r \in Redeems, Unbind(r)
    PROVE  RedeemStepOk
<1> DEFINE s == [Ends(redeem[r], "mismatch") EXCEPT !.claimed = FALSE]
<1>1. /\ redeem[r].pc = "unbind" /\ invite' = GivesBack(invite) /\ redeem' = [redeem EXCEPT ![r] = s]
      /\ UNCHANGED <<user, invited, window, dummy, sem, login, faults>>
  BY DEF Unbind
<1>2. RedeemMove(s) /\ s.task = redeem[r].task /\ ~s.claimed
  BY <1>1, KnownRedeem, RedeemMoves
<1> HIDE DEF s
<1> QED  BY <1>1, <1>2, GivesBackOk

LEMMA RevertOk ==
    ASSUME Inv, NEW r \in Redeems, Revert(r)
    PROVE  RedeemStepOk
<1> DEFINE s == [At(redeem[r], "end") EXCEPT !.claimed = FALSE]
<1>1. /\ redeem[r].pc = "revert" /\ invite' = GivesBack(invite) /\ redeem' = [redeem EXCEPT ![r] = s]
      /\ UNCHANGED <<user, invited, window, dummy, sem, login, faults>>
  BY DEF Revert
<1>2. RedeemMove(s) /\ s.task = redeem[r].task /\ ~s.claimed
  BY <1>1, KnownRedeem, RedeemMoves
<1> HIDE DEF s
<1> QED  BY <1>1, <1>2, GivesBackOk

\* The transaction makes one user, for the only claim there is.
LEMMA CommitMakes ==
    ASSUME Inv, NEW r \in Redeems, redeem[r].pc = "commit", Commits(r)
    PROVE  /\ redeem[r].claimed /\ \A q \in Redeems \ {r} : ~redeem[q].claimed
           /\ user' \in [Emails -> {"none", "active", "disabled"}]
           /\ invite' \in Invite /\ invite'.row = "open" /\ invite'.consumedAt = "set"
           /\ invited' \subseteq Emails /\ IsFiniteSet(invited') /\ invite'.consumedBy \in invited'
           /\ Cardinality(invited') <= 1 + faults.lost
<1> DEFINE e == redeem[r].email
<1>1. redeem[r].claimed /\ e \in Emails
  BY KnownRedeem DEF RedeemSound
<1>2. /\ \A q \in Redeems \ {r} : ~redeem[q].claimed
      /\ Cardinality(invited) <= faults.lost
      /\ invite.row = "open" /\ invite.consumedAt = "set"
  BY <1>1, AloneAtWork
<1>3. /\ user' \in [Emails -> {"none", "active", "disabled"}]
      /\ invite' \in Invite /\ invite'.row = "open" /\ invite'.consumedAt = "set"
      /\ invite'.consumedBy = e /\ invited' = invited \cup {e}
  BY <1>1, <1>2, KnownRow DEF Commits, Invite
<1>4. IsFiniteSet(invited') /\ Cardinality(invited') <= Cardinality(invited) + 1
  <2>1. CASE e \in invited
    <3>1. invited' = invited
      BY <1>3, <2>1
    <3> QED  BY <3>1, NumbersTyped
  <2>2. CASE e \notin invited
    <3>1. IsFiniteSet(invited') /\ Cardinality(invited') = Cardinality(invited) + 1
      BY <1>3, <2>2, NumbersTyped, FS_AddElement
    <3> QED  BY <3>1, NumbersTyped
  <2> QED  BY <2>1, <2>2
<1>5. Cardinality(invited') \in Nat
  BY <1>4, FS_CardinalityType
<1>6. Cardinality(invited') <= 1 + faults.lost
  BY <1>2, <1>4, <1>5, NumbersTyped
<1> QED  BY <1>1, <1>2, <1>3, <1>4, <1>6, KnownRow

LEMMA CommitOk ==
    ASSUME Inv, NEW r \in Redeems, Commit(r)
    PROVE  RedeemStepOk
<1>1. /\ redeem[r].pc = "commit" /\ redeem[r].claimed
      /\ UNCHANGED <<window, dummy, sem, login, faults>> /\ FaultsTyped'
  BY KnownRedeem, KnownRow DEF Commit, RedeemSound, FaultsTyped, SharedTyped
<1>2. CASE /\ redeem' = [redeem EXCEPT ![r] = AfterFailure(@, "taken")]
           /\ UNCHANGED <<user, invite, invited>>
  <2> DEFINE s == AfterFailure(redeem[r], "taken")
  <2>1. RedeemMove(s) /\ s.task = redeem[r].task /\ s.claimed /\ s.pc = "revert"
    BY <1>1, KnownRedeem, RedeemFails
  <2>2. redeem' = [redeem EXCEPT ![r] = s]
    BY <1>2
  <2> HIDE DEF s
  <2> QED  BY <1>1, <1>2, <2>1, <2>2, PlainRedeem
<1>3. CASE Commits(r) /\ redeem' = [redeem EXCEPT ![r] = Ends(@, "in")]
  <2> DEFINE s == Ends(redeem[r], "in")
  <2>1. RedeemMove(s) /\ s.task = redeem[r].task /\ s.claimed /\ s.pc = "end" /\ s.answer = "in"
    BY <1>1, KnownRedeem, RedeemEnds
  <2>2. redeem' = [redeem EXCEPT ![r] = s]
    BY <1>3
  <2> HIDE DEF s
  <2>3. redeem'[r] = s /\ RedeemGoes(r)
    BY <2>1, <2>2, RGoes
  <2>4. \A q \in Redeems \ {r} : redeem'[q] = redeem[q]
    BY <2>3, OneRedeemMoves
  <2>5. /\ \A q \in Redeems \ {r} : ~redeem[q].claimed
        /\ user' \in [Emails -> {"none", "active", "disabled"}]
        /\ invite' \in Invite /\ invite'.row = "open" /\ invite'.consumedAt = "set"
        /\ invited' \subseteq Emails /\ IsFiniteSet(invited') /\ invite'.consumedBy \in invited'
        /\ Cardinality(invited') <= 1 + faults.lost
    BY <1>1, <1>3, CommitMakes
  <2>6. \A q \in Redeems : redeem'[q].claimed => q = r
    BY <2>4, <2>5
  <2>7. Claims' /\ ClaimsEnd'
    BY <2>1, <2>3, <2>5, <2>6 DEF Claims, ClaimsEnd
  <2>8. UsersPaidFor'
    BY <1>1, <2>1, <2>3, <2>5 DEF UsersPaidFor, Redeemed
  <2>9. ClaimsInv'
    BY <2>7, <2>8 DEF ClaimsInv
  <2> QED  BY <1>1, <2>1, <2>3, <2>5, <2>9, QuietRedeem
<1> QED  BY <1>2, <1>3 DEF Commit

LEMMA CommitUnheardOk ==
    ASSUME Inv, NEW r \in Redeems, CommitUnheard(r)
    PROVE  RedeemStepOk
<1> DEFINE s == AfterFailure(redeem[r], "error")
<1>1. /\ redeem[r].pc = "commit" /\ Commits(r) /\ MayFail /\ faults' = [faults EXCEPT !.lost = @ + 1]
      /\ redeem' = [redeem EXCEPT ![r] = s] /\ UNCHANGED <<window, dummy, sem, login>>
  BY DEF CommitUnheard
<1>2. RedeemMove(s) /\ s.task = redeem[r].task /\ s.claimed /\ s.pc = "revert"
  BY <1>1, KnownRedeem, RedeemFails
<1>3. FaultsTyped' /\ faults'.lost = faults.lost + 1
  BY <1>1, FaultLost
<1>4. redeem'[r] = s /\ RedeemGoes(r)
  BY <1>1, <1>2, RGoes
<1> HIDE DEF s
<1>5. \A q \in Redeems \ {r} : redeem'[q] = redeem[q]
  BY <1>4, OneRedeemMoves
<1>6. /\ \A q \in Redeems \ {r} : ~redeem[q].claimed
      /\ user' \in [Emails -> {"none", "active", "disabled"}]
      /\ invite' \in Invite /\ invite'.row = "open" /\ invite'.consumedAt = "set"
      /\ invited' \subseteq Emails /\ IsFiniteSet(invited')
      /\ Cardinality(invited') <= 1 + faults.lost
  BY <1>1, CommitMakes
<1>7. \A q \in Redeems : redeem'[q].claimed => q = r
  BY <1>5, <1>6
<1>8. Claims' /\ ClaimsEnd'
  BY <1>2, <1>4, <1>6, <1>7 DEF Claims, ClaimsEnd
<1>9. UsersPaidFor'
  <2>1. Cardinality(invited') <= faults'.lost
    BY <1>3, <1>6, NumbersTyped
  <2> QED  BY <2>1 DEF UsersPaidFor
<1>10. ClaimsInv'
  BY <1>8, <1>9 DEF ClaimsInv
<1> QED  BY <1>1, <1>2, <1>3, <1>4, <1>6, <1>10, QuietRedeem

LEMMA RedeemThrowsOk ==
    ASSUME Inv, NEW r \in Redeems, RedeemThrows(r)
    PROVE  RedeemStepOk
<1>1. /\ redeem[r].pc \in {"claim", "probe", "fetch", "unbind", "commit", "revert"}
      /\ MayFail /\ faults' = [faults EXCEPT !.throws = @ + 1]
      /\ redeem' = [redeem EXCEPT ![r] = AfterThrow(redeem[r])]
      /\ UNCHANGED <<user, invite, invited, window, dummy, sem, login>>
  BY DEF RedeemThrows
<1>2. FaultsTyped' /\ faults'.lost = faults.lost
  BY <1>1, KnownRow, FaultThrown DEF FaultsTyped
<1>3. CASE redeem[r].pc = "commit"
  <2> DEFINE s == AfterFailure(redeem[r], "error")
  <2>1. RedeemMove(s) /\ s.task = redeem[r].task /\ s.claimed /\ s.pc = "revert" /\ redeem[r].claimed
    BY <1>3, KnownRedeem, RedeemFails DEF RedeemSound
  <2>2. redeem' = [redeem EXCEPT ![r] = s]
    BY <1>1, <1>3 DEF AfterThrow
  <2> HIDE DEF s
  <2> QED  BY <1>1, <1>2, <2>1, <2>2, PlainRedeem
<1>4. CASE redeem[r].pc = "revert"
  <2> DEFINE s == [At(redeem[r], "end") EXCEPT !.threw = TRUE]
  <2>1. RedeemMove(s) /\ s.task = redeem[r].task /\ s.claimed /\ s.threw /\ redeem[r].claimed
    BY <1>4, KnownRedeem, RedeemMoves DEF RedeemSound
  <2>2. redeem' = [redeem EXCEPT ![r] = s]
    BY <1>1, <1>4 DEF AfterThrow
  <2> HIDE DEF s
  <2> QED  BY <1>1, <1>2, <1>4, <2>1, <2>2, PlainRedeem
<1>5. CASE redeem[r].pc \in {"claim", "probe", "fetch", "unbind"}
  <2> DEFINE s == Threw(redeem[r])
  <2>1. RedeemMove(s) /\ s.task = redeem[r].task /\ (s.claimed <=> redeem[r].claimed) /\ s.threw
    BY <1>5, KnownRedeem, RedeemThrew DEF RedeemSound
  <2>2. redeem' = [redeem EXCEPT ![r] = s]
    BY <1>1, <1>5 DEF AfterThrow
  <2> HIDE DEF s
  <2> QED  BY <1>1, <1>2, <1>5, <2>1, <2>2, PlainRedeem
<1> QED  BY <1>1, <1>3, <1>4, <1>5

-----------------------------------------------------------------------------
(* The steps at the redeem semaphore.                                      *)

LEMMA RedeemWaits ==
    ASSUME Inv
    PROVE  /\ sem.redeem \in [active : Nat, waiters : Seq(Redeems)]
           /\ \A i \in DOMAIN sem.redeem.waiters :
                 sem.redeem.waiters[i] \in Redeems /\ redeem[sem.redeem.waiters[i]].task = "waiting"
<1>1. sem.redeem \in [active : Nat, waiters : Seq(Redeems)]
  BY DEF Inv, Queues, RedeemQueue!Inv, RedeemQueue!TypeOK
<1>2. \A i \in DOMAIN sem.redeem.waiters : sem.redeem.waiters[i] \in Redeems
  BY <1>1
<1>3. \A i \in DOMAIN sem.redeem.waiters :
         [r \in Redeems |-> redeem[r].task][sem.redeem.waiters[i]] = "waiting"
  BY DEF Inv, Queues, RedeemQueue!Inv, RedeemQueue!SemaphoreInv, RedeemQueue!QueueIsWaiters
<1> QED  BY <1>1, <1>2, <1>3

LEMMA SemaphoreRedeem ==
    ASSUME Inv, RedeemsMove,
           \A q \in Redeems :
              /\ redeem'[q].claimed <=> redeem[q].claimed
              /\ redeem[q].pc = "end" => redeem'[q] = redeem[q]
              /\ redeem'[q].claimed /\ redeem'[q].pc = "end" =>
                    redeem[q].pc = "end" \/ redeem'[q].task = "rejected" \/ redeem'[q].threw,
           UNCHANGED <<invite, invited, login, window, dummy>>, FaultsTyped', faults'.lost = faults.lost,
           user' \in [Emails -> {"none", "active", "disabled"}],
           NEW s, sem' = [sem EXCEPT !.redeem = s],
           [RedeemQueue!Next]_(RedeemQueue!vars)
    PROVE  RedeemStepOk
<1>1. RedeemTyped' /\ RedeemsSound'
  BY RedeemsStaySound, KnownRow DEF RedeemTyped
<1>2. faults.lost \in Nat /\ faults'.lost \in Nat /\ faults'.lost >= faults.lost
  BY NumbersTyped
<1>3. ClaimsKept
  BY <1>2 DEF ClaimsKept, CutOff
<1>4. ClaimsInv'
  BY <1>2, <1>3, ClaimsStay
<1>5. sem'.login = sem.login /\ DOMAIN sem' = {"login", "redeem"}
  BY KnownRow DEF SharedTyped
<1>6. RedeemLeaves
  BY <1>5, KnownRow DEF RedeemLeaves, SharedTyped, FaultsTyped
<1> QED  BY <1>1, <1>4, <1>6, KnownRow DEF RedeemStepOk, RedeemInv, ClaimsInv

LEMMA RedeemEnterOk ==
    ASSUME Inv, NEW r \in Redeems, RedeemEnter(r)
    PROVE  RedeemStepOk
<1> DEFINE t == IF LoginSem!HasPermit(sem.redeem) THEN "running" ELSE "waiting"
           s == [redeem[r] EXCEPT !.task = t]
<1>1. /\ redeem[r].pc = "hash" /\ redeem[r].task = "new"
      /\ sem' = [sem EXCEPT !.redeem = RedeemSem!Enter(sem.redeem, r)]
      /\ UNCHANGED <<user, invite, invited, window, dummy, login, faults>>
  BY DEF RedeemEnter
<1>2. redeem' = [redeem EXCEPT ![r] = s]
  BY DEF RedeemEnter, Admitted
<1>3. RedeemMove(s) /\ s.task = t /\ (s.claimed <=> redeem[r].claimed) /\ s.pc = "hash"
  BY <1>1, KnownRedeem, RedeemTask
<1>4. redeem'[r] = s /\ RedeemGoes(r)
  BY <1>2, <1>3, RGoes
<1> HIDE DEF s
<1>5. RedeemsMove /\ \A q \in Redeems \ {r} : redeem'[q] = redeem[q]
  BY <1>4, OneRedeemMoves
<1>6. RedeemQueue!Run(r)
  <2>1. sem'.redeem = RedeemQueue!Enter(sem.redeem, r)
    BY <1>1, KnownRow DEF SharedTyped, RedeemSem!Enter, RedeemQueue!Enter, RedeemSem!HasPermit,
       RedeemQueue!HasPermit
  <2>2. t = IF RedeemQueue!HasPermit(sem.redeem) THEN "running" ELSE "waiting"
    BY DEF LoginSem!HasPermit, RedeemQueue!HasPermit
  <2>3. [q \in Redeems |-> redeem'[q].task] = [[q \in Redeems |-> redeem[q].task] EXCEPT ![r] = t]
    BY <1>3, <1>4, <1>5
  <2> HIDE DEF t
  <2> QED  BY <1>1, <2>1, <2>2, <2>3 DEF RedeemQueue!Run
<1>7. [RedeemQueue!Next]_(RedeemQueue!vars)
  BY <1>6 DEF RedeemQueue!Next
<1>8. FaultsTyped' /\ faults'.lost = faults.lost
  BY <1>1, KnownRow DEF SharedTyped, FaultsTyped
<1> QED  BY <1>1, <1>3, <1>4, <1>5, <1>7, <1>8, KnownRow, SemaphoreRedeem

LEMMA TasksAfter ==
    ASSUME NEW r \in Redeems, redeem'[r].task = "done"
    PROVE  /\ (\A q \in Redeems \ {r} : redeem'[q] = redeem[q]) =>
                 [q \in Redeems |-> redeem'[q].task]
                    = [[q \in Redeems |-> redeem[q].task] EXCEPT ![r] = "done"]
           /\ \A h \in Redeems \ {r} :
                 /\ redeem'[h].task = "running"
                 /\ \A q \in Redeems \ {h, r} : redeem'[q] = redeem[q]
                 => [q \in Redeems |-> redeem'[q].task]
                       = [[q \in Redeems |-> redeem[q].task] EXCEPT ![r] = "done", ![h] = "running"]
OBVIOUS

\* The hash is done; the permit goes back or on.
LEMMA RedeemHashDoneOk ==
    ASSUME Inv, NEW r \in Redeems, redeem[r].task = "running", NEW s,
           RedeemMove(s), s.task = "done", s.claimed <=> redeem[r].claimed,
           s.claimed => s.pc = "commit" \/ s.threw,
           sem' = [sem EXCEPT !.redeem = RedeemSem!Leave(sem.redeem)],
           redeem' = [HandedOn(redeem, sem.redeem) EXCEPT ![r] = s],
           UNCHANGED <<invite, invited, window, dummy, login>>, FaultsTyped', faults'.lost = faults.lost,
           user' \in [Emails -> {"none", "active", "disabled"}]
    PROVE  RedeemStepOk
<1> DEFINE w == sem.redeem.waiters
<1>1. redeem \in [Redeems -> Redeem] /\ redeem[r] \in Redeem /\ redeem[r].pc = "hash"
  BY KnownRedeem DEF RedeemSound
<1>2. sem'.redeem = RedeemQueue!Leave(sem.redeem)
  BY KnownRow DEF SharedTyped, RedeemSem!Leave, RedeemQueue!Leave
<1>3. CASE w = <<>>
  <2>1. redeem' = [redeem EXCEPT ![r] = s]
    BY <1>3 DEF HandedOn
  <2>2. redeem'[r] = s /\ RedeemGoes(r)
    BY <2>1, RGoes
  <2>3. RedeemsMove /\ \A q \in Redeems \ {r} : redeem'[q] = redeem[q]
    BY <2>2, OneRedeemMoves
  <2>4. [q \in Redeems |-> redeem'[q].task] = [[q \in Redeems |-> redeem[q].task] EXCEPT ![r] = "done"]
    BY <2>2, <2>3, TasksAfter, Zenon
  <2>5. RedeemQueue!Finish(r)
    BY <1>2, <1>3, <2>4 DEF RedeemQueue!Finish
  <2>6. [RedeemQueue!Next]_(RedeemQueue!vars)
    BY <2>5 DEF RedeemQueue!Next
  <2> QED  BY <1>1, <2>2, <2>3, <2>6, SemaphoreRedeem
<1>4. CASE w # <<>>
  <2> DEFINE h == Head(w)
             g == [redeem[h] EXCEPT !.task = "running"]
  <2>1. h = w[1] /\ 1 \in DOMAIN w
    BY <1>4, RedeemWaits
  <2>2. h \in Redeems /\ redeem[h].task = "waiting" /\ h # r
    BY <2>1, RedeemWaits
  <2>3. redeem' = [[redeem EXCEPT ![h] = g] EXCEPT ![r] = s]
    BY <1>4 DEF HandedOn
  <2> HIDE DEF h, g
  <2>4. redeem[h] \in Redeem /\ RedeemSound(redeem[h]) /\ redeem[h].pc = "hash"
    BY <2>2, KnownRedeem DEF RedeemSound
  <2>5. RedeemMove(g) /\ g.task = "running" /\ (g.claimed <=> redeem[h].claimed) /\ g.pc = "hash"
    BY <2>2, <2>4, RedeemTask DEF g
  <2>6. redeem'[r] = s /\ redeem'[h] = g /\ \A q \in Redeems \ {h, r} : redeem'[q] = redeem[q]
    BY <1>1, <2>2, <2>3
  <2>7. RedeemsMove
    <3>1. \A q \in Redeems : RedeemMove(redeem'[q])
      BY <2>5, <2>6, KnownRedeem, RedeemMoves
    <3> QED  BY <1>1, <2>3, <3>1 DEF RedeemsMove
  <2>8. [q \in Redeems |-> redeem'[q].task]
           = [[q \in Redeems |-> redeem[q].task] EXCEPT ![r] = "done", ![h] = "running"]
    <3>1. redeem'[r].task = "done" /\ redeem'[h].task = "running" /\ h \in Redeems \ {r}
      BY <2>2, <2>5, <2>6, Zenon
    <3> QED  BY <2>6, <3>1, TasksAfter, Zenon
  <2>9. RedeemQueue!Finish(r)
    BY <1>2, <1>4, <2>8 DEF RedeemQueue!Finish, h
  <2>10. [RedeemQueue!Next]_(RedeemQueue!vars)
    BY <2>9 DEF RedeemQueue!Next
  <2> QED  BY <1>1, <2>4, <2>5, <2>6, <2>7, <2>10, SemaphoreRedeem
<1> QED  BY <1>3, <1>4

LEMMA RedeemHashedOk ==
    ASSUME Inv, NEW r \in Redeems, RedeemHashed(r) \/ HashedElsewhere(r) \/ RedeemHashFails(r)
    PROVE  RedeemStepOk
<1>1. HandedOn(redeem, sem.redeem)[r] = redeem[r]
  <2>1. redeem[r].task = "running" /\ redeem \in [Redeems -> Redeem]
    BY KnownRedeem DEF RedeemHashed, HashedElsewhere, RedeemHashFails
  <2>2. CASE sem.redeem.waiters = <<>>
    BY <2>2 DEF HandedOn
  <2>3. CASE sem.redeem.waiters # <<>>
    <3>1. Head(sem.redeem.waiters) # r
      BY <2>1, <2>3, RedeemWaits
    <3> QED  BY <2>1, <2>3, <3>1 DEF HandedOn
  <2> QED  BY <2>2, <2>3
<1>2. DOMAIN HandedOn(redeem, sem.redeem) = Redeems
  BY KnownRedeem DEF HandedOn
<1>3. CASE RedeemHashed(r)
  <2> DEFINE s == At(Hashed(redeem[r]), "commit")
  <2>1. /\ redeem[r].task = "running" /\ redeem[r].email # NoEmail
        /\ sem' = [sem EXCEPT !.redeem = RedeemSem!Leave(sem.redeem)]
        /\ redeem' = [HandedOn(redeem, sem.redeem) EXCEPT ![r] = s]
        /\ UNCHANGED <<user, invite, invited, window, dummy, login, faults>>
    BY <1>1, <1>2, <1>3 DEF RedeemHashed
  <2>2. /\ RedeemMove(s) /\ s.task = "done" /\ (s.claimed <=> redeem[r].claimed)
        /\ s.claimed => s.pc = "commit" \/ s.threw
    BY <2>1, KnownRedeem, RedeemHashDone
  <2>3. FaultsTyped' /\ faults'.lost = faults.lost
    BY <2>1, KnownRow DEF SharedTyped, FaultsTyped
  <2> HIDE DEF s
  <2> QED  BY <2>1, <2>2, <2>3, KnownRow, RedeemHashDoneOk
<1>4. CASE HashedElsewhere(r)
  <2> DEFINE s == Ends(Hashed(redeem[r]), "in")
  <2>1. /\ redeem[r].task = "running" /\ redeem[r].email = NoEmail
        /\ sem' = [sem EXCEPT !.redeem = RedeemSem!Leave(sem.redeem)]
        /\ redeem' = [HandedOn(redeem, sem.redeem) EXCEPT ![r] = s]
        /\ UNCHANGED <<invite, invited, window, dummy, login, faults>>
    BY <1>1, <1>2, <1>4 DEF HashedElsewhere
  <2>2. /\ RedeemMove(s) /\ s.task = "done" /\ (s.claimed <=> redeem[r].claimed)
        /\ s.claimed => s.pc = "commit" \/ s.threw
    BY <2>1, KnownRedeem, RedeemHashDone
  <2>3. user' \in [Emails -> {"none", "active", "disabled"}]
    BY <1>4, KnownRow DEF HashedElsewhere
  <2>4. FaultsTyped' /\ faults'.lost = faults.lost
    BY <2>1, KnownRow DEF SharedTyped, FaultsTyped
  <2> HIDE DEF s
  <2> QED  BY <2>1, <2>2, <2>3, <2>4, RedeemHashDoneOk
<1>5. CASE RedeemHashFails(r)
  <2> DEFINE s == Threw(Hashed(redeem[r]))
  <2>1. /\ redeem[r].task = "running" /\ MayFail /\ faults' = [faults EXCEPT !.throws = @ + 1]
        /\ sem' = [sem EXCEPT !.redeem = RedeemSem!Leave(sem.redeem)]
        /\ redeem' = [HandedOn(redeem, sem.redeem) EXCEPT ![r] = s]
        /\ UNCHANGED <<user, invite, invited, window, dummy, login>>
    BY <1>1, <1>2, <1>5 DEF RedeemHashFails
  <2>2. /\ RedeemMove(s) /\ s.task = "done" /\ (s.claimed <=> redeem[r].claimed)
        /\ s.claimed => s.pc = "commit" \/ s.threw
    BY <2>1, KnownRedeem, RedeemHashDone
  <2>3. FaultsTyped' /\ faults'.lost = faults.lost
    BY <2>1, KnownRow, FaultThrown DEF FaultsTyped
  <2> HIDE DEF s
  <2> QED  BY <2>1, <2>2, <2>3, KnownRow, RedeemHashDoneOk
<1> QED  BY <1>3, <1>4, <1>5

LEMMA RedeemTimesOutOk ==
    ASSUME Inv, NEW r \in Redeems, RedeemTimesOut(r)
    PROVE  RedeemStepOk
<1> DEFINE s == GivenUp(redeem[r])
<1>1. /\ redeem[r].task = "waiting" /\ redeem' = [redeem EXCEPT ![r] = s]
      /\ UNCHANGED <<user, invite, invited, window, dummy, login, faults>>
  BY DEF RedeemTimesOut
<1>2. PICK i \in DOMAIN sem.redeem.waiters :
         sem.redeem.waiters[i] = r /\ sem' = [sem EXCEPT !.redeem = RedeemSem!Spliced(sem.redeem, i)]
  BY DEF RedeemTimesOut
<1>3. RedeemMove(s) /\ s.task = "rejected" /\ (s.claimed <=> redeem[r].claimed) /\ redeem[r].pc # "end"
  BY <1>1, KnownRedeem, RedeemGivenUp DEF RedeemSound
<1>4. redeem'[r] = s /\ RedeemGoes(r)
  BY <1>1, <1>3, RGoes
<1> HIDE DEF s
<1>5. RedeemsMove /\ \A q \in Redeems \ {r} : redeem'[q] = redeem[q]
  BY <1>4, OneRedeemMoves
<1>6. [q \in Redeems |-> redeem'[q].task] = [[q \in Redeems |-> redeem[q].task] EXCEPT ![r] = "rejected"]
  BY <1>3, <1>4, <1>5
<1>7. sem'.redeem = RedeemQueue!Spliced(sem.redeem, i)
  BY <1>2, KnownRow DEF SharedTyped, RedeemSem!Spliced, RedeemQueue!Spliced
<1>8. RedeemQueue!TimeOut(r)
  BY <1>1, <1>2, <1>6, <1>7 DEF RedeemQueue!TimeOut
<1>9. [RedeemQueue!Next]_(RedeemQueue!vars)
  BY <1>8 DEF RedeemQueue!Next
<1>10. FaultsTyped' /\ faults'.lost = faults.lost
  BY <1>1, KnownRow DEF SharedTyped, FaultsTyped
<1> QED  BY <1>1, <1>2, <1>3, <1>4, <1>5, <1>9, <1>10, KnownRow, SemaphoreRedeem

LEMMA RedeemStepsOk ==
    ASSUME Inv, NEW r \in Redeems, RedeemStep(r)
    PROVE  RedeemStepOk
BY GetFormOk, PostFormOk, ClaimOk, ProbeOk, FetchOk, UnbindOk, RedeemElsewhereOk, RedeemEnterOk,
   RedeemHashedOk, RedeemTimesOutOk, CommitOk, CommitUnheardOk, RevertOk, RedeemThrowsOk
DEF RedeemStep

-----------------------------------------------------------------------------
(* The admin, and the restart.                                             *)

AdminStep == AdminInvites \/ InviteExpires \/ AdminRevokes \/ \E e \in Emails : Disable(e)

\* The row is only taken away while nobody claims it.
LEMMA AdminStepsOk ==
    ASSUME Inv, AdminStep
    PROVE  RedeemStepOk
<1>1. UNCHANGED <<invited, window, dummy, sem, login, redeem, faults>>
  BY DEF AdminStep, AdminInvites, InviteExpires, AdminRevokes, Disable
<1>2. user' \in [Emails -> {"none", "active", "disabled"}] /\ invite' \in Invite
  BY KnownRow DEF AdminStep, AdminInvites, InviteExpires, AdminRevokes, Disable, Invite, NoInvite
<1>3. ClaimsInv'
  <2>1. CASE UNCHANGED <<invite.row, invite.consumedAt, invite.consumedBy>>
    <3>1. ClaimsKept
      BY <1>1, <2>1, NumbersTyped DEF ClaimsKept
    <3> QED  BY <1>1, <3>1, NumbersTyped, ClaimsStay
  <2>2. CASE invite'.consumedAt = "null" /\ (invite.consumedAt = "null" \/ invite.row # "open")
    <3>1. (\A q \in Redeems : ~redeem[q].claimed) /\ Cardinality(invited) <= faults.lost
      BY <2>2, NobodyClaims
    <3>2. Claims' /\ ClaimsEnd' /\ UsersPaidFor'
      BY <1>1, <2>2, <3>1 DEF Claims, ClaimsEnd, UsersPaidFor
    <3> QED  BY <3>2 DEF ClaimsInv
  <2>3. CASE AdminInvites
    BY <2>2, <2>3, KnownRow DEF AdminInvites, NoInvite
  <2>4. CASE AdminRevokes
    BY <2>2, <2>4, KnownRow DEF AdminRevokes, Revocable, Invite
  <2>5. CASE InviteExpires \/ \E e \in Emails : Disable(e)
    BY <2>1, <2>5, KnownRow DEF InviteExpires, Disable, Invite
  <2> QED  BY <2>3, <2>4, <2>5 DEF AdminStep
<1>4. RedeemTyped' /\ RedeemsSound' /\ IsFiniteSet(invited')
  BY <1>1, <1>2, KnownRow DEF Inv, RedeemInv, RedeemTyped, RedeemsSound
<1>5. RedeemLeaves
  BY <1>1, KnownRow DEF RedeemLeaves, SharedTyped
<1>6. UNCHANGED RedeemQueue!vars
  BY <1>1, RedeemsQuiet
<1> QED  BY <1>3, <1>4, <1>5, <1>6 DEF RedeemStepOk, RedeemInv, ClaimsInv

\* A restart loses the requests in progress and both queues, no row.
LEMMA RestartLogins ==
    ASSUME Inv, RestartApi
    PROVE  LoginInv' /\ LoginQueue!Restart
<1>1. /\ sem'.login = LoginSem!NoPermits /\ dummy' = "unset" /\ window' = window
      /\ login' = [l \in Logins |-> Dead(login[l])]
  BY DEF RestartApi
<1> DEFINE early == {l \in Logins : login[l].task = "new" /\ login[l].pc \notin {"idle", "form", "end"}}
<1>2. ASSUME NEW l \in Logins
      PROVE  /\ LoginMove(login[l], login'[l]) /\ (login'[l].counted => login[l].counted)
             /\ login'[l].task = IF l \in early \/ login[l].task \in {"waiting", "running"}
                                 THEN "lost" ELSE login[l].task
  <2>1. login[l] \in Login /\ LoginSound(login[l]) /\ login'[l] = Dead(login[l])
    BY <1>1, KnownState, KnownLogin
  <2>2. /\ LoginMove(login[l], login'[l]) /\ (login'[l].counted => login[l].counted)
        /\ login'[l].task = IF \/ login[l].task \in {"waiting", "running"}
                               \/ login[l].task = "new" /\ login[l].pc \notin {"idle", "form", "end"}
                            THEN "lost" ELSE login[l].task
    BY <2>1, LoginDies
  <2> QED  BY <2>2
<1>3. LoginsMove
  BY <1>1, <1>2 DEF LoginsMove
<1>4. LoginTyped' /\ LoginsSound'
  BY <1>1, <1>3, LoginsStaySound, KnownState DEF LoginTyped
<1>5. CountedInWindow'
  BY <1>1, <1>2, <1>3, CountsAsBefore, KnownState DEF LoginInv
<1>6. LoginQueue!Restart
  <2>1. early \in SUBSET {l \in Logins : [k \in Logins |-> login[k].task][l] = "new"}
    OBVIOUS
  <2> HIDE DEF early
  <2>2. [l \in Logins |-> login'[l].task] = [l \in Logins |->
           IF l \in early \/ [k \in Logins |-> login[k].task][l] \in {"waiting", "running"}
           THEN "lost" ELSE [k \in Logins |-> login[k].task][l]]
    BY <1>2
  <2>3. sem'.login = LoginQueue!NoPermits
    BY <1>1 DEF LoginSem!NoPermits, LoginQueue!NoPermits
  <2> QED  BY <2>1, <2>2, <2>3 DEF LoginQueue!Restart
<1> QED  BY <1>4, <1>5, <1>6 DEF LoginInv

LEMMA RestartRedeems ==
    ASSUME Inv, RestartApi
    PROVE  RedeemInv' /\ RedeemQueue!Restart /\ SharedTyped'
<1>1. /\ sem'.redeem = LoginSem!NoPermits /\ UNCHANGED <<user, invite, invited>>
      /\ redeem' = [r \in Redeems |-> Dead(redeem[r])]
      /\ MayFail /\ faults' = [faults EXCEPT !.restarts = @ + 1]
      /\ sem' = [login |-> LoginSem!NoPermits, redeem |-> LoginSem!NoPermits]
  BY DEF RestartApi
<1> DEFINE early == {r \in Redeems : redeem[r].task = "new" /\ redeem[r].pc \notin {"idle", "form", "end"}}
<1>2. ASSUME NEW r \in Redeems
      PROVE  /\ RedeemMove(redeem'[r]) /\ (redeem'[r].claimed <=> redeem[r].claimed)
             /\ redeem[r].pc = "end" => redeem'[r] = redeem[r]
             /\ redeem'[r].pc = "end" => redeem[r].pc = "end" \/ redeem'[r].answer = "dead"
             /\ redeem'[r].task = IF r \in early \/ redeem[r].task \in {"waiting", "running"}
                                  THEN "lost" ELSE redeem[r].task
  <2>1. redeem[r] \in Redeem /\ RedeemSound(redeem[r]) /\ redeem'[r] = Dead(redeem[r])
    BY <1>1, KnownRedeem
  <2>2. /\ RedeemMove(redeem'[r]) /\ (redeem'[r].claimed <=> redeem[r].claimed)
        /\ redeem[r].pc = "end" => redeem'[r] = redeem[r]
        /\ redeem'[r].pc = "end" => redeem[r].pc = "end" \/ redeem'[r].answer = "dead"
        /\ redeem'[r].task = IF \/ redeem[r].task \in {"waiting", "running"}
                                \/ redeem[r].task = "new" /\ redeem[r].pc \notin {"idle", "form", "end"}
                             THEN "lost" ELSE redeem[r].task
    BY <2>1, RedeemDies
  <2> QED  BY <2>2
<1>3. RedeemsMove
  BY <1>1, <1>2 DEF RedeemsMove
<1>4. RedeemTyped' /\ RedeemsSound' /\ IsFiniteSet(invited')
  BY <1>1, <1>3, RedeemsStaySound, KnownRow DEF RedeemTyped
<1>5. FaultsTyped' /\ faults'.lost = faults.lost
  <2>1. /\ faults.throws \in 0 .. Faults /\ faults.lost \in 0 .. Faults /\ faults.restarts \in 0 .. Faults
        /\ faults.throws + faults.lost + faults.restarts < Faults /\ Faults \in Nat
    BY <1>1, Constants, KnownRow DEF SharedTyped, MayFail
  <2>2. faults.restarts + 1 \in 0 .. Faults
    BY <2>1
  <2> QED  BY <1>1, <2>1, <2>2, KnownRow DEF SharedTyped, FaultsTyped
<1>6. ClaimsKept
  BY <1>1, <1>2, <1>5, NumbersTyped DEF ClaimsKept, CutOff
<1>7. ClaimsInv'
  BY <1>5, <1>6, NumbersTyped, ClaimsStay
<1>8. RedeemQueue!Restart
  <2>1. early \in SUBSET {r \in Redeems : [k \in Redeems |-> redeem[k].task][r] = "new"}
    OBVIOUS
  <2> HIDE DEF early
  <2>2. [r \in Redeems |-> redeem'[r].task] = [r \in Redeems |->
           IF r \in early \/ [k \in Redeems |-> redeem[k].task][r] \in {"waiting", "running"}
           THEN "lost" ELSE [k \in Redeems |-> redeem[k].task][r]]
    BY <1>2
  <2>3. sem'.redeem = RedeemQueue!NoPermits
    BY <1>1 DEF LoginSem!NoPermits, RedeemQueue!NoPermits
  <2> QED  BY <2>1, <2>2, <2>3 DEF RedeemQueue!Restart
<1>9. SharedTyped'
  BY <1>1, <1>5 DEF SharedTyped, FaultsTyped
<1> QED  BY <1>4, <1>7, <1>8, <1>9 DEF RedeemInv, ClaimsInv

-----------------------------------------------------------------------------
(* The whole step.                                                         *)

QueueSteps == [LoginQueue!Next]_(LoginQueue!vars) /\ [RedeemQueue!Next]_(RedeemQueue!vars)

LEMMA StepOk ==
    ASSUME Inv, [Next]_vars
    PROVE  SharedTyped' /\ LoginInv' /\ RedeemInv' /\ QueueSteps
<1>1. ASSUME LoginStepOk PROVE SharedTyped' /\ LoginInv' /\ RedeemInv' /\ QueueSteps
  <2>1. /\ UNCHANGED <<user, invite, invited, redeem>> /\ sem'.redeem = sem.redeem
        /\ faults'.lost = faults.lost
        /\ SharedTyped' /\ LoginInv' /\ [LoginQueue!Next]_(LoginQueue!vars)
    BY <1>1 DEF LoginStepOk, LoginLeaves
  <2>2. UNCHANGED RedeemQueue!vars
    BY <2>1, RedeemsQuiet
  <2>3. ClaimsKept
    BY <2>1, NumbersTyped DEF ClaimsKept
  <2>4. ClaimsInv'
    BY <2>1, <2>3, NumbersTyped, ClaimsStay
  <2>5. RedeemTyped' /\ RedeemsSound' /\ IsFiniteSet(invited')
    BY <2>1 DEF Inv, RedeemInv, RedeemTyped, RedeemsSound
  <2> QED  BY <2>1, <2>2, <2>4, <2>5 DEF QueueSteps, RedeemInv, ClaimsInv
<1>2. ASSUME RedeemStepOk PROVE SharedTyped' /\ LoginInv' /\ RedeemInv' /\ QueueSteps
  <2>1. /\ UNCHANGED <<window, dummy, login>> /\ sem'.login = sem.login
        /\ SharedTyped' /\ RedeemInv' /\ [RedeemQueue!Next]_(RedeemQueue!vars)
    BY <1>2 DEF RedeemStepOk, RedeemLeaves
  <2>2. UNCHANGED LoginQueue!vars
    BY <2>1, LoginsQuiet
  <2>3. LoginInv'
    BY <2>1 DEF Inv, LoginInv, LoginTyped, LoginsSound, CountedInWindow, NobodyVerified, CountedFor
  <2> QED  BY <2>1, <2>2, <2>3 DEF QueueSteps
<1>3. CASE RestartApi
  BY <1>3, RestartLogins, RestartRedeems DEF QueueSteps, LoginQueue!Next, RedeemQueue!Next
<1>4. CASE UNCHANGED vars
  <2>1. LoginStepOk
    <3>1. UNCHANGED LoginQueue!vars
      BY <1>4, LoginsQuiet DEF vars
    <3>2. LoginInv'
      BY <1>4 DEF vars, Inv, LoginInv, LoginTyped, LoginsSound, CountedInWindow, NobodyVerified, CountedFor
    <3>3. LoginLeaves
      BY <1>4, KnownRow DEF vars, LoginLeaves, SharedTyped
    <3> QED  BY <3>1, <3>2, <3>3 DEF LoginStepOk
  <2> QED  BY <1>1, <2>1
<1> QED
  BY <1>1, <1>2, <1>3, <1>4, LoginStepsOk, RedeemStepsOk, AdminStepsOk DEF Next, AdminStep

LEMMA InvStep == Inv /\ [Next]_vars => Inv'
<1> SUFFICES ASSUME Inv, [Next]_vars PROVE Inv'
  OBVIOUS
<1>1. SharedTyped' /\ LoginInv' /\ RedeemInv' /\ QueueSteps
  BY StepOk
<1>2. LoginQueue!Inv'
  BY <1>1, QueuesFinite, LoginQueue!InvHolds DEF QueueSteps, Inv, Queues
<1>3. RedeemQueue!Inv'
  BY <1>1, QueuesFinite, RedeemQueue!InvHolds DEF QueueSteps, Inv, Queues
<1> QED  BY <1>1, <1>2, <1>3 DEF Inv, Queues

LEMMA InitOk == Init => Inv /\ LoginQueue!Init /\ RedeemQueue!Init
<1> SUFFICES ASSUME Init PROVE Inv /\ LoginQueue!Init /\ RedeemQueue!Init
  OBVIOUS
<1>1. /\ login = [l \in Logins |-> NewLogin] /\ redeem = [r \in Redeems |-> NewRedeem]
      /\ sem = [login |-> LoginSem!NoPermits, redeem |-> LoginSem!NoPermits]
      /\ faults = [throws |-> 0, lost |-> 0, restarts |-> 0] /\ invited = {} /\ invite = NoInvite
      /\ window = [ip |-> 0, account |-> [e \in Emails |-> 0]] /\ dummy = "unset"
      /\ user \in [Emails -> {"none", "active"}]
  BY DEF Init
<1>2. LoginQueue!Init
  BY <1>1 DEF LoginQueue!Init, LoginQueue!NoPermits, LoginSem!NoPermits, NewLogin
<1>3. RedeemQueue!Init
  BY <1>1 DEF RedeemQueue!Init, RedeemQueue!NoPermits, LoginSem!NoPermits, NewRedeem
<1>4. Queues
  BY <1>2, <1>3, QueuesFinite, LoginQueue!InvHolds, RedeemQueue!InvHolds DEF Queues
<1>5. SharedTyped
  BY <1>1, Constants DEF SharedTyped
<1>6. NewLogin \in Login /\ LoginSound(NewLogin) /\ ~NewLogin.counted
  BY DEF NewLogin, Login, LoginSound, Task, Found
<1>7. NewRedeem \in Redeem /\ RedeemSound(NewRedeem) /\ ~NewRedeem.claimed
  BY DEF NewRedeem, Redeem, RedeemSound, Task
<1>8. LoginTyped /\ LoginsSound
  BY <1>1, <1>6, Constants DEF LoginTyped, LoginsSound
<1>9. CountedInWindow
  <2> SUFFICES ASSUME NEW e \in Emails PROVE Cardinality(CountedFor(e)) <= window.account[e]
    BY DEF CountedInWindow
  <2>1. CountedFor(e) = {}
    BY <1>1, <1>6 DEF CountedFor
  <2> QED  BY <1>1, <2>1, FS_EmptySet
<1>10. RedeemTyped /\ RedeemsSound /\ IsFiniteSet(invited)
  BY <1>1, <1>7, FS_EmptySet DEF RedeemTyped, RedeemsSound, Invite, NoInvite
<1>11. Claims /\ ClaimsEnd
  BY <1>1, <1>7 DEF Claims, ClaimsEnd, NoInvite
<1>12. UsersPaidFor
  BY <1>1, FS_EmptySet DEF UsersPaidFor
<1> QED
  BY <1>2, <1>3, <1>4, <1>5, <1>8, <1>9, <1>10, <1>11, <1>12 DEF Inv, LoginInv, RedeemInv

LEMMA AlwaysInv == Spec => []Inv
BY InitOk, InvStep, PTL DEF Spec

-----------------------------------------------------------------------------
(* The theorems.                                                           *)

LEMMA InvImplies == Inv => SignInInv /\ ClaimsComeBack /\ GuessesBounded
<1> SUFFICES ASSUME Inv PROVE SignInInv /\ ClaimsComeBack /\ GuessesBounded
  OBVIOUS
<1>1. TypeOK
  <2>1. /\ sem.login.active \in Nat /\ sem.login.active <= MaxConcurrent
        /\ sem.redeem.active \in Nat /\ sem.redeem.active <= MaxConcurrent
    <3>1. /\ sem.login \in [active : Nat, waiters : Seq(Logins)]
          /\ sem.redeem \in [active : Nat, waiters : Seq(Redeems)]
      BY LoginWaits, RedeemWaits
    <3>2. sem.login.active <= MaxConcurrent /\ sem.redeem.active <= MaxConcurrent
      BY DEF Inv, Queues, LoginQueue!Inv, LoginQueue!SemaphoreInv, LoginQueue!PermitsConserved,
         RedeemQueue!Inv, RedeemQueue!SemaphoreInv, RedeemQueue!PermitsConserved
    <3> QED  BY <3>1, <3>2
  <2>2. \A k \in DOMAIN sem : sem[k].active \in 0 .. MaxConcurrent
    BY <2>1, Constants, KnownRow DEF SharedTyped
  <2> QED  BY <2>2 DEF Inv, SharedTyped, LoginInv, LoginTyped, RedeemInv, RedeemTyped, TypeOK
<1>2. ClaimIsExclusive
  BY DEF Inv, RedeemInv, Claims, ClaimIsExclusive, Working
<1>3. OneUserPerInvite
  BY NumbersTyped DEF Inv, RedeemInv, UsersPaidFor, OneUserPerInvite
<1>4. RedeemedStaysRedeemed
  <2> SUFFICES ASSUME invited # {}, faults.lost = 0
               PROVE  invite.consumedAt = "set" /\ invite.consumedBy \in invited
    BY DEF RedeemedStaysRedeemed
  <2>1. ~(Cardinality(invited) <= faults.lost)
    <3>1. Cardinality(invited) # 0
      BY NumbersTyped, FS_EmptySet
    <3> QED  BY <3>1, NumbersTyped
  <2>2. \E r \in Redeems : Redeemed(r)
    BY <2>1 DEF Inv, RedeemInv, UsersPaidFor
  <2> QED  BY <2>2 DEF Inv, RedeemInv, Claims, Redeemed
<1>5. ClaimsComeBack
  <2> SUFFICES ASSUME invite.consumedAt = "set", invite.consumedBy = NoEmail
               PROVE  \E r \in Redeems : redeem[r].claimed /\ (redeem[r].pc # "end" \/ CutOff(r))
    BY DEF ClaimsComeBack
  <2>1. PICK r \in Redeems : redeem[r].claimed
    BY DEF Inv, RedeemInv, Claims
  <2>2. invite.consumedBy \notin invited
    BY Constants, KnownRow
  <2>3. redeem[r].pc = "end" => CutOff(r)
    BY <2>1, <2>2 DEF Inv, RedeemInv, ClaimsEnd
  <2> QED  BY <2>1, <2>3
<1>6. GuessesBounded
  <2> SUFFICES ASSUME NEW e \in Emails, NobodyVerified(e)
               PROVE  Cardinality(CountedFor(e)) <= AccountLimit
    BY DEF GuessesBounded, NobodyVerified, CountedFor
  <2>1. Cardinality(CountedFor(e)) <= window.account[e]
    BY DEF Inv, LoginInv, CountedInWindow
  <2>2. window.account[e] \in 0 .. AccountLimit
    BY KnownState
  <2>3. CountedFor(e) \in SUBSET Logins
    BY DEF CountedFor
  <2>4. Cardinality(CountedFor(e)) \in Nat
    BY <2>3, Constants, FS_Subset, FS_CardinalityType
  <2> QED  BY <2>1, <2>2, <2>4, Constants
<1> QED  BY <1>1, <1>2, <1>3, <1>4, <1>5, <1>6 DEF SignInInv

\* Of any number of people who open one invite's form at most one at a time
\* works on its claim; the row cannot be revoked under him, it makes one user
\* (and one more for every commit whose answer is lost), and stays consumed by
\* that user (invite-redeem-page.ts:105-113).
THEOREM OneInviteOneUser == Spec => []SignInInv
BY AlwaysInv, InvImplies, PTL

\* A claim that made no user is given back by the request that made it, unless
\* this request is still at work, timed out while it waited for its hash, died
\* with the process, failed in a call outside the try block (the hash among
\* them) or failed in the revert itself: no fault of another request excuses
\* it (invite-redeem-page.ts:134 and 187, the two reverts of consumedAt).
THEOREM ClaimsAreReturned == Spec => []ClaimsComeBack
BY AlwaysInv, InvImplies, PTL

\* As long as no password was right, no window lets more than AccountLimit
\* requests for an account through to argon2, however many run at once
\* (login-routes.ts, rate-limit.ts).
THEOREM GuessesAreBounded == Spec => []GuessesBounded
BY AlwaysInv, InvImplies, PTL

\* The handlers use their two semaphores as Argon2Semaphore says: what is
\* proved there of permits and queues holds of both, across timeouts, errors
\* and restarts (login-routes.ts, invite-redeem-page.ts).
THEOREM SemaphoresUsedRight == Spec => ImplementsSemaphores
<1>1. /\ LoginQueue!Init => LoginSem!Init
      /\ RedeemQueue!Init => RedeemSem!Init
  BY DEF LoginQueue!Init, LoginSem!Init, RedeemQueue!Init, RedeemSem!Init,
     LoginQueue!NoPermits, LoginSem!NoPermits, RedeemQueue!NoPermits, RedeemSem!NoPermits
<1>2. ASSUME QueueSteps
      PROVE  [LoginSem!Next]_(LoginSem!vars) /\ [RedeemSem!Next]_(RedeemSem!vars)
  <2>1. [LoginSem!Next]_(LoginSem!vars)
    BY <1>2 DEF QueueSteps, LoginQueue!Next, LoginSem!Next, LoginQueue!vars, LoginSem!vars,
       LoginQueue!Run, LoginSem!Run, LoginQueue!Finish, LoginSem!Finish, LoginQueue!TimeOut,
       LoginSem!TimeOut, LoginQueue!Restart, LoginSem!Restart, LoginQueue!Enter, LoginSem!Enter,
       LoginQueue!Leave, LoginSem!Leave, LoginQueue!Spliced, LoginSem!Spliced,
       LoginQueue!HasPermit, LoginSem!HasPermit, LoginQueue!NoPermits, LoginSem!NoPermits
  <2>2. [RedeemSem!Next]_(RedeemSem!vars)
    BY <1>2 DEF QueueSteps, RedeemQueue!Next, RedeemSem!Next, RedeemQueue!vars, RedeemSem!vars,
       RedeemQueue!Run, RedeemSem!Run, RedeemQueue!Finish, RedeemSem!Finish, RedeemQueue!TimeOut,
       RedeemSem!TimeOut, RedeemQueue!Restart, RedeemSem!Restart, RedeemQueue!Enter, RedeemSem!Enter,
       RedeemQueue!Leave, RedeemSem!Leave, RedeemQueue!Spliced, RedeemSem!Spliced,
       RedeemQueue!HasPermit, RedeemSem!HasPermit, RedeemQueue!NoPermits, RedeemSem!NoPermits
  <2> QED  BY <2>1, <2>2
<1>3. Inv /\ [Next]_vars => [LoginSem!Next]_(LoginSem!vars) /\ [RedeemSem!Next]_(RedeemSem!vars)
  BY <1>2, StepOk
<1> QED
  BY <1>1, <1>3, InitOk, AlwaysInv, PTL DEF Spec, ImplementsSemaphores, LoginSem!Spec, RedeemSem!Spec

=============================================================================
