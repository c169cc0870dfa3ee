------------------------------ MODULE Sessions ------------------------------
(***************************************************************************)
(* AuthService with TokenBlacklistService: sign in, refresh, sign out and  *)
(* change the password, run by concurrent requests on any replica, each    *)
(* action being what a handler does from one await to the next.  Tokens    *)
(* are signed, not stored: one is known by whose it is and the second it   *)
(* was signed in, so two that a user obtains in the same second are the    *)
(* same token.  What ends a session is the blacklist in Redis, an account  *)
(* that is closed, or time.  The audit rows these handlers write are steps *)
(* here, but nothing reads them and they are not kept.                     *)
(***************************************************************************)
EXTENDS Integers, FiniteSets

CONSTANTS
    Member,          \* accounts, all of them created and active at first
    Secret,          \* passwords
    InitialSecret,   \* the one every account starts with
    Visit,           \* requests that can be in progress at the same time
    AccessSetting,   \* JWT_EXPIRES_IN
    RefreshSetting,  \* JWT_REFRESH_EXPIRES_IN
    MaxClock,        \* the last second of the model: a bound for the checker
    NoMember, NoSecret, NoToken

Unit == {"s", "m", "h", "d", "none"}

(* "7d", "30m", "3600": an amount and the suffixes the code documents. *)
Setting == [amount : Nat \ {0}, unit : Unit]

ASSUME MemberAssumption == NoMember \notin Member
ASSUME SecretAssumption == InitialSecret \in Secret /\ NoSecret \notin Secret
ASSUME SettingAssumption == {AccessSetting, RefreshSetting} \subseteq Setting
ASSUME ClockAssumption == MaxClock \in Nat

VARIABLES
    clock,     \* the time, in seconds
    standing,  \* of an account: active, deactivated, or removed
    secret,    \* the password that users.password_hash stands for
    access,    \* access tokens that were handed out
    refresh,   \* refresh tokens that were handed out
    revoked,   \* keys of the blacklist, and when Redis drops each
    phase,     \* what each request does next
    visit      \* whom it is about, and what its handler holds

accounts == <<standing, secret>>
tokens == <<access, refresh>>
requests == <<phase, visit>>
sessionsVars == <<clock, accounts, tokens, revoked, requests>>

-----------------------------------------------------------------------------
Token == [sub : Member, iat : Nat]

Phase == {"idle", "loginUpdate", "loginAudit", "refreshVerify", "refreshFind",
          "logoutRevoke", "logoutAudit", "resetFind", "resetUpdate",
          "resetAudit"}

(* Whom the request acts for; the refresh token at hand, signed by a login *)
(* or named by the body; the password a reset has read from the row.       *)
Held == [sub : Member \cup {NoMember}, token : Token \cup {NoToken},
         secret : Secret \cup {NoSecret}]

Nobody == [sub |-> NoMember, token |-> NoToken, secret |-> NoSecret]

(* What jsonwebtoken makes of expiresIn: a number without a unit, given as *)
(* a string, is in milliseconds.                                           *)
Seconds(unit) ==
    CASE unit = "d" -> 24 * 60 * 60
      [] unit = "h" -> 60 * 60
      [] unit = "m" -> 60
      [] OTHER -> 1

Lifetime(setting) == IF setting.unit = "none" THEN setting.amount \div 1000
                     ELSE setting.amount * Seconds(setting.unit)

(* Mutant: half of it would do. *)
ParseTtlToSecondsShort(setting) == (setting.amount * Seconds(setting.unit)) \div 2

(* The blacklist's own reading of the same setting: seconds if no unit. *)
ParseTtlToSeconds(setting) == setting.amount * Seconds(setting.unit)

AccessTtl == Lifetime(AccessSetting)
RefreshTtl == Lifetime(RefreshSetting)
BlacklistTtl == ParseTtlToSeconds(RefreshSetting)

LiveAccess(t) == t \in access /\ clock < t.iat + AccessTtl
LiveRefresh(t) == t \in refresh /\ clock < t.iat + RefreshTtl

(* Mutant: Redis is not asked. *)
IsBlacklistedNever(t) == FALSE

IsBlacklisted(t) == \E e \in revoked : e.token = t /\ clock < e.until

At(q, p) == phase[q] = p
HeldToken(q) == visit[q].token
Signed(m) == [sub |-> m, iat |-> clock]

Go(q, p) == phase' = [phase EXCEPT ![q] = p]

Hold(q, p, held) ==
    /\ phase' = [phase EXCEPT ![q] = p]
    /\ visit' = [visit EXCEPT ![q] = held]

End(q) == Hold(q, "idle", Nobody)

SessionsInit ==
    /\ clock = 0
    /\ standing = [m \in Member |-> "active"]
    /\ secret = [m \in Member |-> InitialSecret]
    /\ access = {}
    /\ refresh = {}
    /\ revoked = {}
    /\ phase = [q \in Visit |-> "idle"]
    /\ visit = [q \in Visit |-> Nobody]

-----------------------------------------------------------------------------
(* login *)

LoginFind(q, m, s) ==
    /\ At(q, "idle")
    /\ standing[m] = "active"
    /\ s = secret[m]
    /\ Hold(q, "loginUpdate", [Nobody EXCEPT !.sub = m])
    /\ UNCHANGED <<clock, accounts, tokens, revoked>>

(* lastLoginAt is written by id and read back, which fails if the account  *)
(* was removed meanwhile; then both tokens are signed.                     *)
LoginUpdate(q) ==
    /\ At(q, "loginUpdate")
    /\ IF standing[visit[q].sub] = "removed" THEN End(q)
       ELSE Hold(q, "loginAudit", [visit[q] EXCEPT !.token = Signed(visit[q].sub)])
    /\ UNCHANGED <<clock, accounts, tokens, revoked>>

LoginAudit(q) ==
    /\ At(q, "loginAudit")
    /\ access' = access \cup {HeldToken(q)}
    /\ refresh' = refresh \cup {HeldToken(q)}
    /\ End(q)
    /\ UNCHANGED <<clock, accounts, revoked>>

-----------------------------------------------------------------------------
(* refresh *)

RefreshCheck(q, t) ==
    /\ At(q, "idle")
    /\ ~IsBlacklisted(t)
    /\ Hold(q, "refreshVerify", [Nobody EXCEPT !.sub = t.sub, !.token = t])
    /\ UNCHANGED <<clock, accounts, tokens, revoked>>

RefreshVerify(q) ==
    /\ At(q, "refreshVerify")
    /\ IF LiveRefresh(HeldToken(q)) THEN Go(q, "refreshFind") /\ UNCHANGED visit
       ELSE End(q)
    /\ UNCHANGED <<clock, accounts, tokens, revoked>>

(* Mutant: the account is not looked up again. *)
RefreshSignBlind(q) ==
    /\ At(q, "refreshFind")
    /\ access' = access \cup {Signed(visit[q].sub)}
    /\ End(q)
    /\ UNCHANGED <<clock, accounts, refresh, revoked>>

RefreshSign(q) ==
    /\ At(q, "refreshFind")
    /\ access' = IF standing[visit[q].sub] # "active" THEN access
                 ELSE access \cup {Signed(visit[q].sub)}
    /\ End(q)
    /\ UNCHANGED <<clock, accounts, refresh, revoked>>

-----------------------------------------------------------------------------
(* logout and resetPassword, behind JwtAuthGuard *)

(* Mutant: the strategy believes the token. *)
AuthenticatedBySignature(t) == LiveAccess(t)

Authenticated(t) == LiveAccess(t) /\ standing[t.sub] = "active"

(* The refresh token to revoke is whatever the body names. *)
LogoutArrive(q, a, t) ==
    /\ At(q, "idle")
    /\ Authenticated(a)
    /\ Hold(q, "logoutRevoke", [Nobody EXCEPT !.sub = a.sub, !.token = t])
    /\ UNCHANGED <<clock, accounts, tokens, revoked>>

(* SET key EX ttl: a second one starts the time anew. *)
LogoutRevoke(q) ==
    /\ At(q, "logoutRevoke")
    /\ LET t == HeldToken(q)
       IN revoked' = {e \in revoked : e.token # t}
                     \cup {[token |-> t, until |-> clock + BlacklistTtl]}
    /\ Go(q, "logoutAudit")
    /\ UNCHANGED <<clock, accounts, tokens, visit>>

LogoutAudit(q) ==
    /\ At(q, "logoutAudit")
    /\ End(q)
    /\ UNCHANGED <<clock, accounts, tokens, revoked>>

ResetArrive(q, a) ==
    /\ At(q, "idle")
    /\ Authenticated(a)
    /\ Hold(q, "resetFind", [Nobody EXCEPT !.sub = a.sub])
    /\ UNCHANGED <<clock, accounts, tokens, revoked>>

(* The current password is compared with the row's, a deactivated one's    *)
(* too.                                                                    *)
ResetFind(q) ==
    /\ At(q, "resetFind")
    /\ IF standing[visit[q].sub] = "removed" THEN End(q)
       ELSE Hold(q, "resetUpdate",
                 [visit[q] EXCEPT !.secret = secret[visit[q].sub]])
    /\ UNCHANGED <<clock, accounts, tokens, revoked>>

ResetUpdate(q, s) ==
    /\ At(q, "resetUpdate")
    /\ s # visit[q].secret
    /\ secret' = [secret EXCEPT ![visit[q].sub] = s]
    /\ IF standing[visit[q].sub] = "removed" THEN End(q)
       ELSE Go(q, "resetAudit") /\ UNCHANGED visit
    /\ UNCHANGED <<clock, standing, tokens, revoked>>

ResetAudit(q) ==
    /\ At(q, "resetAudit")
    /\ End(q)
    /\ UNCHANGED <<clock, accounts, tokens, revoked>>

-----------------------------------------------------------------------------
(* A refusal, an await that throws, the death of the replica. *)
Break(q) ==
    /\ ~At(q, "idle")
    /\ End(q)
    /\ UNCHANGED <<clock, accounts, tokens, revoked>>

(* UserService.deactivate and remove, as these handlers see them. *)
Close(m, s) ==
    /\ \/ s = "inactive" /\ standing[m] = "active"
       \/ s = "removed" /\ standing[m] # "removed"
    /\ standing' = [standing EXCEPT ![m] = s]
    /\ UNCHANGED <<clock, secret, tokens, revoked, requests>>

Tick ==
    /\ clock < MaxClock
    /\ clock' = clock + 1
    /\ UNCHANGED <<accounts, tokens, revoked, requests>>

Request(q) ==
    \/ \E m \in Member, s \in Secret : LoginFind(q, m, s)
    \/ \E t \in refresh : RefreshCheck(q, t)
    \/ \E a \in access, t \in refresh : LogoutArrive(q, a, t)
    \/ \E a \in access : ResetArrive(q, a)

Handle(q) ==
    \/ LoginUpdate(q) \/ LoginAudit(q)
    \/ RefreshVerify(q) \/ RefreshSign(q)
    \/ LogoutRevoke(q) \/ LogoutAudit(q)
    \/ ResetFind(q) \/ (\E s \in Secret : ResetUpdate(q, s)) \/ ResetAudit(q)

SessionsNext ==
    \/ \E q \in Visit : Request(q) \/ Handle(q) \/ Break(q)
    \/ \E m \in Member, s \in {"inactive", "removed"} : Close(m, s)
    \/ Tick

SessionsSpec == SessionsInit /\ [][SessionsNext]_sessionsVars

(* A handler goes on once its await resolves.  Nobody has to sign out, no  *)
(* account has to be closed, and time may stand still as long as it likes. *)
SessionsFairness == \A q \in Visit : WF_sessionsVars(Handle(q))

-----------------------------------------------------------------------------
(* The type invariant. *)
SessionsTypeOK ==
    /\ clock \in 0..MaxClock
    /\ standing \in [Member -> {"active", "inactive", "removed"}]
    /\ secret \in [Member -> Secret]
    /\ access \subseteq Token
    /\ refresh \subseteq Token
    /\ revoked \subseteq [token : Token, until : Nat]
    /\ phase \in [Visit -> Phase]
    /\ visit \in [Visit -> Held]

(* Redis drops a key of the blacklist after a time that is computed from   *)
(* the setting apart from the token's own expiry: a refresh token that was *)
(* revoked is on the list for as long as it would verify.                  *)
RevokedStaysRevoked ==
    \A e \in revoked : LiveRefresh(e.token) => IsBlacklisted(e.token)

Revoked(t) == \E e \in revoked : e.token = t

(* Once a token is revoked, the refreshes that had already passed the      *)
(* blacklist finish, and after them none gets as far as signing again.     *)
LogoutTakesHold ==
    \A t \in [sub : Member, iat : 0..MaxClock] :
        Revoked(t) ~> [](\A q \in Visit :
                            At(q, "refreshFind") => HeldToken(q) # t)

(* Once an account is deactivated or removed, the requests that had been   *)
(* let in finish, and then no login, logout or password change gets past   *)
(* its first read in the account's name, whatever tokens are still good.   *)
ClosureTakesHold ==
    \A m \in Member :
        standing[m] # "active"
          ~> [](\A q \in Visit : visit[q].sub = m =>
                  phase[q] \in {"refreshVerify", "refreshFind"})

(* No refresh with the revoked token t is past the blacklist, but for one  *)
(* that will find it expired.                                              *)
CutOff(t) ==
    /\ Revoked(t)
    /\ \A q \in Visit :
          HeldToken(q) = t => /\ ~At(q, "refreshFind")
                              /\ At(q, "refreshVerify") => ~LiveRefresh(t)

(* Nothing goes on in the name of m, who is not active any more, except    *)
(* refreshes, which will find out.                                         *)
Shut(m) ==
    /\ standing[m] # "active"
    /\ \A q \in Visit :
          visit[q].sub = m => phase[q] \in {"refreshVerify", "refreshFind"}

(* A token that is cut off stays so: nothing that anybody does, signing in *)
(* and signing out again within the second included, nor the expiry of the *)
(* key in Redis, lets it sign once more.                                   *)
RevocationStands ==
    [][\A t \in refresh : CutOff(t) => CutOff(t)']_sessionsVars

TokensOf(m) == {t \in access : t.sub = m} \cup {t \in refresh : t.sub = m}

(* An account that is shut stays so, its password is not changed any more, *)
(* and it never again obtains a token, of either kind, whatever tokens it  *)
(* still holds.                                                            *)
ClosureStands ==
    [][\A m \in Member : Shut(m) =>
          /\ Shut(m)'
          /\ secret'[m] = secret[m]
          /\ TokensOf(m)' = TokensOf(m)]_sessionsVars
=============================================================================
