--------------------------- MODULE SessionsProofs ---------------------------
(***************************************************************************)
(* Proofs about Sessions, for any accounts, requests and lifetimes.        *)
(***************************************************************************)
EXTENDS Sessions, TLAPS

(* What the handler of request q holds in each of its phases. *)
HoldsInPhase(q) ==
    /\ phase[q] # "idle" => visit[q].sub \in Member
    /\ phase[q] \in {"loginAudit", "refreshVerify", "refreshFind",
                     "logoutRevoke", "logoutAudit"} =>
          visit[q].token \in Token /\ visit[q].token.iat <= clock

VisitsHold == \A q \in Visit : HoldsInPhase(q)

SignedBefore == \A t \in access \cup refresh : t.iat <= clock

TypeInv == SessionsTypeOK /\ VisitsHold /\ SignedBefore

USE DEF Phase

-----------------------------------------------------------------------------
(* The two readings of a setting *)

LEMMA SecondsType == ASSUME NEW u \in Unit PROVE Seconds(u) \in Nat \ {0}
BY DEF Unit, Seconds

LEMMA ProductType ==
    ASSUME NEW a \in Nat, NEW u \in Unit
    PROVE  a * Seconds(u) \in Nat
<1>1. CASE u = "d"
  BY <1>1 DEF Seconds
<1>2. CASE u = "h"
  BY <1>2 DEF Seconds
<1>3. CASE u = "m"
  BY <1>3 DEF Seconds
<1>4. CASE u \in {"s", "none"}
  BY <1>4 DEF Seconds
<1> QED
  BY <1>1, <1>2, <1>3, <1>4 DEF Unit

(* The blacklist never reads a setting as a shorter time than the one that *)
(* jsonwebtoken makes of it.                                               *)
LEMMA BlacklistOutlasts ==
    ASSUME NEW s \in Setting
    PROVE  /\ Lifetime(s) \in Nat /\ ParseTtlToSeconds(s) \in Nat
           /\ Lifetime(s) <= ParseTtlToSeconds(s)
<1>1. s.amount \in Nat /\ s.unit \in Unit
  BY DEF Setting
<1>2. CASE s.unit = "none"
  <2>1. s.amount \div 1000 \in Nat /\ s.amount \div 1000 <= s.amount
    BY <1>1
  <2>2. Lifetime(s) = s.amount \div 1000
    BY <1>2 DEF Lifetime
  <2>3. Seconds(s.unit) = 1
    BY <1>2 DEF Seconds
  <2>4. ParseTtlToSeconds(s) = s.amount
    BY <1>1, <2>3 DEF ParseTtlToSeconds
  <2> QED
    BY <1>1, <2>1, <2>2, <2>4
<1>3. CASE s.unit # "none"
  <2>1. s.amount * Seconds(s.unit) \in Nat
    BY <1>1, ProductType
  <2> DEFINE p == s.amount * Seconds(s.unit)
  <2>2. Lifetime(s) = p /\ ParseTtlToSeconds(s) = p
    BY <1>3 DEF Lifetime, ParseTtlToSeconds
  <2> QED
    BY <2>1, <2>2
<1> QED
  BY <1>2, <1>3

LEMMA TtlTypes ==
    /\ RefreshTtl \in Nat /\ BlacklistTtl \in Nat
    /\ RefreshTtl <= BlacklistTtl
BY SettingAssumption, BlacklistOutlasts DEF RefreshTtl, BlacklistTtl

-----------------------------------------------------------------------------
(* The type invariant *)

LEMMA TypeInit == SessionsInit => TypeInv
BY SecretAssumption, ClockAssumption
DEF SessionsInit, TypeInv, SessionsTypeOK, VisitsHold, HoldsInPhase,
    SignedBefore, Held, Nobody

(* A step of request q after which it holds h in phase p. *)
LEMMA HoldTypes ==
    ASSUME TypeInv, NEW q \in Visit, NEW p \in Phase, NEW h \in Held,
           Hold(q, p, h), clock' = clock,
           p # "idle" => h.sub \in Member,
           p \in {"loginAudit", "refreshVerify", "refreshFind", "logoutRevoke",
                  "logoutAudit"} => h.token \in Token /\ h.token.iat <= clock
    PROVE  /\ phase' \in [Visit -> Phase]
           /\ visit' \in [Visit -> Held]
           /\ VisitsHold'
BY DEF Hold, TypeInv, SessionsTypeOK, VisitsHold, HoldsInPhase

LEMMA EndTypes ==
    ASSUME TypeInv, NEW q \in Visit, End(q), clock' = clock
    PROVE  /\ phase' \in [Visit -> Phase]
           /\ visit' \in [Visit -> Held]
           /\ VisitsHold'
<1>1. Nobody \in Held
  BY DEF Nobody, Held
<1> QED
  BY <1>1, HoldTypes DEF End

(* The request goes on with what it holds. *)
LEMMA GoTypes ==
    ASSUME TypeInv, NEW q \in Visit, phase[q] # "idle", NEW p \in Phase,
           Go(q, p), UNCHANGED visit, clock' = clock,
           p \in {"loginAudit", "refreshVerify", "refreshFind", "logoutRevoke",
                  "logoutAudit"} =>
             visit[q].token \in Token /\ visit[q].token.iat <= clock
    PROVE  /\ phase' \in [Visit -> Phase]
           /\ visit' \in [Visit -> Held]
           /\ VisitsHold'
BY DEF Go, TypeInv, SessionsTypeOK, VisitsHold, HoldsInPhase

LEMMA TypeNext == TypeInv /\ [SessionsNext]_sessionsVars => TypeInv'
<1> SUFFICES ASSUME TypeInv, [SessionsNext]_sessionsVars
             PROVE  TypeInv'
  OBVIOUS
<1> USE DEF accounts, tokens, requests
<1>1. clock \in Nat
  BY ClockAssumption DEF TypeInv, SessionsTypeOK
<1>2. ASSUME NEW m \in Member
      PROVE  Signed(m) \in Token /\ Signed(m).iat <= clock
  BY <1>1 DEF Signed, Token
<1>3. ASSUME NEW q \in Visit, NEW m \in Member, NEW s \in Secret,
             LoginFind(q, m, s)
      PROVE  TypeInv'
  <2> DEFINE h == [Nobody EXCEPT !.sub = m]
  <2>1. h \in Held /\ h.sub \in Member
    BY DEF Nobody, Held
  <2>2. Hold(q, "loginUpdate", h) /\ UNCHANGED <<clock, accounts, tokens, revoked>>
    BY <1>3 DEF LoginFind
  <2> QED
    BY <2>1, <2>2, HoldTypes DEF TypeInv, SessionsTypeOK, SignedBefore
<1>4. ASSUME NEW q \in Visit, LoginUpdate(q)
      PROVE  TypeInv'
  <2>1. visit[q] \in Held /\ visit[q].sub \in Member
    BY <1>4 DEF LoginUpdate, At, TypeInv, SessionsTypeOK, VisitsHold, HoldsInPhase
  <2> DEFINE h == [visit[q] EXCEPT !.token = Signed(visit[q].sub)]
  <2>2. h \in Held /\ h.sub = visit[q].sub /\ h.token = Signed(visit[q].sub)
    BY <1>2, <2>1 DEF Held
  <2>3. UNCHANGED <<clock, accounts, tokens, revoked>>
    BY <1>4 DEF LoginUpdate
  <2>4. End(q) \/ Hold(q, "loginAudit", h)
    BY <1>4 DEF LoginUpdate
  <2>5. h.token \in Token /\ h.token.iat <= clock
    BY <1>2, <2>1, <2>2
  <2>6. /\ phase' \in [Visit -> Phase] /\ visit' \in [Visit -> Held]
        /\ VisitsHold'
    BY <2>1, <2>2, <2>3, <2>4, <2>5, HoldTypes, EndTypes
  <2> QED
    BY <2>3, <2>6 DEF TypeInv, SessionsTypeOK, SignedBefore
<1>5. ASSUME NEW q \in Visit, LoginAudit(q)
      PROVE  TypeInv'
  <2>1. HeldToken(q) \in Token /\ HeldToken(q).iat <= clock
    BY <1>5 DEF LoginAudit, At, HeldToken, TypeInv, VisitsHold, HoldsInPhase
  <2> QED
    BY <1>5, <2>1, EndTypes DEF LoginAudit, TypeInv, SessionsTypeOK, SignedBefore
<1>6. ASSUME NEW q \in Visit, NEW t \in refresh, RefreshCheck(q, t)
      PROVE  TypeInv'
  <2> DEFINE h == [Nobody EXCEPT !.sub = t.sub, !.token = t]
  <2>1. t \in Token /\ t.iat <= clock /\ t.sub \in Member
    BY DEF TypeInv, SessionsTypeOK, SignedBefore, Token
  <2>2. h \in Held /\ h.sub = t.sub /\ h.token = t
    BY <2>1 DEF Nobody, Held
  <2>3. Hold(q, "refreshVerify", h)
        /\ UNCHANGED <<clock, accounts, tokens, revoked>>
    BY <1>6 DEF RefreshCheck
  <2>4. /\ phase' \in [Visit -> Phase] /\ visit' \in [Visit -> Held]
        /\ VisitsHold'
    BY <2>1, <2>2, <2>3, HoldTypes
  <2> QED
    BY <2>3, <2>4 DEF TypeInv, SessionsTypeOK, SignedBefore
<1>7. ASSUME NEW q \in Visit, RefreshVerify(q)
      PROVE  TypeInv'
  <2>1. HeldToken(q) \in Token /\ HeldToken(q).iat <= clock /\ phase[q] # "idle"
    BY <1>7 DEF RefreshVerify, At, HeldToken, TypeInv, VisitsHold, HoldsInPhase
  <2>2. UNCHANGED <<clock, accounts, tokens, revoked>>
    BY <1>7 DEF RefreshVerify
  <2>3. End(q) \/ (Go(q, "refreshFind") /\ UNCHANGED visit)
    BY <1>7 DEF RefreshVerify
  <2>4. /\ phase' \in [Visit -> Phase] /\ visit' \in [Visit -> Held]
        /\ VisitsHold'
    BY <2>1, <2>2, <2>3, GoTypes, EndTypes DEF HeldToken
  <2> QED
    BY <2>2, <2>4 DEF TypeInv, SessionsTypeOK, SignedBefore
<1>8. ASSUME NEW q \in Visit, RefreshSign(q)
      PROVE  TypeInv'
  <2>1. visit[q].sub \in Member
    BY <1>8 DEF RefreshSign, At, TypeInv, VisitsHold, HoldsInPhase
  <2>2. Signed(visit[q].sub) \in Token /\ Signed(visit[q].sub).iat <= clock
    BY <1>2, <2>1
  <2> QED
    BY <1>8, <2>2, EndTypes DEF RefreshSign, TypeInv, SessionsTypeOK, SignedBefore
<1>9. ASSUME NEW q \in Visit, NEW a \in access, NEW t \in refresh,
             LogoutArrive(q, a, t)
      PROVE  TypeInv'
  <2> DEFINE h == [Nobody EXCEPT !.sub = a.sub, !.token = t]
  <2>1. t \in Token /\ t.iat <= clock /\ a.sub \in Member
    BY DEF TypeInv, SessionsTypeOK, SignedBefore, Token
  <2>2. h \in Held /\ h.sub = a.sub /\ h.token = t
    BY <2>1 DEF Nobody, Held
  <2>3. Hold(q, "logoutRevoke", h)
        /\ UNCHANGED <<clock, accounts, tokens, revoked>>
    BY <1>9 DEF LogoutArrive
  <2>4. /\ phase' \in [Visit -> Phase] /\ visit' \in [Visit -> Held]
        /\ VisitsHold'
    BY <2>1, <2>2, <2>3, HoldTypes
  <2> QED
    BY <2>3, <2>4 DEF TypeInv, SessionsTypeOK, SignedBefore
<1>10. ASSUME NEW q \in Visit, LogoutRevoke(q)
       PROVE  TypeInv'
  <2>1. /\ visit[q].token \in Token /\ visit[q].token.iat <= clock
        /\ phase[q] # "idle"
    BY <1>10 DEF LogoutRevoke, At, TypeInv, VisitsHold, HoldsInPhase
  <2>2. UNCHANGED <<clock, accounts, tokens, visit>> /\ Go(q, "logoutAudit")
    BY <1>10 DEF LogoutRevoke
  <2>3. /\ phase' \in [Visit -> Phase] /\ visit' \in [Visit -> Held]
        /\ VisitsHold'
    BY <2>1, <2>2, GoTypes
  <2>4. clock + BlacklistTtl \in Nat
    BY <1>1, TtlTypes
  <2>5. revoked' \subseteq [token : Token, until : Nat]
    BY <1>10, <2>1, <2>4 DEF LogoutRevoke, HeldToken, TypeInv, SessionsTypeOK
  <2> QED
    BY <2>2, <2>3, <2>5 DEF TypeInv, SessionsTypeOK, SignedBefore
<1>11. ASSUME NEW q \in Visit, LogoutAudit(q) \/ ResetAudit(q) \/ Break(q)
       PROVE  TypeInv'
  BY <1>11, EndTypes
  DEF LogoutAudit, ResetAudit, Break, TypeInv, SessionsTypeOK, SignedBefore
<1>12. ASSUME NEW q \in Visit, NEW a \in access, ResetArrive(q, a)
       PROVE  TypeInv'
  <2> DEFINE h == [Nobody EXCEPT !.sub = a.sub]
  <2>1. h \in Held /\ h.sub \in Member
    BY DEF Nobody, Held, TypeInv, SessionsTypeOK, Token
  <2>2. Hold(q, "resetFind", h) /\ UNCHANGED <<clock, accounts, tokens, revoked>>
    BY <1>12 DEF ResetArrive
  <2> QED
    BY <2>1, <2>2, HoldTypes DEF TypeInv, SessionsTypeOK, SignedBefore
<1>13. ASSUME NEW q \in Visit, ResetFind(q)
       PROVE  TypeInv'
  <2>1. visit[q] \in Held /\ visit[q].sub \in Member
    BY <1>13 DEF ResetFind, At, TypeInv, SessionsTypeOK, VisitsHold, HoldsInPhase
  <2> DEFINE h == [visit[q] EXCEPT !.secret = secret[visit[q].sub]]
  <2>2. secret[visit[q].sub] \in Secret
    BY <2>1 DEF TypeInv, SessionsTypeOK
  <2>3. h \in Held /\ h.sub = visit[q].sub
    BY <2>1, <2>2 DEF Held
  <2>4. UNCHANGED <<clock, accounts, tokens, revoked>>
    BY <1>13 DEF ResetFind
  <2>5. End(q) \/ Hold(q, "resetUpdate", h)
    BY <1>13 DEF ResetFind
  <2>6. /\ phase' \in [Visit -> Phase] /\ visit' \in [Visit -> Held]
        /\ VisitsHold'
    BY <2>1, <2>3, <2>4, <2>5, HoldTypes, EndTypes
  <2> QED
    BY <2>4, <2>6 DEF TypeInv, SessionsTypeOK, SignedBefore
<1>14. ASSUME NEW q \in Visit, NEW s \in Secret, ResetUpdate(q, s)
       PROVE  TypeInv'
  <2>1. phase[q] # "idle" /\ clock' = clock
    BY <1>14 DEF ResetUpdate, At
  <2>2. End(q) \/ (Go(q, "resetAudit") /\ UNCHANGED visit)
    BY <1>14 DEF ResetUpdate
  <2>3. /\ phase' \in [Visit -> Phase] /\ visit' \in [Visit -> Held]
        /\ VisitsHold'
    BY <2>1, <2>2, GoTypes, EndTypes
  <2> QED
    BY <1>14, <2>3 DEF ResetUpdate, TypeInv, SessionsTypeOK, SignedBefore
<1>15. ASSUME NEW m \in Member, NEW s \in {"inactive", "removed"}, Close(m, s)
       PROVE  TypeInv'
  BY <1>15 DEF Close, TypeInv, SessionsTypeOK, VisitsHold, HoldsInPhase,
               SignedBefore
<1>16. CASE Tick
  <2>1. clock' \in 0..MaxClock /\ clock' = clock + 1
    BY <1>1, <1>16, ClockAssumption DEF Tick
  <2>2. SignedBefore'
    BY <1>1, <1>16, <2>1 DEF Tick, TypeInv, SessionsTypeOK, SignedBefore, Token
  <2>3. VisitsHold'
    BY <1>1, <1>16, <2>1 DEF Tick, TypeInv, VisitsHold, HoldsInPhase, Token
  <2> QED
    BY <1>16, <2>1, <2>2, <2>3 DEF Tick, TypeInv, SessionsTypeOK
<1>17. CASE UNCHANGED sessionsVars
  BY <1>17 DEF sessionsVars, TypeInv, SessionsTypeOK, VisitsHold, HoldsInPhase,
               SignedBefore
<1> QED
  BY <1>3, <1>4, <1>5, <1>6, <1>7, <1>8, <1>9, <1>10, <1>11, <1>12, <1>13,
     <1>14, <1>15, <1>16, <1>17
  DEF SessionsNext, Request, Handle

LEMMA TypeAlways == SessionsSpec => []TypeInv
BY TypeInit, TypeNext, PTL DEF SessionsSpec

(* SessionsTypeOK is an invariant of AuthService and the blacklist. *)
THEOREM TypeCorrect == SessionsSpec => []SessionsTypeOK
BY TypeAlways, PTL DEF TypeInv

-----------------------------------------------------------------------------
(* Revocation *)

(* The inductive form: a key of the blacklist is dropped no sooner than    *)
(* its token expires.                                                      *)
KeysOutlast == \A e \in revoked : e.token.iat + RefreshTtl <= e.until

LEMMA KeysInit == SessionsInit => KeysOutlast
BY DEF SessionsInit, KeysOutlast

LEMMA KeysNext ==
    ASSUME TypeInv, KeysOutlast, [SessionsNext]_sessionsVars
    PROVE  KeysOutlast'
<1>1. ASSUME NEW q \in Visit, LogoutRevoke(q)
      PROVE  KeysOutlast'
  <2> DEFINE t == HeldToken(q)
  <2>1. t.iat \in Nat /\ t.iat <= clock /\ clock \in Nat
    BY <1>1, ClockAssumption
    DEF LogoutRevoke, At, HeldToken, TypeInv, SessionsTypeOK, VisitsHold,
        HoldsInPhase, Token
  <2>2. t.iat + RefreshTtl <= clock + BlacklistTtl
    BY <2>1, TtlTypes
  <2>3. revoked' \subseteq revoked \cup {[token |-> t, until |-> clock + BlacklistTtl]}
    BY <1>1 DEF LogoutRevoke
  <2> HIDE DEF t
  <2>4. ASSUME NEW e \in revoked'
        PROVE  e.token.iat + RefreshTtl <= e.until
    BY <2>2, <2>3 DEF KeysOutlast
  <2> QED
    BY <2>4 DEF KeysOutlast, RefreshTtl
<1>2. ASSUME UNCHANGED revoked
      PROVE  KeysOutlast'
  BY <1>2 DEF KeysOutlast
<1>3. ASSUME NEW q \in Visit, Request(q)
      PROVE  UNCHANGED revoked
  BY <1>3 DEF Request, LoginFind, RefreshCheck, LogoutArrive, ResetArrive
<1>4. ASSUME NEW q \in Visit, Handle(q)
      PROVE  LogoutRevoke(q) \/ UNCHANGED revoked
  BY <1>4 DEF Handle, LoginUpdate, LoginAudit, RefreshVerify, RefreshSign,
              LogoutAudit, ResetFind, ResetUpdate, ResetAudit
<1>5. ASSUME NEW q \in Visit, Break(q)
      PROVE  UNCHANGED revoked
  BY <1>5 DEF Break
<1>6. ASSUME NEW m \in Member, NEW s, Close(m, s)
      PROVE  UNCHANGED revoked
  BY <1>6 DEF Close
<1>7. CASE Tick \/ UNCHANGED sessionsVars
  BY <1>2, <1>7 DEF Tick, sessionsVars
<1> QED
  BY <1>1, <1>2, <1>3, <1>4, <1>5, <1>6, <1>7 DEF SessionsNext

(* Whatever the two settings are, a refresh token that was revoked is on   *)
(* the blacklist for as long as it would verify.                           *)
THEOREM RevocationCorrect == SessionsSpec => []RevokedStaysRevoked
<1>1. TypeInv /\ KeysOutlast /\ [SessionsNext]_sessionsVars => KeysOutlast'
  BY KeysNext
<1>2. TypeInv /\ KeysOutlast => RevokedStaysRevoked
  <2> SUFFICES ASSUME TypeInv, KeysOutlast, NEW e \in revoked,
                      LiveRefresh(e.token)
               PROVE  IsBlacklisted(e.token)
    BY DEF RevokedStaysRevoked
  <2>1. e.token.iat \in Nat /\ e.until \in Nat /\ clock \in Nat
    BY ClockAssumption DEF TypeInv, SessionsTypeOK, Token
  <2>2. clock < e.token.iat + RefreshTtl /\ e.token.iat + RefreshTtl <= e.until
    BY DEF LiveRefresh, KeysOutlast
  <2>3. clock < e.until
    BY <2>1, <2>2, TtlTypes
  <2> QED
    BY <2>3 DEF IsBlacklisted
<1> QED
  BY <1>1, <1>2, KeysInit, TypeAlways, PTL DEF SessionsSpec

-----------------------------------------------------------------------------
(* What is cut off stays cut off                                           *)

(* A token that is, or is about to be, revoked was handed out before; and  *)
(* a login signs for the account it has found.                             *)
Issued ==
    /\ \A e \in revoked : e.token \in refresh
    /\ \A q \in Visit :
          /\ At(q, "logoutRevoke") => HeldToken(q) \in refresh
          /\ At(q, "loginAudit") => HeldToken(q).sub = visit[q].sub

LEMMA IssuedInit == SessionsInit => Issued
BY DEF SessionsInit, Issued, At

(* A request that ends, or goes on with p while it holds h. *)
LEMMA HoldIssued ==
    ASSUME TypeInv, Issued, NEW q \in Visit, NEW p, NEW h, Hold(q, p, h),
           refresh \subseteq refresh', revoked' = revoked,
           p = "logoutRevoke" => h.token \in refresh,
           p = "loginAudit" => h.token.sub = h.sub
    PROVE  Issued'
BY DEF TypeInv, SessionsTypeOK, Issued, At, HeldToken, Hold

LEMMA EndIssued ==
    ASSUME TypeInv, Issued, NEW q \in Visit, End(q),
           refresh \subseteq refresh', revoked' = revoked
    PROVE  Issued'
BY HoldIssued DEF End

LEMMA GoIssued ==
    ASSUME TypeInv, Issued, NEW q \in Visit, NEW p, Go(q, p), visit' = visit,
           refresh' = refresh,
           \A e \in revoked' : e \in revoked \/ e.token \in refresh,
           p \notin {"logoutRevoke", "loginAudit"}
    PROVE  Issued'
BY DEF TypeInv, SessionsTypeOK, Issued, At, HeldToken, Go

LEMMA IssuedNext ==
    ASSUME TypeInv, Issued, [SessionsNext]_sessionsVars
    PROVE  Issued'
<1> USE DEF accounts, tokens, requests
<1>1. ASSUME NEW q \in Visit, Request(q)
      PROVE  Issued'
  <2>1. ASSUME NEW m \in Member, NEW s \in Secret, LoginFind(q, m, s)
        PROVE  Issued'
    BY <2>1, HoldIssued DEF LoginFind
  <2>2. ASSUME NEW t \in refresh, RefreshCheck(q, t)
        PROVE  Issued'
    BY <2>2, HoldIssued DEF RefreshCheck
  <2>3. ASSUME NEW a \in access, NEW t \in refresh, LogoutArrive(q, a, t)
        PROVE  Issued'
    <3> DEFINE h == [Nobody EXCEPT !.sub = a.sub, !.token = t]
    <3>1. h.token = t
      BY DEF Nobody
    <3>2. Hold(q, "logoutRevoke", h) /\ UNCHANGED <<refresh, revoked>>
      BY <2>3 DEF LogoutArrive
    <3> HIDE DEF h
    <3> QED
      BY <3>1, <3>2, HoldIssued
  <2>4. ASSUME NEW a \in access, ResetArrive(q, a)
        PROVE  Issued'
    BY <2>4, HoldIssued DEF ResetArrive
  <2> QED
    BY <1>1, <2>1, <2>2, <2>3, <2>4 DEF Request
<1>2. ASSUME NEW q \in Visit, Handle(q)
      PROVE  Issued'
  <2>1. CASE LoginUpdate(q)
    <3> DEFINE h == [visit[q] EXCEPT !.token = Signed(visit[q].sub)]
    <3>1. visit[q] \in Held
      BY DEF TypeInv, SessionsTypeOK
    <3>2. h.token.sub = h.sub
      BY <3>1 DEF Held, Signed
    <3>3. (End(q) \/ Hold(q, "loginAudit", h)) /\ UNCHANGED <<refresh, revoked>>
      BY <2>1 DEF LoginUpdate
    <3> HIDE DEF h
    <3> QED
      BY <3>2, <3>3, HoldIssued, EndIssued
  <2>2. CASE LoginAudit(q)
    BY <2>2, EndIssued DEF LoginAudit
  <2>3. CASE RefreshVerify(q)
    BY <2>3, EndIssued, GoIssued DEF RefreshVerify
  <2>4. CASE RefreshSign(q)
    BY <2>4, EndIssued DEF RefreshSign
  <2>5. CASE LogoutRevoke(q)
    <3>1. HeldToken(q) \in refresh
      BY <2>5 DEF LogoutRevoke, Issued
    <3>2. \A e \in revoked' : e \in revoked \/ e.token \in refresh
      BY <2>5, <3>1 DEF LogoutRevoke
    <3>3. Go(q, "logoutAudit") /\ UNCHANGED <<refresh, visit>>
      BY <2>5 DEF LogoutRevoke
    <3> QED
      BY <3>2, <3>3, GoIssued
  <2>6. CASE LogoutAudit(q) \/ ResetAudit(q)
    BY <2>6, EndIssued DEF LogoutAudit, ResetAudit
  <2>7. CASE ResetFind(q)
    BY <2>7, EndIssued, HoldIssued DEF ResetFind
  <2>8. ASSUME NEW s \in Secret, ResetUpdate(q, s)
        PROVE  Issued'
    BY <2>8, EndIssued, GoIssued DEF ResetUpdate
  <2> QED
    BY <1>2, <2>1, <2>2, <2>3, <2>4, <2>5, <2>6, <2>7, <2>8 DEF Handle
<1>3. ASSUME NEW q \in Visit, Break(q)
      PROVE  Issued'
  BY <1>3, EndIssued DEF Break
<1>4. ASSUME UNCHANGED <<refresh, revoked, phase, visit>>
      PROVE  Issued'
  BY <1>4 DEF Issued, At, HeldToken
<1>5. ASSUME NEW m \in Member, NEW s, Close(m, s)
      PROVE  Issued'
  BY <1>4, <1>5 DEF Close
<1>6. CASE Tick \/ UNCHANGED sessionsVars
  BY <1>4, <1>6 DEF Tick, sessionsVars
<1> QED
  BY <1>1, <1>2, <1>3, <1>5, <1>6 DEF SessionsNext

(* The keys of the blacklist and the tokens handed out only grow, and time *)
(* only passes.                                                            *)
LEMMA NothingIsTakenBack ==
    ASSUME TypeInv, [SessionsNext]_sessionsVars
    PROVE  /\ clock \in Nat /\ clock' \in Nat /\ clock <= clock'
           /\ refresh \subseteq refresh'
           /\ \A t : Revoked(t) => Revoked(t)'
<1> USE DEF accounts, tokens, requests
<1>1. clock \in Nat
  BY ClockAssumption DEF TypeInv, SessionsTypeOK
<1>2. ASSUME NEW q \in Visit, Request(q)
      PROVE  UNCHANGED <<clock, refresh, revoked>>
  BY <1>2 DEF Request, LoginFind, RefreshCheck, LogoutArrive, ResetArrive
<1>3. ASSUME NEW q \in Visit, Handle(q)
      PROVE  /\ clock' = clock /\ refresh \subseteq refresh'
             /\ revoked' = revoked \/ LogoutRevoke(q)
  BY <1>3 DEF Handle, LoginUpdate, LoginAudit, RefreshVerify, RefreshSign,
              LogoutRevoke, LogoutAudit, ResetFind, ResetUpdate, ResetAudit
<1>4. ASSUME NEW q \in Visit, LogoutRevoke(q)
      PROVE  \A t : Revoked(t) => Revoked(t)'
  <2> SUFFICES ASSUME NEW t, NEW e \in revoked, e.token = t
               PROVE  \E f \in revoked' : f.token = t
    BY DEF Revoked
  <2>1. CASE t = HeldToken(q)
    <3> DEFINE f == [token |-> t, until |-> clock + BlacklistTtl]
    <3>1. f \in revoked' /\ f.token = t
      BY <1>4, <2>1 DEF LogoutRevoke
    <3> QED
      BY <3>1
  <2>2. CASE t # HeldToken(q)
    BY <1>4, <2>2 DEF LogoutRevoke
  <2> QED
    BY <2>1, <2>2
<1>5. ASSUME NEW q \in Visit, Break(q)
      PROVE  UNCHANGED <<clock, refresh, revoked>>
  BY <1>5 DEF Break
<1>6. ASSUME NEW m \in Member, NEW s, Close(m, s)
      PROVE  UNCHANGED <<clock, refresh, revoked>>
  BY <1>6 DEF Close
<1>7. CASE Tick
  BY <1>1, <1>7 DEF Tick, Revoked
<1>8. CASE UNCHANGED sessionsVars
  BY <1>1, <1>8 DEF sessionsVars, Revoked
<1>9. revoked' = revoked => \A t : Revoked(t) => Revoked(t)'
  BY DEF Revoked
<1> QED
  BY <1>1, <1>2, <1>3, <1>4, <1>5, <1>6, <1>7, <1>8, <1>9 DEF SessionsNext

(* What request q does leaves t cut off if q itself does not come to be    *)
(* past the blacklist with it.                                             *)
LEMMA CutOffKept ==
    ASSUME TypeInv, [SessionsNext]_sessionsVars, NEW t \in refresh, CutOff(t),
           NEW q \in Visit,
           \A o \in Visit \ {q} : phase'[o] = phase[o] /\ visit'[o] = visit[o],
           \/ ~(phase'[q] \in {"refreshVerify", "refreshFind"})
           \/ visit'[q].token # t
           \/ phase'[q] = "refreshVerify" /\ ~LiveRefresh(t)
    PROVE  CutOff(t)'
<1>1. Revoked(t)' /\ clock <= clock' /\ clock \in Nat /\ clock' \in Nat
  BY NothingIsTakenBack DEF CutOff
<1>2. t.iat \in Nat
  BY DEF TypeInv, SessionsTypeOK, Token
<1>3. ~LiveRefresh(t) => ~LiveRefresh(t)'
  BY <1>1, <1>2, TtlTypes DEF LiveRefresh
<1> QED
  BY <1>1, <1>3 DEF CutOff, At, HeldToken

LEMMA CutOffStays ==
    ASSUME TypeInv, Issued, RevokedStaysRevoked, [SessionsNext]_sessionsVars,
           NEW t \in refresh, CutOff(t)
    PROVE  CutOff(t)'
<1> USE DEF accounts, tokens, requests
<1>1. phase \in [Visit -> Phase] /\ visit \in [Visit -> Held]
  BY DEF TypeInv, SessionsTypeOK
<1>2. ASSUME NEW q \in Visit, NEW p, NEW h, Hold(q, p, h),
             \/ p \notin {"refreshVerify", "refreshFind"}
             \/ h.token # t
             \/ p = "refreshVerify" /\ ~LiveRefresh(t)
      PROVE  CutOff(t)'
  BY <1>1, <1>2, CutOffKept DEF Hold
<1>3. ASSUME NEW q \in Visit, End(q)
      PROVE  CutOff(t)'
  BY <1>2, <1>3 DEF End
<1>4. ASSUME NEW q \in Visit, NEW p, Go(q, p), visit' = visit,
             p \notin {"refreshVerify", "refreshFind"} \/ visit[q].token # t
      PROVE  CutOff(t)'
  BY <1>1, <1>4, CutOffKept DEF Go
<1>5. ASSUME NEW q \in Visit, Request(q)
      PROVE  CutOff(t)'
  <2>1. ASSUME NEW m \in Member, NEW s \in Secret, LoginFind(q, m, s)
        PROVE  CutOff(t)'
    BY <1>2, <2>1 DEF LoginFind
  <2>2. ASSUME NEW u \in refresh, RefreshCheck(q, u)
        PROVE  CutOff(t)'
    <3> DEFINE h == [Nobody EXCEPT !.sub = u.sub, !.token = u]
    <3>1. h.token = u
      BY DEF Nobody
    <3>2. Hold(q, "refreshVerify", h) /\ ~IsBlacklisted(u)
      BY <2>2 DEF RefreshCheck
    <3>3. u = t => ~LiveRefresh(t)
      BY <3>2 DEF CutOff, Revoked, RevokedStaysRevoked
    <3> HIDE DEF h
    <3> QED
      BY <1>2, <3>1, <3>2, <3>3
  <2>3. ASSUME NEW a \in access, NEW u \in refresh, LogoutArrive(q, a, u)
        PROVE  CutOff(t)'
    BY <1>2, <2>3 DEF LogoutArrive
  <2>4. ASSUME NEW a \in access, ResetArrive(q, a)
        PROVE  CutOff(t)'
    BY <1>2, <2>4 DEF ResetArrive
  <2> QED
    BY <1>5, <2>1, <2>2, <2>3, <2>4 DEF Request
<1>6. ASSUME NEW q \in Visit, RefreshVerify(q)
      PROVE  CutOff(t)'
  <2>1. HeldToken(q) = t => End(q)
    BY <1>6 DEF RefreshVerify, CutOff
  <2>2. End(q) \/ (Go(q, "refreshFind") /\ visit' = visit)
    BY <1>6 DEF RefreshVerify
  <2> QED
    BY <1>3, <1>4, <2>1, <2>2 DEF HeldToken
<1>7. ASSUME NEW q \in Visit, LoginUpdate(q)
      PROVE  CutOff(t)'
  BY <1>2, <1>3, <1>7 DEF LoginUpdate
<1>8. ASSUME NEW q \in Visit, LogoutRevoke(q)
      PROVE  CutOff(t)'
  BY <1>4, <1>8 DEF LogoutRevoke
<1>9. ASSUME NEW q \in Visit, ResetFind(q)
      PROVE  CutOff(t)'
  BY <1>2, <1>3, <1>9 DEF ResetFind
<1>10. ASSUME NEW q \in Visit, NEW s \in Secret, ResetUpdate(q, s)
       PROVE  CutOff(t)'
  BY <1>3, <1>4, <1>10 DEF ResetUpdate
<1>11. ASSUME NEW q \in Visit, LoginAudit(q) \/ RefreshSign(q) \/ LogoutAudit(q)
                               \/ ResetAudit(q) \/ Break(q)
       PROVE  CutOff(t)'
  BY <1>3, <1>11 DEF LoginAudit, RefreshSign, LogoutAudit, ResetAudit, Break
<1>12. ASSUME UNCHANGED <<phase, visit>>
       PROVE  CutOff(t)'
  <2>1. Revoked(t)' /\ clock <= clock' /\ clock \in Nat /\ clock' \in Nat
    BY NothingIsTakenBack DEF CutOff
  <2>2. t.iat \in Nat
    BY DEF TypeInv, SessionsTypeOK, Token
  <2>3. ~LiveRefresh(t) => ~LiveRefresh(t)'
    BY <2>1, <2>2, TtlTypes DEF LiveRefresh
  <2> QED
    BY <1>12, <2>1, <2>3 DEF CutOff, At, HeldToken
<1>13. ASSUME NEW m \in Member, NEW s, Close(m, s)
       PROVE  CutOff(t)'
  BY <1>12, <1>13 DEF Close
<1>14. CASE Tick \/ UNCHANGED sessionsVars
  BY <1>12, <1>14 DEF Tick, sessionsVars
<1> QED
  BY <1>5, <1>6, <1>7, <1>8, <1>9, <1>10, <1>11, <1>13, <1>14
  DEF SessionsNext, Handle

(* A refresh token that is revoked and with which no refresh is past the   *)
(* blacklist any more never signs again, whatever the settings are: the    *)
(* safety part of LogoutTakesHold, of which the rest is that requests end. *)
THEOREM RevocationStandsCorrect == SessionsSpec => RevocationStands
<1>1. TypeInv /\ Issued /\ [SessionsNext]_sessionsVars => Issued'
  BY IssuedNext
<1>2. TypeInv /\ Issued /\ RevokedStaysRevoked /\ [SessionsNext]_sessionsVars =>
        [\A t \in refresh : CutOff(t) => CutOff(t)']_sessionsVars
  BY CutOffStays
<1> QED
  BY <1>1, <1>2, IssuedInit, TypeAlways, RevocationCorrect, PTL
  DEF SessionsSpec, RevocationStands

-----------------------------------------------------------------------------
(* What is shut stays shut                                                 *)

(* What request q does leaves m shut if q itself does not come to act for  *)
(* m, except to refresh.                                                   *)
LEMMA ShutKept ==
    ASSUME NEW m \in Member, Shut(m), standing'[m] # "active", NEW q \in Visit,
           \A o \in Visit \ {q} : phase'[o] = phase[o] /\ visit'[o] = visit[o],
           visit'[q].sub = m => phase'[q] \in {"refreshVerify", "refreshFind"}
    PROVE  Shut(m)'
BY DEF Shut

LEMMA EndShut ==
    ASSUME TypeInv, NEW m \in Member, Shut(m), UNCHANGED standing,
           NEW q \in Visit, End(q)
    PROVE  Shut(m)'
<1>1. Nobody.sub # m
  BY MemberAssumption DEF Nobody
<1>2. phase \in [Visit -> Phase] /\ visit \in [Visit -> Held]
  BY DEF TypeInv, SessionsTypeOK
<1>3. standing'[m] # "active"
  BY DEF Shut
<1> QED
  BY <1>1, <1>2, <1>3, ShutKept DEF End, Hold

(* A request that goes on without a refresh acts for somebody else. *)
LEMMA OthersShut ==
    ASSUME TypeInv, NEW m \in Member, Shut(m), UNCHANGED standing,
           NEW q \in Visit, NEW p, NEW h,
           Hold(q, p, h) \/ (Go(q, p) /\ UNCHANGED visit /\ h = visit[q]),
           h.sub = m => p \in {"refreshVerify", "refreshFind"}
    PROVE  Shut(m)'
<1>1. phase \in [Visit -> Phase] /\ visit \in [Visit -> Held]
  BY DEF TypeInv, SessionsTypeOK
<1>2. standing'[m] # "active"
  BY DEF Shut
<1> QED
  BY <1>1, <1>2, ShutKept DEF Hold, Go

LEMMA ShutStays ==
    ASSUME TypeInv, [SessionsNext]_sessionsVars, NEW m \in Member, Shut(m)
    PROVE  Shut(m)'
<1> USE DEF accounts, tokens, requests
<1>1. standing[m] # "active" /\ standing \in [Member -> {"active", "inactive", "removed"}]
  BY DEF Shut, TypeInv, SessionsTypeOK
<1>2. ASSUME NEW q \in Visit, Request(q)
      PROVE  Shut(m)'
  <2>1. ASSUME NEW n \in Member, NEW s \in Secret, LoginFind(q, n, s)
        PROVE  Shut(m)'
    <3> DEFINE h == [Nobody EXCEPT !.sub = n]
    <3>1. h.sub = n /\ n # m
      BY <1>1, <2>1 DEF Nobody, LoginFind
    <3>2. Hold(q, "loginUpdate", h) /\ UNCHANGED standing
      BY <2>1 DEF LoginFind
    <3> HIDE DEF h
    <3> QED
      BY <3>1, <3>2, OthersShut
  <2>2. ASSUME NEW t \in refresh, RefreshCheck(q, t)
        PROVE  Shut(m)'
    BY <2>2, OthersShut DEF RefreshCheck
  <2>3. ASSUME NEW a \in access, NEW t \in refresh, LogoutArrive(q, a, t)
        PROVE  Shut(m)'
    <3> DEFINE h == [Nobody EXCEPT !.sub = a.sub, !.token = t]
    <3>1. h.sub = a.sub /\ a.sub # m
      BY <1>1, <2>3 DEF Nobody, LogoutArrive, Authenticated
    <3>2. Hold(q, "logoutRevoke", h) /\ UNCHANGED standing
      BY <2>3 DEF LogoutArrive
    <3> HIDE DEF h
    <3> QED
      BY <3>1, <3>2, OthersShut
  <2>4. ASSUME NEW a \in access, ResetArrive(q, a)
        PROVE  Shut(m)'
    <3> DEFINE h == [Nobody EXCEPT !.sub = a.sub]
    <3>1. h.sub = a.sub /\ a.sub # m
      BY <1>1, <2>4 DEF Nobody, ResetArrive, Authenticated
    <3>2. Hold(q, "resetFind", h) /\ UNCHANGED standing
      BY <2>4 DEF ResetArrive
    <3> HIDE DEF h
    <3> QED
      BY <3>1, <3>2, OthersShut
  <2> QED
    BY <1>2, <2>1, <2>2, <2>3, <2>4 DEF Request
<1>3. ASSUME NEW q \in Visit, Handle(q)
      PROVE  Shut(m)'
  <2>1. UNCHANGED standing
    BY <1>3 DEF Handle, LoginUpdate, LoginAudit, RefreshVerify, RefreshSign,
                LogoutRevoke, LogoutAudit, ResetFind, ResetUpdate, ResetAudit
  <2>2. ASSUME End(q)
        PROVE  Shut(m)'
    BY <2>1, <2>2, EndShut
  <2>3. ASSUME NEW p, Go(q, p), UNCHANGED visit,
               p = "refreshFind" \/ ~(phase[q] \in {"refreshVerify", "refreshFind"})
        PROVE  Shut(m)'
    <3>1. visit[q].sub = m => p \in {"refreshVerify", "refreshFind"}
      BY <2>3 DEF Shut
    <3> QED
      BY <2>1, <2>3, <3>1, OthersShut
  <2>4. ASSUME NEW p, NEW h, Hold(q, p, h), h.sub = visit[q].sub,
               ~(phase[q] \in {"refreshVerify", "refreshFind"})
        PROVE  Shut(m)'
    <3>1. h.sub # m
      BY <2>4 DEF Shut
    <3> QED
      BY <2>1, <2>4, <3>1, OthersShut
  <2>5. visit[q] \in Held
    BY DEF TypeInv, SessionsTypeOK
  <2>6. CASE LoginUpdate(q)
    <3> DEFINE h == [visit[q] EXCEPT !.token = Signed(visit[q].sub)]
    <3>1. h.sub = visit[q].sub
      BY <2>5 DEF Held
    <3>2. End(q) \/ Hold(q, "loginAudit", h)
      BY <2>6 DEF LoginUpdate
    <3>3. phase[q] = "loginUpdate"
      BY <2>6 DEF LoginUpdate, At
    <3> HIDE DEF h
    <3> QED
      BY <2>2, <2>4, <3>1, <3>2, <3>3
  <2>7. CASE ResetFind(q)
    <3> DEFINE h == [visit[q] EXCEPT !.secret = secret[visit[q].sub]]
    <3>1. h.sub = visit[q].sub
      BY <2>5 DEF Held
    <3>2. End(q) \/ Hold(q, "resetUpdate", h)
      BY <2>7 DEF ResetFind
    <3>3. phase[q] = "resetFind"
      BY <2>7 DEF ResetFind, At
    <3> HIDE DEF h
    <3> QED
      BY <2>2, <2>4, <3>1, <3>2, <3>3
  <2>8. CASE LogoutRevoke(q)
    BY <2>3, <2>8 DEF LogoutRevoke, At
  <2>9. ASSUME NEW s \in Secret, ResetUpdate(q, s)
        PROVE  Shut(m)'
    BY <2>2, <2>3, <2>9 DEF ResetUpdate, At
  <2>10. CASE RefreshVerify(q)
    BY <2>2, <2>3, <2>10 DEF RefreshVerify
  <2>11. CASE LoginAudit(q) \/ RefreshSign(q) \/ LogoutAudit(q) \/ ResetAudit(q)
    BY <2>2, <2>11 DEF LoginAudit, RefreshSign, LogoutAudit, ResetAudit
  <2> QED
    BY <1>3, <2>6, <2>7, <2>8, <2>9, <2>10, <2>11 DEF Handle
<1>4. ASSUME NEW q \in Visit, Break(q)
      PROVE  Shut(m)'
  BY <1>4, EndShut DEF Break
<1>5. ASSUME NEW n \in Member, NEW s \in {"inactive", "removed"}, Close(n, s)
      PROVE  Shut(m)'
  BY <1>1, <1>5 DEF Close, Shut
<1>6. CASE Tick \/ UNCHANGED sessionsVars
  BY <1>6 DEF Tick, sessionsVars, Shut
<1> QED
  BY <1>2, <1>3, <1>4, <1>5, <1>6 DEF SessionsNext

LEMMA ShutHoldsNothingNew ==
    ASSUME TypeInv, Issued, [SessionsNext]_sessionsVars, NEW m \in Member, Shut(m)
    PROVE  secret'[m] = secret[m] /\ TokensOf(m)' = TokensOf(m)
<1> USE DEF accounts, tokens, requests
<1>1. ASSUME UNCHANGED <<secret, access, refresh>>
      PROVE  secret'[m] = secret[m] /\ TokensOf(m)' = TokensOf(m)
  BY <1>1 DEF TokensOf
<1>2. ASSUME NEW q \in Visit, LoginAudit(q)
      PROVE  secret'[m] = secret[m] /\ TokensOf(m)' = TokensOf(m)
  <2>1. HeldToken(q).sub # m
    BY <1>2 DEF LoginAudit, At, Issued, Shut
  <2>2. /\ access' = access \cup {HeldToken(q)}
        /\ refresh' = refresh \cup {HeldToken(q)}
        /\ secret' = secret
    BY <1>2 DEF LoginAudit
  <2> QED
    BY <2>1, <2>2 DEF TokensOf
<1>3. ASSUME NEW q \in Visit, RefreshSign(q)
      PROVE  secret'[m] = secret[m] /\ TokensOf(m)' = TokensOf(m)
  <2>1. /\ access' = access \/ (/\ visit[q].sub # m
                               /\ access' = access \cup {Signed(visit[q].sub)})
        /\ UNCHANGED <<refresh, secret>>
    BY <1>3 DEF RefreshSign, Shut
  <2>2. Signed(visit[q].sub).sub = visit[q].sub
    BY DEF Signed
  <2> QED
    BY <2>1, <2>2 DEF TokensOf
<1>4. ASSUME NEW q \in Visit, NEW s \in Secret, ResetUpdate(q, s)
      PROVE  secret'[m] = secret[m] /\ TokensOf(m)' = TokensOf(m)
  <2>1. visit[q].sub # m
    BY <1>4 DEF ResetUpdate, At, Shut
  <2>2. secret \in [Member -> Secret]
    BY DEF TypeInv, SessionsTypeOK
  <2>3. secret' = [secret EXCEPT ![visit[q].sub] = s] /\ UNCHANGED <<access, refresh>>
    BY <1>4 DEF ResetUpdate
  <2> QED
    BY <2>1, <2>2, <2>3 DEF TokensOf
<1>5. ASSUME NEW q \in Visit, Request(q) \/ Break(q)
      PROVE  UNCHANGED <<secret, access, refresh>>
  BY <1>5 DEF Request, LoginFind, RefreshCheck, LogoutArrive, ResetArrive, Break
<1>6. ASSUME NEW q \in Visit, Handle(q)
      PROVE  \/ UNCHANGED <<secret, access, refresh>>
             \/ LoginAudit(q) \/ RefreshSign(q)
             \/ \E s \in Secret : ResetUpdate(q, s)
  BY <1>6 DEF Handle, LoginUpdate, RefreshVerify, LogoutRevoke, LogoutAudit,
              ResetFind, ResetAudit
<1>7. ASSUME NEW n \in Member, NEW s, Close(n, s)
      PROVE  UNCHANGED <<secret, access, refresh>>
  BY <1>7 DEF Close
<1>8. CASE Tick \/ UNCHANGED sessionsVars
  BY <1>1, <1>8 DEF Tick, sessionsVars
<1> QED
  BY <1>1, <1>2, <1>3, <1>4, <1>5, <1>6, <1>7, <1>8 DEF SessionsNext

(* An account that is closed, and for which nobody acts any more except to *)
(* refresh, stays so, keeps its password and never obtains another token:  *)
(* the safety part of ClosureTakesHold, and what it is for.                *)
THEOREM ClosureStandsCorrect == SessionsSpec => ClosureStands
<1>1. TypeInv /\ Issued /\ [SessionsNext]_sessionsVars => Issued'
  BY IssuedNext
<1>2. TypeInv /\ Issued /\ [SessionsNext]_sessionsVars =>
        [\A m \in Member : Shut(m) =>
           /\ Shut(m)'
           /\ secret'[m] = secret[m]
           /\ TokensOf(m)' = TokensOf(m)]_sessionsVars
  BY ShutStays, ShutHoldsNothingNew
<1> QED
  BY <1>1, <1>2, IssuedInit, TypeAlways, PTL DEF SessionsSpec, ClosureStands
=============================================================================
