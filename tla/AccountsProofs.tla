--------------------------- MODULE AccountsProofs ---------------------------
(***************************************************************************)
(* Proofs about Accounts, for any accounts, addresses and requests, and    *)
(* whatever endpoints are called.                                          *)
(***************************************************************************)
EXTENDS Accounts, TLAPS

(* What the handler of request c holds at each of its steps. *)
Holds(c) ==
    /\ step[c] # "idle" => call[c] \in Context
    /\ step[c] \notin {"idle", "handle"} =>
          call[c].endpoint[1] = "users" /\ call[c].action \in UserAction
    /\ step[c] = "insert" => call[c].address # NoEmail /\ call[c].grant # NoRole
    /\ step[c] = "deactivate" => call[c].action = "USER_DEACTIVATED"
    /\ step[c] = "remove" => call[c].action = "USER_DELETED"
    /\ step[c] \in {"update", "deactivate", "remove", "audit"} =>
          call[c].subject \in Account

HandlersHold == \A c \in Call : Holds(c)

TypeInv == AccountsTypeOK /\ HandlersHold

USE DEF Role, UserAction, CallStep

-----------------------------------------------------------------------------
(* The type invariant *)

LEMMA TypeInit == AccountsInit => TypeInv
BY AccountAssumption, EmailAssumption, GrantedAssumption
DEF AccountsInit, TypeInv, AccountsTypeOK, HandlersHold, Holds

(* The steps of one request leave what the others hold alone. *)
LEMMA OthersHold ==
    ASSUME TypeInv, NEW c \in Call, NEW s \in CallStep, NEW k,
           step' = [step EXCEPT ![c] = s],
           call' = [call EXCEPT ![c] = k],
           Holds(c)'
    PROVE  HandlersHold'
BY DEF TypeInv, AccountsTypeOK, HandlersHold, Holds

LEMMA ReturnKeepsTypes ==
    ASSUME TypeInv, NEW c \in Call, Return(c)
    PROVE  /\ step' \in [Call -> CallStep]
           /\ call' \in [Call -> Context \cup {NoContext}]
           /\ overtaken' \subseteq Call
           /\ HandlersHold'
<1>1. step'[c] = "idle"
  BY DEF Return, TypeInv, AccountsTypeOK
<1>2. Holds(c)'
  BY <1>1 DEF Holds
<1>3. HandlersHold'
  BY <1>2, OthersHold DEF Return
<1> QED
  BY <1>3 DEF Return, TypeInv, AccountsTypeOK

LEMMA WriteBackKeepsTypes ==
    ASSUME TypeInv, NEW c \in Call, WriteBack(c),
           step[c] \in {"update", "deactivate"}
    PROVE  /\ step' \in [Call -> CallStep]
           /\ call' \in [Call -> Context \cup {NoContext}]
           /\ overtaken' \subseteq Call
           /\ lost' \subseteq AuditRow
           /\ HandlersHold'
<1>1. CASE removed[call[c].subject]
  <2>1. Return(c)
    BY <1>1 DEF WriteBack, Return
  <2>2. [action |-> call[c].action, target |-> call[c].subject] \in AuditRow
    BY DEF TypeInv, HandlersHold, Holds, AuditRow
  <2> QED
    BY <1>1, <2>1, <2>2, ReturnKeepsTypes DEF WriteBack, TypeInv, AccountsTypeOK
<1>2. CASE ~removed[call[c].subject]
  <2>1. step' = [step EXCEPT ![c] = "audit"] /\ call' = call /\ lost' = lost
    BY <1>2 DEF WriteBack, Goto
  <2>2. overtaken' \subseteq Call
    BY <1>2 DEF WriteBack, Overtakes, TypeInv, AccountsTypeOK
  <2>3. HandlersHold'
    BY <2>1 DEF TypeInv, AccountsTypeOK, HandlersHold, Holds
  <2> QED
    BY <2>1, <2>2, <2>3 DEF TypeInv, AccountsTypeOK
<1> QED
  BY <1>1, <1>2

LEMMA TypeNext == TypeInv /\ [AccountsNext]_accountsVars => TypeInv'
<1> SUFFICES ASSUME TypeInv, [AccountsNext]_accountsVars
             PROVE  TypeInv'
  OBVIOUS
<1> USE AccountAssumption, EmailAssumption, GrantedAssumption
<1>1. ASSUME NEW u \in Account, Seed(u)
      PROVE  TypeInv'
  BY <1>1 DEF TypeInv, AccountsTypeOK, HandlersHold, Holds, Seed, journal
<1>2. ASSUME NEW u \in Account, SignIn(u)
      PROVE  TypeInv'
  <2>1. [sub |-> u, role |-> role[u]] \in AccessToken
    BY DEF TypeInv, AccountsTypeOK, AccessToken
  <2> QED
    BY <1>2, <2>1
    DEF TypeInv, AccountsTypeOK, HandlersHold, Holds, SignIn, users, journal
<1>3. ASSUME NEW c \in Call, NEW t \in signed, NEW e \in Called, Arrive(c, t, e)
      PROVE  TypeInv'
  <2> DEFINE k == [NoContext EXCEPT !.actor = t.sub, !.endpoint = e]
  <2>1. k \in Context
    <3>1. t.sub \in Account
      BY DEF TypeInv, AccountsTypeOK, AccessToken
    <3>2. e \in Endpoint
      BY CalledAssumption
    <3> QED
      BY <3>1, <3>2 DEF Context, NoContext
  <2>2. step' = [step EXCEPT ![c] = "handle"] /\ call' = [call EXCEPT ![c] = k]
    BY <1>3 DEF Arrive, Goto
  <2>3. Holds(c)'
    BY <2>1, <2>2 DEF Holds, TypeInv, AccountsTypeOK
  <2>4. HandlersHold'
    BY <2>2, <2>3, OthersHold
  <2>5. AccountsTypeOK'
    BY <1>3, <2>1, <2>2 DEF Arrive, TypeInv, AccountsTypeOK, users, journal
  <2> QED
    BY <2>4, <2>5 DEF TypeInv
<1>4. ASSUME NEW c \in Call, Act(c)
      PROVE  TypeInv'
  BY <1>4, ReturnKeepsTypes DEF Act, TypeInv, AccountsTypeOK, users, journal
<1>5. ASSUME NEW c \in Call, NEW m \in Email, NEW g \in Granted,
             CreateFind(c, m, g)
      PROVE  TypeInv'
  <2> DEFINE k == [call[c] EXCEPT !.address = m, !.grant = g,
                                  !.action = "USER_CREATED"]
  <2>1. step' = [step EXCEPT ![c] = "insert"] /\ call' = [call EXCEPT ![c] = k]
    BY <1>5 DEF CreateFind, Goto, TypeInv, AccountsTypeOK
  <2>2. call[c] \in Context /\ call[c].endpoint[1] = "users"
    BY <1>5 DEF CreateFind, OnUsers, TypeInv, HandlersHold, Holds
  <2>3. /\ k \in Context /\ k.endpoint = call[c].endpoint
        /\ k.address = m /\ k.grant = g /\ k.action = "USER_CREATED"
    BY <2>2 DEF Context
  <2>4. Holds(c)'
    BY <2>1, <2>2, <2>3 DEF Holds, TypeInv, AccountsTypeOK
  <2>5. HandlersHold'
    BY <2>1, <2>4, OthersHold
  <2>6. AccountsTypeOK'
    BY <1>5, <2>1, <2>3 DEF CreateFind, TypeInv, AccountsTypeOK, users, journal
  <2> QED
    BY <2>5, <2>6 DEF TypeInv
<1>6. ASSUME NEW c \in Call, NEW u \in Account, CreateInsert(c, u)
      PROVE  TypeInv'
  <2> DEFINE k == [call[c] EXCEPT !.subject = u]
  <2>1. step' = [step EXCEPT ![c] = "audit"] /\ call' = [call EXCEPT ![c] = k]
    BY <1>6 DEF CreateInsert, Goto, TypeInv, AccountsTypeOK
  <2>2. call[c] \in Context /\ Holds(c) /\ step[c] = "insert"
    BY <1>6 DEF CreateInsert, TypeInv, HandlersHold, Holds
  <2>3. /\ k \in Context /\ k.endpoint = call[c].endpoint
        /\ k.subject = u /\ k.action = call[c].action
    BY <2>2 DEF Context
  <2>4. Holds(c)'
    BY <2>1, <2>2, <2>3 DEF Holds, TypeInv, AccountsTypeOK
  <2>5. HandlersHold'
    BY <2>1, <2>4, OthersHold
  <2>6. call[c].address \in Email /\ call[c].grant \in Role
    BY <2>2 DEF Holds, Context
  <2>7. AccountsTypeOK'
    BY <1>6, <2>1, <2>3, <2>6
    DEF CreateInsert, TypeInv, AccountsTypeOK, journal
  <2> QED
    BY <2>5, <2>7 DEF TypeInv
<1>7. ASSUME NEW c \in Call, NEW u \in Account, NEW g \in Role \cup {NoRole},
             NEW s \in {"update", "deactivate", "remove"},
             NEW a \in UserAction, Subject(c, u, s, a, g),
             call[c].endpoint[1] = "users",
             s = "deactivate" => a = "USER_DEACTIVATED",
             s = "remove" => a = "USER_DELETED"
      PROVE  TypeInv'
  <2> DEFINE k == [call[c] EXCEPT !.subject = u, !.action = a, !.grant = g]
  <2>1. step' = [step EXCEPT ![c] = s] /\ call' = [call EXCEPT ![c] = k]
    BY <1>7 DEF Subject, Goto, TypeInv, AccountsTypeOK
  <2>2. call[c] \in Context
    BY <1>7 DEF Subject, TypeInv, HandlersHold, Holds
  <2>3. /\ k \in Context /\ k.endpoint = call[c].endpoint
        /\ k.subject = u /\ k.action = a
    BY <2>2 DEF Context
  <2>4. Holds(c)'
    BY <1>7, <2>1, <2>2, <2>3 DEF Holds, TypeInv, AccountsTypeOK
  <2>5. HandlersHold'
    BY <2>1, <2>4, OthersHold
  <2>6. AccountsTypeOK'
    BY <1>7, <2>1, <2>3 DEF Subject, TypeInv, AccountsTypeOK, users, journal
  <2> QED
    BY <2>5, <2>6 DEF TypeInv
<1>8. ASSUME NEW c \in Call, NEW u \in Account, NEW g \in Granted \cup {NoRole},
             UpdateFind(c, u, g)
      PROVE  TypeInv'
  BY <1>7, <1>8 DEF UpdateFind, OnUsers
<1>9. ASSUME NEW c \in Call, NEW u \in Account, DeactivateFind(c, u)
      PROVE  TypeInv'
  BY <1>7, <1>9 DEF DeactivateFind, OnUsers
<1>10. ASSUME NEW c \in Call, NEW u \in Account, RemoveFind(c, u)
       PROVE  TypeInv'
  BY <1>7, <1>10 DEF RemoveFind, OnUsers
<1>11. ASSUME NEW c \in Call, UpdateWrite(c)
       PROVE  TypeInv'
  <2>1. call[c].grant \in Role \cup {NoRole} /\ step[c] = "update"
    BY <1>11 DEF UpdateWrite, TypeInv, HandlersHold, Holds, Context
  <2>2. role' \in [Account -> Role]
    BY <1>11, <2>1 DEF UpdateWrite, TypeInv, AccountsTypeOK
  <2> QED
    BY <1>11, <2>1, <2>2, WriteBackKeepsTypes
    DEF UpdateWrite, TypeInv, AccountsTypeOK
<1>12. ASSUME NEW c \in Call, DeactivateWrite(c)
       PROVE  TypeInv'
  BY <1>12, WriteBackKeepsTypes DEF DeactivateWrite, TypeInv, AccountsTypeOK
<1>13. ASSUME NEW c \in Call, RemoveWrite(c)
       PROVE  TypeInv'
  <2>1. HandlersHold'
    BY <1>13 DEF RemoveWrite, Goto, TypeInv, AccountsTypeOK, HandlersHold, Holds
  <2>2. AccountsTypeOK'
    BY <1>13 DEF RemoveWrite, Goto, Overtakes, TypeInv, AccountsTypeOK, journal
  <2> QED
    BY <2>1, <2>2 DEF TypeInv
<1>14. ASSUME NEW c \in Call, AuditWrite(c)
       PROVE  TypeInv'
  <2>1. [action |-> call[c].action, target |-> call[c].subject] \in AuditRow
    BY <1>14 DEF AuditWrite, TypeInv, HandlersHold, Holds, AuditRow
  <2> QED
    BY <1>14, <2>1, ReturnKeepsTypes
    DEF AuditWrite, TypeInv, AccountsTypeOK, users
<1>15. ASSUME NEW c \in Call, Fail(c)
       PROVE  TypeInv'
  <2>1. step[c] = "audit" =>
          [action |-> call[c].action, target |-> call[c].subject] \in AuditRow
    BY <1>15 DEF Fail, TypeInv, HandlersHold, Holds, AuditRow
  <2> QED
    BY <1>15, <2>1, ReturnKeepsTypes DEF Fail, TypeInv, AccountsTypeOK, users
<1>16. CASE UNCHANGED accountsVars
  BY <1>16
  DEF accountsVars, users, journal, TypeInv, AccountsTypeOK, HandlersHold, Holds
<1> QED
  BY <1>1, <1>2, <1>3, <1>4, <1>5, <1>6, <1>8, <1>9, <1>10, <1>11, <1>12,
     <1>13, <1>14, <1>15, <1>16 DEF AccountsNext, Progress

LEMMA TypeAlways == AccountsSpec => []TypeInv
BY TypeInit, TypeNext, PTL DEF AccountsSpec

(* AccountsTypeOK is an invariant of UserService, its guards and the seed. *)
THEOREM TypeCorrect == AccountsSpec => []AccountsTypeOK
BY TypeAlways, PTL DEF TypeInv

-----------------------------------------------------------------------------
(* Entitlement: a row that a step changes is not that of a caller who is   *)
(* not overtaken afterwards *)

EntitledCall(c) ==
    \/ c \in overtaken
    \/ /\ Validated(call[c].actor)
       /\ role[call[c].actor] \in RequiredRoles(call[c].endpoint)

LEMMA EntitledInit == AccountsInit => Entitled
BY DEF AccountsInit, Entitled

(* A request keeps its entitlement over a step that leaves its caller's    *)
(* row, its caller and its endpoint alone, and forgets no overtaking.      *)
LEMMA EntitledKept ==
    ASSUME TypeInv, Entitled, NEW c \in Call, step[c] # "idle",
           c \in overtaken => c \in overtaken',
           call'[c].actor = call[c].actor,
           call'[c].endpoint = call[c].endpoint,
           \/ c \in overtaken'
           \/ LET a == call[c].actor
              IN /\ email'[a] = email[a] /\ role'[a] = role[a]
                 /\ active'[a] = active[a] /\ removed'[a] = removed[a]
    PROVE  EntitledCall(c)'
BY DEF Entitled, EntitledCall, Validated, Found

LEMMA EntitledNext ==
    ASSUME TypeInv, Entitled, [AccountsNext]_accountsVars
    PROVE  Entitled'
<1> SUFFICES ASSUME NEW d \in Call, step'[d] # "idle"
             PROVE  EntitledCall(d)'
  BY DEF Entitled, EntitledCall
<1> USE EmailAssumption
<1>1. ASSUME NEW u \in Account, Seed(u)
      PROVE  EntitledCall(d)'
  <2>1. /\ step' = step /\ call' = call /\ overtaken' = overtaken
        /\ email[u] = NoEmail
    BY <1>1 DEF Seed
  <2>2. d \in overtaken \/ call[d].actor # u
    BY <2>1 DEF Entitled, Validated, Found
  <2>3. call[d].actor \in Account
    BY <2>1 DEF TypeInv, HandlersHold, Holds, Context
  <2>4. LET a == call[d].actor
        IN a # u => /\ email'[a] = email[a] /\ role'[a] = role[a]
                    /\ active'[a] = active[a] /\ removed'[a] = removed[a]
    BY <1>1, <2>3 DEF Seed, TypeInv, AccountsTypeOK
  <2> QED
    BY <2>1, <2>2, <2>4, EntitledKept
<1>2. ASSUME NEW u \in Account, SignIn(u)
      PROVE  EntitledCall(d)'
  BY <1>2, EntitledKept DEF SignIn, users
<1>3. ASSUME NEW c \in Call, NEW t \in signed, NEW e \in Called, Arrive(c, t, e)
      PROVE  EntitledCall(d)'
  <2>1. CASE d = c
    <3>1. call'[d].actor = t.sub /\ call'[d].endpoint = e
      BY <1>3, <2>1 DEF Arrive, TypeInv, AccountsTypeOK, NoContext
    <3> QED
      BY <1>3, <3>1 DEF Arrive, Authorised, EntitledCall, Validated, Found, users
  <2>2. CASE d # c
    <3>1. step'[d] = step[d] /\ call'[d] = call[d] /\ overtaken' = overtaken
      BY <1>3, <2>2 DEF Arrive, Goto, TypeInv, AccountsTypeOK
    <3> QED
      BY <1>3, <3>1, EntitledKept DEF Arrive, users
  <2> QED
    BY <2>1, <2>2
<1>4. ASSUME NEW c \in Call, Return(c), UNCHANGED users
      PROVE  EntitledCall(d)'
  <2>1. d # c /\ step'[d] = step[d] /\ call'[d] = call[d]
    BY <1>4 DEF Return, TypeInv, AccountsTypeOK
  <2>2. d \in overtaken => d \in overtaken'
    BY <1>4, <2>1 DEF Return
  <2> QED
    BY <1>4, <2>1, <2>2, EntitledKept DEF users
<1>5. ASSUME NEW c \in Call, NEW m \in Email, NEW g \in Granted,
             CreateFind(c, m, g)
      PROVE  EntitledCall(d)'
  <2>1. call[c] \in Context /\ step[c] # "idle"
    BY <1>5 DEF CreateFind, TypeInv, HandlersHold, Holds
  <2>2. /\ call'[d].actor = call[d].actor /\ call'[d].endpoint = call[d].endpoint
        /\ step[d] # "idle"
    BY <1>5, <2>1 DEF CreateFind, Goto, Context, TypeInv, AccountsTypeOK
  <2> QED
    BY <1>5, <2>2, EntitledKept DEF CreateFind, users
<1>6. ASSUME NEW c \in Call, NEW u \in Account, CreateInsert(c, u)
      PROVE  EntitledCall(d)'
  <2>1. call[c] \in Context /\ step[c] # "idle"
    BY <1>6 DEF CreateInsert, TypeInv, HandlersHold, Holds
  <2>2. /\ call'[d].actor = call[d].actor /\ call'[d].endpoint = call[d].endpoint
        /\ step[d] # "idle"
    BY <1>6, <2>1 DEF CreateInsert, Goto, Context, TypeInv, AccountsTypeOK
  <2>3. d \in overtaken \/ call[d].actor # u
    BY <1>6, <2>2 DEF CreateInsert, Entitled, Validated, Found
  <2>4. call[d].actor \in Account
    BY <2>2 DEF TypeInv, HandlersHold, Holds, Context
  <2>5. LET a == call[d].actor
        IN a # u => /\ email'[a] = email[a] /\ role'[a] = role[a]
                    /\ active'[a] = active[a] /\ removed'[a] = removed[a]
    BY <1>6, <2>4 DEF CreateInsert, TypeInv, AccountsTypeOK
  <2>6. overtaken' = overtaken
    BY <1>6 DEF CreateInsert
  <2> QED
    BY <2>2, <2>3, <2>5, <2>6, EntitledKept
<1>7. ASSUME NEW c \in Call, NEW u \in Account, NEW s, NEW a, NEW g,
             Subject(c, u, s, a, g)
      PROVE  EntitledCall(d)'
  <2>1. call[c] \in Context /\ step[c] # "idle"
    BY <1>7 DEF Subject, TypeInv, HandlersHold, Holds
  <2>2. /\ call'[d].actor = call[d].actor /\ call'[d].endpoint = call[d].endpoint
        /\ step[d] # "idle"
    BY <1>7, <2>1 DEF Subject, Goto, Context, TypeInv, AccountsTypeOK
  <2> QED
    BY <1>7, <2>2, EntitledKept DEF Subject, users
<1>8. ASSUME NEW c \in Call, NEW u \in Account, NEW g, UpdateFind(c, u, g)
      PROVE  EntitledCall(d)'
  BY <1>7, <1>8 DEF UpdateFind
<1>9. ASSUME NEW c \in Call, NEW u \in Account,
             DeactivateFind(c, u) \/ RemoveFind(c, u)
      PROVE  EntitledCall(d)'
  BY <1>7, <1>9 DEF DeactivateFind, RemoveFind
<1>10. ASSUME NEW c \in Call, step[c] \in {"update", "deactivate"},
              WriteBack(c), UNCHANGED <<email, removed>>,
              \A a \in Account : a # call[c].subject =>
                  role'[a] = role[a] /\ active'[a] = active[a]
       PROVE  EntitledCall(d)'
  <2> DEFINE u == call[c].subject
  <2>1. CASE removed[u]
    <3>1. d # c /\ step'[d] = step[d] /\ call'[d] = call[d]
          /\ (d \in overtaken => d \in overtaken')
      BY <1>10, <2>1 DEF WriteBack, TypeInv, AccountsTypeOK
    <3>2. call[d].actor \in Account
      BY <3>1 DEF TypeInv, HandlersHold, Holds, Context
    <3>3. d \in overtaken \/ call[d].actor # u
      BY <2>1, <3>1 DEF Entitled, Validated, Found
    <3> QED
      BY <1>10, <3>1, <3>2, <3>3, EntitledKept
  <2>2. CASE ~removed[u]
    <3>1. step[d] # "idle" /\ call' = call
      BY <1>10, <2>2 DEF WriteBack, Goto, TypeInv, AccountsTypeOK
    <3>2. /\ d \in overtaken => d \in overtaken'
          /\ call[d].actor = u => d \in overtaken'
      BY <1>10, <2>2, <3>1 DEF WriteBack, Overtakes
    <3>3. call[d].actor \in Account
      BY <3>1 DEF TypeInv, HandlersHold, Holds, Context
    <3> QED
      BY <1>10, <3>1, <3>2, <3>3, EntitledKept
  <2> QED
    BY <2>1, <2>2
<1>11. ASSUME NEW c \in Call, UpdateWrite(c)
       PROVE  EntitledCall(d)'
  <2>1. \A a \in Account : a # call[c].subject => role'[a] = role[a]
    BY <1>11 DEF UpdateWrite, TypeInv, AccountsTypeOK
  <2> QED
    BY <1>10, <1>11, <2>1 DEF UpdateWrite
<1>12. ASSUME NEW c \in Call, DeactivateWrite(c)
       PROVE  EntitledCall(d)'
  <2>1. \A a \in Account : a # call[c].subject => active'[a] = active[a]
    BY <1>12 DEF DeactivateWrite, TypeInv, AccountsTypeOK
  <2> QED
    BY <1>10, <1>12, <2>1 DEF DeactivateWrite
<1>13. ASSUME NEW c \in Call, RemoveWrite(c)
       PROVE  EntitledCall(d)'
  <2> DEFINE u == call[c].subject
  <2>1. step[d] # "idle" /\ call' = call
    BY <1>13 DEF RemoveWrite, Goto, TypeInv, AccountsTypeOK
  <2>2. /\ d \in overtaken => d \in overtaken'
        /\ call[d].actor = u => d \in overtaken'
    BY <1>13, <2>1 DEF RemoveWrite, Overtakes
  <2>3. call[d].actor \in Account
    BY <2>1 DEF TypeInv, HandlersHold, Holds, Context
  <2>4. LET a == call[d].actor
        IN a # u => /\ email'[a] = email[a] /\ role'[a] = role[a]
                    /\ active'[a] = active[a] /\ removed'[a] = removed[a]
    BY <1>13, <2>3 DEF RemoveWrite, TypeInv, AccountsTypeOK
  <2> QED
    BY <2>1, <2>2, <2>4, EntitledKept
<1>14. CASE UNCHANGED accountsVars
  BY <1>14, EntitledKept DEF accountsVars, users
<1>15. ASSUME NEW c \in Call, Progress(c)
       PROVE  EntitledCall(d)'
  <2>1. CASE Act(c) \/ AuditWrite(c) \/ Fail(c)
    BY <1>4, <2>1 DEF Act, AuditWrite, Fail
  <2> QED
    BY <1>15, <2>1, <1>5, <1>6, <1>8, <1>9, <1>11, <1>12, <1>13 DEF Progress
<1> QED
  BY <1>1, <1>2, <1>3, <1>14, <1>15 DEF AccountsNext

(* A request acts only for an account that is, or was when it was let in   *)
(* and until the row changed, entitled to it.                              *)
THEOREM EntitledCorrect == AccountsSpec => []Entitled
<1>1. TypeInv /\ Entitled /\ [AccountsNext]_accountsVars => Entitled'
  BY EntitledNext
<1> QED
  BY <1>1, EntitledInit, TypeAlways, PTL DEF AccountsSpec

-----------------------------------------------------------------------------
(* Separation of duties *)

(* Whatever an endpoint may change is among the duties of every role that  *)
(* it lets through, SUPER_ADMIN aside.                                     *)
LEMMA DutiesOfRoles ==
    ASSUME NEW e \in Endpoint, Writes(e), NEW r \in RequiredRoles(e),
           r # "SUPER_ADMIN"
    PROVE  e \in Duties(r)
<1> USE DEF Controllers, RequiredRoles, Writes, Reads, Duties, Anyone,
            SuperAdmin, Finance, Support
<1>1. PICK c \in DOMAIN Controllers :
             \E h \in DOMAIN Controllers[c] : e = <<c, h>>
  BY DEF Endpoint
<1>2. CASE c \in {"users", "auditLogs", "dashboard", "events"}
  BY <1>1, <1>2 DEF UserController, AuditLogController, DashboardController,
                    RealtimeController
<1>3. CASE c = "auth"
  BY <1>1, <1>3 DEF AuthController
<1>4. CASE c = "tenants"
  BY <1>1, <1>4 DEF TenantController
<1>5. CASE c = "invoices"
  BY <1>1, <1>5 DEF InvoiceController
<1>6. CASE c = "posDevices"
  BY <1>1, <1>6 DEF PosDeviceController
<1>7. CASE c = "notifications"
  BY <1>1, <1>7 DEF NotificationController
<1> QED
  BY <1>1, <1>2, <1>3, <1>4, <1>5, <1>6, <1>7

(* Nobody changes anything outside the duties of his role, except over a   *)
(* request during which that role changed.                                 *)
THEOREM DutiesCorrect == AccountsSpec => []DutiesKept
<1>1. TypeInv /\ Entitled => DutiesKept
  <2> SUFFICES ASSUME TypeInv, Entitled, NEW c \in Call, step[c] # "idle",
                      c \notin overtaken, Writes(call[c].endpoint),
                      role[call[c].actor] # "SUPER_ADMIN"
               PROVE  call[c].endpoint \in Duties(role[call[c].actor])
    BY DEF DutiesKept
  <2>1. call[c].endpoint \in Endpoint
    BY DEF TypeInv, HandlersHold, Holds, Context
  <2>2. role[call[c].actor] \in RequiredRoles(call[c].endpoint)
    BY DEF Entitled
  <2> QED
    BY <2>1, <2>2, DutiesOfRoles
<1> QED
  BY <1>1, TypeAlways, EntitledCorrect, PTL

-----------------------------------------------------------------------------
(* What happens when nobody is left to manage users *)

(* The handlers that write users run for callers of the users endpoints.   *)
LEMMA WritersAreUsers ==
    ASSUME TypeInv, NEW c \in Call,
           step[c] \in {"insert", "update", "deactivate", "remove", "audit"}
    PROVE  call[c] \in Context /\ call[c].endpoint[1] = "users"
BY DEF TypeInv, HandlersHold, Holds

LEMMA OnlySuperAdmins ==
    ASSUME NEW e \in Endpoint, e[1] = "users"
    PROVE  RequiredRoles(e) = {"SUPER_ADMIN"}
BY DEF Endpoint, RequiredRoles, Controllers, UserController, SuperAdmin

LEMMA UnruledNext ==
    ASSUME TypeInv, Unruled, [AccountsNext]_accountsVars
    PROVE  Unruled'
<1>1. ASSUME UNCHANGED users,
             \A c \in Call : step'[c] # "idle" =>
                 \/ call'[c].endpoint[1] # "users"
                 \/ step[c] # "idle" /\ call'[c] = call[c]
      PROVE  Unruled'
  BY <1>1 DEF Unruled, Validated, Found, users
<1>2. ASSUME NEW u \in Account, Seed(u)
      PROVE  FALSE
  BY <1>2 DEF Seed, EmailFree, Unruled
<1>3. ASSUME NEW u \in Account, SignIn(u)
      PROVE  Unruled'
  BY <1>1, <1>3 DEF SignIn
<1>4. ASSUME NEW c \in Call, NEW t \in signed, NEW e \in Called, Arrive(c, t, e)
      PROVE  Unruled'
  <2>1. t.sub \in Account /\ e \in Endpoint
    BY CalledAssumption DEF TypeInv, AccountsTypeOK, AccessToken
  <2>2. e[1] # "users"
    BY <1>4, <2>1, OnlySuperAdmins DEF Arrive, Authorised, Unruled
  <2>3. ASSUME NEW d \in Call, step'[d] # "idle"
        PROVE  \/ call'[d].endpoint[1] # "users"
               \/ step[d] # "idle" /\ call'[d] = call[d]
    <3>1. CASE d = c
      <4>1. call'[d].endpoint = e
        BY <1>4, <3>1 DEF Arrive, TypeInv, AccountsTypeOK, NoContext
      <4> QED
        BY <2>2, <4>1
    <3>2. CASE d # c
      BY <1>4, <2>3, <3>2 DEF Arrive, Goto, TypeInv, AccountsTypeOK
    <3> QED
      BY <3>1, <3>2
  <2> QED
    BY <1>1, <1>4, <2>3 DEF Arrive
<1>5. ASSUME NEW c \in Call, Return(c), UNCHANGED users
      PROVE  Unruled'
  <2>1. \A d \in Call : step'[d] # "idle" =>
            step[d] # "idle" /\ call'[d] = call[d]
    BY <1>5 DEF Return, TypeInv, AccountsTypeOK
  <2> QED
    BY <1>1, <1>5, <2>1
<1>6. ASSUME NEW c \in Call, step[c] # "idle", call[c].endpoint[1] = "users"
      PROVE  FALSE
  BY <1>6 DEF Unruled
<1>7. ASSUME NEW c \in Call, Progress(c)
      PROVE  Unruled'
  <2>1. CASE Act(c) \/ AuditWrite(c) \/ Fail(c)
    BY <1>5, <2>1 DEF Act, AuditWrite, Fail
  <2>2. ASSUME NEW m \in Email, NEW g \in Granted, CreateFind(c, m, g)
        PROVE  FALSE
    BY <1>6, <2>2 DEF CreateFind, OnUsers
  <2>3. ASSUME NEW u \in Account, CreateInsert(c, u)
        PROVE  FALSE
    BY <1>6, <2>3, WritersAreUsers DEF CreateInsert
  <2>4. ASSUME NEW u \in Account, NEW g \in Granted \cup {NoRole},
               UpdateFind(c, u, g)
        PROVE  FALSE
    BY <1>6, <2>4 DEF UpdateFind, OnUsers, Subject
  <2>5. ASSUME NEW u \in Account, DeactivateFind(c, u) \/ RemoveFind(c, u)
        PROVE  FALSE
    BY <1>6, <2>5 DEF DeactivateFind, RemoveFind, OnUsers, Subject
  <2>6. ASSUME UpdateWrite(c) \/ DeactivateWrite(c) \/ RemoveWrite(c)
        PROVE  FALSE
    BY <1>6, <2>6, WritersAreUsers DEF UpdateWrite, DeactivateWrite, RemoveWrite
  <2> QED
    BY <1>7, <2>1, <2>2, <2>3, <2>4, <2>5, <2>6 DEF Progress
<1>8. CASE UNCHANGED accountsVars
  BY <1>8, <1>1 DEF accountsVars
<1> QED
  BY <1>2, <1>3, <1>4, <1>7, <1>8 DEF AccountsNext

(* Once there is no SUPER_ADMIN and no request of one, there never is.     *)
THEOREM LostRuleCorrect == AccountsSpec => LostRuleIsFinal
<1>1. TypeInv /\ [AccountsNext]_accountsVars => [Unruled => Unruled']_accountsVars
  BY UnruledNext
<1> QED
  BY <1>1, TypeAlways, PTL DEF AccountsSpec, LostRuleIsFinal

-----------------------------------------------------------------------------
(* Nothing disappears without a trace *)

LEMMA ClosuresInit == AccountsInit => ClosuresAccounted
BY DEF AccountsInit, ClosuresAccounted

(* What is accounted for stays so over a step that neither loses an audit  *)
(* row nor ends a request about to write one without leaving its row.      *)
LEMMA AccountedKept ==
    ASSUME NEW u \in Account, NEW a \in UserAction, Accounted(u, a),
           audits \cup lost \subseteq audits' \cup lost',
           \A c \in Call : step[c] = "audit" =>
              \/ step'[c] = "audit" /\ call'[c] = call[c]
              \/ [action |-> call[c].action, target |-> call[c].subject]
                    \in audits' \cup lost'
    PROVE  Accounted(u, a)'
BY DEF Accounted

LEMMA AccountedNext ==
    ASSUME TypeInv, [AccountsNext]_accountsVars,
           NEW u \in Account, NEW a \in UserAction, Accounted(u, a)
    PROVE  Accounted(u, a)'
<1>1. ASSUME UNCHANGED journal,
             \A c \in Call : step[c] = "audit" =>
                 step'[c] = "audit" /\ call'[c] = call[c]
      PROVE  Accounted(u, a)'
  BY <1>1, AccountedKept DEF journal
<1>2. ASSUME NEW c \in Call, step[c] # "audit", UNCHANGED journal,
             NEW s, step' = [step EXCEPT ![c] = s],
             \A d \in Call \ {c} : call'[d] = call[d]
      PROVE  Accounted(u, a)'
  BY <1>1, <1>2 DEF TypeInv, AccountsTypeOK
<1>3. ASSUME NEW v \in Account, Seed(v) \/ SignIn(v)
      PROVE  Accounted(u, a)'
  BY <1>1, <1>3 DEF Seed, SignIn
<1>4. ASSUME NEW c \in Call, NEW t \in signed, NEW e \in Called, Arrive(c, t, e)
      PROVE  Accounted(u, a)'
  BY <1>2, <1>4 DEF Arrive, Goto, TypeInv, AccountsTypeOK
<1>5. ASSUME NEW c \in Call, Act(c)
      PROVE  Accounted(u, a)'
  BY <1>2, <1>5 DEF Act, Return, TypeInv, AccountsTypeOK
<1>6. ASSUME NEW c \in Call, NEW m \in Email, NEW g \in Granted,
             CreateFind(c, m, g)
      PROVE  Accounted(u, a)'
  BY <1>2, <1>6 DEF CreateFind, Goto, TypeInv, AccountsTypeOK
<1>7. ASSUME NEW c \in Call, NEW v \in Account, CreateInsert(c, v)
      PROVE  Accounted(u, a)'
  BY <1>2, <1>7 DEF CreateInsert, Goto, TypeInv, AccountsTypeOK
<1>8. ASSUME NEW c \in Call, NEW v, NEW s, NEW b, NEW g, Subject(c, v, s, b, g)
      PROVE  Accounted(u, a)'
  BY <1>2, <1>8 DEF Subject, Goto, TypeInv, AccountsTypeOK
<1>9. ASSUME NEW c \in Call, step[c] # "audit", WriteBack(c), audits' = audits
      PROVE  Accounted(u, a)'
  BY <1>9, AccountedKept DEF WriteBack, Goto, TypeInv, AccountsTypeOK
<1>10. ASSUME NEW c \in Call,
              UpdateWrite(c) \/ DeactivateWrite(c)
       PROVE  Accounted(u, a)'
  BY <1>9, <1>10 DEF UpdateWrite, DeactivateWrite
<1>11. ASSUME NEW c \in Call, RemoveWrite(c)
       PROVE  Accounted(u, a)'
  BY <1>2, <1>11 DEF RemoveWrite, Goto
<1>12. ASSUME NEW c \in Call, AuditWrite(c) \/ Fail(c)
       PROVE  Accounted(u, a)'
  <2>1. audits \cup lost \subseteq audits' \cup lost'
    BY <1>12 DEF AuditWrite, Fail
  <2>2. ASSUME NEW d \in Call, step[d] = "audit"
        PROVE  \/ step'[d] = "audit" /\ call'[d] = call[d]
               \/ [action |-> call[d].action, target |-> call[d].subject]
                     \in audits' \cup lost'
    BY <1>12, <2>2 DEF AuditWrite, Fail, Return, TypeInv, AccountsTypeOK
  <2> QED
    BY <2>1, <2>2, AccountedKept
<1>13. CASE UNCHANGED accountsVars
  BY <1>13, <1>1 DEF accountsVars
<1>14. ASSUME NEW c \in Call, Progress(c)
       PROVE  Accounted(u, a)'
  BY <1>14, <1>5, <1>6, <1>7, <1>8, <1>10, <1>11, <1>12
  DEF Progress, UpdateFind, DeactivateFind, RemoveFind
<1> QED
  BY <1>3, <1>4, <1>13, <1>14 DEF AccountsNext

LEMMA ClosuresNext ==
    ASSUME TypeInv, ClosuresAccounted, [AccountsNext]_accountsVars
    PROVE  ClosuresAccounted'
<1> SUFFICES ASSUME NEW u \in Account
             PROVE  /\ removed'[u] => Accounted(u, "USER_DELETED")'
                    /\ email'[u] # NoEmail /\ ~active'[u] =>
                          Accounted(u, "USER_DEACTIVATED")'
  BY DEF ClosuresAccounted
<1>1. ASSUME removed'[u] => removed[u],
             email'[u] # NoEmail /\ ~active'[u] => email[u] # NoEmail /\ ~active[u]
      PROVE  /\ removed'[u] => Accounted(u, "USER_DELETED")'
             /\ email'[u] # NoEmail /\ ~active'[u] =>
                   Accounted(u, "USER_DEACTIVATED")'
  BY <1>1, AccountedNext DEF ClosuresAccounted
<1>2. ASSUME NEW v \in Account, Seed(v)
      PROVE  /\ removed'[u] => removed[u]
             /\ email'[u] # NoEmail /\ ~active'[u] =>
                   email[u] # NoEmail /\ ~active[u]
  BY <1>2 DEF Seed, TypeInv, AccountsTypeOK
<1>3. ASSUME NEW c \in Call, NEW v \in Account, CreateInsert(c, v)
      PROVE  /\ removed'[u] => removed[u]
             /\ email'[u] # NoEmail /\ ~active'[u] =>
                   email[u] # NoEmail /\ ~active[u]
  BY <1>3 DEF CreateInsert, TypeInv, AccountsTypeOK
<1>4. ASSUME UNCHANGED <<email, active, removed>>
      PROVE  /\ removed'[u] => removed[u]
             /\ email'[u] # NoEmail /\ ~active'[u] =>
                   email[u] # NoEmail /\ ~active[u]
  BY <1>4
<1>5. ASSUME NEW c \in Call, DeactivateWrite(c), u = call[c].subject
      PROVE  Accounted(u, "USER_DEACTIVATED")' /\ removed' = removed
  <2>1. call[c].action = "USER_DEACTIVATED"
    BY <1>5 DEF DeactivateWrite, TypeInv, HandlersHold, Holds
  <2>2. CASE removed[u]
    BY <1>5, <2>1, <2>2 DEF DeactivateWrite, WriteBack, Accounted
  <2>3. CASE ~removed[u]
    BY <1>5, <2>1, <2>3
    DEF DeactivateWrite, WriteBack, Goto, Accounted, TypeInv, AccountsTypeOK
  <2> QED
    BY <1>5, <2>2, <2>3 DEF DeactivateWrite
<1>6. ASSUME NEW c \in Call, DeactivateWrite(c)
      PROVE  /\ removed'[u] => Accounted(u, "USER_DELETED")'
             /\ email'[u] # NoEmail /\ ~active'[u] =>
                   Accounted(u, "USER_DEACTIVATED")'
  <2>1. CASE u = call[c].subject
    <3>1. removed'[u] => Accounted(u, "USER_DELETED")'
      BY <1>5, <1>6, <2>1, AccountedNext DEF ClosuresAccounted
    <3> QED
      BY <1>5, <1>6, <2>1, <3>1
  <2>2. CASE u # call[c].subject
    BY <1>1, <1>6, <2>2 DEF DeactivateWrite, TypeInv, AccountsTypeOK
  <2> QED
    BY <2>1, <2>2
<1>7. ASSUME NEW c \in Call, RemoveWrite(c)
      PROVE  /\ removed'[u] => Accounted(u, "USER_DELETED")'
             /\ email'[u] # NoEmail /\ ~active'[u] =>
                   Accounted(u, "USER_DEACTIVATED")'
  <2>1. CASE u = call[c].subject
    <3>1. call[c].action = "USER_DELETED"
      BY <1>7 DEF RemoveWrite, TypeInv, HandlersHold, Holds
    <3>2. Accounted(u, "USER_DELETED")'
      BY <1>7, <2>1, <3>1
      DEF RemoveWrite, Goto, Accounted, TypeInv, AccountsTypeOK
    <3>3. email' = email /\ active' = active
      BY <1>7 DEF RemoveWrite
    <3>4. email'[u] # NoEmail /\ ~active'[u] => Accounted(u, "USER_DEACTIVATED")'
      BY <3>3, AccountedNext DEF ClosuresAccounted
    <3> QED
      BY <3>2, <3>4
  <2>2. CASE u # call[c].subject
    BY <1>1, <1>7, <2>2 DEF RemoveWrite, TypeInv, AccountsTypeOK
  <2> QED
    BY <2>1, <2>2
<1>8. ASSUME NEW c \in Call, Progress(c)
      PROVE  /\ removed'[u] => Accounted(u, "USER_DELETED")'
             /\ email'[u] # NoEmail /\ ~active'[u] =>
                   Accounted(u, "USER_DEACTIVATED")'
  <2>1. CASE \E v \in Account : CreateInsert(c, v)
    BY <1>1, <1>3, <2>1
  <2>2. CASE UpdateWrite(c)
    BY <1>1, <1>4, <2>2 DEF UpdateWrite
  <2>3. CASE DeactivateWrite(c) \/ RemoveWrite(c)
    BY <1>6, <1>7, <2>3
  <2>4. CASE \/ Act(c) \/ AuditWrite(c) \/ Fail(c)
             \/ \E m \in Email, g \in Granted : CreateFind(c, m, g)
    BY <1>1, <1>4, <2>4 DEF Act, AuditWrite, Fail, CreateFind, users
  <2>5. CASE \/ \E v \in Account, g \in Granted \cup {NoRole} : UpdateFind(c, v, g)
             \/ \E v \in Account : DeactivateFind(c, v) \/ RemoveFind(c, v)
    BY <1>1, <1>4, <2>5
    DEF UpdateFind, DeactivateFind, RemoveFind, Subject, users
  <2> QED
    BY <1>8, <2>1, <2>2, <2>3, <2>4, <2>5 DEF Progress
<1>9. ASSUME NEW v \in Account, SignIn(v)
      PROVE  UNCHANGED <<email, active, removed>>
  BY <1>9 DEF SignIn, users
<1>10. ASSUME NEW c \in Call, NEW t \in signed, NEW e \in Called, Arrive(c, t, e)
       PROVE  UNCHANGED <<email, active, removed>>
  BY <1>10 DEF Arrive, users
<1>11. CASE UNCHANGED accountsVars
  BY <1>1, <1>4, <1>11 DEF accountsVars, users
<1> QED
  BY <1>1, <1>2, <1>4, <1>8, <1>9, <1>10, <1>11 DEF AccountsNext

(* An account is removed or shut only with an audit row, written, about to *)
(* be written, or lost to a failure of that write.                         *)
THEOREM ClosuresCorrect == AccountsSpec => []ClosuresAccounted
<1>1. TypeInv /\ ClosuresAccounted /\ [AccountsNext]_accountsVars
        => ClosuresAccounted'
  BY ClosuresNext
<1> QED
  BY <1>1, ClosuresInit, TypeAlways, PTL DEF AccountsSpec
=============================================================================
