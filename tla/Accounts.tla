------------------------------ MODULE Accounts ------------------------------
(***************************************************************************)
(* UserService and the guards every authenticated request passes:          *)
(* JwtStrategy reloads the caller's row from the database, RolesGuard      *)
(* compares the role found there with the one the handler requires, and    *)
(* the handler runs on without looking again.  Handlers run concurrently,  *)
(* each from one await to the next, and may fail or die at any of them.    *)
(*                                                                         *)
(* A request arrives and is authorised in one action.  Its body is chosen  *)
(* when the handler first uses it.  Handlers of other services are one     *)
(* step here: what they do to their own tables is in their own modules.    *)
(***************************************************************************)
EXTENDS Endpoints, Naturals, FiniteSets

CONSTANTS
    Account,     \* identities (uuid) of rows of users: the bound on the table
    Email,       \* e-mail addresses
    SeedEmail,   \* SEED_SUPER_ADMIN_EMAIL
    Call,        \* requests that can be in progress at the same time
    Called,      \* the endpoints that clients call
    Granted,     \* the roles that creates and updates ask for
    MaxCalls,    \* how many requests may arrive: a bound for the checker
    NoAccount, NoEmail, NoRole

ASSUME AccountAssumption == NoAccount \notin Account
ASSUME EmailAssumption == SeedEmail \in Email /\ NoEmail \notin Email
ASSUME CalledAssumption == Called \subseteq Endpoint
ASSUME GrantedAssumption == Granted \subseteq Role /\ NoRole \notin Role

VARIABLES
    email,      \* users.email, NoEmail while there is no row
    role,       \* users.role
    active,     \* users.is_active
    removed,    \* is users.deleted_at set?
    signed,     \* access tokens that were issued: whose, and the role they say
    step,       \* what each request does next
    call,       \* who makes it, on what endpoint and what it is about
    overtaken,  \* history: requests whose caller's row changed meanwhile
    audits,     \* rows of audit_logs about users
    lost,       \* history: audit rows that a failure left unwritten
    calls       \* how many requests have arrived

users == <<email, role, active, removed>>
journal == <<audits, lost>>
accountsVars == <<users, signed, step, call, overtaken, journal, calls>>

-----------------------------------------------------------------------------
AccessToken == [sub : Account, role : Role]

UserAction == {"USER_CREATED", "USER_UPDATED", "USER_DEACTIVATED",
               "USER_DELETED"}

AuditRow == [action : UserAction, target : Account]

CallStep == {"idle", "handle", "insert", "update", "deactivate", "remove",
             "audit"}

(* What a handler holds: the caller, the endpoint, and the parts of the    *)
(* request body that matter.                                               *)
Context == [actor : Account, endpoint : Endpoint,
            subject : Account \cup {NoAccount},
            address : Email \cup {NoEmail},
            grant : Role \cup {NoRole}, action : UserAction \cup {""}]

NoContext == [actor |-> NoAccount, endpoint |-> <<"", "">>,
              subject |-> NoAccount, address |-> NoEmail,
              grant |-> NoRole, action |-> ""]

AccountsInit ==
    /\ email = [u \in Account |-> NoEmail]
    /\ role = [u \in Account |-> "VIEWER"]
    /\ active = [u \in Account |-> FALSE]
    /\ removed = [u \in Account |-> FALSE]
    /\ signed = {}
    /\ step = [c \in Call |-> "idle"]
    /\ call = [c \in Call |-> NoContext]
    /\ overtaken = {}
    /\ audits = {}
    /\ lost = {}
    /\ calls = 0

-----------------------------------------------------------------------------
(* findById, findByEmail: rows that are not soft-deleted. *)
Found(u) == email[u] # NoEmail /\ ~removed[u]

(* uq_users_email, which counts soft-deleted rows too. *)
EmailFree(m) == \A u \in Account : email[u] # m

(* JwtStrategy.validate. *)
Validated(u) == Found(u) /\ active[u]

(* Mutant: an account is taken to be what it was when the token was        *)
(* signed.                                                                 *)
AuthorisedWithoutReload(t, e) == role[t.sub] \in RequiredRoles(e)

(* JwtAuthGuard, then RolesGuard. *)
Authorised(t, e) == Validated(t.sub) /\ role[t.sub] \in RequiredRoles(e)

OnUsers(c, handler) == call[c].endpoint = <<"users", handler>>

Goto(c, stage) == step' = [step EXCEPT ![c] = stage]

Return(c) ==
    /\ step' = [step EXCEPT ![c] = "idle"]
    /\ call' = [call EXCEPT ![c] = NoContext]
    /\ overtaken' = overtaken \ {c}

(* A row of users changes: whoever acts for it has been overtaken. *)
Overtakes(u) ==
    overtaken' = overtaken \cup {c \in Call : step[c] # "idle"
                                              /\ call[c].actor = u}

(* The row is written by id; reading it back finds nothing if it has been  *)
(* removed meanwhile, and the handler fails with its audit row unwritten.  *)
WriteBack(c) ==
    LET u == call[c].subject
    IN IF removed[u]
       THEN /\ step' = [step EXCEPT ![c] = "idle"]
            /\ call' = [call EXCEPT ![c] = NoContext]
            /\ overtaken' = overtaken \ {c}
            /\ lost' = lost \cup {[action |-> call[c].action, target |-> u]}
       ELSE /\ Goto(c, "audit") /\ Overtakes(u)
            /\ UNCHANGED <<call, lost>>

-----------------------------------------------------------------------------
(* npm run seed: the first SUPER_ADMIN, once. *)
Seed(u) ==
    /\ email[u] = NoEmail
    /\ EmailFree(SeedEmail)
    /\ email' = [email EXCEPT ![u] = SeedEmail]
    /\ role' = [role EXCEPT ![u] = "SUPER_ADMIN"]
    /\ active' = [active EXCEPT ![u] = TRUE]
    /\ UNCHANGED <<removed, signed, step, call, overtaken, journal, calls>>

(* login and refresh sign a token only for an account they find active. *)
SignIn(u) ==
    /\ Validated(u)
    /\ signed' = signed \cup {[sub |-> u, role |-> role[u]]}
    /\ UNCHANGED <<users, step, call, overtaken, journal, calls>>

Arrive(c, t, e) ==
    /\ step[c] = "idle"
    /\ calls < MaxCalls
    /\ Authorised(t, e)
    /\ Goto(c, "handle")
    /\ call' = [call EXCEPT ![c] =
                  [NoContext EXCEPT !.actor = t.sub, !.endpoint = e]]
    /\ calls' = calls + 1
    /\ UNCHANGED <<users, signed, overtaken, journal>>

(* A handler of another service. *)
Act(c) ==
    /\ step[c] = "handle"
    /\ call[c].endpoint[1] # "users"
    /\ Return(c)
    /\ UNCHANGED <<users, signed, journal, calls>>

-----------------------------------------------------------------------------
(* create *)

CreateFind(c, m, g) ==
    /\ step[c] = "handle"
    /\ OnUsers(c, "create")
    /\ \A u \in Account : Found(u) => email[u] # m
    /\ Goto(c, "insert")
    /\ call' = [call EXCEPT ![c].address = m, ![c].grant = g,
                            ![c].action = "USER_CREATED"]
    /\ UNCHANGED <<users, signed, overtaken, journal, calls>>

CreateInsert(c, u) ==
    /\ step[c] = "insert"
    /\ email[u] = NoEmail
    /\ EmailFree(call[c].address)
    /\ email' = [email EXCEPT ![u] = call[c].address]
    /\ role' = [role EXCEPT ![u] = call[c].grant]
    /\ active' = [active EXCEPT ![u] = TRUE]
    /\ Goto(c, "audit")
    /\ call' = [call EXCEPT ![c].subject = u]
    /\ UNCHANGED <<removed, signed, overtaken, journal, calls>>

(* update, deactivate, remove: findById, then the write. *)

Subject(c, u, stage, action, g) ==
    /\ step[c] = "handle"
    /\ Found(u)
    /\ Goto(c, stage)
    /\ call' = [call EXCEPT ![c].subject = u, ![c].action = action,
                            ![c].grant = g]
    /\ UNCHANGED <<users, signed, overtaken, journal, calls>>

UpdateFind(c, u, g) ==
    OnUsers(c, "update") /\ Subject(c, u, "update", "USER_UPDATED", g)

DeactivateFind(c, u) ==
    /\ OnUsers(c, "deactivate")
    /\ Subject(c, u, "deactivate", "USER_DEACTIVATED", NoRole)

RemoveFind(c, u) ==
    OnUsers(c, "remove") /\ Subject(c, u, "remove", "USER_DELETED", NoRole)

UpdateWrite(c) ==
    /\ step[c] = "update"
    /\ role' = IF call[c].grant = NoRole THEN role
               ELSE [role EXCEPT ![call[c].subject] = call[c].grant]
    /\ WriteBack(c)
    /\ UNCHANGED <<email, active, removed, signed, audits, calls>>

DeactivateWrite(c) ==
    /\ step[c] = "deactivate"
    /\ active' = [active EXCEPT ![call[c].subject] = FALSE]
    /\ WriteBack(c)
    /\ UNCHANGED <<email, role, removed, signed, audits, calls>>

(* Mutant: remove returns once the row is gone. *)
RemoveWriteReturns(c) ==
    /\ step[c] = "remove"
    /\ removed' = [removed EXCEPT ![call[c].subject] = TRUE]
    /\ Return(c)
    /\ UNCHANGED <<email, role, active, signed, journal, calls>>

RemoveWrite(c) ==
    /\ step[c] = "remove"
    /\ removed' = [removed EXCEPT ![call[c].subject] = TRUE]
    /\ Goto(c, "audit")
    /\ Overtakes(call[c].subject)
    /\ UNCHANGED <<email, role, active, signed, call, journal, calls>>

AuditWrite(c) ==
    /\ step[c] = "audit"
    /\ audits' = audits \cup {[action |-> call[c].action,
                               target |-> call[c].subject]}
    /\ Return(c)
    /\ UNCHANGED <<users, signed, lost, calls>>

(* A refusal (400, 404, 409), an await that throws (the unique violation   *)
(* of an insert among them), the death of the replica: what was written    *)
(* stays written.                                                          *)
Fail(c) ==
    /\ step[c] # "idle"
    /\ lost' = IF step[c] # "audit" THEN lost
               ELSE lost \cup {[action |-> call[c].action,
                                target |-> call[c].subject]}
    /\ Return(c)
    /\ UNCHANGED <<users, signed, audits, calls>>

Progress(c) ==
    \/ Act(c)
    \/ \E m \in Email, g \in Granted : CreateFind(c, m, g)
    \/ \E u \in Account : CreateInsert(c, u)
    \/ \E u \in Account, g \in Granted \cup {NoRole} : UpdateFind(c, u, g)
    \/ \E u \in Account : DeactivateFind(c, u) \/ RemoveFind(c, u)
    \/ UpdateWrite(c) \/ DeactivateWrite(c) \/ RemoveWrite(c)
    \/ AuditWrite(c)
    \/ Fail(c)

AccountsNext ==
    \/ \E u \in Account : Seed(u) \/ SignIn(u)
    \/ \E c \in Call : \/ \E t \in signed, e \in Called : Arrive(c, t, e)
                       \/ Progress(c)

AccountsSpec == AccountsInit /\ [][AccountsNext]_accountsVars

-----------------------------------------------------------------------------
(* The type invariant of the table, the tokens and the handlers. *)
AccountsTypeOK ==
    /\ email \in [Account -> Email \cup {NoEmail}]
    /\ role \in [Account -> Role]
    /\ active \in [Account -> BOOLEAN]
    /\ removed \in [Account -> BOOLEAN]
    /\ signed \subseteq AccessToken
    /\ step \in [Call -> CallStep]
    /\ call \in [Call -> Context \cup {NoContext}]
    /\ overtaken \subseteq Call
    /\ audits \subseteq AuditRow
    /\ lost \subseteq AuditRow
    /\ calls \in Nat

(* A request in progress acts for an account that exists, is active and    *)
(* has a role its endpoint requires; only a request that was already past  *)
(* the guards when the account was demoted, deactivated or removed goes on *)
(* without.  A token outlives such a change by up to its lifetime, so this *)
(* is what reloading the row in JwtStrategy.validate is for.               *)
Entitled ==
    \A c \in Call : step[c] # "idle" =>
        \/ c \in overtaken
        \/ /\ Validated(call[c].actor)
           /\ role[call[c].actor] \in RequiredRoles(call[c].endpoint)

(* Nobody manages users any more, and no request that does is in progress. *)
Unruled ==
    /\ \E u \in Account : email[u] = SeedEmail
    /\ \A u \in Account : Validated(u) => role[u] # "SUPER_ADMIN"
    /\ \A c \in Call : step[c] # "idle" => call[c].endpoint[1] # "users"

(* The last SUPER_ADMIN may demote, deactivate or remove himself, and then *)
(* nothing brings one back: no other role can create or promote one, and   *)
(* the seed does not, since the address it uses is taken.                  *)
LostRuleIsFinal == [][Unruled => Unruled']_accountsVars

(* The README's table of roles, and what the code adds to it: the endpoints *)
(* through which each role may change anything.                            *)
Duties(r) ==
    {<<"auth", h>> : h \in {"resetPassword", "logout"}}
    \cup {<<"posDevices", "heartbeat">>}
    \cup IF r = "FINANCE_ADMIN"
         THEN {<<"invoices", h>> : h \in {"create", "pay", "cancel"}}
         ELSE IF r = "SUPPORT_ADMIN"
         THEN {<<"tenants", h>> : h \in {"create", "update", "lock", "unlock"}}
              \cup {<<"posDevices", h>> : h \in {"create", "update"}}
              \cup {<<"invoices", "sendReminder">>}
         ELSE {}

(* Separation of duties: a request that may change something is made by a  *)
(* SUPER_ADMIN or is among the duties of its caller's role, unless that    *)
(* role changed while it was in progress.  A VIEWER changes nothing but    *)
(* his own password and session, and a device's heartbeat.                 *)
DutiesKept ==
    \A c \in Call :
        step[c] # "idle" /\ c \notin overtaken /\ Writes(call[c].endpoint) =>
            \/ role[call[c].actor] = "SUPER_ADMIN"
            \/ call[c].endpoint \in Duties(role[call[c].actor])

(* The audit row of what happened to u is written, about to be written, or *)
(* was lost to a failure.                                                  *)
Accounted(u, action) ==
    \/ [action |-> action, target |-> u] \in audits \cup lost
    \/ \E c \in Call : /\ step[c] = "audit"
                       /\ call[c].action = action
                       /\ call[c].subject = u

(* No account disappears or is shut without a trace: whatever the order of *)
(* the handlers and wherever they fail, the audit row is there unless its  *)
(* own write failed.                                                       *)
ClosuresAccounted ==
    \A u \in Account :
        /\ removed[u] => Accounted(u, "USER_DELETED")
        /\ email[u] # NoEmail /\ ~active[u] => Accounted(u, "USER_DEACTIVATED")
=============================================================================
