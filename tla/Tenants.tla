------------------------------- MODULE Tenants -------------------------------
(***************************************************************************)
(* TenantService with what it tells the outside: the events that dashboards *)
(* receive and the webhooks that the tenant's own ERP receives; and the    *)
(* dashboard summary, which counts tenants while they change.              *)
(*                                                                         *)
(* Handlers run concurrently, each action being what one does from one     *)
(* await to the next (an UPDATE and the SELECT that reads the row back are *)
(* one).  A request that a guard refuses (400, 404) changes nothing, so    *)
(* its arrival and its first read are one action with the guard in it.     *)
(* The welcome mail that ends a create is in EmailPipeline.                *)
(***************************************************************************)
EXTENDS Integers, FiniteSets

CONSTANTS
    Tenant,       \* identities (uuid) of rows of tenants
    Registered,   \* those that are registered at first
    Request,      \* requests that can be in progress at the same time
    MaxArrivals,  \* how many requests may arrive: a bound for the checker
    NoTenant,
    Erp,          \* addresses of ERPs: a URL with the key that it takes
    NoErp         \* URL or key missing

ASSUME TenantAssumption == Registered \subseteq Tenant /\ NoTenant \notin Tenant
ASSUME ErpAssumption == NoErp \notin Erp
ASSUME FiniteAssumption == IsFiniteSet(Tenant)

VARIABLES
    status,     \* tenants.status, "none" while there is no row
    removed,    \* is tenants.deleted_at set?
    address,    \* tenants.erp_webhook_url with erp_webhook_key
    stage,      \* what each request does next
    doc,        \* what its handler holds
    arrivals,   \* how many requests have arrived
    board,      \* status shown by a dashboard that listens to the events
    posted,     \* how many of each webhook are on their way
    erp,        \* status of each tenant that each ERP was told last
    crossed,    \* history: tenants whose latest changes overlapped or failed
    untold,     \* history: tenants whose ERP missed or may confuse a webhook,
                \* or has become theirs since their last change
    toCount,    \* statuses that a summary in progress has yet to count
    tally,      \* the sum of its counts so far
    moves       \* history: changes of tenants since the last one began

table == <<status, removed, address>>
handlers == <<stage, doc>>
told == <<board, posted, erp, untold>>
summary == <<toCount, tally, moves>>
tenantsVars == <<table, handlers, arrivals, told, crossed, summary>>

-----------------------------------------------------------------------------
(* No code writes the other two, SUSPENDED and EXPIRED: the counts that a  *)
(* summary makes of them are always 0 and are left out.                    *)
TenantStatus == {"ACTIVE", "LOCKED"}

Op == {"create", "update", "lock", "unlock", "remove"}

(* Operations that change what others believe of the tenant.               *)
StatusOp == Op \ {"update"}

Target == [create |-> "ACTIVE", lock |-> "LOCKED", unlock |-> "ACTIVE",
           remove |-> "removed"]

Address == Erp \cup {NoErp}

(* Two webhooks that say the same have ids of their own: see posted. *)
Webhook == [to : Erp, tenant : Tenant, op : Op]

Stage == {"idle", "write", "audit", "announce"}

(* The tenant, the operation, and the address in the row that the handler  *)
(* will take the webhook's from.                                           *)
Doc == [tenant : Tenant, op : Op, to : Address]

NoDoc == [tenant |-> NoTenant, op |-> "update", to |-> NoErp]

Standing(t) == IF t \in Registered THEN "ACTIVE" ELSE "none"

TenantsInit ==
    /\ status = [t \in Tenant |-> Standing(t)]
    /\ removed = [t \in Tenant |-> FALSE]
    /\ address \in {a \in [Tenant -> Address] :
                      \A t \in Tenant \ Registered : a[t] = NoErp}
    /\ stage = [r \in Request |-> "idle"]
    /\ doc = [r \in Request |-> NoDoc]
    /\ arrivals = 0
    /\ board = [t \in Tenant |-> Standing(t)]
    /\ posted = [w \in Webhook |-> 0]
    /\ erp = [a \in Erp |-> [t \in Tenant |-> IF address[t] = a THEN Standing(t)
                                                              ELSE "none"]]
    /\ crossed = {}
    /\ untold = {t \in Tenant : address[t] = NoErp}
    /\ toCount = {}
    /\ tally = Cardinality(Registered)
    /\ moves = 0

-----------------------------------------------------------------------------
(* findById does not see soft-deleted rows, nor does countByStatus. *)
Live(t) == status[t] # "none" /\ ~removed[t]

(* Mutant: the count sees them. *)
CountByStatusOfAll(s) == Cardinality({t \in Tenant : status[t] = s})

CountByStatus(s) == Cardinality({t \in Tenant : Live(t) /\ status[t] = s})

Goto(r, next) == stage' = [stage EXCEPT ![r] = next]

End(r) ==
    /\ stage' = [stage EXCEPT ![r] = "idle"]
    /\ doc' = [doc EXCEPT ![r] = NoDoc]

(* Request r changes the status of t.  If the change of another one has    *)
(* not been announced yet, the two may be announced in either order; if    *)
(* none is pending, whatever was crossed before is put right.  A summary   *)
(* may miss the change, or count the tenant before and after it.           *)
Change(r, t) ==
    /\ crossed' = IF \E q \in Request \ {r} :
                         /\ stage[q] \in {"audit", "announce"}
                         /\ doc[q].tenant = t
                         /\ doc[q].op \in StatusOp
                  THEN crossed \cup {t}
                  ELSE IF removed[t] THEN crossed ELSE crossed \ {t}
    /\ moves' = moves + 1

(* repository.update: the row is written by id, removed or not, and read   *)
(* back, which fails if it was removed: no audit row, no announcement.     *)
WriteBack(r) ==
    IF removed[doc[r].tenant] THEN End(r)
    ELSE Goto(r, "audit") /\ UNCHANGED doc

-----------------------------------------------------------------------------
(* The first read of every handler but create. *)
Find(r, t, op) ==
    /\ stage[r] = "idle"
    /\ arrivals < MaxArrivals
    /\ Live(t)
    /\ op # "create"
    /\ op = "lock" => status[t] # "LOCKED"
    /\ op = "unlock" => status[t] = "LOCKED"
    /\ Goto(r, "write")
    /\ doc' = [doc EXCEPT ![r] = [tenant |-> t, op |-> op, to |-> address[t]]]
    /\ arrivals' = arrivals + 1
    /\ UNCHANGED <<table, told, crossed, summary>>

Create(r, t, a) ==
    /\ stage[r] = "idle"
    /\ arrivals < MaxArrivals
    /\ status[t] = "none"
    /\ status' = [status EXCEPT ![t] = "ACTIVE"]
    /\ address' = [address EXCEPT ![t] = a]
    /\ Goto(r, "audit")
    /\ doc' = [doc EXCEPT ![r] = [tenant |-> t, op |-> "create", to |-> a]]
    /\ arrivals' = arrivals + 1
    /\ Change(r, t)
    /\ UNCHANGED <<removed, told, toCount, tally>>

StatusWrite(r) ==
    LET t == doc[r].tenant
    IN /\ stage[r] = "write"
       /\ doc[r].op \in {"lock", "unlock"}
       /\ status' = [status EXCEPT ![t] = Target[doc[r].op]]
       /\ WriteBack(r)
       /\ Change(r, t)
       /\ UNCHANGED <<removed, address, arrivals, told, toCount, tally>>

(* Mutant: the row is saved whole, with the default status. *)
UpdateWriteResets(r, a) ==
    LET t == doc[r].tenant
    IN /\ stage[r] = "write"
       /\ doc[r].op = "update"
       /\ status' = [status EXCEPT ![t] = "ACTIVE"]
       /\ address' = [address EXCEPT ![t] = a]
       /\ WriteBack(r)
       /\ UNCHANGED <<removed, arrivals, told, crossed, summary>>

(* A URL or a key may be set, changed or cleared, or left as it is.  The   *)
(* webhook goes to the address that was written, and does not carry the    *)
(* status: an ERP that is new to the tenant has not been told it.          *)
UpdateWrite(r, a) ==
    LET t == doc[r].tenant
    IN /\ stage[r] = "write"
       /\ doc[r].op = "update"
       /\ address' = [address EXCEPT ![t] = a]
       /\ untold' = IF a = address[t] THEN untold ELSE untold \cup {t}
       /\ IF removed[t] THEN End(r)
          ELSE Goto(r, "audit") /\ doc' = [doc EXCEPT ![r].to = a]
       /\ UNCHANGED <<status, removed, arrivals, board, posted, erp, crossed,
                      summary>>

RemoveWrite(r) ==
    LET t == doc[r].tenant
    IN /\ stage[r] = "write"
       /\ doc[r].op = "remove"
       /\ removed' = [removed EXCEPT ![t] = TRUE]
       /\ Goto(r, "audit")
       /\ Change(r, t)
       /\ UNCHANGED <<status, address, doc, arrivals, told, toCount, tally>>

AuditWrite(r) ==
    /\ stage[r] = "audit"
    /\ Goto(r, "announce")
    /\ UNCHANGED <<table, doc, arrivals, told, crossed, summary>>

(* Webhooks about the status of t that are on their way to the ERP e. *)
InFlight(e, t) ==
    \E w \in Webhook : /\ posted[w] > 0
                       /\ w.to = e /\ w.tenant = t /\ w.op \in StatusOp

(* Only what goes to the tenant's ERP, and cannot be overtaken by what is  *)
(* on its way there, leaves it well informed.                              *)
Inform(r) ==
    LET t == doc[r].tenant
        informed == /\ doc[r].to # NoErp
                    /\ doc[r].to = address[t]
                    /\ ~InFlight(doc[r].to, t)
    IN untold' = IF doc[r].op \notin StatusOp THEN untold
                 ELSE IF informed THEN untold \ {t} ELSE untold \cup {t}

HookOf(r) == [to |-> doc[r].to, tenant |-> doc[r].tenant, op |-> doc[r].op]

(* Mutant: remove does not bother the ERP. *)
DispatchUnlessRemoved(r) ==
    /\ posted' = IF doc[r].to = NoErp \/ doc[r].op = "remove" THEN posted
                 ELSE [posted EXCEPT ![HookOf(r)] = @ + 1]
    /\ Inform(r)

(* WebhookDispatcherService.dispatch, not awaited. *)
Dispatch(r) ==
    /\ posted' = IF doc[r].to = NoErp THEN posted
                 ELSE [posted EXCEPT ![HookOf(r)] = @ + 1]
    /\ Inform(r)

(* Mutant: unlock publishes nothing. *)
PublishUnlessUnlock(r) ==
    board' = IF doc[r].op \in {"create", "lock"}
             THEN [board EXCEPT ![doc[r].tenant] = Target[doc[r].op]]
             ELSE board

(* tenant.created, tenant.locked and tenant.unlocked carry the status,     *)
(* tenant.updated does not, and there is no event for a removal.           *)
Publish(r) ==
    board' = IF doc[r].op \in {"create", "lock", "unlock"}
             THEN [board EXCEPT ![doc[r].tenant] = Target[doc[r].op]]
             ELSE board

Announce(r) ==
    /\ stage[r] = "announce"
    /\ Publish(r)
    /\ Dispatch(r)
    /\ End(r)
    /\ UNCHANGED <<table, arrivals, erp, crossed, summary>>

(* An await throws or the replica dies: what was written stays written. *)
Fail(r) ==
    /\ stage[r] # "idle"
    /\ crossed' = IF stage[r] # "write" /\ doc[r].op \in StatusOp
                  THEN crossed \cup {doc[r].tenant} ELSE crossed
    /\ End(r)
    /\ UNCHANGED <<table, arrivals, told, summary>>

-----------------------------------------------------------------------------
(* The ERP answers 2xx; or it does not in time, answers something else, or *)
(* is not there, and the webhook is logged and forgotten.                  *)
Deliver(w) ==
    /\ posted[w] > 0
    /\ posted' = [posted EXCEPT ![w] = @ - 1]
    /\ erp' = IF w.op \in StatusOp
              THEN [erp EXCEPT ![w.to][w.tenant] = Target[w.op]] ELSE erp
    /\ UNCHANGED <<table, handlers, arrivals, board, untold, crossed, summary>>

Lose(w) ==
    /\ posted[w] > 0
    /\ posted' = [posted EXCEPT ![w] = @ - 1]
    /\ untold' = IF w.op \in StatusOp /\ w.to = address[w.tenant]
                 THEN untold \cup {w.tenant} ELSE untold
    /\ UNCHANGED <<table, handlers, arrivals, board, erp, crossed, summary>>

(* DashboardService.getSummary: the counts run at the same time on         *)
(* different connections, and no snapshot holds them together.             *)
BeginSummary ==
    /\ toCount = {}
    /\ toCount' = TenantStatus
    /\ tally' = 0
    /\ moves' = 0
    /\ UNCHANGED <<table, handlers, arrivals, told, crossed>>

Count(s) ==
    /\ s \in toCount
    /\ toCount' = toCount \ {s}
    /\ tally' = tally + CountByStatus(s)
    /\ UNCHANGED <<table, handlers, arrivals, told, crossed, moves>>

Handle(r) ==
    \/ \E t \in Tenant, op \in Op : Find(r, t, op)
    \/ \E t \in Tenant, a \in Address : Create(r, t, a)
    \/ StatusWrite(r)
    \/ \E a \in Address : UpdateWrite(r, a)
    \/ RemoveWrite(r)
    \/ AuditWrite(r) \/ Announce(r)
    \/ Fail(r)

TenantsNext ==
    \/ \E r \in Request : Handle(r)
    \/ \E w \in Webhook : Deliver(w) \/ Lose(w)
    \/ BeginSummary
    \/ \E s \in TenantStatus : Count(s)

TenantsSpec == TenantsInit /\ [][TenantsNext]_tenantsVars

-----------------------------------------------------------------------------
(* The type invariant.                                                     *)
TenantsTypeOK ==
    /\ status \in [Tenant -> TenantStatus \cup {"none"}]
    /\ removed \in [Tenant -> BOOLEAN]
    /\ address \in [Tenant -> Address]
    /\ stage \in [Request -> Stage]
    /\ doc \in [Request -> Doc \cup {NoDoc}]
    /\ arrivals \in Nat
    /\ board \in [Tenant -> TenantStatus \cup {"none"}]
    /\ posted \in [Webhook -> Nat]
    /\ erp \in [Erp -> [Tenant -> TenantStatus \cup {"none", "removed"}]]
    /\ crossed \subseteq Tenant
    /\ untold \subseteq Tenant
    /\ toCount \subseteq TenantStatus
    /\ tally \in Nat
    /\ moves \in Nat

(* Orders are the locks and unlocks that have passed their guard. *)
Lifecycle == INSTANCE TenantLifecycle WITH
    Client <- Request,
    standing <- status,
    gone <- {t \in Tenant : removed[t]},
    orders <- {[by |-> r, tenant |-> doc[r].tenant, to |-> Target[doc[r].op]] :
                 r \in {q \in Request : /\ stage[q] = "write"
                                        /\ doc[q].op \in {"lock", "unlock"}}}

(* Two locks, or a lock and an unlock, may pass their guards before either *)
(* writes, and an update or a removal may come between: even so a status   *)
(* changes only by a lock or an unlock that was let in when it would have  *)
(* changed it, each writes once, and a removed tenant stays removed.       *)
ImplementsLifecycle == Lifecycle!Spec

Unannounced(t) ==
    \E r \in Request : /\ stage[r] \in {"audit", "announce"}
                       /\ doc[r].tenant = t
                       /\ doc[r].op \in StatusOp

(* A dashboard shows the status of a tenant once all changes of it are     *)
(* announced, whatever updates run meanwhile, unless two changes crossed   *)
(* between their writes and their events or one failed there; and the next *)
(* change that crosses no other puts it right.                             *)
BoardsAgree ==
    \A t \in Tenant :
        Live(t) /\ ~Unannounced(t) /\ t \notin crossed => board[t] = status[t]

(* The same for the tenant's ERP, which hears of removals too, once no     *)
(* webhook about the status is on its way to it, unless the last one was   *)
(* lost, was not sent for want of an address, went to another address than *)
(* the row has by now, or followed another before that one had arrived, or *)
(* the address was changed since: tenant.updated does not tell a new ERP   *)
(* the status, which it hears of at the next change of it.                 *)
ErpAgrees ==
    \A t \in Tenant :
        /\ ~Unannounced(t)
        /\ t \notin crossed \cup untold
        /\ ~InFlight(address[t], t)
        => erp[address[t]][t] = IF removed[t] THEN "removed" ELSE status[t]

(* The total of the dashboard's summary is off by at most one for every    *)
(* creation, removal, lock or unlock since it began to count: a tenant     *)
(* that moves between two counts is counted twice, or not at all.          *)
CountError ==
    toCount = {} =>
        LET live == Cardinality({t \in Tenant : Live(t)})
        IN tally <= live + moves /\ live <= tally + moves
=============================================================================
