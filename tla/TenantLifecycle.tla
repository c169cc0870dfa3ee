--------------------------- MODULE TenantLifecycle ---------------------------
(***************************************************************************)
(* What TenantService promises about the standing of a tenant, with no     *)
(* awaits, audit rows, events or webhooks: it changes only when an order   *)
(* to lock or to unlock is carried out, an order is given only against a   *)
(* standing it would change, it is carried out at most once or dropped,    *)
(* and a removed tenant does not come back.                                *)
(*                                                                         *)
(* It does not promise that an order still changes anything when it is     *)
(* carried out, nor that the tenant is not removed by then.                *)
(***************************************************************************)
CONSTANTS
    Tenant,   \* identities of tenants
    Client    \* who gives orders, one at a time each

VARIABLES
    standing,  \* of each tenant, "none" before it is registered
    gone,      \* the tenants that were removed
    orders     \* orders that were given and not carried out yet

vars == <<standing, gone, orders>>

Ordered == {"ACTIVE", "LOCKED"}

Init ==
    /\ standing \in [Tenant -> Ordered \cup {"none"}]
    /\ gone = {}
    /\ orders = {}

Register(t) ==
    /\ standing[t] = "none"
    /\ standing' = [standing EXCEPT ![t] = "ACTIVE"]
    /\ UNCHANGED <<gone, orders>>

Order(c, t, s) ==
    /\ t \notin gone
    /\ standing[t] \in Ordered \ {s}
    /\ \A o \in orders : o.by # c
    /\ orders' = orders \cup {[by |-> c, tenant |-> t, to |-> s]}
    /\ UNCHANGED <<standing, gone>>

CarryOut(o) ==
    /\ standing' = [standing EXCEPT ![o.tenant] = o.to]
    /\ orders' = orders \ {o}
    /\ UNCHANGED gone

Drop(o) ==
    /\ orders' = orders \ {o}
    /\ UNCHANGED <<standing, gone>>

Remove(t) ==
    /\ standing[t] # "none"
    /\ gone' = gone \cup {t}
    /\ UNCHANGED <<standing, orders>>

Next ==
    \/ \E t \in Tenant : Register(t) \/ Remove(t)
    \/ \E c \in Client, t \in Tenant, s \in Ordered : Order(c, t, s)
    \/ \E o \in orders : CarryOut(o) \/ Drop(o)

Spec == Init /\ [][Next]_vars
=============================================================================
