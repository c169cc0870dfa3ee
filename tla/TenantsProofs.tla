---------------------------- MODULE TenantsProofs ----------------------------
(***************************************************************************)
(* Proofs about Tenants, for any finite set of tenants and any requests.   *)
(***************************************************************************)
EXTENDS Tenants, FiniteSetTheorems, TLAPS

(* A handler past its first await has found, or written, a row, and rows   *)
(* stay, removed or not.                                                   *)
HoldsTenant(r) ==
    /\ stage[r] # "idle" => doc[r] \in Doc /\ status[doc[r].tenant] # "none"
    /\ stage[r] = "write" => doc[r].op # "create"

HandlersHold == \A r \in Request : HoldsTenant(r)

RemovedWereThere == \A t \in Tenant : removed[t] => status[t] # "none"

TypeInv == TenantsTypeOK /\ HandlersHold /\ RemovedWereThere

USE DEF Stage, TenantStatus, Op, StatusOp, Target, Address

-----------------------------------------------------------------------------
(* The type invariant *)

LEMMA CountIsNat == \A s : CountByStatus(s) \in Nat
BY FiniteAssumption, FS_Subset, FS_CardinalityType DEF CountByStatus

LEMMA TypeInit == TenantsInit => TypeInv
<1> SUFFICES ASSUME TenantsInit PROVE TypeInv
  OBVIOUS
<1>1. Cardinality(Registered) \in Nat
  BY TenantAssumption, FiniteAssumption, FS_Subset, FS_CardinalityType
<1> QED
  BY <1>1 DEF TenantsInit, Standing, TypeInv, TenantsTypeOK, HandlersHold,
              HoldsTenant, RemovedWereThere

(* A request ends, or goes on with its document, while rows stay.          *)
LEMMA EndTypes ==
    ASSUME TypeInv, NEW r \in Request, End(r),
           \A t \in Tenant : status[t] # "none" => status'[t] # "none"
    PROVE  /\ stage' \in [Request -> Stage]
           /\ doc' \in [Request -> Doc \cup {NoDoc}]
           /\ HandlersHold'
BY DEF End, TypeInv, TenantsTypeOK, HandlersHold, HoldsTenant, Doc

LEMMA GotoTypes ==
    ASSUME TypeInv, NEW r \in Request, NEW s \in Stage \ {"idle", "write"},
           Goto(r, s), NEW d \in Doc, doc' = [doc EXCEPT ![r] = d],
           \A t \in Tenant : status[t] # "none" => status'[t] # "none",
           status'[d.tenant] # "none"
    PROVE  /\ stage' \in [Request -> Stage]
           /\ doc' \in [Request -> Doc \cup {NoDoc}]
           /\ HandlersHold'
BY DEF Goto, TypeInv, TenantsTypeOK, HandlersHold, HoldsTenant, Doc

LEMMA GoOnTypes ==
    ASSUME TypeInv, NEW r \in Request, NEW s \in Stage \ {"idle", "write"},
           stage[r] # "idle", Goto(r, s), UNCHANGED doc,
           \A t \in Tenant : status[t] # "none" => status'[t] # "none"
    PROVE  /\ stage' \in [Request -> Stage]
           /\ doc' \in [Request -> Doc \cup {NoDoc}]
           /\ HandlersHold'
BY DEF Goto, TypeInv, TenantsTypeOK, HandlersHold, HoldsTenant, Doc

LEMMA ChangeTypes ==
    ASSUME TypeInv, NEW r \in Request, NEW t \in Tenant, Change(r, t)
    PROVE  crossed' \subseteq Tenant /\ moves' \in Nat
BY DEF Change, TypeInv, TenantsTypeOK

LEMMA TypeNext == TypeInv /\ [TenantsNext]_tenantsVars => TypeInv'
<1> SUFFICES ASSUME TypeInv, [TenantsNext]_tenantsVars
             PROVE  TypeInv'
  OBVIOUS
<1> USE DEF table, told, summary, handlers
<1>1. ASSUME NEW r \in Request, NEW t \in Tenant, NEW op \in Op, Find(r, t, op)
      PROVE  TypeInv'
  <2> DEFINE d == [tenant |-> t, op |-> op, to |-> address[t]]
  <2>1. d \in Doc /\ d.tenant = t /\ d.op = op
    BY DEF Doc, TypeInv, TenantsTypeOK
  <2>2. /\ doc' = [doc EXCEPT ![r] = d] /\ stage' = [stage EXCEPT ![r] = "write"]
        /\ UNCHANGED <<table, told, crossed, summary>> /\ arrivals' = arrivals + 1
        /\ status[t] # "none" /\ op # "create"
    BY <1>1 DEF Find, Goto, Live
  <2> HIDE DEF d
  <2> QED
    BY <2>1, <2>2 DEF TypeInv, TenantsTypeOK, HandlersHold, HoldsTenant,
                      RemovedWereThere
<1>2. ASSUME NEW r \in Request, NEW t \in Tenant, NEW a \in Address,
             Create(r, t, a)
      PROVE  TypeInv'
  <2> DEFINE d == [tenant |-> t, op |-> "create", to |-> a]
  <2>1. d \in Doc /\ d.tenant = t
    BY DEF Doc
  <2>2. /\ doc' = [doc EXCEPT ![r] = d] /\ Goto(r, "audit") /\ Change(r, t)
        /\ status' = [status EXCEPT ![t] = "ACTIVE"]
        /\ address' = [address EXCEPT ![t] = a]
        /\ UNCHANGED <<removed, told, toCount, tally>>
        /\ arrivals' = arrivals + 1
    BY <1>2 DEF Create
  <2>3. /\ status' \in [Tenant -> TenantStatus \cup {"none"}]
        /\ address' \in [Tenant -> Address]
        /\ status'[d.tenant] # "none"
        /\ \A e \in Tenant : status[e] # "none" => status'[e] # "none"
    BY <2>1, <2>2 DEF TypeInv, TenantsTypeOK
  <2> HIDE DEF d
  <2>4. /\ stage' \in [Request -> Stage]
        /\ doc' \in [Request -> Doc \cup {NoDoc}]
        /\ HandlersHold'
    BY <2>1, <2>2, <2>3, GotoTypes
  <2> QED
    BY <2>2, <2>3, <2>4, ChangeTypes
    DEF TypeInv, TenantsTypeOK, RemovedWereThere
<1>3. ASSUME NEW r \in Request, StatusWrite(r)
      PROVE  TypeInv'
  <2> DEFINE t == doc[r].tenant
  <2>1. t \in Tenant /\ stage[r] = "write" /\ doc[r].op \in {"lock", "unlock"}
    BY <1>3 DEF StatusWrite, TypeInv, HandlersHold, HoldsTenant, Doc
  <2>2. /\ status' = [status EXCEPT ![t] = Target[doc[r].op]]
        /\ WriteBack(r) /\ Change(r, t)
        /\ UNCHANGED <<removed, address, arrivals, told, toCount, tally>>
    BY <1>3 DEF StatusWrite
  <2>3. Target[doc[r].op] \in TenantStatus
    BY <2>1
  <2>4. /\ status' \in [Tenant -> TenantStatus \cup {"none"}]
        /\ \A e \in Tenant : status[e] # "none" => status'[e] # "none"
    BY <2>1, <2>2, <2>3 DEF TypeInv, TenantsTypeOK
  <2>5. /\ stage' \in [Request -> Stage]
        /\ doc' \in [Request -> Doc \cup {NoDoc}]
        /\ HandlersHold'
    BY <2>1, <2>2, <2>4, EndTypes, GoOnTypes DEF WriteBack
  <2> QED
    BY <2>1, <2>2, <2>4, <2>5, ChangeTypes
    DEF TypeInv, TenantsTypeOK, RemovedWereThere
<1>4. ASSUME NEW r \in Request, NEW a \in Address, UpdateWrite(r, a)
      PROVE  TypeInv'
  <2>1. /\ doc[r] \in Doc /\ stage[r] = "write"
        /\ status[doc[r].tenant] # "none" /\ doc[r].tenant \in Tenant
    BY <1>4 DEF UpdateWrite, TypeInv, HandlersHold, HoldsTenant, Doc
  <2> DEFINE d == [doc[r] EXCEPT !.to = a]
  <2>2. d \in Doc /\ d.tenant = doc[r].tenant
    BY <2>1 DEF Doc
  <2>3. /\ UNCHANGED <<status, removed, arrivals, board, posted, erp, crossed,
                       summary>>
        /\ untold' \subseteq Tenant
    BY <1>4, <2>1 DEF UpdateWrite, TypeInv, TenantsTypeOK
  <2>4. End(r) \/ (Goto(r, "audit") /\ doc' = [doc EXCEPT ![r] = d])
    BY <1>4 DEF UpdateWrite, TypeInv, TenantsTypeOK
  <2> HIDE DEF d
  <2>5. /\ stage' \in [Request -> Stage]
        /\ doc' \in [Request -> Doc \cup {NoDoc}]
        /\ HandlersHold'
    BY <2>1, <2>2, <2>3, <2>4, EndTypes, GotoTypes
  <2>6. address' \in [Tenant -> Address]
    BY <1>4 DEF UpdateWrite, TypeInv, TenantsTypeOK
  <2> QED
    BY <2>3, <2>5, <2>6 DEF TypeInv, TenantsTypeOK, RemovedWereThere
<1>5. ASSUME NEW r \in Request, RemoveWrite(r)
      PROVE  TypeInv'
  <2> DEFINE t == doc[r].tenant
  <2>1. t \in Tenant /\ status[t] # "none" /\ stage[r] = "write"
    BY <1>5 DEF RemoveWrite, TypeInv, HandlersHold, HoldsTenant, Doc
  <2>2. /\ removed' = [removed EXCEPT ![t] = TRUE]
        /\ Goto(r, "audit") /\ Change(r, t)
        /\ UNCHANGED <<status, address, doc, arrivals, told, toCount, tally>>
    BY <1>5 DEF RemoveWrite
  <2>3. /\ stage' \in [Request -> Stage]
        /\ doc' \in [Request -> Doc \cup {NoDoc}]
        /\ HandlersHold'
    BY <2>1, <2>2, GoOnTypes
  <2> QED
    BY <2>1, <2>2, <2>3, ChangeTypes
    DEF TypeInv, TenantsTypeOK, RemovedWereThere
<1>6. ASSUME NEW r \in Request, AuditWrite(r)
      PROVE  TypeInv'
  <2>1. /\ stage' \in [Request -> Stage]
        /\ doc' \in [Request -> Doc \cup {NoDoc}]
        /\ HandlersHold'
    BY <1>6, GoOnTypes DEF AuditWrite
  <2> QED
    BY <1>6, <2>1 DEF AuditWrite, TypeInv, TenantsTypeOK, RemovedWereThere
<1>7. ASSUME NEW r \in Request, Announce(r)
      PROVE  TypeInv'
  <2>1. doc[r] \in Doc
    BY <1>7 DEF Announce, TypeInv, HandlersHold, HoldsTenant
  <2>2. /\ stage' \in [Request -> Stage]
        /\ doc' \in [Request -> Doc \cup {NoDoc}]
        /\ HandlersHold'
    BY <1>7, EndTypes DEF Announce
  <2>3. board' \in [Tenant -> TenantStatus \cup {"none"}]
    BY <1>7, <2>1 DEF Announce, Publish, TypeInv, TenantsTypeOK, Doc
  <2>4. doc[r].to # NoErp => HookOf(r) \in Webhook
    BY <2>1 DEF Doc, Webhook, HookOf
  <2>5. posted' \in [Webhook -> Nat] /\ untold' \subseteq Tenant
    BY <1>7, <2>1, <2>4
    DEF Announce, Dispatch, Inform, TypeInv, TenantsTypeOK, Doc
  <2> QED
    BY <1>7, <2>2, <2>3, <2>5
    DEF Announce, TypeInv, TenantsTypeOK, RemovedWereThere
<1>8. ASSUME NEW r \in Request, Fail(r)
      PROVE  TypeInv'
  <2>1. doc[r] \in Doc
    BY <1>8 DEF Fail, TypeInv, HandlersHold, HoldsTenant
  <2>2. /\ stage' \in [Request -> Stage]
        /\ doc' \in [Request -> Doc \cup {NoDoc}]
        /\ HandlersHold'
    BY <1>8, EndTypes DEF Fail
  <2>3. crossed' \subseteq Tenant
    BY <1>8, <2>1 DEF Fail, TypeInv, TenantsTypeOK, Doc
  <2> QED
    BY <1>8, <2>2, <2>3 DEF Fail, TypeInv, TenantsTypeOK, RemovedWereThere
<1>9. ASSUME NEW w \in Webhook, Deliver(w) \/ Lose(w)
      PROVE  TypeInv'
  <2>1. w.to \in Erp /\ w.tenant \in Tenant /\ w.op \in Op
    BY DEF Webhook
  <2>2. erp' \in [Erp -> [Tenant -> TenantStatus \cup {"none", "removed"}]]
    <3>1. CASE erp' = erp
      BY <3>1 DEF TypeInv, TenantsTypeOK
    <3>2. CASE /\ w.op \in StatusOp
               /\ erp' = [erp EXCEPT ![w.to][w.tenant] = Target[w.op]]
      <4>1. Target[w.op] \in TenantStatus \cup {"none", "removed"}
        BY <3>2
      <4> QED
        BY <2>1, <3>2, <4>1 DEF TypeInv, TenantsTypeOK
    <3> QED
      BY <1>9, <3>1, <3>2 DEF Deliver, Lose
  <2>3. posted' \in [Webhook -> Nat]
    BY <1>9 DEF Deliver, Lose, TypeInv, TenantsTypeOK
  <2> QED
    BY <1>9, <2>1, <2>2, <2>3
    DEF Deliver, Lose, TypeInv, TenantsTypeOK, HandlersHold, HoldsTenant,
        RemovedWereThere
<1>10. CASE BeginSummary
  BY <1>10 DEF BeginSummary, TypeInv, TenantsTypeOK, HandlersHold,
               HoldsTenant, RemovedWereThere
<1>11. ASSUME NEW s \in TenantStatus, Count(s)
       PROVE  TypeInv'
  <2>1. tally' \in Nat
    BY <1>11, CountIsNat DEF Count, TypeInv, TenantsTypeOK
  <2> QED
    BY <1>11, <2>1 DEF Count, TypeInv, TenantsTypeOK, HandlersHold,
                       HoldsTenant, RemovedWereThere
<1>12. CASE UNCHANGED tenantsVars
  BY <1>12 DEF tenantsVars, TypeInv, TenantsTypeOK, HandlersHold,
               HoldsTenant, RemovedWereThere
<1> QED
  BY <1>1, <1>2, <1>3, <1>4, <1>5, <1>6, <1>7, <1>8, <1>9, <1>10, <1>11, <1>12
  DEF TenantsNext, Handle

LEMMA TypeAlways == TenantsSpec => []TypeInv
BY TypeInit, TypeNext, PTL DEF TenantsSpec

(* TenantsTypeOK is an invariant of TenantService and of what it tells.    *)
THEOREM TypeCorrect == TenantsSpec => []TenantsTypeOK
BY TypeAlways, PTL DEF TypeInv

-----------------------------------------------------------------------------
(* TenantService implements TenantLifecycle                                *)

IsOrder(r) == stage[r] = "write" /\ doc[r].op \in {"lock", "unlock"}

OrderOf(r) ==
    [by |-> r, tenant |-> doc[r].tenant, to |-> Target[doc[r].op]]

Orders == {OrderOf(r) : r \in {q \in Request : IsOrder(q)}}

Gone == {t \in Tenant : removed[t]}

(* How the orders change with the request that moves.                      *)
LEMMA OrdersKept ==
    ASSUME NEW r \in Request,
           \A q \in Request \ {r} : stage'[q] = stage[q] /\ doc'[q] = doc[q],
           ~IsOrder(r), ~IsOrder(r)'
    PROVE  Orders' = Orders
<1>1. \A q \in Request : IsOrder(q)' <=> IsOrder(q)
  BY DEF IsOrder
<1>2. \A q \in Request : IsOrder(q) => OrderOf(q)' = OrderOf(q)
  BY DEF OrderOf, IsOrder
<1> QED
  BY <1>1, <1>2 DEF Orders

LEMMA OrdersGrow ==
    ASSUME NEW r \in Request,
           \A q \in Request \ {r} : stage'[q] = stage[q] /\ doc'[q] = doc[q],
           ~IsOrder(r), IsOrder(r)'
    PROVE  Orders' = Orders \cup {OrderOf(r)'}
<1>1. \A q \in Request \ {r} : IsOrder(q)' <=> IsOrder(q)
  BY DEF IsOrder
<1>2. \A q \in Request \ {r} : OrderOf(q)' = OrderOf(q)
  BY DEF OrderOf
<1> QED
  BY <1>1, <1>2 DEF Orders

LEMMA OrdersShrink ==
    ASSUME NEW r \in Request,
           \A q \in Request \ {r} : stage'[q] = stage[q] /\ doc'[q] = doc[q],
           IsOrder(r), ~IsOrder(r)'
    PROVE  Orders' = Orders \ {OrderOf(r)} /\ OrderOf(r) \in Orders
<1>1. \A q \in Request \ {r} : IsOrder(q)' <=> IsOrder(q)
  BY DEF IsOrder
<1>2. \A q \in Request \ {r} : OrderOf(q)' = OrderOf(q)
  BY DEF OrderOf
<1>3. \A q \in Request \ {r} : OrderOf(q) # OrderOf(r)
  BY DEF OrderOf
<1> QED
  BY <1>1, <1>2, <1>3 DEF Orders

(* A client has at most one order.                                         *)
LEMMA OrderedBy ==
    \A r \in Request : ~IsOrder(r) => \A o \in Orders : o.by # r
BY DEF Orders, OrderOf

LEMMA OthersStay ==
    ASSUME TypeInv, NEW r \in Request,
           \/ End(r)
           \/ \E s \in Stage : Goto(r, s) /\ UNCHANGED doc
           \/ \E s \in Stage : Goto(r, s) /\ \E d : doc' = [doc EXCEPT ![r] = d]
    PROVE  \A q \in Request \ {r} : stage'[q] = stage[q] /\ doc'[q] = doc[q]
BY DEF End, Goto, TypeInv, TenantsTypeOK

LEMMA LifecycleNext ==
    ASSUME TypeInv, [TenantsNext]_tenantsVars
    PROVE  [Lifecycle!Next]_Lifecycle!vars
<1> USE DEF table, told, summary, handlers
<1>0. ASSUME UNCHANGED <<status, removed>>, Orders' = Orders
      PROVE  UNCHANGED Lifecycle!vars
  <2>1. /\ Orders = {[by |-> r, tenant |-> doc[r].tenant,
                      to |-> Target[doc[r].op]] :
                      r \in {q \in Request : /\ stage[q] = "write"
                                             /\ doc[q].op \in {"lock", "unlock"}}}
        /\ UNCHANGED Gone
    BY <1>0 DEF Orders, OrderOf, IsOrder, Gone
  <2> QED
    BY <1>0 DEF Orders, OrderOf, IsOrder, Gone, Lifecycle!vars
<1>1. ASSUME NEW r \in Request, NEW t \in Tenant, NEW op \in Op, Find(r, t, op)
      PROVE  [Lifecycle!Next]_Lifecycle!vars
  <2> DEFINE d == [tenant |-> t, op |-> op, to |-> address[t]]
  <2>1. /\ stage[r] = "idle" /\ ~removed[t] /\ status[t] # "none"
        /\ stage' = [stage EXCEPT ![r] = "write"] /\ doc' = [doc EXCEPT ![r] = d]
        /\ UNCHANGED <<status, removed>>
        /\ op = "lock" => status[t] # "LOCKED"
        /\ op = "unlock" => status[t] = "LOCKED"
    BY <1>1 DEF Find, Live, Goto
  <2>2. \A q \in Request \ {r} : stage'[q] = stage[q] /\ doc'[q] = doc[q]
    BY <2>1 DEF TypeInv, TenantsTypeOK
  <2>3. doc'[r].tenant = t /\ doc'[r].op = op /\ stage'[r] = "write"
    BY <2>1 DEF TypeInv, TenantsTypeOK
  <2>4. ~IsOrder(r)
    BY <2>1 DEF IsOrder
  <2>5. CASE op \in {"lock", "unlock"}
    <3>1. Orders' = Orders \cup {[by |-> r, tenant |-> t, to |-> Target[op]]}
      <4>1. IsOrder(r)'
        BY <2>3, <2>5 DEF IsOrder
      <4>2. OrderOf(r)' = [by |-> r, tenant |-> t, to |-> Target[op]]
        BY <2>3 DEF OrderOf
      <4> QED
        BY <2>2, <2>4, <4>1, <4>2, OrdersGrow
    <3>2. /\ \A o \in Orders : o.by # r
          /\ status[t] \in {"ACTIVE", "LOCKED"} \ {Target[op]}
          /\ Target[op] \in {"ACTIVE", "LOCKED"}
      BY <2>1, <2>4, <2>5, OrderedBy DEF TypeInv, TenantsTypeOK
    <3>3. Lifecycle!Order(r, t, Target[op])
      BY <2>1, <3>1, <3>2
      DEF Lifecycle!Order, Lifecycle!Ordered, Orders, OrderOf, IsOrder
    <3> QED
      BY <3>2, <3>3 DEF Lifecycle!Next, Lifecycle!Ordered
  <2>6. CASE op \notin {"lock", "unlock"}
    <3>1. ~IsOrder(r)'
      BY <2>3, <2>6 DEF IsOrder
    <3> QED
      BY <1>0, <2>1, <2>2, <2>4, <3>1, OrdersKept
  <2> QED
    BY <2>5, <2>6
<1>2. ASSUME NEW r \in Request, NEW t \in Tenant, NEW a \in Address,
             Create(r, t, a)
      PROVE  [Lifecycle!Next]_Lifecycle!vars
  <2>1. /\ stage[r] = "idle" /\ Goto(r, "audit")
        /\ doc' = [doc EXCEPT ![r] = [tenant |-> t, op |-> "create", to |-> a]]
        /\ status[t] = "none" /\ status' = [status EXCEPT ![t] = "ACTIVE"]
        /\ UNCHANGED removed
    BY <1>2 DEF Create
  <2>2. Orders' = Orders
    <3>1. stage'[r] = "audit"
      BY <2>1 DEF Goto, TypeInv, TenantsTypeOK
    <3>2. \A q \in Request \ {r} : stage'[q] = stage[q] /\ doc'[q] = doc[q]
      BY <2>1 DEF Goto, TypeInv, TenantsTypeOK
    <3> QED
      BY <2>1, <3>1, <3>2, OrdersKept DEF IsOrder
  <2>3. Lifecycle!Register(t)
    BY <2>1, <2>2 DEF Lifecycle!Register, Orders, OrderOf, IsOrder
  <2> QED
    BY <2>3 DEF Lifecycle!Next
<1>3. ASSUME NEW r \in Request, StatusWrite(r)
      PROVE  [Lifecycle!Next]_Lifecycle!vars
  <2>1. /\ IsOrder(r)
        /\ status' = [status EXCEPT ![doc[r].tenant] = Target[doc[r].op]]
        /\ WriteBack(r) /\ UNCHANGED removed
    BY <1>3 DEF StatusWrite, IsOrder
  <2>2. stage'[r] \in {"idle", "audit"}
    BY <2>1 DEF WriteBack, End, Goto, TypeInv, TenantsTypeOK
  <2>3. Orders' = Orders \ {OrderOf(r)} /\ OrderOf(r) \in Orders
    BY <2>1, <2>2, OthersStay, OrdersShrink DEF WriteBack, IsOrder
  <2>4. ASSUME NEW o, o = OrderOf(r)
        PROVE  Lifecycle!CarryOut(o)
    BY <2>1, <2>3, <2>4 DEF Lifecycle!CarryOut, Orders, OrderOf, IsOrder
  <2>5. \E o \in Orders : Lifecycle!CarryOut(o)
    BY <2>3, <2>4
  <2> QED
    BY <2>5 DEF Lifecycle!Next, Orders, OrderOf, IsOrder
<1>4. ASSUME NEW r \in Request, NEW a \in Address, UpdateWrite(r, a)
      PROVE  [Lifecycle!Next]_Lifecycle!vars
  <2>1. ~IsOrder(r) /\ UNCHANGED <<status, removed>>
    BY <1>4 DEF UpdateWrite, IsOrder
  <2>2. /\ stage'[r] # "write"
        /\ \A q \in Request \ {r} : stage'[q] = stage[q] /\ doc'[q] = doc[q]
    BY <1>4 DEF UpdateWrite, End, Goto, TypeInv, TenantsTypeOK
  <2>3. Orders' = Orders
    BY <2>1, <2>2, OrdersKept DEF IsOrder
  <2> QED
    BY <1>0, <2>1, <2>3
<1>5. ASSUME NEW r \in Request, RemoveWrite(r)
      PROVE  [Lifecycle!Next]_Lifecycle!vars
  <2> DEFINE t == doc[r].tenant
  <2>1. /\ ~IsOrder(r) /\ removed' = [removed EXCEPT ![t] = TRUE]
        /\ t \in Tenant /\ status[t] # "none" /\ UNCHANGED status
        /\ Goto(r, "audit") /\ UNCHANGED doc
    BY <1>5 DEF RemoveWrite, IsOrder, TypeInv, HandlersHold, HoldsTenant, Doc
  <2>2. stage'[r] = "audit"
    BY <2>1 DEF Goto, TypeInv, TenantsTypeOK
  <2>3. Orders' = Orders
    BY <2>1, <2>2, OthersStay, OrdersKept DEF IsOrder
  <2>4. {e \in Tenant : removed'[e]} = {e \in Tenant : removed[e]} \cup {t}
    BY <2>1 DEF TypeInv, TenantsTypeOK
  <2>5. ASSUME NEW e, e = t
        PROVE  Lifecycle!Remove(e)
    BY <2>1, <2>3, <2>4, <2>5 DEF Lifecycle!Remove, Orders, OrderOf, IsOrder
  <2>6. \E e \in Tenant : Lifecycle!Remove(e)
    BY <2>1, <2>5
  <2> QED
    BY <2>6 DEF Lifecycle!Next
<1>6. ASSUME NEW r \in Request, AuditWrite(r) \/ Announce(r)
      PROVE  [Lifecycle!Next]_Lifecycle!vars
  <2>1. ~IsOrder(r) /\ UNCHANGED <<status, removed>>
    BY <1>6 DEF AuditWrite, Announce, IsOrder
  <2>2. /\ stage'[r] # "write"
        /\ \A q \in Request \ {r} : stage'[q] = stage[q] /\ doc'[q] = doc[q]
    BY <1>6 DEF AuditWrite, Announce, End, Goto, TypeInv, TenantsTypeOK
  <2>3. Orders' = Orders
    BY <2>1, <2>2, OrdersKept DEF IsOrder
  <2> QED
    BY <1>0, <2>1, <2>3
<1>7. ASSUME NEW r \in Request, Fail(r)
      PROVE  [Lifecycle!Next]_Lifecycle!vars
  <2>1. End(r) /\ UNCHANGED <<status, removed>>
    BY <1>7 DEF Fail
  <2>2. ~IsOrder(r)'
    BY <2>1 DEF End, IsOrder, TypeInv, TenantsTypeOK
  <2>3. \A q \in Request \ {r} : stage'[q] = stage[q] /\ doc'[q] = doc[q]
    BY <2>1, OthersStay
  <2>4. CASE ~IsOrder(r)
    BY <1>0, <2>1, <2>2, <2>3, <2>4, OrdersKept
  <2>5. CASE IsOrder(r)
    <3>1. Orders' = Orders \ {OrderOf(r)} /\ OrderOf(r) \in Orders
      BY <2>2, <2>3, <2>5, OrdersShrink
    <3>2. ASSUME NEW o, o = OrderOf(r)
          PROVE  Lifecycle!Drop(o)
      BY <2>1, <3>1, <3>2 DEF Lifecycle!Drop, Orders, OrderOf, IsOrder
    <3>3. \E o \in Orders : Lifecycle!Drop(o)
      BY <3>1, <3>2
    <3> QED
      BY <3>3 DEF Lifecycle!Next, Orders, OrderOf, IsOrder
  <2> QED
    BY <2>4, <2>5
<1>8. ASSUME UNCHANGED <<status, removed, stage, doc>>
      PROVE  [Lifecycle!Next]_Lifecycle!vars
  BY <1>0, <1>8 DEF Orders, OrderOf, IsOrder
<1>9. ASSUME \/ \E w \in Webhook : Deliver(w) \/ Lose(w)
             \/ BeginSummary
             \/ \E s \in TenantStatus : Count(s)
             \/ UNCHANGED tenantsVars
      PROVE  [Lifecycle!Next]_Lifecycle!vars
  BY <1>8, <1>9 DEF Deliver, Lose, BeginSummary, Count, tenantsVars
<1> QED
  BY <1>1, <1>2, <1>3, <1>4, <1>5, <1>6, <1>7, <1>9 DEF TenantsNext, Handle

(* However locks, unlocks, updates and removals overlap, the statuses of   *)
(* tenants change as TenantLifecycle says.                                 *)
THEOREM LifecycleCorrect == TenantsSpec => ImplementsLifecycle
<1>1. TenantsInit => Lifecycle!Init
  <2> SUFFICES ASSUME TenantsInit PROVE Lifecycle!Init
    OBVIOUS
  <2>1. status \in [Tenant -> {"ACTIVE", "LOCKED"} \cup {"none"}]
    BY DEF TenantsInit, Standing
  <2>2. /\ \A t \in Tenant : ~removed[t]
        /\ \A r \in Request : stage[r] = "idle"
    BY DEF TenantsInit
  <2> QED
    BY <2>1, <2>2 DEF Lifecycle!Init, Lifecycle!Ordered
<1>2. TypeInv /\ [TenantsNext]_tenantsVars => [Lifecycle!Next]_Lifecycle!vars
  BY LifecycleNext
<1> QED
  BY <1>1, <1>2, TypeAlways, PTL
  DEF TenantsSpec, ImplementsLifecycle, Lifecycle!Spec

-----------------------------------------------------------------------------
(* Dashboards and ERPs agree with the table                                *)

Pending(r, t) ==
    /\ stage[r] \in {"audit", "announce"}
    /\ doc[r].tenant = t
    /\ doc[r].op \in StatusOp

Current(t) == IF removed[t] THEN "removed" ELSE status[t]

(* w is a webhook about the status of t on its way to the tenant's ERP.    *)
OnItsWay(w, t) ==
    /\ posted[w] > 0
    /\ w.to = address[t] /\ w.tenant = t /\ w.op \in StatusOp

(* Unless changes of t crossed, at most one is waiting to be announced, it *)
(* made the tenant what it is, and once it is announced everybody knows or *)
(* is about to.                                                            *)
AgreeOn(t) ==
    t \notin crossed =>
        /\ \A r \in Request : Pending(r, t) =>
              /\ Target[doc[r].op] = Current(t)
              /\ \A q \in Request : Pending(q, t) => q = r
        /\ (\A r \in Request : ~Pending(r, t)) =>
              /\ Live(t) => board[t] = status[t]
              /\ t \notin untold =>
                    /\ address[t] \in Erp
                    /\ \A w \in Webhook : OnItsWay(w, t)
                                            => Target[w.op] = Current(t)
                    /\ \/ erp[address[t]][t] = Current(t)
                       \/ \E w \in Webhook : OnItsWay(w, t)

AgreeInv == \A t \in Tenant : AgreeOn(t)

LEMMA AgreeInit == TenantsInit => AgreeInv
<1> SUFFICES ASSUME TenantsInit, NEW t \in Tenant PROVE AgreeOn(t)
  BY DEF AgreeInv
<1>1. /\ \A q \in Request : ~Pending(q, t)
      /\ board[t] = status[t] /\ Current(t) = status[t]
      /\ \A w \in Webhook : ~OnItsWay(w, t)
  BY DEF TenantsInit, Pending, Current, OnItsWay
<1>2. ASSUME t \notin untold
      PROVE  address[t] \in Erp /\ erp[address[t]][t] = status[t]
  <2>1. address[t] \in Erp
    BY <1>2 DEF TenantsInit
  <2> QED
    BY <2>1 DEF TenantsInit
<1> QED
  BY <1>1, <1>2 DEF AgreeOn

LEMMA AgreeEnough == TypeInv /\ AgreeInv => BoardsAgree /\ ErpAgrees
<1> SUFFICES ASSUME TypeInv, AgreeInv
             PROVE  BoardsAgree /\ ErpAgrees
  OBVIOUS
<1>1. ASSUME NEW t \in Tenant, ~Unannounced(t)
      PROVE  \A r \in Request : ~Pending(r, t)
  BY <1>1 DEF Unannounced, Pending
<1>2. ASSUME NEW t \in Tenant, ~InFlight(address[t], t)
      PROVE  ~ \E w \in Webhook : OnItsWay(w, t)
  BY <1>2 DEF InFlight, OnItsWay
<1>3. BoardsAgree
  BY <1>1 DEF BoardsAgree, AgreeInv, AgreeOn
<1>4. ErpAgrees
  BY <1>1, <1>2 DEF ErpAgrees, AgreeInv, AgreeOn, Current
<1> QED
  BY <1>3, <1>4

(* A step that is not about the status of t.                               *)
LEMMA AgreeKept ==
    ASSUME NEW t \in Tenant, AgreeOn(t),
           status'[t] = status[t], removed'[t] = removed[t],
           board'[t] = board[t],
           t \in crossed => t \in crossed',
           \/ t \in untold'
           \/ /\ t \notin untold /\ address'[t] = address[t]
              /\ erp'[address[t]][t] = erp[address[t]][t]
              /\ \A w \in Webhook : OnItsWay(w, t)' <=> OnItsWay(w, t),
           \A r \in Request : Pending(r, t)' <=> Pending(r, t),
           \A r \in Request : Pending(r, t) => doc'[r] = doc[r]
    PROVE  AgreeOn(t)'
BY DEF AgreeOn, Current, Live

(* Request r changes t, and is the first to do so since the last change of *)
(* t was announced, or crosses another.                                    *)
LEMMA AgreeChanged ==
    ASSUME TypeInv, NEW r \in Request, NEW t \in Tenant, Change(r, t),
           AgreeOn(t), ~Pending(r, t),
           \A q \in Request \ {r} : Pending(q, t)' <=> Pending(q, t),
           \/ Pending(r, t)' /\ Target[doc'[r].op] = Current(t)'
           \/ /\ ~Pending(r, t)' /\ removed[t] /\ removed'[t]
              /\ UNCHANGED <<address, posted, erp, untold>>
    PROVE  AgreeOn(t)'
<1>1. CASE \E q \in Request \ {r} : Pending(q, t)
  <2>1. t \in crossed'
    BY <1>1 DEF Change, Pending
  <2> QED
    BY <2>1 DEF AgreeOn
<1>2. CASE \A q \in Request : ~Pending(q, t)
  <2>1. removed[t] => (t \in crossed' <=> t \in crossed)
    BY <1>2 DEF Change, Pending
  <2>2. CASE Pending(r, t)' /\ Target[doc'[r].op] = Current(t)'
    BY <1>2, <2>2 DEF AgreeOn
  <2>3. CASE /\ ~Pending(r, t)' /\ removed[t] /\ removed'[t]
             /\ UNCHANGED <<address, posted, erp, untold>>
    BY <1>2, <2>1, <2>3 DEF AgreeOn, Live, Current, OnItsWay
  <2> QED
    BY <2>2, <2>3
<1> QED
  BY <1>1, <1>2

LEMMA AgreeNext ==
    ASSUME TypeInv, AgreeInv, [TenantsNext]_tenantsVars
    PROVE  AgreeInv'
<1> USE DEF table, told, summary, handlers
<1>0. ASSUME NEW t \in Tenant
      PROVE  AgreeOn(t)
  BY DEF AgreeInv
<1>1. ASSUME NEW r \in Request,
             \/ \E t \in Tenant, op \in Op : Find(r, t, op)
             \/ \E a \in Address : UpdateWrite(r, a)
             \/ AuditWrite(r),
             NEW t \in Tenant
      PROVE  AgreeOn(t)'
  <2>1. /\ UNCHANGED <<status, removed, board, posted, erp, crossed>>
        /\ \A q \in Request \ {r} : stage'[q] = stage[q] /\ doc'[q] = doc[q]
    BY <1>1 DEF Find, UpdateWrite, AuditWrite, End, Goto, TypeInv, TenantsTypeOK
  <2>2. /\ Pending(r, t)' <=> Pending(r, t)
        /\ Pending(r, t) => doc'[r] = doc[r]
    <3>1. CASE \E e \in Tenant, op \in Op : Find(r, e, op)
      BY <3>1 DEF Find, Goto, Pending, TypeInv, TenantsTypeOK
    <3>2. CASE \E a \in Address : UpdateWrite(r, a)
      <4>1. doc[r] \in Doc /\ stage[r] = "write" /\ doc[r].op = "update"
        BY <3>2 DEF UpdateWrite, TypeInv, HandlersHold, HoldsTenant
      <4>2. stage'[r] = "idle" \/ doc'[r].op = "update"
        BY <3>2, <4>1 DEF UpdateWrite, End, Goto, TypeInv, TenantsTypeOK, Doc
      <4> QED
        BY <4>1, <4>2 DEF Pending
    <3>3. CASE AuditWrite(r)
      BY <3>3 DEF AuditWrite, Goto, Pending, TypeInv, TenantsTypeOK
    <3> QED
      BY <1>1, <3>1, <3>2, <3>3
  <2>3. \A q \in Request \ {r} : Pending(q, t)' <=> Pending(q, t)
    BY <2>1 DEF Pending
  <2>4. t \in untold' \/ (t \notin untold /\ address'[t] = address[t])
    <3>1. CASE UNCHANGED <<address, untold>>
      BY <3>1
    <3>2. ASSUME NEW a \in Address, UpdateWrite(r, a)
          PROVE  t \in untold' \/ (t \notin untold /\ address'[t] = address[t])
      BY <3>2 DEF UpdateWrite, TypeInv, TenantsTypeOK
    <3> QED
      BY <1>1, <3>1, <3>2 DEF Find, AuditWrite
  <2> QED
    BY <1>0, <2>1, <2>2, <2>3, <2>4, AgreeKept DEF OnItsWay
<1>2. ASSUME NEW r \in Request, NEW e \in Tenant, Change(r, e),
             UNCHANGED told, \A t \in Tenant \ {e} : address'[t] = address[t],
             \A t \in Tenant \ {e} : status'[t] = status[t] /\ removed'[t] = removed[t],
             \A q \in Request \ {r} : stage'[q] = stage[q] /\ doc'[q] = doc[q],
             \A t \in Tenant : ~Pending(r, t),
             \A t \in Tenant \ {e} : ~Pending(r, t)',
             \/ Pending(r, e)' /\ Target[doc'[r].op] = Current(e)'
             \/ ~Pending(r, e)' /\ removed[e] /\ removed'[e] /\ UNCHANGED address,
             NEW t \in Tenant
      PROVE  AgreeOn(t)'
  <2>1. \A q \in Request \ {r} : Pending(q, t)' <=> Pending(q, t)
    BY <1>2 DEF Pending
  <2>2. CASE t = e
    BY <1>0, <1>2, <2>1, <2>2, AgreeChanged
  <2>3. CASE t # e
    <3>1. t \in crossed => t \in crossed'
      BY <1>2, <2>3 DEF Change
    <3> QED
      BY <1>0, <1>2, <2>1, <2>3, <3>1, AgreeKept DEF Pending, OnItsWay
  <2> QED
    BY <2>2, <2>3
<1>3. ASSUME NEW r \in Request, NEW e \in Tenant, NEW a \in Address,
             Create(r, e, a), NEW t \in Tenant
      PROVE  AgreeOn(t)'
  <2> DEFINE d == [tenant |-> e, op |-> "create", to |-> a]
  <2>1. /\ stage[r] = "idle" /\ stage' = [stage EXCEPT ![r] = "audit"]
        /\ doc' = [doc EXCEPT ![r] = d] /\ Change(r, e)
        /\ status' = [status EXCEPT ![e] = "ACTIVE"]
        /\ UNCHANGED <<removed, told>> /\ ~removed[e]
        /\ address' = [address EXCEPT ![e] = a]
    BY <1>3 DEF Create, Goto, TypeInv, TenantsTypeOK, RemovedWereThere
  <2>2. stage'[r] = "audit" /\ doc'[r] = d /\ Current(e)' = "ACTIVE"
    BY <2>1 DEF Current, TypeInv, TenantsTypeOK
  <2>3. \A q \in Request \ {r} : stage'[q] = stage[q] /\ doc'[q] = doc[q]
    BY <2>1 DEF TypeInv, TenantsTypeOK
  <2>4. Pending(r, e)' /\ Target[doc'[r].op] = Current(e)'
    BY <2>2 DEF Pending
  <2>5. \A x \in Tenant \ {e} : /\ status'[x] = status[x]
                                 /\ removed'[x] = removed[x]
                                 /\ address'[x] = address[x]
    BY <2>1 DEF TypeInv, TenantsTypeOK
  <2>6. /\ \A x \in Tenant : ~Pending(r, x)
        /\ \A x \in Tenant \ {e} : ~Pending(r, x)'
    BY <2>1, <2>2 DEF Pending
  <2> QED
    BY <1>2, <2>1, <2>3, <2>4, <2>5, <2>6
<1>4. ASSUME NEW r \in Request, StatusWrite(r), NEW t \in Tenant
      PROVE  AgreeOn(t)'
  <2>0. PICK e \in Tenant : e = doc[r].tenant
    BY <1>4 DEF StatusWrite, TypeInv, HandlersHold, HoldsTenant, Doc
  <2>1. /\ stage[r] = "write" /\ doc[r].op \in {"lock", "unlock"}
        /\ status' = [status EXCEPT ![e] = Target[doc[r].op]]
        /\ WriteBack(r) /\ Change(r, e) /\ UNCHANGED <<removed, address, told>>
    BY <1>4, <2>0 DEF StatusWrite
  <2>2. \A q \in Request \ {r} : stage'[q] = stage[q] /\ doc'[q] = doc[q]
    BY <2>1, OthersStay DEF WriteBack
  <2>3. \A x \in Tenant \ {e} : status'[x] = status[x] /\ removed'[x] = removed[x]
    BY <2>1 DEF TypeInv, TenantsTypeOK
  <2>4. /\ \A x \in Tenant : ~Pending(r, x)
        /\ \A x \in Tenant \ {e} : ~Pending(r, x)'
    BY <2>0, <2>1 DEF WriteBack, End, Goto, Pending, TypeInv, TenantsTypeOK
  <2>5. CASE removed[e]
    <3>1. ~Pending(r, e)' /\ removed'[e]
      BY <2>0, <2>1, <2>5 DEF WriteBack, End, Pending, TypeInv, TenantsTypeOK
    <3> QED
      BY <1>2, <2>1, <2>2, <2>3, <2>4, <2>5, <3>1
  <2>6. CASE ~removed[e]
    <3>1. stage'[r] = "audit" /\ doc' = doc
      BY <2>0, <2>1, <2>6 DEF WriteBack, Goto, TypeInv, TenantsTypeOK
    <3>2. Pending(r, e)' /\ Target[doc'[r].op] = Current(e)'
      BY <2>0, <2>1, <2>6, <3>1 DEF Pending, Current, TypeInv, TenantsTypeOK
    <3> QED
      BY <1>2, <2>1, <2>2, <2>3, <2>4, <3>2
  <2> QED
    BY <2>5, <2>6
<1>5. ASSUME NEW r \in Request, RemoveWrite(r), NEW t \in Tenant
      PROVE  AgreeOn(t)'
  <2>0. PICK e \in Tenant : e = doc[r].tenant
    BY <1>5 DEF RemoveWrite, TypeInv, HandlersHold, HoldsTenant, Doc
  <2>1. /\ stage[r] = "write" /\ doc[r].op = "remove"
        /\ removed' = [removed EXCEPT ![e] = TRUE]
        /\ stage' = [stage EXCEPT ![r] = "audit"]
        /\ Change(r, e) /\ UNCHANGED <<status, address, doc, told>>
    BY <1>5, <2>0 DEF RemoveWrite, Goto
  <2>2. \A q \in Request \ {r} : stage'[q] = stage[q] /\ doc'[q] = doc[q]
    BY <2>1 DEF TypeInv, TenantsTypeOK
  <2>3. \A x \in Tenant \ {e} : status'[x] = status[x] /\ removed'[x] = removed[x]
    BY <2>1 DEF TypeInv, TenantsTypeOK
  <2>4. /\ \A x \in Tenant : ~Pending(r, x)
        /\ \A x \in Tenant \ {e} : ~Pending(r, x)'
    BY <2>0, <2>1 DEF Pending, TypeInv, TenantsTypeOK
  <2>5. Pending(r, e)' /\ Target[doc'[r].op] = Current(e)'
    BY <2>0, <2>1 DEF Pending, Current, TypeInv, TenantsTypeOK
  <2> QED
    BY <1>2, <2>1, <2>2, <2>3, <2>4, <2>5
<1>6. ASSUME NEW r \in Request, Announce(r), NEW t \in Tenant
      PROVE  AgreeOn(t)'
  <2>1. /\ stage[r] = "announce" /\ doc[r] \in Doc /\ End(r)
        /\ Publish(r) /\ Dispatch(r)
        /\ UNCHANGED <<status, removed, address, erp, crossed>>
    BY <1>6 DEF Announce, TypeInv, HandlersHold, HoldsTenant
  <2>2. \A q \in Request \ {r} : stage'[q] = stage[q] /\ doc'[q] = doc[q]
    BY <2>1, OthersStay
  <2>3. ~Pending(r, t)' /\ \A q \in Request \ {r} : Pending(q, t)' <=> Pending(q, t)
    BY <2>1, <2>2 DEF End, Pending, TypeInv, TenantsTypeOK
  <2>0. PICK v : v = HookOf(r)
    OBVIOUS
  <2>4. /\ v.to = doc[r].to /\ v.tenant = doc[r].tenant /\ v.op = doc[r].op
        /\ doc[r].to # NoErp => v \in Webhook
    BY <2>0, <2>1 DEF HookOf, Webhook, Doc
  <2>5. \A w \in Webhook : posted'[w] = IF doc[r].to # NoErp /\ w = v
                                        THEN posted[w] + 1 ELSE posted[w]
    BY <2>0, <2>1, <2>4 DEF Dispatch, TypeInv, TenantsTypeOK
  <2>6. CASE ~Pending(r, t)
    <3>1. board'[t] = board[t]
      BY <2>1, <2>6 DEF Publish, Pending, TypeInv, TenantsTypeOK, Doc
    <3>2. t \in untold' <=> t \in untold
      BY <2>1, <2>6 DEF Dispatch, Inform, Pending, Doc
    <3>3. \A w \in Webhook : OnItsWay(w, t)' <=> OnItsWay(w, t)
      BY <2>1, <2>4, <2>5, <2>6 DEF Pending, OnItsWay
    <3> QED
      BY <1>0, <2>1, <2>2, <2>3, <2>6, <3>1, <3>2, <3>3, AgreeKept
  <2>7. CASE Pending(r, t) /\ t \notin crossed
    <3>1. /\ doc[r].tenant = t /\ doc[r].op \in StatusOp
          /\ Target[doc[r].op] = Current(t)
          /\ \A q \in Request : ~Pending(q, t)'
      BY <1>0, <2>3, <2>7 DEF AgreeOn, Pending
    <3>2. Current(t)' = Current(t) /\ (Live(t)' <=> Live(t))
      BY <2>1 DEF Current, Live
    <3>3. Live(t) => board'[t] = status[t]
      BY <2>1, <3>1 DEF Publish, Current, Live, TypeInv, TenantsTypeOK
    <3>4. ASSUME t \notin untold'
          PROVE  /\ address[t] \in Erp
                 /\ OnItsWay(v, t)' /\ v \in Webhook
                 /\ \A w \in Webhook : OnItsWay(w, t)' => w = v
      <4>1. /\ doc[r].to # NoErp /\ doc[r].to = address[t]
            /\ ~InFlight(address[t], t)
        BY <2>1, <3>1, <3>4 DEF Dispatch, Inform
      <4>2. v \in Webhook /\ posted[v] \in Nat
        BY <2>4, <4>1 DEF TypeInv, TenantsTypeOK
      <4>3. OnItsWay(v, t)'
        <5>1. posted'[v] = posted[v] + 1 /\ posted'[v] > 0
          BY <2>5, <4>1, <4>2
        <5> QED
          BY <2>1, <2>4, <3>1, <4>1, <5>1 DEF OnItsWay
      <4>4. \A w \in Webhook : OnItsWay(w, t)' => w = v
        BY <2>1, <2>5, <4>1 DEF OnItsWay, InFlight
      <4>5. address[t] \in Erp
        BY <2>1, <4>1 DEF Doc
      <4> QED
        BY <4>2, <4>3, <4>4, <4>5
    <3> QED
      BY <2>1, <2>4, <3>1, <3>2, <3>3, <3>4 DEF AgreeOn
  <2>8. CASE t \in crossed
    BY <2>1, <2>8 DEF AgreeOn
  <2> QED
    BY <2>6, <2>7, <2>8
<1>7. ASSUME NEW r \in Request, Fail(r), NEW t \in Tenant
      PROVE  AgreeOn(t)'
  <2>1. End(r) /\ UNCHANGED <<table, told>>
    BY <1>7 DEF Fail
  <2>2. \A q \in Request \ {r} : stage'[q] = stage[q] /\ doc'[q] = doc[q]
    BY <2>1, OthersStay
  <2>3. ~Pending(r, t)' /\ \A q \in Request \ {r} : Pending(q, t)' <=> Pending(q, t)
    BY <2>1, <2>2 DEF End, Pending, TypeInv, TenantsTypeOK
  <2>4. CASE Pending(r, t)
    BY <1>7, <2>4 DEF Fail, Pending, AgreeOn
  <2>5. CASE ~Pending(r, t)
    <3>1. t \in crossed => t \in crossed'
      BY <1>7 DEF Fail
    <3> QED
      BY <1>0, <2>1, <2>2, <2>3, <2>5, <3>1, AgreeKept DEF OnItsWay
  <2> QED
    BY <2>4, <2>5
<1>8. ASSUME NEW v \in Webhook, Deliver(v), NEW t \in Tenant
      PROVE  AgreeOn(t)'
  <2>1. /\ posted[v] > 0 /\ posted' = [posted EXCEPT ![v] = @ - 1]
        /\ UNCHANGED <<table, handlers, board, untold, crossed>>
        /\ erp' = IF v.op \in StatusOp
                  THEN [erp EXCEPT ![v.to][v.tenant] = Target[v.op]] ELSE erp
    BY <1>8 DEF Deliver
  <2>2. \A r \in Request : Pending(r, t)' <=> Pending(r, t)
    BY <2>1 DEF Pending
  <2>3. Current(t)' = Current(t) /\ (Live(t)' <=> Live(t))
    BY <2>1 DEF Current, Live
  <2>4. \A w \in Webhook : OnItsWay(w, t)' => OnItsWay(w, t)
    BY <2>1 DEF OnItsWay, TypeInv, TenantsTypeOK
  <2>5. v.to \in Erp /\ v.tenant \in Tenant
    BY DEF Webhook
  <2>6. CASE OnItsWay(v, t) /\ address[t] \in Erp
    <3>1. erp'[address[t]][t] = Target[v.op]
      BY <2>1, <2>5, <2>6 DEF OnItsWay, TypeInv, TenantsTypeOK
    <3> QED
      BY <1>0, <2>1, <2>2, <2>3, <2>4, <2>6, <3>1 DEF AgreeOn
  <2>7. CASE ~OnItsWay(v, t) /\ address[t] \in Erp
    <3>1. erp'[address[t]][t] = erp[address[t]][t]
      BY <2>1, <2>5, <2>7 DEF OnItsWay, TypeInv, TenantsTypeOK
    <3>2. \A w \in Webhook : OnItsWay(w, t)' <=> OnItsWay(w, t)
      BY <2>1, <2>7 DEF OnItsWay, TypeInv, TenantsTypeOK
    <3> QED
      BY <1>0, <2>1, <2>2, <2>3, <3>1, <3>2 DEF AgreeOn
  <2>8. CASE address[t] \notin Erp
    BY <1>0, <2>1, <2>2, <2>3, <2>8 DEF AgreeOn
  <2> QED
    BY <2>6, <2>7, <2>8
<1>9. ASSUME NEW v \in Webhook, Lose(v), NEW t \in Tenant
      PROVE  AgreeOn(t)'
  <2>1. /\ posted[v] > 0 /\ posted' = [posted EXCEPT ![v] = @ - 1]
        /\ UNCHANGED <<table, handlers, board, erp, crossed>>
        /\ untold' = IF v.op \in StatusOp /\ v.to = address[v.tenant]
                     THEN untold \cup {v.tenant} ELSE untold
    BY <1>9 DEF Lose
  <2>2. \A r \in Request : Pending(r, t)' <=> Pending(r, t)
    BY <2>1 DEF Pending
  <2>3. Current(t)' = Current(t) /\ (Live(t)' <=> Live(t))
    BY <2>1 DEF Current, Live
  <2>4. CASE OnItsWay(v, t)
    <3>1. t \in untold'
      BY <2>1, <2>4 DEF OnItsWay
    <3> QED
      BY <1>0, <2>1, <2>2, <2>3, <3>1 DEF AgreeOn
  <2>5. CASE ~OnItsWay(v, t)
    <3>1. \A w \in Webhook : OnItsWay(w, t)' <=> OnItsWay(w, t)
      BY <2>1, <2>5 DEF OnItsWay, TypeInv, TenantsTypeOK
    <3> QED
      BY <1>0, <2>1, <2>2, <2>3, <3>1 DEF AgreeOn
  <2> QED
    BY <2>4, <2>5
<1>10. ASSUME \/ BeginSummary
              \/ \E s \in TenantStatus : Count(s)
              \/ UNCHANGED tenantsVars
       PROVE  AgreeInv'
  BY <1>10 DEF BeginSummary, Count, tenantsVars, AgreeInv, AgreeOn, Pending,
               Current, Live, OnItsWay
<1> QED
  BY <1>1, <1>3, <1>4, <1>5, <1>6, <1>7, <1>8, <1>9, <1>10
  DEF TenantsNext, Handle, AgreeInv

LEMMA AgreeAlways == TenantsSpec => []AgreeInv
<1>1. TypeInv /\ AgreeInv /\ [TenantsNext]_tenantsVars => AgreeInv'
  BY AgreeNext
<1> QED
  BY <1>1, AgreeInit, TypeAlways, PTL DEF TenantsSpec

(* A dashboard that heard every event shows the statuses of the table,     *)
(* unless two changes of a tenant crossed or one failed to be announced.   *)
THEOREM BoardsCorrect == TenantsSpec => []BoardsAgree
BY AgreeAlways, TypeAlways, AgreeEnough, PTL

(* So does what the ERP at the address of each tenant was told last, unless *)
(* the address is missing or was changed since the status was, or the      *)
(* webhook was lost, went elsewhere or may be overtaken.                   *)
THEOREM ErpCorrect == TenantsSpec => []ErpAgrees
BY AgreeAlways, TypeAlways, AgreeEnough, PTL

-----------------------------------------------------------------------------
(* The dashboard's total                                                   *)

(* The live tenants whose status has been counted: what tally should be.   *)
Counted == {t \in Tenant : Live(t) /\ status[t] \notin toCount}

CountInv ==
    /\ tally <= Cardinality(Counted) + moves
    /\ Cardinality(Counted) <= tally + moves

LEMMA CountedFinite == IsFiniteSet(Counted) /\ Cardinality(Counted) \in Nat
BY FiniteAssumption, FS_Subset, FS_CardinalityType DEF Counted

LEMMA CountInit == TenantsInit => CountInv
<1> SUFFICES ASSUME TenantsInit PROVE CountInv
  OBVIOUS
<1>1. Counted = Registered
  BY TenantAssumption DEF TenantsInit, Counted, Live, Standing
<1>2. Cardinality(Registered) \in Nat
  BY TenantAssumption, FiniteAssumption, FS_Subset, FS_CardinalityType
<1> QED
  BY <1>1, <1>2 DEF TenantsInit, CountInv

(* Sets that differ in one element differ by one in size.                  *)
LEMMA AlmostSameSize ==
    ASSUME NEW A, NEW B, NEW x, IsFiniteSet(A), IsFiniteSet(B),
           A \ {x} = B \ {x}
    PROVE  /\ Cardinality(A) <= Cardinality(B) + 1
           /\ Cardinality(B) <= Cardinality(A) + 1
<1>1. /\ Cardinality(A) \in Nat /\ Cardinality(B) \in Nat
      /\ Cardinality(A \ {x}) \in {Cardinality(A), Cardinality(A) - 1}
      /\ Cardinality(B \ {x}) \in {Cardinality(B), Cardinality(B) - 1}
  BY FS_CardinalityType, FS_RemoveElement
<1> QED
  BY <1>1

LEMMA CountNext ==
    ASSUME TypeInv, CountInv, [TenantsNext]_tenantsVars, TypeInv'
    PROVE  CountInv'
<1> USE DEF table, told, summary, handlers
<1>1. ASSUME UNCHANGED <<status, removed, summary>>
      PROVE  CountInv'
  BY <1>1 DEF CountInv, Counted, Live
<1>2. ASSUME NEW t \in Tenant, moves' = moves + 1, UNCHANGED <<toCount, tally>>,
             \A e \in Tenant \ {t} : status'[e] = status[e] /\ removed'[e] = removed[e]
      PROVE  CountInv'
  <2>1. Counted' \ {t} = Counted \ {t}
    BY <1>2 DEF Counted, Live
  <2>2. IsFiniteSet(Counted') /\ Cardinality(Counted') \in Nat
    BY FiniteAssumption, FS_Subset, FS_CardinalityType DEF Counted
  <2>3. /\ Cardinality(Counted) <= Cardinality(Counted') + 1
        /\ Cardinality(Counted') <= Cardinality(Counted) + 1
    BY <2>1, <2>2, CountedFinite, AlmostSameSize
  <2> QED
    BY <1>2, <2>2, <2>3, CountedFinite DEF CountInv, TypeInv, TenantsTypeOK
<1>3. ASSUME NEW r \in Request,
             \/ \E t \in Tenant, a \in Address : Create(r, t, a)
             \/ StatusWrite(r) \/ RemoveWrite(r)
      PROVE  CountInv'
  <2>1. ASSUME NEW t \in Tenant, NEW a \in Address, Create(r, t, a)
        PROVE  CountInv'
    <3>1. /\ moves' = moves + 1 /\ UNCHANGED <<removed, toCount, tally>>
          /\ status' = [status EXCEPT ![t] = "ACTIVE"]
      BY <2>1 DEF Create, Change
    <3> QED
      BY <1>2, <3>1 DEF TypeInv, TenantsTypeOK
  <2>2. ASSUME StatusWrite(r) \/ RemoveWrite(r)
        PROVE  CountInv'
    <3>1. PICK t \in Tenant : t = doc[r].tenant
      BY <2>2 DEF StatusWrite, RemoveWrite, TypeInv, HandlersHold, HoldsTenant, Doc
    <3>2. moves' = moves + 1 /\ UNCHANGED <<toCount, tally>>
      BY <2>2 DEF StatusWrite, RemoveWrite, Change
    <3>3. \A e \in Tenant \ {t} : status'[e] = status[e] /\ removed'[e] = removed[e]
      BY <2>2, <3>1 DEF StatusWrite, RemoveWrite, TypeInv, TenantsTypeOK
    <3> QED
      BY <1>2, <3>2, <3>3
  <2> QED
    BY <1>3, <2>1, <2>2
<1>4. ASSUME NEW r \in Request,
             \/ \E t \in Tenant, op \in Op : Find(r, t, op)
             \/ \E a \in Address : UpdateWrite(r, a)
             \/ AuditWrite(r) \/ Announce(r) \/ Fail(r)
      PROVE  CountInv'
  BY <1>1, <1>4 DEF Find, UpdateWrite, AuditWrite, Announce, Fail
<1>5. CASE BeginSummary
  <2>1. Counted' = {} /\ tally' = 0 /\ moves' = 0
    BY <1>5 DEF BeginSummary, Counted, Live, TypeInv, TenantsTypeOK
  <2> QED
    BY <2>1, FS_EmptySet DEF CountInv
<1>6. ASSUME NEW s \in TenantStatus, Count(s)
      PROVE  CountInv'
  <2> DEFINE N == {t \in Tenant : Live(t) /\ status[t] = s}
  <2>1. /\ s \in toCount /\ toCount' = toCount \ {s}
        /\ tally' = tally + Cardinality(N)
        /\ UNCHANGED <<status, removed, moves>>
    BY <1>6 DEF Count, CountByStatus
  <2>2. IsFiniteSet(N) /\ Cardinality(N) \in Nat
    BY FiniteAssumption, FS_Subset, FS_CardinalityType
  <2>3. Counted' = Counted \cup N /\ Counted \cap N = {}
    BY <2>1 DEF Counted, Live
  <2> HIDE DEF N
  <2>4. Cardinality(Counted') = Cardinality(Counted) + Cardinality(N)
    <3>1. Cardinality(Counted \cap N) = 0
      BY <2>3, FS_EmptySet
    <3>2. Cardinality(Counted \cup N)
             = Cardinality(Counted) + Cardinality(N) - Cardinality(Counted \cap N)
      BY <2>2, CountedFinite, FS_Union
    <3> QED
      BY <2>2, <2>3, <3>1, <3>2, CountedFinite
  <2> QED
    BY <2>1, <2>2, <2>4, CountedFinite DEF CountInv, TypeInv, TenantsTypeOK
<1>7. ASSUME \/ \E w \in Webhook : Deliver(w) \/ Lose(w)
             \/ UNCHANGED tenantsVars
      PROVE  CountInv'
  BY <1>1, <1>7 DEF Deliver, Lose, tenantsVars
<1> QED
  BY <1>3, <1>4, <1>5, <1>6, <1>7 DEF TenantsNext, Handle

(* The summary's total is off by at most one for every change of a tenant  *)
(* since it began to count.                                                *)
THEOREM CountCorrect == TenantsSpec => []CountError
<1>1. TypeInv /\ CountInv /\ [TenantsNext]_tenantsVars /\ TypeInv' => CountInv'
  BY CountNext
<1>2. CountInv => CountError
  <2> SUFFICES ASSUME CountInv, toCount = {}
               PROVE  Counted = {t \in Tenant : Live(t)}
    BY DEF CountInv, CountError
  <2> QED
    BY DEF Counted
<1> QED
  BY <1>1, <1>2, CountInit, TypeAlways, PTL DEF TenantsSpec
=============================================================================
