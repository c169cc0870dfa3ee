----------------------- MODULE InvoiceServiceProofs -----------------------
(***************************************************************************)
(* Proofs about InvoiceService, for any finite table of invoices, any set  *)
(* of billing periods and any finite number of overlapping requests.       *)
(***************************************************************************)
EXTENDS InvoiceService, FiniteSetTheorems, TLAPS

-----------------------------------------------------------------------------
(* Types                                                                   *)

LEMMA NoNumberType == NoNumber \in InvoiceNumber
  BY DEF NoNumber, InvoiceNumber

LEMMA CountIsNat ==
  ASSUME NEW p
  PROVE  CountByBillingPeriod(p) \in Nat
  BY InvoiceAssumption, FS_Subset, FS_CardinalityType
  DEF CountByBillingPeriod, InPeriod

(* Adding one to a counter of an invoice keeps the counters' type. *)
LEMMA BumpType ==
  ASSUME NEW f \in [Invoice -> [AuditAction -> Nat]],
         NEW i \in Invoice, NEW a \in AuditAction
  PROVE  [f EXCEPT ![i][a] = @ + 1] \in [Invoice -> [AuditAction -> Nat]]
  OBVIOUS

LEMMA AuditOK ==
  ASSUME TableOK, TrailOK, NEW r \in Request, doc[r] \in Invoice,
         NEW a \in AuditAction, Audit(r, a)
  PROVE  TableOK' /\ TrailOK'
<1>1. [audits EXCEPT ![doc[r]][a] = @ + 1] \in [Invoice -> [AuditAction -> Nat]]
  BY BumpType DEF TrailOK
<1> QED
  BY <1>1 DEF Audit, TableOK, TrailOK, table, mail

LEMMA PublishOK ==
  ASSUME TableOK, TrailOK, NEW r \in Request, doc[r] \in Invoice,
         NEW a \in AuditAction, Publish(r, a)
  PROVE  TableOK' /\ TrailOK'
<1>1. [events EXCEPT ![doc[r]][a] = @ + 1] \in [Invoice -> [AuditAction -> Nat]]
  BY BumpType DEF TrailOK
<1> QED
  BY <1>1 DEF Publish, TableOK, TrailOK, table, mail

(* A handler that goes on with the invoice it holds. *)
LEMMA GotoOK ==
  ASSUME HandlersOK, NEW r \in Request,
         NEW stage \in Stage \ {"idle", "createInsert"},
         doc[r] \in Invoice, Goto(r, stage)
  PROVE  HandlersOK'
  BY DEF HandlersOK, Goto, At

(* A handler that ends. *)
LEMMA FinishOK ==
  ASSUME HandlersOK, NEW r \in Request, Finish(r)
  PROVE  HandlersOK'
  BY NoNumberType, InvoiceAssumption DEF HandlersOK, Finish, At, Stage

(* A handler that has read an open invoice. *)
LEMMA HoldOK ==
  ASSUME HandlersOK, NEW r \in Request, NEW i \in Invoice,
         NEW stage \in Stage \ {"idle", "createInsert"}, Hold(r, i, stage)
  PROVE  HandlersOK'
  BY DEF HandlersOK, Hold, At

(* Every stage after a read or an insert has its invoice. *)
LEMMA HoldsInvoice ==
  ASSUME HandlersOK, NEW r \in Request,
         NEW stage \in Stage \ {"idle", "createInsert"}, At(r, stage)
  PROVE  doc[r] \in Invoice
  BY DEF HandlersOK, At

(* What dashboards show keeps its type. *)
LEMMA FeedTypeStep ==
  ASSUME TypeOK, [Next]_vars
  PROVE  FeedOK'
<1> USE DEF TypeOK, FeedOK, trail, feed
<1>1. ASSUME NEW r \in Request, NEW a \in AuditAction, Publish(r, a)
      PROVE  FeedOK'
  <2>1. Result[a] \in InvoiceStatus
    BY DEF Result, AuditAction, InvoiceStatus
  <2> QED
    BY <1>1, <2>1 DEF Publish
<1>2. ASSUME NEW r \in Request, doc[r] \in Invoice, Cross(r, doc[r]), shown' = shown
      PROVE  FeedOK'
  BY <1>2 DEF Cross
<1>3. ASSUME NEW r \in Request,
             CreatePublish(r) \/ PayPublish(r) \/ CancelPublish(r)
      PROVE  FeedOK'
  BY <1>1, <1>3 DEF CreatePublish, PayPublish, CancelPublish, AuditAction
<1>4. ASSUME NEW r \in Request, PayUpdate(r) \/ CancelUpdate(r)
      PROVE  FeedOK'
  BY <1>2, <1>4 DEF PayUpdate, CancelUpdate, At, HandlersOK
<1>5. ASSUME NEW r \in Request, Abort(r)
      PROVE  FeedOK'
  BY <1>5 DEF Abort, Announcing, HandlersOK
<1>6. ASSUME UNCHANGED feed
      PROVE  FeedOK'
  BY <1>6
<1>7. ASSUME NEW r \in Request, Arrive(r)
      PROVE  FeedOK'
  BY <1>6, <1>7 DEF Arrive, CreateCount, PayFind, CancelFind, RemindFind
<1>8. ASSUME NEW r \in Request,
             \/ \E i \in Invoice : CreateInsert(r, i)
             \/ CreateDuplicate(r)
             \/ CreateAudit(r) \/ PayAudit(r) \/ CancelAudit(r)
             \/ MailTenant(r) \/ MailNotify(r) \/ MailEnqueue(r)
             \/ RemindTenant(r) \/ RemindEnqueue(r)
      PROVE  FeedOK'
  BY <1>6, <1>8
  DEF CreateInsert, CreateDuplicate, CreateAudit, PayAudit, CancelAudit, Audit,
      MailTenant, MailNotify, MailEnqueue, RemindTenant, RemindEnqueue
<1> QED
  BY <1>3, <1>4, <1>5, <1>6, <1>7, <1>8 DEF Next, Step, RemoveTenant, vars

LEMMA TypeInit == Init => TypeOK
<1> SUFFICES ASSUME Init PROVE TypeOK
  OBVIOUS
<1> USE DEF Init
<1>1. TableOK
  BY NoNumberType DEF TableOK, InvoiceStatus
<1>2. TrailOK /\ FeedOK
  BY DEF TrailOK, FeedOK, Zero, AuditAction
<1>3. HandlersOK
  BY NoNumberType, InvoiceAssumption DEF HandlersOK, Stage, At
<1> QED
  BY <1>1, <1>2, <1>3 DEF TypeOK

LEMMA TypeStep == TypeOK /\ [Next]_vars => TypeOK'
<1> SUFFICES ASSUME TypeOK, [Next]_vars PROVE TypeOK'
  OBVIOUS
<1>0. FeedOK'
  BY FeedTypeStep
<1> USE <1>0 DEF TypeOK, table, trail, mail, handlers
<1>1. CASE UNCHANGED vars
  BY <1>1 DEF vars, TableOK, TrailOK, HandlersOK, At
<1>2. CASE RemoveTenant
  BY <1>2 DEF RemoveTenant, TableOK, TrailOK, HandlersOK, At
<1>3. ASSUME NEW r \in Request, NEW p \in Period, CreateCount(r, p)
      PROVE  TypeOK'
  <2>1. [period |-> p, seq |-> CountByBillingPeriod(p) + 1] \in InvoiceNumber
    BY CountIsNat DEF InvoiceNumber
  <2>2. HandlersOK'
    BY <1>3, <2>1 DEF CreateCount, HandlersOK, At, Stage
  <2>3. TableOK' /\ TrailOK'
    BY <1>3 DEF CreateCount, TableOK, TrailOK
  <2> QED
    BY <2>2, <2>3
<1>4. ASSUME NEW r \in Request, NEW i \in Invoice,
             PayFind(r, i) \/ CancelFind(r, i) \/ RemindFind(r, i)
      PROVE  TypeOK'
  <2>1. HandlersOK'
    BY <1>4, HoldOK DEF PayFind, CancelFind, RemindFind, Stage
  <2>2. TableOK' /\ TrailOK'
    BY <1>4 DEF PayFind, CancelFind, RemindFind, TableOK, TrailOK
  <2> QED
    BY <2>1, <2>2
<1>5. ASSUME NEW r \in Request, NEW i \in Invoice, CreateInsert(r, i)
      PROVE  TypeOK'
  <2>1. HandlersOK'
    BY <1>5 DEF CreateInsert, HandlersOK, At, Stage
  <2>2. TableOK'
    BY <1>5 DEF CreateInsert, TableOK, HandlersOK, InvoiceStatus
  <2>3. TrailOK'
    <3>1. [effects EXCEPT ![i]["INVOICE_CREATED"] = @ + 1]
             \in [Invoice -> [AuditAction -> Nat]]
      BY BumpType DEF TrailOK, AuditAction
    <3> QED
      BY <1>5, <3>1 DEF CreateInsert, TrailOK
  <2> QED
    BY <2>1, <2>2, <2>3
<1>6. ASSUME NEW r \in Request, CreateDuplicate(r) \/ Abort(r)
      PROVE  TypeOK'
  <2>1. HandlersOK'
    BY <1>6, FinishOK DEF CreateDuplicate, Abort
  <2>2. TableOK' /\ TrailOK'
    BY <1>6 DEF CreateDuplicate, Abort, TableOK, TrailOK
  <2> QED
    BY <2>1, <2>2
<1>7. ASSUME NEW r \in Request, CreateAudit(r) \/ PayAudit(r) \/ CancelAudit(r)
      PROVE  TypeOK'
  <2>1. doc[r] \in Invoice
    BY <1>7, HoldsInvoice DEF CreateAudit, PayAudit, CancelAudit, Stage
  <2>2. HandlersOK'
    BY <1>7, <2>1, GotoOK DEF CreateAudit, PayAudit, CancelAudit, Stage
  <2>3. TableOK' /\ TrailOK'
    BY <1>7, <2>1, AuditOK DEF CreateAudit, PayAudit, CancelAudit, AuditAction
  <2> QED
    BY <2>2, <2>3
<1>8. ASSUME NEW r \in Request, CreatePublish(r) \/ CancelPublish(r)
      PROVE  TypeOK'
  <2>1. doc[r] \in Invoice
    BY <1>8, HoldsInvoice DEF CreatePublish, CancelPublish, Stage
  <2>2. HandlersOK'
    BY <1>8, <2>1, FinishOK DEF CreatePublish, CancelPublish, Stage
  <2>3. TableOK' /\ TrailOK'
    BY <1>8, <2>1, PublishOK DEF CreatePublish, CancelPublish, AuditAction
  <2> QED
    BY <2>2, <2>3
<1>9. ASSUME NEW r \in Request, PayPublish(r)
      PROVE  TypeOK'
  <2>1. doc[r] \in Invoice
    BY <1>9, HoldsInvoice DEF PayPublish, Stage
  <2>2. HandlersOK'
    BY <1>9, <2>1, GotoOK DEF PayPublish, Stage
  <2>3. TableOK' /\ TrailOK'
    BY <1>9, <2>1, PublishOK DEF PayPublish, AuditAction
  <2> QED
    BY <2>2, <2>3
<1>10. ASSUME NEW r \in Request, PayUpdate(r)
      PROVE  TypeOK'
  <2>1. doc[r] \in Invoice
    BY <1>10, HoldsInvoice DEF PayUpdate, Stage
  <2>2. HandlersOK'
    BY <1>10, <2>1, GotoOK DEF PayUpdate, Stage
  <2>3. TableOK' /\ TrailOK'
    <3>1. [effects EXCEPT ![doc[r]]["INVOICE_PAID"] = @ + 1]
             \in [Invoice -> [AuditAction -> Nat]]
      BY <2>1, BumpType DEF TrailOK, AuditAction
    <3> QED
      BY <1>10, <3>1 DEF PayUpdate, TableOK, TrailOK, InvoiceStatus
  <2> QED
    BY <2>2, <2>3
<1>11. ASSUME NEW r \in Request, CancelUpdate(r)
      PROVE  TypeOK'
  <2>1. doc[r] \in Invoice
    BY <1>11, HoldsInvoice DEF CancelUpdate, Stage
  <2>2. HandlersOK'
    BY <1>11, <2>1, GotoOK DEF CancelUpdate, Stage
  <2>3. TableOK' /\ TrailOK'
    <3>1. [effects EXCEPT ![doc[r]]["INVOICE_CANCELLED"] = @ + 1]
             \in [Invoice -> [AuditAction -> Nat]]
      BY <2>1, BumpType DEF TrailOK, AuditAction
    <3> QED
      BY <1>11, <3>1 DEF CancelUpdate, TableOK, TrailOK, InvoiceStatus
  <2> QED
    BY <2>2, <2>3
<1>12. ASSUME NEW r \in Request, MailTenant(r) \/ RemindTenant(r)
      PROVE  TypeOK'
  <2>1. doc[r] \in Invoice
    BY <1>12, HoldsInvoice DEF MailTenant, RemindTenant, Stage
  <2>2. HandlersOK'
    BY <1>12, <2>1, GotoOK, FinishOK DEF MailTenant, RemindTenant, Stage
  <2>3. TableOK' /\ TrailOK'
    BY <1>12, <2>1 DEF MailTenant, RemindTenant, TableOK, TrailOK
  <2> QED
    BY <2>2, <2>3
<1>13. ASSUME NEW r \in Request, MailNotify(r)
      PROVE  TypeOK'
  <2>1. doc[r] \in Invoice
    BY <1>13, HoldsInvoice DEF MailNotify, Stage
  <2>2. HandlersOK'
    BY <1>13, <2>1, GotoOK DEF MailNotify, Stage
  <2>3. TableOK' /\ TrailOK'
    BY <1>13, <2>1 DEF MailNotify, TableOK, TrailOK
  <2> QED
    BY <2>2, <2>3
<1>14. ASSUME NEW r \in Request, MailEnqueue(r)
      PROVE  TypeOK'
  <2>1. doc[r] \in Invoice
    BY <1>14, HoldsInvoice DEF MailEnqueue, Stage
  <2>2. HandlersOK'
    BY <1>14, <2>1, FinishOK DEF MailEnqueue, Stage
  <2>3. TableOK' /\ TrailOK'
    BY <1>14, <2>1 DEF MailEnqueue, TableOK, TrailOK
  <2> QED
    BY <2>2, <2>3
<1>15. ASSUME NEW r \in Request, RemindEnqueue(r)
      PROVE  TypeOK'
  <2>1. doc[r] \in Invoice
    BY <1>15, HoldsInvoice DEF RemindEnqueue, Stage
  <2>2. HandlersOK'
    BY <1>15, <2>1, FinishOK DEF RemindEnqueue, Stage
  <2>3. TableOK' /\ TrailOK'
    BY <1>15, <2>1 DEF RemindEnqueue, TableOK, TrailOK
  <2> QED
    BY <2>2, <2>3
<1> QED
  BY <1>1, <1>2, <1>3, <1>4, <1>5, <1>6, <1>7, <1>8, <1>9, <1>10, <1>11, <1>12, <1>13, <1>14, <1>15 DEF Next, Arrive, Step

(* Every variable keeps its type, and every handler holds what its stage   *)
(* needs, through any interleaving of requests.                            *)
THEOREM TypeCorrect == Spec => []TypeOK
  BY TypeInit, TypeStep, PTL DEF Spec

-----------------------------------------------------------------------------
(* Invoice numbers                                                         *)

LEMMA InPeriodFinite ==
  ASSUME NEW p
  PROVE  IsFiniteSet(InPeriod(p))
  BY InvoiceAssumption, FS_Subset DEF InPeriod

(* A step that writes no number, takes no new one and creates no row.      *)
LEMMA NumberingKept ==
  ASSUME TypeOK, NumberingInv, UNCHANGED number,
         \A i \in Invoice : status'[i] = "absent" => status[i] = "absent",
         \A r \in Request :
             At(r, "createInsert")' => At(r, "createInsert") /\ num'[r] = num[r]
  PROVE  NumberingInv'
<1>1. \A p : InPeriod(p)' = InPeriod(p)
  BY DEF InPeriod
<1>2. \A p : CountByBillingPeriod(p)' = CountByBillingPeriod(p)
  BY <1>1 DEF CountByBillingPeriod
<1>3. GaplessNumbering'
  BY <1>1, <1>2 DEF NumberingInv, GaplessNumbering
<1>4. PendingNumbers'
  BY <1>2 DEF NumberingInv, PendingNumbers
<1>5. AbsentUnnumbered'
  BY DEF NumberingInv, AbsentUnnumbered
<1> QED
  BY <1>3, <1>4, <1>5 DEF NumberingInv

(* The UNIQUE constraint lets through only the number after the last.      *)
LEMMA FreeIsNext ==
  ASSUME TypeOK, NumberingInv, NEW r \in Request,
         At(r, "createInsert"), NumberFree(num[r])
  PROVE  /\ num[r].period \in Period
         /\ num[r].seq = CountByBillingPeriod(num[r].period) + 1
<1> DEFINE p == num[r].period
           n == num[r].seq
           c == CountByBillingPeriod(p)
<1>1. p \in Period /\ c \in Nat /\ n \in 1 .. c + 1
  BY CountIsNat DEF TypeOK, HandlersOK, NumberingInv, PendingNumbers
<1>2. n \notin 1 .. c
  <2>1. SUFFICES ASSUME n \in 1 .. c PROVE FALSE
    OBVIOUS
  <2>2. PICK j \in InPeriod(p) : number[j].seq = n
    BY <1>1, <2>1 DEF NumberingInv, GaplessNumbering
  <2>3. /\ number[j] \in InvoiceNumber
        /\ num[r] \in InvoiceNumber
        /\ number[j].period = p
        /\ j \in Invoice
    BY DEF TypeOK, TableOK, HandlersOK, InPeriod
  <2>4. number[j] = num[r]
    BY <2>2, <2>3 DEF InvoiceNumber
  <2> QED
    BY <2>3, <2>4 DEF NumberFree
<1> QED
  BY <1>1, <1>2

(* Inserting a row adds it to its own period and to no other.              *)
LEMMA InsertCounts ==
  ASSUME TypeOK, NumberingInv, NEW r \in Request, NEW i \in Invoice,
         CreateInsert(r, i), NEW q \in Period, num[r].period = q
  PROVE  /\ i \notin InPeriod(q)
         /\ InPeriod(q)' = InPeriod(q) \cup {i}
         /\ CountByBillingPeriod(q)' = CountByBillingPeriod(q) + 1
         /\ \A p \in Period \ {q} :
               /\ i \notin InPeriod(p)
               /\ InPeriod(p)' = InPeriod(p)
               /\ CountByBillingPeriod(p)' = CountByBillingPeriod(p)
<1>1. number[i].period = NoPeriod
  BY DEF CreateInsert, NumberingInv, AbsentUnnumbered, NoNumber
<1>2. /\ i \notin InPeriod(q)
      /\ InPeriod(q)' = InPeriod(q) \cup {i}
  BY <1>1, PeriodAssumption DEF CreateInsert, InPeriod, TypeOK, TableOK
<1>3. CountByBillingPeriod(q)' = CountByBillingPeriod(q) + 1
  BY <1>2, InPeriodFinite, FS_AddElement DEF CountByBillingPeriod
<1>4. \A p \in Period \ {q} : i \notin InPeriod(p) /\ InPeriod(p)' = InPeriod(p)
  BY <1>1, PeriodAssumption DEF CreateInsert, InPeriod, TypeOK, TableOK
<1> QED
  BY <1>2, <1>3, <1>4 DEF CountByBillingPeriod

LEMMA NumberingInsert ==
  ASSUME TypeOK, NumberingInv, NEW r \in Request, NEW i \in Invoice,
         CreateInsert(r, i)
  PROVE  NumberingInv'
<1>1. PICK q \in Period : q = num[r].period
  BY FreeIsNext DEF CreateInsert
<1>2. /\ num[r].seq = CountByBillingPeriod(q) + 1
      /\ CountByBillingPeriod(q) \in Nat
  BY <1>1, FreeIsNext, CountIsNat DEF CreateInsert
<1>3. /\ i \notin InPeriod(q)
      /\ InPeriod(q)' = InPeriod(q) \cup {i}
      /\ CountByBillingPeriod(q)' = CountByBillingPeriod(q) + 1
      /\ \A p \in Period \ {q} :
            /\ i \notin InPeriod(p)
            /\ InPeriod(p)' = InPeriod(p)
            /\ CountByBillingPeriod(p)' = CountByBillingPeriod(p)
  BY <1>1, InsertCounts
<1>4. /\ number'[i] = num[r]
      /\ \A j \in Invoice \ {i} : number'[j] = number[j]
  BY DEF CreateInsert, TypeOK, TableOK
<1>5. ASSUME NEW p \in Period
      PROVE  {number'[j].seq : j \in InPeriod(p)'} = 1 .. CountByBillingPeriod(p)'
  <2>1. \A j \in InPeriod(p) : j \in Invoice \ {i}
    BY <1>3 DEF InPeriod
  <2>2. {number'[j].seq : j \in InPeriod(p)} = {number[j].seq : j \in InPeriod(p)}
    BY <1>4, <2>1
  <2>3. {number[j].seq : j \in InPeriod(p)} = 1 .. CountByBillingPeriod(p)
    BY DEF NumberingInv, GaplessNumbering
  <2>4. CASE p = q
    <3>1. {number'[j].seq : j \in InPeriod(p)'}
            = {number'[j].seq : j \in InPeriod(p)} \cup {number'[i].seq}
      BY <1>3, <2>4
    <3>2. (1 .. CountByBillingPeriod(q)) \cup {CountByBillingPeriod(q) + 1}
            = 1 .. CountByBillingPeriod(q) + 1
      BY <1>2
    <3> QED
      BY <1>2, <1>3, <1>4, <2>2, <2>3, <2>4, <3>1, <3>2
  <2>5. CASE p # q
    BY <1>3, <2>2, <2>3, <2>5
  <2> QED
    BY <2>4, <2>5
<1>6. GaplessNumbering'
  BY <1>5 DEF GaplessNumbering
<1>7. PendingNumbers'
  <2>1. ASSUME NEW s \in Request, At(s, "createInsert")'
        PROVE  num'[s].seq \in 1 .. CountByBillingPeriod(num[s].period)' + 1
    <3>1. s # r /\ At(s, "createInsert") /\ num'[s] = num[s]
      BY <2>1 DEF CreateInsert, At, TypeOK, HandlersOK
    <3>2. PICK p \in Period : p = num[s].period
      BY <3>1 DEF TypeOK, HandlersOK
    <3>3. num[s].seq \in 1 .. CountByBillingPeriod(p) + 1
      BY <3>1, <3>2 DEF NumberingInv, PendingNumbers
    <3>4. CountByBillingPeriod(p) \in Nat
      BY CountIsNat
    <3>5. num[s].seq \in 1 .. CountByBillingPeriod(p)' + 1
      BY <1>2, <1>3, <3>3, <3>4
    <3>6. CountByBillingPeriod(num[s].period)' = CountByBillingPeriod(p)'
      BY <3>1, <3>2 DEF CountByBillingPeriod, InPeriod
    <3> QED
      BY <3>1, <3>5, <3>6
  <2> QED
    BY <2>1 DEF PendingNumbers
<1>8. AbsentUnnumbered'
  BY <1>4 DEF CreateInsert, NumberingInv, AbsentUnnumbered, TypeOK, TableOK
<1> QED
  BY <1>6, <1>7, <1>8 DEF NumberingInv

LEMMA NumberingStep == TypeOK /\ NumberingInv /\ [Next]_vars => NumberingInv'
<1> SUFFICES ASSUME TypeOK, NumberingInv, [Next]_vars PROVE NumberingInv'
  OBVIOUS
<1>1. CASE UNCHANGED vars
  BY <1>1, NumberingKept DEF vars, table, handlers, At
<1>2. CASE RemoveTenant
  BY <1>2, NumberingKept DEF RemoveTenant, table, handlers, At
<1>3. ASSUME NEW r \in Request, NEW p \in Period, CreateCount(r, p)
      PROVE  NumberingInv'
  <2>1. UNCHANGED <<number, status>>
    BY <1>3 DEF CreateCount, table
  <2>2. \A q : InPeriod(q)' = InPeriod(q)
    BY <2>1 DEF InPeriod
  <2>3. \A q : CountByBillingPeriod(q)' = CountByBillingPeriod(q)
    BY <2>2 DEF CountByBillingPeriod
  <2>4. PendingNumbers'
    BY <1>3, <2>3, CountIsNat
    DEF CreateCount, PendingNumbers, NumberingInv, TypeOK, HandlersOK, At
  <2> QED
    BY <2>1, <2>2, <2>3, <2>4 DEF NumberingInv, GaplessNumbering, AbsentUnnumbered
<1>4. ASSUME NEW r \in Request, NEW i \in Invoice, CreateInsert(r, i)
      PROVE  NumberingInv'
  BY <1>4, NumberingInsert
<1>5. ASSUME NEW r \in Request, NEW i \in Invoice,
             PayFind(r, i) \/ CancelFind(r, i) \/ RemindFind(r, i)
      PROVE  NumberingInv'
  BY <1>5, NumberingKept
  DEF PayFind, CancelFind, RemindFind, Hold, table, At, TypeOK, HandlersOK
<1>6. ASSUME NEW r \in Request,
             \/ CreateDuplicate(r) \/ Abort(r)
             \/ CreateAudit(r) \/ CreatePublish(r)
             \/ PayAudit(r) \/ PayPublish(r)
             \/ MailTenant(r) \/ MailNotify(r) \/ MailEnqueue(r)
             \/ CancelAudit(r) \/ CancelPublish(r)
             \/ RemindTenant(r) \/ RemindEnqueue(r)
      PROVE  NumberingInv'
  <2>1. UNCHANGED table
    BY <1>6 DEF CreateDuplicate, Abort, CreateAudit, CreatePublish, PayAudit,
      PayPublish, MailTenant, MailNotify, MailEnqueue, CancelAudit,
      CancelPublish, RemindTenant, RemindEnqueue, Audit, Publish
  <2>2. PICK stage \in Stage \ {"createInsert"} : Goto(r, stage) \/ Finish(r)
    BY <1>6 DEF CreateDuplicate, Abort, CreateAudit, CreatePublish, PayAudit,
      PayPublish, MailTenant, MailNotify, MailEnqueue, CancelAudit,
      CancelPublish, RemindTenant, RemindEnqueue, Stage
  <2>3. \A s \in Request :
          At(s, "createInsert")' => At(s, "createInsert") /\ num'[s] = num[s]
    BY <2>2 DEF Goto, Finish, At, TypeOK, HandlersOK
  <2> QED
    BY <2>1, <2>3, NumberingKept DEF table
<1>7. ASSUME NEW r \in Request, PayUpdate(r) \/ CancelUpdate(r)
      PROVE  NumberingInv'
  BY <1>7, NumberingKept
  DEF PayUpdate, CancelUpdate, Goto, At, TypeOK, TableOK, HandlersOK
<1> QED
  BY <1>1, <1>2, <1>3, <1>4, <1>5, <1>6, <1>7 DEF Next, Arrive, Step

LEMMA NumberingInit == Init => NumberingInv
<1> SUFFICES ASSUME Init PROVE NumberingInv
  OBVIOUS
<1>1. ASSUME NEW p \in Period
      PROVE  InPeriod(p) = {} /\ CountByBillingPeriod(p) = 0
  <2>1. InPeriod(p) = {}
    BY PeriodAssumption DEF Init, InPeriod, NoNumber
  <2> QED
    BY <2>1, FS_EmptySet DEF CountByBillingPeriod
<1> QED
  BY <1>1 DEF Init, NumberingInv, GaplessNumbering, PendingNumbers,
              AbsentUnnumbered, At

(* However many requests create invoices of a period at the same time, and *)
(* wherever they fail, the numbers of the period are 1 to n without a gap. *)
THEOREM NumberingCorrect == Spec => []GaplessNumbering
<1>1. Init => TypeOK /\ NumberingInv
  BY TypeInit, NumberingInit
<1>2. (TypeOK /\ NumberingInv) /\ [Next]_vars => (TypeOK /\ NumberingInv)'
  BY TypeStep, NumberingStep
<1>3. NumberingInv => GaplessNumbering
  BY DEF NumberingInv
<1> QED
  BY <1>1, <1>2, <1>3, PTL DEF Spec

-----------------------------------------------------------------------------
(* Settlements                                                             *)

LEMMA SettlersFinite ==
  ASSUME NEW i
  PROVE  /\ IsFiniteSet(Settlers(i))
         /\ Cardinality(Settlers(i)) \in Nat
         /\ Cardinality(Settlers(i)) <= Cardinality(Request)
         /\ Cardinality(Request) \in Nat
  BY RequestAssumption, FS_Subset, FS_CardinalityType DEF Settlers

(* A step that settles nothing and lets no request at an invoice that is   *)
(* settled.                                                                *)
LEMMA SettlementKept ==
  ASSUME SettlementInv, TypeOK,
         \A i \in Invoice :
            /\ Settlements(i)' = Settlements(i)
            /\ (status[i] = "absent" \/ Open(i))
                   <=> (status'[i] = "absent" \/ Open(i)')
            /\ status'[i] \in {"PAID", "CANCELLED"} =>
                  /\ status[i] \in {"PAID", "CANCELLED"}
                  /\ Settlers(i)' \subseteq Settlers(i)
  PROVE  SettlementInv'
<1> SUFFICES ASSUME NEW i \in Invoice
             PROVE  /\ (status'[i] = "absent" \/ Open(i)') => Settlements(i)' = 0
                    /\ status'[i] \in {"PAID", "CANCELLED"} =>
                          Settlements(i)' + Cardinality(Settlers(i)')
                              <= Cardinality(Request)
  BY DEF SettlementInv
<1>1. (status'[i] = "absent" \/ Open(i)') => Settlements(i)' = 0
  BY DEF SettlementInv
<1>2. ASSUME status'[i] \in {"PAID", "CANCELLED"}
      PROVE  Settlements(i)' + Cardinality(Settlers(i)') <= Cardinality(Request)
  <2>1. Settlements(i) + Cardinality(Settlers(i)) <= Cardinality(Request)
    BY <1>2 DEF SettlementInv
  <2>2. /\ Cardinality(Settlers(i)') \in Nat
        /\ Cardinality(Settlers(i)') <= Cardinality(Settlers(i))
    BY <1>2, SettlersFinite, FS_Subset, FS_CardinalityType
  <2>3. Settlements(i) \in Nat
    BY DEF Settlements, TypeOK, TrailOK, AuditAction
  <2> QED
    BY <1>2, <2>1, <2>2, <2>3, SettlersFinite
<1> QED
  BY <1>1, <1>2

(* The step that settles an invoice uses up one of its settlers.           *)
LEMMA SettlementUpdate ==
  ASSUME SettlementInv, TypeOK, NEW r \in Request,
         PayUpdate(r) \/ CancelUpdate(r)
  PROVE  SettlementInv'
<1>1. PICK d \in Invoice : d = doc[r] /\ r \in Settlers(d)
  BY HoldsInvoice DEF PayUpdate, CancelUpdate, TypeOK, Stage, Settlers, At
<1>2. /\ status'[d] \in {"PAID", "CANCELLED"}
      /\ Settlements(d)' = Settlements(d) + 1
      /\ Settlements(d) \in Nat
  <2>1. /\ status \in [Invoice -> InvoiceStatus \cup {"absent"}]
        /\ effects \in [Invoice -> [AuditAction -> Nat]]
    BY DEF TypeOK, TableOK, TrailOK
  <2>2. CASE PayUpdate(r)
    BY <1>1, <2>1, <2>2 DEF PayUpdate, Settlements, AuditAction
  <2>3. CASE CancelUpdate(r)
    BY <1>1, <2>1, <2>3 DEF CancelUpdate, Settlements, AuditAction
  <2> QED
    BY <2>2, <2>3
<1>3. /\ Settlers(d)' = Settlers(d) \ {r}
      /\ \A i \in Invoice \ {d} : Settlers(i)' = Settlers(i)
  BY <1>1 DEF PayUpdate, CancelUpdate, Settlers, Goto, TypeOK, HandlersOK, At
<1>4. \A i \in Invoice \ {d} :
        status'[i] = status[i] /\ Settlements(i)' = Settlements(i)
  BY <1>1 DEF PayUpdate, CancelUpdate, Settlements, TypeOK, TableOK, TrailOK
<1>5. Settlements(d) + Cardinality(Settlers(d)) <= Cardinality(Request)
  <2>1. status[d] = "absent" \/ Open(d) \/ status[d] \in {"PAID", "CANCELLED"}
    BY DEF Open
  <2> QED
    BY <2>1, SettlersFinite DEF SettlementInv
<1>6. /\ Cardinality(Settlers(d)') = Cardinality(Settlers(d)) - 1
      /\ Cardinality(Settlers(d)) \in Nat
  BY <1>1, <1>3, SettlersFinite, FS_RemoveElement
<1>7. ASSUME NEW i \in Invoice
      PROVE  /\ (status'[i] = "absent" \/ Open(i)') => Settlements(i)' = 0
             /\ status'[i] \in {"PAID", "CANCELLED"} =>
                   Settlements(i)' + Cardinality(Settlers(i)')
                       <= Cardinality(Request)
  <2>1. CASE i = d
    <3>1. ~(status'[i] = "absent" \/ Open(i)')
      BY <1>2, <2>1 DEF Open
    <3>2. Settlements(d)' + Cardinality(Settlers(d)') <= Cardinality(Request)
      BY <1>2, <1>5, <1>6, SettlersFinite
    <3> QED
      BY <2>1, <3>1, <3>2
  <2>2. CASE i # d
    BY <1>3, <1>4, <2>2 DEF SettlementInv, Open
  <2> QED
    BY <2>1, <2>2
<1> QED
  BY <1>7 DEF SettlementInv

LEMMA SettlementStep == TypeOK /\ SettlementInv /\ [Next]_vars => SettlementInv'
<1> SUFFICES ASSUME TypeOK, SettlementInv, [Next]_vars PROVE SettlementInv'
  OBVIOUS
<1> USE SettlementKept DEF Settlements, Settlers, Open
<1>1. CASE UNCHANGED vars
  BY <1>1 DEF vars, table, trail, handlers
<1>2. CASE RemoveTenant
  BY <1>2 DEF RemoveTenant, table, trail, handlers
<1>3. ASSUME NEW r \in Request, NEW p \in Period, CreateCount(r, p)
      PROVE  SettlementInv'
  BY <1>3 DEF CreateCount, table, trail, TypeOK, HandlersOK
<1>4. ASSUME NEW r \in Request, NEW i \in Invoice, CreateInsert(r, i)
      PROVE  SettlementInv'
  BY <1>4 DEF CreateInsert, At, AuditAction, TypeOK, TableOK, TrailOK, HandlersOK
<1>5. ASSUME NEW r \in Request, NEW i \in Invoice,
             PayFind(r, i) \/ CancelFind(r, i) \/ RemindFind(r, i)
      PROVE  SettlementInv'
  BY <1>5 DEF PayFind, CancelFind, RemindFind, Hold, table, trail, TypeOK, HandlersOK
<1>6. ASSUME NEW r \in Request,
             \/ CreateDuplicate(r) \/ Abort(r)
             \/ CreateAudit(r) \/ CreatePublish(r)
             \/ PayAudit(r) \/ PayPublish(r)
             \/ MailTenant(r) \/ MailNotify(r) \/ MailEnqueue(r)
             \/ CancelAudit(r) \/ CancelPublish(r)
             \/ RemindTenant(r) \/ RemindEnqueue(r)
      PROVE  SettlementInv'
  <2>1. UNCHANGED <<status, effects>>
    BY <1>6 DEF CreateDuplicate, Abort, CreateAudit, CreatePublish, PayAudit,
      PayPublish, MailTenant, MailNotify, MailEnqueue, CancelAudit,
      CancelPublish, RemindTenant, RemindEnqueue, Audit, Publish, table, trail
  <2>2. PICK stage \in Stage \ {"payUpdate", "cancelUpdate"} :
           Goto(r, stage) \/ Finish(r)
    BY <1>6 DEF CreateDuplicate, Abort, CreateAudit, CreatePublish, PayAudit,
      PayPublish, MailTenant, MailNotify, MailEnqueue, CancelAudit,
      CancelPublish, RemindTenant, RemindEnqueue, Stage
  <2>3. \A i \in Invoice : Settlers(i)' \subseteq Settlers(i)
    BY <2>2 DEF Goto, Finish, TypeOK, HandlersOK
  <2> QED
    BY <2>1, <2>3
<1>7. ASSUME NEW r \in Request, PayUpdate(r) \/ CancelUpdate(r)
      PROVE  SettlementInv'
  BY <1>7, SettlementUpdate
<1> QED
  BY <1>1, <1>2, <1>3, <1>4, <1>5, <1>6, <1>7 DEF Next, Arrive, Step

(* An invoice is never settled more often than requests can overlap.       *)
THEOREM SettlementCorrect == Spec => []SettlementBound
<1>1. Init => TypeOK /\ SettlementInv
  BY TypeInit DEF Init, SettlementInv, Settlements, Zero, AuditAction, Open
<1>2. (TypeOK /\ SettlementInv) /\ [Next]_vars => (TypeOK /\ SettlementInv)'
  BY TypeStep, SettlementStep
<1>3. TypeOK /\ SettlementInv => SettlementBound
  <2> SUFFICES ASSUME TypeOK, SettlementInv, NEW i \in Invoice
               PROVE  Settlements(i) <= Cardinality(Request)
    BY DEF SettlementBound
  <2>1. status[i] = "absent" \/ Open(i) \/ status[i] \in {"PAID", "CANCELLED"}
    BY DEF Open
  <2>2. Settlements(i) \in Nat
    BY DEF Settlements, TypeOK, TrailOK, AuditAction
  <2> QED
    BY <2>1, <2>2, SettlersFinite DEF SettlementInv
<1> QED
  BY <1>1, <1>2, <1>3, PTL DEF Spec
-----------------------------------------------------------------------------
(* Refinement of the ledger                                                *)

LEMMA RowsStayStep == TypeOK /\ RowsStay /\ [Next]_vars => RowsStay'
<1> SUFFICES ASSUME TypeOK, RowsStay, [Next]_vars PROVE RowsStay'
  OBVIOUS
<1> USE DEF RowsStay, TypeOK, TableOK, HandlersOK
<1>1. CASE UNCHANGED vars
  BY <1>1 DEF vars, table, handlers
<1>2. CASE RemoveTenant
  BY <1>2 DEF RemoveTenant, table, handlers
<1>3. ASSUME NEW r \in Request, NEW p \in Period, CreateCount(r, p)
      PROVE  RowsStay'
  BY <1>3 DEF CreateCount, table
<1>4. ASSUME NEW r \in Request, NEW i \in Invoice, CreateInsert(r, i)
      PROVE  RowsStay'
  BY <1>4 DEF CreateInsert
<1>5. ASSUME NEW r \in Request, NEW i \in Invoice,
             PayFind(r, i) \/ CancelFind(r, i) \/ RemindFind(r, i)
      PROVE  RowsStay'
  BY <1>5 DEF PayFind, CancelFind, RemindFind, Hold, table, Open
<1>6. ASSUME NEW r \in Request,
             \/ CreateDuplicate(r) \/ Abort(r)
             \/ CreateAudit(r) \/ CreatePublish(r)
             \/ PayAudit(r) \/ PayPublish(r)
             \/ MailTenant(r) \/ MailNotify(r) \/ MailEnqueue(r)
             \/ CancelAudit(r) \/ CancelPublish(r)
             \/ RemindTenant(r) \/ RemindEnqueue(r)
      PROVE  RowsStay'
  <2>1. UNCHANGED status
    BY <1>6 DEF CreateDuplicate, Abort, CreateAudit, CreatePublish, PayAudit,
      PayPublish, MailTenant, MailNotify, MailEnqueue, CancelAudit,
      CancelPublish, RemindTenant, RemindEnqueue, Audit, Publish, table
  <2>2. UNCHANGED doc \/ Finish(r)
    BY <1>6 DEF CreateDuplicate, Abort, CreateAudit, CreatePublish, PayAudit,
      PayPublish, MailTenant, MailNotify, MailEnqueue, CancelAudit,
      CancelPublish, RemindTenant, RemindEnqueue, Goto
  <2> QED
    BY <2>1, <2>2, InvoiceAssumption DEF Finish
<1>7. ASSUME NEW r \in Request, PayUpdate(r) \/ CancelUpdate(r)
      PROVE  RowsStay'
  BY <1>7 DEF PayUpdate, CancelUpdate, Goto
<1> QED
  BY <1>1, <1>2, <1>3, <1>4, <1>5, <1>6, <1>7 DEF Next, Arrive, Step

(* The counter of the abstract ledger, as the refinement mapping has it.   *)
Last == [p \in Period |-> CountByBillingPeriod(p)]

Issued(i, p) ==
    /\ status[i] = "absent"
    /\ status' = [status EXCEPT ![i] = "PENDING"]
    /\ number' = [number EXCEPT ![i] = [period |-> p, seq |-> Last[p] + 1]]
    /\ Last' = [Last EXCEPT ![p] = @ + 1]

SettledBy(r, s) ==
    /\ pc[r] \in {"payUpdate", "cancelUpdate"}
    /\ doc[r] \in Invoice
    /\ status' = [status EXCEPT ![doc[r]] = s]
    /\ UNCHANGED number

LEMMA LastKept ==
  ASSUME UNCHANGED number
  PROVE  UNCHANGED Last
<1>1. \A p : InPeriod(p)' = InPeriod(p)
  BY DEF InPeriod
<1> QED
  BY <1>1 DEF Last, CountByBillingPeriod

LEMMA InsertIssues ==
  ASSUME TypeOK, NumberingInv, NEW r \in Request, NEW i \in Invoice,
         CreateInsert(r, i)
  PROVE  \E p \in Period : Issued(i, p)
<1>1. PICK q \in Period : q = num[r].period
  BY FreeIsNext DEF CreateInsert
<1>2. num[r] = [period |-> q, seq |-> CountByBillingPeriod(q) + 1]
  BY <1>1, FreeIsNext DEF CreateInsert, TypeOK, HandlersOK, InvoiceNumber
<1>3. /\ CountByBillingPeriod(q)' = CountByBillingPeriod(q) + 1
      /\ \A p \in Period \ {q} :
            CountByBillingPeriod(p)' = CountByBillingPeriod(p)
  BY <1>1, InsertCounts
<1>4. Last' = [Last EXCEPT ![q] = @ + 1]
  BY <1>3 DEF Last
<1> QED
  BY <1>2, <1>4 DEF CreateInsert, Issued, Last

(* What any step does to the table: nothing, issue an invoice with the     *)
(* next number, or settle the invoice that a handler holds.                *)
LEMMA StepKinds ==
  ASSUME TypeOK, NumberingInv, [Next]_vars
  PROVE  \/ UNCHANGED <<status, number>>
         \/ \E i \in Invoice, p \in Period : Issued(i, p)
         \/ \E r \in Request, s \in {"PAID", "CANCELLED"} : SettledBy(r, s)
<1>1. ASSUME NEW r \in Request, NEW i \in Invoice, CreateInsert(r, i)
      PROVE  \E j \in Invoice, p \in Period : Issued(j, p)
  BY <1>1, InsertIssues
<1>2. ASSUME NEW r \in Request, PayUpdate(r) \/ CancelUpdate(r)
      PROVE  \E t \in Request, s \in {"PAID", "CANCELLED"} : SettledBy(t, s)
  <2>1. doc[r] \in Invoice /\ pc[r] \in {"payUpdate", "cancelUpdate"}
    BY <1>2, HoldsInvoice DEF PayUpdate, CancelUpdate, TypeOK, Stage, At
  <2>2. SettledBy(r, "PAID") \/ SettledBy(r, "CANCELLED")
    BY <1>2, <2>1 DEF PayUpdate, CancelUpdate, SettledBy
  <2> QED
    BY <2>2
<1>3. ASSUME NEW r \in Request,
             \/ CreateDuplicate(r) \/ Abort(r)
             \/ CreateAudit(r) \/ CreatePublish(r)
             \/ PayAudit(r) \/ PayPublish(r)
             \/ MailTenant(r) \/ MailNotify(r) \/ MailEnqueue(r)
             \/ CancelAudit(r) \/ CancelPublish(r)
             \/ RemindTenant(r) \/ RemindEnqueue(r)
      PROVE  UNCHANGED <<status, number>>
  BY <1>3 DEF CreateDuplicate, Abort, CreateAudit, CreatePublish, PayAudit,
    PayPublish, MailTenant, MailNotify, MailEnqueue, CancelAudit,
    CancelPublish, RemindTenant, RemindEnqueue, Audit, Publish, table
<1>4. ASSUME NEW r \in Request, Arrive(r)
      PROVE  UNCHANGED <<status, number>>
  BY <1>4 DEF Arrive, CreateCount, PayFind, CancelFind, RemindFind, table
<1>5. CASE UNCHANGED vars \/ RemoveTenant
  BY <1>5 DEF vars, RemoveTenant, table
<1> QED
  BY <1>1, <1>2, <1>3, <1>4, <1>5 DEF Next, Step

LEMMA LastInit == Init => Last = [p \in Period |-> 0]
<1> SUFFICES ASSUME Init, NEW p \in Period PROVE CountByBillingPeriod(p) = 0
  BY DEF Last
<1>1. InPeriod(p) = {}
  BY PeriodAssumption DEF Init, InPeriod, NoNumber
<1> QED
  BY <1>1, FS_EmptySet DEF CountByBillingPeriod

LEMMA WeakStep ==
  ASSUME TypeOK, NumberingInv, RowsStay, [Next]_vars
  PROVE  [Weak!Next]_Weak!vars
<1>1. CASE UNCHANGED <<status, number>>
  BY <1>1, LastKept DEF Weak!vars, Last
<1>2. ASSUME NEW i \in Invoice, NEW p \in Period, Issued(i, p)
      PROVE  Weak!Issue(i, p)
  BY <1>2 DEF Issued, Last, Weak!Issue
<1>3. ASSUME NEW r \in Request, NEW s \in {"PAID", "CANCELLED"}, SettledBy(r, s)
      PROVE  Weak!Settle(doc[r], s) \/ Weak!Resettle(doc[r], s)
  <2>1. status[doc[r]] \in {"PENDING", "PAID", "CANCELLED"}
    BY <1>3 DEF SettledBy, RowsStay, TypeOK, TableOK, InvoiceStatus
  <2>2. UNCHANGED <<number, Last>>
    BY <1>3, LastKept DEF SettledBy
  <2> QED
    BY <1>3, <2>1, <2>2
    DEF SettledBy, Last, Weak!Settle, Weak!Resettle, Weak!Settled
<1>4. ASSUME NEW r \in Request, NEW s \in {"PAID", "CANCELLED"}, SettledBy(r, s)
      PROVE  Weak!Next
  BY <1>3, <1>4 DEF SettledBy, Weak!Next, Weak!Settled
<1> QED
  BY <1>1, <1>2, <1>4, StepKinds DEF Weak!Next

(* With any number of overlapping requests the invoice table is a ledger   *)
(* that numbers its invoices atomically and never reopens one.             *)
THEOREM WeakLedgerCorrect == Spec => ImplementsWeakLedger
<1>1. Init => TypeOK /\ NumberingInv /\ RowsStay /\ Weak!Init
  BY TypeInit, NumberingInit, LastInit, InvoiceAssumption
  DEF Init, RowsStay, Last, Weak!Init, NoNumber
<1>2. (TypeOK /\ NumberingInv /\ RowsStay) /\ [Next]_vars
        => (TypeOK /\ NumberingInv /\ RowsStay)'
  BY TypeStep, NumberingStep, RowsStayStep
<1>3. (TypeOK /\ NumberingInv /\ RowsStay) /\ [Next]_vars
        => [Weak!Next]_Weak!vars
  BY WeakStep
<1> QED
  BY <1>1, <1>2, <1>3, PTL DEF Spec, ImplementsWeakLedger, Weak!Spec
-----------------------------------------------------------------------------
(* One request at a time                                                   *)

LEMMA GuardsHoldStep ==
  ASSUME \A r, s \in Request : r = s,
         TypeOK, RowsStay, GuardsHold, [Next]_vars
  PROVE  GuardsHold'
<1> USE DEF GuardsHold, TypeOK, TableOK, HandlersOK, At
<1>1. CASE UNCHANGED vars \/ RemoveTenant
  BY <1>1 DEF vars, RemoveTenant, table, handlers
<1>2. ASSUME NEW r \in Request, NEW p \in Period, CreateCount(r, p)
      PROVE  GuardsHold'
  BY <1>2 DEF CreateCount, table
<1>3. ASSUME NEW r \in Request, NEW i \in Invoice,
             PayFind(r, i) \/ CancelFind(r, i) \/ RemindFind(r, i)
      PROVE  GuardsHold'
  BY <1>3 DEF PayFind, CancelFind, RemindFind, Hold, table, Open, RowsStay,
              InvoiceStatus
<1>4. ASSUME NEW r \in Request,
             \/ \E i \in Invoice : CreateInsert(r, i)
             \/ CreateDuplicate(r) \/ Abort(r)
             \/ CreateAudit(r) \/ CreatePublish(r)
             \/ PayUpdate(r) \/ PayAudit(r) \/ PayPublish(r)
             \/ MailTenant(r) \/ MailNotify(r) \/ MailEnqueue(r)
             \/ CancelUpdate(r) \/ CancelAudit(r) \/ CancelPublish(r)
             \/ RemindTenant(r) \/ RemindEnqueue(r)
      PROVE  GuardsHold'
  <2>1. pc'[r] \notin {"payUpdate", "cancelUpdate"}
    BY <1>4 DEF CreateInsert, CreateDuplicate, Abort, CreateAudit,
      CreatePublish, PayUpdate, PayAudit, PayPublish, MailTenant, MailNotify,
      MailEnqueue, CancelUpdate, CancelAudit, CancelPublish, RemindTenant,
      RemindEnqueue, Goto, Finish
  <2> QED
    BY <2>1
<1> QED
  BY <1>1, <1>2, <1>3, <1>4 DEF Next, Arrive, Step

LEMMA StrictStep ==
  ASSUME TypeOK, NumberingInv, GuardsHold, [Next]_vars
  PROVE  [Strict!Next]_Strict!vars
<1>1. CASE UNCHANGED <<status, number>>
  BY <1>1, LastKept DEF Strict!vars, Last
<1>2. ASSUME NEW i \in Invoice, NEW p \in Period, Issued(i, p)
      PROVE  Strict!Issue(i, p)
  BY <1>2 DEF Issued, Last, Strict!Issue
<1>3. ASSUME NEW r \in Request, NEW s \in {"PAID", "CANCELLED"}, SettledBy(r, s)
      PROVE  doc[r] \in Invoice /\ Strict!Settle(doc[r], s)
  <2>1. UNCHANGED <<number, Last>>
    BY <1>3, LastKept DEF SettledBy
  <2> QED
    BY <1>3, <2>1 DEF SettledBy, GuardsHold, Last, Strict!Settle
<1> QED
  BY <1>1, <1>2, <1>3, StepKinds DEF Strict!Next, Strict!Settled

(* When requests do not overlap, the code is the ledger its guards         *)
(* describe: an invoice is paid or cancelled once, and for good.           *)
THEOREM StrictLedgerCorrect ==
  ASSUME \A r, s \in Request : r = s
  PROVE  Spec => ImplementsStrictLedger
<1> DEFINE Inv == TypeOK /\ NumberingInv /\ RowsStay /\ GuardsHold
<1>1. Init => Inv /\ Strict!Init
  BY TypeInit, NumberingInit, LastInit, InvoiceAssumption
  DEF Init, RowsStay, GuardsHold, Last, Strict!Init, NoNumber
<1>2. Inv /\ [Next]_vars => Inv'
  BY TypeStep, NumberingStep, RowsStayStep, GuardsHoldStep
<1>3. Inv /\ [Next]_vars => [Strict!Next]_Strict!vars
  BY StrictStep
<1> QED
  BY <1>1, <1>2, <1>3, PTL DEF Spec, ImplementsStrictLedger, Strict!Spec

(* "Cannot cancel a paid invoice" is so when requests do not overlap.      *)
THEOREM PaidStaysCorrect ==
  ASSUME \A r, s \in Request : r = s
  PROVE  Spec => PaidStaysPaid
<1> DEFINE Inv == TypeOK /\ NumberingInv /\ RowsStay /\ GuardsHold
<1>1. Init => Inv
  BY TypeInit, NumberingInit, InvoiceAssumption
  DEF Init, RowsStay, GuardsHold
<1>2. Inv /\ [Next]_vars => Inv'
  BY TypeStep, NumberingStep, RowsStayStep, GuardsHoldStep
<1>3. Inv /\ [Next]_vars =>
        [\A i \in Invoice : status[i] = "PAID" => status'[i] = "PAID"]_vars
  <2> SUFFICES ASSUME Inv, [Next]_vars, NEW i \in Invoice, status[i] = "PAID"
               PROVE  status'[i] = "PAID"
    OBVIOUS
  <2>1. ASSUME NEW j \in Invoice, NEW p \in Period, Issued(j, p)
        PROVE  status'[i] = "PAID"
    BY <2>1 DEF Issued, TypeOK, TableOK
  <2>2. ASSUME NEW r \in Request, NEW s \in {"PAID", "CANCELLED"},
               SettledBy(r, s)
        PROVE  status'[i] = "PAID"
    BY <2>2 DEF SettledBy, GuardsHold, TypeOK, TableOK
  <2> QED
    BY <2>1, <2>2, StepKinds
<1> QED
  BY <1>1, <1>2, <1>3, PTL DEF Spec, PaidStaysPaid

-----------------------------------------------------------------------------
(* The trail that a handler leaves                                         *)

AuditStage == [INVOICE_CREATED |-> "createAudit", INVOICE_PAID |-> "payAudit",
               INVOICE_CANCELLED |-> "cancelAudit"]

PublishStage == [INVOICE_CREATED |-> "createPublish",
                 INVOICE_PAID |-> "payPublish",
                 INVOICE_CANCELLED |-> "cancelPublish"]

(* The requests that owe invoice i an audit row, an event, a notification, *)
(* a job.                                                                  *)
AuditDue(i, a) == {r \in Request : doc[r] = i /\ pc[r] = AuditStage[a]}
PublishDue(i, a) == {r \in Request : doc[r] = i /\ pc[r] = PublishStage[a]}
NoticeDue(i) ==
  {r \in Request : doc[r] = i /\ pc[r] \in {"mailTenant", "mailNotify"}}
JobDue(i) == {r \in Request : doc[r] = i /\ pc[r] = "mailEnqueue"}

(* low falls short of high by what the requests in due will make up for;   *)
(* by no more, if nothing gets lost.                                       *)
Behind(low, due, high, exact) ==
  /\ low + Cardinality(due) <= high
  /\ exact => low + Cardinality(due) = high

DueInv ==
  \A i \in Invoice :
    /\ \A a \in AuditAction :
         /\ Behind(audits[i][a], AuditDue(i, a), effects[i][a], ~MayAbort)
         /\ Behind(events[i][a], PublishDue(i, a), audits[i][a], ~MayAbort)
    /\ Behind(notices[i], NoticeDue(i), events[i]["INVOICE_PAID"],
              ~MayAbort /\ ~tenantDeleted)
    /\ Behind(emailJobs[i], JobDue(i), notices[i], ~MayAbort)

Bit(b) == IF b THEN 1 ELSE 0

(* What one request's step may do to such a pair.                          *)
Moves(low, in, high, low2, in2, high2, exact) ==
  /\ low2 + Bit(in2) + high <= low + Bit(in) + high2
  /\ exact => low2 + Bit(in2) + high = low + Bit(in) + high2

LEMMA BehindKept ==
  ASSUME NEW low \in Nat, NEW high \in Nat, NEW low2 \in Nat, NEW high2 \in Nat,
         NEW due \in SUBSET Request, NEW due2 \in SUBSET Request, NEW r,
         due \ {r} = due2 \ {r},
         NEW exact \in BOOLEAN, NEW exact2 \in BOOLEAN, exact2 => exact,
         Behind(low, due, high, exact),
         Moves(low, r \in due, high, low2, r \in due2, high2, exact2)
  PROVE  Behind(low2, due2, high2, exact2)
<1>1. IsFiniteSet(due) /\ IsFiniteSet(due2)
  BY RequestAssumption, FS_Subset
<1>2. /\ Cardinality(due) \in Nat /\ Cardinality(due2) \in Nat
      /\ Cardinality(due \ {r}) = Cardinality(due) - Bit(r \in due)
      /\ Cardinality(due2 \ {r}) = Cardinality(due2) - Bit(r \in due2)
  BY <1>1, FS_CardinalityType, FS_RemoveElement DEF Bit
<1>3. Bit(r \in due) \in Nat /\ Bit(r \in due2) \in Nat
  BY DEF Bit
<1>4. Cardinality(due) - Bit(r \in due) = Cardinality(due2) - Bit(r \in due2)
  BY <1>2
<1> QED
  BY <1>2, <1>3, <1>4 DEF Behind, Moves

LEMMA DueKept ==
  ASSUME TypeOK, TypeOK', DueInv, NEW r \in Request,
         \A q \in Request \ {r} : pc'[q] = pc[q] /\ doc'[q] = doc[q],
         tenantDeleted' = tenantDeleted,
         \A i \in Invoice :
           /\ \A a \in AuditAction :
                /\ Moves(audits[i][a], r \in AuditDue(i, a), effects[i][a],
                         audits'[i][a], r \in AuditDue(i, a)', effects'[i][a],
                         ~MayAbort)
                /\ Moves(events[i][a], r \in PublishDue(i, a), audits[i][a],
                         events'[i][a], r \in PublishDue(i, a)', audits'[i][a],
                         ~MayAbort)
           /\ Moves(notices[i], r \in NoticeDue(i), events[i]["INVOICE_PAID"],
                    notices'[i], r \in NoticeDue(i)',
                    events'[i]["INVOICE_PAID"], ~MayAbort /\ ~tenantDeleted)
           /\ Moves(emailJobs[i], r \in JobDue(i), notices[i],
                    emailJobs'[i], r \in JobDue(i)', notices'[i], ~MayAbort)
  PROVE  DueInv'
<1>1. ASSUME NEW i \in Invoice, NEW a \in AuditAction
      PROVE  /\ Behind(audits[i][a], AuditDue(i, a), effects[i][a], ~MayAbort)'
             /\ Behind(events[i][a], PublishDue(i, a), audits[i][a], ~MayAbort)'
  <2>1. /\ AuditDue(i, a)' \ {r} = AuditDue(i, a) \ {r}
        /\ PublishDue(i, a)' \ {r} = PublishDue(i, a) \ {r}
    BY DEF AuditDue, PublishDue
  <2>2. /\ AuditDue(i, a) \in SUBSET Request /\ AuditDue(i, a)' \in SUBSET Request
        /\ PublishDue(i, a) \in SUBSET Request
        /\ PublishDue(i, a)' \in SUBSET Request
    BY DEF AuditDue, PublishDue
  <2>3. /\ audits[i][a] \in Nat /\ effects[i][a] \in Nat /\ events[i][a] \in Nat
        /\ audits'[i][a] \in Nat /\ effects'[i][a] \in Nat
        /\ events'[i][a] \in Nat
    BY DEF TypeOK, TrailOK
  <2>4. Behind(audits[i][a], AuditDue(i, a), effects[i][a], ~MayAbort)'
    <3>1. Behind(audits[i][a], AuditDue(i, a), effects[i][a], ~MayAbort)
      BY DEF DueInv
    <3>2. Behind(audits'[i][a], AuditDue(i, a)', effects'[i][a], ~MayAbort)
      BY <2>1, <2>2, <2>3, <3>1, AbortAssumption, BehindKept
    <3> QED
      BY <3>2
  <2>5. Behind(events[i][a], PublishDue(i, a), audits[i][a], ~MayAbort)'
    <3>1. Behind(events[i][a], PublishDue(i, a), audits[i][a], ~MayAbort)
      BY DEF DueInv
    <3>2. Behind(events'[i][a], PublishDue(i, a)', audits'[i][a], ~MayAbort)
      BY <2>1, <2>2, <2>3, <3>1, AbortAssumption, BehindKept
    <3> QED
      BY <3>2
  <2> QED
    BY <2>4, <2>5
<1>2. ASSUME NEW i \in Invoice
      PROVE  /\ Behind(notices[i], NoticeDue(i), events[i]["INVOICE_PAID"],
                       ~MayAbort /\ ~tenantDeleted)'
             /\ Behind(emailJobs[i], JobDue(i), notices[i], ~MayAbort)'
  <2>1. /\ NoticeDue(i)' \ {r} = NoticeDue(i) \ {r}
        /\ JobDue(i)' \ {r} = JobDue(i) \ {r}
    BY DEF NoticeDue, JobDue
  <2>2. /\ NoticeDue(i) \in SUBSET Request /\ NoticeDue(i)' \in SUBSET Request
        /\ JobDue(i) \in SUBSET Request /\ JobDue(i)' \in SUBSET Request
    BY DEF NoticeDue, JobDue
  <2>3. /\ notices[i] \in Nat /\ emailJobs[i] \in Nat
        /\ notices'[i] \in Nat /\ emailJobs'[i] \in Nat
        /\ events[i]["INVOICE_PAID"] \in Nat /\ events'[i]["INVOICE_PAID"] \in Nat
    BY DEF TypeOK, TrailOK, AuditAction
  <2>4. Behind(notices[i], NoticeDue(i), events[i]["INVOICE_PAID"],
               ~MayAbort /\ ~tenantDeleted)'
    <3> DEFINE x == ~MayAbort /\ ~tenantDeleted
    <3>1. Behind(notices[i], NoticeDue(i), events[i]["INVOICE_PAID"], x)
      BY DEF DueInv
    <3>2. Moves(notices[i], r \in NoticeDue(i), events[i]["INVOICE_PAID"],
                notices'[i], r \in NoticeDue(i)', events'[i]["INVOICE_PAID"], x)
      OBVIOUS
    <3>3. x \in BOOLEAN /\ x' = x
      OBVIOUS
    <3> HIDE DEF x
    <3>4. Behind(notices'[i], NoticeDue(i)', events'[i]["INVOICE_PAID"], x)
      BY <2>1, <2>2, <2>3, <3>1, <3>2, <3>3, BehindKept
    <3> QED
      BY <3>3, <3>4 DEF x
  <2>5. Behind(emailJobs[i], JobDue(i), notices[i], ~MayAbort)'
    BY <2>1, <2>2, <2>3, BehindKept DEF DueInv
  <2> QED
    BY <2>4, <2>5
<1> QED
  BY <1>1, <1>2 DEF DueInv

LEMMA DueStep ==
  ASSUME TypeOK, TypeOK', DueInv, [Next]_vars
  PROVE  DueInv'
<1> USE DEF table, trail, mail, handlers, AuditAction, AuditStage, PublishStage
<1>0. ASSUME NEW r \in Request,
             Finish(r) \/ (\E s \in Stage : Goto(r, s))
               \/ (\E i \in Invoice, s \in Stage : Hold(r, i, s))
      PROVE  \A q \in Request \ {r} : pc'[q] = pc[q] /\ doc'[q] = doc[q]
  BY <1>0 DEF Finish, Goto, Hold, TypeOK, HandlersOK
(* Neither before nor after does the request owe anything. *)
<1>1. ASSUME NEW r \in Request,
             pc[r] \in {"idle", "createInsert", "payUpdate", "cancelUpdate",
                        "remindTenant", "remindEnqueue"},
             pc'[r] \in {"idle", "createInsert", "payUpdate", "cancelUpdate",
                         "remindTenant", "remindEnqueue"},
             \A q \in Request \ {r} : pc'[q] = pc[q] /\ doc'[q] = doc[q],
             UNCHANGED <<trail, mail, tenantDeleted>>
      PROVE  DueInv'
  BY <1>1, DueKept
  DEF Moves, Bit, AuditDue, PublishDue, NoticeDue, JobDue, TypeOK, TrailOK
<1>2. ASSUME NEW r \in Request,
             \/ \E p \in Period : CreateCount(r, p)
             \/ CreateDuplicate(r)
             \/ \E i \in Invoice : PayFind(r, i) \/ CancelFind(r, i) \/ RemindFind(r, i)
             \/ RemindTenant(r) \/ RemindEnqueue(r)
      PROVE  DueInv'
  BY <1>1, <1>2
  DEF CreateCount, CreateDuplicate, PayFind, CancelFind, RemindFind,
      RemindTenant, RemindEnqueue, Finish, Goto, Hold, At, TypeOK, HandlersOK,
      Stage
<1>3. ASSUME NEW r \in Request, Abort(r)
      PROVE  DueInv'
  <2>1. /\ MayAbort /\ pc'[r] = "idle"
        /\ UNCHANGED <<effects, audits, events, mail, tenantDeleted>>
    BY <1>3 DEF Abort, Finish, TypeOK, HandlersOK
  <2> QED
    BY <1>0, <1>3, <2>1, DueKept
    DEF Abort, Moves, Bit, AuditDue, PublishDue, NoticeDue, JobDue, TypeOK,
        TrailOK
(* The row is written: an audit row is due. *)
<1>4. ASSUME NEW r \in Request, NEW a \in AuditAction, NEW i \in Invoice,
             pc[r] \in {"createInsert", "payUpdate", "cancelUpdate"},
             pc'[r] = AuditStage[a], doc'[r] = i,
             effects' = [effects EXCEPT ![i][a] = @ + 1],
             \A q \in Request \ {r} : pc'[q] = pc[q] /\ doc'[q] = doc[q],
             UNCHANGED <<audits, events, mail, tenantDeleted>>
      PROVE  DueInv'
  <2>1. \A e \in Invoice, b \in AuditAction :
          effects'[e][b] = IF e = i /\ b = a THEN effects[e][b] + 1
                           ELSE effects[e][b]
    BY <1>4 DEF TypeOK, TrailOK
  <2>2. \A e \in Invoice, b \in AuditAction :
          Moves(audits[e][b], r \in AuditDue(e, b), effects[e][b],
                audits'[e][b], r \in AuditDue(e, b)', effects'[e][b], ~MayAbort)
    <3>1. ASSUME NEW e \in Invoice, NEW b \in AuditAction
          PROVE  audits'[e][b] = audits[e][b] /\ audits[e][b] \in Nat
                   /\ effects[e][b] \in Nat
      BY <1>4 DEF TypeOK, TrailOK
    <3>2. ASSUME NEW e \in Invoice, NEW b \in AuditAction
          PROVE  r \notin AuditDue(e, b)
                   /\ (r \in AuditDue(e, b)' <=> (e = i /\ b = a))
      BY <1>4 DEF AuditDue
    <3> QED
      BY <2>1, <3>1, <3>2 DEF Moves, Bit
  <2>3. \A e \in Invoice, b \in AuditAction :
          Moves(events[e][b], r \in PublishDue(e, b), audits[e][b],
                events'[e][b], r \in PublishDue(e, b)', audits'[e][b], ~MayAbort)
    BY <1>4 DEF Moves, Bit, PublishDue, TypeOK, TrailOK
  <2>4. \A e \in Invoice :
          /\ Moves(notices[e], r \in NoticeDue(e), events[e]["INVOICE_PAID"],
                   notices'[e], r \in NoticeDue(e)',
                   events'[e]["INVOICE_PAID"], ~MayAbort /\ ~tenantDeleted)
          /\ Moves(emailJobs[e], r \in JobDue(e), notices[e],
                   emailJobs'[e], r \in JobDue(e)', notices'[e], ~MayAbort)
    BY <1>4 DEF Moves, Bit, NoticeDue, JobDue, TypeOK, TrailOK
  <2> QED
    BY <1>4, <2>2, <2>3, <2>4, DueKept
<1>5. ASSUME NEW r \in Request,
             (\E i \in Invoice : CreateInsert(r, i)) \/ PayUpdate(r)
               \/ CancelUpdate(r)
      PROVE  DueInv'
  <2>1. ASSUME NEW i \in Invoice, CreateInsert(r, i)
        PROVE  DueInv'
    <3>1. /\ pc[r] = "createInsert" /\ pc'[r] = AuditStage["INVOICE_CREATED"]
          /\ doc'[r] = i
          /\ \A q \in Request \ {r} : pc'[q] = pc[q] /\ doc'[q] = doc[q]
          /\ effects' = [effects EXCEPT ![i]["INVOICE_CREATED"] = @ + 1]
          /\ UNCHANGED <<audits, events, mail, tenantDeleted>>
      BY <2>1 DEF CreateInsert, At, TypeOK, HandlersOK
    <3> QED
      BY <1>4, <3>1
  <2>2. ASSUME NEW a \in AuditAction, NEW i \in Invoice, i = doc[r],
               \/ a = "INVOICE_PAID" /\ PayUpdate(r)
               \/ a = "INVOICE_CANCELLED" /\ CancelUpdate(r)
        PROVE  DueInv'
    <3>1. /\ pc[r] \in {"payUpdate", "cancelUpdate"} /\ pc'[r] = AuditStage[a]
          /\ doc'[r] = i
          /\ \A q \in Request \ {r} : pc'[q] = pc[q] /\ doc'[q] = doc[q]
          /\ effects' = [effects EXCEPT ![i][a] = @ + 1]
          /\ UNCHANGED <<audits, events, mail, tenantDeleted>>
      BY <2>2 DEF PayUpdate, CancelUpdate, Goto, At, TypeOK, HandlersOK
    <3> QED
      BY <1>4, <3>1
  <2>3. PayUpdate(r) \/ CancelUpdate(r) => doc[r] \in Invoice
    BY HoldsInvoice DEF PayUpdate, CancelUpdate, TypeOK, Stage
  <2> QED
    BY <1>5, <2>1, <2>2, <2>3
(* The audit row is written: an event is due. *)
<1>6. ASSUME NEW r \in Request, NEW a \in AuditAction,
             At(r, AuditStage[a]), Audit(r, a), Goto(r, PublishStage[a])
      PROVE  DueInv'
  <2>0. PICK i \in Invoice : i = doc[r]
    BY <1>6, HoldsInvoice DEF TypeOK, Stage
  <2>1. /\ pc[r] = AuditStage[a] /\ pc'[r] = PublishStage[a] /\ doc' = doc
        /\ \A q \in Request \ {r} : pc'[q] = pc[q]
        /\ UNCHANGED <<effects, events, mail, tenantDeleted>>
    BY <1>6 DEF At, Audit, Goto, TypeOK, HandlersOK
  <2>2. \A e \in Invoice, b \in AuditAction :
          audits'[e][b] = IF e = i /\ b = a THEN audits[e][b] + 1
                          ELSE audits[e][b]
    BY <1>6, <2>0 DEF Audit, TypeOK, TrailOK
  <2>3. \A e \in Invoice, b \in AuditAction :
          Moves(audits[e][b], r \in AuditDue(e, b), effects[e][b],
                audits'[e][b], r \in AuditDue(e, b)', effects'[e][b], ~MayAbort)
    BY <2>0, <2>1, <2>2 DEF Moves, Bit, AuditDue, TypeOK, TrailOK
  <2>4. \A e \in Invoice, b \in AuditAction :
          Moves(events[e][b], r \in PublishDue(e, b), audits[e][b],
                events'[e][b], r \in PublishDue(e, b)', audits'[e][b], ~MayAbort)
    BY <2>0, <2>1, <2>2 DEF Moves, Bit, PublishDue, TypeOK, TrailOK
  <2>5. \A e \in Invoice :
          /\ Moves(notices[e], r \in NoticeDue(e), events[e]["INVOICE_PAID"],
                   notices'[e], r \in NoticeDue(e)',
                   events'[e]["INVOICE_PAID"], ~MayAbort /\ ~tenantDeleted)
          /\ Moves(emailJobs[e], r \in JobDue(e), notices[e],
                   emailJobs'[e], r \in JobDue(e)', notices'[e], ~MayAbort)
    BY <2>0, <2>1 DEF Moves, Bit, NoticeDue, JobDue, TypeOK, TrailOK
  <2> QED
    BY <2>1, <2>3, <2>4, <2>5, DueKept
(* The event is sent, and a payment has a notification due. *)
<1>7. ASSUME NEW r \in Request, NEW a \in AuditAction, NEW i \in Invoice,
             i = doc[r], pc[r] = PublishStage[a], Publish(r, a),
             IF a = "INVOICE_PAID" THEN doc'[r] = i /\ pc'[r] = "mailTenant"
             ELSE pc'[r] = "idle",
             \A q \in Request \ {r} : pc'[q] = pc[q] /\ doc'[q] = doc[q]
      PROVE  DueInv'
  <2>1. UNCHANGED <<effects, audits, mail, tenantDeleted>>
    BY <1>7 DEF Publish
  <2>2. \A e \in Invoice, b \in AuditAction :
          events'[e][b] = IF e = i /\ b = a THEN events[e][b] + 1
                          ELSE events[e][b]
    BY <1>7 DEF Publish, TypeOK, TrailOK
  <2>3. \A e \in Invoice, b \in AuditAction :
          Moves(audits[e][b], r \in AuditDue(e, b), effects[e][b],
                audits'[e][b], r \in AuditDue(e, b)', effects'[e][b], ~MayAbort)
    BY <1>7, <2>1 DEF Moves, Bit, AuditDue, TypeOK, TrailOK
  <2>4. \A e \in Invoice, b \in AuditAction :
          Moves(events[e][b], r \in PublishDue(e, b), audits[e][b],
                events'[e][b], r \in PublishDue(e, b)', audits'[e][b], ~MayAbort)
    BY <1>7, <2>1, <2>2 DEF Moves, Bit, PublishDue, TypeOK, TrailOK
  <2>5. \A e \in Invoice :
          Moves(notices[e], r \in NoticeDue(e), events[e]["INVOICE_PAID"],
                notices'[e], r \in NoticeDue(e)',
                events'[e]["INVOICE_PAID"], ~MayAbort /\ ~tenantDeleted)
    BY <1>7, <2>1, <2>2 DEF Moves, Bit, NoticeDue, TypeOK, TrailOK
  <2>6. \A e \in Invoice :
          Moves(emailJobs[e], r \in JobDue(e), notices[e],
                emailJobs'[e], r \in JobDue(e)', notices'[e], ~MayAbort)
    BY <1>7, <2>1 DEF Moves, Bit, JobDue, TypeOK, TrailOK
  <2> QED
    BY <1>7, <2>1, <2>3, <2>4, <2>5, <2>6, DueKept
<1>8. ASSUME NEW r \in Request,
             CreatePublish(r) \/ PayPublish(r) \/ CancelPublish(r)
      PROVE  DueInv'
  <2>1. PICK i \in Invoice : i = doc[r]
    BY <1>8, HoldsInvoice DEF CreatePublish, PayPublish, CancelPublish, TypeOK, Stage
  <2>2. \A q \in Request \ {r} : pc'[q] = pc[q] /\ doc'[q] = doc[q]
    BY <1>8 DEF CreatePublish, PayPublish, CancelPublish, Finish, Goto, TypeOK,
                HandlersOK
  <2>3. CASE CreatePublish(r)
    BY <1>7, <2>1, <2>2, <2>3
    DEF CreatePublish, At, Finish, TypeOK, HandlersOK
  <2>4. CASE PayPublish(r)
    BY <1>7, <2>1, <2>2, <2>4 DEF PayPublish, At, Goto, TypeOK, HandlersOK
  <2>5. CASE CancelPublish(r)
    BY <1>7, <2>1, <2>2, <2>5
    DEF CancelPublish, At, Finish, TypeOK, HandlersOK
  <2> QED
    BY <1>8, <2>3, <2>4, <2>5
(* The confirmation e-mail. *)
<1>9. ASSUME NEW r \in Request,
             pc[r] \in {"mailTenant", "mailNotify", "mailEnqueue"},
             pc'[r] \in {"idle", "mailNotify", "mailEnqueue"},
             \A q \in Request \ {r} : pc'[q] = pc[q] /\ doc'[q] = doc[q],
             UNCHANGED <<trail, tenantDeleted>>,
             \A e \in Invoice :
               /\ Moves(notices[e], r \in NoticeDue(e), events[e]["INVOICE_PAID"],
                        notices'[e], r \in NoticeDue(e)',
                        events'[e]["INVOICE_PAID"], ~MayAbort /\ ~tenantDeleted)
               /\ Moves(emailJobs[e], r \in JobDue(e), notices[e],
                        emailJobs'[e], r \in JobDue(e)', notices'[e], ~MayAbort)
      PROVE  DueInv'
  <2>1. \A e \in Invoice, b \in AuditAction :
          /\ Moves(audits[e][b], r \in AuditDue(e, b), effects[e][b],
                   audits'[e][b], r \in AuditDue(e, b)', effects'[e][b], ~MayAbort)
          /\ Moves(events[e][b], r \in PublishDue(e, b), audits[e][b],
                   events'[e][b], r \in PublishDue(e, b)', audits'[e][b], ~MayAbort)
    BY <1>9 DEF Moves, Bit, AuditDue, PublishDue, TypeOK, TrailOK
  <2> QED
    BY <1>9, <2>1, DueKept
<1>10. ASSUME NEW r \in Request, MailTenant(r)
       PROVE  DueInv'
  <2>1. /\ pc[r] = "mailTenant" /\ UNCHANGED <<trail, mail, tenantDeleted>>
        /\ \/ tenantDeleted /\ pc'[r] = "idle"
           \/ doc' = doc /\ pc'[r] = "mailNotify"
        /\ \A q \in Request \ {r} : pc'[q] = pc[q] /\ doc'[q] = doc[q]
    BY <1>10 DEF MailTenant, At, Finish, Goto, TypeOK, HandlersOK
  <2> QED
    BY <1>9, <2>1 DEF Moves, Bit, NoticeDue, JobDue, TypeOK, TrailOK
<1>11. ASSUME NEW r \in Request, MailNotify(r)
       PROVE  DueInv'
  <2>0. PICK i \in Invoice : i = doc[r]
    BY <1>11, HoldsInvoice DEF MailNotify, TypeOK, Stage
  <2>1. /\ pc[r] = "mailNotify" /\ pc'[r] = "mailEnqueue" /\ doc' = doc
        /\ UNCHANGED <<trail, emailJobs, tenantDeleted>>
        /\ \A q \in Request \ {r} : pc'[q] = pc[q] /\ doc'[q] = doc[q]
    BY <1>11 DEF MailNotify, At, Goto, TypeOK, HandlersOK
  <2>2. \A e \in Invoice :
          notices'[e] = IF e = i THEN notices[e] + 1 ELSE notices[e]
    BY <1>11, <2>0 DEF MailNotify, TypeOK, TrailOK
  <2>3. \A e \in Invoice :
          Moves(notices[e], r \in NoticeDue(e), events[e]["INVOICE_PAID"],
                notices'[e], r \in NoticeDue(e)',
                events'[e]["INVOICE_PAID"], ~MayAbort /\ ~tenantDeleted)
    BY <2>0, <2>1, <2>2 DEF Moves, Bit, NoticeDue, TypeOK, TrailOK
  <2>4. \A e \in Invoice :
          Moves(emailJobs[e], r \in JobDue(e), notices[e],
                emailJobs'[e], r \in JobDue(e)', notices'[e], ~MayAbort)
    <3>1. ASSUME NEW e \in Invoice
          PROVE  /\ Bit(r \in JobDue(e)) = 0
                 /\ Bit(r \in JobDue(e)') = IF e = i THEN 1 ELSE 0
                 /\ emailJobs'[e] = emailJobs[e]
                 /\ emailJobs[e] \in Nat /\ notices[e] \in Nat
      BY <2>0, <2>1 DEF Bit, JobDue, TypeOK, TrailOK
    <3> QED
      BY <2>2, <3>1 DEF Moves
  <2> QED
    BY <1>9, <2>1, <2>3, <2>4
<1>12. ASSUME NEW r \in Request, MailEnqueue(r)
       PROVE  DueInv'
  <2>0. PICK i \in Invoice : i = doc[r]
    BY <1>12, HoldsInvoice DEF MailEnqueue, TypeOK, Stage
  <2>1. /\ pc[r] = "mailEnqueue" /\ pc'[r] = "idle"
        /\ UNCHANGED <<trail, notices, tenantDeleted>>
        /\ \A q \in Request \ {r} : pc'[q] = pc[q] /\ doc'[q] = doc[q]
    BY <1>12 DEF MailEnqueue, At, Finish, TypeOK, HandlersOK
  <2>2. \A e \in Invoice :
          emailJobs'[e] = IF e = i THEN emailJobs[e] + 1 ELSE emailJobs[e]
    BY <1>12, <2>0 DEF MailEnqueue, TypeOK, TrailOK
  <2> QED
    BY <1>9, <2>0, <2>1, <2>2 DEF Moves, Bit, NoticeDue, JobDue, TypeOK, TrailOK
<1>13. ASSUME NEW r \in Request,
              CreateAudit(r) \/ PayAudit(r) \/ CancelAudit(r)
       PROVE  DueInv'
  BY <1>6, <1>13 DEF CreateAudit, PayAudit, CancelAudit
<1>14. CASE RemoveTenant \/ UNCHANGED vars
  <2>1. /\ UNCHANGED <<trail, mail, handlers>>
        /\ tenantDeleted => tenantDeleted'
    BY <1>14 DEF RemoveTenant, vars
  <2>2. \A i \in Invoice :
          /\ \A a \in AuditAction : /\ AuditDue(i, a)' = AuditDue(i, a)
                                    /\ PublishDue(i, a)' = PublishDue(i, a)
          /\ NoticeDue(i)' = NoticeDue(i) /\ JobDue(i)' = JobDue(i)
    BY <2>1 DEF AuditDue, PublishDue, NoticeDue, JobDue
  <2> QED
    BY <2>1, <2>2 DEF DueInv, Behind
<1> QED
  BY <1>2, <1>3, <1>5, <1>8, <1>10, <1>11, <1>12, <1>13, <1>14
  DEF Next, Arrive, Step

LEMMA DueInit == Init => DueInv
<1> SUFFICES ASSUME Init PROVE DueInv
  OBVIOUS
<1>1. \A i \in Invoice :
        /\ \A a \in AuditAction : AuditDue(i, a) = {} /\ PublishDue(i, a) = {}
        /\ NoticeDue(i) = {} /\ JobDue(i) = {}
  BY DEF Init, AuditDue, PublishDue, NoticeDue, JobDue, AuditStage,
         PublishStage, AuditAction
<1>2. /\ effects = Zero /\ audits = Zero /\ events = Zero
      /\ \A i \in Invoice : notices[i] = 0 /\ emailJobs[i] = 0
  BY DEF Init
<1>3. Cardinality({}) = 0
  BY FS_EmptySet
<1>4. ASSUME NEW i \in Invoice, NEW a \in AuditAction
      PROVE  effects[i][a] = 0 /\ audits[i][a] = 0 /\ events[i][a] = 0
  BY <1>2 DEF Zero
<1> QED
  BY <1>1, <1>2, <1>3, <1>4 DEF DueInv, Behind, AuditAction

LEMMA DueAlways == Spec => [](TypeOK /\ DueInv)
<1>1. TypeOK /\ DueInv /\ [Next]_vars => (TypeOK /\ DueInv)'
  BY TypeStep, DueStep
<1> QED
  BY <1>1, TypeInit, DueInit, PTL DEF Spec

(* Nothing is announced that was not recorded, nor recorded that was not   *)
(* done, wherever handlers die.                                            *)
THEOREM TrailCorrect == Spec => []TrailOrder
<1>1. TypeOK /\ DueInv => TrailOrder
  <2> SUFFICES ASSUME TypeOK, DueInv PROVE TrailOrder
    OBVIOUS
  <2>1. \A due \in SUBSET Request : Cardinality(due) \in Nat
    BY RequestAssumption, FS_Subset, FS_CardinalityType
  <2>2. \A i \in Invoice :
          /\ \A a \in AuditAction : /\ Cardinality(AuditDue(i, a)) \in Nat
                                    /\ Cardinality(PublishDue(i, a)) \in Nat
          /\ Cardinality(NoticeDue(i)) \in Nat /\ Cardinality(JobDue(i)) \in Nat
    BY <2>1 DEF AuditDue, PublishDue, NoticeDue, JobDue
  <2> QED
    BY <2>2 DEF TrailOrder, DueInv, Behind, TypeOK, TrailOK, AuditAction
<1> QED
  BY <1>1, DueAlways, PTL

(* No path through the handlers skips a step.                              *)
THEOREM NothingLostCorrect == Spec => []NothingLost
<1>1. TypeOK /\ DueInv => NothingLost
  <2> SUFFICES ASSUME TypeOK, DueInv, ~MayAbort, \A r \in Request : At(r, "idle"),
                      NEW i \in Invoice
               PROVE  /\ audits[i] = effects[i]
                      /\ events[i] = effects[i]
                      /\ emailJobs[i] = notices[i]
                      /\ ~tenantDeleted => notices[i] = effects[i]["INVOICE_PAID"]
    BY DEF NothingLost
  <2>1. /\ \A a \in AuditAction : AuditDue(i, a) = {} /\ PublishDue(i, a) = {}
        /\ NoticeDue(i) = {} /\ JobDue(i) = {}
    BY DEF At, AuditDue, PublishDue, NoticeDue, JobDue, AuditStage,
           PublishStage, AuditAction
  <2>2. Cardinality({}) = 0
    BY FS_EmptySet
  <2>3. \A a \in AuditAction :
          audits[i][a] = effects[i][a] /\ events[i][a] = audits[i][a]
    <3>1. ASSUME NEW a \in AuditAction
          PROVE  /\ audits[i][a] + 0 = effects[i][a]
                 /\ events[i][a] + 0 = audits[i][a]
      BY <2>1, <2>2 DEF DueInv, Behind
    <3> QED
      BY <3>1 DEF TypeOK, TrailOK
  <2>4. audits[i] = effects[i] /\ events[i] = effects[i]
    BY <2>3 DEF TypeOK, TrailOK
  <2>5. /\ emailJobs[i] = notices[i]
        /\ ~tenantDeleted => notices[i] = events[i]["INVOICE_PAID"]
    <3>1. /\ emailJobs[i] + 0 = notices[i]
          /\ ~tenantDeleted => notices[i] + 0 = events[i]["INVOICE_PAID"]
      BY <2>1, <2>2 DEF DueInv, Behind
    <3> QED
      BY <3>1 DEF TypeOK, TrailOK
  <2> QED
    BY <2>4, <2>5
<1> QED
  BY <1>1, DueAlways, PTL

-----------------------------------------------------------------------------
(* What dashboards show                                                    *)

Owes(r, i) == doc[r] = i /\ Announcing(r)

(* The status that the event of request r will name. *)
ToSay(r) == CASE pc[r] \in {"createAudit", "createPublish"} -> "PENDING"
              [] pc[r] \in {"payAudit", "payPublish"} -> "PAID"
              [] OTHER -> "CANCELLED"

(* Of an invoice that is not crossed at most one event is still to be      *)
(* published, and it names the status; if none is, the status is shown.    *)
FeedOn(i) ==
  i \notin crossed =>
    /\ \A r \in Request : Owes(r, i) =>
         /\ ToSay(r) = status[i]
         /\ \A q \in Request : Owes(q, i) => q = r
    /\ (\A r \in Request : ~Owes(r, i)) => shown[i] = status[i]

FeedInv == \A i \in Invoice : FeedOn(i)

LEMMA FeedInit == Init => FeedInv
  BY DEF Init, FeedInv, FeedOn, Owes, Announcing

LEMMA FeedKept ==
  ASSUME NEW i \in Invoice, FeedOn(i),
         status'[i] = status[i], shown'[i] = shown[i],
         i \in crossed => i \in crossed',
         \A q \in Request : Owes(q, i)' <=> Owes(q, i),
         \A q \in Request : Owes(q, i) => ToSay(q)' = ToSay(q)
  PROVE  FeedOn(i)'
  BY DEF FeedOn

(* Request r has written the row, and every other one that has not told of *)
(* its own write yet has crossed it.                                       *)
LEMMA FeedWritten ==
  ASSUME NEW r \in Request, NEW i \in Invoice,
         Owes(r, i)', ToSay(r)' = status'[i],
         \A q \in Request \ {r} : Owes(q, i)' => i \in crossed'
  PROVE  FeedOn(i)'
  BY DEF FeedOn

(* Request r has published its event. *)
LEMMA FeedTold ==
  ASSUME NEW r \in Request, NEW i \in Invoice, FeedOn(i),
         Owes(r, i), ~Owes(r, i)', shown'[i] = ToSay(r),
         status'[i] = status[i], crossed' = crossed,
         \A q \in Request \ {r} : Owes(q, i)' <=> Owes(q, i)
  PROVE  FeedOn(i)'
  BY DEF FeedOn

LEMMA FeedNext ==
  ASSUME TypeOK, RowsStay, FeedInv, [Next]_vars
  PROVE  FeedInv'
<1> USE DEF table, trail, feed, handlers
<1> DEFINE Alone(r) == \A q \in Request \ {r} : pc'[q] = pc[q] /\ doc'[q] = doc[q]
<1>0. ASSUME NEW r \in Request, Alone(r)
      PROVE  \A q \in Request \ {r}, i \in Invoice :
               (Owes(q, i)' <=> Owes(q, i)) /\ ToSay(q)' = ToSay(q)
  BY <1>0 DEF Owes, ToSay, Announcing
<1>1. ASSUME NEW r \in Request,
             Finish(r) \/ (\E s \in Stage : Goto(r, s))
               \/ (\E i \in Invoice, s \in Stage : Hold(r, i, s))
      PROVE  Alone(r)
  BY <1>1 DEF Finish, Goto, Hold, TypeOK, HandlersOK
(* A step that neither writes a row nor tells of it. *)
<1>2. ASSUME NEW r \in Request, Alone(r), UNCHANGED <<status, shown, crossed>>,
             Announcing(r)' <=> Announcing(r),
             Announcing(r) => doc'[r] = doc[r] /\ ToSay(r)' = ToSay(r)
      PROVE  FeedInv'
  <2> SUFFICES ASSUME NEW i \in Invoice PROVE FeedOn(i)'
    BY DEF FeedInv
  <2>1. Owes(r, i)' <=> Owes(r, i)
    BY <1>2 DEF Owes
  <2>2. Owes(r, i) => ToSay(r)' = ToSay(r)
    BY <1>2 DEF Owes
  <2> QED
    BY <1>0, <1>2, <2>1, <2>2, FeedKept DEF FeedInv
<1>3. ASSUME NEW r \in Request, Arrive(r) \/ CreateDuplicate(r)
      PROVE  FeedInv'
  <2>1. Alone(r) /\ UNCHANGED <<status, shown, crossed>>
    BY <1>1, <1>3 DEF Arrive, CreateCount, CreateDuplicate, PayFind, CancelFind,
      RemindFind, TypeOK, HandlersOK, Stage
  <2>2. ~Announcing(r) /\ ~Announcing(r)'
    BY <1>3 DEF Arrive, CreateCount, CreateDuplicate, PayFind, CancelFind,
      RemindFind, At, Announcing, Finish, Hold, TypeOK, HandlersOK
  <2> QED
    BY <1>2, <2>1, <2>2
<1>4. ASSUME NEW r \in Request, MailTenant(r) \/ MailNotify(r) \/ MailEnqueue(r)
                                  \/ RemindTenant(r) \/ RemindEnqueue(r)
      PROVE  FeedInv'
  <2>1. Alone(r) /\ UNCHANGED <<status, shown, crossed>>
    BY <1>1, <1>4 DEF MailTenant, MailNotify, MailEnqueue, RemindTenant,
      RemindEnqueue, Stage
  <2>2. ~Announcing(r) /\ ~Announcing(r)'
    BY <1>4 DEF MailTenant, MailNotify, MailEnqueue, RemindTenant,
      RemindEnqueue, At, Announcing, Finish, Goto, TypeOK, HandlersOK
  <2> QED
    BY <1>2, <2>1, <2>2
<1>5. ASSUME NEW r \in Request, CreateAudit(r) \/ PayAudit(r) \/ CancelAudit(r)
      PROVE  FeedInv'
  <2>1. Alone(r) /\ UNCHANGED <<status, shown, crossed>>
    BY <1>1, <1>5 DEF CreateAudit, PayAudit, CancelAudit, Audit, Stage
  <2>2. doc'[r] = doc[r] /\ ToSay(r)' = ToSay(r) /\ Announcing(r) /\ Announcing(r)'
    BY <1>5 DEF CreateAudit, PayAudit, CancelAudit, At, Announcing, ToSay, Goto,
      TypeOK, HandlersOK
  <2> QED
    BY <1>2, <2>1, <2>2
<1>6. ASSUME NEW r \in Request, NEW i \in Invoice, Alone(r), Owes(r, i)',
             ~Announcing(r), ToSay(r)' = status'[i],
             \A j \in Invoice \ {i} :
               /\ status'[j] = status[j]
               /\ j \in crossed => j \in crossed',
             UNCHANGED shown,
             \A q \in Request \ {r} : Owes(q, i) => i \in crossed'
      PROVE  FeedInv'
  <2> SUFFICES ASSUME NEW j \in Invoice PROVE FeedOn(j)'
    BY DEF FeedInv
  <2>1. CASE j = i
    BY <1>0, <1>6, <2>1, FeedWritten
  <2>2. CASE j # i
    <3>1. ~Owes(r, j) /\ ~Owes(r, j)'
      BY <1>6, <2>2 DEF Owes
    <3> QED
      BY <1>0, <1>6, <2>2, <3>1, FeedKept DEF FeedInv
  <2> QED
    BY <2>1, <2>2
<1>7. ASSUME NEW r \in Request, NEW i \in Invoice, CreateInsert(r, i)
      PROVE  FeedInv'
  <2>1. /\ Alone(r) /\ pc[r] = "createInsert" /\ pc'[r] = "createAudit"
        /\ doc'[r] = i /\ status[i] = "absent" /\ status'[i] = "PENDING"
        /\ UNCHANGED <<shown, crossed>>
        /\ \A j \in Invoice \ {i} : status'[j] = status[j]
    BY <1>7 DEF CreateInsert, At, TypeOK, TableOK, HandlersOK
  <2>2. \A q \in Request : ~Owes(q, i)
    BY <2>1 DEF Owes, RowsStay
  <2>3. Owes(r, i)' /\ ~Announcing(r) /\ ToSay(r)' = status'[i]
    BY <2>1 DEF Owes, Announcing, ToSay
  <2> QED
    BY <1>6, <2>1, <2>2, <2>3
<1>8. ASSUME NEW r \in Request, PayUpdate(r) \/ CancelUpdate(r)
      PROVE  FeedInv'
  <2>0. doc[r] \in Invoice
    BY <1>8, HoldsInvoice DEF PayUpdate, CancelUpdate, Stage, TypeOK
  <2>1. Alone(r) /\ UNCHANGED <<shown, doc>> /\ Cross(r, doc[r])
    BY <1>1, <1>8 DEF PayUpdate, CancelUpdate, Stage, Goto
  <2>2. \/ /\ pc[r] = "payUpdate" /\ pc'[r] = "payAudit"
           /\ status' = [status EXCEPT ![doc[r]] = "PAID"]
        \/ /\ pc[r] = "cancelUpdate" /\ pc'[r] = "cancelAudit"
           /\ status' = [status EXCEPT ![doc[r]] = "CANCELLED"]
    BY <1>8 DEF PayUpdate, CancelUpdate, At, Goto, TypeOK, HandlersOK
  <2>3. /\ Owes(r, doc[r])' /\ ~Announcing(r)
        /\ ToSay(r)' = status'[doc[r]]
        /\ \A j \in Invoice \ {doc[r]} : status'[j] = status[j]
    BY <2>0, <2>1, <2>2 DEF Owes, Announcing, ToSay, TypeOK, TableOK
  <2>4. /\ \A j \in Invoice \ {doc[r]} : j \in crossed => j \in crossed'
        /\ \A q \in Request \ {r} : Owes(q, doc[r]) => doc[r] \in crossed'
    BY <2>1 DEF Cross, Owes
  <2>5. ASSUME NEW i \in Invoice, i = doc[r]
        PROVE  FeedInv'
    <3>1. /\ Owes(r, i)'
      BY <2>1, <2>3, <2>5 DEF Owes
    <3> QED
      BY <1>6, <2>1, <2>3, <2>4, <2>5, <3>1
  <2> QED
    BY <2>0, <2>5
<1>9. ASSUME NEW r \in Request,
             CreatePublish(r) \/ PayPublish(r) \/ CancelPublish(r)
      PROVE  FeedInv'
  <2>0. doc[r] \in Invoice
    BY <1>9, HoldsInvoice DEF CreatePublish, PayPublish, CancelPublish, Stage, TypeOK
  <2>1. Alone(r) /\ UNCHANGED <<status, crossed>>
    BY <1>1, <1>9 DEF CreatePublish, PayPublish, CancelPublish, Publish, Stage
  <2>2. Announcing(r) /\ ~Announcing(r)'
    BY <1>9 DEF CreatePublish, PayPublish, CancelPublish, Announcing, At, Goto,
      Finish, TypeOK, HandlersOK
  <2>3. shown' = [shown EXCEPT ![doc[r]] = ToSay(r)]
    BY <1>9 DEF CreatePublish, PayPublish, CancelPublish, Publish, At, ToSay, Result
  <2> SUFFICES ASSUME NEW j \in Invoice PROVE FeedOn(j)'
    BY DEF FeedInv
  <2>4. ~Owes(r, j)'
    BY <2>2 DEF Owes
  <2>5. CASE j = doc[r]
    <3>1. Owes(r, j) /\ shown'[j] = ToSay(r)
      BY <2>2, <2>3, <2>5 DEF Owes, TypeOK, FeedOK
    <3> QED
      BY <1>0, <2>1, <2>4, <3>1, FeedTold DEF FeedInv
  <2>6. CASE j # doc[r]
    <3>1. ~Owes(r, j) /\ shown'[j] = shown[j]
      BY <2>3, <2>6 DEF Owes, TypeOK, FeedOK
    <3> QED
      BY <1>0, <2>1, <2>4, <3>1, FeedKept DEF FeedInv
  <2> QED
    BY <2>5, <2>6
<1>10. ASSUME NEW r \in Request, Abort(r)
       PROVE  FeedInv'
  <2>1. Alone(r) /\ UNCHANGED <<status, shown>>
    BY <1>1, <1>10 DEF Abort
  <2>2. /\ ~Announcing(r)'
        /\ crossed' = IF Announcing(r) THEN crossed \cup {doc[r]} ELSE crossed
    BY <1>10 DEF Abort, Announcing, Finish, TypeOK, HandlersOK
  <2> SUFFICES ASSUME NEW j \in Invoice PROVE FeedOn(j)'
    BY DEF FeedInv
  <2>3. CASE Owes(r, j)
    BY <2>2, <2>3 DEF Owes, FeedOn
  <2>4. CASE ~Owes(r, j)
    <3>1. ~Owes(r, j)'
      BY <2>2 DEF Owes
    <3> QED
      BY <1>0, <2>1, <2>2, <2>4, <3>1, FeedKept DEF FeedInv
  <2> QED
    BY <2>3, <2>4
<1>11. ASSUME UNCHANGED <<status, shown, crossed, pc, doc>>
       PROVE  FeedInv'
  BY <1>11 DEF FeedInv, FeedOn, Owes, Announcing, ToSay
<1> QED
  BY <1>3, <1>4, <1>5, <1>7, <1>8, <1>9, <1>10, <1>11
  DEF Next, Step, RemoveTenant, vars

(* A dashboard shows what the row says once everything about it has been   *)
(* published, unless events crossed or were lost.                          *)
THEOREM FeedCorrect == Spec => []FeedAgrees
<1>1. TypeOK /\ FeedInv => FeedAgrees
  BY DEF FeedInv, FeedOn, FeedAgrees, Owes
<1>2. Init => RowsStay
  BY InvoiceAssumption DEF Init, RowsStay
<1>3. TypeOK /\ RowsStay /\ FeedInv /\ [Next]_vars
        => (TypeOK /\ RowsStay /\ FeedInv)'
  BY TypeStep, RowsStayStep, FeedNext
<1> QED
  BY <1>1, <1>2, <1>3, TypeInit, FeedInit, PTL DEF Spec

-----------------------------------------------------------------------------
(* An invoice at rest                                                      *)

(* A request with which i is not at rest, or could not stay so.            *)
Relies(r, i) ==
    doc[r] = i /\ pc[r] \in {"payUpdate", "cancelUpdate",
                             "remindTenant", "remindEnqueue"}

RestKept(i) ==
    /\ AtRest(i)'
    /\ status'[i] = status[i]
    /\ effects'[i] = effects[i]
    /\ i \in reminderJobs' => i \in reminderJobs

LEMMA RestIs ==
    ASSUME NEW i
    PROVE  AtRest(i) <=> /\ status[i] \in {"PAID", "CANCELLED"}
                         /\ \A r \in Request : ~Relies(r, i)
  BY DEF AtRest, Relying, Relies

(* A step keeps i at rest if it leaves the row and the reminders of i      *)
(* alone and the request that takes it does not begin to rely on i.        *)
LEMMA RestStays ==
    ASSUME TypeOK, NEW i \in Invoice, AtRest(i), NEW r \in Request,
           status'[i] = status[i], effects'[i] = effects[i],
           i \in reminderJobs' => i \in reminderJobs,
           \A q \in Request \ {r} : doc'[q] = doc[q] /\ pc'[q] = pc[q],
           ~Relies(r, i)'
    PROVE  RestKept(i)
<1>1. \A q \in Request : ~Relies(q, i)'
  BY RestIs DEF Relies
<1> QED
  BY <1>1, RestIs DEF RestKept, AtRest, Relying, Relies

LEMMA RestStep ==
    ASSUME TypeOK, [Next]_vars, NEW i \in Invoice, AtRest(i)
    PROVE  RestKept(i)
<1> USE DEF table, trail, feed, mail, handlers
<1>1. /\ pc \in [Request -> Stage]
      /\ doc \in [Request -> Invoice \cup {NoInvoice}]
      /\ status[i] \in {"PAID", "CANCELLED"}
      /\ \A r \in Request : ~Relies(r, i)
      /\ status \in [Invoice -> InvoiceStatus \cup {"absent"}]
      /\ effects \in [Invoice -> [AuditAction -> Nat]]
      /\ NoInvoice # i
  BY RestIs, InvoiceAssumption DEF TypeOK, TableOK, TrailOK, HandlersOK
<1>2. CASE RemoveTenant \/ UNCHANGED vars
  <2>1. UNCHANGED <<status, effects, reminderJobs, doc, pc>>
    BY <1>2 DEF RemoveTenant, vars
  <2> QED
    BY <2>1 DEF RestKept, AtRest, Relying
<1>3. ASSUME NEW r \in Request, Finish(r),
             status'[i] = status[i], effects'[i] = effects[i],
             i \in reminderJobs' => i \in reminderJobs
      PROVE  RestKept(i)
  <2>1. ~Relies(r, i)'
    BY <1>1, <1>3 DEF Finish, Relies
  <2> QED
    BY <1>1, <1>3, <2>1, RestStays DEF Finish
<1>4. ASSUME NEW r \in Request, NEW stage, Goto(r, stage), doc[r] # i \/ ~(stage
               \in {"payUpdate", "cancelUpdate", "remindTenant", "remindEnqueue"}),
             status'[i] = status[i], effects'[i] = effects[i],
             i \in reminderJobs' => i \in reminderJobs
      PROVE  RestKept(i)
  <2>1. ~Relies(r, i)'
    BY <1>1, <1>4 DEF Goto, Relies
  <2> QED
    BY <1>1, <1>4, <2>1, RestStays DEF Goto
<1>5. ASSUME NEW r \in Request, Arrive(r)
      PROVE  RestKept(i)
  <2>1. ASSUME NEW p \in Period, CreateCount(r, p)
        PROVE  RestKept(i)
    <3>1. ~Relies(r, i)'
      BY <1>1, <2>1 DEF CreateCount, Relies
    <3> QED
      BY <1>1, <2>1, <3>1, RestStays DEF CreateCount
  <2>2. ASSUME NEW j \in Invoice, PayFind(r, j) \/ CancelFind(r, j) \/ RemindFind(r, j)
        PROVE  RestKept(i)
    <3>1. j # i
      BY <1>1, <2>2 DEF PayFind, CancelFind, RemindFind, Open
    <3>2. ~Relies(r, i)'
      BY <1>1, <2>2, <3>1 DEF PayFind, CancelFind, RemindFind, Hold, Relies
    <3> QED
      BY <1>1, <2>2, <3>2, RestStays DEF PayFind, CancelFind, RemindFind, Hold
  <2> QED
    BY <1>5, <2>1, <2>2 DEF Arrive
<1>6. ASSUME NEW r \in Request, NEW j \in Invoice, CreateInsert(r, j)
      PROVE  RestKept(i)
  <2>1. j # i
    BY <1>1, <1>6 DEF CreateInsert
  <2>2. ~Relies(r, i)'
    BY <1>1, <1>6 DEF CreateInsert, Relies
  <2> QED
    BY <1>1, <1>6, <2>1, <2>2, RestStays DEF CreateInsert
<1>7. ASSUME NEW r \in Request, CreateDuplicate(r) \/ CreatePublish(r)
             \/ MailEnqueue(r) \/ CancelPublish(r) \/ Abort(r)
      PROVE  RestKept(i)
  BY <1>3, <1>7
  DEF CreateDuplicate, CreatePublish, MailEnqueue, CancelPublish, Abort, Publish
<1>8. ASSUME NEW r \in Request, CreateAudit(r) \/ PayAudit(r) \/ CancelAudit(r)
             \/ PayPublish(r) \/ MailNotify(r)
      PROVE  RestKept(i)
  BY <1>4, <1>8
  DEF CreateAudit, PayAudit, CancelAudit, PayPublish, MailNotify, Audit, Publish
<1>9. ASSUME NEW r \in Request, MailTenant(r)
      PROVE  RestKept(i)
  BY <1>3, <1>4, <1>9 DEF MailTenant
<1>10. ASSUME NEW r \in Request, PayUpdate(r) \/ CancelUpdate(r)
       PROVE  RestKept(i)
  <2>1. doc[r] # i
    BY <1>1, <1>10 DEF PayUpdate, CancelUpdate, At, Relies
  <2>2. status'[i] = status[i] /\ effects'[i] = effects[i]
    BY <1>1, <1>10, <2>1 DEF PayUpdate, CancelUpdate
  <2> QED
    BY <1>4, <1>10, <2>1, <2>2 DEF PayUpdate, CancelUpdate
<1>11. ASSUME NEW r \in Request, RemindTenant(r) \/ RemindEnqueue(r)
       PROVE  RestKept(i)
  <2>1. doc[r] # i
    BY <1>1, <1>11 DEF RemindTenant, RemindEnqueue, At, Relies
  <2> QED
    BY <1>3, <1>4, <1>11, <2>1 DEF RemindTenant, RemindEnqueue
<1> QED
  BY <1>2, <1>5, <1>6, <1>7, <1>8, <1>9, <1>10, <1>11 DEF Next, Step

(* With any number of requests, aborted or not: an invoice that is settled *)
(* and on which no request relies any more keeps its status for ever, is   *)
(* not written again and gets no further reminder.                         *)
THEOREM RestCorrect == Spec => SettledRests
<1>1. TypeOK /\ [Next]_vars =>
        [\A i \in Invoice : AtRest(i) =>
           /\ AtRest(i)'
           /\ status'[i] = status[i]
           /\ effects'[i] = effects[i]
           /\ i \in reminderJobs' => i \in reminderJobs]_vars
  BY RestStep DEF RestKept
<1> QED
  BY <1>1, TypeInit, TypeStep, PTL DEF Spec, SettledRests
=============================================================================
