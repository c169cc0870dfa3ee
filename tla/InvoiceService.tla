--------------------------- MODULE InvoiceService ---------------------------
(***************************************************************************)
(* InvoiceService: create, pay, cancel and sendReminder, run by any number *)
(* of HTTP requests at once, on any replica.  There is no transaction and  *)
(* no row lock, so every await is a place where other requests run: each   *)
(* action below is what a handler does from one await to the next.         *)
(*                                                                         *)
(* A request that a guard of the code refuses (400, 404) changes nothing:  *)
(* it is a stuttering step, and the guard is a conjunct of the action that *)
(* reads the row.  Reading the row is the first thing a handler does, so   *)
(* the arrival of a request and its first read are one action.             *)
(***************************************************************************)
EXTENDS Integers, FiniteSets

CONSTANTS
    Invoice,    \* identities (uuid) of invoice rows: the bound on the table
    Period,     \* billing periods, "YYYY-MM"
    Request,    \* requests that can be in progress at the same time
    NoInvoice,  \* what a handler holds before it has an invoice
    NoPeriod,   \* the period of a row that does not exist yet
    MayAbort    \* can a handler die between two awaits?

ASSUME InvoiceAssumption == IsFiniteSet(Invoice) /\ NoInvoice \notin Invoice
ASSUME PeriodAssumption == NoPeriod \notin Period
ASSUME RequestAssumption == IsFiniteSet(Request)
ASSUME AbortAssumption == MayAbort \in BOOLEAN

VARIABLES
    status,         \* invoices.status, "absent" while there is no row
    number,         \* invoices.invoice_number
    paidAt,         \* is invoices.paid_at set?
    effects,        \* history: writes of the row, by the action they are for
    audits,         \* rows of audit_logs about the invoice, by action
    events,         \* events sent to the dashboards, by action
    shown,          \* status shown by a dashboard that listens to them
    crossed,        \* history: invoices whose latest events overlapped or failed
    notices,        \* PAYMENT_CONFIRMATION rows of notifications
    emailJobs,      \* jobs queued to send those notifications
    reminderJobs,   \* invoices for which a manual reminder job was queued
    tenantDeleted,  \* has the invoices' tenant been soft-deleted?
    pc,             \* what each request does next
    doc,            \* the invoice each handler works on
    num             \* the number each create handler has generated

table == <<status, number, paidAt>>
feed == <<shown, crossed>>
trail == <<effects, audits, events, feed>>
mail == <<notices, emailJobs>>
handlers == <<pc, doc, num>>
vars == <<table, trail, mail, reminderJobs, tenantDeleted, handlers>>

-----------------------------------------------------------------------------
InvoiceStatus == {"PENDING", "PAID", "OVERDUE", "CANCELLED"}

(* The string INV-YYYYMM-NNNN: a fixed-width period, then the sequence     *)
(* number padded to four digits or longer, so two numbers are the same     *)
(* string only if they agree on both.                                      *)
InvoiceNumber == [period : Period \cup {NoPeriod}, seq : Nat]

NoNumber == [period |-> NoPeriod, seq |-> 0]

AuditAction == {"INVOICE_CREATED", "INVOICE_PAID", "INVOICE_CANCELLED"}

Stage == {"idle",
          "createInsert", "createAudit", "createPublish",
          "payUpdate", "payAudit", "payPublish",
          "mailTenant", "mailNotify", "mailEnqueue",
          "cancelUpdate", "cancelAudit", "cancelPublish",
          "remindTenant", "remindEnqueue"}

Zero == [i \in Invoice |-> [a \in AuditAction |-> 0]]

Init ==
    /\ status = [i \in Invoice |-> "absent"]
    /\ number = [i \in Invoice |-> NoNumber]
    /\ paidAt = [i \in Invoice |-> FALSE]
    /\ effects = Zero
    /\ audits = Zero
    /\ events = Zero
    /\ shown = [i \in Invoice |-> "absent"]
    /\ crossed = {}
    /\ notices = [i \in Invoice |-> 0]
    /\ emailJobs = [i \in Invoice |-> 0]
    /\ reminderJobs = {}
    /\ tenantDeleted = FALSE
    /\ pc = [r \in Request |-> "idle"]
    /\ doc = [r \in Request |-> NoInvoice]
    /\ num = [r \in Request |-> NoNumber]

-----------------------------------------------------------------------------
(* The repository's reads, and what a handler does with its own state.     *)

InPeriod(p) == {i \in Invoice : number[i].period = p}

(* Mutant: the count forgets its WHERE clause. *)
CountByBillingPeriodOfAll(p) == Cardinality({i \in Invoice : number[i] # NoNumber})

CountByBillingPeriod(p) == Cardinality(InPeriod(p))

(* Mutants: no UNIQUE constraint; one that leaves the period out. *)
NumberFreeUnchecked(n) == TRUE
NumberFreeInAnyPeriod(n) == \A i \in Invoice : number[i].seq # n.seq

(* The UNIQUE constraint on invoice_number. *)
NumberFree(n) == \A i \in Invoice : number[i] # n

(* Mutant: the guard against PAID is forgotten. *)
OpenOrPaid(i) == status[i] \notin {"absent", "CANCELLED"}

(* An invoice the guards of pay, cancel and sendReminder let through. *)
Open(i) == status[i] \notin {"absent", "PAID", "CANCELLED"}

At(r, stage) == pc[r] = stage

Goto(r, stage) ==
    /\ pc' = [pc EXCEPT ![r] = stage]
    /\ UNCHANGED <<doc, num>>

(* Mutant: what the handler held is left for the next request. *)
FinishDirty(r) ==
    /\ pc' = [pc EXCEPT ![r] = "idle"]
    /\ UNCHANGED <<doc, num>>

Finish(r) ==
    /\ pc' = [pc EXCEPT ![r] = "idle"]
    /\ doc' = [doc EXCEPT ![r] = NoInvoice]
    /\ num' = [num EXCEPT ![r] = NoNumber]

(* A handler has read invoice i and found it open. *)
Hold(r, i, stage) ==
    /\ pc' = [pc EXCEPT ![r] = stage]
    /\ doc' = [doc EXCEPT ![r] = i]
    /\ UNCHANGED num

(* What an event says of the invoice. *)
Result == [INVOICE_CREATED |-> "PENDING", INVOICE_PAID |-> "PAID",
           INVOICE_CANCELLED |-> "CANCELLED"]

(* A request that has written the row, but not yet published its event. *)
Announcing(r) == pc[r] \in {"createAudit", "createPublish", "payAudit",
                            "payPublish", "cancelAudit", "cancelPublish"}

(* Request r settles i.  If another request has an event of i still to     *)
(* publish, the two come in either order; if none has, whatever was        *)
(* crossed before is put right.                                            *)
Cross(r, i) ==
    crossed' = IF \E q \in Request \ {r} : doc[q] = i /\ Announcing(q)
               THEN crossed \cup {i} ELSE crossed \ {i}

(* await auditLogService.log(...) *)
Audit(r, action) ==
    /\ audits' = [audits EXCEPT ![doc[r]][action] = @ + 1]
    /\ UNCHANGED <<table, effects, events, feed, mail, reminderJobs,
                   tenantDeleted>>

(* eventPublisher.publish...(...) *)
Publish(r, action) ==
    /\ events' = [events EXCEPT ![doc[r]][action] = @ + 1]
    /\ shown' = [shown EXCEPT ![doc[r]] = Result[action]]
    /\ UNCHANGED <<table, effects, audits, crossed, mail, reminderJobs,
                   tenantDeleted>>

-----------------------------------------------------------------------------
(* create                                                                  *)

(* The table's bound: a create starts only if a row is left for it. *)
RoomForOneMore ==
    Cardinality({r \in Request : At(r, "createInsert")})
        < Cardinality({i \in Invoice : status[i] = "absent"})

CreateCount(r, p) ==
    /\ At(r, "idle")
    /\ RoomForOneMore
    /\ pc' = [pc EXCEPT ![r] = "createInsert"]
    /\ num' = [num EXCEPT
                 ![r] = [period |-> p, seq |-> CountByBillingPeriod(p) + 1]]
    /\ UNCHANGED <<table, trail, mail, reminderJobs, tenantDeleted, doc>>

CreateInsert(r, i) ==
    /\ At(r, "createInsert")
    /\ NumberFree(num[r])
    /\ status[i] = "absent"
    /\ status' = [status EXCEPT ![i] = "PENDING"]
    /\ number' = [number EXCEPT ![i] = num[r]]
    /\ effects' = [effects EXCEPT ![i]["INVOICE_CREATED"] = @ + 1]
    /\ pc' = [pc EXCEPT ![r] = "createAudit"]
    /\ doc' = [doc EXCEPT ![r] = i]
    /\ UNCHANGED <<paidAt, audits, events, feed, mail, reminderJobs,
                   tenantDeleted, num>>

(* Another request has inserted the number since it was generated: the     *)
(* unique violation is not caught, and the request fails.                  *)
CreateDuplicate(r) ==
    /\ At(r, "createInsert")
    /\ ~NumberFree(num[r])
    /\ Finish(r)
    /\ UNCHANGED <<table, trail, mail, reminderJobs, tenantDeleted>>

CreateAudit(r) ==
    /\ At(r, "createAudit")
    /\ Audit(r, "INVOICE_CREATED")
    /\ Goto(r, "createPublish")

CreatePublish(r) ==
    /\ At(r, "createPublish")
    /\ Publish(r, "INVOICE_CREATED")
    /\ Finish(r)

-----------------------------------------------------------------------------
(* pay, and the confirmation e-mail it ends with.  Whatever goes wrong in  *)
(* the e-mail part is caught there, and the request still succeeds: for    *)
(* the state that is the same as the handler ending, so Abort stands for   *)
(* it.                                                                     *)

PayFind(r, i) ==
    /\ At(r, "idle")
    /\ Open(i)
    /\ Hold(r, i, "payUpdate")
    /\ UNCHANGED <<table, trail, mail, reminderJobs, tenantDeleted>>

PayUpdate(r) ==
    /\ At(r, "payUpdate")
    /\ status' = [status EXCEPT ![doc[r]] = "PAID"]
    /\ paidAt' = [paidAt EXCEPT ![doc[r]] = TRUE]
    /\ effects' = [effects EXCEPT ![doc[r]]["INVOICE_PAID"] = @ + 1]
    /\ Cross(r, doc[r])
    /\ Goto(r, "payAudit")
    /\ UNCHANGED <<number, audits, events, shown, mail, reminderJobs,
                   tenantDeleted>>

(* Mutant: the event is sent before the audit row is written. *)
PayAuditLate(r) ==
    /\ At(r, "payAudit")
    /\ Publish(r, "INVOICE_PAID")
    /\ Goto(r, "payPublish")

PayAudit(r) ==
    /\ At(r, "payAudit")
    /\ Audit(r, "INVOICE_PAID")
    /\ Goto(r, "payPublish")

PayPublish(r) ==
    /\ At(r, "payPublish")
    /\ Publish(r, "INVOICE_PAID")
    /\ Goto(r, "mailTenant")

MailTenant(r) ==
    /\ At(r, "mailTenant")
    /\ \/ tenantDeleted /\ Finish(r)
       \/ ~tenantDeleted /\ Goto(r, "mailNotify")
    /\ UNCHANGED <<table, trail, mail, reminderJobs, tenantDeleted>>

MailNotify(r) ==
    /\ At(r, "mailNotify")
    /\ notices' = [notices EXCEPT ![doc[r]] = @ + 1]
    /\ Goto(r, "mailEnqueue")
    /\ UNCHANGED <<table, trail, emailJobs, reminderJobs, tenantDeleted>>

MailEnqueue(r) ==
    /\ At(r, "mailEnqueue")
    /\ emailJobs' = [emailJobs EXCEPT ![doc[r]] = @ + 1]
    /\ Finish(r)
    /\ UNCHANGED <<table, trail, notices, reminderJobs, tenantDeleted>>

-----------------------------------------------------------------------------
(* cancel                                                                  *)

CancelFind(r, i) ==
    /\ At(r, "idle")
    /\ Open(i)
    /\ Hold(r, i, "cancelUpdate")
    /\ UNCHANGED <<table, trail, mail, reminderJobs, tenantDeleted>>

CancelUpdate(r) ==
    /\ At(r, "cancelUpdate")
    /\ status' = [status EXCEPT ![doc[r]] = "CANCELLED"]
    /\ effects' = [effects EXCEPT ![doc[r]]["INVOICE_CANCELLED"] = @ + 1]
    /\ Cross(r, doc[r])
    /\ Goto(r, "cancelAudit")
    /\ UNCHANGED <<number, paidAt, audits, events, shown, mail, reminderJobs,
                   tenantDeleted>>

(* Mutant: the handler returns before it publishes. *)
CancelAuditReturns(r) ==
    /\ At(r, "cancelAudit")
    /\ Audit(r, "INVOICE_CANCELLED")
    /\ Finish(r)

CancelAudit(r) ==
    /\ At(r, "cancelAudit")
    /\ Audit(r, "INVOICE_CANCELLED")
    /\ Goto(r, "cancelPublish")

CancelPublish(r) ==
    /\ At(r, "cancelPublish")
    /\ Publish(r, "INVOICE_CANCELLED")
    /\ Finish(r)

-----------------------------------------------------------------------------
(* sendReminder: the manual reminder, which neither reads nor sets the     *)
(* flags of the scheduler.                                                 *)

RemindFind(r, i) ==
    /\ At(r, "idle")
    /\ Open(i)
    /\ Hold(r, i, "remindTenant")
    /\ UNCHANGED <<table, trail, mail, reminderJobs, tenantDeleted>>

RemindTenant(r) ==
    /\ At(r, "remindTenant")
    /\ \/ tenantDeleted /\ Finish(r)
       \/ ~tenantDeleted /\ Goto(r, "remindEnqueue")
    /\ UNCHANGED <<table, trail, mail, reminderJobs, tenantDeleted>>

RemindEnqueue(r) ==
    /\ At(r, "remindEnqueue")
    /\ reminderJobs' = reminderJobs \cup {doc[r]}
    /\ Finish(r)
    /\ UNCHANGED <<table, trail, mail, tenantDeleted>>

-----------------------------------------------------------------------------
(* An await that throws, or the death of the replica that runs the         *)
(* handler: what was written stays written, the rest is never done.        *)
Abort(r) ==
    /\ MayAbort
    /\ ~At(r, "idle")
    /\ Finish(r)
    /\ crossed' = IF Announcing(r) THEN crossed \cup {doc[r]} ELSE crossed
    /\ UNCHANGED <<table, effects, audits, events, shown, mail, reminderJobs,
                   tenantDeleted>>

(* TenantService.remove, the one thing outside that these handlers see.    *)
RemoveTenant ==
    /\ ~tenantDeleted
    /\ tenantDeleted' = TRUE
    /\ UNCHANGED <<table, trail, mail, reminderJobs, handlers>>

(* The arrival of a request. *)
Arrive(r) ==
    \/ \E p \in Period : CreateCount(r, p)
    \/ \E i \in Invoice : PayFind(r, i) \/ CancelFind(r, i) \/ RemindFind(r, i)

(* The next step of a request in progress. *)
Step(r) ==
    \/ (\E i \in Invoice : CreateInsert(r, i)) \/ CreateDuplicate(r)
    \/ CreateAudit(r) \/ CreatePublish(r)
    \/ PayUpdate(r) \/ PayAudit(r) \/ PayPublish(r)
    \/ MailTenant(r) \/ MailNotify(r) \/ MailEnqueue(r)
    \/ CancelUpdate(r) \/ CancelAudit(r) \/ CancelPublish(r)
    \/ RemindTenant(r) \/ RemindEnqueue(r)

Next == RemoveTenant \/ \E r \in Request : Arrive(r) \/ Step(r) \/ Abort(r)

Spec == Init /\ [][Next]_vars

(* Node runs a handler on as soon as its await resolves, and the database  *)
(* answers every query: a request in progress goes on.  Nothing obliges    *)
(* requests to arrive, handlers to fail or the tenant to be removed.       *)
FairSpec == Spec /\ \A r \in Request : WF_vars(Step(r))
-----------------------------------------------------------------------------
(* Properties                                                              *)

TableOK ==
    /\ status \in [Invoice -> InvoiceStatus \cup {"absent"}]
    /\ number \in [Invoice -> InvoiceNumber]
    /\ paidAt \in [Invoice -> BOOLEAN]

TrailOK ==
    /\ effects \in [Invoice -> [AuditAction -> Nat]]
    /\ audits \in [Invoice -> [AuditAction -> Nat]]
    /\ events \in [Invoice -> [AuditAction -> Nat]]
    /\ notices \in [Invoice -> Nat]
    /\ emailJobs \in [Invoice -> Nat]
    /\ reminderJobs \in SUBSET Invoice
    /\ tenantDeleted \in BOOLEAN

FeedOK ==
    /\ shown \in [Invoice -> InvoiceStatus \cup {"absent"}]
    /\ crossed \subseteq Invoice

HandlersOK ==
    /\ pc \in [Request -> Stage]
    /\ doc \in [Request -> Invoice \cup {NoInvoice}]
    /\ num \in [Request -> InvoiceNumber]
    /\ \A r \in Request :
          /\ doc[r] \in Invoice <=> pc[r] \notin {"idle", "createInsert"}
          /\ At(r, "createInsert") => num[r].period \in Period
          /\ At(r, "idle") => num[r] = NoNumber

(* The type of each variable, and what a handler holds at each stage: an   *)
(* invoice once it has read or inserted one, a number of a real period     *)
(* while it waits to insert it, and nothing when it is idle.               *)
TypeOK == TableOK /\ TrailOK /\ FeedOK /\ HandlersOK

(* The numbers in use in a period are exactly 1 to n, n being the number   *)
(* of its invoices: no gap and no duplicate, however many requests count   *)
(* the period before any of them inserts, and whichever of them fail       *)
(* (generateInvoiceNumber against the UNIQUE constraint).                  *)
GaplessNumbering ==
    \A p \in Period :
        {number[i].seq : i \in InPeriod(p)} = 1 .. CountByBillingPeriod(p)

(* GaplessNumbering is not inductive: it holds because a number that waits *)
(* to be inserted is at most one past the last one, and a row that is not  *)
(* there counts in no period.                                              *)
PendingNumbers ==
    \A r \in Request :
        At(r, "createInsert") =>
            num[r].seq \in 1 .. CountByBillingPeriod(num[r].period) + 1

AbsentUnnumbered ==
    \A i \in Invoice : status[i] = "absent" => number[i] = NoNumber

NumberingInv == GaplessNumbering /\ PendingNumbers /\ AbsentUnnumbered

(* Nothing is announced that was not recorded, and nothing recorded that   *)
(* was not done: an invoice has at most as many events of a kind as audit  *)
(* rows, at most as many of those as writes, and the confirmation e-mails  *)
(* never outnumber the payments announced, with handlers dying anywhere.   *)
TrailOrder ==
    \A i \in Invoice :
        /\ \A a \in AuditAction :
              events[i][a] <= audits[i][a] /\ audits[i][a] <= effects[i][a]
        /\ emailJobs[i] <= notices[i]
        /\ notices[i] <= events[i]["INVOICE_PAID"]

(* A dashboard that listens to the replica shows the status of an invoice  *)
(* once its events are published, unless two of them overlapped between    *)
(* write and event or one was lost with its handler; and the next change   *)
(* that overlaps no other puts it right.                                   *)
FeedAgrees ==
    \A i \in Invoice :
        i \notin crossed /\ (\A r \in Request : doc[r] = i => ~Announcing(r))
            => shown[i] = status[i]

Settlements(i) == effects[i]["INVOICE_PAID"] + effects[i]["INVOICE_CANCELLED"]

(* The guards of pay and cancel read a row that may change before they     *)
(* write, so an invoice can be settled more than once; but only by         *)
(* requests that were in progress together.  However long the system       *)
(* runs, an invoice is not settled more often than requests can overlap.   *)
SettlementBound ==
    \A i \in Invoice : Settlements(i) <= Cardinality(Request)

(* Why the bound holds: an invoice that is not settled has no settlement,  *)
(* and once it is settled only the requests that had read it before can    *)
(* settle it again, each of them once.                                     *)
Settlers(i) ==
    {r \in Request : pc[r] \in {"payUpdate", "cancelUpdate"} /\ doc[r] = i}

SettlementInv ==
    \A i \in Invoice :
        /\ (status[i] = "absent" \/ Open(i)) => Settlements(i) = 0
        /\ status[i] \in {"PAID", "CANCELLED"} =>
              Settlements(i) + Cardinality(Settlers(i)) <= Cardinality(Request)

(* Requests that have found i open and have not acted on it yet. *)
Relying(i) ==
    {r \in Request : /\ doc[r] = i
                     /\ pc[r] \in {"payUpdate", "cancelUpdate",
                                   "remindTenant", "remindEnqueue"}}

AtRest(i) == status[i] \in {"PAID", "CANCELLED"} /\ Relying(i) = {}

(* A settled invoice may be settled otherwise, and its tenant reminded of  *)
(* it, by requests that read it before; once those have ended it is never  *)
(* touched again: no further payment, cancellation or reminder.  (The      *)
(* reads of pay, cancel and sendReminder, all made before an await.)       *)
SettledRests ==
    [][\A i \in Invoice : AtRest(i) =>
          /\ AtRest(i)'
          /\ status'[i] = status[i]
          /\ effects'[i] = effects[i]
          /\ i \in reminderJobs' => i \in reminderJobs]_vars

(* When no request is in progress and none has died, every write has its   *)
(* audit row and its event, and, while the tenant was there, every payment *)
(* its notification and its e-mail job: no path through the handlers skips *)
(* a step.                                                                 *)
NothingLost ==
    (~MayAbort /\ \A r \in Request : At(r, "idle")) =>
        \A i \in Invoice :
            /\ audits[i] = effects[i]
            /\ events[i] = effects[i]
            /\ emailJobs[i] = notices[i]
            /\ ~tenantDeleted => notices[i] = effects[i]["INVOICE_PAID"]

(* "Cannot cancel a paid invoice": an invoice that is paid stays paid.     *)
PaidStaysPaid ==
    [][\A i \in Invoice : status[i] = "PAID" => status'[i] = "PAID"]_vars

(* Creates of one period race for the same number and all but one of them  *)
(* fail, but one does succeed: once a request waits to insert the number   *)
(* that is next in its period, the period gets one invoice more.           *)
NumberingProgress ==
    \A p \in Period, n \in 0 .. Cardinality(Invoice) - 1 :
        (\E r \in Request : /\ At(r, "createInsert")
                            /\ num[r] = [period |-> p, seq |-> n + 1]
                            /\ CountByBillingPeriod(p) = n)
            ~> CountByBillingPeriod(p) > n

(* The numbers the rows carry are those a sequence per period would have   *)
(* given: the abstract ledger's counter is the count that the code reads.  *)
Weak == INSTANCE InvoiceLedger
            WITH last <- [p \in Period |-> CountByBillingPeriod(p)],
                 Atomic <- FALSE

Strict == INSTANCE InvoiceLedger
            WITH last <- [p \in Period |-> CountByBillingPeriod(p)],
                 Atomic <- TRUE

(* Rows are never deleted, so the invoice a handler has read is still      *)
(* there; and no code sets the status OVERDUE.                             *)
RowsStay ==
    /\ \A i \in Invoice : status[i] # "OVERDUE"
    /\ \A r \in Request : doc[r] \in Invoice => status[doc[r]] # "absent"

(* With one request at a time, what a guard has read is still so.          *)
GuardsHold ==
    \A r \in Request :
        pc[r] \in {"payUpdate", "cancelUpdate"} => status[doc[r]] = "PENDING"

(* Whatever the requests do, the table is a ledger that numbers atomically *)
(* and in which an open invoice is settled, perhaps again, never reopened. *)
ImplementsWeakLedger == Weak!Spec

(* The ledger the guards of the code describe, with final settlements: it  *)
(* is what the code implements when requests do not overlap.               *)
ImplementsStrictLedger == Strict!Spec
=============================================================================
