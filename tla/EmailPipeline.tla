---------------------------- MODULE EmailPipeline ----------------------------
(***************************************************************************)
(* From a queued reminder or overdue job to an e-mail: the two processors  *)
(* of the billing queues, which render the mail, create its notification   *)
(* and queue an e-mail job; the e-mail processor, which hands the mail to  *)
(* the SMTP server and marks the notification; and the notification        *)
(* service's resend.                                                       *)
(*                                                                         *)
(* Every replica has a worker for each queue, and a worker runs one job at *)
(* a time.  BullMQ, which is outside of this repository, is modelled by    *)
(* what the processors can tell of it: a job is handed to one worker; one  *)
(* that throws is retried until its attempts are used up; one whose lock   *)
(* is not renewed is stalled and handed out again, once, and its worker    *)
(* need not be dead.  The backoff between attempts is a job waiting.       *)
(***************************************************************************)
EXTENDS Integers, FiniteSets

CONSTANTS
    BillingJob,     \* jobs of the reminder and overdue queues
    OverdueJob,     \* those of the overdue queue
    Notice,         \* identities (uuid) of notifications: the table's bound
    ServiceNotice,  \* those set aside for pay and for a tenant's welcome
    BillingWorker,  \* workers of the billing queues
    EmailWorker,    \* workers of the e-mail queue
    Nobody,         \* the holder of a job that no worker has locked
    Nothing,        \* what an idle worker works on; the origin of no job
    Attempts,       \* the option "attempts" of queue.add
    MaxStalled,     \* BullMQ's maxStalledCount
    MaxResends      \* bound on the resends of a notification

ASSUME JobAssumption ==
    /\ IsFiniteSet(Notice) /\ IsFiniteSet(BillingJob)
    /\ OverdueJob \subseteq BillingJob
    /\ ServiceNotice \subseteq Notice
    /\ BillingJob \cap Notice = {}
    /\ Nothing \notin BillingJob \cup Notice
ASSUME WorkerAssumption ==
    /\ IsFiniteSet(BillingWorker) /\ IsFiniteSet(EmailWorker)
    /\ BillingWorker \cap EmailWorker = {}
    /\ Nobody \notin BillingWorker \cup EmailWorker
ASSUME BoundAssumption ==
    /\ Attempts \in Nat \ {0}
    /\ MaxStalled \in Nat
    /\ MaxResends \in Nat

VARIABLES
    job,            \* the queues: an e-mail job has its notification's name
    status,         \* notifications.status, "absent" while there is no row
    sentAt,         \* is notifications.sent_at set?
    failureReason,  \* is notifications.failure_reason set?
    origin,         \* the billing job that created the notification
    mails,          \* mails that the SMTP server accepted
    overdueEvents,  \* invoice.overdue events, by job
    sentEvents,     \* notifications with a notification.sent event
    failedEvents,   \* notifications with a notification.failed event
    resends,        \* resends of a notification
    resendAudits,   \* their rows in audit_logs
    pc,             \* what each worker does next
    cur,            \* the job it works on
    made            \* the notification a billing worker has created

rows == <<status, sentAt, failureReason, origin>>
events == <<overdueEvents, sentEvents, failedEvents>>
requests == <<resends, resendAudits>>
workers == <<pc, cur, made>>
vars == <<job, rows, mails, events, requests, workers>>

-----------------------------------------------------------------------------
JobId == BillingJob \cup Notice
Worker == BillingWorker \cup EmailWorker

JobState == {"absent", "waiting", "active", "completed", "failed"}
NotificationStatus == {"PENDING", "SENT", "FAILED"}

Stage == {"idle", "create", "addEmail",
          "send", "markSent", "publishSent", "markFailed", "publishFailed",
          "resolve", "reject"}

NoJob == [state |-> "absent", attempts |-> 0, stalls |-> 0, holder |-> Nobody]

Init ==
    /\ job = [j \in JobId |-> NoJob]
    /\ status = [n \in Notice |-> "absent"]
    /\ sentAt = [n \in Notice |-> FALSE]
    /\ failureReason = [n \in Notice |-> FALSE]
    /\ origin = [n \in Notice |-> Nothing]
    /\ mails = [n \in Notice |-> 0]
    /\ overdueEvents = [b \in BillingJob |-> 0]
    /\ sentEvents = {}
    /\ failedEvents = {}
    /\ resends = [n \in Notice |-> 0]
    /\ resendAudits = [n \in Notice |-> 0]
    /\ pc = [w \in Worker |-> "idle"]
    /\ cur = [w \in Worker |-> Nothing]
    /\ made = [w \in Worker |-> Nothing]

-----------------------------------------------------------------------------
(* BullMQ                                                                  *)

At(w, s) == pc[w] = s

Goto(w, s) ==
    /\ pc' = [pc EXCEPT ![w] = s]
    /\ UNCHANGED <<cur, made>>

Idle(w) ==
    /\ pc' = [pc EXCEPT ![w] = "idle"]
    /\ cur' = [cur EXCEPT ![w] = Nothing]
    /\ made' = [made EXCEPT ![w] = Nothing]

Add(j) == job' = [job EXCEPT ![j].state = "waiting"]

(* A worker locks a waiting job and calls process. *)
Take(w, j, s) ==
    /\ At(w, "idle")
    /\ job[j].state = "waiting"
    /\ job' = [job EXCEPT ![j].state = "active", ![j].holder = w]
    /\ pc' = [pc EXCEPT ![w] = s]
    /\ cur' = [cur EXCEPT ![w] = j]
    /\ UNCHANGED made

(* What a worker reports of a job counts only if it still has the lock. *)
Locked(w) == job[cur[w]].holder = w

Released(j, s) ==
    [job EXCEPT ![j].state = s, ![j].holder = Nobody, ![j].attempts = @ + 1]

(* process has returned. *)
Complete(w) ==
    /\ At(w, "resolve")
    /\ job' = IF Locked(w) THEN Released(cur[w], "completed") ELSE job
    /\ Idle(w)
    /\ UNCHANGED <<rows, mails, events, requests>>

(* process has thrown: the job is tried again if attempts are left. *)
Retry(w) ==
    /\ At(w, "reject")
    /\ job' = IF ~Locked(w) THEN job
              ELSE IF job[cur[w]].attempts + 1 < Attempts
                   THEN Released(cur[w], "waiting")
                   ELSE Released(cur[w], "failed")
    /\ Idle(w)
    /\ UNCHANGED <<rows, mails, events, requests>>

(* The lock of an active job expires: its worker has died, or is alive and *)
(* could not renew it.                                                     *)
Stall(j) ==
    /\ job[j].state = "active"
    /\ job' = [job EXCEPT
                 ![j].state = IF job[j].stalls < MaxStalled THEN "waiting"
                                                            ELSE "failed",
                 ![j].stalls = @ + 1,
                 ![j].holder = Nobody]
    /\ UNCHANGED <<rows, mails, events, requests, workers>>

(* A replica dies; what its workers had locked will be found stalled. *)
Die(w) ==
    /\ ~At(w, "idle")
    /\ job' = IF Locked(w) THEN [job EXCEPT ![cur[w]].holder = Nobody] ELSE job
    /\ Idle(w)
    /\ UNCHANGED <<rows, mails, events, requests>>

-----------------------------------------------------------------------------
(* The processors of the billing queues                                    *)

(* The scheduler or sendReminder has queued a job. *)
Enqueue(b) ==
    /\ job[b].state = "absent"
    /\ Add(b)
    /\ UNCHANGED <<rows, mails, events, requests, workers>>

(* The overdue processor publishes its event before anything else, with no *)
(* await before it.                                                        *)
BillingStart(w, b) ==
    /\ w \in BillingWorker
    /\ Take(w, b, "create")
    /\ overdueEvents' = IF b \in OverdueJob
                        THEN [overdueEvents EXCEPT ![b] = @ + 1]
                        ELSE overdueEvents
    /\ UNCHANGED <<rows, mails, sentEvents, failedEvents, requests>>

(* Identities are interchangeable, so a new row takes any that is free. *)
Free == {n \in Notice \ ServiceNotice : status[n] = "absent"}
Fresh == CHOOSE n \in Free : TRUE

(* The template is read and filled in and the PDF generated, which changes *)
(* nothing, and the notification created.                                  *)
BillingCreate(w) ==
    /\ At(w, "create")
    /\ Free # {}
    /\ status' = [status EXCEPT ![Fresh] = "PENDING"]
    /\ origin' = [origin EXCEPT ![Fresh] = cur[w]]
    /\ made' = [made EXCEPT ![w] = Fresh]
    /\ pc' = [pc EXCEPT ![w] = "addEmail"]
    /\ UNCHANGED <<job, sentAt, failureReason, mails, events, requests, cur>>

(* Mutant: the processor forgets to await, and to queue, the e-mail job. *)
BillingAddLost(w) ==
    /\ At(w, "addEmail")
    /\ Goto(w, "resolve")
    /\ UNCHANGED <<job, rows, mails, events, requests>>

BillingAdd(w) ==
    /\ At(w, "addEmail")
    /\ Add(made[w])
    /\ Goto(w, "resolve")
    /\ UNCHANGED <<rows, mails, events, requests>>

(* Any await of the processor throws.  queue.add may have been carried out *)
(* all the same.                                                           *)
BillingThrow(w) ==
    /\ pc[w] \in {"create", "addEmail"}
    /\ \/ job' = job
       \/ At(w, "addEmail") /\ Add(made[w])
    /\ Goto(w, "reject")
    /\ UNCHANGED <<rows, mails, events, requests>>

-----------------------------------------------------------------------------
(* The e-mail processor                                                    *)

EmailStart(w, n) ==
    /\ w \in EmailWorker
    /\ Take(w, n, "send")
    /\ UNCHANGED <<rows, mails, events, requests>>

(* Mutant: the mail is handed over again when the answer is slow. *)
SendMailAgain(w) ==
    /\ At(w, "send")
    /\ mails' = [mails EXCEPT ![cur[w]] = @ + 2]
    /\ Goto(w, "markSent")
    /\ UNCHANGED <<job, rows, events, requests>>

SendMail(w) ==
    /\ At(w, "send")
    /\ mails' = [mails EXCEPT ![cur[w]] = @ + 1]
    /\ Goto(w, "markSent")
    /\ UNCHANGED <<job, rows, events, requests>>

(* Mutant: a mail that could not be sent is marked as sent. *)
SendFailMarksSent(w) ==
    /\ At(w, "send")
    /\ Goto(w, "markSent")
    /\ UNCHANGED <<job, rows, mails, events, requests>>

(* sendMail throws; the server may have accepted the mail before that. *)
SendFail(w) ==
    /\ At(w, "send")
    /\ \/ mails' = mails
       \/ mails' = [mails EXCEPT ![cur[w]] = @ + 1]
    /\ Goto(w, "markFailed")
    /\ UNCHANGED <<job, rows, events, requests>>

MarkSent(w) ==
    /\ At(w, "markSent")
    /\ status' = [status EXCEPT ![cur[w]] = "SENT"]
    /\ sentAt' = [sentAt EXCEPT ![cur[w]] = TRUE]
    /\ failureReason' = [failureReason EXCEPT ![cur[w]] = FALSE]
    /\ Goto(w, "publishSent")
    /\ UNCHANGED <<job, origin, mails, events, requests>>

PublishSent(w) ==
    /\ At(w, "publishSent")
    /\ sentEvents' = sentEvents \cup {cur[w]}
    /\ Goto(w, "resolve")
    /\ UNCHANGED <<job, rows, mails, overdueEvents, failedEvents, requests>>

(* markSent throws, before or after its update: the catch that is there    *)
(* for sendMail marks the notification as failed.                          *)
MarkSentThrow(w) ==
    /\ pc[w] \in {"markSent", "publishSent"}
    /\ Goto(w, "markFailed")
    /\ UNCHANGED <<job, rows, mails, events, requests>>

(* Mutant: the reason of the failure is not kept. *)
MarkFailedNoReason(w) ==
    /\ At(w, "markFailed")
    /\ status' = [status EXCEPT ![cur[w]] = "FAILED"]
    /\ Goto(w, "publishFailed")
    /\ UNCHANGED <<job, sentAt, failureReason, origin, mails, events, requests>>

MarkFailed(w) ==
    /\ At(w, "markFailed")
    /\ status' = [status EXCEPT ![cur[w]] = "FAILED"]
    /\ failureReason' = [failureReason EXCEPT ![cur[w]] = TRUE]
    /\ Goto(w, "publishFailed")
    /\ UNCHANGED <<job, sentAt, origin, mails, events, requests>>

(* Mutant: the error is not thrown again after it was recorded. *)
PublishFailedSwallow(w) ==
    /\ At(w, "publishFailed")
    /\ failedEvents' = failedEvents \cup {cur[w]}
    /\ Goto(w, "resolve")
    /\ UNCHANGED <<job, rows, mails, overdueEvents, sentEvents, requests>>

(* The event, and "throw error". *)
PublishFailed(w) ==
    /\ At(w, "publishFailed")
    /\ failedEvents' = failedEvents \cup {cur[w]}
    /\ Goto(w, "reject")
    /\ UNCHANGED <<job, rows, mails, overdueEvents, sentEvents, requests>>

(* markFailed throws as well. *)
MarkFailedThrow(w) ==
    /\ pc[w] \in {"markFailed", "publishFailed"}
    /\ Goto(w, "reject")
    /\ UNCHANGED <<job, rows, mails, events, requests>>

-----------------------------------------------------------------------------
(* InvoiceService.pay and TenantService.create make a notification and     *)
(* queue its e-mail themselves; if the second step fails it is not tried   *)
(* again.                                                                  *)
ServiceNotify(n) ==
    /\ n \in ServiceNotice
    /\ status[n] = "absent"
    /\ status' = [status EXCEPT ![n] = "PENDING"]
    /\ UNCHANGED <<job, sentAt, failureReason, origin, mails, events, requests,
                   workers>>

ServiceEnqueue(n) ==
    /\ n \in ServiceNotice
    /\ status[n] # "absent"
    /\ job[n].state = "absent"
    /\ Add(n)
    /\ UNCHANGED <<rows, mails, events, requests, workers>>

(* resend: the row, then the audit log; nothing is queued. *)
ResendUpdate(n) ==
    /\ status[n] # "absent"
    /\ resends[n] < MaxResends
    /\ resends' = [resends EXCEPT ![n] = @ + 1]
    /\ status' = [status EXCEPT ![n] = "PENDING"]
    /\ failureReason' = [failureReason EXCEPT ![n] = FALSE]
    /\ UNCHANGED <<job, sentAt, origin, mails, events, resendAudits, workers>>

ResendAudit(n) ==
    /\ resendAudits[n] < resends[n]
    /\ resendAudits' = [resendAudits EXCEPT ![n] = @ + 1]
    /\ UNCHANGED <<job, rows, mails, events, resends, workers>>

-----------------------------------------------------------------------------
(* A worker goes on with the job it has. *)
Continue(w) ==
    \/ BillingCreate(w) \/ BillingAdd(w) \/ BillingThrow(w)
    \/ SendMail(w) \/ SendFail(w)
    \/ MarkSent(w) \/ PublishSent(w) \/ MarkSentThrow(w)
    \/ MarkFailed(w) \/ PublishFailed(w) \/ MarkFailedThrow(w)
    \/ Complete(w) \/ Retry(w)

Start(j) ==
    \E w \in Worker :
        \/ j \in BillingJob /\ BillingStart(w, j)
        \/ j \in Notice /\ EmailStart(w, j)

Request(n) == ServiceNotify(n) \/ ServiceEnqueue(n) \/ ResendUpdate(n) \/ ResendAudit(n)

Next ==
    \/ \E w \in Worker : Continue(w) \/ Die(w)
    \/ \E j \in JobId : Start(j) \/ Stall(j)
    \/ \E b \in BillingJob : Enqueue(b)
    \/ \E n \in Notice : Request(n)

Spec == Init /\ [][Next]_vars

(* Workers go on with what they have, take what waits, and BullMQ finds    *)
(* the jobs whose worker is gone.                                          *)
Abandoned(j) == job[j].holder = Nobody /\ Stall(j)

FairSpec ==
    /\ Spec
    /\ \A w \in Worker : WF_vars(Continue(w))
    /\ \A j \in JobId : WF_vars(Start(j)) /\ WF_vars(Abandoned(j))
-----------------------------------------------------------------------------
(* Properties                                                              *)

JobRecord ==
    [state : JobState, attempts : 0 .. Attempts, stalls : 0 .. MaxStalled + 1,
     holder : Worker \cup {Nobody}]

(* The type of each variable, what each worker holds at each stage, and    *)
(* that a notification has a failure reason exactly when it is FAILED.     *)
TypeOK ==
    /\ job \in [JobId -> JobRecord]
    /\ status \in [Notice -> NotificationStatus \cup {"absent"}]
    /\ sentAt \in [Notice -> BOOLEAN]
    /\ failureReason \in [Notice -> BOOLEAN]
    /\ origin \in [Notice -> BillingJob \cup {Nothing}]
    /\ mails \in [Notice -> Nat]
    /\ overdueEvents \in [BillingJob -> Nat]
    /\ sentEvents \in SUBSET Notice
    /\ failedEvents \in SUBSET Notice
    /\ resends \in [Notice -> 0 .. MaxResends]
    /\ resendAudits \in [Notice -> 0 .. MaxResends]
    /\ pc \in [Worker -> Stage]
    /\ cur \in [Worker -> JobId \cup {Nothing}]
    /\ made \in [Worker -> Notice \cup {Nothing}]
    /\ \A w \in Worker : cur[w] = Nothing <=> At(w, "idle")
    /\ \A n \in Notice : failureReason[n] <=> status[n] = "FAILED"

(* What BullMQ keeps of a job: attempts and stalls are left while it is    *)
(* still to be run, only an active job has a holder, and that worker is at *)
(* it.  A notification that is not there has no job, and a worker's job is  *)
(* never forgotten.                                                        *)
JobsKept ==
    /\ \A j \in JobId :
          /\ job[j].state = "absent" => job[j] = NoJob
          /\ job[j].state \in {"waiting", "active"} =>
                job[j].attempts < Attempts /\ job[j].stalls <= MaxStalled
          /\ job[j].attempts + job[j].stalls <= Attempts + MaxStalled
          /\ job[j].holder # Nobody =>
                job[j].state = "active" /\ cur[job[j].holder] = j
    /\ \A n \in Notice : status[n] = "absent" => job[n] = NoJob
    /\ \A w \in Worker : cur[w] # Nothing => job[cur[w]].state # "absent"

(* What the workers of each queue do, and that a billing worker which is   *)
(* about to queue an e-mail has a notification of its own for it.          *)
WorkersApart ==
    /\ \A w \in BillingWorker :
          /\ pc[w] \in {"idle", "create", "addEmail", "resolve", "reject"}
          /\ cur[w] \in BillingJob \cup {Nothing}
    /\ \A w \in EmailWorker :
          /\ pc[w] \notin {"create", "addEmail"}
          /\ cur[w] \in Notice \cup {Nothing}
    /\ \A w \in Worker :
          At(w, "addEmail") => /\ made[w] \in Notice \ ServiceNotice
                               /\ status[made[w]] # "absent"
                               /\ job[made[w]] = NoJob
    /\ \A v, w \in Worker :
          At(v, "addEmail") /\ At(w, "addEmail") /\ made[v] = made[w] => v = w

(* A job is run once for each attempt and once for each stall after which  *)
(* it was handed out again.                                                *)
MaxRuns == Attempts + MaxStalled

Runs(j) ==
    job[j].attempts + job[j].stalls + IF job[j].state = "active" THEN 1 ELSE 0

MadeBy(b) == {n \in Notice : origin[n] = b}

(* A mail goes out at most once per run, and a billing job creates a       *)
(* notification and announces its invoice at most once per run, though     *)
(* nothing checks what an earlier run has done and a stalled run may still *)
(* be going on beside its successor.                                       *)
WorkBound ==
    /\ \A n \in Notice : mails[n] <= MaxRuns
    /\ \A b \in BillingJob :
          /\ Cardinality(MadeBy(b)) <= MaxRuns
          /\ overdueEvents[b] <= MaxRuns

(* Why it holds: each run begun so far has done its work or has it before  *)
(* it, never both.                                                         *)
Doing(s, j) == {w \in Worker : pc[w] = s /\ cur[w] = j}

WorkCounted ==
    /\ \A n \in Notice : mails[n] + Cardinality(Doing("send", n)) <= Runs(n)
    /\ \A b \in BillingJob :
          /\ Cardinality(MadeBy(b)) + Cardinality(Doing("create", b)) <= Runs(b)
          /\ overdueEvents[b] <= Runs(b)

(* A notification that says it was sent, or a dashboard told so, is right: *)
(* the server accepted a mail, whatever runs, retries and resends did in   *)
(* between.                                                                *)
SentIsTrue ==
    \A n \in Notice :
        status[n] = "SENT" \/ sentAt[n] \/ n \in sentEvents => mails[n] > 0

(* A worker that is about to write or announce SENT has sent the mail.     *)
SendersKnow ==
    \A w \in Worker : pc[w] \in {"markSent", "publishSent"} => mails[cur[w]] > 0

(* When BullMQ has a job down as completed, its notification is SENT; only *)
(* a stalled run or a resend can write the row after that.  Retries end    *)
(* with the last run's result, never with an earlier failure's.            *)
CompletedIsSent ==
    \A n \in Notice :
        job[n].state = "completed" /\ job[n].stalls = 0 /\ resends[n] = 0
            => status[n] = "SENT"

(* Before its first stall a job has one worker, the one with its lock, and *)
(* nobody else writes its notification.                                    *)
SoleWriter ==
    \A n \in Notice, w \in Worker :
        cur[w] = n /\ job[n].stalls = 0 =>
            /\ job[n].holder = w
            /\ pc[w] \in {"publishSent", "resolve"} /\ resends[n] = 0 =>
                  status[n] = "SENT"

(* A billing job does not vanish: either a mail of its own goes out, or    *)
(* the job, or an e-mail job it has queued, is there to be seen as failed. *)
NothingVanishes ==
    \A b \in BillingJob :
        job[b].state = "waiting" ~>
            \/ job[b].state = "failed"
            \/ \E n \in Notice : /\ origin[n] = b
                                 /\ mails[n] > 0 \/ job[n].state = "failed"

(* What a run of a billing job is for: an e-mail job for a notification of *)
(* its own.                                                                *)
QueuedBy(b) == {n \in MadeBy(b) : job[n].state # "absent"}

(* A job as the abstract module sees it. *)
Report == [absent |-> "absent", waiting |-> "queued", active |-> "queued",
           completed |-> "done", failed |-> "failed"]

Reported(j) == Report[job[j].state]

LeastRuns == IF Attempts <= MaxStalled THEN Attempts ELSE MaxStalled + 1

Emails == INSTANCE AtLeastOnce
    WITH Job <- Notice, Least <- LeastRuns, Most <- MaxRuns,
         state <- [n \in Notice |-> Reported(n)],
         runs <- [n \in Notice |-> Runs(n)],
         effects <- mails

Billing == INSTANCE AtLeastOnce
    WITH Job <- BillingJob, Least <- LeastRuns, Most <- MaxRuns,
         state <- [b \in BillingJob |-> Reported(b)],
         runs <- [b \in BillingJob |-> Runs(b)],
         effects <- [b \in BillingJob |-> Cardinality(QueuedBy(b))]

(* With workers that die, stall, throw after the work is done or overlap   *)
(* their successors, each queue still delivers at least once: an e-mail    *)
(* job that is completed has sent its mail, a billing job that is          *)
(* completed has queued an e-mail, and one that is given up was tried.     *)
ImplementsQueues == Emails!Spec /\ Billing!Spec

(* Why it holds: a notification belongs to the job whose run created it,   *)
(* and a run that has come to its end has done what the job is for.        *)
RunsDeliver ==
    /\ \A n \in ServiceNotice : origin[n] = Nothing
    /\ \A w \in Worker :
          /\ At(w, "addEmail") => origin[made[w]] = cur[w]
          /\ At(w, "resolve") => IF cur[w] \in Notice THEN mails[cur[w]] > 0
                                 ELSE QueuedBy(cur[w]) # {}

(* "Notification queued for resend": the resend of a notification that has *)
(* failed leaves an e-mail job that has yet to be run to its end.          *)
ResendQueues ==
    [][\A n \in Notice :
          status[n] = "FAILED" /\ resends'[n] > resends[n] =>
              job'[n].state \in {"waiting", "active"}]_vars
=============================================================================
