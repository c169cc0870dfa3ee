-------------------------- MODULE InvoiceScheduler --------------------------
(***************************************************************************)
(* InvoiceSchedulerService: the daily scans that queue a reminder job for  *)
(* an invoice that is due soon, an overdue job for one that is past due,   *)
(* and a follow-up job three days after that.  Every replica of the        *)
(* service runs both crons, on one database and one set of queues, with    *)
(* nothing that elects a leader or locks a row.                            *)
(*                                                                         *)
(* A scan queries the invoices once and then, for each row it was given,   *)
(* awaits queue.add and awaits the update of the row's flag; other scans   *)
(* and the invoice requests run at each of those awaits.                   *)
(*                                                                         *)
(* Time is a count of days, kept relative to each invoice: the queries     *)
(* only compare dates with today and a timestamp with three days ago.      *)
(***************************************************************************)
EXTENDS Integers, FiniteSets

CONSTANTS
    Invoice,        \* invoices, all issued with status PENDING
    ReminderCron,   \* the reminder cron of each replica
    OverdueCron,    \* the overdue cron of each replica
    NoInvoice,      \* what a scan holds between two rows
    Lead,           \* days from the first day to the due date (-1: past)
    MaxFaults       \* bound on the scans that fail or do not take place

ASSUME InvoiceAssumption == IsFiniteSet(Invoice) /\ NoInvoice \notin Invoice
ASSUME CronAssumption ==
    /\ IsFiniteSet(ReminderCron)
    /\ IsFiniteSet(OverdueCron)
    /\ ReminderCron \cap OverdueCron = {}
ASSUME LeadAssumption == Lead \in [Invoice -> Nat \cup {-1}]
ASSUME FaultAssumption == MaxFaults \in Nat

VARIABLES
    pending,        \* is invoices.status PENDING?
    hasTenant,      \* does the join find the tenant (not soft-deleted)?
    toDue,          \* days from today to invoices.due_date, -1 once past
    reminderSent,   \* is invoices.reminder_sent_at set?
    notifiedAge,    \* days since invoices.overdue_notified_at, or Never
    followedUp,     \* is invoices.overdue_follow_up_at set?
    jobs,           \* history: jobs queued, by kind and invoice
    noticeAge,      \* history: days since the last overdue job, or Never
    stage,          \* what each cron does next today
    todo,           \* rows of its query a scan has still to go through
    cur,            \* the invoice whose flag a scan is about to set
    faults          \* scans that failed or did not take place so far

rows == <<pending, hasTenant, toDue>>
flags == <<reminderSent, notifiedAge, followedUp>>
queues == <<jobs, noticeAge>>
scans == <<stage, todo, cur, faults>>
vars == <<rows, flags, queues, scans>>

-----------------------------------------------------------------------------
Cron == ReminderCron \cup OverdueCron

Kind == {"reminder", "overdue", "followUp"}

Stage == {"waiting", "done", "followUpQuery",
          "reminderQueue", "reminderFlag",
          "overdueQueue", "overdueFlag",
          "followUpQueue", "followUpFlag"}

(* A timestamp that is NULL.  Ages stop at 4: the code tells apart only    *)
(* less than three days, three days give or take the time of day, and more.*)
Never == -1
Age == Never .. 4
Older(age) == IF age \in 0 .. 3 THEN age + 1 ELSE age

(* The argument of findDueForReminder. *)
DaysAhead == 3

Init ==
    /\ pending = [i \in Invoice |-> TRUE]
    /\ hasTenant = [i \in Invoice |-> TRUE]
    /\ toDue = Lead
    /\ reminderSent = [i \in Invoice |-> FALSE]
    /\ notifiedAge = [i \in Invoice |-> Never]
    /\ followedUp = [i \in Invoice |-> FALSE]
    /\ jobs = [k \in Kind |-> [i \in Invoice |-> 0]]
    /\ noticeAge = [i \in Invoice |-> Never]
    /\ stage = [c \in Cron |-> "waiting"]
    /\ todo = [c \in Cron |-> {}]
    /\ cur = [c \in Cron |-> NoInvoice]
    /\ faults = 0

-----------------------------------------------------------------------------
(* The repository's queries                                                *)

(* Mutant: an invoice due today is not reminded any more. *)
DueForReminderNotToday(i) ==
    /\ pending[i]
    /\ toDue[i] \in 1 .. DaysAhead
    /\ ~reminderSent[i]

DueForReminder(i) ==
    /\ pending[i]
    /\ toDue[i] \in 0 .. DaysAhead
    /\ ~reminderSent[i]

Overdue(i) ==
    /\ pending[i]
    /\ toDue[i] < 0
    /\ notifiedAge[i] = Never

(* overdueNotifiedAt <= NOW() - INTERVAL '3 days' compares times of day as *)
(* well.  Of the invoices that pass the other conditions, those notified   *)
(* four calendar days ago are older than that for certain, those notified  *)
(* three days ago may be.  (Mutant: nobody asks whether it was paid.)      *)
FollowUpCandidateSettled(i) == toDue[i] < 0 /\ ~followedUp[i]

FollowUpCandidate(i) ==
    /\ pending[i]
    /\ toDue[i] < 0
    /\ ~followedUp[i]

(* Mutant: two days are enough. *)
FollowUpResultsEarly ==
    {{i \in Invoice : FollowUpCandidate(i) /\ notifiedAge[i] >= 2}}

FollowUpResults ==
    LET certain == {i \in Invoice : FollowUpCandidate(i) /\ notifiedAge[i] = 4}
        maybe   == {i \in Invoice : FollowUpCandidate(i) /\ notifiedAge[i] = 3}
    IN  {certain \cup some : some \in SUBSET maybe}

-----------------------------------------------------------------------------
(* The steps of a scan.  Rows whose tenant the join did not find are       *)
(* skipped, so they are left out as the result arrives.                    *)

At(c, s) == stage[c] = s

WithTenant(S) == {i \in S : hasTenant[i]}

(* A query returns: go through its rows, or go on if there are none. *)
Receive(c, S, loop, next) ==
    /\ todo' = [todo EXCEPT ![c] = S]
    /\ stage' = [stage EXCEPT ![c] = IF S = {} THEN next ELSE loop]
    /\ UNCHANGED <<rows, flags, queues, cur, faults>>

(* await queue.add(...) for one of the rows. *)
Enqueue(c, i, k, flagStage) ==
    /\ i \in todo[c]
    /\ jobs' = [jobs EXCEPT ![k][i] = @ + 1]
    /\ todo' = [todo EXCEPT ![c] = @ \ {i}]
    /\ cur' = [cur EXCEPT ![c] = i]
    /\ stage' = [stage EXCEPT ![c] = flagStage]
    /\ UNCHANGED <<rows, flags, faults>>

(* After await updateFlags(...): the next row, or on if it was the last. *)
Loop(c, loop, next) ==
    /\ stage' = [stage EXCEPT ![c] = IF todo[c] = {} THEN next ELSE loop]
    /\ cur' = [cur EXCEPT ![c] = NoInvoice]
    /\ UNCHANGED <<rows, queues, todo, faults>>

-----------------------------------------------------------------------------
(* handleReminderScan                                                      *)

ReminderQuery(c) ==
    /\ c \in ReminderCron
    /\ At(c, "waiting")
    /\ Receive(c, WithTenant({i \in Invoice : DueForReminder(i)}),
               "reminderQueue", "done")

ReminderEnqueue(c, i) ==
    /\ At(c, "reminderQueue")
    /\ Enqueue(c, i, "reminder", "reminderFlag")
    /\ UNCHANGED noticeAge

ReminderFlag(c) ==
    /\ At(c, "reminderFlag")
    /\ reminderSent' = [reminderSent EXCEPT ![cur[c]] = TRUE]
    /\ Loop(c, "reminderQueue", "done")
    /\ UNCHANGED <<notifiedAge, followedUp>>

-----------------------------------------------------------------------------
(* handleOverdueScan: the first notification, then the follow-up           *)

(* Mutant: as in the reminder scan, an empty result ends the scan. *)
OverdueQueryReturns(c) ==
    /\ c \in OverdueCron
    /\ At(c, "waiting")
    /\ Receive(c, WithTenant({i \in Invoice : Overdue(i)}),
               "overdueQueue", "done")

OverdueQuery(c) ==
    /\ c \in OverdueCron
    /\ At(c, "waiting")
    /\ Receive(c, WithTenant({i \in Invoice : Overdue(i)}),
               "overdueQueue", "followUpQuery")

OverdueEnqueue(c, i) ==
    /\ At(c, "overdueQueue")
    /\ Enqueue(c, i, "overdue", "overdueFlag")
    /\ noticeAge' = [noticeAge EXCEPT ![i] = 0]

(* Mutant: the scan sets the flag of the follow-up. *)
OverdueFlagWrong(c) ==
    /\ At(c, "overdueFlag")
    /\ followedUp' = [followedUp EXCEPT ![cur[c]] = TRUE]
    /\ Loop(c, "overdueQueue", "followUpQuery")
    /\ UNCHANGED <<reminderSent, notifiedAge>>

OverdueFlag(c) ==
    /\ At(c, "overdueFlag")
    /\ notifiedAge' = [notifiedAge EXCEPT ![cur[c]] = 0]
    /\ Loop(c, "overdueQueue", "followUpQuery")
    /\ UNCHANGED <<reminderSent, followedUp>>

FollowUpQuery(c) ==
    /\ At(c, "followUpQuery")
    /\ \E found \in FollowUpResults :
          Receive(c, WithTenant(found), "followUpQueue", "done")

FollowUpEnqueue(c, i) ==
    /\ At(c, "followUpQueue")
    /\ Enqueue(c, i, "followUp", "followUpFlag")
    /\ UNCHANGED noticeAge

FollowUpFlag(c) ==
    /\ At(c, "followUpFlag")
    /\ followedUp' = [followedUp EXCEPT ![cur[c]] = TRUE]
    /\ Loop(c, "followUpQueue", "done")
    /\ UNCHANGED <<reminderSent, notifiedAge>>

-----------------------------------------------------------------------------
(* A scan that ends early: the query, queue.add or updateFlags throws and  *)
(* the catch around the whole scan gives up the remaining rows, or the     *)
(* replica is down at the hour of the cron or dies during the scan.        *)
Fail(c) ==
    /\ ~At(c, "done")
    /\ faults < MaxFaults
    /\ faults' = faults + 1
    /\ stage' = [stage EXCEPT ![c] = "done"]
    /\ todo' = [todo EXCEPT ![c] = {}]
    /\ cur' = [cur EXCEPT ![c] = NoInvoice]
    /\ UNCHANGED <<rows, flags, queues>>

(* The default schedules, "0 8 * * *" and "0 9 * * *": each cron fires     *)
(* once a day, and a scan takes less than the day.                         *)
NextDay ==
    /\ \A c \in Cron : At(c, "done")
    /\ stage' = [c \in Cron |-> "waiting"]
    /\ toDue' = [i \in Invoice |-> IF toDue[i] < 0 THEN -1 ELSE toDue[i] - 1]
    /\ notifiedAge' = [i \in Invoice |-> Older(notifiedAge[i])]
    /\ noticeAge' = [i \in Invoice |-> Older(noticeAge[i])]
    /\ UNCHANGED <<pending, hasTenant, reminderSent, followedUp, jobs, todo,
                   cur, faults>>

(* InvoiceService.pay or cancel. *)
Settle(i) ==
    /\ pending[i]
    /\ pending' = [pending EXCEPT ![i] = FALSE]
    /\ UNCHANGED <<hasTenant, toDue, flags, queues, scans>>

(* TenantService.remove. *)
RemoveTenant(i) ==
    /\ hasTenant[i]
    /\ hasTenant' = [hasTenant EXCEPT ![i] = FALSE]
    /\ UNCHANGED <<pending, toDue, flags, queues, scans>>

ScanStep(c) ==
    \/ ReminderQuery(c) \/ ReminderFlag(c)
    \/ OverdueQuery(c) \/ OverdueFlag(c)
    \/ FollowUpQuery(c) \/ FollowUpFlag(c)
    \/ \E i \in Invoice :
          \/ ReminderEnqueue(c, i)
          \/ OverdueEnqueue(c, i)
          \/ FollowUpEnqueue(c, i)

Next ==
    \/ \E c \in Cron : ScanStep(c) \/ Fail(c)
    \/ NextDay
    \/ \E i \in Invoice : Settle(i) \/ RemoveTenant(i)

Spec == Init /\ [][Next]_vars

(* Days pass, crons fire and scans go on.  Failures, payments and the      *)
(* removal of tenants never have to happen.                                *)
FairSpec == Spec /\ WF_vars(NextDay) /\ \A c \in Cron : WF_vars(ScanStep(c))
-----------------------------------------------------------------------------
(* Properties                                                              *)

(* The type of each variable, and what a scan holds: a row while it is     *)
(* about to set a flag, none otherwise, and no rows once it is over.       *)
TypeOK ==
    /\ pending \in [Invoice -> BOOLEAN]
    /\ hasTenant \in [Invoice -> BOOLEAN]
    /\ toDue \in [Invoice -> Nat \cup {-1}]
    /\ reminderSent \in [Invoice -> BOOLEAN]
    /\ notifiedAge \in [Invoice -> Age]
    /\ followedUp \in [Invoice -> BOOLEAN]
    /\ jobs \in [Kind -> [Invoice -> Nat]]
    /\ noticeAge \in [Invoice -> Age]
    /\ stage \in [Cron -> Stage]
    /\ todo \in [Cron -> SUBSET Invoice]
    /\ cur \in [Cron -> Invoice \cup {NoInvoice}]
    /\ faults \in 0 .. MaxFaults
    /\ \A c \in Cron :
          /\ cur[c] \in Invoice <=>
                stage[c] \in {"reminderFlag", "overdueFlag", "followUpFlag"}
          /\ stage[c] \in {"waiting", "done", "followUpQuery"} => todo[c] = {}

CronsOf(k) == IF k = "reminder" THEN ReminderCron ELSE OverdueCron

(* The flag is set after the job is queued, and each replica reads it      *)
(* before it queues, so an invoice may get the same job more than once;    *)
(* but no more often than there are replicas, plus once for every scan     *)
(* that failed before it set the flag.                                     *)
JobBound ==
    \A k \in Kind, i \in Invoice :
        jobs[k][i] <= Cardinality(CronsOf(k)) + faults

(* Why it holds.  As long as a flag is not set, every job of its kind is   *)
(* owed to a scan that is about to set it or to one that failed.  Once it  *)
(* is set no query returns the invoice, and only the scans that hold an    *)
(* earlier result can still queue it, each of them once.                   *)
Flagged(k, i) ==
    \/ k = "reminder" /\ reminderSent[i]
    \/ k = "overdue" /\ notifiedAge[i] # Never
    \/ k = "followUp" /\ followedUp[i]

QueueStage == [k \in Kind |-> CASE k = "reminder" -> "reminderQueue"
                                [] k = "overdue"  -> "overdueQueue"
                                [] k = "followUp" -> "followUpQueue"]
FlagStage ==  [k \in Kind |-> CASE k = "reminder" -> "reminderFlag"
                                [] k = "overdue"  -> "overdueFlag"
                                [] k = "followUp" -> "followUpFlag"]

Expecting(k, i) ==
    {c \in Cron : stage[c] \in {QueueStage[k], FlagStage[k]} /\ i \in todo[c]}

Holding(k, i) == {c \in Cron : stage[c] = FlagStage[k] /\ cur[c] = i}

Owed(k, i) ==
    /\ Flagged(k, i) => jobs[k][i] + Cardinality(Expecting(k, i))
                            <= Cardinality(CronsOf(k)) + faults
    /\ ~Flagged(k, i) => jobs[k][i] <= faults + Cardinality(Holding(k, i))

JobsOwed == \A k \in Kind, i \in Invoice : Owed(k, i)

(* A scan never has the row it holds still to go through, and the crons of *)
(* each kind go through their own stages only.                             *)
ScansApart ==
    \A c \in Cron :
        /\ cur[c] \notin todo[c]
        /\ stage[c] \in {"reminderQueue", "reminderFlag"} => c \in ReminderCron
        /\ stage[c] \in {"followUpQuery", "overdueQueue", "overdueFlag",
                         "followUpQueue", "followUpFlag"} => c \in OverdueCron

(* "supaya tidak dikirim lagi": the flags keep a job from being queued     *)
(* again for the same invoice.                                             *)
NoDuplicateJob == \A k \in Kind, i \in Invoice : jobs[k][i] <= 1

(* A flag takes the invoice out of every later scan, so wherever scans     *)
(* fail and overlap none may be set for a job that was never queued; and a *)
(* follow-up follows a first notification.                                 *)
FlagsEarned ==
    /\ \A k \in Kind, i \in Invoice : Flagged(k, i) => jobs[k][i] > 0
    /\ \A i \in Invoice : jobs["followUp"][i] > 0 => jobs["overdue"][i] > 0

(* Why it holds: what a scan is about to flag it has queued, and what it   *)
(* is about to follow up it found flagged.                                 *)
ScansEarn ==
    \A c \in Cron :
        /\ \A k \in Kind : At(c, FlagStage[k]) => jobs[k][cur[c]] > 0
        /\ stage[c] \in {"followUpQueue", "followUpFlag"} =>
              \A i \in todo[c] : jobs["overdue"][i] > 0

(* The days on which the reminder scan finds the invoice. *)
WindowDays(i) ==
    IF Lead[i] < 0 THEN 0 ELSE IF Lead[i] > DaysAhead THEN DaysAhead + 1
                                                      ELSE Lead[i] + 1

(* A scan that fails leaves its remaining rows to the next day's, so an    *)
(* invoice that is still open when it falls due has been reminded, unless  *)
(* scans failed as often as there were scans of its window (H-3 to H-0):   *)
(* one of every replica on each day, the failures counted over all scans.  *)
RemindedBeforeDue ==
    \A i \in Invoice :
        (/\ toDue[i] = -1 /\ pending[i] /\ hasTenant[i]
         /\ faults < WindowDays(i) * Cardinality(ReminderCron))
            => jobs["reminder"][i] >= 1

(* No replica queues a follow-up within three days of any replica's first  *)
(* overdue job for the invoice: a first notification is not chased by its  *)
(* own follow-up, whatever failed or overlapped in between.                *)
FollowUpSpacing ==
    [][\A i \in Invoice :
          jobs'["followUp"][i] > jobs["followUp"][i] => noticeAge[i] >= 3]_vars

(* An invoice that is settled, or whose tenant is removed, is returned by   *)
(* no query made afterwards, on any replica, however soon.  Only the scans *)
(* whose query had returned it before may still queue a job, for they do   *)
(* not look again: each of them one, and it is used up by that.            *)
Closed(i) == ~pending[i] \/ ~hasTenant[i]
Chasing(i) == {c \in Cron : i \in todo[c]}

ChaseEnds ==
    [][\A i \in Invoice : Closed(i) =>
          /\ Closed(i)'
          /\ Chasing(i)' \subseteq Chasing(i)
          /\ \A k \in Kind :
                jobs'[k][i] > jobs[k][i] => Chasing(i)' # Chasing(i)]_vars

(* An invoice that stays open past its due date, of a tenant that stays,   *)
(* gets its follow-up in the end.                                          *)
Escalation ==
    \A i \in Invoice :
        toDue[i] = -1 ~> \/ jobs["followUp"][i] >= 1
                         \/ ~pending[i]
                         \/ ~hasTenant[i]
=============================================================================
