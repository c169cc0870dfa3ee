# Verification of the Agilix Console service

TLA+ models, TLC checks and TLAPS proofs for the NestJS backend in `src/`: the
console from which a company bills the tenants of its point-of-sale product.
Paths below are relative to the repository (`src/src/...` is its source
directory).

## 1. The system

One Node process per replica, three replicas in production
(`src/docker-compose.production.yml:79`), one PostgreSQL database, one Redis
server that holds the BullMQ queues and the token blacklist. Every replica
serves HTTP requests, runs both crons and runs a worker for each queue.

No service uses a transaction, a row lock or a conditional update. A handler is
a sequence of awaits, and between any two of them everything else in the system
may run. That is the main theme of this project: what is still true.

### Components

| component | state | operations | hard behaviour | what makes it correct | module |
|---|---|---|---|---|---|
| InvoiceService (`invoices/invoice.service.ts`) | `invoices` | create, pay, cancel, sendReminder | number = count + 1 with a unique constraint; status read, then written after an await; audit, event and e-mail as separate steps | numbers without gap or duplicate; nothing announced that was not recorded; how often an invoice can be settled | `InvoiceService` |
| InvoiceSchedulerService (`invoices/invoice-scheduler.service.ts`) | the three flags of `invoices`, reminder and overdue queues | reminder scan, overdue scan with its follow-up | every replica scans; queue first, flag after; one error ends a scan | no invoice forgotten, duplicates bounded, the follow-up spaced and certain | `InvoiceScheduler` |
| Processors (`queues/processors/`) | jobs of three queues | render and queue (reminder, overdue), send (e-mail) | retries, stalled jobs, a catch that covers two calls | nothing vanishes; mails bounded by runs | `EmailPipeline` |
| NotificationService (`notifications/notification.service.ts`) | `notifications` | create, markSent, markFailed, resend | written by runs that overlap and by resends | SENT means sent | `EmailPipeline` |
| TenantService (`tenants/tenant.service.ts`) | `tenants` | create, update, lock, unlock, remove | check, await, write; webhooks not awaited; updates of a removed row | an order takes effect once; dashboards and ERPs agree with the table | `Tenants` |
| WebhookDispatcherService | none | dispatch | fire and forget, 5 s timeout | the ERP may miss calls or see them reordered, and nothing worse | `Tenants`, `Devices` |
| DashboardService | none | three reads | six counts without a snapshot | how far the sum of the parts can be off | `Tenants` |
| PosDeviceService (`pos-devices/pos-device.service.ts`) | `pos_devices` | create, update (lock), heartbeat, remove | heartbeat against lock; what to announce is read before the write; two locks told in either order | a locked device falls silent; dashboards and ERPs believe what the row says | `Devices` |
| AuthService, TokenBlacklistService, JwtStrategy (`auth/`) | access and refresh tokens, blacklist with TTL, `users.is_active` | login, refresh, logout, resetPassword, validate | refresh against logout; TTL against token life | a logged-out or closed account gets no new access | `Sessions` |
| UserService (`users/user.service.ts`) | `users` | create, update, deactivate, remove | callers are accounts too, and may lose their role while they act | rights as of the guards, the last SUPER_ADMIN, no closure without a trace | `Accounts` |
| Guards (`guards/`), roles of the controllers | none | canActivate | the role is that of the row, not of the token | separation of duties | `Endpoints`, `Accounts` |
| AuditLogService | `audit_logs` | log | a step of every handler | one row for each change, never one without | in each |
| EventPublisherService, RealtimeService (`events/`) | one Subject per replica | publish, stream | order of events across requests; replicas do not share events | events follow writes | in each |
| List queries (`repositories/modules/`) | none | six `findAll` | pages cut by offset out of a table that changes | a walk misses nothing | `Listing` |
| EmailTemplateRepository, template seed | `email_templates` | render, seed | replacements in the result of replacements; names kept in two places | letters are filled, each placeholder by its value | `Templates` |
| Throttler, HTTP layer, PDF, configuration, start-up | none of their own | | a timeout of 30 s that does not stop the handler | | section 5 |

Calls run from the controllers to the services, from InvoiceService and the
scheduler through the queues to the processors, from those through
NotificationService to the table, and from every service to AuditLogService and
EventPublisherService. The shared state is the database rows and the queues.

## 2. Modules

| module | models |
|---|---|
| `InvoiceLedger` | abstract: a ledger that numbers and settles in one step; `Atomic` says if a settlement is final |
| `InvoiceService` | the four handlers, await by await, for any number of requests |
| `InvoiceScheduler` | the two scans of every replica over days |
| `AtLeastOnce` | abstract: a queue whose jobs, when they are done, have had their effect at least once |
| `EmailPipeline` | billing processors, e-mail processor, notification rows, BullMQ |
| `Endpoints` | the roles that each handler of the nine controllers requires |
| `Accounts` | UserService, JwtStrategy and RolesGuard, with the seed of the first account |
| `Sessions` | AuthService and the blacklist, over the life of the tokens |
| `TenantLifecycle` | abstract: orders to lock and unlock, each carried out at most once |
| `Tenants` | TenantService, its events and webhooks, the summary of the dashboard |
| `Devices` | PosDeviceService, heartbeats, and what is announced of a device |
| `Listing` | a client that walks through the pages of a list |
| `Templates` | the seeded templates, the variables of their callers, `render` |
| `MC...` | symmetry, values and composition for TLC; they define nothing of the models |
| `...Proofs` | theorems about the module they are named for; `OutputProofs` about `Listing` and `Templates` |

All modules follow one convention. A request is an element of a set; one
variable says at which await its handler is, another what the handler holds. A
step ends where the code awaits a write or a read that another request can
influence. A request refused by a guard (400, 404, 409) changes nothing and is
left out. Every await may throw, or the replica may die there: what was written
stays and the rest is not done. Identities of rows are never used again.

`MCAccess` and `MCFleet` check several modules in one run. Those share no
variable, so a step of one neither helps nor hinders another; instead of the
product of their states the initial state picks (`focus`) which of them moves.
`FiniteAssumption` of `Tenants` and `ListingAssumption` are there for the proofs;
their sets are finite in any deployment.

### InvoiceService

Actions are named for the handler and the await (`CreateCount`, `CreateInsert`,
`PayUpdate`, ...); `pc` is the await, `doc` the invoice the handler has read,
`num` the number it has generated. A unique violation is `CreateDuplicate`.
`repository.update` is an update and a read of the row; the read changes
nothing, and its failure is an `Abort` at the next stage.

`effects` counts the writes by the action they belong to, so that the audit rows
and events can be compared with what was done. `PENDING`, `PAID` and `CANCELLED`
are all the statuses that any code sets: `OVERDUE` is in the enumeration and
nowhere else, and an overdue invoice is a pending one whose due date is past.

Numbers are records of a period and a sequence number: `billingPeriod` is
validated as `YYYY-MM`, and padding to four digits loses nothing, so two numbers
are the same string exactly when both fields agree.

`shown` is the status that the last event of an invoice has told the dashboards
of this replica, and `crossed` the invoices of which two handlers overlapped
between write and event, or one of them failed there; both are history.

### InvoiceScheduler

`ReminderCron` and `OverdueCron` have an element for each replica. A cron goes
through its day: a query that returns a set of rows, then for each row
`queue.add` and the update of its flag. The order of the rows is free (the
queries have no ORDER BY). Dates are kept as distances: `toDue` in days until
due, `notifiedAge` in days since the first notification. The follow-up query
compares timestamps, so three days after the notification the row may or may
not be in the result: `FollowUpResults` is the set of the possible answers.
`Fail` is the catch around a scan, a cron that did not fire, or a crash; flags
and jobs already written stay. `NextDay` waits until the day's scans have ended:
the default schedules are 24 hours apart and a scan takes far less.

`jobs` and `noticeAge` are history. `Closed` says when an invoice is settled or
orphaned, `Chasing` which scans have it from a query and have yet to come to it.
Jobs that an administrator queues with sendReminder set no flag and
belong to `InvoiceService`.

`FlagsEarned` says why the order is queue first, flag after: a flag takes the
invoice out of every later scan, so it may never stand for a job that was not
queued. The price are the duplicates that `JobBound` counts.

### EmailPipeline and AtLeastOnce

A job has a state, the attempts made, the stalls and the worker that holds its
lock. BullMQ is external: `Take`, `Complete`, `Retry` and `Stall` are what its
documentation and options promise (`attempts: 3` in every `queue.add` of this
code; `maxStalledCount` is 1 by default). A stalled job is handed out again
although its former worker may be alive and still writes rows; what that worker
reports is ignored, because it has lost the lock. A worker that dies forgets its
job; BullMQ finds it later. The reminder and the overdue processor differ only in
the event that the second publishes first, so both are `Billing...` actions, and
`OverdueJob` says which jobs publish. `BillingThrow` and `MarkSentThrow` are the
awaits that may fail, `queue.add` among them, which may have been carried out
when it fails. An e-mail job bears the name of its notification, since each
`queue.add` follows the insert of a row of its own. `ServiceNotify` and
`ServiceEnqueue` are the same two steps in `pay` (confirmation) and in
`TenantService.create` (welcome).

`AtLeastOnce` is what the rest of the service relies on: jobs are queued, begun,
have their effect while a run is under way, and end done or given up, with no
workers, locks, attempts or crashes. `EmailPipeline` implements it twice
(`ImplementsQueues`). For the e-mail queue the effect of a job is a mail that
the SMTP server accepted; for the billing queues it is an e-mail job for a
notification of the job's own (`QueuedBy`). A job is given up no earlier than
after `LeastRuns` runs, the smaller of attempts and stalls allowed plus one, and
run at most `MaxRuns` times, attempts plus stalls allowed.

### Endpoints and Accounts

`Endpoints` has the roles of every handler, read off `@Roles` and `@UseGuards`;
`Duties` in `Accounts` has the table of roles of the repository's README with
what the code adds to it: that table calls VIEWER read-only, but
`heartbeat` has no `@Roles`, so any account may send one. Only login, refresh
and health are open to nobody in particular.

A request arrives in one action with its guards: `Validated` is what
`JwtStrategy.validate` finds in the row, `Authorised` compares the role *found
there*. After that nobody looks again, and `overtaken` records which requests
had their caller changed under them. `AccountsInit` is the empty table; the seed
inserts the first SUPER_ADMIN when its address is free, and finds it taken even
when that row is removed: the UNIQUE constraint on `email` covers soft-deleted
rows, which `findByEmail` does not see. A create with the address of a removed
user is therefore a failed insert (500), not the documented 409. A PATCH with an
empty body reaches `repository.update(id, {})`, which throws and changes
nothing. `lost` is where a failure left an audit row unwritten.

### Sessions

A token is known by its account and the second it was signed in: two logins of
one account in the same second give the same token. `LoginUpdate`, `RefreshSign`
and `LogoutRevoke` are the awaits between which the others run. The blacklist is
a set of keys with the time when Redis drops them. `Lifetime` is how jsonwebtoken
reads the setting, `ParseTtlToSeconds` how the blacklist does: of a number
without a suffix the first makes milliseconds and the second seconds, which errs
on the safe side. Settings have the suffixes the code documents. Neither logout
nor a change of the password touches access tokens, so those stay good for their
life; what is promised is about refresh tokens and closed accounts.

A revoked token is `CutOff` once no refresh carries it past the blacklist, and a
closed account is `Shut` once nobody but refreshes works in its name. The
liveness properties (`LogoutTakesHold`, `ClosureTakesHold`) say that it comes to
that; the action properties (`RevocationStands`, `ClosureStands`) that it then
stays so, and that no token is signed any more.

### Tenants and TenantLifecycle

`write`, `audit` and `announce` are the stages of the five handlers. `crossed`
records the tenants whose latest changes overlapped between write and event, or
failed there, and `untold` those whose ERP missed or may confuse a webhook;
both are put right by the next change that crosses no other. `posted`
counts the webhooks on their way, each to the address it was sent to: two that
say the same are two, with ids of their own, and each arrives or is lost, in any
order. `board` is a dashboard that listens
to the replica where the events are published: a Subject is local to its
process, so a dashboard on another replica hears nothing until it reloads.
`toCount`, `tally` and `moves` are the summary: one count per status, and how
many changes were made meanwhile. `SUSPENDED` and `EXPIRED` are written by no
code and counted as 0.

`address` is `erpWebhookUrl` with `erpWebhookKey`, `NoErp` while either is
missing. An update may set, change or clear it, also under a lock that has read
the row before and will tell the old address. `erp` is what each address was
told last of each tenant. The webhook of an update goes to the new address and
does not carry the status, so after a change of address the tenant is `untold`
until its status changes again.

`TenantLifecycle` has no awaits, audit rows, events or webhooks. The mapping
takes a lock or unlock past its guard as an order given.

### Devices

A device has two locks: the flag `isLocked`, which stops heartbeats, and the
status LOCKED, which does not and which a heartbeat replaces. `shownOnline` is
what a dashboard shows: it loads the list (`Reload`) whenever it likes and
otherwise hears `device.online` only, because `publishDeviceOffline` has no
caller. `toldLocked` is what the tenant's present ERP was sent last of each
device: `device.locked` adds to it, `device.unlocked` takes away. `NewErp` is an
update of the tenant that gives it another ERP. `lastSeenAt` is read by listings
only and left out.

The rest is history. `late` are the heartbeats let in before their device was
locked. `misled` are those that read ONLINE before a patch wrote another status:
they will put the device online and say nothing. `silent` are the devices that
went online so, or by hand, or by a heartbeat that failed before it could say
so; the next event or load takes them out. `mistold` are the devices whose last
two locks or unlocks crossed between write and webhook, or whose last one
failed there, found no address, or went to an ERP that is no longer the
tenant's; the next lock or unlock that crosses no other takes them out.

### Listing

All six `findAll` have one form: filters, `created_at DESC`, OFFSET and LIMIT.
`Tables` says which columns each filters by, which of those change, and whether
rows are removed. A page is cut from the table as it is when it is fetched, and
rows of equal `created_at` come in any order each time. `created_at` is when the
transaction of an insert began, so an insert may appear below rows that a client
has seen. The filter `isActive=false` is taken at its word; whether the
conversion of query strings yields `false` is decided in a library.

### Templates

A text has one piece for each placeholder of its template; the wording between
is left out. `Render` reads the template, and `ReplaceNext` is one round of its
loop: one variable, in the subject and in the text, *in the result so far*, with
`replaceAll`, for which `$&` in a value is not plain text. The names of an owner
and of a business come as they were typed (the DTOs only trim them), so each may
be plain, `$&`, or one of the placeholders in `Spelled`; a name that says more
than that is several pieces, each of which fares as if it were alone. `Harmless`
says when a value is none of these, or spells only a placeholder that has been
replaced before. The seed inserts what is missing and never updates a row that is
there.

## 3. Runs

| run | instance | shows |
|---|---|---|
| `invoice_numbering` | 2 invoices, 2 periods, 2 requests, aborts | `GaplessNumbering`, `TrailOrder`, `FeedAgrees`, `SettlementBound`, `SettledRests`, refinement of the weak ledger |
| `invoice_serial` | 3 invoices, 2 periods, 1 request, aborts | refinement of the strict ledger |
| `invoice_progress` | 2 invoices, 2 periods, 2 requests, fairness | `NothingLost`, `NumberingProgress` |
| `invoice_race` | 1 invoice, 2 requests | **violation** of `PaidStaysPaid` |
| `scheduler_reminders` | 2 replicas, invoices due in 4 days and in 1, 8 faults | `RemindedBeforeDue` |
| `scheduler_overdue` | 2 replicas, invoices past due and due today, 2 faults, fairness | `JobBound`, `FlagsEarned`, `FollowUpSpacing`, `ChaseEnds`, `Escalation` |
| `scheduler_replicas` | 2 replicas, no faults | **violation** of `NoDuplicateJob` |
| `email_delivery` | 1 e-mail, 2 workers, 3 attempts, 1 stall, 2 resends | `SentIsTrue`, `CompletedIsSent` |
| `email_pipeline` | 1 overdue job, 1 worker per queue, room for 3 notifications, fairness | `WorkBound`, `NothingVanishes`, refinement of `AtLeastOnce` by each queue |
| `email_resend` | 1 e-mail, 1 worker | **violation** of `ResendQueues` |
| `access_control` | 2 accounts, 2 addresses, 2 calls at once, 3 in all; 1 member, 2 passwords, 2 visits, access tokens of 1 s and refresh tokens of 2 s, fairness | `Entitled`, `DutiesKept`, `ClosuresAccounted`, `LostRuleIsFinal`; `RevokedStaysRevoked`, `RevocationStands`, `LogoutTakesHold`, `ClosureStands`, `ClosureTakesHold` |
| `fleet` | 2 tenants, 1 of them registered, 2 ERP addresses, 2 requests at once, 3 in all; 2 devices, 2 codes, 2 requests at once, 4 in all; 3 rows in pages of 1 and 2; the four templates with five of their placeholders as names | `BoardsAgree`, `ErpAgrees`, `CountError`, refinement of `TenantLifecycle`; `SilencedOnceLocked`, `OnlineIsShown`, `LockIsTold`; `WalkMissesNothing`; `LettersAreFilled` |

`invoice_numbering` and `email_delivery` check the `TypeOK` of their modules too;
the type invariants of `InvoiceScheduler`, `Accounts`, `Sessions`, `Tenants` and
`Devices` are theorems (section 4).

Why the bounds are enough. Every race in the services is between two handlers
on one row, one period or one address; a third request adds no new kind of
overlap, and the theorems hold for any number. Two invoices of one period are
needed for the numbers to collide, the second period for the WHERE clause of the
count. Eight faults let both replicas fail on each of the four days of a window,
so `RemindedBeforeDue` is checked on both sides of its condition.
`email_delivery` has the code's own three attempts and BullMQ's one stall.
`email_pipeline` uses one attempt and one stall, which is two runs of each job,
and has room for a third notification so that a run too many would be seen.

Two accounts are enough for one to demote the other, or both each other, while
both act; the third call sees what is left. `CalledEndpoints` has every endpoint
that writes users and one of each other kind of duty; `GrantedRoles` the highest
role and the lowest. A refresh token of two seconds outlives an access token of
one, and the clock runs until both have expired. A second tenant is there for
the summary to count one and miss the other; three arrivals let a lock and an
unlock cross and a third change put things right; two addresses let an update
move the webhooks from one ERP to another, and back. A second device lets a code be
used again after its first device is removed, and the fourth job comes after
heartbeat, lock and heartbeat, or after two locks that crossed. Three rows in pages of one are three pages, with
an insert before, on and after the page that is fetched. `Spelled` has
the two names and three placeholders that are replaced after them: `planType` in
the welcome mail only, `amount` and `dueDate` in the others; the other
placeholders fare like these, and the theorem holds for any.

`CHECK_DEADLOCK FALSE` stands in the configurations where the system does stop:
the table is full and no request is in progress, every job has ended, or no more
requests may arrive.

### What the violations show

- **A paid invoice can be cancelled** (`invoice_race`). `cancel` reads PENDING,
  `pay` reads PENDING and writes PAID with `paid_at`, `cancel` writes CANCELLED.
  Both answer 200. The guards and their tests only look at one request.
  `SettlementBound` says how far this goes, and `invoice_serial` that it is the
  only departure from the strict ledger: without overlap the code implements it.
- **Replicas send duplicates** (`scheduler_replicas`). The flag that is there "so
  that it is not sent again" is set after the job is queued, and every replica
  has read it before. `JobBound` is what does hold.
- **A resend sends nothing** (`email_resend`). The endpoint answers
  "Notification queued for resend"; the row goes to PENDING and stays there. The
  400 documented for a notification that cannot be resent does not exist either,
  nor does the 409 "Duplicate invoice" of create: two creates with the same
  content are two invoices, and a lost race is a 500.

### What the conditions of the other properties show

Several properties hold only with an exception, and the exception is what a
reader of the code should know.

- `Entitled`, `DutiesKept`: a call past the guards is finished even if its
  caller was demoted, deactivated or removed meanwhile.
- `LostRuleIsFinal`: the last SUPER_ADMIN can demote, deactivate or remove
  himself, and nothing in the system brings one back.
- `ErpAgrees`: a removal leaves the ERP with the truth only if its webhook is
  neither lost nor overtaken, and an order that crossed another leaves it wrong
  until the next one. An ERP that takes the place of another hears the status
  only when that changes: `tenant.updated` does not carry it.
- `OnlineIsShown`: a status patched to ONLINE is published to nobody, and a
  heartbeat that read ONLINE just before a patch to OFFLINE undoes the patch
  without a word; what a dashboard shows is right again after the next load.
- `LockIsTold`: of a lock and an unlock of one device that overlap the ERP may be
  told in the other order than they were written, and nothing repeats them.
- `ChaseEnds`: an invoice that is settled while a scan has it is still chased by
  that scan, or by the same scan of the other replicas, each of which has it
  from a query of its own.
- `RemindedBeforeDue`: the failures are counted over all scans, so it promises a
  little less than the comment of the window says.
- `SilencedOnceLocked`: heartbeats that were past the guard still write, and
  leave the device ONLINE and locked.
- `LogoutTakesHold`: refreshes past the blacklist finish; access tokens live on.
- `WalkMissesNothing`: a row that leaves the list pulls the next ones over the
  edge of a page, and rows created at the same instant come in no fixed order.
- `LettersAreFilled`: the name of an owner or a business may be read as a
  placeholder or a replacement pattern.
- `SettledRests`: a request that found the invoice open still settles it, or
  still reminds its tenant; requests that come later do neither.
- `RevocationStands`, `ClosureStands`: only once the refreshes, and the handlers,
  that were past their check have ended.

### Fairness

Handlers in progress, scans, workers and the passing of days are weakly fair:
Node resumes a handler when its await resolves, crons fire, BullMQ hands out what
waits and looks for stalled jobs. Nothing else is: requests need not arrive,
payments need not be made, failures need not happen, and which of two outcomes of
a fair step occurs (a send that works or fails) is open. A live worker is never
obliged to lose its lock. `invoice_progress` excludes aborts (`MayAbort` FALSE),
because a handler that dies does lose its remaining steps. In `access_control`
only handlers in progress are fair: nobody has to sign out, no account has to be
closed, and the clock may stand still.

## 4. Proofs

TLAPS checks, for any finite sets of invoices, periods, replicas, jobs,
notifications, tenants and rows, and any sets of requests, accounts, addresses,
members, passwords, devices and codes (the requests of `InvoiceService` and the
workers of `EmailPipeline`, which its bounds count, are finite too):

| theorem | states |
|---|---|
| `InvoiceServiceProofs!TypeCorrect` | `Spec => []TypeOK` |
| `NumberingCorrect` | `Spec => []GaplessNumbering` |
| `SettlementCorrect` | `Spec => []SettlementBound` |
| `WeakLedgerCorrect` | `Spec => ImplementsWeakLedger` |
| `StrictLedgerCorrect` | the strict ledger, if all requests are one and the same |
| `PaidStaysCorrect` | `Spec => PaidStaysPaid`, if all requests are one and the same |
| `TrailCorrect` | `Spec => []TrailOrder` |
| `NothingLostCorrect` | `Spec => []NothingLost` |
| `FeedCorrect` | `Spec => []FeedAgrees` |
| `RestCorrect` | `Spec => SettledRests` |
| `InvoiceSchedulerProofs!TypeCorrect` | `Spec => []TypeOK` |
| `JobBoundCorrect` | `Spec => []JobBound` |
| `NoDuplicateCorrect` | `Spec => []NoDuplicateJob`, for one replica and no failed scan |
| `RemindedCorrect` | `Spec => []RemindedBeforeDue` |
| `SpacingCorrect` | `Spec => FollowUpSpacing` |
| `ChaseCorrect` | `Spec => ChaseEnds` |
| `EarnedCorrect` | `Spec => []FlagsEarned` |
| `EmailPipelineProofs!TypeCorrect` | `Spec => []TypeOK` |
| `SentCorrect` | `Spec => []SentIsTrue` |
| `CompletedCorrect` | `Spec => []CompletedIsSent` |
| `WorkBoundCorrect` | `Spec => []WorkBound` |
| `QueuesCorrect` | `Spec => ImplementsQueues` |
| `AccountsProofs!TypeCorrect` | `AccountsSpec => []AccountsTypeOK` |
| `EntitledCorrect` | `AccountsSpec => []Entitled` |
| `DutiesCorrect` | `AccountsSpec => []DutiesKept` |
| `LostRuleCorrect` | `AccountsSpec => LostRuleIsFinal` |
| `ClosuresCorrect` | `AccountsSpec => []ClosuresAccounted` |
| `SessionsProofs!TypeCorrect` | `SessionsSpec => []SessionsTypeOK` |
| `RevocationCorrect` | `SessionsSpec => []RevokedStaysRevoked` |
| `RevocationStandsCorrect` | `SessionsSpec => RevocationStands` |
| `ClosureStandsCorrect` | `SessionsSpec => ClosureStands` |
| `TenantsProofs!TypeCorrect` | `TenantsSpec => []TenantsTypeOK` |
| `LifecycleCorrect` | `TenantsSpec => ImplementsLifecycle` |
| `BoardsCorrect` | `TenantsSpec => []BoardsAgree` |
| `ErpCorrect` | `TenantsSpec => []ErpAgrees` |
| `CountCorrect` | `TenantsSpec => []CountError` |
| `DevicesProofs!TypeCorrect` | `DevicesSpec => []DevicesTypeOK` |
| `SilencedCorrect` | `DevicesSpec => []SilencedOnceLocked` |
| `OnlineShownCorrect` | `DevicesSpec => []OnlineIsShown` |
| `LockToldCorrect` | `DevicesSpec => []LockIsTold` |
| `OutputProofs!WalkCorrect` | `ListingSpec => []WalkMissesNothing` |
| `LettersCorrect` | `TemplatesSpec => []LettersAreFilled` |

The assumptions are those named in the modules: the sets above are finite, the
null values are not members of them, bounds are natural numbers. The endpoints
that are called, the roles that are asked for, the settings of the tokens, the
sizes of pages and the placeholders that names may spell are arbitrary.

*Numbering.* `GaplessNumbering` alone is not inductive: a create could hold a
number far beyond the last one. `NumberingInv` adds that a number waiting to be
inserted is at most one past the count of its period (the count never falls), and
that a row that does not exist has no number. An insert then either takes the
number n + 1 or collides with one of 1 to n.

*Settlements.* `SettlementInv` counts the requests that still hold an invoice
they read as open: an open invoice has no settlement, and a settled one has at
most as many as there are requests minus those that can still settle it.

*Refinement of the ledger.* The abstract counter is the count that the code
reads. The weak ledger needs `NumberingInv` (an insert takes the next number) and
`RowsStay`; the strict one also `GuardsHold`, what a guard has read still being
so, which is where a single request is needed. `PaidStaysCorrect` is the same
argument for what the message of `cancel` says; `invoice_race` breaks it with two
requests.

*Trail.* `DueInv` says what each handler still owes: audit rows fall short of
writes by at least the requests about to write one, events short of audit rows by
those about to publish, and so on to the e-mail job; by exactly as many, when
nothing is aborted. With all requests idle nothing is owed, which is
`NothingLost`; the inequalities alone are `TrailOrder`.

*Rest.* `SettledRests` needs no more than the types: whoever writes an invoice or
queues its reminder has read it (`Relying`), and what a request reads it reads
when it arrives, so nobody comes to rely on an invoice that is settled.

*Jobs.* `JobsOwed` splits on the flag. While it is not set, each job beyond the
failures is owed to a cron that is about to set it; once it is set, no query
returns the invoice, and what can still be queued is with the crons that hold an
older result. `ScansApart` keeps a row from being both held and still to do, and
the crons of a kind in their own stages, so that a cron counts once. With one
replica and no failure the bound is one, which is `NoDuplicateCorrect`, what the
scheduler's comments say; `scheduler_replicas` breaks it with two replicas.

*Reminders.* `RemindInv`: an open invoice without a reminder is still to do in
every scan of the day that goes on, so a scan that is over without it has failed.
The faults are therefore at least the days of the window that have passed times
the replicas, plus the scans that are over today.

*Follow-ups.* `SpacingInv`: the flag of an invoice is as old as its last overdue
job; only scans of the day of the flag can still queue another one; a scan that
is to follow up found the flag three days old.

*Feed.* `FeedInv`: of an invoice whose handlers have not crossed, at most one
event is still to be published, it names the status of the row, and without one
the dashboards already show that status.

*Chase.* Of a closed invoice `ChaseEnds` promises three things: it stays closed,
no scan comes to hold it, and a job for it costs one scan that held it. The
second is `QueriesSkipClosed`: whatever a query returns is open and has its
tenant. The third needs only that `queue.add` takes the row out of the scan's
result in the same step.

*Flags.* `ScansEarn`: a scan that is about to set a flag has queued the job for
the row it holds, and a row it is to follow up was found flagged, hence notified.

*E-mails.* `TypeOK` of EmailPipeline is inductive only together with `JobsKept`
(what BullMQ keeps of a job: a job still to be run has attempts and stalls left,
and only an active one has a holder, which is at it) and `WorkersApart` (each
worker stays in the processor of its queue). `WorkCounted` is the reason for
`WorkBound`: a run has done its work or has it before it, and an attempt or a
stall ends a run, so mails plus workers about to send never exceed the runs
begun. `SentIsTrue` needs `SendersKnow`, that whoever is about to write SENT has
sent the mail itself. `CompletedIsSent` needs `SoleWriter`: before its first
stall a job has one worker, the one with the lock, so nobody else writes the row
between its SENT and its completion.

*Queues.* Each step of `EmailPipeline` moves one job or none (`OneJobMoves`), or
is the effect of one (`MailCounts`, `AddCounts`), never both in one queue: adding
an e-mail job is the effect of a billing job. That a job is done only after its
effect is `RunsDeliver`: a run that has come to its end has sent the mail, by
`SendersKnow`, or queued the e-mail of a notification that bears its own job as
origin. That an effect needs a run of its own is `WorkCounted`, with
the notification a billing run has created and not yet queued on its account.
That no job is given up early is arithmetic on attempts and stalls.

*Accounts.* `HandlersHold` says what a handler holds at each await. `Entitled`
is inductive because every write of a row also marks the calls of that row's
account as overtaken (`EntitledKept`); `DutiesKept` follows from it and from
`DutiesOfRoles`, a comparison of the decorators with the table of duties. For
`LostRuleIsFinal`, every handler that writes users belongs to an endpoint that
asks for SUPER_ADMIN, and the guards read the row.

*Revocation.* `KeysOutlast`: a key is dropped no sooner than its token expires,
because a token is never newer than the clock (`SignedBefore`) and
`BlacklistOutlasts`: for every setting, the blacklist's reading is at least
jsonwebtoken's.

*Ends of sessions.* `Issued`: a token that is revoked, or about to be, was handed
out before, and a login works for the account it has found. A refresh with a
revoked token does not pass the blacklist, because the entry outlasts the token
(`RevokedStaysRevoked`); a login that signs the very same token again within the
second hands out a token that is revoked already. An account that is closed is
not found active by any login, reset or refresh that looks for it later, and
nothing in the system opens it again.

*Tenants.* In the refinement the orders are the locks and unlocks that have read
the row and not written it; an update or a removal is no order and leaves them
alone. `AgreeInv`: of a tenant that is not crossed at most one change is
unannounced, and it made the tenant what it is; once it is announced the boards
show it, and the ERP at the tenant's address knows it or has one webhook about
it on the way (`OnItsWay`). `CountInv` compares
the tally with the live tenants whose status has been counted: a change moves at
most one tenant in or out, and costs one of `moves`.

*Devices.* `SilencedOnceLocked` is inductive with the types: a lock marks the
heartbeats that are past the guard. `OnlineInv` adds to `OnlineIsShown` what a
heartbeat relies on that read ONLINE and will therefore say nothing: unless it
is `misled`, the row still says so (`BeatsTrust`). `LockInv`: of a device that
is not `mistold` at most one update has its webhook before it, and that one
wrote what the row says (`OneTells`); with none, what was sent last does. A
device that is new has never been told of, because no identity is used again
(`NoneReturns`).

*Walks.* `StillAhead`: a row that is alone with its `created_at` has been seen,
or more rows stand at or above it than the pages so far have taken. Its place in
the list is that number of rows, in every order the database may choose
(`PlaceInList`); inserts only let it grow; and the last page ends the list
(`LastPage`), so a walk that is over has left no such row behind.

*Letters.* `LetterInv`: after n rounds of the loop, and with harmless values, a
piece is the value of its placeholder if that is among the first n variables, and
the placeholder still otherwise (`Partly`). A round changes exactly the
placeholders of its variable (`OneMoreReplaced`), because no variable is passed
twice (`VariablesDiffer`) and no value already in place spells the one that is
replaced. At the end nothing is left, since every placeholder of a template is
among its caller's variables (`VariablesSuffice`).

Checked by TLC only: the five liveness properties, which are out of the prover's
reach. Of each, the part that is safety is proved. `LogoutTakesHold` and
`ClosureTakesHold` are "it comes to that" before `RevocationStands` and
`ClosureStands`; what is left to TLC is that requests in progress end.
`NothingVanishes` rests on `ImplementsQueues`, with which a job that ends has had
its effect or was given up; left is that workers go on. `Escalation` rests on
`FlagsEarned` and `FollowUpSpacing`; left is that days pass and scans run.
`NumberingProgress` rests on `GaplessNumbering`: a refused number is one already
counted; left is that the creates which race come to their insert.

## 5. What is not modelled

- Amounts, the layout of the PDF and the wording of mails: no property depends on
  them, and they change no state.
- The throttler (`app.module.ts:94`, `guards/app-throttler.guard.ts`): its
  counters are kept by a library, and it only decides which requests arrive;
  every request is allowed to arrive in the models.
- The time limit of 30 s (`main.ts:147`): the handler goes on after the 408, which
  is what the models do anyway; a client that retries is another request.
- Start-up, migrations, logging, health, validation of inputs: wiring. The
  constraints that the migrations declare are the guards of the inserts.
- Reads of single rows, `getTenantGrowth`, `getRevenueSummary`: one query each.
- An e-mail about an invoice that is settled by the time it goes out. `ChaseEnds`
  bounds which jobs can still be queued, those of the scans that hold it; from then on the payload is a snapshot, and no
  code looks at the invoice again, so nothing bounds it but the life of the job.
- More than one Subject: a dashboard on another replica than the handler's hears
  nothing at all, so there is nothing to order.
- Clock differences between replicas: a day's scans are over before the next
  day's begin, and Redis drops keys by the clock that signs tokens.

## 6. Plan

In order of importance:

1. `InvoiceLedger`, `InvoiceService`, `InvoiceScheduler`, `EmailPipeline` with
   their runs and theorems: done.
2. `AtLeastOnce`; `Accounts` and `Sessions`, `Tenants` with `TenantLifecycle`, `Devices`,
   `Listing`, `Templates`, with their runs and theorems: done.
3. `Billing`: InvoiceService, InvoiceScheduler and EmailPipeline on the same
   invoices, for the hazard of a mail about an invoice that is settled by the
   time it goes out: at most the jobs queued before, each mailed once per run.
