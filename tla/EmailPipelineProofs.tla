------------------------ MODULE EmailPipelineProofs ------------------------
(***************************************************************************)
(* Proofs about EmailPipeline, for any finite numbers of jobs, of          *)
(* notifications and of workers, and any bounds on attempts and stalls.    *)
(***************************************************************************)
EXTENDS EmailPipeline, FiniteSetTheorems, TLAPS

-----------------------------------------------------------------------------
(* What a step does to the queues                                          *)

LEMMA AddFacts ==
  ASSUME job \in [JobId -> JobRecord], NEW j \in JobId, Add(j)
  PROVE  /\ job' \in [JobId -> JobRecord]
         /\ job'[j] = [state |-> "waiting", attempts |-> job[j].attempts,
                       stalls |-> job[j].stalls, holder |-> job[j].holder]
         /\ \A k \in JobId \ {j} : job'[k] = job[k]
  BY DEF Add, JobRecord, JobState

LEMMA TakeFacts ==
  ASSUME job \in [JobId -> JobRecord], NEW j \in JobId, NEW w \in Worker,
         NEW s, Take(w, j, s)
  PROVE  /\ job' \in [JobId -> JobRecord]
         /\ job'[j] = [state |-> "active", attempts |-> job[j].attempts,
                       stalls |-> job[j].stalls, holder |-> w]
         /\ \A k \in JobId \ {j} : job'[k] = job[k]
  BY DEF Take, JobRecord, JobState

LEMMA ReleasedFacts ==
  ASSUME job \in [JobId -> JobRecord], NEW j \in JobId,
         NEW s \in {"waiting", "completed", "failed"},
         job[j].attempts < Attempts, job' = Released(j, s)
  PROVE  /\ job' \in [JobId -> JobRecord]
         /\ job'[j] = [state |-> s, attempts |-> job[j].attempts + 1,
                       stalls |-> job[j].stalls, holder |-> Nobody]
         /\ \A k \in JobId \ {j} : job'[k] = job[k]
  BY BoundAssumption DEF Released, JobRecord, JobState

LEMMA StallFacts ==
  ASSUME job \in [JobId -> JobRecord], NEW j \in JobId,
         job[j].stalls <= MaxStalled, Stall(j)
  PROVE  /\ job' \in [JobId -> JobRecord]
         /\ job'[j] = [state |-> IF job[j].stalls < MaxStalled THEN "waiting"
                                                               ELSE "failed",
                       attempts |-> job[j].attempts,
                       stalls |-> job[j].stalls + 1, holder |-> Nobody]
         /\ \A k \in JobId \ {j} : job'[k] = job[k]
  BY BoundAssumption DEF Stall, JobRecord, JobState

LEMMA UnlockFacts ==
  ASSUME job \in [JobId -> JobRecord], NEW j \in JobId,
         job' = [job EXCEPT ![j].holder = Nobody]
  PROVE  /\ job' \in [JobId -> JobRecord]
         /\ job'[j] = [state |-> job[j].state, attempts |-> job[j].attempts,
                       stalls |-> job[j].stalls, holder |-> Nobody]
         /\ \A k \in JobId \ {j} : job'[k] = job[k]
  BY DEF JobRecord

-----------------------------------------------------------------------------
(* Types, and what the queues keep of a job                                *)

Kept == TypeOK /\ JobsKept /\ WorkersApart

LEMMA KeptInit == Init => Kept
  BY JobAssumption, WorkerAssumption, BoundAssumption
  DEF Init, Kept, TypeOK, JobsKept, WorkersApart, NoJob, JobRecord, JobState, Stage,
      NotificationStatus, JobId, Worker, At

(* What is known of a worker that has something to do. *)
LEMMA BusyFacts ==
  ASSUME Kept, NEW w \in Worker, pc[w] # "idle"
  PROVE  /\ job \in [JobId -> JobRecord]
         /\ cur[w] \in JobId
         /\ pc[w] \in {"create", "addEmail"} =>
               w \in BillingWorker /\ cur[w] \in BillingJob
         /\ pc[w] \in {"send", "markSent", "publishSent", "markFailed",
                       "publishFailed"} => w \in EmailWorker /\ cur[w] \in Notice
         /\ job[cur[w]].state = "active" =>
               job[cur[w]].attempts < Attempts /\ job[cur[w]].stalls <= MaxStalled
         /\ Locked(w) => job[cur[w]].state = "active"
  BY JobAssumption, WorkerAssumption
  DEF Kept, TypeOK, JobsKept, WorkersApart, JobRecord, At, Locked, JobId, Worker

(* A worker moves on in its job and neither the queues nor the rows that   *)
(* exist change in number.                                                 *)
LEMMA GotoKept ==
  ASSUME Kept, NEW w \in Worker, NEW s \in Stage \ {"idle", "addEmail"},
         pc[w] # "idle", Goto(w, s), job' = job,
         w \in BillingWorker => s \in {"resolve", "reject"},
         w \in EmailWorker => s # "create",
         \A n \in Notice : status'[n] = "absent" <=> status[n] = "absent"
  PROVE  /\ JobsKept' /\ WorkersApart'
         /\ pc' \in [Worker -> Stage]
         /\ cur' = cur /\ made' = made
         /\ \A v \in Worker : cur'[v] = Nothing <=> pc'[v] = "idle"
  BY JobAssumption, WorkerAssumption
  DEF Kept, TypeOK, JobsKept, WorkersApart, Goto, At, JobId, Worker
(* A step that changes one job, and workers that take it or let it go. *)
LEMMA OneJobKept ==
  ASSUME Kept, NEW j \in JobId, status' = status,
         \A k \in JobId \ {j} : job'[k] = job[k],
         \A k \in JobId \ {j} :
            job[k].holder # Nobody => cur'[job[k].holder] = cur[job[k].holder],
         \A v \in Worker : cur'[v] \in {cur[v], j, Nothing},
         j \in Notice => status[j] # "absent",
         job'[j].state # "absent",
         job'[j].state \in {"waiting", "active"} =>
            job'[j].attempts < Attempts /\ job'[j].stalls <= MaxStalled,
         job'[j].attempts + job'[j].stalls <= Attempts + MaxStalled,
         job'[j].holder # Nobody =>
            job'[j].state = "active" /\ cur'[job'[j].holder] = j
  PROVE  JobsKept'
<1>1. ASSUME NEW k \in JobId
      PROVE  (/\ job[k].state = "absent" => job[k] = NoJob
              /\ job[k].state \in {"waiting", "active"} =>
                    job[k].attempts < Attempts /\ job[k].stalls <= MaxStalled
              /\ job[k].attempts + job[k].stalls <= Attempts + MaxStalled
              /\ job[k].holder # Nobody =>
                    job[k].state = "active" /\ cur[job[k].holder] = k)'
  <2>1. CASE k = j
    BY <2>1
  <2>2. CASE k # j
    BY <2>2 DEF Kept, JobsKept
  <2> QED
    BY <2>1, <2>2
<1>2. ASSUME NEW n \in Notice, status'[n] = "absent"
      PROVE  job'[n] = NoJob
  BY <1>2 DEF Kept, JobsKept, JobId
<1>3. ASSUME NEW v \in Worker, cur'[v] # Nothing
      PROVE  job'[cur'[v]].state # "absent"
  BY <1>3 DEF Kept, TypeOK, JobsKept
<1> QED
  BY <1>1, <1>2, <1>3 DEF JobsKept

LEMMA KeptStep == Kept /\ [Next]_vars => Kept'
<1> SUFFICES ASSUME Kept, [Next]_vars PROVE Kept'
  OBVIOUS
<1> USE JobAssumption, WorkerAssumption, BoundAssumption
<1>1. CASE UNCHANGED vars
  BY <1>1 DEF Kept, TypeOK, JobsKept, WorkersApart, At,
              vars, rows, events, requests, workers
<1>2. ASSUME NEW w \in Worker, BillingCreate(w)
      PROVE  Kept'
  <2>1. w \in BillingWorker /\ cur[w] \in BillingJob
    BY <1>2, BusyFacts DEF BillingCreate, At
  <2>2. /\ Fresh \in Notice \ ServiceNotice /\ status[Fresh] = "absent"
        /\ job[Fresh] = NoJob
    BY <1>2 DEF BillingCreate, Free, Fresh, Kept, JobsKept
  <2>3. TypeOK'
    BY <1>2, <2>1, <2>2
    DEF Kept, TypeOK, BillingCreate, At, Stage, NotificationStatus, JobId,
        events, requests
  <2>4. JobsKept'
    BY <1>2, <2>2 DEF Kept, TypeOK, JobsKept, BillingCreate
  <2>5. WorkersApart'
    BY <1>2, <2>1, <2>2 DEF Kept, TypeOK, WorkersApart, BillingCreate, At, Worker
  <2> QED
    BY <2>3, <2>4, <2>5 DEF Kept
<1>3. ASSUME NEW w \in Worker, BillingAdd(w) \/ BillingThrow(w)
      PROVE  Kept'
  <2>1. /\ pc[w] \in {"create", "addEmail"}
        /\ w \in BillingWorker /\ cur[w] \in BillingJob
        /\ job \in [JobId -> JobRecord]
    BY <1>3, BusyFacts DEF BillingAdd, BillingThrow, At
  <2>2. /\ Goto(w, "resolve") \/ Goto(w, "reject")
        /\ UNCHANGED <<status, sentAt, failureReason, origin, mails,
                       overdueEvents, sentEvents, failedEvents, resends,
                       resendAudits>>
        /\ job' = job \/ (At(w, "addEmail") /\ Add(made[w]))
    BY <1>3 DEF BillingAdd, BillingThrow, rows, events, requests
  <2>3. /\ pc' \in [Worker -> Stage]
        /\ cur' = cur /\ made' = made
        /\ pc'[w] \in {"resolve", "reject"}
        /\ \A v \in Worker \ {w} : pc'[v] = pc[v]
    BY <2>2 DEF Kept, TypeOK, Goto, Stage
  <2>4. CASE job' = job
    <3>1. PICK s \in {"resolve", "reject"} : Goto(w, s)
      BY <2>2
    <3>2. JobsKept' /\ WorkersApart'
      BY <2>1, <2>2, <2>4, <3>1, GotoKept DEF Stage
    <3>3. TypeOK'
      BY <2>1, <2>2, <2>3, <2>4 DEF Kept, TypeOK, At
    <3> QED
      BY <3>2, <3>3 DEF Kept
  <2>5. CASE At(w, "addEmail") /\ Add(made[w])
    <3>1. /\ made[w] \in Notice /\ status[made[w]] # "absent"
          /\ job[made[w]] = NoJob
      BY <2>5 DEF Kept, WorkersApart
    <3>2. /\ job' \in [JobId -> JobRecord]
          /\ job'[made[w]] = [state |-> "waiting", attempts |-> 0,
                              stalls |-> 0, holder |-> Nobody]
          /\ \A k \in JobId \ {made[w]} : job'[k] = job[k]
      BY <2>1, <2>5, <3>1, AddFacts DEF JobId, NoJob
    <3>3. TypeOK'
      BY <2>1, <2>2, <2>3, <3>2 DEF Kept, TypeOK, At
    <3>4. JobsKept'
      BY <2>2, <2>3, <3>1, <3>2, OneJobKept DEF JobId
    <3>5. WorkersApart'
      BY <2>1, <2>2, <2>3, <2>5, <3>1, <3>2
      DEF Kept, TypeOK, WorkersApart, At, JobId, Worker
    <3> QED
      BY <3>3, <3>4, <3>5 DEF Kept
  <2> QED
    BY <2>2, <2>4, <2>5
<1>4. ASSUME NEW w \in Worker,
             \/ SendMail(w) \/ SendFail(w) \/ MarkSent(w)
             \/ PublishSent(w) \/ MarkSentThrow(w) \/ MarkFailed(w)
             \/ PublishFailed(w) \/ MarkFailedThrow(w)
      PROVE  Kept'
  <2>1. /\ w \in EmailWorker /\ cur[w] \in Notice /\ pc[w] # "idle"
        /\ job' = job
    BY <1>4, BusyFacts
    DEF SendMail, SendFail, MarkSent, PublishSent, MarkSentThrow, MarkFailed,
        PublishFailed, MarkFailedThrow, At
  <2>2. /\ status' \in [Notice -> NotificationStatus \cup {"absent"}]
        /\ sentAt' \in [Notice -> BOOLEAN]
        /\ failureReason' \in [Notice -> BOOLEAN]
        /\ origin' = origin
        /\ mails' \in [Notice -> Nat]
        /\ overdueEvents' = overdueEvents
        /\ sentEvents' \in SUBSET Notice
        /\ failedEvents' \in SUBSET Notice
        /\ UNCHANGED <<resends, resendAudits>>
        /\ \A n \in Notice : failureReason'[n] <=> status'[n] = "FAILED"
    <3> USE DEF Kept, TypeOK, NotificationStatus, rows, events, requests
    <3>1. CASE SendMail(w) \/ SendFail(w)
      BY <2>1, <3>1 DEF SendMail, SendFail
    <3>2. CASE MarkSent(w)
      BY <2>1, <3>2 DEF MarkSent
    <3>3. CASE MarkFailed(w)
      BY <2>1, <3>3 DEF MarkFailed
    <3>4. CASE \/ PublishSent(w) \/ MarkSentThrow(w)
               \/ PublishFailed(w) \/ MarkFailedThrow(w)
      BY <2>1, <3>4 DEF PublishSent, MarkSentThrow, PublishFailed, MarkFailedThrow
    <3> QED
      BY <1>4, <3>1, <3>2, <3>3, <3>4
  <2>3. PICK s \in Stage \ {"idle", "addEmail", "create"} : Goto(w, s)
    BY <1>4
    DEF Stage, SendMail, SendFail, MarkSent, PublishSent, MarkSentThrow,
        MarkFailed, PublishFailed, MarkFailedThrow
  <2>4. \A n \in Notice : status'[n] = "absent" <=> status[n] = "absent"
    <3>1. status[cur[w]] # "absent"
      BY <2>1 DEF Kept, JobsKept, NoJob
    <3> QED
      BY <1>4, <2>1, <3>1
      DEF Kept, TypeOK, rows, SendMail, SendFail, MarkSent, PublishSent,
          MarkSentThrow, MarkFailed, PublishFailed, MarkFailedThrow
  <2>5. /\ JobsKept' /\ WorkersApart'
        /\ pc' \in [Worker -> Stage]
        /\ cur' = cur /\ made' = made
        /\ \A v \in Worker : cur'[v] = Nothing <=> pc'[v] = "idle"
    BY <2>1, <2>3, <2>4, GotoKept
  <2> QED
    BY <2>1, <2>2, <2>5 DEF Kept, TypeOK, At
<1>5. ASSUME NEW w \in Worker, Complete(w) \/ Retry(w) \/ Die(w)
      PROVE  Kept'
  <2>1. /\ pc[w] # "idle" /\ Idle(w)
        /\ UNCHANGED <<status, sentAt, failureReason, origin, mails,
                       overdueEvents, sentEvents, failedEvents, resends,
                       resendAudits>>
    BY <1>5 DEF Complete, Retry, Die, At, rows, events, requests
  <2>2. /\ job \in [JobId -> JobRecord]
        /\ cur[w] \in JobId
        /\ job[cur[w]].state # "absent"
    BY <2>1, BusyFacts DEF Kept, TypeOK, JobsKept, At
  <2>3. /\ pc' \in [Worker -> Stage] /\ pc'[w] = "idle"
        /\ cur' \in [Worker -> JobId \cup {Nothing}] /\ cur'[w] = Nothing
        /\ made' \in [Worker -> Notice \cup {Nothing}]
        /\ \A v \in Worker \ {w} :
              pc'[v] = pc[v] /\ cur'[v] = cur[v] /\ made'[v] = made[v]
    BY <2>1 DEF Kept, TypeOK, Idle, Stage
  <2> DEFINE j == cur[w]
             LeftBehind ==
                /\ job' \in [JobId -> JobRecord]
                /\ job'[j].state = "absent" <=> job[j].state = "absent"
                /\ job'[j].state \in {"waiting", "active"} =>
                      job'[j].attempts < Attempts /\ job'[j].stalls <= MaxStalled
                /\ job'[j].attempts + job'[j].stalls <= Attempts + MaxStalled
                /\ job'[j].holder # w
                /\ job'[j].holder # Nobody => job'[j] = job[j]
                /\ \A k \in JobId \ {j} : job'[k] = job[k]
  <2>4. LeftBehind
    <3>1. CASE job' = job /\ ~Locked(w)
      BY <2>2, <3>1 DEF Kept, JobsKept, Locked
    <3>2. CASE Locked(w) /\ job' = [job EXCEPT ![cur[w]].holder = Nobody]
      BY <2>1, <2>2, <3>2, BusyFacts, UnlockFacts DEF Kept, JobsKept, JobRecord, Worker
    <3>3. ASSUME NEW s \in {"waiting", "completed", "failed"}, Locked(w),
                 job' = Released(cur[w], s),
                 s = "waiting" => job[cur[w]].attempts + 1 < Attempts
          PROVE  LeftBehind
      <4>1. /\ job[j].state = "active"
            /\ job[j].attempts \in Nat /\ job[j].stalls \in Nat
            /\ job[j].attempts < Attempts /\ job[j].stalls <= MaxStalled
        BY <2>1, <2>2, <3>3, BusyFacts DEF JobRecord
      <4>2. /\ job' \in [JobId -> JobRecord]
            /\ job'[j] = [state |-> s, attempts |-> job[j].attempts + 1,
                          stalls |-> job[j].stalls, holder |-> Nobody]
            /\ \A k \in JobId \ {j} : job'[k] = job[k]
        BY <2>2, <3>3, <4>1, ReleasedFacts
      <4>3. /\ (job[j].attempts + 1) + job[j].stalls <= Attempts + MaxStalled
            /\ Nobody # w
        BY <4>1 DEF Worker
      <4> QED
        BY <3>3, <4>1, <4>2, <4>3
    <3> QED
      BY <1>5, <3>1, <3>2, <3>3 DEF Complete, Retry, Die
  <2>5. TypeOK'
    BY <2>1, <2>3, <2>4 DEF Kept, TypeOK, At
  <2>6. JobsKept'
    <3>1. \A k \in JobId \ {j} :
            job[k].holder # Nobody => cur'[job[k].holder] = cur[job[k].holder]
      BY <2>2, <2>3 DEF Kept, TypeOK, JobsKept, JobRecord
    <3>2. job'[j].holder # Nobody =>
            job'[j].state = "active" /\ cur'[job'[j].holder] = j
      BY <2>2, <2>3, <2>4 DEF Kept, TypeOK, JobsKept, JobRecord
    <3>3. j \in Notice => status[j] # "absent"
      BY <2>2 DEF Kept, JobsKept, NoJob
    <3> QED
      BY <2>1, <2>2, <2>3, <2>4, <3>1, <3>2, <3>3, OneJobKept
  <2>7. WorkersApart'
    BY <2>1, <2>2, <2>3, <2>4
    DEF Kept, TypeOK, WorkersApart, At, NoJob, JobId, Worker
  <2> QED
    BY <2>5, <2>6, <2>7 DEF Kept
<1>6. ASSUME NEW j \in JobId, Stall(j)
      PROVE  Kept'
  <2>1. UNCHANGED <<status, sentAt, failureReason, origin, mails,
                    overdueEvents, sentEvents, failedEvents, resends,
                    resendAudits, pc, cur, made>>
    BY <1>6 DEF Stall, rows, events, requests, workers
  <2>2. /\ job[j].state = "active"
        /\ job \in [JobId -> JobRecord]
        /\ job[j].stalls <= MaxStalled /\ job[j].attempts < Attempts
    BY <1>6 DEF Stall, Kept, TypeOK, JobsKept, JobRecord
  <2>3. /\ job' \in [JobId -> JobRecord]
        /\ job'[j] = [state |-> IF job[j].stalls < MaxStalled THEN "waiting"
                                                              ELSE "failed",
                      attempts |-> job[j].attempts,
                      stalls |-> job[j].stalls + 1, holder |-> Nobody]
        /\ \A k \in JobId \ {j} : job'[k] = job[k]
    BY <1>6, <2>2, StallFacts
  <2>4. TypeOK'
    BY <2>1, <2>3 DEF Kept, TypeOK, At
  <2>5. JobsKept'
    <3>1. j \in Notice => status[j] # "absent"
      BY <2>2 DEF Kept, JobsKept, NoJob
    <3>2. /\ job[j].stalls < MaxStalled => job[j].stalls + 1 <= MaxStalled
          /\ job[j].attempts + (job[j].stalls + 1) <= Attempts + MaxStalled
      BY <2>2 DEF JobRecord
    <3> QED
      BY <2>1, <2>2, <2>3, <3>1, <3>2, OneJobKept
  <2>6. WorkersApart'
    BY <2>1, <2>2, <2>3 DEF Kept, TypeOK, WorkersApart, At, NoJob, JobId
  <2> QED
    BY <2>4, <2>5, <2>6 DEF Kept
<1>7. ASSUME NEW w \in Worker, NEW j \in JobId, NEW s \in {"create", "send"},
             Take(w, j, s), UNCHANGED <<rows, mails, sentEvents, failedEvents,
                                        requests>>,
             overdueEvents' \in [BillingJob -> Nat],
             \/ w \in BillingWorker /\ j \in BillingJob /\ s = "create"
             \/ w \in EmailWorker /\ j \in Notice /\ s = "send"
      PROVE  Kept'
  <2>1. /\ UNCHANGED <<status, sentAt, failureReason, origin, mails,
                       sentEvents, failedEvents, resends, resendAudits>>
        /\ job[j].state = "waiting" /\ pc[w] = "idle"
        /\ job \in [JobId -> JobRecord]
    BY <1>7 DEF Take, At, rows, requests, Kept, TypeOK, JobRecord
  <2>2. /\ job' \in [JobId -> JobRecord]
        /\ job'[j] = [state |-> "active", attempts |-> job[j].attempts,
                      stalls |-> job[j].stalls, holder |-> w]
        /\ \A k \in JobId \ {j} : job'[k] = job[k]
    BY <1>7, <2>1, TakeFacts
  <2>3. /\ pc' \in [Worker -> Stage] /\ pc'[w] = s
        /\ cur' \in [Worker -> JobId \cup {Nothing}] /\ cur'[w] = j
        /\ made' = made
        /\ \A v \in Worker \ {w} : pc'[v] = pc[v] /\ cur'[v] = cur[v]
    BY <1>7 DEF Kept, TypeOK, Take, Stage
  <2>4. TypeOK'
    BY <1>7, <2>1, <2>2, <2>3 DEF Kept, TypeOK, At, JobId
  <2>5. JobsKept'
    <3>1. \A k \in JobId \ {j} :
            job[k].holder # Nobody => cur'[job[k].holder] = cur[job[k].holder]
      BY <2>1, <2>3 DEF Kept, TypeOK, JobsKept, JobRecord, JobId, At
    <3>2. j \in Notice => status[j] # "absent"
      BY <2>1 DEF Kept, JobsKept, NoJob
    <3> QED
      BY <2>1, <2>2, <2>3, <3>1, <3>2, OneJobKept DEF Kept, JobsKept
  <2>6. WorkersApart'
    BY <1>7, <2>1, <2>2, <2>3
    DEF Kept, TypeOK, WorkersApart, At, NoJob, JobId, Worker
  <2> QED
    BY <2>4, <2>5, <2>6 DEF Kept
<1>8. ASSUME NEW j \in JobId, Start(j)
      PROVE  Kept'
  <2>1. PICK w \in Worker : \/ j \in BillingJob /\ BillingStart(w, j)
                            \/ j \in Notice /\ EmailStart(w, j)
    BY <1>8 DEF Start
  <2>2. CASE j \in BillingJob /\ BillingStart(w, j)
    BY <2>2, <1>7 DEF BillingStart, Kept, TypeOK
  <2>3. CASE j \in Notice /\ EmailStart(w, j)
    BY <2>3, <1>7 DEF EmailStart, Kept, TypeOK, events
  <2> QED
    BY <2>1, <2>2, <2>3
<1>9. ASSUME NEW j \in JobId, Add(j), job[j].state = "absent",
             j \in Notice => status[j] # "absent",
             UNCHANGED <<rows, mails, events, requests, workers>>,
             \A w \in Worker : At(w, "addEmail") => made[w] # j
      PROVE  Kept'
  <2>1. UNCHANGED <<status, sentAt, failureReason, origin, mails,
                    overdueEvents, sentEvents, failedEvents, resends,
                    resendAudits, pc, cur, made>>
    BY <1>9 DEF rows, events, requests, workers
  <2>2. /\ job' \in [JobId -> JobRecord]
        /\ job'[j] = [state |-> "waiting", attempts |-> 0,
                      stalls |-> 0, holder |-> Nobody]
        /\ \A k \in JobId \ {j} : job'[k] = job[k]
    BY <1>9, AddFacts DEF Kept, TypeOK, JobsKept, NoJob
  <2>3. TypeOK'
    BY <2>1, <2>2 DEF Kept, TypeOK, At
  <2>4. JobsKept'
    BY <1>9, <2>1, <2>2, OneJobKept
  <2>5. WorkersApart'
    BY <1>9, <2>1, <2>2 DEF Kept, TypeOK, WorkersApart, At, JobId
  <2> QED
    BY <2>3, <2>4, <2>5 DEF Kept
<1>10. ASSUME NEW b \in BillingJob, Enqueue(b)
       PROVE  Kept'
  BY <1>9, <1>10 DEF Enqueue, JobId, Kept, WorkersApart
<1>11. ASSUME NEW n \in Notice, ServiceEnqueue(n)
       PROVE  Kept'
  BY <1>9, <1>11 DEF ServiceEnqueue, JobId, Kept, WorkersApart
<1>12. ASSUME NEW n \in Notice,
              ServiceNotify(n) \/ ResendUpdate(n) \/ ResendAudit(n)
       PROVE  Kept'
  <2>1. /\ UNCHANGED <<job, sentAt, origin, mails, overdueEvents, sentEvents,
                       failedEvents, pc, cur, made>>
        /\ \A m \in Notice :
              /\ status'[m] = "absent" => status[m] = "absent"
              /\ failureReason'[m] <=> status'[m] = "FAILED"
    BY <1>12
    DEF ServiceNotify, ResendUpdate, ResendAudit, rows, events, workers,
        Kept, TypeOK
  <2>2. TypeOK'
    <3>1. /\ status' \in [Notice -> NotificationStatus \cup {"absent"}]
          /\ failureReason' \in [Notice -> BOOLEAN]
          /\ resends' \in [Notice -> 0 .. MaxResends]
          /\ resendAudits' \in [Notice -> 0 .. MaxResends]
      <4> USE DEF Kept, TypeOK, NotificationStatus, rows, requests
      <4>1. CASE ServiceNotify(n)
        BY <4>1 DEF ServiceNotify
      <4>2. CASE ResendUpdate(n)
        BY <4>2 DEF ResendUpdate
      <4>3. CASE ResendAudit(n)
        BY <4>3 DEF ResendAudit
      <4> QED
        BY <1>12, <4>1, <4>2, <4>3
    <3> QED
      BY <2>1, <3>1 DEF Kept, TypeOK, At
  <2> QED
    BY <2>1, <2>2 DEF Kept, TypeOK, JobsKept, WorkersApart, At
<1> QED
  BY <1>1, <1>2, <1>3, <1>4, <1>5, <1>6, <1>8, <1>10, <1>11, <1>12
  DEF Next, Continue, Request

THEOREM TypeCorrect == Spec => []TypeOK
  BY KeptInit, KeptStep, PTL DEF Spec, Kept
-----------------------------------------------------------------------------
(* What is said to be sent was sent                                        *)

LEMMA SentStep ==
  Kept /\ SentIsTrue /\ SendersKnow /\ [Next]_vars => SentIsTrue' /\ SendersKnow'
<1> SUFFICES ASSUME Kept, SentIsTrue, SendersKnow, [Next]_vars
             PROVE  SentIsTrue' /\ SendersKnow'
  OBVIOUS
<1> USE JobAssumption, WorkerAssumption DEF SentIsTrue, SendersKnow
<1>1. CASE UNCHANGED vars
  BY <1>1 DEF vars, rows, events, workers
<1>2. ASSUME NEW w \in Worker, BillingCreate(w)
      PROVE  SentIsTrue' /\ SendersKnow'
  BY <1>2, BusyFacts DEF BillingCreate, Kept, TypeOK, events, At
<1>3. ASSUME NEW w \in Worker,
             \/ SendFail(w) \/ SendMail(w) \/ MarkSent(w)
             \/ PublishSent(w) \/ MarkFailed(w)
      PROVE  SentIsTrue' /\ SendersKnow'
  <2>1. w \in EmailWorker /\ cur[w] \in Notice /\ cur' = cur
    BY <1>3, BusyFacts
    DEF SendFail, SendMail, MarkSent, PublishSent, MarkFailed, At, Goto
  <2>2. CASE SendMail(w)
    BY <2>1, <2>2 DEF SendMail, Goto, Kept, TypeOK, rows, events
  <2>3. CASE SendFail(w)
    <3>1. /\ mails' \in [Notice -> Nat]
          /\ \A n \in Notice : mails[n] > 0 => mails'[n] > 0
      BY <2>1, <2>3 DEF SendFail, Kept, TypeOK
    <3>2. \A v \in Worker :
            pc[v] \in {"markSent", "publishSent"} => cur[v] \in Notice
      BY BusyFacts
    <3> QED
      BY <2>1, <2>3, <3>1, <3>2 DEF SendFail, Goto, Kept, TypeOK, rows, events
  <2>4. CASE MarkSent(w)
    BY <2>1, <2>4 DEF MarkSent, Goto, Kept, TypeOK, events, At
  <2>5. CASE PublishSent(w)
    BY <2>1, <2>5 DEF PublishSent, Goto, Kept, TypeOK, rows, At
  <2>6. CASE MarkFailed(w)
    BY <2>1, <2>6 DEF MarkFailed, Goto, Kept, TypeOK, events
  <2> QED
    BY <1>3, <2>2, <2>3, <2>4, <2>5, <2>6
<1>4. ASSUME NEW w \in Worker,
             \/ BillingAdd(w) \/ BillingThrow(w) \/ MarkSentThrow(w)
             \/ PublishFailed(w) \/ MarkFailedThrow(w)
      PROVE  SentIsTrue' /\ SendersKnow'
  BY <1>4
  DEF BillingAdd, BillingThrow, MarkSentThrow, PublishFailed, MarkFailedThrow,
      Goto, Kept, TypeOK, rows, events
<1>5. ASSUME NEW w \in Worker, Complete(w) \/ Retry(w) \/ Die(w)
      PROVE  SentIsTrue' /\ SendersKnow'
  BY <1>5 DEF Complete, Retry, Die, Idle, Kept, TypeOK, rows, events
<1>6. ASSUME NEW j \in JobId, Stall(j)
      PROVE  SentIsTrue' /\ SendersKnow'
  BY <1>6 DEF Stall, rows, events, workers
<1>7. ASSUME NEW j \in JobId, Start(j)
      PROVE  SentIsTrue' /\ SendersKnow'
  BY <1>7 DEF Start, BillingStart, EmailStart, Take, Kept, TypeOK, rows, events
<1>8. ASSUME NEW b \in BillingJob, Enqueue(b)
      PROVE  SentIsTrue' /\ SendersKnow'
  BY <1>8 DEF Enqueue, rows, events, workers
<1>9. ASSUME NEW n \in Notice, Request(n)
      PROVE  SentIsTrue' /\ SendersKnow'
  BY <1>9
  DEF Request, ServiceNotify, ServiceEnqueue, ResendUpdate, ResendAudit,
      Kept, TypeOK, rows, events, workers
<1> QED
  BY <1>1, <1>2, <1>3, <1>4, <1>5, <1>6, <1>7, <1>8, <1>9 DEF Next, Continue

(* A notification marked or announced as sent has a mail that the SMTP     *)
(* server accepted, whatever e-mail workers, retries, stalled runs and     *)
(* resends do to its row: the worker that says so has sent it itself.      *)
THEOREM SentCorrect == Spec => []SentIsTrue
<1>1. Init => SentIsTrue /\ SendersKnow
  BY DEF Init, SentIsTrue, SendersKnow
<1> QED
  BY <1>1, KeptInit, KeptStep, SentStep, PTL DEF Spec
-----------------------------------------------------------------------------
(* A completed job has had its mail sent                                   *)

LEMMA CompletedStep ==
  Kept /\ SoleWriter /\ CompletedIsSent /\ [Next]_vars
    => SoleWriter' /\ CompletedIsSent'
<1> SUFFICES ASSUME Kept, SoleWriter, CompletedIsSent, [Next]_vars
             PROVE  SoleWriter' /\ CompletedIsSent'
  OBVIOUS
<1> USE JobAssumption, WorkerAssumption DEF SoleWriter, CompletedIsSent
<1>1. CASE UNCHANGED vars
  BY <1>1 DEF vars, rows, requests, workers
<1>2. ASSUME NEW w \in Worker, BillingCreate(w)
      PROVE  SoleWriter' /\ CompletedIsSent'
  <2>1. Fresh \in Notice /\ job[Fresh] = NoJob
    BY <1>2 DEF BillingCreate, Free, Fresh, Kept, JobsKept
  <2> QED
    BY <1>2, <2>1
    DEF BillingCreate, Kept, TypeOK, JobsKept, WorkersApart, NoJob, requests, JobId
<1>3. ASSUME NEW j \in JobId, Add(j), job[j].state = "absent",
             UNCHANGED <<status, resends, cur>>,
             \A v \in EmailWorker : pc'[v] = pc[v]
      PROVE  SoleWriter' /\ CompletedIsSent'
  <2>1. /\ job'[j].state = "waiting"
        /\ \A k \in JobId \ {j} : job'[k] = job[k]
    <3>1. job \in [JobId -> JobRecord]
      BY DEF Kept, TypeOK
    <3>2. /\ job'[j] = [state |-> "waiting", attempts |-> job[j].attempts,
                        stalls |-> job[j].stalls, holder |-> job[j].holder]
          /\ \A k \in JobId \ {j} : job'[k] = job[k]
      BY <1>3, <3>1, AddFacts
    <3> QED
      BY <3>2
  <2>2. ASSUME NEW n \in Notice, NEW v \in Worker, cur[v] = n
        PROVE  n # j /\ v \in EmailWorker
    BY <1>3, <2>2 DEF Kept, JobsKept, WorkersApart, Worker
  <2> QED
    BY <1>3, <2>1, <2>2 DEF JobId
<1>4. ASSUME NEW w \in Worker, BillingAdd(w) \/ BillingThrow(w)
      PROVE  SoleWriter' /\ CompletedIsSent'
  <2>1. /\ w \in BillingWorker
        /\ UNCHANGED <<status, resends, cur>>
        /\ \A v \in EmailWorker : pc'[v] = pc[v]
    <3>1. w \in BillingWorker
      BY <1>4, BusyFacts DEF BillingAdd, BillingThrow, At
    <3> QED
      BY <1>4, <3>1
      DEF BillingAdd, BillingThrow, Goto, rows, requests, Kept, TypeOK, Worker
  <2>2. CASE job' = job
    BY <2>1, <2>2 DEF Kept, WorkersApart, Worker
  <2>3. CASE At(w, "addEmail") /\ Add(made[w])
    <3>1. made[w] \in JobId /\ job[made[w]].state = "absent"
      BY <2>3 DEF Kept, WorkersApart, NoJob, JobId
    <3> QED
      BY <1>3, <2>1, <2>3, <3>1
  <2> QED
    BY <1>4, <2>2, <2>3 DEF BillingAdd, BillingThrow
<1>5. ASSUME NEW w \in Worker,
             \/ SendMail(w) \/ SendFail(w) \/ MarkSent(w)
             \/ PublishSent(w) \/ MarkSentThrow(w) \/ MarkFailed(w)
             \/ PublishFailed(w) \/ MarkFailedThrow(w)
      PROVE  SoleWriter' /\ CompletedIsSent'
  <2>1. /\ w \in EmailWorker /\ cur[w] \in Notice
        /\ UNCHANGED <<job, cur, resends>>
        /\ \A v \in Worker \ {w} : pc'[v] = pc[v]
    BY <1>5, BusyFacts
    DEF SendMail, SendFail, MarkSent, PublishSent, MarkSentThrow, MarkFailed,
        PublishFailed, MarkFailedThrow, At, Goto, requests, Kept, TypeOK
  <2>2. /\ pc'[w] \in {"publishSent", "resolve"} =>
              \/ status'[cur[w]] = "SENT"
              \/ pc[w] = "publishSent" /\ status' = status
        /\ \A n \in Notice \ {cur[w]} : status'[n] = status[n]
    BY <1>5, <2>1
    DEF SendMail, SendFail, MarkSent, PublishSent, MarkSentThrow, MarkFailed,
        PublishFailed, MarkFailedThrow, At, Goto, rows, Kept, TypeOK
  <2>3. \A v \in Worker \ {w} :
          cur[v] = cur[w] => job[cur[w]].stalls # 0
    BY <2>1
  <2>4. job[cur[w]].stalls = 0 => job[cur[w]].state # "completed"
    BY <2>1 DEF Kept, JobsKept, JobId, Worker
  <2> QED
    BY <2>1, <2>2, <2>3, <2>4
<1>6. ASSUME NEW w \in Worker, Complete(w) \/ Retry(w) \/ Die(w)
      PROVE  SoleWriter' /\ CompletedIsSent'
  <2>1. /\ pc[w] # "idle" /\ cur'[w] = Nothing
        /\ UNCHANGED <<status, resends>>
        /\ \A v \in Worker \ {w} : pc'[v] = pc[v] /\ cur'[v] = cur[v]
    BY <1>6 DEF Complete, Retry, Die, At, Idle, rows, requests, Kept, TypeOK
  <2>2. /\ job \in [JobId -> JobRecord]
        /\ cur[w] \in JobId
        /\ Locked(w) => job[cur[w]].state = "active" /\ job[cur[w]].attempts < Attempts
    BY <2>1, BusyFacts
  <2>3. CASE ~Locked(w)
    <3>1. job' = job
      BY <1>6, <2>3 DEF Complete, Retry, Die
    <3> QED
      BY <2>1, <3>1
  <2>4. CASE Locked(w)
    <3>1. /\ job'[cur[w]].stalls = job[cur[w]].stalls
          /\ job'[cur[w]].state = "completed" => Complete(w)
          /\ \A k \in JobId \ {cur[w]} : job'[k] = job[k]
      <4>1. CASE Complete(w)
        <5>1. job' = Released(cur[w], "completed")
          BY <2>4, <4>1 DEF Complete
        <5>2. /\ job'[cur[w]] = [state |-> "completed",
                                 attempts |-> job[cur[w]].attempts + 1,
                                 stalls |-> job[cur[w]].stalls, holder |-> Nobody]
              /\ \A k \in JobId \ {cur[w]} : job'[k] = job[k]
          BY <2>2, <2>4, <5>1, ReleasedFacts
        <5> QED
          BY <4>1, <5>2
      <4>2. CASE Retry(w)
        <5>1. PICK s \in {"waiting", "failed"} : job' = Released(cur[w], s)
          BY <2>4, <4>2 DEF Retry
        <5>2. /\ job'[cur[w]] = [state |-> s,
                                 attempts |-> job[cur[w]].attempts + 1,
                                 stalls |-> job[cur[w]].stalls, holder |-> Nobody]
              /\ \A k \in JobId \ {cur[w]} : job'[k] = job[k]
          BY <2>2, <2>4, <5>1, ReleasedFacts
        <5> QED
          BY <5>2
      <4>3. CASE Die(w)
        BY <2>2, <2>4, <4>3, UnlockFacts DEF Die
      <4> QED
        BY <1>6, <4>1, <4>2, <4>3
    <3>2. \A v \in Worker \ {w} : cur[v] = cur[w] /\ cur[w] \in Notice
                                     => job[cur[w]].stalls # 0
      BY <2>4 DEF Locked
    <3>3. SoleWriter'
      BY <2>1, <2>2, <3>1, <3>2 DEF JobId
    <3>4. Complete(w) /\ cur[w] \in Notice /\ job[cur[w]].stalls = 0
                      /\ resends[cur[w]] = 0 => status[cur[w]] = "SENT"
      BY DEF Complete, At
    <3>5. CompletedIsSent'
      BY <2>1, <2>2, <3>1, <3>4 DEF JobId
    <3> QED
      BY <3>3, <3>5
  <2> QED
    BY <2>3, <2>4
<1>7. ASSUME NEW j \in JobId, Stall(j)
      PROVE  SoleWriter' /\ CompletedIsSent'
  <2>1. /\ UNCHANGED <<status, resends, pc, cur>>
        /\ job \in [JobId -> JobRecord] /\ job[j].stalls <= MaxStalled
    BY <1>7 DEF Stall, rows, requests, workers, Kept, TypeOK, JobsKept
  <2>2. /\ job'[j].stalls # 0
        /\ \A k \in JobId \ {j} : job'[k] = job[k]
    <3>1. /\ job'[j] = [state |-> IF job[j].stalls < MaxStalled THEN "waiting"
                                                                ELSE "failed",
                        attempts |-> job[j].attempts,
                        stalls |-> job[j].stalls + 1, holder |-> Nobody]
          /\ \A k \in JobId \ {j} : job'[k] = job[k]
      BY <1>7, <2>1, StallFacts
    <3> QED
      BY <2>1, <3>1 DEF JobRecord
  <2> QED
    BY <2>1, <2>2 DEF JobId
<1>8. ASSUME NEW j \in JobId, Start(j)
      PROVE  SoleWriter' /\ CompletedIsSent'
  <2>1. PICK w \in Worker, s \in {"create", "send"} :
          Take(w, j, s) /\ UNCHANGED <<rows, requests>>
    BY <1>8 DEF Start, BillingStart, EmailStart
  <2>2. /\ job[j].state = "waiting"
        /\ UNCHANGED <<status, resends>>
        /\ pc'[w] = s /\ cur'[w] = j
        /\ \A v \in Worker \ {w} : pc'[v] = pc[v] /\ cur'[v] = cur[v]
    BY <2>1 DEF Take, rows, requests, Kept, TypeOK
  <2>3. /\ job'[j].holder = w /\ job'[j].state = "active"
        /\ job'[j].stalls = job[j].stalls
        /\ \A k \in JobId \ {j} : job'[k] = job[k]
    <3>1. job \in [JobId -> JobRecord]
      BY DEF Kept, TypeOK
    <3>2. /\ job'[j] = [state |-> "active", attempts |-> job[j].attempts,
                        stalls |-> job[j].stalls, holder |-> w]
          /\ \A k \in JobId \ {j} : job'[k] = job[k]
      BY <2>1, <3>1, TakeFacts
    <3> QED
      BY <3>2
  <2>4. \A v \in Worker : cur[v] = j /\ j \in Notice => job[j].stalls # 0
    BY <2>2 DEF Kept, JobsKept, Worker
  <2> QED
    BY <2>2, <2>3, <2>4 DEF JobId
<1>9. ASSUME NEW n \in Notice, ServiceNotify(n) \/ ResendUpdate(n) \/ ResendAudit(n)
      PROVE  SoleWriter' /\ CompletedIsSent'
  <2>1. CASE ServiceNotify(n)
    <3>1. job[n].state = "absent"
      BY <2>1 DEF ServiceNotify, Kept, JobsKept, NoJob
    <3> QED
      BY <2>1, <3>1 DEF ServiceNotify, requests, workers, Kept, TypeOK, JobsKept
  <2>2. CASE ResendUpdate(n)
    <3>1. /\ resends'[n] # 0
          /\ \A m \in Notice \ {n} : resends'[m] = resends[m] /\ status'[m] = status[m]
          /\ UNCHANGED <<job, pc, cur>>
      BY <2>2, BoundAssumption DEF ResendUpdate, workers, Kept, TypeOK
    <3> QED
      BY <3>1
  <2>3. CASE ResendAudit(n)
    BY <2>3 DEF ResendAudit, rows, workers
  <2> QED
    BY <1>9, <2>1, <2>2, <2>3
<1>10. ASSUME NEW j \in JobId, Add(j), job[j].state = "absent",
              UNCHANGED <<rows, requests, workers>>
       PROVE  SoleWriter' /\ CompletedIsSent'
  BY <1>3, <1>10 DEF rows, requests, workers
<1> QED
  BY <1>1, <1>2, <1>4, <1>5, <1>6, <1>7, <1>8, <1>9, <1>10
  DEF Next, Continue, Request, ServiceEnqueue, Enqueue, JobId

(* When BullMQ has an e-mail job down as completed and no worker was ever  *)
(* stalled in it, its notification is SENT until somebody asks for a       *)
(* resend: a job has one worker at a time, which writes the row last.      *)
THEOREM CompletedCorrect == Spec => []CompletedIsSent
<1>1. Init => SoleWriter /\ CompletedIsSent
  BY JobAssumption DEF Init, SoleWriter, CompletedIsSent, NoJob, JobId
<1> QED
  BY <1>1, KeptInit, KeptStep, CompletedStep, PTL DEF Spec
-----------------------------------------------------------------------------
(* How often the work of a job is done                                     *)

LEMMA RunsType ==
  ASSUME Kept, NEW j \in JobId
  PROVE  Runs(j) \in Nat /\ Runs(j) <= MaxRuns
<1>1. /\ job[j].attempts \in Nat /\ job[j].stalls \in Nat
      /\ job[j].attempts + job[j].stalls <= Attempts + MaxStalled
      /\ job[j].state = "active" =>
            job[j].attempts < Attempts /\ job[j].stalls <= MaxStalled
  BY DEF Kept, TypeOK, JobsKept, JobRecord
<1> QED
  BY <1>1, BoundAssumption DEF Runs, MaxRuns

LEMMA WorkFinite ==
  /\ \A s, j : IsFiniteSet(Doing(s, j)) /\ Cardinality(Doing(s, j)) \in Nat
  /\ \A b : IsFiniteSet(MadeBy(b)) /\ Cardinality(MadeBy(b)) \in Nat
  /\ \A s, j : IsFiniteSet(Doing(s, j)') /\ Cardinality(Doing(s, j)') \in Nat
  /\ \A b : IsFiniteSet(MadeBy(b)') /\ Cardinality(MadeBy(b)') \in Nat
<1>1. IsFiniteSet(Worker)
  BY WorkerAssumption, FS_Union DEF Worker
<1>2. \A S \in SUBSET Worker : IsFiniteSet(S) /\ Cardinality(S) \in Nat
  BY <1>1, FS_Subset, FS_CardinalityType
<1>3. \A S \in SUBSET Notice : IsFiniteSet(S) /\ Cardinality(S) \in Nat
  BY JobAssumption, FS_Subset, FS_CardinalityType
<1> QED
  BY <1>2, <1>3 DEF Doing, MadeBy

LEMMA OneMore ==
  ASSUME NEW S, IsFiniteSet(S), NEW x, NEW T \in SUBSET (S \cup {x})
  PROVE  Cardinality(T) <= Cardinality(S) + 1
<1>1. /\ IsFiniteSet(S \cup {x})
      /\ \/ Cardinality(S \cup {x}) = Cardinality(S)
         \/ Cardinality(S \cup {x}) = Cardinality(S) + 1
  BY FS_AddElement
<1>2. Cardinality(T) <= Cardinality(S \cup {x}) /\ IsFiniteSet(T)
  BY <1>1, FS_Subset
<1>3. Cardinality(S) \in Nat /\ Cardinality(T) \in Nat
  BY <1>2, FS_CardinalityType
<1> QED
  BY <1>1, <1>2, <1>3

(* A step that does none of the work and starts no run.                *)
LEMMA NoWorkStep ==
  ASSUME Kept, Kept', WorkCounted,
         \A v \in Worker : \/ pc'[v] = pc[v] /\ cur'[v] = cur[v]
                           \/ pc'[v] \notin {"send", "create"},
         UNCHANGED <<origin, mails, overdueEvents>>,
         \A j \in JobId : Runs(j)' = Runs(j)
  PROVE  WorkCounted'
<1>1. \A b \in BillingJob : MadeBy(b)' = MadeBy(b)
  BY DEF MadeBy
<1>2. ASSUME NEW s \in {"send", "create"}, NEW j \in JobId
      PROVE  Cardinality(Doing(s, j)') <= Cardinality(Doing(s, j))
  <2>1. Doing(s, j)' \subseteq Doing(s, j)
    BY DEF Doing
  <2> QED
    BY <2>1, WorkFinite, FS_Subset
<1>3. ASSUME NEW n \in Notice
      PROVE  mails'[n] + Cardinality(Doing("send", n)') <= Runs(n)'
  <2>1. mails[n] + Cardinality(Doing("send", n)) <= Runs(n)
    BY DEF WorkCounted
  <2>2. Cardinality(Doing("send", n)') <= Cardinality(Doing("send", n))
    BY <1>2 DEF JobId
  <2>3. mails[n] \in Nat /\ Runs(n) \in Nat
    BY RunsType DEF Kept, TypeOK, JobId
  <2> QED
    BY <2>1, <2>2, <2>3, WorkFinite DEF JobId
<1>4. ASSUME NEW b \in BillingJob
      PROVE  /\ Cardinality(MadeBy(b)') + Cardinality(Doing("create", b)') <= Runs(b)'
             /\ overdueEvents'[b] <= Runs(b)'
  <2>1. /\ Cardinality(MadeBy(b)) + Cardinality(Doing("create", b)) <= Runs(b)
        /\ overdueEvents[b] <= Runs(b)
    BY DEF WorkCounted
  <2>2. Cardinality(Doing("create", b)') <= Cardinality(Doing("create", b))
    BY <1>2 DEF JobId
  <2>3. Runs(b) \in Nat
    BY RunsType DEF JobId
  <2> QED
    BY <1>1, <2>1, <2>2, <2>3, WorkFinite DEF JobId
<1> QED
  BY <1>3, <1>4 DEF WorkCounted
LEMMA WorkStep == Kept /\ Kept' /\ WorkCounted /\ [Next]_vars => WorkCounted'
<1> SUFFICES ASSUME Kept, Kept', WorkCounted, [Next]_vars PROVE WorkCounted'
  OBVIOUS
<1> USE JobAssumption, WorkerAssumption
<1> DEFINE Still(v) == pc'[v] = pc[v] /\ cur'[v] = cur[v]
<1>0. job \in [JobId -> JobRecord]
  BY DEF Kept, TypeOK
<1>1. CASE UNCHANGED vars
  BY <1>1, NoWorkStep DEF vars, rows, events, workers, Runs
<1>2. ASSUME NEW w \in Worker, BillingCreate(w)
      PROVE  WorkCounted'
  <2>1. PICK c \in BillingJob : c = cur[w]
    BY <1>2, BusyFacts DEF BillingCreate, At
  <2>2. PICK m \in Notice : m = Fresh
    BY <1>2 DEF BillingCreate, Free, Fresh
  <2>3. /\ UNCHANGED <<job, mails, overdueEvents, cur>>
        /\ pc[w] = "create" /\ pc'[w] = "addEmail"
        /\ \A v \in Worker \ {w} : pc'[v] = pc[v]
        /\ origin'[m] = c
        /\ \A n \in Notice \ {m} : origin'[n] = origin[n]
    BY <1>2, <2>1, <2>2 DEF BillingCreate, At, events, Kept, TypeOK
  <2>4. ASSUME NEW n \in Notice
        PROVE  mails'[n] + Cardinality(Doing("send", n)') <= Runs(n)'
    <3>1. Doing("send", n)' = Doing("send", n) /\ Runs(n)' = Runs(n)
      BY <2>3 DEF Doing, Runs
    <3> QED
      BY <2>3, <3>1 DEF WorkCounted
  <2>5. ASSUME NEW b \in BillingJob
        PROVE  /\ Cardinality(MadeBy(b)') + Cardinality(Doing("create", b)') <= Runs(b)'
               /\ overdueEvents'[b] <= Runs(b)'
    <3>1. /\ Cardinality(MadeBy(b)) + Cardinality(Doing("create", b)) <= Runs(b)
          /\ overdueEvents'[b] <= Runs(b)'
          /\ Runs(b)' = Runs(b)
          /\ Runs(b) \in Nat
      BY <2>3, RunsType DEF WorkCounted, Runs, JobId
    <3>2. CASE b = c
      <4>1. /\ MadeBy(b)' \subseteq MadeBy(b) \cup {m}
            /\ Doing("create", b)' = Doing("create", b) \ {w}
            /\ w \in Doing("create", b)
        BY <2>1, <2>2, <2>3, <3>2 DEF MadeBy, Doing
      <4>2. Cardinality(MadeBy(b)') <= Cardinality(MadeBy(b)) + 1
        BY <4>1, WorkFinite, OneMore
      <4>3. Cardinality(Doing("create", b)') = Cardinality(Doing("create", b)) - 1
        BY <4>1, WorkFinite, FS_RemoveElement
      <4> QED
        BY <3>1, <4>2, <4>3, WorkFinite
    <3>3. CASE b # c
      <4>1. MadeBy(b)' \subseteq MadeBy(b)
        BY <2>3, <3>3 DEF MadeBy
      <4>2. Doing("create", b)' \subseteq Doing("create", b)
        BY <2>3 DEF Doing
      <4>3. /\ Cardinality(MadeBy(b)') <= Cardinality(MadeBy(b))
            /\ Cardinality(Doing("create", b)') <= Cardinality(Doing("create", b))
        BY <4>1, <4>2, WorkFinite, FS_Subset
      <4> QED
        BY <3>1, <4>3, WorkFinite
    <3> QED
      BY <3>2, <3>3
  <2> QED
    BY <2>4, <2>5 DEF WorkCounted
<1>3. ASSUME NEW w \in Worker, BillingAdd(w) \/ BillingThrow(w)
      PROVE  WorkCounted'
  <2>1. /\ UNCHANGED <<origin, mails, overdueEvents>>
        /\ \A v \in Worker : Still(v) \/ pc'[v] \notin {"send", "create"}
    BY <1>3
    DEF BillingAdd, BillingThrow, Goto, rows, events, Kept, TypeOK
  <2>2. CASE job' = job
    BY <2>1, <2>2, NoWorkStep DEF Runs
  <2>3. CASE At(w, "addEmail") /\ Add(made[w])
    <3>1. PICK n \in Notice : n = made[w] /\ job[n] = NoJob
      BY <2>3 DEF Kept, WorkersApart
    <3>2. /\ job'[n] = [state |-> "waiting", attempts |-> job[n].attempts,
                        stalls |-> job[n].stalls, holder |-> job[n].holder]
          /\ \A k \in JobId \ {n} : job'[k] = job[k]
      BY <1>0, <2>3, <3>1, AddFacts DEF JobId
    <3>3. \A k \in JobId : Runs(k)' = Runs(k)
      BY <3>1, <3>2 DEF Runs, NoJob
    <3> QED
      BY <2>1, <3>3, NoWorkStep
  <2> QED
    BY <1>3, <2>2, <2>3 DEF BillingAdd, BillingThrow
<1>4. ASSUME NEW w \in Worker, SendMail(w) \/ SendFail(w)
      PROVE  WorkCounted'
  <2>1. PICK m \in Notice : m = cur[w]
    BY <1>4, BusyFacts DEF SendMail, SendFail, At
  <2>2. /\ UNCHANGED <<job, origin, overdueEvents, cur>>
        /\ pc[w] = "send" /\ pc'[w] \notin {"send", "create"}
        /\ \A v \in Worker \ {w} : pc'[v] = pc[v]
    BY <1>4 DEF SendMail, SendFail, At, Goto, rows, events, Kept, TypeOK
  <2>3. /\ mails'[m] \in {mails[m], mails[m] + 1}
        /\ \A n \in Notice \ {m} : mails'[n] = mails[n]
    BY <1>4, <2>1 DEF SendMail, SendFail, Kept, TypeOK
  <2>4. ASSUME NEW n \in Notice
        PROVE  mails'[n] + Cardinality(Doing("send", n)') <= Runs(n)'
    <3>1. /\ mails[n] + Cardinality(Doing("send", n)) <= Runs(n)
          /\ Runs(n)' = Runs(n)
          /\ Runs(n) \in Nat /\ mails[n] \in Nat
      BY <2>2, RunsType DEF WorkCounted, Runs, JobId, Kept, TypeOK
    <3>2. CASE n = m
      <4>1. /\ Doing("send", n)' = Doing("send", n) \ {w}
            /\ w \in Doing("send", n)
        BY <2>1, <2>2, <3>2 DEF Doing
      <4>2. Cardinality(Doing("send", n)') = Cardinality(Doing("send", n)) - 1
        BY <4>1, WorkFinite, FS_RemoveElement
      <4> QED
        BY <2>3, <3>1, <3>2, <4>2, WorkFinite
    <3>3. CASE n # m
      <4>1. Doing("send", n)' = Doing("send", n)
        BY <2>1, <2>2, <3>3 DEF Doing
      <4> QED
        BY <2>3, <3>1, <3>3, <4>1
    <3> QED
      BY <3>2, <3>3
  <2>5. ASSUME NEW b \in BillingJob
        PROVE  /\ Cardinality(MadeBy(b)') + Cardinality(Doing("create", b)') <= Runs(b)'
               /\ overdueEvents'[b] <= Runs(b)'
    <3>1. /\ MadeBy(b)' = MadeBy(b)
          /\ Doing("create", b)' = Doing("create", b)
          /\ Runs(b)' = Runs(b)
      BY <2>2 DEF MadeBy, Doing, Runs
    <3> QED
      BY <2>2, <3>1 DEF WorkCounted
  <2> QED
    BY <2>4, <2>5 DEF WorkCounted
<1>5. ASSUME NEW w \in Worker,
             \/ MarkSent(w) \/ PublishSent(w) \/ MarkSentThrow(w)
             \/ MarkFailed(w) \/ PublishFailed(w) \/ MarkFailedThrow(w)
      PROVE  WorkCounted'
  <2>1. /\ UNCHANGED <<job, origin, mails, overdueEvents>>
        /\ \A v \in Worker : Still(v) \/ pc'[v] \notin {"send", "create"}
    BY <1>5
    DEF MarkSent, PublishSent, MarkSentThrow, MarkFailed, PublishFailed,
        MarkFailedThrow, Goto, rows, events, Kept, TypeOK
  <2> QED
    BY <2>1, NoWorkStep DEF Runs
<1>6. ASSUME NEW w \in Worker, Complete(w) \/ Retry(w) \/ Die(w)
      PROVE  WorkCounted'
  <2>1. /\ UNCHANGED <<origin, mails, overdueEvents>>
        /\ \A v \in Worker : Still(v) \/ pc'[v] \notin {"send", "create"}
    BY <1>6 DEF Complete, Retry, Die, Idle, rows, events, Kept, TypeOK
  <2>2. /\ pc[w] # "idle" /\ cur[w] \in JobId
        /\ Locked(w) =>
             job[cur[w]].state = "active" /\ job[cur[w]].attempts < Attempts
    BY <1>6, BusyFacts DEF Complete, Retry, Die, At
  <2>3. \A k \in JobId : Runs(k)' = Runs(k)
    <3>1. CASE ~Locked(w)
      <4>1. job' = job
        BY <1>6, <3>1 DEF Complete, Retry, Die
      <4> QED
        BY <4>1 DEF Runs
    <3>2. CASE Locked(w)
      <4>1. PICK j \in JobId : j = cur[w]
        BY <2>2
      <4>2. job[j].state = "active" /\ job[j].attempts < Attempts
        BY <2>2, <3>2, <4>1
      <4>3. ASSUME NEW s \in {"waiting", "completed", "failed"},
                   job' = Released(j, s)
            PROVE  \A k \in JobId : Runs(k)' = Runs(k)
        <5>1. /\ job'[j] = [state |-> s, attempts |-> job[j].attempts + 1,
                            stalls |-> job[j].stalls, holder |-> Nobody]
              /\ \A k \in JobId \ {j} : job'[k] = job[k]
          BY <1>0, <4>2, <4>3, ReleasedFacts
        <5>2. job[j].attempts \in Nat /\ job[j].stalls \in Nat
          BY <1>0 DEF JobRecord
        <5> QED
          BY <4>2, <5>1, <5>2 DEF Runs
      <4>4. CASE job' = [job EXCEPT ![j].holder = Nobody]
        <5>1. /\ job'[j] = [state |-> job[j].state, attempts |-> job[j].attempts,
                            stalls |-> job[j].stalls, holder |-> Nobody]
              /\ \A k \in JobId \ {j} : job'[k] = job[k]
          BY <1>0, <4>4, UnlockFacts
        <5> QED
          BY <5>1 DEF Runs
      <4> QED
        BY <1>6, <3>2, <4>1, <4>3, <4>4 DEF Complete, Retry, Die
    <3> QED
      BY <3>1, <3>2
  <2> QED
    BY <2>1, <2>3, NoWorkStep
<1>7. ASSUME NEW j \in JobId, Stall(j)
      PROVE  WorkCounted'
  <2>1. /\ UNCHANGED <<origin, mails, overdueEvents, pc, cur>>
        /\ job[j].state = "active" /\ job[j].stalls <= MaxStalled
    BY <1>7 DEF Stall, rows, events, workers, Kept, JobsKept
  <2>2. /\ job'[j] = [state |-> IF job[j].stalls < MaxStalled THEN "waiting"
                                                              ELSE "failed",
                      attempts |-> job[j].attempts,
                      stalls |-> job[j].stalls + 1, holder |-> Nobody]
        /\ \A k \in JobId \ {j} : job'[k] = job[k]
    BY <1>0, <1>7, <2>1, StallFacts
  <2>3. job[j].attempts \in Nat /\ job[j].stalls \in Nat
    BY <1>0 DEF JobRecord
  <2>4. \A k \in JobId : Runs(k)' = Runs(k)
    BY <2>1, <2>2, <2>3 DEF Runs
  <2> QED
    BY <2>1, <2>4, NoWorkStep
<1>8. ASSUME NEW j \in JobId, Start(j)
      PROVE  WorkCounted'
  <2>1. PICK w \in Worker :
          \/ j \in BillingJob /\ BillingStart(w, j)
          \/ j \in Notice /\ EmailStart(w, j)
    BY <1>8 DEF Start
  <2>2. PICK s \in {"create", "send"} :
          /\ Take(w, j, s)
          /\ s = "send" => j \in Notice
          /\ s = "create" => j \in BillingJob
    BY <2>1 DEF BillingStart, EmailStart
  <2>3. /\ UNCHANGED <<origin, mails>>
        /\ pc[w] = "idle" /\ pc'[w] = s /\ cur'[w] = j
        /\ \A v \in Worker \ {w} : Still(v)
        /\ job[j].state = "waiting"
    BY <2>1, <2>2 DEF BillingStart, EmailStart, Take, At, rows, Kept, TypeOK
  <2>4. /\ job'[j] = [state |-> "active", attempts |-> job[j].attempts,
                      stalls |-> job[j].stalls, holder |-> w]
        /\ \A k \in JobId \ {j} : job'[k] = job[k]
    BY <1>0, <2>2, TakeFacts
  <2>5. /\ job[j].attempts \in Nat /\ job[j].stalls \in Nat
    BY <1>0 DEF JobRecord
  <2>6. /\ Runs(j)' = Runs(j) + 1
        /\ \A k \in JobId \ {j} : Runs(k)' = Runs(k)
        /\ \A k \in JobId : Runs(k) \in Nat
    BY <2>3, <2>4, <2>5, RunsType DEF Runs
  <2>7. ASSUME NEW t, NEW k \in JobId
        PROVE  /\ Doing(t, k)' \subseteq Doing(t, k) \cup {w}
               /\ k # j => Doing(t, k)' \subseteq Doing(t, k)
    BY <2>3 DEF Doing
  <2>8. ASSUME NEW t, NEW k \in JobId
        PROVE  /\ k = j => Cardinality(Doing(t, k)') <= Cardinality(Doing(t, k)) + 1
               /\ k # j => Cardinality(Doing(t, k)') <= Cardinality(Doing(t, k))
    <3>1. Cardinality(Doing(t, k)') <= Cardinality(Doing(t, k)) + 1
      BY <2>7, WorkFinite, OneMore
    <3>2. k # j => Cardinality(Doing(t, k)') <= Cardinality(Doing(t, k))
      BY <2>7, WorkFinite, FS_Subset
    <3> QED
      BY <3>1, <3>2
  <2>9. ASSUME NEW n \in Notice
        PROVE  mails'[n] + Cardinality(Doing("send", n)') <= Runs(n)'
    <3>1. mails[n] + Cardinality(Doing("send", n)) <= Runs(n) /\ mails[n] \in Nat
      BY DEF WorkCounted, Kept, TypeOK
    <3> QED
      BY <2>3, <2>6, <2>8, <3>1, WorkFinite DEF JobId
  <2>10. ASSUME NEW b \in BillingJob
         PROVE  /\ Cardinality(MadeBy(b)') + Cardinality(Doing("create", b)') <= Runs(b)'
                /\ overdueEvents'[b] <= Runs(b)'
    <3>1. /\ Cardinality(MadeBy(b)) + Cardinality(Doing("create", b)) <= Runs(b)
          /\ overdueEvents[b] <= Runs(b) /\ overdueEvents[b] \in Nat
      BY DEF WorkCounted, Kept, TypeOK
    <3>2. MadeBy(b)' = MadeBy(b)
      BY <2>3 DEF MadeBy
    <3>3. \/ overdueEvents'[b] = overdueEvents[b]
          \/ b = j /\ overdueEvents'[b] = overdueEvents[b] + 1
      BY <2>1 DEF BillingStart, EmailStart, events, Kept, TypeOK
    <3>4. overdueEvents'[b] <= Runs(b)'
      BY <2>6, <3>1, <3>3 DEF JobId
    <3> QED
      BY <2>6, <2>8, <3>1, <3>2, <3>4, WorkFinite DEF JobId
  <2> QED
    BY <2>9, <2>10 DEF WorkCounted
<1>9. ASSUME NEW j \in JobId, Add(j), job[j].state = "absent",
             UNCHANGED <<rows, mails, events, workers>>
      PROVE  WorkCounted'
  <2>1. /\ job'[j] = [state |-> "waiting", attempts |-> job[j].attempts,
                      stalls |-> job[j].stalls, holder |-> job[j].holder]
        /\ \A k \in JobId \ {j} : job'[k] = job[k]
    BY <1>0, <1>9, AddFacts
  <2>2. \A k \in JobId : Runs(k)' = Runs(k)
    BY <1>9, <2>1 DEF Runs
  <2> QED
    BY <1>9, <2>2, NoWorkStep DEF rows, events, workers
<1>10. ASSUME NEW n \in Notice,
              ServiceNotify(n) \/ ResendUpdate(n) \/ ResendAudit(n)
       PROVE  WorkCounted'
  BY <1>10, NoWorkStep
  DEF ServiceNotify, ResendUpdate, ResendAudit, rows, events, workers, Runs
<1> QED
  BY <1>1, <1>2, <1>3, <1>4, <1>5, <1>6, <1>7, <1>8, <1>9, <1>10
  DEF Next, Continue, Request, ServiceEnqueue, Enqueue, JobId

LEMMA WorkInit == Init => WorkCounted
<1> SUFFICES ASSUME Init PROVE WorkCounted
  OBVIOUS
<1>1. \A j \in JobId : Runs(j) = 0
  BY DEF Init, NoJob, Runs
<1>2. \A s \in {"send", "create"}, j \in JobId : Cardinality(Doing(s, j)) = 0
  <2>1. \A s \in {"send", "create"}, j \in JobId : Doing(s, j) = {}
    BY DEF Init, Doing
  <2> QED
    BY <2>1, FS_EmptySet
<1>3. \A b \in BillingJob : Cardinality(MadeBy(b)) = 0
  <2>1. \A b \in BillingJob : MadeBy(b) = {}
    BY JobAssumption DEF Init, MadeBy
  <2> QED
    BY <2>1, FS_EmptySet
<1>4. /\ \A n \in Notice : mails[n] = 0
      /\ \A b \in BillingJob : overdueEvents[b] = 0
  BY DEF Init
<1> QED
  BY <1>1, <1>2, <1>3, <1>4 DEF WorkCounted, JobId

(* An e-mail goes out at most once for each of a job's runs, and a billing *)
(* job makes a notification and announces an overdue invoice at most once  *)
(* for each of its own: attempts and stalls together bound the repeats,    *)
(* however many workers there are and whenever they die.                   *)
THEOREM WorkBoundCorrect == Spec => []WorkBound
<1>1. Kept /\ WorkCounted => WorkBound
  <2> SUFFICES ASSUME Kept, WorkCounted PROVE WorkBound
    OBVIOUS
  <2>1. MaxRuns \in Nat
    BY BoundAssumption DEF MaxRuns
  <2>2. ASSUME NEW n \in Notice
        PROVE  mails[n] <= MaxRuns
    <3>1. /\ mails[n] + Cardinality(Doing("send", n)) <= Runs(n)
          /\ mails[n] \in Nat
          /\ Runs(n) \in Nat /\ Runs(n) <= MaxRuns
      BY RunsType DEF WorkCounted, Kept, TypeOK, JobId
    <3> QED
      BY <2>1, <3>1, WorkFinite
  <2>3. ASSUME NEW b \in BillingJob
        PROVE  Cardinality(MadeBy(b)) <= MaxRuns /\ overdueEvents[b] <= MaxRuns
    <3>1. /\ Cardinality(MadeBy(b)) + Cardinality(Doing("create", b)) <= Runs(b)
          /\ overdueEvents[b] <= Runs(b) /\ overdueEvents[b] \in Nat
          /\ Runs(b) \in Nat /\ Runs(b) <= MaxRuns
      BY RunsType DEF WorkCounted, Kept, TypeOK, JobId
    <3> QED
      BY <2>1, <3>1, WorkFinite
  <2> QED
    BY <2>2, <2>3 DEF WorkBound
<1> QED
  BY <1>1, WorkInit, KeptInit, KeptStep, WorkStep, PTL DEF Spec

-----------------------------------------------------------------------------
(* The queues deliver at least once                                        *)

(* What a step may do to one job: queue it, begin it, report it as done    *)
(* when a worker has come to its end, or give it up.                       *)
Moves(j) ==
    \/ /\ Reported(j) = "absent" /\ Reported(j)' = "queued"
       /\ Runs(j)' = Runs(j)
    \/ /\ Reported(j) = "queued" /\ Reported(j)' = "queued"
       /\ Runs(j) < MaxRuns /\ Runs(j)' = Runs(j) + 1
    \/ /\ Reported(j) = "queued" /\ Reported(j)' = "done"
       /\ Runs(j)' = Runs(j)
       /\ \E w \in Worker : At(w, "resolve") /\ cur[w] = j
    \/ /\ Reported(j) = "queued" /\ Reported(j)' = "failed"
       /\ LeastRuns <= Runs(j) /\ Runs(j)' = Runs(j)
    \/ Reported(j)' = Reported(j) /\ Runs(j)' = Runs(j)

OtherJobsRest(j) == \A k \in JobId \ {j} : job'[k] = job[k]

LEMMA LockedMoves ==
  ASSUME Kept, NEW w \in Worker, Complete(w) \/ Retry(w) \/ Die(w), Locked(w),
         NEW j \in JobId, j = cur[w]
  PROVE  OtherJobsRest(j) /\ Moves(j)
<1>1. /\ job \in [JobId -> JobRecord]
      /\ pc[w] # "idle" /\ cur[w] \in JobId
      /\ job[cur[w]].state = "active"
      /\ job[cur[w]].attempts < Attempts /\ job[cur[w]].stalls <= MaxStalled
  BY BusyFacts DEF Complete, Retry, Die, At
<1>2. j = cur[w]
  OBVIOUS
<1>3. /\ job[j].state = "active"
      /\ job[j].attempts \in Nat /\ job[j].stalls \in Nat
      /\ job[j].attempts < Attempts
  BY <1>1, <1>2 DEF JobRecord
<1>4. ASSUME NEW s \in {"waiting", "completed", "failed"}, job' = Released(j, s),
             s = "completed" => At(w, "resolve"),
             s = "failed" => job[j].attempts + 1 >= Attempts
      PROVE  OtherJobsRest(j) /\ Moves(j)
  <2>1. /\ job'[j] = [state |-> s, attempts |-> job[j].attempts + 1,
                      stalls |-> job[j].stalls, holder |-> Nobody]
        /\ \A k \in JobId \ {j} : job'[k] = job[k]
    BY <1>1, <1>3, <1>4, ReleasedFacts
  <2>2. Runs(j)' = Runs(j) /\ Runs(j) = job[j].attempts + 1 + job[j].stalls
    BY <1>3, <2>1 DEF Runs
  <2>3. Reported(j) = "queued" /\ Reported(j)' = Report[s]
    BY <1>3, <2>1 DEF Reported, Report
  <2>4. CASE s = "waiting"
    BY <2>1, <2>2, <2>3, <2>4 DEF Moves, Report, OtherJobsRest
  <2>5. CASE s = "completed"
    BY <1>2, <1>4, <2>1, <2>2, <2>3, <2>5 DEF Moves, Report, OtherJobsRest
  <2>6. CASE s = "failed"
    <3>1. LeastRuns <= Runs(j)
      BY <1>3, <1>4, <2>2, <2>6, BoundAssumption DEF LeastRuns
    <3> QED
      BY <2>1, <2>2, <2>3, <2>6, <3>1 DEF Moves, Report, OtherJobsRest
  <2> QED
    BY <2>4, <2>5, <2>6
<1>5. CASE Complete(w)
  BY <1>2, <1>4, <1>5 DEF Complete
<1>6. CASE Retry(w)
  <2>1. CASE job[j].attempts + 1 < Attempts
    BY <1>2, <1>4, <1>6, <2>1 DEF Retry
  <2>2. CASE ~(job[j].attempts + 1 < Attempts)
    BY <1>2, <1>3, <1>4, <1>6, <2>2, BoundAssumption DEF Retry
  <2> QED
    BY <2>1, <2>2
<1>7. CASE Die(w)
  <2>1. job' = [job EXCEPT ![j].holder = Nobody]
    BY <1>2, <1>7 DEF Die
  <2>2. /\ job'[j] = [state |-> job[j].state, attempts |-> job[j].attempts,
                      stalls |-> job[j].stalls, holder |-> Nobody]
        /\ \A k \in JobId \ {j} : job'[k] = job[k]
    BY <1>1, <2>1, UnlockFacts
  <2> QED
    BY <2>2 DEF Moves, OtherJobsRest, Reported, Runs
<1> QED
  BY <1>5, <1>6, <1>7

LEMMA StallMoves ==
  ASSUME Kept, NEW j \in JobId, Stall(j)
  PROVE  OtherJobsRest(j) /\ Moves(j)
<1>1. job \in [JobId -> JobRecord]
  BY DEF Kept, TypeOK
<1>2. job[j].state = "active" /\ job[j].stalls <= MaxStalled
  BY DEF Stall, Kept, JobsKept
<1>3. /\ job'[j] = [state |-> IF job[j].stalls < MaxStalled THEN "waiting"
                                                            ELSE "failed",
                    attempts |-> job[j].attempts,
                    stalls |-> job[j].stalls + 1, holder |-> Nobody]
      /\ \A k \in JobId \ {j} : job'[k] = job[k]
  BY <1>1, <1>2, StallFacts
<1>4. job[j].attempts \in Nat /\ job[j].stalls \in Nat
  BY <1>1 DEF JobRecord
<1>5. Runs(j) = job[j].attempts + job[j].stalls + 1 /\ Runs(j)' = Runs(j)
  BY <1>2, <1>3, <1>4 DEF Runs
<1>6. Reported(j) = "queued"
  BY <1>2 DEF Reported, Report
<1>7. CASE job[j].stalls < MaxStalled
  BY <1>3, <1>5, <1>6, <1>7 DEF Moves, OtherJobsRest, Reported, Report
<1>8. CASE ~(job[j].stalls < MaxStalled)
  <2>1. LeastRuns <= Runs(j)
    BY <1>2, <1>4, <1>5, <1>8, BoundAssumption DEF LeastRuns
  <2>2. Reported(j)' = "failed"
    BY <1>3, <1>8 DEF Reported, Report
  <2> QED
    BY <1>3, <1>5, <1>6, <2>1, <2>2 DEF Moves, OtherJobsRest
<1> QED
  BY <1>7, <1>8

LEMMA AddMoves ==
  ASSUME Kept, NEW j \in JobId, job[j] = NoJob, Add(j)
  PROVE  OtherJobsRest(j) /\ Moves(j) /\ job'[j].state = "waiting"
<1>1. /\ job'[j] = [state |-> "waiting", attempts |-> job[j].attempts,
                    stalls |-> job[j].stalls, holder |-> job[j].holder]
      /\ \A k \in JobId \ {j} : job'[k] = job[k]
  BY AddFacts DEF Kept, TypeOK
<1>2. Runs(j)' = Runs(j)
  BY <1>1 DEF Runs, NoJob
<1>3. Reported(j) = "absent" /\ Reported(j)' = "queued"
  BY <1>1 DEF Reported, Report, NoJob
<1> QED
  BY <1>1, <1>2, <1>3 DEF Moves, OtherJobsRest

LEMMA StartMoves ==
  ASSUME Kept, Kept', NEW j \in JobId, Start(j)
  PROVE  OtherJobsRest(j) /\ Moves(j)
<1>1. PICK w \in Worker : \/ j \in BillingJob /\ BillingStart(w, j)
                          \/ j \in Notice /\ EmailStart(w, j)
  BY DEF Start
<1>2. PICK s : Take(w, j, s)
  BY <1>1 DEF BillingStart, EmailStart
<1>3. job \in [JobId -> JobRecord] /\ job[j].state = "waiting"
  BY <1>2 DEF Kept, TypeOK, Take
<1>4. /\ job'[j] = [state |-> "active", attempts |-> job[j].attempts,
                    stalls |-> job[j].stalls, holder |-> w]
      /\ \A k \in JobId \ {j} : job'[k] = job[k]
  BY <1>2, <1>3, TakeFacts
<1>5. job[j].attempts \in Nat /\ job[j].stalls \in Nat
  BY <1>3 DEF JobRecord
<1>6. Runs(j)' = Runs(j) + 1
  BY <1>3, <1>4, <1>5 DEF Runs
<1>7. /\ Runs(j) \in Nat
      /\ job'[j].attempts < Attempts /\ job'[j].stalls <= MaxStalled
  BY <1>4, RunsType DEF Kept, JobsKept
<1>8. Runs(j) < MaxRuns
  BY <1>3, <1>4, <1>5, <1>7, BoundAssumption DEF Runs, MaxRuns
<1>9. Reported(j) = "queued" /\ Reported(j)' = "queued"
  BY <1>3, <1>4 DEF Reported, Report
<1> QED
  BY <1>4, <1>6, <1>8, <1>9 DEF Moves, OtherJobsRest

(* Every step moves one job, or none. *)
LEMMA OneJobMoves ==
  ASSUME Kept, Kept', [Next]_vars
  PROVE  job' = job \/ \E j \in JobId : OtherJobsRest(j) /\ Moves(j)
<1>1. ASSUME NEW w \in Worker, BillingAdd(w) \/ BillingThrow(w), job' # job
      PROVE  \E j \in JobId : OtherJobsRest(j) /\ Moves(j)
  <2>1. At(w, "addEmail") /\ Add(made[w])
    BY <1>1 DEF BillingAdd, BillingThrow
  <2>2. made[w] \in JobId /\ job[made[w]] = NoJob
    BY <2>1 DEF Kept, WorkersApart, JobId
  <2> QED
    BY <2>1, <2>2, AddMoves
<1>2. ASSUME NEW w \in Worker, Complete(w) \/ Retry(w) \/ Die(w), job' # job
      PROVE  \E j \in JobId : OtherJobsRest(j) /\ Moves(j)
  <2>1. pc[w] # "idle" /\ Locked(w)
    BY <1>2 DEF Complete, Retry, Die, At
  <2>2. PICK j \in JobId : j = cur[w]
    BY <2>1, BusyFacts
  <2> QED
    BY <1>2, <2>1, <2>2, LockedMoves
<1>3. ASSUME NEW w \in Worker, Continue(w), job' # job
      PROVE  BillingAdd(w) \/ BillingThrow(w) \/ Complete(w) \/ Retry(w)
  BY <1>3 DEF Continue, BillingCreate, SendMail, SendFail, MarkSent, PublishSent,
              MarkSentThrow, MarkFailed, PublishFailed, MarkFailedThrow
<1>4. ASSUME NEW j \in JobId, job[j].state = "absent", Add(j)
      PROVE  OtherJobsRest(j) /\ Moves(j)
  BY <1>4, AddMoves DEF Kept, JobsKept
<1>5. ASSUME NEW n \in Notice, Request(n), job' # job
      PROVE  \E j \in JobId : OtherJobsRest(j) /\ Moves(j)
  BY <1>4, <1>5 DEF Request, ServiceNotify, ServiceEnqueue, ResendUpdate,
                    ResendAudit, JobId
<1>6. ASSUME NEW b \in BillingJob, Enqueue(b)
      PROVE  \E j \in JobId : OtherJobsRest(j) /\ Moves(j)
  BY <1>4, <1>6 DEF Enqueue, JobId
<1> QED
  BY <1>1, <1>2, <1>3, <1>5, <1>6, StallMoves, StartMoves DEF Next, vars

(* A mail is the effect of a run that has begun and not had it yet.        *)
LEMMA MailCounts ==
  ASSUME Kept, WorkCounted, [Next]_vars, mails' # mails
  PROVE  /\ job' = job
         /\ \E n \in Notice : /\ mails[n] < Runs(n)
                              /\ mails' = [mails EXCEPT ![n] = @ + 1]
<1>1. PICK w \in Worker : SendMail(w) \/ SendFail(w)
  BY DEF Next, vars, Continue, Start, Request, BillingCreate, BillingAdd,
         BillingThrow, MarkSent, PublishSent, MarkSentThrow, MarkFailed,
         PublishFailed, MarkFailedThrow, Complete, Retry, Die, Stall, BillingStart,
         EmailStart, Enqueue, ServiceNotify, ServiceEnqueue, ResendUpdate,
         ResendAudit
<1>2. PICK n \in Notice : n = cur[w]
  BY <1>1, BusyFacts DEF SendMail, SendFail, At
<1>3. job' = job /\ mails' = [mails EXCEPT ![n] = @ + 1]
  BY <1>1, <1>2 DEF SendMail, SendFail
<1>4. w \in Doing("send", n)
  BY <1>1, <1>2 DEF SendMail, SendFail, At, Doing
<1>5. Cardinality(Doing("send", n)) \in Nat /\ Cardinality(Doing("send", n)) # 0
  BY <1>4, WorkFinite, FS_EmptySet
<1>6. mails[n] + Cardinality(Doing("send", n)) <= Runs(n)
  BY DEF WorkCounted
<1>7. mails[n] \in Nat /\ Runs(n) \in Nat
  BY RunsType DEF Kept, TypeOK, JobId
<1>8. mails[n] < Runs(n)
  BY <1>5, <1>6, <1>7
<1> QED
  BY <1>3, <1>8

LEMMA QueuedFinite ==
  /\ \A b : IsFiniteSet(QueuedBy(b)) /\ Cardinality(QueuedBy(b)) \in Nat
  /\ \A b : IsFiniteSet(QueuedBy(b)') /\ Cardinality(QueuedBy(b)') \in Nat
<1>1. \A S \in SUBSET Notice : IsFiniteSet(S) /\ Cardinality(S) \in Nat
  BY JobAssumption, FS_Subset, FS_CardinalityType
<1> QED
  BY <1>1 DEF QueuedBy, MadeBy

(* An e-mail job is the effect of the billing job whose run created its    *)
(* notification: one of those that the run may still have.                 *)
LEMMA AddCounts ==
  ASSUME Kept, WorkCounted, RunsDeliver, NEW w \in Worker,
         At(w, "addEmail"), Add(made[w]), origin' = origin,
         NEW b \in BillingJob, b = cur[w]
  PROVE  /\ QueuedBy(b)' # {}
         /\ Cardinality(QueuedBy(b)) < Runs(b)
         /\ Cardinality(QueuedBy(b)') = Cardinality(QueuedBy(b)) + 1
         /\ \A c \in BillingJob \ {b} : QueuedBy(c)' = QueuedBy(c)
         /\ \A c \in BillingJob : job'[c] = job[c]
<1>1. PICK n \in Notice : n = made[w]
  BY DEF Kept, WorkersApart
<1>2. n \in JobId /\ job[n] = NoJob /\ origin[n] = b /\ Add(n)
  BY <1>1 DEF Kept, WorkersApart, RunsDeliver, JobId
<1>3. OtherJobsRest(n) /\ job'[n].state = "waiting"
  BY <1>2, AddMoves
<1>4. job[n].state = "absent"
  BY <1>2 DEF NoJob
<1>5. \A k \in Notice \ {n} : job'[k] = job[k]
  BY <1>3 DEF OtherJobsRest, JobId
<1>6. \A c \in BillingJob : job'[c] = job[c]
  BY <1>3, JobAssumption DEF OtherJobsRest, JobId
<1>7. n \in QueuedBy(b)' /\ n \notin QueuedBy(b)
  BY <1>2, <1>3, <1>4 DEF QueuedBy, MadeBy
<1>8. \A k \in Notice \ {n} : \A c : k \in QueuedBy(c)' <=> k \in QueuedBy(c)
  BY <1>5 DEF QueuedBy, MadeBy
<1>9. \A c : QueuedBy(c) \subseteq Notice /\ QueuedBy(c)' \subseteq Notice
  BY DEF QueuedBy, MadeBy
<1>10. QueuedBy(b)' = QueuedBy(b) \cup {n}
  BY <1>7, <1>8, <1>9
<1>11. \A c \in BillingJob \ {b} : n \notin QueuedBy(c)' /\ n \notin QueuedBy(c)
  BY <1>2 DEF QueuedBy, MadeBy
<1>12. \A c \in BillingJob \ {b} : QueuedBy(c)' = QueuedBy(c)
  BY <1>8, <1>9, <1>11
<1>13. Cardinality(QueuedBy(b)') = Cardinality(QueuedBy(b)) + 1
  BY <1>7, <1>10, QueuedFinite, FS_AddElement
<1>14. QueuedBy(b) \subseteq MadeBy(b) \ {n} /\ n \in MadeBy(b)
  BY <1>2, <1>7 DEF QueuedBy, MadeBy
<1>15. Cardinality(MadeBy(b) \ {n}) = Cardinality(MadeBy(b)) - 1
       /\ IsFiniteSet(MadeBy(b) \ {n})
  BY <1>14, WorkFinite, FS_RemoveElement
<1>16. Cardinality(QueuedBy(b)) <= Cardinality(MadeBy(b) \ {n})
  BY <1>14, <1>15, FS_Subset
<1>17. Cardinality(MadeBy(b)) + Cardinality(Doing("create", b)) <= Runs(b)
  BY DEF WorkCounted
<1>18. Runs(b) \in Nat /\ Cardinality(QueuedBy(b)) \in Nat
       /\ Cardinality(MadeBy(b)) \in Nat /\ Cardinality(Doing("create", b)) \in Nat
  BY RunsType, QueuedFinite, WorkFinite DEF JobId
<1>19. Cardinality(QueuedBy(b)) < Runs(b)
  BY <1>15, <1>16, <1>17, <1>18
<1> QED
  BY <1>6, <1>7, <1>12, <1>13, <1>19

Adding(w) == At(w, "addEmail") /\ Add(made[w]) /\ origin' = origin

(* Only a billing worker's queue.add gives a billing job an e-mail job.    *)
LEMMA QueuedStep ==
  ASSUME Kept, Kept', RunsDeliver, [Next]_vars
  PROVE  \/ \E w \in Worker : Adding(w)
         \/ \A b \in BillingJob : QueuedBy(b)' = QueuedBy(b)
<1>0. job \in [JobId -> JobRecord] /\ job' \in [JobId -> JobRecord]
  BY DEF Kept, TypeOK
<1>1. CASE job' = job /\ origin' = origin
  BY <1>1 DEF QueuedBy, MadeBy
<1>2. ASSUME NEW w \in Worker, BillingCreate(w)
      PROVE  \A b \in BillingJob : QueuedBy(b)' = QueuedBy(b)
  <2>1. PICK m \in Notice : m = Fresh /\ status[m] = "absent"
    BY <1>2 DEF BillingCreate, Free, Fresh
  <2>2. job' = job /\ \A n \in Notice \ {m} : origin'[n] = origin[n]
    BY <1>2, <2>1 DEF BillingCreate, Kept, TypeOK
  <2>3. job[m].state = "absent"
    BY <2>1 DEF Kept, JobsKept, NoJob
  <2> QED
    BY <2>2, <2>3 DEF QueuedBy, MadeBy
<1>3. ASSUME NEW j \in JobId, OtherJobsRest(j), job[j].state # "absent",
             Moves(j), origin' = origin
      PROVE  \A b \in BillingJob : QueuedBy(b)' = QueuedBy(b)
  <2>1. job[j].state \in JobState /\ job'[j].state \in JobState
    BY <1>0 DEF JobRecord
  <2>2. Reported(j) # "absent"
    BY <1>3, <2>1 DEF Reported, Report, JobState
  <2>3. Reported(j)' # "absent"
    BY <1>3, <2>2 DEF Moves
  <2>4. job'[j].state # "absent"
    BY <2>1, <2>3 DEF Reported, Report
  <2> QED
    BY <1>3, <2>4 DEF QueuedBy, MadeBy, OtherJobsRest, JobId
<1>4. ASSUME NEW j \in JobId, Start(j) \/ Stall(j)
      PROVE  \A b \in BillingJob : QueuedBy(b)' = QueuedBy(b)
  <2>1. job[j].state # "absent" /\ origin' = origin
    BY <1>4 DEF Start, BillingStart, EmailStart, Take, Stall, rows
  <2> QED
    BY <1>3, <1>4, <2>1, StartMoves, StallMoves
<1>5. ASSUME NEW w \in Worker, Complete(w) \/ Retry(w) \/ Die(w), Locked(w)
      PROVE  \A b \in BillingJob : QueuedBy(b)' = QueuedBy(b)
  <2>0. pc[w] # "idle"
    BY <1>5 DEF Complete, Retry, Die, At
  <2>1. PICK j \in JobId : j = cur[w] /\ job[j].state = "active"
    BY <1>5, <2>0, BusyFacts
  <2>2. OtherJobsRest(j) /\ Moves(j)
    BY <1>5, <2>1, LockedMoves
  <2>3. origin' = origin
    BY <1>5 DEF Complete, Retry, Die, rows
  <2> QED
    BY <1>3, <2>1, <2>2, <2>3
<1>6. ASSUME NEW j \in JobId, Add(j), origin' = origin,
             \A b \in BillingJob : j \notin MadeBy(b)
      PROVE  \A b \in BillingJob : QueuedBy(b)' = QueuedBy(b)
  BY <1>0, <1>6, AddFacts DEF QueuedBy, MadeBy, JobId
<1>7. ASSUME NEW b \in BillingJob, Enqueue(b)
      PROVE  \A c \in BillingJob : QueuedBy(c)' = QueuedBy(c)
  BY <1>6, <1>7, JobAssumption DEF Enqueue, rows, MadeBy, JobId
<1>8. ASSUME NEW n \in Notice, ServiceEnqueue(n)
      PROVE  \A c \in BillingJob : QueuedBy(c)' = QueuedBy(c)
  BY <1>6, <1>8, JobAssumption
  DEF ServiceEnqueue, rows, RunsDeliver, MadeBy, JobId
<1>9. ASSUME NEW w \in Worker, Continue(w) \/ Die(w)
      PROVE  \/ job' = job /\ origin' = origin
             \/ Adding(w) \/ BillingCreate(w)
             \/ (Complete(w) \/ Retry(w) \/ Die(w)) /\ Locked(w)
  BY <1>9
  DEF Continue, Adding, BillingAdd, BillingThrow, SendMail, SendFail, MarkSent,
      PublishSent, MarkSentThrow, MarkFailed, PublishFailed, MarkFailedThrow,
      Complete, Retry, Die, rows
<1>10. ASSUME NEW n \in Notice, Request(n)
       PROVE  (job' = job /\ origin' = origin) \/ ServiceEnqueue(n)
  BY <1>10 DEF Request, ServiceNotify, ResendUpdate, ResendAudit, rows
<1>11. CASE UNCHANGED vars
  BY <1>1, <1>11 DEF vars, rows
<1> QED
  BY <1>1, <1>2, <1>4, <1>5, <1>7, <1>8, <1>9, <1>10, <1>11 DEF Next

(* How a worker comes to queue its e-mail, or to the end of its run.       *)
LEMMA ComesTo ==
  ASSUME Kept, [Next]_vars, NEW v \in Worker, pc'[v] \in {"addEmail", "resolve"}
  PROVE  \/ pc'[v] = pc[v] /\ cur'[v] = cur[v] /\ made'[v] = made[v]
         \/ BillingCreate(v) \/ BillingAdd(v) \/ PublishSent(v)
<1>0. /\ pc \in [Worker -> Stage]
      /\ cur \in [Worker -> JobId \cup {Nothing}]
      /\ made \in [Worker -> Notice \cup {Nothing}]
  BY DEF Kept, TypeOK
<1>1. CASE UNCHANGED workers
  BY <1>1 DEF workers
<1>2. ASSUME NEW w \in Worker, Continue(w) \/ Die(w)
      PROVE  \/ pc'[v] = pc[v] /\ cur'[v] = cur[v] /\ made'[v] = made[v]
             \/ BillingCreate(v) \/ BillingAdd(v) \/ PublishSent(v)
  <2>1. CASE w # v
    <3>1. /\ pc' = [pc EXCEPT ![w] = pc'[w]]
          /\ cur' = [cur EXCEPT ![w] = cur'[w]]
          /\ made' = [made EXCEPT ![w] = made'[w]]
      BY <1>0, <1>2
      DEF Continue, BillingCreate, BillingAdd, BillingThrow, SendMail, SendFail,
          MarkSent, PublishSent, MarkSentThrow, MarkFailed, PublishFailed,
          MarkFailedThrow, Complete, Retry, Die, Goto, Idle
    <3> QED
      BY <1>0, <2>1, <3>1
  <2>2. CASE w = v
    BY <1>0, <1>2, <2>2
    DEF Continue, BillingThrow, SendMail, SendFail, MarkSent, MarkSentThrow,
        MarkFailed, PublishFailed, MarkFailedThrow, Complete, Retry, Die, Goto, Idle
  <2> QED
    BY <2>1, <2>2
<1>3. ASSUME NEW j \in JobId, Start(j)
      PROVE  pc'[v] = pc[v] /\ cur'[v] = cur[v] /\ made'[v] = made[v]
  BY <1>0, <1>3 DEF Start, BillingStart, EmailStart, Take
<1>4. ASSUME NEW j \in JobId, Stall(j) \/ Enqueue(j) \/ Request(j)
      PROVE  UNCHANGED workers
  BY <1>4 DEF Stall, Enqueue, Request, ServiceNotify, ServiceEnqueue,
              ResendUpdate, ResendAudit
<1> QED
  BY <1>1, <1>2, <1>3, <1>4 DEF Next, vars, JobId

LEMMA DeliverStep ==
  Kept /\ Kept' /\ WorkCounted /\ SendersKnow /\ RunsDeliver /\ [Next]_vars
    => RunsDeliver'
<1> SUFFICES ASSUME Kept, Kept', WorkCounted, SendersKnow, RunsDeliver, [Next]_vars
             PROVE  RunsDeliver'
  OBVIOUS
<1>1. \A n \in Notice : status[n] # "absent" \/ n \in ServiceNotice =>
          origin'[n] = origin[n]
  <2>1. CASE origin' = origin
    BY <2>1
  <2>2. ASSUME NEW w \in Worker, BillingCreate(w)
        PROVE  \A n \in Notice : status[n] # "absent" \/ n \in ServiceNotice =>
                  origin'[n] = origin[n]
    <3>1. Fresh \in Free
      BY <2>2 DEF BillingCreate, Fresh
    <3> QED
      BY <2>2, <3>1 DEF BillingCreate, Free, Kept, TypeOK
  <2> QED
    BY <2>1, <2>2
    DEF Next, vars, Continue, Start, Request, BillingAdd, BillingThrow, SendMail,
        SendFail, MarkSent, PublishSent, MarkSentThrow, MarkFailed, PublishFailed,
        MarkFailedThrow, Complete, Retry, Die, Stall, BillingStart, EmailStart,
        Enqueue, ServiceNotify, ServiceEnqueue, ResendUpdate, ResendAudit, rows
<1>2. \A n \in ServiceNotice : origin'[n] = Nothing
  BY <1>1, JobAssumption DEF RunsDeliver
<1>3. \A n \in Notice : mails[n] > 0 => mails'[n] > 0
  <2>1. mails \in [Notice -> Nat]
    BY DEF Kept, TypeOK
  <2> QED
    BY <2>1, MailCounts
<1>4. \A b \in BillingJob : QueuedBy(b) # {} => QueuedBy(b)' # {}
  <2>1. ASSUME NEW w \in Worker, Adding(w)
        PROVE  \A b \in BillingJob : QueuedBy(b) # {} => QueuedBy(b)' # {}
    <3>1. PICK c \in BillingJob : c = cur[w]
      BY <2>1, BusyFacts DEF Adding, At
    <3> QED
      BY <2>1, <3>1, AddCounts DEF Adding
  <2> QED
    BY <2>1, QueuedStep
<1>5. ASSUME NEW v \in Worker, pc'[v] = "addEmail"
      PROVE  origin'[made'[v]] = cur'[v]
  <2>1. CASE pc'[v] = pc[v] /\ cur'[v] = cur[v] /\ made'[v] = made[v]
    <3>1. made[v] \in Notice /\ status[made[v]] # "absent" /\ origin[made[v]] = cur[v]
      BY <1>5, <2>1 DEF Kept, WorkersApart, RunsDeliver, At
    <3> QED
      BY <1>1, <2>1, <3>1
  <2>2. CASE BillingCreate(v)
    <3>1. PICK m \in Notice : m = Fresh
      BY <2>2 DEF BillingCreate, Free, Fresh
    <3> QED
      BY <2>2, <3>1 DEF BillingCreate, Kept, TypeOK
  <2>3. CASE BillingAdd(v) \/ PublishSent(v)
    BY <1>5, <2>3 DEF BillingAdd, PublishSent, Goto, Kept, TypeOK
  <2> QED
    BY <1>5, <2>1, <2>2, <2>3, ComesTo
<1>6. ASSUME NEW v \in Worker, pc'[v] = "resolve"
      PROVE  \/ cur'[v] \in Notice /\ mails'[cur'[v]] > 0
             \/ \E b \in BillingJob : b = cur'[v] /\ QueuedBy(b)' # {}
  <2>1. CASE pc'[v] = pc[v] /\ cur'[v] = cur[v] /\ made'[v] = made[v]
    <3>1. cur[v] \in JobId
      BY <1>6, <2>1, BusyFacts
    <3>2. CASE cur[v] \in Notice
      BY <1>3, <1>6, <2>1, <3>2 DEF RunsDeliver, At
    <3>3. CASE cur[v] \in BillingJob
      <4>1. PICK b \in BillingJob : b = cur[v]
        BY <3>3
      <4>2. QueuedBy(b) # {}
        BY <1>6, <2>1, <4>1, JobAssumption DEF RunsDeliver, At
      <4> QED
        BY <1>4, <2>1, <4>1, <4>2
    <3> QED
      BY <3>1, <3>2, <3>3 DEF JobId
  <2>2. CASE BillingAdd(v)
    <3>1. PICK b \in BillingJob : b = cur[v]
      BY <2>2, BusyFacts DEF BillingAdd, At
    <3>2. cur'[v] = b /\ QueuedBy(b)' # {}
      BY <2>2, <3>1, AddCounts DEF BillingAdd, Goto, rows
    <3> QED
      BY <3>2
  <2>3. CASE PublishSent(v)
    <3>1. cur[v] \in Notice /\ mails[cur[v]] > 0 /\ cur' = cur
      BY <2>3, BusyFacts DEF PublishSent, At, Goto, SendersKnow
    <3> QED
      BY <1>3, <3>1
  <2>4. CASE BillingCreate(v)
    BY <1>6, <2>4 DEF BillingCreate, Kept, TypeOK
  <2> QED
    BY <1>6, <2>1, <2>2, <2>3, <2>4, ComesTo
<1>7. ASSUME NEW v \in Worker, pc'[v] = "resolve"
      PROVE  IF cur'[v] \in Notice THEN mails'[cur'[v]] > 0
             ELSE QueuedBy(cur[v])' # {}
  <2>1. CASE cur'[v] \in Notice
    BY <1>6, <1>7, <2>1, JobAssumption
  <2>2. CASE cur'[v] \notin Notice
    <3>1. PICK b \in BillingJob : b = cur'[v] /\ QueuedBy(b)' # {}
      BY <1>6, <1>7, <2>2
    <3>2. PICK n \in Notice : n \in QueuedBy(b)'
      BY <3>1 DEF QueuedBy, MadeBy
    <3>3. n \in QueuedBy(cur[v])'
      BY <3>1, <3>2 DEF QueuedBy, MadeBy
    <3> QED
      BY <2>2, <3>3
  <2> QED
    BY <2>1, <2>2
<1> QED
  BY <1>2, <1>5, <1>7 DEF RunsDeliver, At

(* Each step is one of the e-mail queue's, or none. *)
LEMMA EmailsStep ==
  Kept /\ Kept' /\ WorkCounted /\ RunsDeliver /\ [Next]_vars
    => [Emails!Next]_Emails!vars
<1> SUFFICES ASSUME Kept, Kept', WorkCounted, RunsDeliver, [Next]_vars
             PROVE  [Emails!Next]_Emails!vars
  OBVIOUS
<1>1. ASSUME job' = job
      PROVE  /\ [n \in Notice |-> Reported(n)]' = [n \in Notice |-> Reported(n)]
             /\ [n \in Notice |-> Runs(n)]' = [n \in Notice |-> Runs(n)]
  BY <1>1 DEF Reported, Runs
<1>2. CASE mails' # mails
  <2>1. PICK n \in Notice : mails[n] < Runs(n) /\ mails' = [mails EXCEPT ![n] = @ + 1]
    BY <1>2, MailCounts
  <2>2. Emails!TakeEffect(n)
    BY <1>1, <1>2, <2>1, MailCounts DEF Emails!TakeEffect
  <2> QED
    BY <2>2 DEF Emails!Next
<1>3. CASE job' = job /\ mails' = mails
  BY <1>1, <1>3 DEF Emails!vars
<1>4. ASSUME NEW j \in JobId, OtherJobsRest(j), Moves(j), mails' = mails
      PROVE  [Emails!Next]_Emails!vars
  <2>1. \A n \in Notice \ {j} : Reported(n)' = Reported(n) /\ Runs(n)' = Runs(n)
    BY <1>4 DEF OtherJobsRest, Reported, Runs, JobId
  <2>2. CASE j \notin Notice
    BY <1>4, <2>1, <2>2 DEF Emails!vars
  <2>3. CASE j \in Notice
    <3>1. /\ [n \in Notice |-> Reported(n)]'
                = [[n \in Notice |-> Reported(n)] EXCEPT ![j] = Reported(j)']
          /\ [n \in Notice |-> Runs(n)]'
                = [[n \in Notice |-> Runs(n)] EXCEPT ![j] = Runs(j)']
      BY <2>1, <2>3
    <3>2. ASSUME NEW w \in Worker, At(w, "resolve"), cur[w] = j
          PROVE  mails[j] > 0
      BY <2>3, <3>2 DEF RunsDeliver
    <3>3. CASE /\ Reported(j) = "absent" /\ Reported(j)' = "queued"
               /\ Runs(j)' = Runs(j)
      <4>1. Emails!Queue(j)
        BY <1>4, <2>1, <2>3, <3>1, <3>3 DEF Emails!Queue
      <4> QED
        BY <2>3, <4>1 DEF Emails!Next
    <3>4. CASE /\ Reported(j) = "queued" /\ Reported(j)' = "queued"
               /\ Runs(j) < MaxRuns /\ Runs(j)' = Runs(j) + 1
      <4>1. Emails!Begin(j)
        BY <1>4, <2>1, <2>3, <3>1, <3>4 DEF Emails!Begin
      <4> QED
        BY <2>3, <4>1 DEF Emails!Next
    <3>5. CASE /\ Reported(j) = "queued" /\ Reported(j)' = "done"
               /\ Runs(j)' = Runs(j)
               /\ \E w \in Worker : At(w, "resolve") /\ cur[w] = j
      <4>1. Emails!Finish(j)
        BY <1>4, <2>1, <2>3, <3>1, <3>2, <3>5 DEF Emails!Finish
      <4> QED
        BY <2>3, <4>1 DEF Emails!Next
    <3>6. CASE /\ Reported(j) = "queued" /\ Reported(j)' = "failed"
               /\ LeastRuns <= Runs(j) /\ Runs(j)' = Runs(j)
      <4>0. Runs(j) \in Nat /\ LeastRuns \in Nat
        BY BoundAssumption, RunsType DEF LeastRuns
      <4>1. Emails!GiveUp(j)
        BY <1>4, <2>1, <2>3, <3>1, <3>6, <4>0 DEF Emails!GiveUp
      <4> QED
        BY <2>3, <4>1 DEF Emails!Next
    <3>7. CASE Reported(j)' = Reported(j) /\ Runs(j)' = Runs(j)
      BY <1>4, <2>1, <2>3, <3>7 DEF Emails!vars
    <3> QED
      BY <1>4, <3>3, <3>4, <3>5, <3>6, <3>7 DEF Moves
  <2> QED
    BY <2>2, <2>3
<1> QED
  BY <1>2, <1>3, <1>4, OneJobMoves

(* The same for the billing queues, where what a job is for is the e-mail  *)
(* that it queues.                                                         *)
LEMMA BillingStep ==
  Kept /\ Kept' /\ WorkCounted /\ RunsDeliver /\ [Next]_vars
    => [Billing!Next]_Billing!vars
<1> SUFFICES ASSUME Kept, Kept', WorkCounted, RunsDeliver, [Next]_vars
             PROVE  [Billing!Next]_Billing!vars
  OBVIOUS
<1>1. ASSUME NEW w \in Worker, Adding(w)
      PROVE  Billing!Next
  <2>1. PICK b \in BillingJob : b = cur[w]
    BY <1>1, BusyFacts DEF Adding, At
  <2>2. /\ Cardinality(QueuedBy(b)) < Runs(b)
        /\ Cardinality(QueuedBy(b)') = Cardinality(QueuedBy(b)) + 1
        /\ \A c \in BillingJob \ {b} : QueuedBy(c)' = QueuedBy(c)
        /\ \A c \in BillingJob : job'[c] = job[c]
    BY <1>1, <2>1, AddCounts DEF Adding
  <2>3. /\ [c \in BillingJob |-> Reported(c)]' = [c \in BillingJob |-> Reported(c)]
        /\ [c \in BillingJob |-> Runs(c)]' = [c \in BillingJob |-> Runs(c)]
    BY <2>2 DEF Reported, Runs
  <2>4. [c \in BillingJob |-> Cardinality(QueuedBy(c))]'
          = [[c \in BillingJob |-> Cardinality(QueuedBy(c))] EXCEPT ![b] = @ + 1]
    BY <2>2
  <2>5. Billing!TakeEffect(b)
    BY <2>2, <2>3, <2>4 DEF Billing!TakeEffect
  <2> QED
    BY <2>5 DEF Billing!Next
<1>2. ASSUME \A b \in BillingJob : QueuedBy(b)' = QueuedBy(b)
      PROVE  [c \in BillingJob |-> Cardinality(QueuedBy(c))]'
               = [c \in BillingJob |-> Cardinality(QueuedBy(c))]
  BY <1>2
<1>3. ASSUME job' = job, \A b \in BillingJob : QueuedBy(b)' = QueuedBy(b)
      PROVE  UNCHANGED Billing!vars
  BY <1>2, <1>3 DEF Billing!vars, Reported, Runs
<1>4. ASSUME NEW j \in JobId, OtherJobsRest(j), Moves(j),
             \A b \in BillingJob : QueuedBy(b)' = QueuedBy(b)
      PROVE  [Billing!Next]_Billing!vars
  <2>1. \A b \in BillingJob \ {j} : Reported(b)' = Reported(b) /\ Runs(b)' = Runs(b)
    BY <1>4 DEF OtherJobsRest, Reported, Runs, JobId
  <2>2. CASE j \notin BillingJob
    BY <1>2, <1>4, <2>1, <2>2 DEF Billing!vars
  <2>3. CASE j \in BillingJob
    <3>1. /\ [b \in BillingJob |-> Reported(b)]'
                = [[b \in BillingJob |-> Reported(b)] EXCEPT ![j] = Reported(j)']
          /\ [b \in BillingJob |-> Runs(b)]'
                = [[b \in BillingJob |-> Runs(b)] EXCEPT ![j] = Runs(j)']
      BY <2>1, <2>3
    <3>2. ASSUME NEW w \in Worker, At(w, "resolve"), cur[w] = j
          PROVE  Cardinality(QueuedBy(j)) > 0
      <4>1. QueuedBy(j) # {}
        BY <2>3, <3>2, JobAssumption DEF RunsDeliver
      <4> QED
        BY <4>1, QueuedFinite, FS_EmptySet
    <3>3. CASE /\ Reported(j) = "absent" /\ Reported(j)' = "queued"
               /\ Runs(j)' = Runs(j)
      <4>1. Billing!Queue(j)
        BY <1>2, <1>4, <2>1, <2>3, <3>1, <3>3 DEF Billing!Queue
      <4> QED
        BY <2>3, <4>1 DEF Billing!Next
    <3>4. CASE /\ Reported(j) = "queued" /\ Reported(j)' = "queued"
               /\ Runs(j) < MaxRuns /\ Runs(j)' = Runs(j) + 1
      <4>1. Billing!Begin(j)
        BY <1>2, <1>4, <2>1, <2>3, <3>1, <3>4 DEF Billing!Begin
      <4> QED
        BY <2>3, <4>1 DEF Billing!Next
    <3>5. CASE /\ Reported(j) = "queued" /\ Reported(j)' = "done"
               /\ Runs(j)' = Runs(j)
               /\ \E w \in Worker : At(w, "resolve") /\ cur[w] = j
      <4>1. Billing!Finish(j)
        BY <1>2, <1>4, <2>1, <2>3, <3>1, <3>2, <3>5 DEF Billing!Finish
      <4> QED
        BY <2>3, <4>1 DEF Billing!Next
    <3>6. CASE /\ Reported(j) = "queued" /\ Reported(j)' = "failed"
               /\ LeastRuns <= Runs(j) /\ Runs(j)' = Runs(j)
      <4>0. Runs(j) \in Nat /\ LeastRuns \in Nat
        BY BoundAssumption, RunsType DEF LeastRuns
      <4>1. Billing!GiveUp(j)
        BY <1>2, <1>4, <2>1, <2>3, <3>1, <3>6, <4>0 DEF Billing!GiveUp
      <4> QED
        BY <2>3, <4>1 DEF Billing!Next
    <3>7. CASE Reported(j)' = Reported(j) /\ Runs(j)' = Runs(j)
      BY <1>2, <1>4, <2>1, <2>3, <3>7 DEF Billing!vars
    <3> QED
      BY <1>4, <3>3, <3>4, <3>5, <3>6, <3>7 DEF Moves
  <2> QED
    BY <2>2, <2>3
<1> QED
  BY <1>1, <1>3, <1>4, QueuedStep, OneJobMoves

(* The e-mail queue and the billing queues each implement a queue that     *)
(* delivers at least once, whatever the workers that serve them go         *)
(* through: a job that BullMQ has down as completed has sent its mail, or  *)
(* queued one; a job is given up only after as many runs as the options    *)
(* promise; and no run has its effect twice.                               *)
THEOREM QueuesCorrect == Spec => ImplementsQueues
<1> DEFINE Inv == Kept /\ WorkCounted /\ SentIsTrue /\ SendersKnow /\ RunsDeliver
<1>1. Init => Inv
  <2>1. Init => SentIsTrue /\ SendersKnow /\ RunsDeliver
    BY JobAssumption DEF Init, SentIsTrue, SendersKnow, RunsDeliver, At
  <2> QED
    BY <2>1, KeptInit, WorkInit
<1>2. Init => Emails!Init /\ Billing!Init
  <2> SUFFICES ASSUME Init PROVE Emails!Init /\ Billing!Init
    OBVIOUS
  <2>1. \A j \in JobId : Reported(j) = "absent" /\ Runs(j) = 0
    BY DEF Init, NoJob, Reported, Report, Runs
  <2>2. \A b \in BillingJob : Cardinality(QueuedBy(b)) = 0
    <3>1. \A b \in BillingJob : QueuedBy(b) = {}
      BY JobAssumption DEF Init, QueuedBy, MadeBy
    <3> QED
      BY <3>1, FS_EmptySet
  <2>3. mails = [n \in Notice |-> 0]
    BY DEF Init
  <2> QED
    BY <2>1, <2>2, <2>3 DEF Emails!Init, Billing!Init, JobId
<1>3. Inv /\ [Next]_vars => Inv'
  BY KeptStep, WorkStep, SentStep, DeliverStep
<1>4. Inv /\ [Next]_vars => [Emails!Next]_Emails!vars /\ [Billing!Next]_Billing!vars
  BY KeptStep, EmailsStep, BillingStep
<1> QED
  BY <1>1, <1>2, <1>3, <1>4, PTL
  DEF Spec, ImplementsQueues, Emails!Spec, Billing!Spec
=============================================================================
