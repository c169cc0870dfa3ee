---------------------- MODULE InvoiceSchedulerProofs ----------------------
(***************************************************************************)
(* Proofs about InvoiceScheduler, for any finite set of invoices with any  *)
(* due dates, any number of replicas and any number of failed scans.       *)
(***************************************************************************)
EXTENDS InvoiceScheduler, FiniteSetTheorems, TLAPS

-----------------------------------------------------------------------------
(* Types                                                                   *)

FlagStages == {"reminderFlag", "overdueFlag", "followUpFlag"}
LoopStages == {"reminderQueue", "overdueQueue", "followUpQueue"}
IdleStages == {"waiting", "done", "followUpQuery"}

LEMMA OlderType ==
  ASSUME NEW age \in Age
  PROVE  Older(age) \in Age /\ (Older(age) = Never <=> age = Never)
  BY DEF Older, Age, Never

LEMMA TypeInit == Init => TypeOK
  BY InvoiceAssumption, CronAssumption, LeadAssumption, FaultAssumption
  DEF Init, TypeOK, Age, Never, Stage

LEMMA ReceiveType ==
  ASSUME TypeOK, NEW c \in Cron, NEW S \in SUBSET Invoice,
         NEW loop \in LoopStages, NEW next \in IdleStages,
         stage[c] \in IdleStages, Receive(c, S, loop, next)
  PROVE  TypeOK'
  BY DEF TypeOK, Receive, Stage, LoopStages, IdleStages, rows, flags, queues

LEMMA EnqueueType ==
  ASSUME TypeOK, NEW c \in Cron, NEW i \in Invoice, NEW k \in Kind,
         NEW s \in FlagStages, stage[c] \in LoopStages,
         Enqueue(c, i, k, s), noticeAge' \in [Invoice -> Age]
  PROVE  TypeOK'
<1>1. jobs' \in [Kind -> [Invoice -> Nat]]
  BY DEF TypeOK, Enqueue
<1>2. /\ todo' \in [Cron -> SUBSET Invoice]
      /\ cur' \in [Cron -> Invoice \cup {NoInvoice}]
      /\ stage' \in [Cron -> Stage]
  BY DEF TypeOK, Enqueue, FlagStages, Stage
<1>3. \A d \in Cron :
          /\ cur'[d] \in Invoice <=> stage'[d] \in FlagStages
          /\ stage'[d] \in IdleStages => todo'[d] = {}
  BY DEF TypeOK, Enqueue, FlagStages, IdleStages
<1> QED
  BY <1>1, <1>2, <1>3 DEF TypeOK, Enqueue, FlagStages, IdleStages, rows, flags

LEMMA LoopType ==
  ASSUME TypeOK, NEW c \in Cron, NEW loop \in LoopStages,
         NEW next \in IdleStages, stage[c] \in FlagStages,
         Loop(c, loop, next),
         reminderSent' \in [Invoice -> BOOLEAN],
         notifiedAge' \in [Invoice -> Age],
         followedUp' \in [Invoice -> BOOLEAN]
  PROVE  TypeOK'
  BY InvoiceAssumption
  DEF TypeOK, Loop, Stage, FlagStages, LoopStages, IdleStages, rows, queues

LEMMA TypeStep == TypeOK /\ [Next]_vars => TypeOK'
<1> SUFFICES ASSUME TypeOK, [Next]_vars PROVE TypeOK'
  OBVIOUS
<1>1. CASE UNCHANGED vars
  BY <1>1 DEF vars, rows, flags, queues, scans, TypeOK
<1>2. ASSUME NEW c \in Cron, ReminderQuery(c)
      PROVE  TypeOK'
  BY <1>2, ReceiveType DEF ReminderQuery, At, WithTenant, LoopStages, IdleStages
<1>3. ASSUME NEW c \in Cron, OverdueQuery(c)
      PROVE  TypeOK'
  BY <1>3, ReceiveType DEF OverdueQuery, At, WithTenant, LoopStages, IdleStages
<1>4. ASSUME NEW c \in Cron, FollowUpQuery(c)
      PROVE  TypeOK'
  <2>1. PICK found \in FollowUpResults :
          Receive(c, WithTenant(found), "followUpQueue", "done")
    BY <1>4 DEF FollowUpQuery
  <2>2. WithTenant(found) \in SUBSET Invoice
    BY DEF FollowUpResults, WithTenant
  <2> QED
    BY <1>4, <2>1, <2>2, ReceiveType DEF FollowUpQuery, At, LoopStages, IdleStages
<1>5. ASSUME NEW c \in Cron, NEW i \in Invoice,
             \/ ReminderEnqueue(c, i)
             \/ OverdueEnqueue(c, i)
             \/ FollowUpEnqueue(c, i)
      PROVE  TypeOK'
  <2>1. noticeAge' \in [Invoice -> Age]
    BY <1>5 DEF ReminderEnqueue, OverdueEnqueue, FollowUpEnqueue, TypeOK, Age, Never
  <2> QED
    BY <1>5, <2>1, EnqueueType
    DEF ReminderEnqueue, OverdueEnqueue, FollowUpEnqueue, At, Kind, FlagStages,
        LoopStages
<1>6. ASSUME NEW c \in Cron, ReminderFlag(c) \/ OverdueFlag(c) \/ FollowUpFlag(c)
      PROVE  TypeOK'
  <2>1. /\ reminderSent' \in [Invoice -> BOOLEAN]
        /\ notifiedAge' \in [Invoice -> Age]
        /\ followedUp' \in [Invoice -> BOOLEAN]
    <3>1. 0 \in Age
      BY DEF Age, Never
    <3>2. CASE ReminderFlag(c)
      BY <3>2 DEF ReminderFlag, TypeOK
    <3>3. CASE OverdueFlag(c)
      BY <3>1, <3>3 DEF OverdueFlag, TypeOK
    <3>4. CASE FollowUpFlag(c)
      BY <3>4 DEF FollowUpFlag, TypeOK
    <3> QED
      BY <1>6, <3>2, <3>3, <3>4
  <2> QED
    BY <1>6, <2>1, LoopType
    DEF ReminderFlag, OverdueFlag, FollowUpFlag, At, FlagStages, LoopStages,
        IdleStages
<1>7. ASSUME NEW c \in Cron, Fail(c)
      PROVE  TypeOK'
  BY <1>7, InvoiceAssumption, FaultAssumption
  DEF Fail, TypeOK, Stage, rows, flags, queues
<1>8. CASE NextDay
  <2>1. /\ notifiedAge' \in [Invoice -> Age]
        /\ noticeAge' \in [Invoice -> Age]
        /\ toDue' \in [Invoice -> Nat \cup {-1}]
    <3>1. \A i \in Invoice :
            Older(notifiedAge[i]) \in Age /\ Older(noticeAge[i]) \in Age
      BY OlderType DEF TypeOK
    <3>2. \A i \in Invoice :
            (IF toDue[i] < 0 THEN -1 ELSE toDue[i] - 1) \in Nat \cup {-1}
      BY DEF TypeOK
    <3> QED
      BY <1>8, <3>1, <3>2 DEF NextDay
  <2>2. /\ stage' \in [Cron -> Stage]
        /\ \A c \in Cron : stage[c] = "done" /\ stage'[c] = "waiting"
    BY <1>8 DEF NextDay, At, Stage
  <2> QED
    BY <1>8, <2>1, <2>2 DEF NextDay, TypeOK
<1>9. ASSUME NEW i \in Invoice, Settle(i) \/ RemoveTenant(i)
      PROVE  TypeOK'
  BY <1>9 DEF Settle, RemoveTenant, TypeOK, flags, queues, scans
<1> QED
  BY <1>1, <1>2, <1>3, <1>4, <1>5, <1>6, <1>7, <1>8, <1>9 DEF Next, ScanStep

(* Every variable keeps its type, and a scan holds an invoice exactly while *)
(* it is about to set that invoice's flag.                                 *)
THEOREM TypeCorrect == Spec => []TypeOK
  BY TypeInit, TypeStep, PTL DEF Spec

-----------------------------------------------------------------------------
(* Scans apart                                                             *)

LEMMA CronsFinite ==
  /\ IsFiniteSet(Cron)
  /\ \A k \in Kind :
        /\ CronsOf(k) \subseteq Cron
        /\ IsFiniteSet(CronsOf(k))
        /\ Cardinality(CronsOf(k)) \in Nat
  BY CronAssumption, FS_Union, FS_CardinalityType DEF Cron, CronsOf, Kind

LEMMA CronSubset ==
  ASSUME NEW S \in SUBSET Cron
  PROVE  IsFiniteSet(S) /\ Cardinality(S) \in Nat
  BY CronsFinite, FS_Subset, FS_CardinalityType

LEMMA ApartStep == TypeOK /\ ScansApart /\ [Next]_vars => ScansApart'
<1> SUFFICES ASSUME TypeOK, ScansApart, [Next]_vars PROVE ScansApart'
  OBVIOUS
<1> USE InvoiceAssumption, CronAssumption DEF ScansApart, TypeOK, At
<1>1. CASE UNCHANGED vars
  BY <1>1 DEF vars, scans
<1>2. ASSUME NEW c \in Cron, NEW S \in SUBSET Invoice, NEW loop, NEW next,
             Receive(c, S, loop, next), stage[c] \in IdleStages,
             \/ c \in ReminderCron /\ loop = "reminderQueue" /\ next = "done"
             \/ /\ c \in OverdueCron
                /\ loop \in {"overdueQueue", "followUpQueue"}
                /\ next \in {"followUpQuery", "done"}
      PROVE  ScansApart'
  BY <1>2 DEF Receive, IdleStages
<1>3. ASSUME NEW c \in Cron, ReminderQuery(c) \/ OverdueQuery(c) \/ FollowUpQuery(c)
      PROVE  ScansApart'
  <2>1. CASE ReminderQuery(c)
    BY <2>1, <1>2 DEF ReminderQuery, WithTenant, IdleStages
  <2>2. CASE OverdueQuery(c)
    BY <2>2, <1>2 DEF OverdueQuery, WithTenant, IdleStages
  <2>3. CASE FollowUpQuery(c)
    <3>1. PICK found \in FollowUpResults :
            Receive(c, WithTenant(found), "followUpQueue", "done")
      BY <2>3 DEF FollowUpQuery
    <3>2. WithTenant(found) \in SUBSET Invoice
      BY DEF FollowUpResults, WithTenant
    <3> QED
      BY <2>3, <3>1, <3>2, <1>2 DEF FollowUpQuery, IdleStages
  <2> QED
    BY <1>3, <2>1, <2>2, <2>3
<1>4. ASSUME NEW c \in Cron, NEW i \in Invoice,
             \/ ReminderEnqueue(c, i)
             \/ OverdueEnqueue(c, i)
             \/ FollowUpEnqueue(c, i)
      PROVE  ScansApart'
  BY <1>4 DEF ReminderEnqueue, OverdueEnqueue, FollowUpEnqueue, Enqueue
<1>5. ASSUME NEW c \in Cron, ReminderFlag(c) \/ OverdueFlag(c) \/ FollowUpFlag(c)
      PROVE  ScansApart'
  BY <1>5 DEF ReminderFlag, OverdueFlag, FollowUpFlag, Loop
<1>6. ASSUME NEW c \in Cron, Fail(c)
      PROVE  ScansApart'
  BY <1>6 DEF Fail
<1>7. CASE NextDay
  BY <1>7 DEF NextDay
<1>8. ASSUME NEW i \in Invoice, Settle(i) \/ RemoveTenant(i)
      PROVE  ScansApart'
  BY <1>8 DEF Settle, RemoveTenant, scans
<1> QED
  BY <1>1, <1>3, <1>4, <1>5, <1>6, <1>7, <1>8 DEF Next, ScanStep

-----------------------------------------------------------------------------
(* Jobs owed                                                               *)

LEMMA JobTypes ==
  ASSUME TypeOK, NEW k \in Kind, NEW i \in Invoice
  PROVE  /\ jobs[k][i] \in Nat
         /\ faults \in Nat
         /\ IsFiniteSet(Expecting(k, i))
         /\ Cardinality(Expecting(k, i)) \in Nat
         /\ IsFiniteSet(Holding(k, i))
         /\ Cardinality(Holding(k, i)) \in Nat
         /\ Cardinality(CronsOf(k)) \in Nat
  BY FaultAssumption, CronsFinite, CronSubset DEF TypeOK, Expecting, Holding

(* Nothing that matters to this kind of job of this invoice changes, or    *)
(* scans that expected or held the invoice let go of it as they fail.      *)
LEMMA OwedKept ==
  ASSUME TypeOK, NEW k \in Kind, NEW i \in Invoice, Owed(k, i),
         Flagged(k, i)' <=> Flagged(k, i),
         jobs'[k][i] = jobs[k][i],
         faults' = faults,
         Flagged(k, i) => Expecting(k, i)' = Expecting(k, i),
         ~Flagged(k, i) => Holding(k, i)' = Holding(k, i)
  PROVE  Owed(k, i)'
  BY DEF Owed, CronsOf

LEMMA OwedFail ==
  ASSUME TypeOK, NEW k \in Kind, NEW i \in Invoice, Owed(k, i),
         NEW c \in Cron, Fail(c)
  PROVE  Owed(k, i)'
<1>1. /\ Flagged(k, i)' <=> Flagged(k, i)
      /\ jobs' = jobs
      /\ faults' = faults + 1
  BY DEF Fail, Flagged, flags, queues
<1>2. /\ Expecting(k, i)' = Expecting(k, i) \ {c}
      /\ Holding(k, i)' = Holding(k, i) \ {c}
  BY InvoiceAssumption DEF Fail, Expecting, Holding, TypeOK
<1>3. /\ Cardinality(Expecting(k, i)') <= Cardinality(Expecting(k, i))
      /\ Cardinality(Expecting(k, i)') \in Nat
  BY <1>2, JobTypes, FS_Subset, FS_CardinalityType
<1>4. /\ Cardinality(Holding(k, i)) <= Cardinality(Holding(k, i)') + 1
      /\ Cardinality(Holding(k, i)') \in Nat
  <2> DEFINE H == Holding(k, i)
  <2>1. /\ IsFiniteSet(H)
        /\ Cardinality(H) \in Nat
        /\ Cardinality(H \ {c}) \in Nat
    BY JobTypes, FS_Subset, FS_CardinalityType
  <2>2. Cardinality(H \ {c}) = IF c \in H THEN Cardinality(H) - 1 ELSE Cardinality(H)
    BY <2>1, FS_RemoveElement
  <2>3. Cardinality(H) <= Cardinality(H \ {c}) + 1
    BY <2>1, <2>2
  <2> QED
    BY <1>2, <2>1, <2>3
<1> QED
  BY <1>1, <1>3, <1>4, JobTypes DEF Owed, CronsOf

LEMMA OwedEnqueue ==
  ASSUME TypeOK, ScansApart, NEW k \in Kind, NEW i \in Invoice, Owed(k, i),
         NEW c \in Cron, stage[c] = QueueStage[k],
         Enqueue(c, i, k, FlagStage[k]), UNCHANGED flags
  PROVE  Owed(k, i)'
<1>1. /\ Flagged(k, i)' <=> Flagged(k, i)
      /\ jobs'[k][i] = jobs[k][i] + 1
      /\ faults' = faults
  BY DEF Enqueue, Flagged, flags, TypeOK
<1>2. QueueStage[k] # FlagStage[k]
  BY DEF QueueStage, FlagStage, Kind
<1>3. /\ c \in Expecting(k, i)
      /\ Expecting(k, i)' = Expecting(k, i) \ {c}
  BY DEF Enqueue, Expecting, TypeOK
<1>4. /\ c \notin Holding(k, i)
      /\ Holding(k, i)' = Holding(k, i) \cup {c}
  BY <1>2 DEF Enqueue, Holding, TypeOK
<1>5. Cardinality(Expecting(k, i)') = Cardinality(Expecting(k, i)) - 1
  BY <1>3, JobTypes, FS_RemoveElement
<1>6. Cardinality(Holding(k, i)') = Cardinality(Holding(k, i)) + 1
  BY <1>4, JobTypes, FS_AddElement
<1> QED
  BY <1>1, <1>5, <1>6, JobTypes DEF Owed, CronsOf

(* The scans that hold an invoice and those that expect it are different   *)
(* crons of the same kind.                                                 *)
LEMMA HoldersApart ==
  ASSUME TypeOK, ScansApart, NEW k \in Kind, NEW i \in Invoice
  PROVE  Cardinality(Holding(k, i)) + Cardinality(Expecting(k, i))
             <= Cardinality(CronsOf(k))
<1>1. Holding(k, i) \cap Expecting(k, i) = {}
  BY DEF Holding, Expecting, ScansApart
<1>2. Holding(k, i) \cup Expecting(k, i) \subseteq CronsOf(k)
  BY DEF Holding, Expecting, ScansApart, CronsOf, Kind, QueueStage, FlagStage
<1>3. Cardinality(Holding(k, i) \cup Expecting(k, i))
        = Cardinality(Holding(k, i)) + Cardinality(Expecting(k, i))
  <2>1. Cardinality(Holding(k, i) \cap Expecting(k, i)) = 0
    BY <1>1, FS_EmptySet
  <2>2. Cardinality(Holding(k, i) \cup Expecting(k, i))
          = Cardinality(Holding(k, i)) + Cardinality(Expecting(k, i))
              - Cardinality(Holding(k, i) \cap Expecting(k, i))
    BY JobTypes, FS_Union
  <2> QED
    BY <2>1, <2>2, JobTypes
<1> QED
  BY <1>2, <1>3, CronsFinite, FS_Subset

LEMMA OwedFlag ==
  ASSUME TypeOK, ScansApart, NEW k \in Kind, NEW i \in Invoice, Owed(k, i),
         NEW c \in Cron, stage[c] = FlagStage[k],
         NEW next \in {"done", "followUpQuery"}, Loop(c, QueueStage[k], next),
         cur[c] = i, Flagged(k, i)'
  PROVE  Owed(k, i)'
<1>1. jobs' = jobs /\ faults' = faults
  BY DEF Loop, queues
<1>2. i \notin todo[c]
  BY DEF ScansApart
<1>3. Expecting(k, i)' = Expecting(k, i)
  BY <1>2 DEF Expecting, Loop, TypeOK
<1> QED
  BY <1>1, <1>3, HoldersApart, JobTypes DEF Owed, CronsOf

(* The rows of a query are not flagged. *)
LEMMA OwedReceive ==
  ASSUME TypeOK, NEW k \in Kind, NEW i \in Invoice, Owed(k, i),
         NEW c \in Cron, stage[c] \in IdleStages, NEW k0 \in Kind,
         NEW S \in SUBSET Invoice, \A j \in S : ~Flagged(k0, j),
         NEW next \in IdleStages, Receive(c, S, QueueStage[k0], next)
  PROVE  Owed(k, i)'
<1>1. /\ Flagged(k, i)' <=> Flagged(k, i)
      /\ jobs' = jobs /\ faults' = faults
  BY DEF Receive, Flagged, flags, queues
<1>2. Flagged(k, i) => Expecting(k, i)' = Expecting(k, i)
  <2> SUFFICES ASSUME Flagged(k, i), NEW d \in Cron
               PROVE  /\ todo'[d] = todo[d] /\ stage'[d] = stage[d]
                      \/ /\ stage[d] \notin {QueueStage[k], FlagStage[k]}
                         /\ \/ stage'[d] \notin {QueueStage[k], FlagStage[k]}
                            \/ i \notin todo'[d]
    BY DEF Expecting
  <2>1. CASE d # c
    BY <2>1 DEF Receive, TypeOK
  <2>2. CASE d = c
    <3>1. stage[c] \notin {QueueStage[k], FlagStage[k]}
      BY DEF IdleStages, QueueStage, FlagStage, Kind
    <3>2. CASE k = k0
      BY <2>2, <3>1, <3>2 DEF Receive, TypeOK
    <3>3. CASE k # k0
      <4>1. QueueStage[k0] \notin {QueueStage[k], FlagStage[k]}
        BY <3>3 DEF QueueStage, FlagStage, Kind
      <4>2. next \notin {QueueStage[k], FlagStage[k]}
        BY DEF IdleStages, QueueStage, FlagStage, Kind
      <4> QED
        BY <2>2, <3>1, <4>1, <4>2 DEF Receive, TypeOK
    <3> QED
      BY <3>2, <3>3
  <2> QED
    BY <2>1, <2>2
<1>3. Holding(k, i)' = Holding(k, i)
  <2>1. /\ stage[c] # FlagStage[k]
        /\ QueueStage[k0] # FlagStage[k]
        /\ next # FlagStage[k]
    BY DEF IdleStages, QueueStage, FlagStage, Kind
  <2> QED
    BY <2>1 DEF Holding, Receive, TypeOK
<1> QED
  BY <1>1, <1>2, <1>3, OwedKept

LEMMA OwedOtherEnqueue ==
  ASSUME TypeOK, NEW k \in Kind, NEW i \in Invoice, Owed(k, i),
         NEW c \in Cron, NEW k0 \in Kind, NEW j \in Invoice,
         k # k0 \/ i # j, stage[c] = QueueStage[k0],
         Enqueue(c, j, k0, FlagStage[k0]), UNCHANGED flags
  PROVE  Owed(k, i)'
<1>1. /\ Flagged(k, i)' <=> Flagged(k, i)
      /\ jobs'[k][i] = jobs[k][i]
      /\ faults' = faults
  BY DEF Enqueue, Flagged, flags, TypeOK
<1>2. /\ QueueStage[k0] # FlagStage[k]
      /\ k # k0 => /\ QueueStage[k0] \notin {QueueStage[k], FlagStage[k]}
                   /\ FlagStage[k0] \notin {QueueStage[k], FlagStage[k]}
  BY DEF QueueStage, FlagStage, Kind
<1>3. Expecting(k, i)' = Expecting(k, i)
  BY <1>2 DEF Expecting, Enqueue, TypeOK
<1>4. Holding(k, i)' = Holding(k, i)
  BY <1>2 DEF Holding, Enqueue, TypeOK
<1> QED
  BY <1>1, <1>3, <1>4, OwedKept

LEMMA OwedOtherFlag ==
  ASSUME TypeOK, NEW k \in Kind, NEW i \in Invoice, Owed(k, i),
         NEW c \in Cron, NEW k0 \in Kind, k # k0 \/ i # cur[c],
         stage[c] = FlagStage[k0], NEW next \in IdleStages,
         Loop(c, QueueStage[k0], next), Flagged(k, i)' <=> Flagged(k, i)
  PROVE  Owed(k, i)'
<1>1. jobs' = jobs /\ faults' = faults
  BY DEF Loop, queues
<1>2. /\ QueueStage[k0] # FlagStage[k]
      /\ next \notin {QueueStage[k], FlagStage[k]}
      /\ k # k0 => /\ QueueStage[k0] \notin {QueueStage[k], FlagStage[k]}
                   /\ FlagStage[k0] \notin {QueueStage[k], FlagStage[k]}
  BY DEF QueueStage, FlagStage, Kind, IdleStages
<1>3. Expecting(k, i)' = Expecting(k, i)
  BY <1>2 DEF Expecting, Loop, TypeOK
<1>4. Holding(k, i)' = Holding(k, i)
  BY <1>2 DEF Holding, Loop, TypeOK
<1> QED
  BY <1>1, <1>3, <1>4, OwedKept

LEMMA OwedStep ==
  ASSUME TypeOK, ScansApart, JobsOwed, [Next]_vars,
         NEW k \in Kind, NEW i \in Invoice
  PROVE  Owed(k, i)'
<1>0. Owed(k, i)
  BY DEF JobsOwed
<1>1. CASE UNCHANGED vars
  BY <1>0, <1>1, OwedKept
  DEF vars, flags, queues, scans, Flagged, Expecting, Holding
<1>2. ASSUME NEW c \in Cron, ReminderQuery(c) \/ OverdueQuery(c) \/ FollowUpQuery(c)
      PROVE  Owed(k, i)'
  <2>1. CASE ReminderQuery(c)
    <3>1. \A j \in WithTenant({l \in Invoice : DueForReminder(l)}) :
            ~Flagged("reminder", j)
      BY DEF WithTenant, DueForReminder, Flagged
    <3> QED
      BY <1>0, <2>1, <3>1, OwedReceive
      DEF ReminderQuery, At, WithTenant, IdleStages, QueueStage, Kind
  <2>2. CASE OverdueQuery(c)
    <3>1. \A j \in WithTenant({l \in Invoice : Overdue(l)}) : ~Flagged("overdue", j)
      BY DEF WithTenant, Overdue, Flagged
    <3> QED
      BY <1>0, <2>2, <3>1, OwedReceive
      DEF OverdueQuery, At, WithTenant, IdleStages, QueueStage, Kind
  <2>3. CASE FollowUpQuery(c)
    <3>1. PICK found \in FollowUpResults :
            Receive(c, WithTenant(found), "followUpQueue", "done")
      BY <2>3 DEF FollowUpQuery
    <3>2. /\ WithTenant(found) \in SUBSET Invoice
          /\ \A j \in WithTenant(found) : ~Flagged("followUp", j)
      BY DEF FollowUpResults, FollowUpCandidate, WithTenant, Flagged
    <3> QED
      BY <1>0, <2>3, <3>1, <3>2, OwedReceive
      DEF FollowUpQuery, At, IdleStages, QueueStage, Kind
  <2> QED
    BY <1>2, <2>1, <2>2, <2>3
<1>3. ASSUME NEW c \in Cron, NEW j \in Invoice,
             \/ ReminderEnqueue(c, j)
             \/ OverdueEnqueue(c, j)
             \/ FollowUpEnqueue(c, j)
      PROVE  Owed(k, i)'
  <2>1. PICK k0 \in Kind : /\ stage[c] = QueueStage[k0]
                           /\ Enqueue(c, j, k0, FlagStage[k0])
                           /\ UNCHANGED flags
    BY <1>3 DEF ReminderEnqueue, OverdueEnqueue, FollowUpEnqueue, Enqueue, At,
      QueueStage, FlagStage, Kind
  <2> QED
    BY <1>0, <2>1, OwedEnqueue, OwedOtherEnqueue
<1>4. ASSUME NEW c \in Cron, ReminderFlag(c) \/ OverdueFlag(c) \/ FollowUpFlag(c)
      PROVE  Owed(k, i)'
  <2>1. PICK j \in Invoice : j = cur[c]
    BY <1>4 DEF ReminderFlag, OverdueFlag, FollowUpFlag, At, TypeOK
  <2>2. ASSUME NEW k0 \in Kind, NEW next \in {"done", "followUpQuery"},
               stage[c] = FlagStage[k0],
               Loop(c, QueueStage[k0], next),
               Flagged(k0, j)',
               k # k0 \/ i # j => (Flagged(k, i)' <=> Flagged(k, i))
        PROVE  Owed(k, i)'
    <3>1. CASE k = k0 /\ i = j
      BY <1>0, <2>1, <2>2, <3>1, OwedFlag
    <3>2. CASE k # k0 \/ i # j
      BY <1>0, <2>1, <2>2, <3>2, OwedOtherFlag DEF IdleStages
    <3> QED
      BY <3>1, <3>2
  <2>3. CASE ReminderFlag(c)
    <3>1. /\ reminderSent' = [reminderSent EXCEPT ![j] = TRUE]
          /\ UNCHANGED <<notifiedAge, followedUp>>
      BY <2>1, <2>3 DEF ReminderFlag
    <3>2. /\ stage[c] = FlagStage["reminder"]
          /\ Loop(c, QueueStage["reminder"], "done")
      BY <2>3 DEF ReminderFlag, At, FlagStage, QueueStage, Kind
    <3>3. Flagged("reminder", j)'
      BY <3>1 DEF Flagged, TypeOK
    <3>4. k # "reminder" \/ i # j => (Flagged(k, i)' <=> Flagged(k, i))
      BY <3>1 DEF Flagged, TypeOK
    <3> QED
      BY <2>2, <3>2, <3>3, <3>4 DEF Kind
  <2>4. CASE OverdueFlag(c)
    <3>1. /\ notifiedAge' = [notifiedAge EXCEPT ![j] = 0]
          /\ UNCHANGED <<reminderSent, followedUp>>
      BY <2>1, <2>4 DEF OverdueFlag
    <3>2. /\ stage[c] = FlagStage["overdue"]
          /\ Loop(c, QueueStage["overdue"], "followUpQuery")
      BY <2>4 DEF OverdueFlag, At, FlagStage, QueueStage, Kind
    <3>3. Flagged("overdue", j)'
      BY <3>1 DEF Flagged, TypeOK, Never
    <3>4. k # "overdue" \/ i # j => (Flagged(k, i)' <=> Flagged(k, i))
      BY <3>1 DEF Flagged, TypeOK
    <3> QED
      BY <2>2, <3>2, <3>3, <3>4 DEF Kind
  <2>5. CASE FollowUpFlag(c)
    <3>1. /\ followedUp' = [followedUp EXCEPT ![j] = TRUE]
          /\ UNCHANGED <<reminderSent, notifiedAge>>
      BY <2>1, <2>5 DEF FollowUpFlag
    <3>2. /\ stage[c] = FlagStage["followUp"]
          /\ Loop(c, QueueStage["followUp"], "done")
      BY <2>5 DEF FollowUpFlag, At, FlagStage, QueueStage, Kind
    <3>3. Flagged("followUp", j)'
      BY <3>1 DEF Flagged, TypeOK
    <3>4. k # "followUp" \/ i # j => (Flagged(k, i)' <=> Flagged(k, i))
      BY <3>1 DEF Flagged, TypeOK
    <3> QED
      BY <2>2, <3>2, <3>3, <3>4 DEF Kind
  <2> QED
    BY <1>4, <2>3, <2>4, <2>5
<1>5. ASSUME NEW c \in Cron, Fail(c)
      PROVE  Owed(k, i)'
  BY <1>0, <1>5, OwedFail
<1>6. CASE NextDay
  <2>1. Flagged(k, i)' <=> Flagged(k, i)
    BY <1>6, OlderType DEF NextDay, Flagged, TypeOK
  <2>2. \A c \in Cron : stage[c] = "done" /\ stage'[c] = "waiting"
    BY <1>6 DEF NextDay, At
  <2>3. /\ Expecting(k, i) = {} /\ Expecting(k, i)' = {}
        /\ Holding(k, i) = {} /\ Holding(k, i)' = {}
    BY <2>2 DEF Expecting, Holding, QueueStage, FlagStage, Kind
  <2> QED
    BY <1>0, <1>6, <2>1, <2>3, OwedKept DEF NextDay
<1>7. ASSUME NEW j \in Invoice, Settle(j) \/ RemoveTenant(j)
      PROVE  Owed(k, i)'
  BY <1>0, <1>7, OwedKept
  DEF Settle, RemoveTenant, flags, queues, scans, Flagged, Expecting, Holding
<1> QED
  BY <1>1, <1>2, <1>3, <1>4, <1>5, <1>6, <1>7 DEF Next, ScanStep

LEMMA JobsInit == Init => ScansApart /\ JobsOwed
<1> SUFFICES ASSUME Init PROVE ScansApart /\ JobsOwed
  OBVIOUS
<1>1. ScansApart
  BY InvoiceAssumption DEF Init, ScansApart
<1>2. ASSUME NEW k \in Kind, NEW i \in Invoice
      PROVE  Owed(k, i)
  <2>1. jobs[k][i] = 0 /\ faults = 0
    BY DEF Init
  <2>2. Expecting(k, i) = {} /\ Cardinality(Expecting(k, i)) = 0
    BY FS_EmptySet DEF Init, Expecting
  <2>3. Cardinality(Holding(k, i)) \in Nat /\ Cardinality(CronsOf(k)) \in Nat
    BY TypeInit, JobTypes
  <2> QED
    BY <2>1, <2>2, <2>3 DEF Owed
<1> QED
  BY <1>1, <1>2 DEF JobsOwed

(* An invoice gets a job of each kind at most once per replica and once    *)
(* more per failed scan, whatever the number of replicas and invoices.     *)
THEOREM JobBoundCorrect == Spec => []JobBound
<1> DEFINE Inv == TypeOK /\ ScansApart /\ JobsOwed
<1>1. Init => Inv
  BY TypeInit, JobsInit
<1>2. Inv /\ [Next]_vars => Inv'
  <2> SUFFICES ASSUME Inv, [Next]_vars PROVE Inv'
    OBVIOUS
  <2>1. TypeOK' /\ ScansApart'
    BY TypeStep, ApartStep
  <2>2. JobsOwed'
    BY OwedStep DEF JobsOwed
  <2> QED
    BY <2>1, <2>2
<1>3. Inv => JobBound
  <2> SUFFICES ASSUME Inv, NEW k \in Kind, NEW i \in Invoice
               PROVE  jobs[k][i] <= Cardinality(CronsOf(k)) + faults
    BY DEF JobBound
  <2>1. Owed(k, i)
    BY DEF JobsOwed
  <2> QED
    BY <2>1, JobTypes, HoldersApart DEF Owed
<1> QED
  BY <1>1, <1>2, <1>3, PTL DEF Spec

(* "supaya tidak dikirim lagi" is so for a single replica on which no scan *)
(* fails: the flag keeps a job from being queued again.                    *)
THEOREM NoDuplicateCorrect ==
  ASSUME Cardinality(ReminderCron) <= 1, Cardinality(OverdueCron) <= 1,
         MaxFaults = 0
  PROVE  Spec => []NoDuplicateJob
<1>1. TypeOK /\ JobBound => NoDuplicateJob
  <2> SUFFICES ASSUME TypeOK, JobBound, NEW k \in Kind, NEW i \in Invoice
               PROVE  jobs[k][i] <= 1
    BY DEF NoDuplicateJob
  <2>1. faults = 0
    BY DEF TypeOK
  <2>2. Cardinality(CronsOf(k)) <= 1
    BY DEF CronsOf
  <2>3. jobs[k][i] <= Cardinality(CronsOf(k)) + faults
    BY DEF JobBound
  <2> QED
    BY <2>1, <2>2, <2>3, JobTypes
<1> QED
  BY <1>1, TypeCorrect, JobBoundCorrect, PTL

-----------------------------------------------------------------------------
(* Reminders in time                                                       *)

InWindow(i) == toDue[i] \in 0 .. DaysAhead

(* The days of its window that an invoice has left, today included.        *)
DaysLeft(i) == IF toDue[i] < 0 THEN 0
               ELSE IF toDue[i] > DaysAhead THEN DaysAhead + 1 ELSE toDue[i] + 1

DoneToday == {c \in ReminderCron : stage[c] = "done"}

(* An open invoice that has had no reminder is still in the result of      *)
(* every scan of today that goes on, and all scans of its window that are  *)
(* over failed.                                                            *)
Waits(i) == pending[i] /\ hasTenant[i] /\ jobs["reminder"][i] = 0

RemindInv ==
  \A i \in Invoice :
    Waits(i) =>
      /\ ~reminderSent[i]
      /\ \A c \in Cron : stage[c] = "reminderFlag" => cur[c] # i
      /\ InWindow(i) => \A c \in Cron :
           stage[c] \in {"reminderQueue", "reminderFlag"} => i \in todo[c]
      /\ faults >= (WindowDays(i) - DaysLeft(i)) * Cardinality(ReminderCron)
      /\ InWindow(i) =>
           faults >= (WindowDays(i) - DaysLeft(i)) * Cardinality(ReminderCron)
                       + Cardinality(DoneToday)

LEMMA DoneFinite == IsFiniteSet(DoneToday) /\ Cardinality(DoneToday) \in Nat
  BY CronAssumption, FS_Subset, FS_CardinalityType DEF DoneToday

LEMMA ReplicasNat == Cardinality(ReminderCron) \in Nat
  BY CronAssumption, FS_CardinalityType

LEMMA DaysTypes ==
  ASSUME TypeOK, NEW i \in Invoice
  PROVE  WindowDays(i) \in Nat /\ DaysLeft(i) \in Nat /\ toDue[i] \in Nat \cup {-1}
  BY LeadAssumption DEF WindowDays, DaysLeft, DaysAhead, TypeOK

(* A step within the day, by which no scan is over that was not.           *)
LEMMA RemindKept ==
  ASSUME TypeOK, RemindInv, UNCHANGED <<toDue, faults>>,
         \A i \in Invoice : Waits(i)' => Waits(i),
         \A i \in Invoice : Waits(i) /\ Waits(i)' /\ ~reminderSent[i]
           => ~reminderSent'[i],
         NEW c \in Cron,
         \A d \in Cron \ {c} : /\ stage'[d] = stage[d] /\ todo'[d] = todo[d]
                               /\ cur'[d] = cur[d],
         \A i \in Invoice : Waits(i) /\ Waits(i)' =>
           /\ stage'[c] = "reminderFlag" => cur'[c] # i
           /\ InWindow(i) /\ stage'[c] \in {"reminderQueue", "reminderFlag"}
                => i \in todo'[c]
           /\ InWindow(i) /\ stage'[c] = "done" =>
                c \notin ReminderCron \/ stage[c] = "done"
  PROVE  RemindInv'
<1> SUFFICES ASSUME NEW i \in Invoice, Waits(i)'
             PROVE  /\ ~reminderSent'[i]
                    /\ \A d \in Cron : stage'[d] = "reminderFlag" => cur'[d] # i
                    /\ InWindow(i)' => \A d \in Cron :
                         stage'[d] \in {"reminderQueue", "reminderFlag"}
                           => i \in todo'[d]
                    /\ faults' >= (WindowDays(i) - DaysLeft(i)')
                                     * Cardinality(ReminderCron)
                    /\ InWindow(i)' =>
                         faults' >= (WindowDays(i) - DaysLeft(i)')
                                      * Cardinality(ReminderCron)
                                      + Cardinality(DoneToday')
  BY DEF RemindInv, WindowDays
<1>1. Waits(i) /\ (InWindow(i)' <=> InWindow(i)) /\ DaysLeft(i)' = DaysLeft(i)
  BY DEF InWindow, DaysLeft
<1>2. ~reminderSent'[i]
  BY <1>1 DEF RemindInv
<1>3. \A d \in Cron : stage'[d] = "reminderFlag" => cur'[d] # i
  BY <1>1 DEF RemindInv
<1>4. InWindow(i) => \A d \in Cron :
        stage'[d] \in {"reminderQueue", "reminderFlag"} => i \in todo'[d]
  BY <1>1 DEF RemindInv
<1>5. InWindow(i) => Cardinality(DoneToday') <= Cardinality(DoneToday)
  <2> SUFFICES ASSUME InWindow(i)
               PROVE  Cardinality(DoneToday') <= Cardinality(DoneToday)
    OBVIOUS
  <2>1. DoneToday' \subseteq DoneToday
    BY <1>1 DEF DoneToday, Cron
  <2> QED
    BY <2>1, DoneFinite, FS_Subset
<1>6. Cardinality(DoneToday') \in Nat
  BY CronAssumption, FS_Subset, FS_CardinalityType DEF DoneToday
<1>7. (WindowDays(i) - DaysLeft(i)) * Cardinality(ReminderCron) \in Int
  BY DaysTypes, ReplicasNat
<1>8. faults \in Nat
  BY FaultAssumption DEF TypeOK
<1>9. /\ faults >= (WindowDays(i) - DaysLeft(i)) * Cardinality(ReminderCron)
      /\ InWindow(i) =>
           faults >= (WindowDays(i) - DaysLeft(i)) * Cardinality(ReminderCron)
                       + Cardinality(DoneToday)
  BY <1>1 DEF RemindInv
<1> QED
  BY <1>1, <1>2, <1>3, <1>4, <1>5, <1>6, <1>7, <1>8, <1>9, DoneFinite

LEMMA RemindInit == Init => RemindInv
<1> SUFFICES ASSUME Init, NEW i \in Invoice, Waits(i)
             PROVE  /\ ~reminderSent[i]
                    /\ \A c \in Cron : stage[c] = "waiting"
                    /\ WindowDays(i) - DaysLeft(i) = 0
                    /\ DoneToday = {} /\ faults = 0
  BY ReplicasNat, FS_EmptySet DEF RemindInv
<1>1. toDue[i] = Lead[i] /\ Lead[i] \in Nat \cup {-1}
  BY LeadAssumption DEF Init
<1>2. WindowDays(i) - DaysLeft(i) = 0
  BY <1>1 DEF WindowDays, DaysLeft, DaysAhead
<1> QED
  BY <1>2 DEF Init, DoneToday, Cron

LEMMA RemindStep ==
  ASSUME TypeOK, TypeOK', ScansApart, RemindInv, [Next]_vars
  PROVE  RemindInv'
<1> USE DEF rows, flags, queues, scans
<1>1. ASSUME NEW c \in Cron,
             ReminderQuery(c) \/ OverdueQuery(c) \/ FollowUpQuery(c)
      PROVE  RemindInv'
  <2>1. PICK S, loop, next :
          /\ Receive(c, S, loop, next)
          /\ stage[c] \in {"waiting", "followUpQuery"}
          /\ \/ /\ loop = "reminderQueue" /\ next = "done"
                /\ S = WithTenant({i \in Invoice : DueForReminder(i)})
             \/ /\ loop \in {"overdueQueue", "followUpQueue"}
                /\ next \in {"done", "followUpQuery"} /\ c \in OverdueCron
    BY <1>1 DEF ReminderQuery, OverdueQuery, FollowUpQuery, At, ScansApart
  <2>2. /\ UNCHANGED <<rows, flags, queues, cur, faults>>
        /\ \A d \in Cron \ {c} : stage'[d] = stage[d] /\ todo'[d] = todo[d]
        /\ todo'[c] = S /\ stage'[c] = IF S = {} THEN next ELSE loop
    BY <2>1 DEF Receive, TypeOK
  <2>3. ASSUME NEW i \in Invoice, Waits(i), InWindow(i), loop = "reminderQueue"
        PROVE  i \in S
    BY <2>1, <2>3 DEF RemindInv, WithTenant, DueForReminder, Waits, InWindow
  <2>4. c \in OverdueCron => c \notin ReminderCron
    BY CronAssumption
  <2> QED
    BY <2>1, <2>2, <2>3, <2>4, RemindKept DEF Waits
<1>2. ASSUME NEW c \in Cron, NEW j \in Invoice,
             \/ ReminderEnqueue(c, j)
             \/ OverdueEnqueue(c, j)
             \/ FollowUpEnqueue(c, j)
      PROVE  RemindInv'
  <2>1. PICK k \in Kind : /\ stage[c] = QueueStage[k]
                          /\ Enqueue(c, j, k, FlagStage[k])
                          /\ UNCHANGED flags
    BY <1>2 DEF ReminderEnqueue, OverdueEnqueue, FollowUpEnqueue, Enqueue, At,
      QueueStage, FlagStage, Kind
  <2>2. /\ UNCHANGED <<rows, flags, faults>>
        /\ \A d \in Cron \ {c} : /\ stage'[d] = stage[d] /\ todo'[d] = todo[d]
                                 /\ cur'[d] = cur[d]
        /\ todo'[c] = todo[c] \ {j} /\ stage'[c] = FlagStage[k] /\ cur'[c] = j
        /\ jobs' = [jobs EXCEPT ![k][j] = @ + 1]
    BY <2>1 DEF Enqueue, TypeOK
  <2>3. /\ FlagStage[k] \in {"reminderFlag", "overdueFlag", "followUpFlag"}
        /\ FlagStage[k] = "reminderFlag" => k = "reminder"
        /\ QueueStage[k] = "reminderQueue" <=> k = "reminder"
    BY DEF FlagStage, QueueStage, Kind
  <2>4. \A i \in Invoice :
          jobs'["reminder"][i] = IF k = "reminder" /\ i = j
                                 THEN jobs["reminder"][i] + 1
                                 ELSE jobs["reminder"][i]
    BY <2>2 DEF TypeOK, Kind
  <2>5. \A i \in Invoice : jobs["reminder"][i] \in Nat
    BY DEF TypeOK, Kind
  <2>6. /\ \A i \in Invoice : Waits(i)' => Waits(i)
        /\ \A i \in Invoice : Waits(i)' /\ k = "reminder" => i # j
    BY <2>2, <2>4, <2>5 DEF Waits
  <2>7. \A i \in Invoice : Waits(i) /\ InWindow(i) /\ k = "reminder" => i \in todo[c]
    BY <2>1, <2>3 DEF RemindInv
  <2> QED
    BY <2>2, <2>3, <2>6, <2>7, RemindKept
<1>3. ASSUME NEW c \in Cron, ReminderFlag(c) \/ OverdueFlag(c) \/ FollowUpFlag(c)
      PROVE  RemindInv'
  <2>1. PICK loop, next :
          /\ Loop(c, loop, next)
          /\ \/ /\ stage[c] = "reminderFlag" /\ loop = "reminderQueue"
                /\ next = "done"
                /\ reminderSent' = [reminderSent EXCEPT ![cur[c]] = TRUE]
             \/ /\ stage[c] \in {"overdueFlag", "followUpFlag"}
                /\ loop \in {"overdueQueue", "followUpQueue"}
                /\ next \in {"done", "followUpQuery"}
                /\ c \in OverdueCron /\ UNCHANGED reminderSent
    BY <1>3 DEF ReminderFlag, OverdueFlag, FollowUpFlag, At, ScansApart
  <2>2. /\ UNCHANGED <<rows, queues, todo, faults>>
        /\ \A d \in Cron \ {c} : stage'[d] = stage[d] /\ cur'[d] = cur[d]
        /\ stage'[c] = IF todo[c] = {} THEN next ELSE loop
    BY <2>1 DEF Loop, TypeOK
  <2>3. ASSUME NEW i \in Invoice, Waits(i), InWindow(i),
               stage[c] = "reminderFlag"
        PROVE  i \in todo[c]
    BY <2>3 DEF RemindInv
  <2>4. ASSUME NEW i \in Invoice, Waits(i), ~reminderSent[i]
        PROVE  ~reminderSent'[i]
    BY <2>1, <2>4 DEF RemindInv, TypeOK
  <2>5. c \in OverdueCron => c \notin ReminderCron
    BY CronAssumption
  <2> QED
    BY <2>1, <2>2, <2>3, <2>4, <2>5, RemindKept DEF Waits
<1>4. ASSUME NEW c \in Cron, Fail(c)
      PROVE  RemindInv'
  <2>1. /\ UNCHANGED <<rows, flags, queues>> /\ faults' = faults + 1
        /\ stage'[c] = "done"
        /\ \A d \in Cron \ {c} : /\ stage'[d] = stage[d] /\ todo'[d] = todo[d]
                                 /\ cur'[d] = cur[d]
    BY <1>4 DEF Fail, TypeOK
  <2> SUFFICES ASSUME NEW i \in Invoice, Waits(i)
               PROVE  /\ ~reminderSent[i]
                      /\ \A d \in Cron : stage'[d] = "reminderFlag" => cur'[d] # i
                      /\ InWindow(i) => \A d \in Cron :
                           stage'[d] \in {"reminderQueue", "reminderFlag"}
                             => i \in todo'[d]
                      /\ faults' >= (WindowDays(i) - DaysLeft(i))
                                       * Cardinality(ReminderCron)
                      /\ InWindow(i) =>
                           faults' >= (WindowDays(i) - DaysLeft(i))
                                        * Cardinality(ReminderCron)
                                        + Cardinality(DoneToday')
    BY <2>1 DEF RemindInv, WindowDays, Waits, InWindow, DaysLeft
  <2>2. /\ ~reminderSent[i]
        /\ \A d \in Cron : stage'[d] = "reminderFlag" => cur'[d] # i
        /\ InWindow(i) => \A d \in Cron :
             stage'[d] \in {"reminderQueue", "reminderFlag"} => i \in todo'[d]
    BY <2>1 DEF RemindInv
  <2>3. Cardinality(DoneToday') <= Cardinality(DoneToday) + 1
        /\ Cardinality(DoneToday') \in Nat
    <3>1. DoneToday' \subseteq DoneToday \cup {c}
      BY <2>1 DEF DoneToday, Cron
    <3>2. /\ IsFiniteSet(DoneToday \cup {c})
          /\ Cardinality(DoneToday \cup {c}) <= Cardinality(DoneToday) + 1
      BY DoneFinite, FS_AddElement
    <3>3. /\ IsFiniteSet(DoneToday') /\ Cardinality(DoneToday') \in Nat
          /\ Cardinality(DoneToday \cup {c}) \in Nat
          /\ Cardinality(DoneToday') <= Cardinality(DoneToday \cup {c})
      BY <3>1, <3>2, FS_Subset, FS_CardinalityType
    <3> QED
      BY <3>2, <3>3, DoneFinite
  <2>4. /\ (WindowDays(i) - DaysLeft(i)) * Cardinality(ReminderCron) \in Int
        /\ faults \in Nat
    BY DaysTypes, ReplicasNat, FaultAssumption DEF TypeOK
  <2>5. /\ faults >= (WindowDays(i) - DaysLeft(i)) * Cardinality(ReminderCron)
        /\ InWindow(i) =>
             faults >= (WindowDays(i) - DaysLeft(i)) * Cardinality(ReminderCron)
                         + Cardinality(DoneToday)
    BY DEF RemindInv
  <2> QED
    BY <2>1, <2>2, <2>3, <2>4, <2>5, DoneFinite
<1>5. CASE NextDay
  <2>1. /\ \A c \in Cron : stage[c] = "done" /\ stage'[c] = "waiting"
        /\ toDue' = [i \in Invoice |-> IF toDue[i] < 0 THEN -1 ELSE toDue[i] - 1]
        /\ UNCHANGED <<pending, hasTenant, reminderSent, jobs, todo, cur, faults>>
    BY <1>5 DEF NextDay, At
  <2>2. DoneToday = ReminderCron /\ DoneToday' = {}
    BY <2>1 DEF DoneToday, Cron
  <2> SUFFICES ASSUME NEW i \in Invoice, Waits(i)
               PROVE  /\ ~reminderSent[i]
                      /\ faults >= (WindowDays(i) - DaysLeft(i)')
                                      * Cardinality(ReminderCron)
                      /\ faults >= (WindowDays(i) - DaysLeft(i)')
                                      * Cardinality(ReminderCron)
                                      + Cardinality(DoneToday')
    BY <2>1 DEF RemindInv, WindowDays, Waits
  <2> DEFINE R == Cardinality(ReminderCron)
             W == WindowDays(i)
             L == DaysLeft(i)
  <2>3. /\ ~reminderSent[i] /\ faults >= (W - L) * R
        /\ InWindow(i) => faults >= (W - L) * R + R
    BY <2>2 DEF RemindInv
  <2>4. toDue'[i] = IF toDue[i] < 0 THEN -1 ELSE toDue[i] - 1
    BY <2>1
  <2>5. Cardinality(DoneToday') = 0 /\ (W - L) * R \in Int /\ R \in Int
    BY <2>2, FS_EmptySet, ReplicasNat, DaysTypes
  <2>6. CASE InWindow(i)
    <3>1. L' = L - 1
      BY <2>4, <2>6, DaysTypes DEF InWindow, DaysLeft, DaysAhead
    <3>2. (W - (L - 1)) * R = (W - L) * R + R
      BY DaysTypes, ReplicasNat
    <3> QED
      BY <2>3, <2>6, <2>5, <3>1, <3>2
  <2>7. CASE ~InWindow(i)
    <3>1. L' = L
      BY <2>4, <2>7, DaysTypes DEF InWindow, DaysLeft, DaysAhead
    <3> QED
      BY <2>3, <2>5, <3>1
  <2> QED
    BY <2>6, <2>7
<1>6. ASSUME NEW j \in Invoice, Settle(j) \/ RemoveTenant(j)
      PROVE  RemindInv'
  <2>1. /\ UNCHANGED <<toDue, flags, queues, scans>>
        /\ \A i \in Invoice : Waits(i)' => Waits(i)
    BY <1>6 DEF Settle, RemoveTenant, Waits, TypeOK
  <2> QED
    BY <2>1 DEF RemindInv, InWindow, DaysLeft, DoneToday, WindowDays
<1>7. CASE UNCHANGED vars
  BY <1>7 DEF vars, RemindInv, Waits, InWindow, DaysLeft, DoneToday, WindowDays
<1> QED
  BY <1>1, <1>2, <1>3, <1>4, <1>5, <1>6, <1>7 DEF Next, ScanStep

(* An invoice that is open when it falls due has been reminded, unless     *)
(* every replica failed on every day of its window.                        *)
THEOREM RemindedCorrect == Spec => []RemindedBeforeDue
<1> DEFINE Inv == TypeOK /\ ScansApart /\ RemindInv
<1>1. Init => Inv
  BY TypeInit, JobsInit, RemindInit
<1>2. Inv /\ [Next]_vars => Inv'
  <2> SUFFICES ASSUME Inv, [Next]_vars PROVE Inv'
    OBVIOUS
  <2>1. TypeOK' /\ ScansApart'
    BY TypeStep, ApartStep
  <2> QED
    BY <2>1, RemindStep
<1>3. Inv => RemindedBeforeDue
  <2> SUFFICES ASSUME Inv, NEW i \in Invoice, toDue[i] = -1, pending[i],
                      hasTenant[i],
                      faults < WindowDays(i) * Cardinality(ReminderCron),
                      jobs["reminder"][i] = 0
               PROVE  FALSE
    BY DEF RemindedBeforeDue, TypeOK, Kind
  <2>1. DaysLeft(i) = 0
    BY DEF DaysLeft
  <2>2. faults >= (WindowDays(i) - 0) * Cardinality(ReminderCron)
    BY <2>1 DEF RemindInv, Waits
  <2>3. WindowDays(i) - 0 = WindowDays(i) /\ faults \in Nat
        /\ WindowDays(i) * Cardinality(ReminderCron) \in Nat
    BY DaysTypes, ReplicasNat, FaultAssumption DEF TypeOK
  <2> QED
    BY <2>2, <2>3
<1> QED
  BY <1>1, <1>2, <1>3, PTL DEF Spec

-----------------------------------------------------------------------------
(* Follow-ups and first notifications                                      *)

(* An invoice's flag is as old as its last overdue job, only scans of the  *)
(* day of the flag still queue another, and a scan that is to follow up    *)
(* found the flag old enough.                                              *)
SpacingInv ==
  /\ \A i \in Invoice :
       notifiedAge[i] # Never => noticeAge[i] = notifiedAge[i]
  /\ \A c \in Cron :
       /\ stage[c] \in {"overdueQueue", "overdueFlag"} =>
            \A i \in todo[c] : notifiedAge[i] \in {Never, 0}
       /\ stage[c] = "overdueFlag" =>
            notifiedAge[cur[c]] \in {Never, 0} /\ noticeAge[cur[c]] = 0
       /\ stage[c] \in {"followUpQueue", "followUpFlag"} =>
            \A i \in todo[c] : notifiedAge[i] >= 3

LEMMA SpacingInit == Init => SpacingInv
BY DEF Init, SpacingInv, Cron

LEMMA SpacingStep ==
  ASSUME TypeOK, SpacingInv, [Next]_vars
  PROVE  SpacingInv'
<1> USE DEF rows, flags, queues, scans, At
<1>1. ASSUME NEW c \in Cron, NEW S \in SUBSET Invoice, NEW loop, NEW next,
             Receive(c, S, loop, next),
             next \in {"done", "followUpQuery"},
             \/ loop = "reminderQueue"
             \/ loop = "overdueQueue" /\ \A i \in S : notifiedAge[i] = Never
             \/ loop = "followUpQueue" /\ \A i \in S : notifiedAge[i] >= 3
      PROVE  SpacingInv'
  BY <1>1 DEF Receive, SpacingInv, TypeOK
<1>2. ASSUME NEW c \in Cron,
             ReminderQuery(c) \/ OverdueQuery(c) \/ FollowUpQuery(c)
      PROVE  SpacingInv'
  <2>1. CASE ReminderQuery(c)
    <3>1. WithTenant({i \in Invoice : DueForReminder(i)}) \in SUBSET Invoice
      BY DEF WithTenant
    <3> QED
      BY <1>1, <2>1, <3>1 DEF ReminderQuery
  <2>2. CASE OverdueQuery(c)
    <3>1. /\ WithTenant({i \in Invoice : Overdue(i)}) \in SUBSET Invoice
          /\ \A i \in WithTenant({i \in Invoice : Overdue(i)}) :
               notifiedAge[i] = Never
      BY DEF WithTenant, Overdue
    <3> QED
      BY <1>1, <2>2, <3>1 DEF OverdueQuery
  <2>3. CASE FollowUpQuery(c)
    <3>1. PICK found \in FollowUpResults :
            Receive(c, WithTenant(found), "followUpQueue", "done")
      BY <2>3 DEF FollowUpQuery
    <3>2. /\ WithTenant(found) \in SUBSET Invoice
          /\ \A i \in WithTenant(found) : notifiedAge[i] >= 3
      BY DEF FollowUpResults, FollowUpCandidate, WithTenant
    <3> QED
      BY <1>1, <3>1, <3>2
  <2> QED
    BY <1>2, <2>1, <2>2, <2>3
<1>3. ASSUME NEW c \in Cron, NEW j \in Invoice,
             ReminderEnqueue(c, j) \/ FollowUpEnqueue(c, j)
      PROVE  SpacingInv'
  <2>1. /\ UNCHANGED <<notifiedAge, noticeAge>>
        /\ todo' = [todo EXCEPT ![c] = @ \ {j}]
        /\ cur' = [cur EXCEPT ![c] = j]
        /\ \/ stage' = [stage EXCEPT ![c] = "reminderFlag"]
           \/ /\ stage[c] = "followUpQueue"
              /\ stage' = [stage EXCEPT ![c] = "followUpFlag"]
    BY <1>3 DEF ReminderEnqueue, FollowUpEnqueue, Enqueue
  <2> QED
    BY <2>1 DEF SpacingInv, TypeOK
<1>4. ASSUME NEW c \in Cron, NEW j \in Invoice, OverdueEnqueue(c, j)
      PROVE  SpacingInv'
  <2>1. /\ UNCHANGED notifiedAge /\ noticeAge' = [noticeAge EXCEPT ![j] = 0]
        /\ todo' = [todo EXCEPT ![c] = @ \ {j}]
        /\ cur' = [cur EXCEPT ![c] = j] /\ j \in todo[c]
        /\ stage[c] = "overdueQueue"
        /\ stage' = [stage EXCEPT ![c] = "overdueFlag"]
    BY <1>4 DEF OverdueEnqueue, Enqueue
  <2>2. notifiedAge[j] \in {Never, 0}
    BY <2>1 DEF SpacingInv
  <2>3. \A i \in Invoice : noticeAge'[i] = IF i = j THEN 0 ELSE noticeAge[i]
    BY <2>1 DEF TypeOK
  <2>4. \A d \in Cron : stage[d] = "overdueFlag" => cur[d] \in Invoice
    BY DEF TypeOK
  <2>5. \A i \in Invoice : notifiedAge'[i] # Never => noticeAge'[i] = notifiedAge'[i]
    BY <2>1, <2>2, <2>3 DEF SpacingInv
  <2>6. ASSUME NEW d \in Cron
        PROVE  /\ stage'[d] \in {"overdueQueue", "overdueFlag"} =>
                    \A i \in todo'[d] : notifiedAge'[i] \in {Never, 0}
               /\ stage'[d] = "overdueFlag" =>
                    notifiedAge'[cur'[d]] \in {Never, 0} /\ noticeAge'[cur'[d]] = 0
               /\ stage'[d] \in {"followUpQueue", "followUpFlag"} =>
                    \A i \in todo'[d] : notifiedAge'[i] >= 3
    BY <2>1, <2>2, <2>3, <2>4 DEF SpacingInv, TypeOK
  <2> QED
    BY <2>5, <2>6 DEF SpacingInv
<1>5. ASSUME NEW c \in Cron, ReminderFlag(c) \/ FollowUpFlag(c)
      PROVE  SpacingInv'
  <2>1. PICK loop, next :
          /\ Loop(c, loop, next) /\ UNCHANGED notifiedAge
          /\ \/ loop = "reminderQueue"
             \/ loop = "followUpQueue" /\ stage[c] = "followUpFlag"
          /\ next = "done"
    BY <1>5 DEF ReminderFlag, FollowUpFlag
  <2> QED
    BY <2>1 DEF Loop, SpacingInv, TypeOK
<1>6. ASSUME NEW c \in Cron, OverdueFlag(c)
      PROVE  SpacingInv'
  <2>0. PICK j \in Invoice : j = cur[c]
    BY <1>6 DEF OverdueFlag, TypeOK
  <2>1. /\ stage[c] = "overdueFlag"
        /\ notifiedAge' = [notifiedAge EXCEPT ![j] = 0]
        /\ UNCHANGED <<noticeAge, todo>>
        /\ cur' = [cur EXCEPT ![c] = NoInvoice]
        /\ stage' = [stage EXCEPT ![c] = IF todo[c] = {} THEN "followUpQuery"
                                         ELSE "overdueQueue"]
    BY <1>6, <2>0 DEF OverdueFlag, Loop
  <2>2. notifiedAge[j] \in {Never, 0} /\ noticeAge[j] = 0
    BY <2>0, <2>1 DEF SpacingInv
  <2>3. \A i \in Invoice : notifiedAge'[i] = IF i = j THEN 0 ELSE notifiedAge[i]
    BY <2>1 DEF TypeOK
  <2>4. \A i \in Invoice : notifiedAge'[i] # Never => noticeAge'[i] = notifiedAge'[i]
    BY <2>1, <2>2, <2>3 DEF SpacingInv
  <2>5. /\ \A d \in Cron : stage[d] = "overdueFlag" => cur[d] \in Invoice
        /\ \A d \in Cron : todo[d] \subseteq Invoice
    BY DEF TypeOK
  <2>6. ASSUME NEW d \in Cron
        PROVE  /\ stage'[d] \in {"overdueQueue", "overdueFlag"} =>
                    \A i \in todo'[d] : notifiedAge'[i] \in {Never, 0}
               /\ stage'[d] = "overdueFlag" =>
                    notifiedAge'[cur'[d]] \in {Never, 0} /\ noticeAge'[cur'[d]] = 0
               /\ stage'[d] \in {"followUpQueue", "followUpFlag"} =>
                    \A i \in todo'[d] : notifiedAge'[i] >= 3
    BY <2>1, <2>2, <2>3, <2>5 DEF SpacingInv, TypeOK, Never
  <2> QED
    BY <2>4, <2>6 DEF SpacingInv
<1>7. ASSUME NEW c \in Cron, Fail(c)
      PROVE  SpacingInv'
  BY <1>7 DEF Fail, SpacingInv, TypeOK
<1>8. CASE NextDay
  <2>1. /\ \A c \in Cron : stage'[c] = "waiting"
        /\ notifiedAge' = [i \in Invoice |-> Older(notifiedAge[i])]
        /\ noticeAge' = [i \in Invoice |-> Older(noticeAge[i])]
    BY <1>8 DEF NextDay
  <2>2. \A i \in Invoice : notifiedAge'[i] # Never => notifiedAge[i] # Never
    BY <2>1, OlderType DEF TypeOK
  <2> QED
    BY <2>1, <2>2 DEF SpacingInv
<1>9. CASE (\E j \in Invoice : Settle(j) \/ RemoveTenant(j)) \/ UNCHANGED vars
  BY <1>9 DEF Settle, RemoveTenant, vars, SpacingInv
<1> QED
  BY <1>2, <1>3, <1>4, <1>5, <1>6, <1>7, <1>8, <1>9 DEF Next, ScanStep

(* No replica queues a follow-up within three days of any replica's first  *)
(* overdue job for the invoice.                                            *)
THEOREM SpacingCorrect == Spec => FollowUpSpacing
<1> DEFINE Step == \A i \in Invoice :
                     jobs'["followUp"][i] > jobs["followUp"][i] => noticeAge[i] >= 3
<1>1. Init => TypeOK /\ SpacingInv
  BY TypeInit, SpacingInit
<1>2. TypeOK /\ SpacingInv /\ [Next]_vars => (TypeOK /\ SpacingInv)'
  BY TypeStep, SpacingStep
<1>3. TypeOK /\ SpacingInv /\ [Next]_vars => [Step]_vars
  <2> SUFFICES ASSUME TypeOK, SpacingInv, Next, NEW i \in Invoice,
                      jobs'["followUp"][i] > jobs["followUp"][i]
               PROVE  noticeAge[i] >= 3
    BY DEF vars
  <2> USE DEF rows, flags, queues, scans, At
  <2>1. jobs["followUp"][i] \in Nat /\ jobs' # jobs
    BY DEF TypeOK, Kind
  <2>2. PICK c \in Cron, j \in Invoice :
          ReminderEnqueue(c, j) \/ OverdueEnqueue(c, j) \/ FollowUpEnqueue(c, j)
    BY <2>1 DEF Next, ScanStep, ReminderQuery, ReminderFlag, OverdueQuery,
      OverdueFlag, FollowUpQuery, FollowUpFlag, Receive, Loop, Fail, NextDay,
      Settle, RemoveTenant
  <2>3. FollowUpEnqueue(c, j) /\ i = j
    BY <2>1, <2>2 DEF ReminderEnqueue, OverdueEnqueue, FollowUpEnqueue, Enqueue,
      TypeOK, Kind
  <2>4. notifiedAge[i] >= 3 /\ notifiedAge[i] # Never
    BY <2>3 DEF FollowUpEnqueue, Enqueue, SpacingInv, Never
  <2> QED
    BY <2>4 DEF SpacingInv
<1> QED
  BY <1>1, <1>2, <1>3, PTL DEF Spec, FollowUpSpacing

-----------------------------------------------------------------------------
(* The end of the chase                                                    *)

(* No query returns a closed invoice.                                      *)
LEMMA QueriesSkipClosed ==
  ASSUME NEW c \in Cron, NEW i \in Invoice, Closed(i), c \notin Chasing(i), TypeOK,
         ReminderQuery(c) \/ OverdueQuery(c) \/ FollowUpQuery(c)
  PROVE  i \notin todo'[c]
<1>1. ASSUME NEW S \in SUBSET Invoice, NEW loop, NEW next,
             Receive(c, WithTenant(S), loop, next), \A j \in S : pending[j]
      PROVE  i \notin todo'[c]
  BY <1>1 DEF Receive, WithTenant, Closed, TypeOK
<1>2. CASE ReminderQuery(c)
  <2>1. {j \in Invoice : DueForReminder(j)} \in SUBSET Invoice
    OBVIOUS
  <2> QED
    BY <1>1, <1>2, <2>1 DEF ReminderQuery, DueForReminder
<1>3. CASE OverdueQuery(c)
  <2>1. {j \in Invoice : Overdue(j)} \in SUBSET Invoice
    OBVIOUS
  <2> QED
    BY <1>1, <1>3, <2>1 DEF OverdueQuery, Overdue
<1>4. CASE FollowUpQuery(c)
  <2>1. \A found \in FollowUpResults :
          found \in SUBSET Invoice /\ \A j \in found : pending[j]
    BY DEF FollowUpResults, FollowUpCandidate
  <2> QED
    BY <1>1, <1>4, <2>1 DEF FollowUpQuery
<1> QED
  BY <1>2, <1>3, <1>4

(* A closed invoice is not in the result of any later query, and a job     *)
(* takes it out of the one result that held it.                            *)
THEOREM ChaseCorrect == Spec => ChaseEnds
<1> DEFINE Step(i) == /\ Closed(i)'
                      /\ Chasing(i)' \subseteq Chasing(i)
                      /\ \A k \in Kind :
                            jobs'[k][i] > jobs[k][i] => Chasing(i)' # Chasing(i)
<1>1. ASSUME TypeOK, Next, NEW i \in Invoice, Closed(i)
      PROVE  Step(i)
  <2> USE <1>1 DEF rows, flags, queues, scans, At
  <2>1. ASSUME NEW c \in Cron,
               ReminderQuery(c) \/ OverdueQuery(c) \/ FollowUpQuery(c)
        PROVE  Step(i)
    <3>1. /\ \A d \in Cron : d # c => todo'[d] = todo[d]
          /\ UNCHANGED <<pending, hasTenant, jobs>>
      BY <2>1 DEF ReminderQuery, OverdueQuery, FollowUpQuery, Receive, TypeOK
    <3>2. c \notin Chasing(i) => i \notin todo'[c]
      BY <2>1, QueriesSkipClosed
    <3>3. Chasing(i)' \subseteq Chasing(i)
      BY <3>1, <3>2 DEF Chasing
    <3>4. \A k \in Kind : jobs[k][i] \in Nat
      BY DEF TypeOK
    <3> QED
      BY <3>1, <3>3, <3>4 DEF Closed
  <2>2. ASSUME NEW c \in Cron, NEW j \in Invoice,
               ReminderEnqueue(c, j) \/ OverdueEnqueue(c, j) \/ FollowUpEnqueue(c, j)
        PROVE  Step(i)
    <3>1. /\ j \in todo[c]
          /\ todo' = [todo EXCEPT ![c] = @ \ {j}]
          /\ UNCHANGED <<pending, hasTenant>>
          /\ \A k \in Kind : jobs'[k][i] > jobs[k][i] => i = j
      BY <2>2 DEF ReminderEnqueue, OverdueEnqueue, FollowUpEnqueue, Enqueue, TypeOK, Kind
    <3> QED
      BY <3>1 DEF Closed, Chasing, TypeOK
  <2>3. ASSUME NEW c \in Cron,
               \/ ReminderFlag(c) \/ OverdueFlag(c) \/ FollowUpFlag(c) \/ Fail(c)
        PROVE  Step(i)
    BY <2>3 DEF ReminderFlag, OverdueFlag, FollowUpFlag, Loop, Fail, Closed,
      Chasing, TypeOK
  <2>4. CASE NextDay
    BY <2>4 DEF NextDay, Closed, Chasing, TypeOK
  <2>5. ASSUME NEW j \in Invoice, Settle(j) \/ RemoveTenant(j)
        PROVE  Step(i)
    BY <2>5 DEF Settle, RemoveTenant, Closed, Chasing, TypeOK
  <2> QED
    BY <2>1, <2>2, <2>3, <2>4, <2>5 DEF Next, ScanStep
<1>2. TypeOK /\ [Next]_vars => [\A i \in Invoice : Closed(i) => Step(i)]_vars
  BY <1>1
<1> QED
  BY <1>2, TypeInit, TypeStep, PTL DEF Spec, ChaseEnds

-----------------------------------------------------------------------------
(* No flag without its job                                                 *)

EarnedInv == FlagsEarned /\ ScansEarn

(* The number of jobs never falls. *)
LEMMA JobsGrow ==
  ASSUME TypeOK, [Next]_vars, NEW k \in Kind, NEW i \in Invoice, jobs[k][i] > 0
  PROVE  jobs'[k][i] > 0
<1> USE DEF queues
<1>1. ASSUME NEW c \in Cron, NEW j \in Invoice,
             ReminderEnqueue(c, j) \/ OverdueEnqueue(c, j) \/ FollowUpEnqueue(c, j)
      PROVE  jobs'[k][i] > 0
  BY <1>1 DEF ReminderEnqueue, OverdueEnqueue, FollowUpEnqueue, Enqueue, TypeOK, Kind
<1>2. CASE jobs' = jobs
  BY <1>2
<1> QED
  BY <1>1, <1>2
  DEF Next, vars, ScanStep, ReminderQuery, ReminderFlag, OverdueQuery, OverdueFlag,
      FollowUpQuery, FollowUpFlag, Receive, Loop, Fail, NextDay, Settle, RemoveTenant

(* Flags are only set for the row that a scan holds. *)
LEMMA FlagsSet ==
  ASSUME TypeOK, [Next]_vars, NEW k \in Kind, NEW i \in Invoice,
         ~Flagged(k, i), Flagged(k, i)'
  PROVE  \E c \in Cron : At(c, FlagStage[k]) /\ cur[c] = i
<1> USE DEF flags, Kind, FlagStage
<1>1. ASSUME NEW c \in Cron, ReminderFlag(c) \/ OverdueFlag(c) \/ FollowUpFlag(c)
      PROVE  At(c, FlagStage[k]) /\ cur[c] = i
  <2>1. CASE ReminderFlag(c)
    BY <2>1 DEF ReminderFlag, Flagged, TypeOK
  <2>2. CASE OverdueFlag(c)
    BY <2>2 DEF OverdueFlag, Flagged, TypeOK
  <2>3. CASE FollowUpFlag(c)
    BY <2>3 DEF FollowUpFlag, Flagged, TypeOK
  <2> QED
    BY <1>1, <2>1, <2>2, <2>3
<1>2. CASE NextDay
  BY <1>2, OlderType DEF NextDay, Flagged, TypeOK
<1>3. CASE UNCHANGED flags
  BY <1>3 DEF Flagged
<1> QED
  BY <1>1, <1>2, <1>3
  DEF Next, vars, ScanStep, ReminderQuery, ReminderEnqueue, OverdueQuery,
      OverdueEnqueue, FollowUpQuery, FollowUpEnqueue, Receive, Enqueue, Fail,
      Settle, RemoveTenant

LEMMA EarnedStep ==
  ASSUME TypeOK, EarnedInv, [Next]_vars
  PROVE  EarnedInv'
<1>1. ASSUME NEW k \in Kind, NEW i \in Invoice, Flagged(k, i)'
      PROVE  jobs'[k][i] > 0
  <2>1. jobs[k][i] > 0
    BY <1>1, FlagsSet DEF EarnedInv, FlagsEarned, ScansEarn
  <2> QED
    BY <2>1, JobsGrow
<1>2. ASSUME NEW c \in Cron
      PROVE  /\ \A k \in Kind : stage'[c] = FlagStage[k] => jobs'[k][cur'[c]] > 0
             /\ stage'[c] \in {"followUpQueue", "followUpFlag"} =>
                   \A i \in todo'[c] : jobs'["overdue"][i] > 0
  <2>1. CASE stage'[c] = stage[c] /\ cur'[c] = cur[c] /\ todo'[c] = todo[c]
    <3>1. \A k \in Kind : stage[c] = FlagStage[k] =>
             cur[c] \in Invoice /\ jobs[k][cur[c]] > 0
      BY DEF EarnedInv, ScansEarn, At, TypeOK, Kind, FlagStage
    <3>2. stage[c] \in {"followUpQueue", "followUpFlag"} =>
             \A i \in todo[c] : i \in Invoice /\ jobs["overdue"][i] > 0
      BY DEF EarnedInv, ScansEarn, TypeOK
    <3> QED
      BY <2>1, <3>1, <3>2, JobsGrow DEF Kind
  <2>2. CASE stage'[c] \in IdleStages \cup {"reminderQueue", "overdueQueue"}
    BY <2>2 DEF Kind, FlagStage, IdleStages
  <2>3. ASSUME FollowUpQuery(c)
        PROVE  \A i \in todo'[c] : jobs'["overdue"][i] > 0
    <3>1. \A found \in FollowUpResults : \A i \in found :
             i \in Invoice /\ notifiedAge[i] # Never
      BY DEF FollowUpResults, Never
    <3>2. \A i \in todo'[c] : i \in Invoice /\ notifiedAge[i] # Never
      BY <2>3, <3>1 DEF FollowUpQuery, Receive, WithTenant, TypeOK
    <3>3. \A i \in todo'[c] : jobs["overdue"][i] > 0
      BY <3>2 DEF EarnedInv, FlagsEarned, Flagged, Kind
    <3> QED
      BY <3>2, <3>3, JobsGrow DEF Kind
  <2>4. ASSUME NEW i \in Invoice, NEW k \in Kind,
               Enqueue(c, i, k, FlagStage[k]), stage[c] = QueueStage[k]
        PROVE  /\ \A h \in Kind : stage'[c] = FlagStage[h] => jobs'[h][cur'[c]] > 0
               /\ stage'[c] = "followUpFlag" =>
                     \A j \in todo'[c] : jobs'["overdue"][j] > 0
    <3>1. stage'[c] = FlagStage[k] /\ cur'[c] = i /\ todo'[c] \subseteq todo[c]
      BY <2>4 DEF Enqueue, TypeOK
    <3>2. jobs'[k][i] > 0
      BY <2>4 DEF Enqueue, TypeOK
    <3>3. \A h \in Kind : FlagStage[h] = FlagStage[k] => h = k
      BY DEF Kind, FlagStage
    <3>4. FlagStage[k] = "followUpFlag" => QueueStage[k] = "followUpQueue"
      BY DEF Kind, FlagStage, QueueStage
    <3>5. stage'[c] = "followUpFlag" =>
             \A j \in todo'[c] : j \in Invoice /\ jobs["overdue"][j] > 0
      BY <2>4, <3>1, <3>4 DEF EarnedInv, ScansEarn, TypeOK
    <3> QED
      BY <3>1, <3>2, <3>3, <3>5, JobsGrow DEF Kind
  <2>5. ASSUME FollowUpFlag(c)
        PROVE  \A i \in todo'[c] : jobs'["overdue"][i] > 0
    <3>1. \A i \in todo'[c] : i \in Invoice /\ jobs["overdue"][i] > 0
      BY <2>5 DEF FollowUpFlag, Loop, At, EarnedInv, ScansEarn, TypeOK
    <3> QED
      BY <3>1, JobsGrow DEF Kind
  <2>6. \/ stage'[c] = stage[c] /\ cur'[c] = cur[c] /\ todo'[c] = todo[c]
        \/ stage'[c] \in IdleStages \cup {"reminderQueue", "overdueQueue"}
        \/ FollowUpQuery(c) /\ stage'[c] = "followUpQueue"
        \/ FollowUpFlag(c) /\ stage'[c] = "followUpQueue"
        \/ \E i \in Invoice, k \in Kind :
              Enqueue(c, i, k, FlagStage[k]) /\ stage[c] = QueueStage[k]
    <3> USE DEF scans
    <3>1. ASSUME NEW d \in Cron, NEW S, NEW loop, NEW next, Receive(d, S, loop, next)
          PROVE  \/ stage'[c] = stage[c] /\ cur'[c] = cur[c] /\ todo'[c] = todo[c]
                 \/ d = c /\ stage'[c] \in {loop, next}
      BY <3>1 DEF Receive, TypeOK
    <3>2. ASSUME NEW d \in Cron, NEW loop, NEW next, Loop(d, loop, next)
          PROVE  \/ stage'[c] = stage[c] /\ cur'[c] = cur[c] /\ todo'[c] = todo[c]
                 \/ d = c /\ stage'[c] \in {loop, next}
      BY <3>2 DEF Loop, TypeOK
    <3>3. ASSUME NEW d \in Cron, NEW i, NEW k, NEW s, Enqueue(d, i, k, s)
          PROVE  \/ stage'[c] = stage[c] /\ cur'[c] = cur[c] /\ todo'[c] = todo[c]
                 \/ d = c
      BY <3>3 DEF Enqueue, TypeOK
    <3>4. ASSUME NEW d \in Cron, NEW i \in Invoice,
                 ReminderEnqueue(d, i) \/ OverdueEnqueue(d, i) \/ FollowUpEnqueue(d, i)
          PROVE  \E k \in Kind :
                    Enqueue(d, i, k, FlagStage[k]) /\ stage[d] = QueueStage[k]
      BY <3>4 DEF ReminderEnqueue, OverdueEnqueue, FollowUpEnqueue, At, Kind,
                  FlagStage, QueueStage
    <3>5. ASSUME NEW d \in Cron, ReminderQuery(d) \/ OverdueQuery(d)
          PROVE  \/ stage'[c] = stage[c] /\ cur'[c] = cur[c] /\ todo'[c] = todo[c]
                 \/ stage'[c] \in IdleStages \cup {"reminderQueue", "overdueQueue"}
      BY <3>1, <3>5 DEF ReminderQuery, OverdueQuery, IdleStages
    <3>6. ASSUME NEW d \in Cron, FollowUpQuery(d)
          PROVE  \/ stage'[c] = stage[c] /\ cur'[c] = cur[c] /\ todo'[c] = todo[c]
                 \/ stage'[c] \in IdleStages
                 \/ d = c /\ stage'[c] = "followUpQueue"
      BY <3>1, <3>6 DEF FollowUpQuery, IdleStages
    <3>7. ASSUME NEW d \in Cron, ReminderFlag(d) \/ OverdueFlag(d)
          PROVE  \/ stage'[c] = stage[c] /\ cur'[c] = cur[c] /\ todo'[c] = todo[c]
                 \/ stage'[c] \in IdleStages \cup {"reminderQueue", "overdueQueue"}
      BY <3>2, <3>7 DEF ReminderFlag, OverdueFlag, IdleStages
    <3>8. ASSUME NEW d \in Cron, FollowUpFlag(d)
          PROVE  \/ stage'[c] = stage[c] /\ cur'[c] = cur[c] /\ todo'[c] = todo[c]
                 \/ stage'[c] \in IdleStages
                 \/ d = c /\ stage'[c] = "followUpQueue"
      BY <3>2, <3>8 DEF FollowUpFlag, IdleStages
    <3>9. ASSUME NEW d \in Cron, Fail(d)
          PROVE  \/ stage'[c] = stage[c] /\ cur'[c] = cur[c] /\ todo'[c] = todo[c]
                 \/ stage'[c] \in IdleStages
      BY <3>9 DEF Fail, TypeOK, IdleStages
    <3>10. CASE NextDay
      BY <3>10 DEF NextDay, IdleStages
    <3>11. CASE UNCHANGED scans
      BY <3>11
    <3>12. ASSUME NEW d \in Cron, NEW i \in Invoice,
                  ReminderEnqueue(d, i) \/ OverdueEnqueue(d, i) \/ FollowUpEnqueue(d, i)
           PROVE  \/ stage'[c] = stage[c] /\ cur'[c] = cur[c] /\ todo'[c] = todo[c]
                  \/ \E k \in Kind :
                        Enqueue(c, i, k, FlagStage[k]) /\ stage[c] = QueueStage[k]
      <4>1. PICK k \in Kind :
               Enqueue(d, i, k, FlagStage[k]) /\ stage[d] = QueueStage[k]
        BY <3>4, <3>12
      <4> QED
        BY <3>3, <4>1
    <3>13. CASE \E i \in Invoice : Settle(i) \/ RemoveTenant(i)
      BY <3>13 DEF Settle, RemoveTenant
    <3>14. ASSUME NEW d \in Cron, ScanStep(d)
           PROVE  \/ ReminderQuery(d) \/ OverdueQuery(d)
                  \/ FollowUpQuery(d) \/ FollowUpFlag(d)
                  \/ ReminderFlag(d) \/ OverdueFlag(d)
                  \/ \E i \in Invoice : ReminderEnqueue(d, i)
                        \/ OverdueEnqueue(d, i) \/ FollowUpEnqueue(d, i)
      BY <3>14 DEF ScanStep
    <3>15. ASSUME NEW d \in Cron, ScanStep(d)
           PROVE  \/ stage'[c] = stage[c] /\ cur'[c] = cur[c] /\ todo'[c] = todo[c]
                  \/ stage'[c] \in IdleStages \cup {"reminderQueue", "overdueQueue"}
                  \/ FollowUpQuery(c) /\ stage'[c] = "followUpQueue"
                  \/ FollowUpFlag(c) /\ stage'[c] = "followUpQueue"
                  \/ \E i \in Invoice, k \in Kind :
                        Enqueue(c, i, k, FlagStage[k]) /\ stage[c] = QueueStage[k]
      <4>1. CASE ReminderQuery(d) \/ OverdueQuery(d)
        BY <3>5, <4>1
      <4>2. CASE FollowUpQuery(d)
        BY <3>6, <4>2
      <4>3. CASE ReminderFlag(d) \/ OverdueFlag(d)
        BY <3>7, <4>3
      <4>4. CASE FollowUpFlag(d)
        BY <3>8, <4>4
      <4>5. ASSUME NEW i \in Invoice,
                   ReminderEnqueue(d, i) \/ OverdueEnqueue(d, i) \/ FollowUpEnqueue(d, i)
            PROVE  \/ stage'[c] = stage[c] /\ cur'[c] = cur[c] /\ todo'[c] = todo[c]
                   \/ \E k \in Kind :
                         Enqueue(c, i, k, FlagStage[k]) /\ stage[c] = QueueStage[k]
        BY <3>12, <4>5
      <4> QED
        BY <3>14, <3>15, <4>1, <4>2, <4>3, <4>4, <4>5
    <3> QED
      <4>1. \/ \E d \in Cron : ScanStep(d) \/ Fail(d)
            \/ NextDay
            \/ \E i \in Invoice : Settle(i) \/ RemoveTenant(i)
            \/ UNCHANGED scans
        BY DEF Next, vars
      <4>2. CASE \E d \in Cron : ScanStep(d) \/ Fail(d)
        BY <3>9, <3>15, <4>2
      <4> QED
        BY <3>10, <3>11, <3>13, <4>1, <4>2
  <2> QED
    <3>1. \A k \in Kind : FlagStage[k] # "followUpQueue"
      BY DEF Kind, FlagStage
    <3>2. CASE /\ FollowUpQuery(c) \/ FollowUpFlag(c)
               /\ stage'[c] = "followUpQueue"
      BY <2>3, <2>5, <3>1, <3>2
    <3>3. ASSUME NEW i \in Invoice, NEW k \in Kind,
                 Enqueue(c, i, k, FlagStage[k]), stage[c] = QueueStage[k]
          PROVE  stage'[c] # "followUpQueue"
      BY <3>1, <3>3 DEF Enqueue, TypeOK
    <3>4. CASE \E i \in Invoice, k \in Kind :
                 Enqueue(c, i, k, FlagStage[k]) /\ stage[c] = QueueStage[k]
      BY <2>4, <3>3, <3>4
    <3> QED
      BY <2>1, <2>2, <2>6, <3>2, <3>4
<1>3. ASSUME NEW i \in Invoice, jobs'["followUp"][i] > 0
      PROVE  jobs'["overdue"][i] > 0
  <2>1. CASE jobs["followUp"][i] > 0
    BY <2>1, JobsGrow DEF EarnedInv, FlagsEarned, Kind
  <2>2. CASE ~(jobs["followUp"][i] > 0)
    <3>1. PICK c \in Cron : FollowUpEnqueue(c, i)
      <4>1. jobs' # jobs
        BY <1>3, <2>2
      <4>2. PICK d \in Cron, j \in Invoice :
              ReminderEnqueue(d, j) \/ OverdueEnqueue(d, j) \/ FollowUpEnqueue(d, j)
        BY <4>1
        DEF Next, vars, ScanStep, ReminderQuery, ReminderFlag, OverdueQuery,
            OverdueFlag, FollowUpQuery, FollowUpFlag, Receive, Loop, Fail, NextDay,
            Settle, RemoveTenant, queues
      <4>3. FollowUpEnqueue(d, j) /\ j = i
        BY <1>3, <2>2, <4>2
        DEF ReminderEnqueue, OverdueEnqueue, FollowUpEnqueue, Enqueue, TypeOK, Kind
      <4> QED
        BY <4>3
    <3>2. jobs["overdue"][i] > 0
      BY <3>1 DEF FollowUpEnqueue, Enqueue, At, EarnedInv, ScansEarn
    <3> QED
      BY <3>2, JobsGrow DEF Kind
  <2> QED
    BY <2>1, <2>2
<1>4. FlagsEarned'
  BY <1>1, <1>3 DEF FlagsEarned
<1>5. ScansEarn'
  BY <1>2 DEF ScansEarn, At
<1> QED
  BY <1>4, <1>5 DEF EarnedInv

(* No invoice is taken for reminded, notified or followed up without a job *)
(* in the queue, and none is followed up before it was notified, whichever *)
(* scans overlap and wherever they fail.                                   *)
THEOREM EarnedCorrect == Spec => []FlagsEarned
<1>1. Init => TypeOK /\ EarnedInv
  <2> SUFFICES ASSUME Init PROVE EarnedInv
    BY TypeInit
  <2>1. FlagsEarned
    BY DEF Init, FlagsEarned, Flagged, Kind, Never
  <2>2. ScansEarn
    BY DEF Init, ScansEarn, At, Kind, FlagStage
  <2> QED
    BY <2>1, <2>2 DEF EarnedInv
<1>2. TypeOK /\ EarnedInv /\ [Next]_vars => (TypeOK /\ EarnedInv)'
  BY TypeStep, EarnedStep
<1>3. EarnedInv => FlagsEarned
  BY DEF EarnedInv
<1> QED
  BY <1>1, <1>2, <1>3, PTL DEF Spec
=============================================================================
