-------------------------- MODULE TaskQueueProofs --------------------------
(***************************************************************************)
(* Theorems about TaskQueue, for any numbers of jobs, tasks and workers.   *)
(***************************************************************************)
EXTENDS TaskQueue, FiniteSetTheorems, TLAPS

USE QueueAssumption

-----------------------------------------------------------------------------
(* Counting                                                                *)

\* The in-flight count is a natural number, whatever columns it is taken of.
LEMMA HeldInFinite ==
  ASSUME NEW w, NEW st, NEW wk
  PROVE  /\ IsFiniteSet(HeldIn(w, st, wk))
         /\ Cardinality(HeldIn(w, st, wk)) \in Nat
<1>1. HeldIn(w, st, wk) \subseteq Tasks
  BY DEF HeldIn
<1>2. IsFiniteSet(HeldIn(w, st, wk))
  BY <1>1, FS_Subset
<1> QED
  BY <1>2, FS_CardinalityType

LEMMA InFlightFinite ==
  ASSUME NEW w
  PROVE  IsFiniteSet(InFlightTasks(w)) /\ Cardinality(InFlightTasks(w)) \in Nat
BY HeldInFinite DEF InFlightTasks

\* _sync_slots leaves counts in the cache.
LEMMA SyncSlotsType ==
  ASSUME slotsUsed \in [Workers -> Nat], NEW W, NEW st, NEW wk, SyncSlots(W, st, wk)
  PROVE  slotsUsed' \in [Workers -> Nat]
BY HeldInFinite DEF SyncSlots

LEMMA LostOutcomeType ==
  ASSUME NEW t
  PROVE  LostOutcome(t) \in {"cancelled", "queued", "failed"}
BY DEF LostOutcome

-----------------------------------------------------------------------------
(* Type correctness                                                        *)

LEMMA ResolveLostType ==
  ASSUME QueueTypeOK, NEW L, ResolveLost(L)
  PROVE  QueueTypeOK'
<1>1. slotsUsed' \in [Workers -> Nat]
  BY SyncSlotsType DEF ResolveLost, WriteTasks, QueueTypeOK
<1>2. status' \in [Tasks -> VisibleTaskStatus \cup {"absent"}]
  BY LostOutcomeType DEF ResolveLost, WriteTasks, QueueTypeOK, VisibleTaskStatus, TaskStatus
<1>3. worker' \in [Tasks -> Workers \cup {NoWorker}]
  BY DEF ResolveLost, WriteTasks, QueueTypeOK
<1>4. lease' \in [Tasks -> {"none", "current", "expired"}]
  BY DEF ResolveLost, QueueTypeOK
<1> QED
  BY <1>1, <1>2, <1>3, <1>4 DEF ResolveLost, QueueTypeOK, jobVars

LEMMA QueueTypeStep ==
  ASSUME QueueTypeOK, [QueueNext]_queueVars
  PROVE  QueueTypeOK'
<1> USE DEF QueueTypeOK, VisibleTaskStatus, TaskStatus, jobVars, taskVars, workerVars
<1>1. ASSUME NEW j \in Jobs, CreateJobWithTasks(j) PROVE QueueTypeOK'
  <2>1. Cardinality({i \in Jobs : JobExists(i)}) \in Nat
    BY FS_Subset, FS_CardinalityType
  <2> QED
    BY <1>1, <2>1 DEF CreateJobWithTasks, JobStatus
<1>2. ASSUME NEW j \in Jobs, CancelJobTasks(j) PROVE QueueTypeOK'
  <2>1. slotsUsed' \in [Workers -> Nat]
    BY <1>2, SyncSlotsType DEF CancelJobTasks, WriteTasks
  <2> QED
    BY <1>2, <2>1 DEF CancelJobTasks, WriteTasks
<1>3. ASSUME NEW j \in Jobs, NEW s \in JobTerminal \cup {"cancelling"}, SetJobStatus(j, s)
      PROVE QueueTypeOK'
  BY <1>3 DEF SetJobStatus, JobTerminal, JobStatus
<1>4. ASSUME NEW w \in Workers, RegisterWorker(w) PROVE QueueTypeOK'
  BY <1>4 DEF RegisterWorker
<1>5. ASSUME NEW w \in Workers, HeartbeatWorker(w) PROVE QueueTypeOK'
  BY <1>5 DEF HeartbeatWorker
<1>6. ASSUME NEW w \in Workers, FallSilent(w) PROVE QueueTypeOK'
  BY <1>6 DEF FallSilent
<1>7. ASSUME NEW w \in Workers, NEW t \in Tasks, LeaseTask(w, t) PROVE QueueTypeOK'
  <2>1. slotsUsed' \in [Workers -> Nat]
    BY <1>7, SyncSlotsType DEF LeaseTask, WriteTasks
  <2>2. jobStatus' \in [Jobs -> JobStatus \cup {"absent"}]
    BY <1>7 DEF LeaseTask, MaybeJobRunning, JobStatus
  <2> QED
    BY <1>7, <2>1, <2>2 DEF LeaseTask, WriteTasks
<1>8. ASSUME NEW t \in Tasks, NEW w \in Workers, StartTask(t, w) PROVE QueueTypeOK'
  BY <1>8 DEF StartTask
<1>9. ASSUME NEW t \in Tasks, NEW w \in Workers, CompleteTask(t, w) PROVE QueueTypeOK'
  <2>1. slotsUsed' \in [Workers -> Nat]
    BY <1>9, SyncSlotsType DEF CompleteTask, WriteTasks
  <2> QED
    BY <1>9, <2>1 DEF CompleteTask, WriteTasks
<1>10. ASSUME NEW t \in Tasks, NEW w \in Workers, NEW r \in BOOLEAN, FailTask(t, w, r)
       PROVE QueueTypeOK'
  <2>1. slotsUsed' \in [Workers -> Nat]
    BY <1>10, SyncSlotsType DEF FailTask, WriteTasks
  <2> QED
    BY <1>10, <2>1 DEF FailTask, WriteTasks
<1>11. ASSUME NEW t \in Tasks, NEW w \in Workers, CancelRunningTask(t, w) PROVE QueueTypeOK'
  <2>1. slotsUsed' \in [Workers -> Nat]
    BY <1>11, SyncSlotsType DEF CancelRunningTask, WriteTasks
  <2> QED
    BY <1>11, <2>1 DEF CancelRunningTask, WriteTasks
<1>12. ASSUME NEW t \in Tasks, LeaseLapse(t) PROVE QueueTypeOK'
  BY <1>12 DEF LeaseLapse
<1>13. ASSUME MarkDeadWorkers PROVE QueueTypeOK'
  BY <1>13 DEF MarkDeadWorkers
<1>14. ASSUME NEW L, ResolveLost(L) PROVE QueueTypeOK'
  BY <1>14, ResolveLostType
<1>15. CASE UNCHANGED queueVars
  BY <1>15 DEF queueVars
<1> QED
  BY <1>1, <1>2, <1>3, <1>4, <1>5, <1>6, <1>7, <1>8, <1>9, <1>10, <1>11, <1>12, <1>13,
     <1>14, <1>15
  DEF QueueNext, JobStep, WorkerStep, TaskStep, ReaperStep, ReapTasksForWorkers,
      ReapExpiredLeases

\* The columns keep to their domains; in particular no reader of the tables
\* ever meets the status "lost" that _resolve_lost_task passes through.
THEOREM QueueTypeCorrect == QueueSpec => []QueueTypeOK
<1>1. QueueInit => QueueTypeOK
  BY DEF QueueInit, QueueTypeOK
<1>2. QueueTypeOK /\ [QueueNext]_queueVars => QueueTypeOK'
  BY QueueTypeStep
<1> QED
  BY <1>1, <1>2, PTL DEF QueueSpec

-----------------------------------------------------------------------------
(* The inductive invariant of the task table                               *)

\* A task exists as soon as its job does, and before that its columns are
\* blank: the fact behind "a queued job is untouched".
TaskFollowsJob ==
  \A t \in Tasks :
    /\ status[t] = "absent" <=> ~JobExists(JobOf[t])
    /\ status[t] = "absent" => attempt[t] = 0 /\ worker[t] = NoWorker /\ lease[t] = "none"

TableInv ==
  /\ QueueTypeOK
  /\ TaskFollowsJob
  /\ InFlightIsRecoverable
  /\ QueuedIsFree
  /\ AttemptsBounded
  /\ QueuedJobIsUntouched

LEMMA ResolveLostTable ==
  ASSUME TableInv, NEW L, L \subseteq {t \in Tasks : status[t] \in InFlight}, ResolveLost(L)
  PROVE  TableInv'
<1> USE DEF TableInv, ResolveLost, WriteTasks, jobVars, InFlight
<1>1. QueueTypeOK'
  BY ResolveLostType
<1>2. \A t \in Tasks : LostOutcome(t) \in {"cancelled", "queued", "failed"}
  BY LostOutcomeType
<1>3. TaskFollowsJob'
  BY <1>2 DEF TaskFollowsJob, JobExists
<1>4. InFlightIsRecoverable'
  BY <1>2 DEF InFlightIsRecoverable, Registered
<1>5. QueuedIsFree'
  BY <1>2 DEF QueuedIsFree, MayRetry, LostOutcome
<1>6. AttemptsBounded'
  BY DEF AttemptsBounded
<1>7. QueuedJobIsUntouched'
  BY DEF QueuedJobIsUntouched
<1> QED
  BY <1>1, <1>3, <1>4, <1>5, <1>6, <1>7

LEMMA CreateJobTable ==
  ASSUME TableInv, NEW j \in Jobs, CreateJobWithTasks(j)
  PROVE  TableInv'
<1> USE DEF TableInv, CreateJobWithTasks, QueueTypeOK, workerVars
<1>1. QueueTypeOK'
  BY QueueTypeStep DEF QueueNext, JobStep
<1>2. TaskFollowsJob'
  BY DEF TaskFollowsJob, JobExists
<1>3. InFlightIsRecoverable'
  BY DEF InFlightIsRecoverable, Registered, InFlight
<1>4. QueuedIsFree'
  BY DEF QueuedIsFree, MayRetry, TaskFollowsJob
<1>5. AttemptsBounded'
  BY DEF AttemptsBounded
<1>6. QueuedJobIsUntouched'
  BY DEF QueuedJobIsUntouched, TaskFollowsJob
<1> QED
  BY <1>1, <1>2, <1>3, <1>4, <1>5, <1>6

LEMMA LeaseTable ==
  ASSUME TableInv, NEW w \in Workers, NEW t \in Tasks, LeaseTask(w, t)
  PROVE  TableInv'
<1> USE DEF TableInv, LeaseTask, WriteTasks, MaybeJobRunning, QueueTypeOK
<1>1. status[t] = "queued"
  BY DEF Candidates
<1>2. QueueTypeOK'
  BY QueueTypeStep DEF QueueNext, WorkerStep
<1>3. TaskFollowsJob'
  BY <1>1 DEF TaskFollowsJob, JobExists
<1>4. InFlightIsRecoverable'
  BY DEF InFlightIsRecoverable, Registered
<1>5. QueuedIsFree'
  BY DEF QueuedIsFree, MayRetry
<1>6. AttemptsBounded'
  BY <1>1 DEF AttemptsBounded, QueuedIsFree, MayRetry
<1>7. QueuedJobIsUntouched'
  BY <1>1 DEF QueuedJobIsUntouched
<1> QED
  BY <1>2, <1>3, <1>4, <1>5, <1>6, <1>7

LEMMA ReportTable ==
  ASSUME TableInv, NEW t \in Tasks, NEW w \in Workers, TaskStep(t, w)
  PROVE  TableInv'
<1> USE DEF TableInv, QueueTypeOK, WriteTasks, jobVars, workerVars, InFlight, Owns, TaskMay
<1>1. QueueTypeOK'
  BY QueueTypeStep DEF QueueNext
<1>2. CASE StartTask(t, w)
  <2> USE <1>2 DEF StartTask
  <2>1. TaskFollowsJob'
    BY DEF TaskFollowsJob, JobExists
  <2>2. InFlightIsRecoverable'
    BY DEF InFlightIsRecoverable, Registered
  <2>3. QueuedIsFree' /\ AttemptsBounded' /\ QueuedJobIsUntouched'
    BY DEF QueuedIsFree, MayRetry, AttemptsBounded, QueuedJobIsUntouched
  <2> QED
    BY <1>1, <2>1, <2>2, <2>3
<1>3. CASE CompleteTask(t, w) \/ CancelRunningTask(t, w)
  <2> USE <1>3 DEF CompleteTask, CancelRunningTask
  <2>0. status[t] # "queued" /\ status[t] # "absent"
    BY DEF QueuedIsFree
  <2>1. TaskFollowsJob'
    BY <2>0 DEF TaskFollowsJob, JobExists
  <2>2. InFlightIsRecoverable'
    BY DEF InFlightIsRecoverable, Registered
  <2>3. QueuedIsFree' /\ AttemptsBounded' /\ QueuedJobIsUntouched'
    BY DEF QueuedIsFree, MayRetry, AttemptsBounded, QueuedJobIsUntouched
  <2> QED
    BY <1>1, <2>1, <2>2, <2>3
<1>4. ASSUME NEW r \in BOOLEAN, FailTask(t, w, r) PROVE TableInv'
  <2> USE <1>4 DEF FailTask
  <2>1. TaskFollowsJob'
    BY DEF TaskFollowsJob, JobExists
  <2>2. InFlightIsRecoverable'
    BY DEF InFlightIsRecoverable, Registered
  <2>3. QueuedIsFree'
    BY DEF QueuedIsFree, MayRetry
  <2>4. AttemptsBounded' /\ QueuedJobIsUntouched'
    BY DEF AttemptsBounded, QueuedJobIsUntouched
  <2> QED
    BY <1>1, <2>1, <2>2, <2>3, <2>4
<1> QED
  BY <1>2, <1>3, <1>4 DEF TaskStep

LEMMA CancelJobTable ==
  ASSUME TableInv, NEW j \in Jobs, CancelJobTasks(j)
  PROVE  TableInv'
<1> USE DEF TableInv, CancelJobTasks, WriteTasks, QueueTypeOK, jobVars, TasksOf
<1>1. QueueTypeOK'
  BY QueueTypeStep DEF QueueNext, JobStep
<1>2. TaskFollowsJob'
  BY DEF TaskFollowsJob, JobExists
<1>3. InFlightIsRecoverable'
  BY DEF InFlightIsRecoverable, Registered, InFlight
<1>4. QueuedIsFree'
  BY DEF QueuedIsFree, MayRetry
<1>5. AttemptsBounded' /\ QueuedJobIsUntouched'
  BY DEF AttemptsBounded, QueuedJobIsUntouched
<1> QED
  BY <1>1, <1>2, <1>3, <1>4, <1>5

LEMMA SetJobTable ==
  ASSUME TableInv, NEW j \in Jobs, NEW s \in JobTerminal \cup {"cancelling"}, SetJobStatus(j, s)
  PROVE  TableInv'
<1> USE DEF TableInv, SetJobStatus, QueueTypeOK, taskVars, workerVars, JobTerminal
<1>1. QueueTypeOK'
  BY QueueTypeStep DEF QueueNext, JobStep
<1>2. TaskFollowsJob'
  BY DEF TaskFollowsJob, JobExists
<1>3. InFlightIsRecoverable' /\ QueuedIsFree' /\ AttemptsBounded'
  BY DEF InFlightIsRecoverable, Registered, QueuedIsFree, MayRetry, AttemptsBounded
<1>4. QueuedJobIsUntouched'
  BY DEF QueuedJobIsUntouched
<1> QED
  BY <1>1, <1>2, <1>3, <1>4

\* Registration, heartbeats, silence, death and time move no task.
LEMMA WorkerTable ==
  ASSUME TableInv,
         \/ \E w \in Workers : RegisterWorker(w) \/ HeartbeatWorker(w) \/ FallSilent(w)
         \/ MarkDeadWorkers
         \/ \E t \in Tasks : LeaseLapse(t)
  PROVE  TableInv'
<1> USE DEF TableInv, QueueTypeOK, RegisterWorker, HeartbeatWorker, FallSilent, MarkDeadWorkers,
            LeaseLapse, jobVars, taskVars, workerVars, InFlight
<1>1. QueueTypeOK'
  BY QueueTypeStep DEF QueueNext, WorkerStep, ReaperStep
<1>2. UNCHANGED <<jobStatus, status, attempt, worker>>
  OBVIOUS
<1>3. TaskFollowsJob'
  BY DEF TaskFollowsJob, JobExists, InFlightTasks, HeldIn
<1>4. InFlightIsRecoverable'
  BY DEF InFlightIsRecoverable, Registered, InFlightTasks, HeldIn
<1>5. QueuedIsFree'
  BY DEF QueuedIsFree, MayRetry, InFlightTasks, HeldIn
<1>6. AttemptsBounded' /\ QueuedJobIsUntouched'
  BY <1>2 DEF AttemptsBounded, QueuedJobIsUntouched
<1> QED
  BY <1>1, <1>3, <1>4, <1>5, <1>6

LEMMA TableInit == QueueInit => TableInv
BY DEF QueueInit, TableInv, QueueTypeOK, TaskFollowsJob, JobExists, InFlightIsRecoverable,
       InFlight, QueuedIsFree, AttemptsBounded, QueuedJobIsUntouched

LEMMA TableStep ==
  ASSUME TableInv, [QueueNext]_queueVars
  PROVE  TableInv'
<1>1. ASSUME NEW j \in Jobs, JobStep(j) PROVE TableInv'
  BY <1>1, CreateJobTable, CancelJobTable, SetJobTable DEF JobStep
<1>2. ASSUME NEW w \in Workers, WorkerStep(w) PROVE TableInv'
  BY <1>2, LeaseTable, WorkerTable DEF WorkerStep
<1>3. ASSUME NEW t \in Tasks, NEW w \in Workers, TaskStep(t, w) PROVE TableInv'
  BY <1>3, ReportTable
<1>4. ASSUME NEW t \in Tasks, LeaseLapse(t) PROVE TableInv'
  BY <1>4, WorkerTable
<1>5. CASE ReaperStep
  <2>1. ExpiredTasks \subseteq {t \in Tasks : status[t] \in InFlight}
    BY DEF ExpiredTasks
  <2>2. ASSUME NEW W \in SUBSET Workers
        PROVE  TasksHeldBy(W) \subseteq {t \in Tasks : status[t] \in InFlight}
    BY DEF TasksHeldBy
  <2> QED
    BY <1>5, <2>1, <2>2, ResolveLostTable, WorkerTable
    DEF ReaperStep, ReapTasksForWorkers, ReapExpiredLeases
<1>6. CASE UNCHANGED queueVars
  BY <1>6 DEF queueVars, TableInv, QueueTypeOK, TaskFollowsJob, JobExists,
     InFlightIsRecoverable, Registered, QueuedIsFree, MayRetry, AttemptsBounded,
     QueuedJobIsUntouched
<1> QED
  BY <1>1, <1>2, <1>3, <1>4, <1>5, <1>6 DEF QueueNext

\* The invariant of the task table holds whatever methods are called.
THEOREM TableInvariant == QueueSpec => []TableInv
BY TableInit, TableStep, PTL DEF QueueSpec

\* No in-flight task is beyond recovery: it has a registered owner and a lease.
THEOREM InFlightRecoverable == QueueSpec => []InFlightIsRecoverable
BY TableInvariant, PTL DEF TableInv

\* A queued task belongs to nobody and has an attempt left.
THEOREM QueuedTasksAreFree == QueueSpec => []QueuedIsFree
BY TableInvariant, PTL DEF TableInv

\* No task is granted more than max_attempts attempts.
THEOREM AttemptsWithinBudget == QueueSpec => []AttemptsBounded
BY TableInvariant, PTL DEF TableInv

\* A job that is still "queued" has never had a task leased.
THEOREM QueuedJobsUntouched == QueueSpec => []QueuedJobIsUntouched
BY TableInvariant, PTL DEF TableInv

-----------------------------------------------------------------------------
(* Slots                                                                   *)

\* The cache is right for the workers that were synced and for those whose
\* tasks did not change.
LEMMA CacheStep ==
  ASSUME SlotsCacheExact, slotsUsed \in [Workers -> Nat],
         NEW W, SyncSlots(W, status', worker'),
         \A w \in Workers \ W : InFlightTasks(w)' = InFlightTasks(w)
  PROVE  SlotsCacheExact'
BY DEF SlotsCacheExact, SyncSlots, InFlightTasks

\* Nothing is overbooked by a step after which each worker holds at most the
\* tasks it held before.
LEMMA ShrinkStep ==
  ASSUME NoOverbooking,
         \A w \in Workers : InFlightTasks(w)' \subseteq InFlightTasks(w)
  PROVE  NoOverbooking'
<1> SUFFICES ASSUME NEW w \in Workers
             PROVE  Cardinality(InFlightTasks(w)') =< Slots[w]
  BY DEF NoOverbooking
<1>1. IsFiniteSet(InFlightTasks(w)) /\ Cardinality(InFlightTasks(w)) \in Nat
  BY InFlightFinite
<1>2. Cardinality(InFlightTasks(w)') \in Nat
      /\ Cardinality(InFlightTasks(w)') =< Cardinality(InFlightTasks(w))
  BY <1>1, FS_Subset, FS_CardinalityType
<1> QED
  BY <1>1, <1>2 DEF NoOverbooking

SlotsInv == SlotsCacheExact /\ NoOverbooking

\* A step that leaves statuses of tasks, their workers and the cache alone.
LEMMA SlotsUntouched ==
  ASSUME SlotsInv, UNCHANGED <<status, worker, slotsUsed>>
  PROVE  SlotsInv'
BY DEF SlotsInv, SlotsCacheExact, NoOverbooking, InFlightTasks, HeldIn

LEMMA ResolveLostSlots ==
  ASSUME TableInv, SlotsInv, NEW L, L \subseteq {t \in Tasks : status[t] \in InFlight},
         ResolveLost(L)
  PROVE  SlotsInv'
<1> USE DEF TableInv, QueueTypeOK, SlotsInv, InFlight, HeldIn
<1>1. \A t \in Tasks : LostOutcome(t) \in {"cancelled", "queued", "failed"}
  BY LostOutcomeType
<1>2. SyncSlots({worker[t] : t \in L}, status', worker')
  BY DEF ResolveLost, WriteTasks
<1>3. \A w \in Workers : InFlightTasks(w)' \subseteq InFlightTasks(w)
  BY <1>1 DEF ResolveLost, WriteTasks, InFlightTasks
<1>4. \A w \in Workers \ {worker[t] : t \in L} : InFlightTasks(w)' = InFlightTasks(w)
  BY <1>1 DEF ResolveLost, WriteTasks, InFlightTasks
<1> QED
  BY <1>2, <1>3, <1>4, CacheStep, ShrinkStep

LEMMA LeaseSlots ==
  ASSUME TableInv, SlotsInv, NEW w \in Workers, NEW t \in Tasks, LeaseTask(w, t)
  PROVE  SlotsInv'
<1> USE DEF TableInv, QueueTypeOK, SlotsInv, InFlight, HeldIn
<1>1. status[t] = "queued" /\ worker[t] = NoWorker
  BY DEF LeaseTask, Candidates, QueuedIsFree
<1>2. InFlightTasks(w)' = InFlightTasks(w) \cup {t}
  BY <1>1 DEF LeaseTask, WriteTasks, InFlightTasks
<1>3. \A v \in Workers \ {w} : InFlightTasks(v)' = InFlightTasks(v)
  BY <1>1 DEF LeaseTask, WriteTasks, InFlightTasks
<1>4. SlotsCacheExact'
  <2>1. SyncSlots({w}, status', worker')
    BY DEF LeaseTask, WriteTasks
  <2> QED
    BY <1>3, <2>1, CacheStep
<1>5. Cardinality(InFlightTasks(w)') =< Slots[w]
  <2>1. IsFiniteSet(InFlightTasks(w)) /\ Cardinality(InFlightTasks(w)) \in Nat
    BY InFlightFinite
  <2>2. t \notin InFlightTasks(w)
    BY <1>1 DEF InFlightTasks
  <2>3. Cardinality(InFlightTasks(w) \cup {t}) = Cardinality(InFlightTasks(w)) + 1
    BY <2>1, <2>2, FS_AddElement
  <2> QED
    BY <1>2, <2>1, <2>3 DEF LeaseTask, HasFreeSlot
<1> QED
  BY <1>3, <1>4, <1>5 DEF NoOverbooking

LEMMA ReportSlots ==
  ASSUME TableInv, SlotsInv, NEW t \in Tasks, NEW w \in Workers, TaskStep(t, w)
  PROVE  SlotsInv'
<1> USE DEF TableInv, QueueTypeOK, SlotsInv, InFlight, HeldIn, Owns
<1>1. CASE StartTask(t, w)
  <2>1. \A v \in Workers : InFlightTasks(v)' = InFlightTasks(v)
    BY <1>1 DEF StartTask, TaskMay, InFlightTasks
  <2> QED
    BY <1>1, <2>1 DEF StartTask, workerVars, SlotsCacheExact, NoOverbooking
<1>2. CASE CompleteTask(t, w)
  <2>1. SyncSlots({w}, status', worker')
    BY <1>2 DEF CompleteTask, WriteTasks
  <2>2. \A v \in Workers : InFlightTasks(v)' \subseteq InFlightTasks(v)
    BY <1>2 DEF CompleteTask, WriteTasks, InFlightTasks
  <2>3. \A v \in Workers \ {w} : InFlightTasks(v)' = InFlightTasks(v)
    BY <1>2 DEF CompleteTask, WriteTasks, InFlightTasks
  <2> QED
    BY <2>1, <2>2, <2>3, CacheStep, ShrinkStep
<1>3. ASSUME NEW r \in BOOLEAN, FailTask(t, w, r) PROVE SlotsInv'
  <2>1. SyncSlots({w}, status', worker')
    BY <1>3 DEF FailTask, WriteTasks
  <2>2. \A v \in Workers : InFlightTasks(v)' \subseteq InFlightTasks(v)
    BY <1>3 DEF FailTask, WriteTasks, InFlightTasks
  <2>3. \A v \in Workers \ {w} : InFlightTasks(v)' = InFlightTasks(v)
    BY <1>3 DEF FailTask, WriteTasks, InFlightTasks
  <2> QED
    BY <2>1, <2>2, <2>3, CacheStep, ShrinkStep
<1>4. CASE CancelRunningTask(t, w)
  <2>1. SyncSlots({w}, status', worker')
    BY <1>4 DEF CancelRunningTask, WriteTasks
  <2>2. \A v \in Workers : InFlightTasks(v)' \subseteq InFlightTasks(v)
    BY <1>4 DEF CancelRunningTask, WriteTasks, InFlightTasks
  <2>3. \A v \in Workers \ {w} : InFlightTasks(v)' = InFlightTasks(v)
    BY <1>4 DEF CancelRunningTask, WriteTasks, InFlightTasks
  <2> QED
    BY <2>1, <2>2, <2>3, CacheStep, ShrinkStep
<1> QED
  BY <1>1, <1>2, <1>3, <1>4 DEF TaskStep

LEMMA JobSlots ==
  ASSUME TableInv, SlotsInv, NEW j \in Jobs, JobStep(j)
  PROVE  SlotsInv'
<1> USE DEF TableInv, QueueTypeOK, SlotsInv, InFlight, HeldIn
<1>1. CASE CreateJobWithTasks(j)
  <2>1. \A v \in Workers : InFlightTasks(v)' = InFlightTasks(v)
    BY <1>1 DEF CreateJobWithTasks, TaskFollowsJob, InFlightTasks
  <2> QED
    BY <1>1, <2>1 DEF CreateJobWithTasks, workerVars, SlotsCacheExact, NoOverbooking
<1>2. CASE CancelJobTasks(j)
  <2> DEFINE stopped == {t \in TasksOf(j) : status[t] \in {"queued", "leased"}}
  <2>1. SyncSlots({worker[t] : t \in stopped}, status', worker')
    BY <1>2 DEF CancelJobTasks, WriteTasks
  <2>2. \A v \in Workers : InFlightTasks(v)' \subseteq InFlightTasks(v)
    BY <1>2 DEF CancelJobTasks, WriteTasks, InFlightTasks
  <2>3. \A v \in Workers \ {worker[t] : t \in stopped} : InFlightTasks(v)' = InFlightTasks(v)
    BY <1>2 DEF CancelJobTasks, WriteTasks, InFlightTasks, TasksOf
  <2> QED
    BY <2>1, <2>2, <2>3, CacheStep, ShrinkStep
<1>3. ASSUME NEW s, SetJobStatus(j, s) PROVE SlotsInv'
  BY <1>3, SlotsUntouched DEF SetJobStatus, taskVars, workerVars
<1> QED
  BY <1>1, <1>2, <1>3 DEF JobStep

LEMMA WorkerSlots ==
  ASSUME TableInv, SlotsInv, NEW w \in Workers, WorkerStep(w)
  PROVE  SlotsInv'
<1>1. CASE RegisterWorker(w)
  <2>1. InFlightTasks(w) = {}
    BY <1>1 DEF TableInv, InFlightIsRecoverable, RegisterWorker, InFlightTasks, HeldIn
  <2>2. \A v \in Workers : InFlightTasks(v)' = InFlightTasks(v)
    BY <1>1 DEF RegisterWorker, taskVars, InFlightTasks, HeldIn
  <2>3. Cardinality(InFlightTasks(w)) = 0
    BY <2>1, FS_EmptySet
  <2> QED
    BY <1>1, <2>2, <2>3
    DEF RegisterWorker, SlotsInv, SlotsCacheExact, NoOverbooking, TableInv, QueueTypeOK
<1>2. CASE HeartbeatWorker(w)
  BY <1>2, SlotsUntouched DEF HeartbeatWorker
<1>3. CASE FallSilent(w)
  BY <1>3, SlotsUntouched DEF FallSilent, taskVars
<1>4. ASSUME NEW t \in Tasks, LeaseTask(w, t) PROVE SlotsInv'
  BY <1>4, LeaseSlots
<1> QED
  BY <1>1, <1>2, <1>3, <1>4 DEF WorkerStep

\* No worker is overbooked and the slots_used cache is exact, for any slots.
THEOREM SlotsInvariant == QueueSpec => []SlotsInv
<1>1. QueueInit => SlotsInv
  <2> SUFFICES ASSUME QueueInit PROVE SlotsInv
    OBVIOUS
  <2>1. \A w \in Workers : InFlightTasks(w) = {}
    BY DEF QueueInit, InFlightTasks, HeldIn, InFlight
  <2>2. \A w \in Workers : Cardinality(InFlightTasks(w)) = 0
    BY <2>1, FS_EmptySet
  <2> QED
    BY <2>2 DEF QueueInit, SlotsInv, SlotsCacheExact, NoOverbooking
<1>2. TableInv /\ SlotsInv /\ [QueueNext]_queueVars => SlotsInv'
  <2> SUFFICES ASSUME TableInv, SlotsInv, [QueueNext]_queueVars PROVE SlotsInv'
    OBVIOUS
  <2>1. ASSUME NEW t \in Tasks, LeaseLapse(t) PROVE SlotsInv'
    BY <2>1, SlotsUntouched DEF LeaseLapse, workerVars
  <2>2. CASE MarkDeadWorkers
    BY <2>2, SlotsUntouched DEF MarkDeadWorkers, taskVars
  <2>3. ASSUME NEW W \in SUBSET Workers, ReapTasksForWorkers(W) PROVE SlotsInv'
    BY <2>3, ResolveLostSlots DEF ReapTasksForWorkers, TasksHeldBy
  <2>4. CASE ReapExpiredLeases
    BY <2>4, ResolveLostSlots DEF ReapExpiredLeases, ExpiredTasks
  <2>5. CASE UNCHANGED queueVars
    BY <2>5, SlotsUntouched DEF queueVars
  <2> QED
    BY <2>1, <2>2, <2>3, <2>4, <2>5, JobSlots, WorkerSlots, ReportSlots
    DEF QueueNext, ReaperStep
<1> QED
  BY <1>1, <1>2, TableInvariant, PTL DEF QueueSpec

\* The slots_used cache is always the in-flight count it caches.
THEOREM SlotsCacheIsExact == QueueSpec => []SlotsCacheExact
BY SlotsInvariant, PTL DEF SlotsInv

\* No worker is given more tasks than it has slots.
THEOREM NeverOverbooked == QueueSpec => []NoOverbooking
BY SlotsInvariant, PTL DEF SlotsInv

-----------------------------------------------------------------------------
(* Refinement: TaskQueue implements TaskLifecycle                          *)

\* An action that leaves a task's status, attempt and worker alone is a Rest.
LEMMA RestStep ==
  ASSUME NEW u \in Tasks, status'[u] = status[u], attempt'[u] = attempt[u],
         worker'[u] = worker[u]
  PROVE  Lifecycle!LifeStep(u)
BY DEF Lifecycle!LifeStep, Lifecycle!Rest, Lifecycle!SameAttempt, Lifecycle!SameHolder

LEMMA ResolveLostLife ==
  ASSUME TableInv, NEW L, L \subseteq {t \in Tasks : status[t] \in InFlight},
         ResolveLost(L), NEW u \in Tasks
  PROVE  Lifecycle!LifeStep(u)
<1> USE DEF TableInv, QueueTypeOK, ResolveLost, WriteTasks
<1>1. CASE u \notin L
  BY <1>1, RestStep
<1>2. CASE u \in L
  <2>1. status[u] \in InFlight /\ attempt'[u] = attempt[u]
    BY <1>2
  <2>2. status'[u] = LostOutcome(u)
    BY <1>2
  <2>3. CASE LostOutcome(u) = "queued"
    <3>1. attempt[u] < MaxAttempts[JobOf[u]] /\ worker'[u] = NoWorker
      BY <1>2, <2>3 DEF LostOutcome, MayRetry
    <3>2. Lifecycle!Release(u)
      BY <2>1, <2>2, <2>3, <3>1
      DEF Lifecycle!Release, Lifecycle!Moves, Lifecycle!SameAttempt, Lifecycle!InFlight, InFlight
    <3> QED
      BY <3>2 DEF Lifecycle!LifeStep
  <2>4. CASE LostOutcome(u) = "failed"
    <3>1. worker'[u] = worker[u]
      BY <1>2, <2>4
    <3>2. Lifecycle!GiveUp(u)
      BY <2>1, <2>2, <2>4, <3>1
      DEF Lifecycle!GiveUp, Lifecycle!Moves, Lifecycle!SameAttempt, Lifecycle!SameHolder,
          Lifecycle!InFlight, InFlight
    <3> QED
      BY <3>2 DEF Lifecycle!LifeStep
  <2>5. CASE LostOutcome(u) = "cancelled"
    <3>1. worker'[u] = NoWorker
      BY <1>2, <2>5
    <3>2. Lifecycle!Withdraw(u)
      BY <2>1, <2>2, <2>5, <3>1
      DEF Lifecycle!Withdraw, Lifecycle!Moves, Lifecycle!SameAttempt, Lifecycle!InFlight, InFlight
    <3> QED
      BY <3>2 DEF Lifecycle!LifeStep
  <2> QED
    BY <2>3, <2>4, <2>5, LostOutcomeType
<1> QED
  BY <1>1, <1>2

LEMMA JobLife ==
  ASSUME TableInv, NEW j \in Jobs, JobStep(j), NEW u \in Tasks
  PROVE  Lifecycle!LifeStep(u)
<1> USE DEF TableInv, QueueTypeOK
<1>1. CASE CreateJobWithTasks(j)
  <2>1. CASE JobOf[u] = j
    <3>1. status[u] = "absent"
      BY <1>1, <2>1 DEF CreateJobWithTasks, TaskFollowsJob
    <3>2. Lifecycle!Submit(u)
      BY <1>1, <2>1, <3>1
      DEF CreateJobWithTasks, Lifecycle!Submit, Lifecycle!Moves, Lifecycle!SameAttempt,
          Lifecycle!SameHolder
    <3> QED
      BY <3>2 DEF Lifecycle!LifeStep
  <2>2. CASE JobOf[u] # j
    BY <1>1, <2>2, RestStep DEF CreateJobWithTasks
  <2> QED
    BY <2>1, <2>2
<1>2. CASE CancelJobTasks(j)
  <2> DEFINE stopped == {t \in TasksOf(j) : status[t] \in {"queued", "leased"}}
  <2>1. CASE u \in stopped
    <3>1. Lifecycle!Withdraw(u)
      BY <1>2, <2>1
      DEF CancelJobTasks, WriteTasks, Lifecycle!Withdraw, Lifecycle!Moves,
          Lifecycle!SameAttempt, Lifecycle!InFlight
    <3> QED
      BY <3>1 DEF Lifecycle!LifeStep
  <2>2. CASE u \notin stopped
    BY <1>2, <2>2, RestStep DEF CancelJobTasks, WriteTasks
  <2> QED
    BY <2>1, <2>2
<1>3. ASSUME NEW s, SetJobStatus(j, s) PROVE Lifecycle!LifeStep(u)
  BY <1>3, RestStep DEF SetJobStatus, taskVars
<1> QED
  BY <1>1, <1>2, <1>3 DEF JobStep

LEMMA WorkerLife ==
  ASSUME TableInv, NEW w \in Workers, WorkerStep(w), NEW u \in Tasks
  PROVE  Lifecycle!LifeStep(u)
<1> USE DEF TableInv, QueueTypeOK
<1>1. CASE RegisterWorker(w) \/ HeartbeatWorker(w) \/ FallSilent(w)
  BY <1>1, RestStep DEF RegisterWorker, HeartbeatWorker, FallSilent, taskVars
<1>2. ASSUME NEW t \in Tasks, LeaseTask(w, t) PROVE Lifecycle!LifeStep(u)
  <2>1. CASE u = t
    <3>1. status[u] = "queued" /\ attempt[u] < MaxAttempts[JobOf[u]]
      BY <1>2, <2>1 DEF LeaseTask, Candidates, QueuedIsFree, MayRetry
    <3>2. Lifecycle!Grant(u)
      BY <1>2, <2>1, <3>1
      DEF LeaseTask, WriteTasks, Lifecycle!Grant, Lifecycle!Moves
    <3> QED
      BY <3>2 DEF Lifecycle!LifeStep
  <2>2. CASE u # t
    BY <1>2, <2>2, RestStep DEF LeaseTask, WriteTasks
  <2> QED
    BY <2>1, <2>2
<1> QED
  BY <1>1, <1>2 DEF WorkerStep

LEMMA ReportLife ==
  ASSUME TableInv, NEW t \in Tasks, NEW w \in Workers, TaskStep(t, w), NEW u \in Tasks
  PROVE  Lifecycle!LifeStep(u)
<1> USE DEF TableInv, QueueTypeOK
<1>1. CASE u # t
  BY <1>1, RestStep
  DEF TaskStep, StartTask, CompleteTask, FailTask, CancelRunningTask, WriteTasks
<1>2. CASE u = t
  <2> USE <1>2 DEF Lifecycle!Moves, Lifecycle!SameAttempt, Lifecycle!SameHolder,
                   Lifecycle!InFlight, TaskMay, Owns, WriteTasks
  <2>0. status[u] \notin {"queued", "absent", "lost"}
    <3>1. worker[u] = w
      BY DEF TaskStep, StartTask, CompleteTask, FailTask, CancelRunningTask
    <3> QED
      BY <3>1 DEF QueuedIsFree, TaskFollowsJob, VisibleTaskStatus
  <2>1. CASE StartTask(t, w)
    <3>1. Lifecycle!Begin(u)
      BY <2>1 DEF StartTask, Lifecycle!Begin
    <3> QED
      BY <3>1 DEF Lifecycle!LifeStep
  <2>2. CASE CompleteTask(t, w)
    <3>1. Lifecycle!Finish(u)
      BY <2>2 DEF CompleteTask, Lifecycle!Finish
    <3> QED
      BY <3>1 DEF Lifecycle!LifeStep
  <2>3. CASE CancelRunningTask(t, w)
    <3>1. Lifecycle!Withdraw(u)
      BY <2>0, <2>3 DEF CancelRunningTask, Lifecycle!Withdraw
    <3> QED
      BY <3>1 DEF Lifecycle!LifeStep
  <2>4. ASSUME NEW r \in BOOLEAN, FailTask(t, w, r) PROVE Lifecycle!LifeStep(u)
    <3>1. CASE r /\ MayRetry(t)
      <4>1. Lifecycle!Release(u)
        BY <2>0, <2>4, <3>1 DEF FailTask, MayRetry, Lifecycle!Release
      <4> QED
        BY <4>1 DEF Lifecycle!LifeStep
    <3>2. CASE ~(r /\ MayRetry(t))
      <4>1. Lifecycle!GiveUp(u)
        BY <2>0, <2>4, <3>2 DEF FailTask, Lifecycle!GiveUp
      <4> QED
        BY <4>1 DEF Lifecycle!LifeStep
    <3> QED
      BY <3>1, <3>2
  <2> QED
    BY <2>1, <2>2, <2>3, <2>4 DEF TaskStep
<1> QED
  BY <1>1, <1>2

LEMMA LifeStepKept ==
  ASSUME TableInv, QueueNext
  PROVE  Lifecycle!LifeNext
<1> SUFFICES ASSUME NEW u \in Tasks PROVE Lifecycle!LifeStep(u)
  BY DEF Lifecycle!LifeNext
<1>1. ASSUME NEW t \in Tasks, LeaseLapse(t) PROVE Lifecycle!LifeStep(u)
  BY <1>1, RestStep DEF LeaseLapse
<1>2. CASE MarkDeadWorkers
  BY <1>2, RestStep DEF MarkDeadWorkers, taskVars
<1>3. ASSUME NEW W \in SUBSET Workers, ReapTasksForWorkers(W) PROVE Lifecycle!LifeStep(u)
  BY <1>3, ResolveLostLife DEF ReapTasksForWorkers, TasksHeldBy
<1>4. CASE ReapExpiredLeases
  BY <1>4, ResolveLostLife DEF ReapExpiredLeases, ExpiredTasks
<1> QED
  BY <1>1, <1>2, <1>3, <1>4, JobLife, WorkerLife, ReportLife DEF QueueNext, ReaperStep

\* The database implements TaskLifecycle: whatever the order of method calls,
\* each task runs through numbered attempts, at most max_attempts of them, each
\* granted to one worker, and stays settled once it has settled.
THEOREM QueueImplementsLifecycle == QueueSpec => LifecycleKept
<1>1. QueueInit => Lifecycle!LifeInit
  BY DEF QueueInit, Lifecycle!LifeInit
<1>2. TableInv /\ [QueueNext]_queueVars => [Lifecycle!LifeNext]_(Lifecycle!lifeVars)
  BY LifeStepKept DEF queueVars, Lifecycle!lifeVars
<1> QED
  BY <1>1, <1>2, TableInvariant, PTL DEF QueueSpec, LifecycleKept, Lifecycle!LifeSpec

\* Cited by ClusterServerProofs: what has settled stays as it is.
LEMMA SettledTaskStays ==
  ASSUME TableInv, [QueueNext]_queueVars, NEW t \in Tasks, status[t] \in TaskTerminal
  PROVE  status'[t] = status[t]
<1>1. CASE QueueNext
  BY <1>1, LifeStepKept
  DEF TaskTerminal, InFlight, Lifecycle!LifeNext, Lifecycle!LifeStep, Lifecycle!Submit,
      Lifecycle!Grant, Lifecycle!Begin, Lifecycle!Finish, Lifecycle!Release, Lifecycle!GiveUp,
      Lifecycle!Withdraw, Lifecycle!Rest, Lifecycle!Moves, Lifecycle!InFlight
<1> QED
  BY <1>1 DEF queueVars

\* A job row is never deleted, and only set_job_status closes a job.
LEMMA JobRowStays ==
  ASSUME TableInv, [QueueNext]_queueVars, NEW j \in Jobs
  PROVE  /\ JobExists(j) => JobExists(j)'
         /\ jobStatus[j] \in JobTerminal => jobStatus'[j] = jobStatus[j]
<1> USE DEF TableInv, QueueTypeOK, JobExists, JobTerminal
<1> DEFINE Kept == /\ JobExists(j) => JobExists(j)'
                   /\ jobStatus[j] \in JobTerminal => jobStatus'[j] = jobStatus[j]
<1>1. ASSUME NEW i \in Jobs, JobStep(i) PROVE Kept
  BY <1>1 DEF JobStep, CreateJobWithTasks, CancelJobTasks, SetJobStatus, JobMay, JobStatus, jobVars
<1>2. ASSUME NEW w \in Workers, WorkerStep(w) PROVE Kept
  BY <1>2 DEF WorkerStep, RegisterWorker, HeartbeatWorker, FallSilent, LeaseTask,
              MaybeJobRunning, jobVars
<1>3. ASSUME NEW t \in Tasks, NEW w \in Workers, TaskStep(t, w) PROVE Kept
  BY <1>3 DEF TaskStep, StartTask, CompleteTask, FailTask, CancelRunningTask, jobVars
<1>4. CASE (\E t \in Tasks : LeaseLapse(t)) \/ ReaperStep
  BY <1>4 DEF LeaseLapse, ReaperStep, MarkDeadWorkers, ReapTasksForWorkers, ReapExpiredLeases,
              ResolveLost, jobVars
<1> QED
  BY <1>1, <1>2, <1>3, <1>4 DEF QueueNext, queueVars

=============================================================================
