----------------------------- MODULE TaskQueue -----------------------------
(***************************************************************************)
(* The mechanism half of the server (server/db.py): the jobs, tasks and    *)
(* workers tables and the methods of class Database that change them.      *)
(* Every method runs under one re-entrant lock and commits once, so it is  *)
(* one action here.  QueueNext calls the methods in any order; module      *)
(* ClusterServer restricts the order to that of the HTTP handlers.         *)
(*                                                                         *)
(* Time is abstracted: a lease is "current" until LeaseLapse makes it      *)
(* "expired", and a worker is in `silent` once its last heartbeat is older *)
(* than worker_dead_after_s.                                               *)
(***************************************************************************)
EXTENDS Integers, FiniteSets, Scheduler

CONSTANTS
  Jobs,          \* ids of the jobs that may be submitted
  Tasks,         \* ids of their tasks
  Workers,       \* ids that registration may hand out
  NoWorker,      \* NULL in the worker_id column
  JobOf,         \* the job_id column of a task
  Priority,      \* the priority of a job, copied to its tasks
  MaxAttempts,   \* the max_attempts of a job, copied to its tasks
  Slots,         \* the slots_total of a worker
  Matches        \* pairs <<w, t>> for which requirements_match holds

ASSUME QueueAssumption ==
  /\ IsFiniteSet(Jobs)
  /\ IsFiniteSet(Tasks)
  /\ NoWorker \notin Workers
  /\ JobOf \in [Tasks -> Jobs]
  /\ Priority \in [Jobs -> Int]
  /\ MaxAttempts \in [Jobs -> Nat \ {0}]
  /\ Slots \in [Workers -> Nat \ {0}]
  /\ Matches \subseteq Workers \X Tasks

VARIABLES
  jobStatus,     \* jobs.status, "absent" before the row is inserted
  createdAt,     \* jobs.created_at (its tasks share it): rank of submission
  status,        \* tasks.status, "absent" before the row is inserted
  attempt,       \* tasks.attempt
  worker,        \* tasks.worker_id
  lease,         \* tasks.lease_expires_at: "none", "current" or "expired"
  workerStatus,  \* workers.status, "absent" before registration
  silent,        \* workers whose last_seen_at is older than the cutoff
  slotsUsed      \* workers.slots_used, a cache of the in-flight count

jobVars    == <<jobStatus, createdAt>>
taskVars   == <<status, attempt, worker, lease>>
workerVars == <<workerStatus, silent, slotsUsed>>
queueVars  == <<jobStatus, createdAt, status, attempt, worker, lease,
                workerStatus, silent, slotsUsed>>

-----------------------------------------------------------------------------
(* Helpers                                                                 *)

TasksOf(j) == {t \in Tasks : JobOf[t] = j}

\* The rows _in_flight_count counts, for given columns of the task table.
HeldIn(w, st, wk) == {t \in Tasks : wk[t] = w /\ st[t] \in InFlight}

InFlightTasks(w) == HeldIn(w, status, worker)

JobLoad(j) == Cardinality({t \in TasksOf(j) : status[t] \in InFlight})

JobExists(j) == jobStatus[j] # "absent"

Registered(w) == workerStatus[w] # "absent"

Cancelled(j) == jobStatus[j] \in {"cancelling", "cancelled"}

\* A fault to detect: a method that moves tasks and leaves the cache alone.
SyncSlots_Forgotten(W, st, wk) == slotsUsed' = slotsUsed

\* _sync_slots for each worker of W once the task table has columns st and wk.
SyncSlots(W, st, wk) ==
  slotsUsed' = [w \in Workers |-> IF w \in W THEN Cardinality(HeldIn(w, st, wk))
                                             ELSE slotsUsed[w]]

\* The tasks get status column st and worker_id column wk, and the workers of
\* W a fresh slots_used.
WriteTasks(st, wk, W) ==
  /\ status' = st
  /\ worker' = wk
  /\ SyncSlots(W, st, wk)

-----------------------------------------------------------------------------
(* Jobs                                                                    *)

\* create_job_with_tasks: the job and all its tasks in one transaction.
CreateJobWithTasks(j) ==
  /\ ~JobExists(j)
  /\ jobStatus' = [jobStatus EXCEPT ![j] = "queued"]
  /\ createdAt' = [createdAt EXCEPT ![j] = 1 + Cardinality({i \in Jobs : JobExists(i)})]
  /\ status' = [t \in Tasks |-> IF JobOf[t] = j THEN "queued" ELSE status[t]]
  /\ UNCHANGED <<attempt, worker, lease, workerVars>>

\* A fault to detect: a status written without consulting JOB_TRANSITIONS.
SetJobStatus_Unchecked(j, s) ==
  /\ JobExists(j)
  /\ jobStatus' = [jobStatus EXCEPT ![j] = s]
  /\ UNCHANGED <<createdAt, taskVars, workerVars>>

\* set_job_status and try_set_job_status when the transition is legal; the
\* former raises and the latter returns False when it is not, and neither then
\* changes anything.
SetJobStatus(j, s) ==
  /\ JobExists(j)
  /\ JobMay(jobStatus[j], s)
  /\ jobStatus' = [jobStatus EXCEPT ![j] = s]
  /\ UNCHANGED <<createdAt, taskVars, workerVars>>

-----------------------------------------------------------------------------
(* Leasing                                                                 *)

Candidates(w) == {t \in Tasks : status[t] = "queued" /\ <<w, t>> \in Matches}

\* The ORDER BY of lease_next_task.  Its last key, the random task id, only
\* breaks ties between tasks of one job and is left open.
RanksBefore(t, u) ==
  LET i == JobOf[t]
      j == JobOf[u]
  IN  \/ Priority[i] > Priority[j]
      \/ Priority[i] = Priority[j] /\ JobLoad(i) < JobLoad(j)
      \/ /\ Priority[i] = Priority[j]
         /\ JobLoad(i) = JobLoad(j)
         /\ createdAt[i] < createdAt[j]

\* A fault to detect: an off-by-one in the slot check.
HasFreeSlot_OffByOne(w) == Cardinality(InFlightTasks(w)) =< Slots[w]

HasFreeSlot(w) == Cardinality(InFlightTasks(w)) < Slots[w]

\* A fault to detect: the lease leaves the job "queued".
MaybeJobRunning_Forgotten(j) == jobStatus' = jobStatus

\* _maybe_job_running
MaybeJobRunning(j) ==
  jobStatus' = [jobStatus EXCEPT ![j] = IF @ = "queued" THEN "running" ELSE @]

\* One round of lease_next_task that hands out t.
LeaseTask(w, t) ==
  /\ workerStatus[w] = "alive"
  /\ HasFreeSlot(w)
  /\ t \in Candidates(w)
  /\ \A u \in Candidates(w) : ~RanksBefore(u, t)
  /\ TaskMay(status[t], "leased")
  /\ WriteTasks([status EXCEPT ![t] = "leased"], [worker EXCEPT ![t] = w], {w})
  /\ lease' = [lease EXCEPT ![t] = "current"]
  /\ attempt' = [attempt EXCEPT ![t] = @ + 1]
  /\ MaybeJobRunning(JobOf[t])
  /\ UNCHANGED <<createdAt, workerStatus, silent>>

LeaseNextTask(w) == \E t \in Tasks : LeaseTask(w, t)

-----------------------------------------------------------------------------
(* Reports of the worker that holds the task                               *)

Owns(w, t) == worker[t] = w

\* A fault to detect: the lease is dropped once the task has started.
StartTask_DropLease(t, w) ==
  /\ Owns(w, t)
  /\ TaskMay(status[t], "running")
  /\ status' = [status EXCEPT ![t] = "running"]
  /\ lease' = [lease EXCEPT ![t] = "none"]
  /\ UNCHANGED <<attempt, worker, jobVars, workerVars>>

StartTask(t, w) ==
  /\ Owns(w, t)
  /\ TaskMay(status[t], "running")
  /\ status' = [status EXCEPT ![t] = "running"]
  /\ UNCHANGED <<attempt, worker, lease, jobVars, workerVars>>

CompleteTask(t, w) ==
  /\ Owns(w, t)
  /\ TaskMay(status[t], "succeeded")
  /\ WriteTasks([status EXCEPT ![t] = "succeeded"], worker, {w})
  /\ UNCHANGED <<attempt, lease, jobVars, workerStatus, silent>>

\* A fault to detect: the retry budget counted from zero.
MayRetry_OffByOne(t) == attempt[t] =< MaxAttempts[JobOf[t]]

MayRetry(t) == attempt[t] < MaxAttempts[JobOf[t]]

\* A fault to detect: a retried task keeps the worker that failed.
FailTask_KeepWorker(t, w, retriable) ==
  LET requeued == retriable /\ MayRetry(t)
  IN  /\ Owns(w, t)
      /\ TaskMay(status[t], "failed")
      /\ WriteTasks([status EXCEPT ![t] = IF requeued THEN "queued" ELSE "failed"],
                    worker, {w})
      /\ lease' = [lease EXCEPT ![t] = IF requeued THEN "none" ELSE @]
      /\ UNCHANGED <<attempt, jobVars, workerStatus, silent>>

\* fail_task: through "failed", and from there back to "queued" when the
\* failure is retriable and attempts remain.
FailTask(t, w, retriable) ==
  LET requeued == retriable /\ MayRetry(t)
  IN  /\ Owns(w, t)
      /\ TaskMay(status[t], "failed")
      /\ requeued => TaskMay("failed", "queued")
      /\ WriteTasks([status EXCEPT ![t] = IF requeued THEN "queued" ELSE "failed"],
                    [worker EXCEPT ![t] = IF requeued THEN NoWorker ELSE @],
                    {w})
      /\ lease' = [lease EXCEPT ![t] = IF requeued THEN "none" ELSE @]
      /\ UNCHANGED <<attempt, jobVars, workerStatus, silent>>

\* cancel_running_task by the owner; it returns None for anyone else.
CancelRunningTask(t, w) ==
  /\ Owns(w, t)
  /\ TaskMay(status[t], "cancelled")
  /\ WriteTasks([status EXCEPT ![t] = "cancelled"], worker, {w})
  /\ UNCHANGED <<attempt, lease, jobVars, workerStatus, silent>>

-----------------------------------------------------------------------------
(* Lost tasks                                                              *)

\* A fault to detect: a lost task is retried without a look at its job.
LostOutcome_RequeueFirst(t) ==
  IF MayRetry(t) THEN "queued"
  ELSE IF Cancelled(JobOf[t]) THEN "cancelled" ELSE "failed"

\* Where _resolve_lost_task takes a task from "lost".
LostOutcome(t) ==
  IF Cancelled(JobOf[t]) THEN "cancelled"
  ELSE IF MayRetry(t) THEN "queued" ELSE "failed"

\* A fault to detect: lost tasks are marked and not resolved.
ResolveLost_MarkOnly(L) ==
  /\ status' = [t \in Tasks |-> IF t \in L THEN "lost" ELSE status[t]]
  /\ UNCHANGED <<attempt, worker, lease, jobVars, workerVars>>

\* _resolve_lost_task for each task of L; only a task that fails keeps its
\* worker and lease.
ResolveLost(L) ==
  LET released == {t \in L : LostOutcome(t) # "failed"}
  IN  /\ \A t \in L : TaskMay(status[t], "lost") /\ TaskMay("lost", LostOutcome(t))
      /\ WriteTasks([t \in Tasks |-> IF t \in L THEN LostOutcome(t) ELSE status[t]],
                    [t \in Tasks |-> IF t \in released THEN NoWorker ELSE worker[t]],
                    {worker[t] : t \in L})
      /\ lease' = [t \in Tasks |-> IF t \in released THEN "none" ELSE lease[t]]
      /\ UNCHANGED <<attempt, jobVars, workerStatus, silent>>

\* A fault to detect: only tasks that were never started expire.
ExpiredTasks_LeasedOnly == {t \in Tasks : status[t] = "leased" /\ lease[t] = "expired"}

ExpiredTasks == {t \in Tasks : status[t] \in InFlight /\ lease[t] = "expired"}

TasksHeldBy(W) == {t \in Tasks : worker[t] \in W /\ status[t] \in InFlight}

ReapExpiredLeases == ResolveLost(ExpiredTasks)

ReapTasksForWorkers(W) == ResolveLost(TasksHeldBy(W))

-----------------------------------------------------------------------------
(* Cancellation                                                            *)

RunningTasks(j) == {t \in TasksOf(j) : status[t] = "running"}

\* cancel_job_tasks: what has not started is cancelled at once; the running
\* tasks are returned to the caller and left alone.
CancelJobTasks(j) ==
  LET stopped == {t \in TasksOf(j) : status[t] \in {"queued", "leased"}}
  IN  /\ \A t \in stopped : TaskMay(status[t], "cancelled")
      /\ WriteTasks([t \in Tasks |-> IF t \in stopped THEN "cancelled" ELSE status[t]],
                    [t \in Tasks |-> IF t \in stopped THEN NoWorker ELSE worker[t]],
                    {worker[t] : t \in stopped})
      /\ lease' = [t \in Tasks |-> IF t \in stopped THEN "none" ELSE lease[t]]
      /\ UNCHANGED <<attempt, jobVars, workerStatus, silent>>

-----------------------------------------------------------------------------
(* Workers                                                                 *)

\* register_worker: a fresh id each time, even for a worker that returns.
RegisterWorker(w) ==
  /\ ~Registered(w)
  /\ workerStatus' = [workerStatus EXCEPT ![w] = "alive"]
  /\ slotsUsed' = [slotsUsed EXCEPT ![w] = 0]
  /\ UNCHANGED <<silent, jobVars, taskVars>>

\* heartbeat_worker: alive again, and every lease it holds is renewed.
HeartbeatWorker(w) ==
  /\ Registered(w)
  /\ workerStatus' = [workerStatus EXCEPT ![w] = "alive"]
  /\ silent' = silent \ {w}
  /\ lease' = [t \in Tasks |-> IF t \in InFlightTasks(w) THEN "current" ELSE lease[t]]
  /\ UNCHANGED <<status, attempt, worker, slotsUsed, jobVars>>

SilentWorkers == {w \in silent : workerStatus[w] = "alive"}

\* mark_dead_workers touches no task: ReapTasksForWorkers does.
MarkDeadWorkers ==
  /\ workerStatus' = [w \in Workers |-> IF w \in SilentWorkers THEN "dead"
                                                           ELSE workerStatus[w]]
  /\ UNCHANGED <<silent, slotsUsed, jobVars, taskVars>>

\* Time passes: the lease of a task that nobody renewed runs out.
LeaseLapse(t) ==
  /\ status[t] \in InFlight
  /\ lease[t] = "current"
  /\ lease' = [lease EXCEPT ![t] = "expired"]
  /\ UNCHANGED <<status, attempt, worker, jobVars, workerVars>>

\* Time passes: a worker has sent no heartbeat for worker_dead_after_s.
FallSilent(w) ==
  /\ Registered(w)
  /\ w \notin silent
  /\ silent' = silent \cup {w}
  /\ UNCHANGED <<workerStatus, slotsUsed, jobVars, taskVars>>

-----------------------------------------------------------------------------
(* Specification                                                           *)

QueueInit ==
  /\ jobStatus = [j \in Jobs |-> "absent"]
  /\ createdAt = [j \in Jobs |-> 0]
  /\ status = [t \in Tasks |-> "absent"]
  /\ attempt = [t \in Tasks |-> 0]
  /\ worker = [t \in Tasks |-> NoWorker]
  /\ lease = [t \in Tasks |-> "none"]
  /\ workerStatus = [w \in Workers |-> "absent"]
  /\ silent = {}
  /\ slotsUsed = [w \in Workers |-> 0]

JobStep(j) ==
  \/ CreateJobWithTasks(j)
  \/ CancelJobTasks(j)
  \/ \E s \in JobTerminal \cup {"cancelling"} : SetJobStatus(j, s)

WorkerStep(w) ==
  \/ RegisterWorker(w)
  \/ HeartbeatWorker(w)
  \/ FallSilent(w)
  \/ \E t \in Tasks : LeaseTask(w, t)

TaskStep(t, w) ==
  \/ StartTask(t, w)
  \/ CompleteTask(t, w)
  \/ \E retriable \in BOOLEAN : FailTask(t, w, retriable)
  \/ CancelRunningTask(t, w)

ReaperStep ==
  \/ MarkDeadWorkers
  \/ \E W \in SUBSET Workers : ReapTasksForWorkers(W)
  \/ ReapExpiredLeases

QueueNext ==
  \/ \E j \in Jobs : JobStep(j)
  \/ \E w \in Workers : WorkerStep(w)
  \/ \E t \in Tasks, w \in Workers : TaskStep(t, w)
  \/ \E t \in Tasks : LeaseLapse(t)
  \/ ReaperStep

QueueSpec == QueueInit /\ [][QueueNext]_queueVars

-----------------------------------------------------------------------------
(* Properties                                                              *)

\* The columns hold values of their domains; a task is never seen "lost",
\* which exists only inside the transaction of _resolve_lost_task.
QueueTypeOK ==
  /\ jobStatus \in [Jobs -> JobStatus \cup {"absent"}]
  /\ createdAt \in [Jobs -> Nat]
  /\ status \in [Tasks -> VisibleTaskStatus \cup {"absent"}]
  /\ attempt \in [Tasks -> Nat]
  /\ worker \in [Tasks -> Workers \cup {NoWorker}]
  /\ lease \in [Tasks -> {"none", "current", "expired"}]
  /\ workerStatus \in [Workers -> {"absent", "alive", "dead"}]
  /\ silent \subseteq Workers
  /\ slotsUsed \in [Workers -> Nat]

\* A leased or running task has a registered owner and a lease that the reaper
\* will one day find expired (reap_expired_leases skips a NULL lease), so no
\* in-flight task is beyond recovery.
InFlightIsRecoverable ==
  \A t \in Tasks : status[t] \in InFlight =>
    /\ worker[t] \in Workers
    /\ Registered(worker[t])
    /\ lease[t] # "none"

\* A queued task belongs to nobody, so no stale report passes the owner check
\* of the report methods, and it has an attempt left, so leasing it keeps
\* within max_attempts.
QueuedIsFree ==
  \A t \in Tasks : status[t] = "queued" =>
    /\ worker[t] = NoWorker
    /\ lease[t] = "none"
    /\ MayRetry(t)

\* No task is granted more attempts than its job allows, however its attempts
\* end: failure reports, lapsed leases, dead workers.
AttemptsBounded == \A t \in Tasks : attempt[t] =< MaxAttempts[JobOf[t]]

\* lease_next_task never gives a worker more tasks than it has slots, also
\* after its tasks were reaped and it came back.
NoOverbooking == \A w \in Workers : Cardinality(InFlightTasks(w)) =< Slots[w]

\* The slots_used cache equals the count it caches after every method: no
\* method that moves a task in or out of flight forgets to refresh it.
SlotsCacheExact == \A w \in Workers : slotsUsed[w] = Cardinality(InFlightTasks(w))

\* A job still "queued" has never had a task leased: the first lease moves
\* the job to "running" in the same transaction.
QueuedJobIsUntouched ==
  \A t \in Tasks : jobStatus[JobOf[t]] = "queued" =>
    attempt[t] = 0 /\ status[t] \in {"queued", "cancelled"}

\* The promise of TaskLifecycle, read off the columns of the task table.
Lifecycle == INSTANCE TaskLifecycle
  WITH phase <- status, attempts <- attempt, holder <- worker,
       MaxOf <- [t \in Tasks |-> MaxAttempts[JobOf[t]]]

\* Under every order of method calls the database implements TaskLifecycle:
\* numbered attempts, one holder each, within max_attempts, settled for good.
LifecycleKept == Lifecycle!LifeSpec

=============================================================================
