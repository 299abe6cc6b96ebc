--------------------------- MODULE ClusterServer ---------------------------
(***************************************************************************)
(* The request handlers and the background reaper of server/app.py over    *)
(* the database of TaskQueue.  FastAPI runs the synchronous handlers in a  *)
(* thread pool and the reaper in the event loop, so between two database   *)
(* calls of one of them any other may run: each call is one action here,   *)
(* and a process carries what it read in a frame until it returns.         *)
(*                                                                         *)
(* Requests come from the environment at any time: clients cancel whenever *)
(* they like, and a worker may report a task that was taken from it.       *)
(***************************************************************************)
EXTENDS TaskQueue

CONSTANTS
  Handlers,     \* threads that serve multi-step requests
  Reaper,       \* the process of _reaper_loop
  MaxBusy,      \* processes in the middle of a request or iteration
  MaxCrashes,   \* bound on server restarts
  Metrics,      \* values of the rank_metric of a job, smaller is better
  NoMetric,     \* the worker reported no finite value
  Exports,      \* tasks whose run uploads a model artifact
  NoJob, NoTask

Procs == Handlers \cup {Reaper}

ASSUME ServerAssumption ==
  /\ Reaper \notin Handlers
  /\ MaxBusy \in Nat \ {0}
  /\ MaxCrashes \in Nat
  /\ Metrics \subseteq Int
  /\ NoMetric \notin Metrics
  /\ Exports \subseteq Tasks
  /\ NoJob \notin Jobs
  /\ NoTask \notin Tasks

\* JobRequest refuses empty lists of pipelines and of datasets, and a job comes
\* with one task for each pair.
ASSUME JobsHaveTasks == \A j \in Jobs : TasksOf(j) # {}

VARIABLES
  frame,        \* what each process is doing and what it has read
  result,       \* the rank metric in tasks.result_json
  bestLinks,    \* per job, the tasks of its job_artifacts rows with role best_model
  crashes       \* server restarts so far

serverVars == <<frame, result, bestLinks, crashes>>
allVars == <<queueVars, frame, result, bestLinks, crashes>>

-----------------------------------------------------------------------------
(* Frames                                                                  *)

Reports == {"complete", "fail", "failForGood"}

PC == {"idle", "cancelTasks", "cancelJob", "readJob", "report", "reapWorkers",
       "reapLeases", "aggregate", "clear", "link", "check", "verdict", "commit"}

\* flag is `still_running` in cancel_job and `cancelling` in the reports.
Frame == [pc: PC, job: Jobs \cup {NoJob}, task: Tasks \cup {NoTask},
          worker: Workers \cup {NoWorker}, report: Reports \cup {"none"},
          value: Metrics \cup {NoMetric}, flag: BOOLEAN,
          succeeded: BOOLEAN,              \* agg.num_succeeded > 0
          best: Tasks \cup {NoTask},       \* best task, if it has a model
          final: JobStatus \cup {"none"},  \* the verdict to commit
          dead: SUBSET Workers,            \* result of mark_dead_workers
          todo: SUBSET Jobs]               \* jobs still to finalize

Idle == [pc |-> "idle", job |-> NoJob, task |-> NoTask, worker |-> NoWorker,
         report |-> "none", value |-> NoMetric, flag |-> FALSE,
         succeeded |-> FALSE, best |-> NoTask, final |-> "none",
         dead |-> {}, todo |-> {}]

At(p, where) == frame[p].pc = where

Put(p, f) == frame' = [frame EXCEPT ![p] = f]

Free(p) ==
  /\ At(p, "idle")
  /\ Cardinality({q \in Procs : ~At(q, "idle")}) < MaxBusy

\* The frames in which a process finalizes the first of the jobs, or is done.
Finalizing(jobs) ==
  IF jobs = {} THEN {Idle}
  ELSE {[Idle EXCEPT !.pc = "aggregate", !.job = j, !.todo = jobs \ {j}] : j \in jobs}

FinalizeAll(p, jobs) == \E f \in Finalizing(jobs) : Put(p, f)

-----------------------------------------------------------------------------
(* Requests of one database call                                           *)

SubmitJob(j) == CreateJobWithTasks(j) /\ UNCHANGED serverVars

\* A fault to detect: a worker that returns gets its old row, with no slot used.
Register_SameId(w) ==
  /\ workerStatus' = [workerStatus EXCEPT ![w] = "alive"]
  /\ slotsUsed' = [slotsUsed EXCEPT ![w] = 0]
  /\ UNCHANGED <<silent, jobVars, taskVars, serverVars>>

Register(w) == RegisterWorker(w) /\ UNCHANGED serverVars

\* The reply lists the tasks to stop; it changes nothing at the server.
Heartbeat(w) == HeartbeatWorker(w) /\ UNCHANGED serverVars

Lease(w) == LeaseNextTask(w) /\ UNCHANGED serverVars

Start(t, w) == StartTask(t, w) /\ UNCHANGED serverVars

-----------------------------------------------------------------------------
(* POST /v1/jobs/{job_id}/cancel                                           *)

ReceiveCancel(p, j) ==
  /\ Free(p)
  /\ JobExists(j)
  /\ jobStatus[j] \notin JobTerminal
  /\ Put(p, [Idle EXCEPT !.pc = "cancelTasks", !.job = j])
  /\ UNCHANGED <<queueVars, result, bestLinks, crashes>>

CancelTasks(p) ==
  /\ At(p, "cancelTasks")
  /\ CancelJobTasks(frame[p].job)
  /\ Put(p, [frame[p] EXCEPT !.pc = "cancelJob",
                             !.flag = RunningTasks(frame[p].job) # {}])
  /\ UNCHANGED <<result, bestLinks, crashes>>

CancelTarget(p) == IF frame[p].flag THEN "cancelling" ELSE "cancelled"

\* set_job_status raises when another process got there first: the request
\* ends with status 500 and the job is not finalized.
CancelJob(p) ==
  LET j == frame[p].job
  IN  /\ At(p, "cancelJob")
      /\ \/ SetJobStatus(j, CancelTarget(p)) /\ FinalizeAll(p, {j})
         \/ /\ ~JobMay(jobStatus[j], CancelTarget(p))
            /\ Put(p, Idle)
            /\ UNCHANGED queueVars
      /\ UNCHANGED <<result, bestLinks, crashes>>

-----------------------------------------------------------------------------
(* POST /v1/tasks/{task_id}/complete and /fail                             *)

\* _require_task_reporter.  A report on a settled task is refused at a later
\* step without effect, so it is left out.
ReceiveReport(p, t, w, report, value) ==
  /\ Free(p)
  /\ Owns(w, t)
  /\ status[t] \notin TaskTerminal
  /\ Put(p, [Idle EXCEPT !.pc = "readJob", !.job = JobOf[t], !.task = t,
                         !.worker = w, !.report = report, !.value = value])
  /\ UNCHANGED <<queueVars, result, bestLinks, crashes>>

ReadJob(p) ==
  /\ At(p, "readJob")
  /\ Put(p, [frame[p] EXCEPT !.pc = "report", !.flag = Cancelled(frame[p].job)])
  /\ UNCHANGED <<queueVars, result, bestLinks, crashes>>

\* cancel_running_task does nothing for a worker that lost the task, and the
\* job is finalized all the same; it raises when the task has settled.
ReportCancelled(p) ==
  LET t == frame[p].task
      w == frame[p].worker
  IN  /\ At(p, "report")
      /\ frame[p].flag
      /\ \/ CancelRunningTask(t, w) /\ FinalizeAll(p, {frame[p].job})
         \/ ~Owns(w, t) /\ UNCHANGED queueVars /\ FinalizeAll(p, {frame[p].job})
         \/ /\ Owns(w, t)
            /\ ~TaskMay(status[t], "cancelled")
            /\ UNCHANGED queueVars
            /\ Put(p, Idle)
      /\ UNCHANGED <<result, bestLinks, crashes>>

\* A lost owner ends the request with 409, an illegal transition with 500.
ReportComplete(p) ==
  LET t == frame[p].task
      w == frame[p].worker
  IN  /\ At(p, "report")
      /\ ~frame[p].flag
      /\ frame[p].report = "complete"
      /\ \/ /\ CompleteTask(t, w)
            /\ result' = [result EXCEPT ![t] = frame[p].value]
            /\ FinalizeAll(p, {frame[p].job})
         \/ /\ ~(Owns(w, t) /\ TaskMay(status[t], "succeeded"))
            /\ Put(p, Idle)
            /\ UNCHANGED <<queueVars, result>>
      /\ UNCHANGED <<bestLinks, crashes>>

\* A lost owner ends the request as ignored, an illegal transition with 500.
ReportFail(p) ==
  LET t == frame[p].task
      w == frame[p].worker
  IN  /\ At(p, "report")
      /\ ~frame[p].flag
      /\ frame[p].report \in {"fail", "failForGood"}
      /\ \/ /\ FailTask(t, w, frame[p].report = "fail")
            /\ FinalizeAll(p, {frame[p].job})
         \/ /\ ~(Owns(w, t) /\ TaskMay(status[t], "failed"))
            /\ Put(p, Idle)
            /\ UNCHANGED queueVars
      /\ UNCHANGED <<result, bestLinks, crashes>>

-----------------------------------------------------------------------------
(* _reaper_loop                                                            *)

ReaperWake ==
  /\ Free(Reaper)
  /\ MarkDeadWorkers
  /\ Put(Reaper, [Idle EXCEPT !.pc = IF SilentWorkers = {} THEN "reapLeases"
                                                           ELSE "reapWorkers",
                              !.dead = SilentWorkers])
  /\ UNCHANGED <<result, bestLinks, crashes>>

ReapWorkers ==
  LET lost == TasksHeldBy(frame[Reaper].dead)
  IN  /\ At(Reaper, "reapWorkers")
      /\ ReapTasksForWorkers(frame[Reaper].dead)
      /\ Put(Reaper, [Idle EXCEPT !.pc = "reapLeases",
                                  !.todo = {JobOf[t] : t \in lost}])
      /\ UNCHANGED <<result, bestLinks, crashes>>

\* A fault to detect: the jobs of dead workers are forgotten when the expired
\* leases have been reaped.
ReapLeases_ForgetDead ==
  /\ At(Reaper, "reapLeases")
  /\ ReapExpiredLeases
  /\ FinalizeAll(Reaper, {JobOf[t] : t \in ExpiredTasks})
  /\ UNCHANGED <<result, bestLinks, crashes>>

ReapLeases ==
  /\ At(Reaper, "reapLeases")
  /\ ReapExpiredLeases
  /\ FinalizeAll(Reaper, frame[Reaper].todo \cup {JobOf[t] : t \in ExpiredTasks})
  /\ UNCHANGED <<result, bestLinks, crashes>>

-----------------------------------------------------------------------------
(* _finalize_job                                                           *)

Succeeded(j) == {t \in TasksOf(j) : status[t] = "succeeded"}

\* A fault to detect: the rank mode read the wrong way round.
BestTasks_Worst(j) ==
  {t \in Succeeded(j) : /\ result[t] # NoMetric
                        /\ \A u \in Succeeded(j) : result[u] # NoMetric => result[t] >= result[u]}

\* The best tasks of a job by _build_aggregate: ties go to the first in an
\* order SQL leaves open, and a task without a metric is never the best.
BestTasks(j) ==
  {t \in Succeeded(j) : /\ result[t] # NoMetric
                        /\ \A u \in Succeeded(j) : result[u] # NoMetric => result[t] =< result[u]}

\* The snapshot of the tasks from which verdict and best model are derived.
\* The result_json it stores is never read back and is left out.
Aggregate(p) ==
  LET j == frame[p].job
      candidates == IF BestTasks(j) = {} THEN {NoTask} ELSE BestTasks(j)
  IN  /\ At(p, "aggregate")
      /\ \E t \in candidates :
           Put(p, [frame[p] EXCEPT !.pc = "clear",
                                   !.best = IF t \in Exports THEN t ELSE NoTask,
                                   !.succeeded = Succeeded(j) # {}])
      /\ UNCHANGED <<queueVars, result, bestLinks, crashes>>

\* A fault to detect: the previous link is left standing.
ClearBest_Forgotten(p) ==
  /\ At(p, "clear")
  /\ Put(p, [frame[p] EXCEPT !.pc = IF frame[p].best = NoTask THEN "check" ELSE "link"])
  /\ UNCHANGED <<queueVars, result, bestLinks, crashes>>

ClearBest(p) ==
  /\ At(p, "clear")
  /\ bestLinks' = [bestLinks EXCEPT ![frame[p].job] = {}]
  /\ Put(p, [frame[p] EXCEPT !.pc = IF frame[p].best = NoTask THEN "check" ELSE "link"])
  /\ UNCHANGED <<queueVars, result, crashes>>

\* The rows are keyed by job, task and role: linking another task adds a row.
LinkBest(p) ==
  /\ At(p, "link")
  /\ bestLinks' = [bestLinks EXCEPT ![frame[p].job] = @ \cup {frame[p].best}]
  /\ Put(p, [frame[p] EXCEPT !.pc = "check", !.best = NoTask])
  /\ UNCHANGED <<queueVars, result, crashes>>

\* A fault to detect: "no task is in flight" taken for "every task is done".
AllTerminal_IgnoreQueued(j) == \A t \in TasksOf(j) : status[t] \notin InFlight

AllTerminal(j) == \A t \in TasksOf(j) : status[t] \in TaskTerminal

CheckTasks(p) ==
  /\ At(p, "check")
  /\ IF AllTerminal(frame[p].job)
     THEN Put(p, [frame[p] EXCEPT !.pc = "verdict"])
     ELSE FinalizeAll(p, frame[p].todo)
  /\ UNCHANGED <<queueVars, result, bestLinks, crashes>>

\* A fault to detect: a job whose tasks are over counts as a success.
Verdict_Optimist(j, succeeded) ==
  IF jobStatus[j] = "cancelling" THEN "cancelled" ELSE "succeeded"

\* A fault to detect: one failed task fails the job.
Verdict_AnyFailure(j, succeeded) ==
  IF jobStatus[j] = "cancelling" THEN "cancelled"
  ELSE IF \A t \in TasksOf(j) : status[t] = "succeeded" THEN "succeeded" ELSE "failed"

Verdict(j, succeeded) ==
  IF jobStatus[j] = "cancelling" THEN "cancelled"
  ELSE IF succeeded THEN "succeeded" ELSE "failed"

PickVerdict(p) ==
  /\ At(p, "verdict")
  /\ Put(p, [frame[p] EXCEPT !.pc = "commit", !.succeeded = FALSE,
                             !.final = Verdict(frame[p].job, frame[p].succeeded)])
  /\ UNCHANGED <<queueVars, result, bestLinks, crashes>>

\* try_set_job_status: whoever comes second changes nothing.
Commit(p) ==
  LET j == frame[p].job
  IN  /\ At(p, "commit")
      /\ \/ SetJobStatus(j, frame[p].final)
         \/ ~JobMay(jobStatus[j], frame[p].final) /\ UNCHANGED queueVars
      /\ FinalizeAll(p, frame[p].todo)
      /\ UNCHANGED <<result, bestLinks, crashes>>

-----------------------------------------------------------------------------
(* Environment                                                             *)

TimePasses ==
  /\ \/ \E t \in Tasks : LeaseLapse(t)
     \/ \E w \in Workers : FallSilent(w)
  /\ UNCHANGED serverVars

\* The server restarts on the same database; whatever was running is gone.
Restart ==
  /\ crashes < MaxCrashes
  /\ \E p \in Procs : ~At(p, "idle")
  /\ crashes' = crashes + 1
  /\ frame' = [p \in Procs |-> Idle]
  /\ UNCHANGED <<queueVars, result, bestLinks>>

-----------------------------------------------------------------------------
(* Specification                                                           *)

ServerInit ==
  /\ QueueInit
  /\ frame = [p \in Procs |-> Idle]
  /\ result = [t \in Tasks |-> NoMetric]
  /\ bestLinks = [j \in Jobs |-> {}]
  /\ crashes = 0

Finalize(p) ==
  Aggregate(p) \/ ClearBest(p) \/ LinkBest(p) \/ CheckTasks(p) \/ PickVerdict(p) \/ Commit(p)

\* What a process does on its own once it has begun.
Continue(p) ==
  \/ CancelTasks(p) \/ CancelJob(p)
  \/ ReadJob(p) \/ ReportCancelled(p) \/ ReportComplete(p) \/ ReportFail(p)
  \/ Finalize(p)

ReaperContinue == ReapWorkers \/ ReapLeases \/ Finalize(Reaper)

Request(p) ==
  \/ \E j \in Jobs : ReceiveCancel(p, j)
  \/ \E t \in Tasks, w \in Workers, value \in Metrics \cup {NoMetric} :
       ReceiveReport(p, t, w, "complete", value)
  \/ \E t \in Tasks, w \in Workers, report \in {"fail", "failForGood"} :
       ReceiveReport(p, t, w, report, NoMetric)

ServerNext ==
  \/ \E j \in Jobs : SubmitJob(j)
  \/ \E w \in Workers : Register(w) \/ Heartbeat(w) \/ Lease(w)
  \/ \E t \in Tasks, w \in Workers : Start(t, w)
  \/ \E p \in Handlers : Request(p) \/ Continue(p)
  \/ ReaperWake
  \/ ReaperContinue
  \/ TimePasses
  \/ Restart

ServerSpec == ServerInit /\ [][ServerNext]_allVars

\* A thread that has begun a request runs on; the reaper wakes again and again;
\* a lease that nobody renews runs out.
ServerFairness ==
  /\ \A p \in Handlers : WF_allVars(Continue(p))
  /\ WF_allVars(ReaperWake)
  /\ WF_allVars(ReaperContinue)
  /\ \A t \in Tasks : WF_allVars(worker[t] \in silent /\ LeaseLapse(t) /\ UNCHANGED serverVars)

FairServerSpec == ServerSpec /\ ServerFairness

-----------------------------------------------------------------------------
(* Properties                                                              *)

ServerTypeOK ==
  /\ QueueTypeOK
  /\ frame \in [Procs -> Frame]
  /\ result \in [Tasks -> Metrics \cup {NoMetric}]
  /\ bestLinks \in [Jobs -> SUBSET Tasks]
  /\ crashes \in 0..MaxCrashes

\* A job reported as over has no task that is queued, leased or running: no
\* interleaving of cancel, report and reaper leaves work behind a closed job.
ClosedJobHasNoLiveTask ==
  \A j \in Jobs : jobStatus[j] \in JobTerminal => AllTerminal(j)

\* A job is reported as succeeded only if one of its tasks did succeed.
SuccessIsEarned ==
  \A j \in Jobs : jobStatus[j] = "succeeded" => Succeeded(j) # {}

Attends(p, j) ==
  /\ ~At(p, "idle")
  /\ frame[p].job = j \/ j \in frame[p].todo

\* When the last task of a job has settled, the job is closed or some process
\* is still on its way to closing it: the process that settled the last task
\* never returns believing that another one will finalize.
NoJobLeftBehind ==
  \A j \in Jobs :
    (JobExists(j) /\ AllTerminal(j)) =>
      jobStatus[j] \in JobTerminal \/ \E p \in Procs : Attends(p, j)

\* A closed job never reopens and never changes its verdict: a second
\* finalizer or a late cancellation does not overwrite it.
ClosedJobIsFinal ==
  [][\A j \in Jobs : jobStatus[j] \in JobTerminal => jobStatus'[j] = jobStatus[j]]_allVars

\* The handlers use the database as TaskQueue describes it, so what is proved
\* of TaskQueue holds of the server.
UsesTheQueue == QueueInit /\ [][QueueNext]_queueVars

\* A job whose tasks have all settled is eventually closed, unless the server
\* restarts meanwhile: nothing looks for such jobs when it comes up.
SettledJobCloses ==
  \A j \in Jobs :
    (JobExists(j) /\ AllTerminal(j)) ~> (jobStatus[j] \in JobTerminal \/ crashes > 0)

\* PROTOTYPE_DESIGN.md 59, "Recovery after worker or server crash": the same
\* with restarts included.
SettledJobClosesAfterRestart ==
  \A j \in Jobs : (JobExists(j) /\ AllTerminal(j)) ~> jobStatus[j] \in JobTerminal

\* A worker that stays silent does not keep a task for ever: also when its
\* tasks were not reaped at the moment it was declared dead.
LostTaskIsTaken ==
  \A t \in Tasks, w \in Workers :
    (t \in InFlightTasks(w) /\ w \in silent)
      ~> (t \notin InFlightTasks(w) \/ w \notin silent)

\* app.py 945, "Re-read the freshest status to pick the right terminal state":
\* a job closed as failed has no task that succeeded.
FailedJobHasNoSuccess ==
  \A j \in Jobs : jobStatus[j] = "failed" => Succeeded(j) = {}

\* PROTOTYPE_DESIGN.md 536, "a canceled job is not restarted": no task of a
\* job being cancelled is leased to a worker.
CancelledJobNotRestarted ==
  [][\A t \in Tasks : attempt'[t] # attempt[t] => ~Cancelled(JobOf[t])]_allVars

\* app.py 936, "Keep exactly one job-level best_model link".
OneBestModelLink == \A j \in Jobs : Cardinality(bestLinks[j]) =< 1

\* The link of job j, if there is one, is to a model no other succeeded task of
\* the job beats; without one, no task has a metric or some best task no model.
BestLinked(j) ==
  LET ranked == {t \in Succeeded(j) : result[t] # NoMetric}
      best   == {t \in ranked : \A u \in ranked : result[t] =< result[u]}
  IN  \/ bestLinks[j] = {} /\ (best = {} \/ ~(best \subseteq Exports))
      \/ \E t \in best \cap Exports : bestLinks[j] = {t}

\* What app.py 936 and 945 promise of a closed job fails for one reason only:
\* a job that is closed as failed although a task succeeded, or with another
\* link than that to its best model, is closed while a second process is at
\* work on it.  No order of requests that do not overlap on the job goes wrong,
\* whatever happens to other jobs meanwhile and wherever a restart cuts in.
OnlyRacesCloseWrong ==
  [][\A j \in Jobs :
       (jobStatus'[j] # jobStatus[j] /\ jobStatus'[j] \in {"succeeded", "failed"}) =>
         \/ (jobStatus'[j] = "failed" => Succeeded(j) = {}) /\ BestLinked(j)
         \/ \E p, q \in Procs : p # q /\ Attends(p, j) /\ Attends(q, j)]_allVars

\* Job j is closed, or is being cancelled with nothing in its queue and no
\* report on its way that read the job before the cancellation.
Stopped(j) ==
  \/ jobStatus[j] \in JobTerminal
  \/ /\ jobStatus[j] = "cancelling"
     /\ \A t \in TasksOf(j) : status[t] # "queued"
     /\ \A p \in Procs : (At(p, "report") /\ frame[p].job = j) => frame[p].flag

\* Once the reports that overlapped the cancellation are answered, a cancelled
\* job stays stopped: no failure report, lapsed lease or dead worker queues one
\* of its tasks again.  And at no time is a task of a cancelled job leased that
\* no worker had before.
CancellationHolds ==
  [][\A j \in Jobs :
       /\ Stopped(j) => Stopped(j)' /\ \A t \in TasksOf(j) : attempt'[t] = attempt[t]
       /\ Cancelled(j) => \A t \in TasksOf(j) : attempt[t] = 0 => attempt'[t] = 0]_allVars

\* The processes that have cleared the links of job j to write one.
Linking(j) == {p \in Procs : At(p, "link") /\ frame[p].job = j}

\* A job has at most one best_model link for each request the server works on
\* at a time, and links only to the models of ranked successes: links do not
\* pile up over the finalizations of a job, also when a restart cuts one short.
LinksWithinRequests ==
  \A j \in Jobs :
    /\ Cardinality(bestLinks[j]) + Cardinality(Linking(j)) =< MaxBusy
    /\ \A t \in bestLinks[j] : t \in Succeeded(j) /\ t \in Exports /\ result[t] # NoMetric

=============================================================================
