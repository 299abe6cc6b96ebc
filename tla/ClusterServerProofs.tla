------------------------ MODULE ClusterServerProofs ------------------------
(***************************************************************************)
(* Theorems about ClusterServer, for any numbers of jobs, tasks, workers,  *)
(* threads and restarts: the handlers keep to the database methods, so     *)
(* what TaskQueueProofs shows holds of the server.                         *)
(***************************************************************************)
EXTENDS ClusterServer, TaskQueueProofs

USE QueueAssumption, ServerAssumption

-----------------------------------------------------------------------------
(* Steps                                                                   *)

\* A step that no process takes.
QuietStep ==
  \/ \E j \in Jobs : SubmitJob(j)
  \/ \E w \in Workers : Register(w) \/ Heartbeat(w) \/ Lease(w)
  \/ \E t \in Tasks, w \in Workers : Start(t, w)
  \/ TimePasses
  \/ UNCHANGED allVars

\* A step of process p.
ActorStep(p) ==
  \/ Request(p) \/ Continue(p)
  \/ p = Reaper /\ (ReaperWake \/ ReapWorkers \/ ReapLeases)

LEMMA StepKinds ==
  ASSUME [ServerNext]_allVars
  PROVE  QuietStep \/ Restart \/ \E p \in Procs : ActorStep(p)
BY DEF ServerNext, QuietStep, ActorStep, Continue, ReaperContinue, Procs

LEMMA QuietFrames ==
  ASSUME QuietStep
  PROVE  UNCHANGED serverVars
BY DEF QuietStep, SubmitJob, Register, Heartbeat, Lease, Start, TimePasses, serverVars, allVars

LEMMA ActorPuts ==
  ASSUME NEW p \in Procs, ActorStep(p)
  PROVE  /\ Free(p) \/ frame[p].pc # "idle"
         /\ \E g : Put(p, g)
<1>1. CASE Request(p)
  BY <1>1 DEF Request, ReceiveCancel, ReceiveReport
<1>2. CASE Continue(p)
  BY <1>2
  DEF Continue, CancelTasks, CancelJob, ReadJob, ReportCancelled, ReportComplete, ReportFail,
      Finalize, Aggregate, ClearBest, LinkBest, CheckTasks, PickVerdict, Commit, At, FinalizeAll
<1>3. CASE p = Reaper /\ (ReaperWake \/ ReapWorkers \/ ReapLeases)
  BY <1>3 DEF ReaperWake, ReapWorkers, ReapLeases, At, FinalizeAll
<1> QED
  BY <1>1, <1>2, <1>3 DEF ActorStep

-----------------------------------------------------------------------------
(* Frames                                                                  *)

\* What a process knows by the step it has reached.
Informed(f) ==
  /\ f.pc \notin {"idle", "reapWorkers", "reapLeases"} => f.job \in Jobs
  /\ f.pc \in {"readJob", "report"} => f.task \in Tasks /\ f.worker \in Workers
  /\ f.pc = "commit" => f.final \in JobTerminal
  /\ f.pc = "link" => f.best \in Tasks

FramesOK ==
  /\ frame \in [Procs -> Frame]
  /\ \A p \in Procs : Informed(frame[p])

LEMMA IdleIsGood == Idle \in Frame /\ Informed(Idle)
<1>1. Idle \in Frame
  BY DEF Idle, Frame, PC
<1> QED
  BY <1>1 DEF Idle, Informed

\* Whatever jobs are left to finalize, the process knows its next one.
LEMMA FinalizingIsGood ==
  ASSUME NEW jobs \in SUBSET Jobs, NEW f \in Finalizing(jobs)
  PROVE  f \in Frame /\ Informed(f)
<1>1. CASE jobs = {}
  BY <1>1, IdleIsGood DEF Finalizing
<1>2. CASE jobs # {}
  <2>1. PICK j \in jobs : f = [Idle EXCEPT !.pc = "aggregate", !.job = j, !.todo = jobs \ {j}]
    BY <1>2 DEF Finalizing
  <2>2. f \in Frame
    BY <2>1 DEF Idle, Frame, PC
  <2>3. f.pc = "aggregate" /\ f.job = j
    BY <2>1 DEF Idle
  <2> QED
    BY <2>2, <2>3 DEF Informed
<1> QED
  BY <1>1, <1>2

LEMMA PutGood ==
  ASSUME FramesOK, NEW p \in Procs, NEW f \in Frame, Informed(f), Put(p, f)
  PROVE  FramesOK'
<1>1. \A q \in Procs : frame'[q] = IF q = p THEN f ELSE frame[q]
  BY DEF FramesOK, Put
<1>2. frame' \in [Procs -> Frame]
  BY DEF FramesOK, Put
<1> QED
  BY <1>1, <1>2 DEF FramesOK, Informed

LEMMA FinalizeAllGood ==
  ASSUME FramesOK, NEW p \in Procs, NEW jobs \in SUBSET Jobs, FinalizeAll(p, jobs)
  PROVE  FramesOK'
<1>1. PICK f \in Finalizing(jobs) : Put(p, f)
  BY DEF FinalizeAll
<1> QED
  BY <1>1, FinalizingIsGood, PutGood

LEMMA CancelFrames ==
  ASSUME FramesOK, NEW p \in Procs, CancelTasks(p) \/ CancelJob(p)
  PROVE  FramesOK'
<1> DEFINE f == frame[p]
<1>1. f \in Frame /\ Informed(f)
  BY DEF FramesOK
<1>2. CASE CancelTasks(p)
  <2> DEFINE b == RunningTasks(f.job) # {}
             g == [f EXCEPT !.pc = "cancelJob", !.flag = b]
  <2>0. b \in BOOLEAN
    OBVIOUS
  <2> HIDE DEF b
  <2>1. g \in Frame
    BY <1>1, <2>0 DEF Frame, PC
  <2>3. f.job \in Jobs /\ g.pc = "cancelJob" /\ g.job = f.job
    BY <1>1, <1>2 DEF CancelTasks, At, Informed, Frame
  <2>2. Put(p, g)
    BY <1>2 DEF CancelTasks, b
  <2>4. Informed(g)
    BY <2>3 DEF Informed
  <2> QED
    BY <2>1, <2>2, <2>4, PutGood
<1>3. CASE CancelJob(p)
  <2>1. {f.job} \in SUBSET Jobs
    BY <1>1, <1>3 DEF CancelJob, At, Informed
  <2> QED
    BY <1>3, <2>1, FinalizeAllGood, PutGood, IdleIsGood DEF CancelJob
<1> QED
  BY <1>2, <1>3

LEMMA ReportFrames ==
  ASSUME FramesOK, NEW p \in Procs,
         ReadJob(p) \/ ReportCancelled(p) \/ ReportComplete(p) \/ ReportFail(p)
  PROVE  FramesOK'
<1> DEFINE f == frame[p]
<1>1. f \in Frame /\ Informed(f)
  BY DEF FramesOK
<1>2. CASE ReadJob(p)
  <2> DEFINE b == Cancelled(f.job)
             g == [f EXCEPT !.pc = "report", !.flag = b]
  <2>0. b \in BOOLEAN
    BY DEF Cancelled
  <2> HIDE DEF b
  <2>1. g \in Frame
    BY <1>1, <2>0 DEF Frame, PC
  <2>3. /\ f.job \in Jobs /\ f.task \in Tasks /\ f.worker \in Workers
        /\ g.pc = "report" /\ g.job = f.job /\ g.task = f.task /\ g.worker = f.worker
    BY <1>1, <1>2 DEF ReadJob, At, Informed, Frame
  <2>2. Put(p, g)
    BY <1>2 DEF ReadJob, b
  <2>4. Informed(g)
    BY <2>3 DEF Informed
  <2> QED
    BY <2>1, <2>2, <2>4, PutGood
<1>3. CASE ReportCancelled(p) \/ ReportComplete(p) \/ ReportFail(p)
  <2>1. {f.job} \in SUBSET Jobs
    BY <1>1, <1>3 DEF ReportCancelled, ReportComplete, ReportFail, At, Informed
  <2> QED
    BY <1>3, <2>1, FinalizeAllGood, PutGood, IdleIsGood
    DEF ReportCancelled, ReportComplete, ReportFail
<1> QED
  BY <1>2, <1>3

LEMMA FinalizeFrames ==
  ASSUME FramesOK, NEW p \in Procs, Finalize(p)
  PROVE  FramesOK'
<1> DEFINE f == frame[p]
<1>1. f \in Frame /\ Informed(f) /\ f.todo \in SUBSET Jobs
  BY DEF FramesOK, Frame
<1>2. f.pc # "idle" /\ f.job \in Jobs
  BY <1>1 DEF Finalize, Aggregate, ClearBest, LinkBest, CheckTasks, PickVerdict, Commit, At,
              Informed
<1>3. CASE Aggregate(p)
  <2>1. PICK t \in Tasks \cup {NoTask} :
          Put(p, [f EXCEPT !.pc = "clear", !.best = IF t \in Exports THEN t ELSE NoTask,
                           !.succeeded = Succeeded(f.job) # {}])
    BY <1>3 DEF Aggregate, BestTasks, Succeeded, TasksOf
  <2> DEFINE b == Succeeded(f.job) # {}
             u == IF t \in Exports THEN t ELSE NoTask
             g == [f EXCEPT !.pc = "clear", !.best = u, !.succeeded = b]
  <2>0. b \in BOOLEAN /\ u \in Tasks \cup {NoTask}
    OBVIOUS
  <2>5. Put(p, g)
    BY <2>1
  <2> HIDE DEF b, u
  <2>2. g \in Frame
    BY <1>1, <2>0 DEF Frame, PC
  <2>3. g.pc = "clear" /\ g.job = f.job
    BY <1>1 DEF Frame
  <2>4. Informed(g)
    BY <1>2, <2>3 DEF Informed
  <2> QED
    BY <2>2, <2>4, <2>5, PutGood
<1>4. CASE ClearBest(p)
  <2> DEFINE g == [f EXCEPT !.pc = IF f.best = NoTask THEN "check" ELSE "link"]
  <2>1. g \in Frame
    BY <1>1 DEF Frame, PC
  <2>2. /\ g.pc = IF f.best = NoTask THEN "check" ELSE "link"
        /\ g.job = f.job /\ g.best = f.best /\ f.best \in Tasks \cup {NoTask}
    BY <1>1 DEF Frame
  <2>3. Informed(g)
    BY <1>2, <2>2 DEF Informed
  <2>4. Put(p, g)
    BY <1>4 DEF ClearBest
  <2> QED
    BY <2>1, <2>3, <2>4, PutGood
<1>5. CASE LinkBest(p)
  <2> DEFINE g == [f EXCEPT !.pc = "check", !.best = NoTask]
  <2>1. g \in Frame /\ g.pc = "check" /\ g.job = f.job
    BY <1>1 DEF Frame, PC
  <2>2. Informed(g)
    BY <1>2, <2>1 DEF Informed
  <2>3. Put(p, g)
    BY <1>5 DEF LinkBest
  <2> QED
    BY <2>1, <2>2, <2>3, PutGood
<1>6. CASE CheckTasks(p)
  <2> DEFINE g == [f EXCEPT !.pc = "verdict"]
  <2>1. g \in Frame /\ g.pc = "verdict" /\ g.job = f.job
    BY <1>1 DEF Frame, PC
  <2>2. Informed(g)
    BY <1>2, <2>1 DEF Informed
  <2>3. Put(p, g) \/ FinalizeAll(p, f.todo)
    BY <1>6 DEF CheckTasks
  <2> QED
    BY <1>1, <2>1, <2>2, <2>3, PutGood, FinalizeAllGood
<1>7. CASE PickVerdict(p)
  <2> DEFINE v == Verdict(f.job, f.succeeded)
             g == [f EXCEPT !.pc = "commit", !.succeeded = FALSE, !.final = v]
  <2>1. v \in JobTerminal /\ v \in JobStatus
    BY DEF Verdict, JobTerminal, JobStatus
  <2> HIDE DEF v
  <2>2. g \in Frame
    BY <1>1, <2>1 DEF Frame, PC
  <2>3. g.pc = "commit" /\ g.job = f.job /\ g.final = v
    BY <1>1 DEF Frame
  <2>4. Informed(g)
    BY <1>2, <2>1, <2>3 DEF Informed
  <2>5. Put(p, g)
    BY <1>7 DEF PickVerdict, v
  <2> QED
    BY <2>2, <2>4, <2>5, PutGood
<1>8. CASE Commit(p)
  BY <1>1, <1>8, FinalizeAllGood DEF Commit
<1> QED
  BY <1>3, <1>4, <1>5, <1>6, <1>7, <1>8 DEF Finalize

LEMMA ReaperFrames ==
  ASSUME QueueTypeOK, FramesOK, ReaperWake \/ ReapWorkers \/ ReapLeases
  PROVE  FramesOK'
<1> DEFINE f == frame[Reaper]
<1>1. Reaper \in Procs
  BY DEF Procs
<1>2. f \in Frame /\ f.todo \in SUBSET Jobs
  BY <1>1 DEF FramesOK, Frame
<1>3. CASE ReaperWake
  <2> DEFINE g == [Idle EXCEPT !.pc = IF SilentWorkers = {} THEN "reapLeases" ELSE "reapWorkers",
                               !.dead = SilentWorkers]
  <2>1. SilentWorkers \in SUBSET Workers
    BY DEF SilentWorkers, QueueTypeOK
  <2>2. g \in Frame
    BY <2>1 DEF Idle, Frame, PC
  <2>3. g.pc \in {"reapLeases", "reapWorkers"}
    BY DEF Idle
  <2>4. Put(Reaper, g)
    BY <1>3 DEF ReaperWake
  <2> QED
    BY <1>1, <2>2, <2>3, <2>4, PutGood DEF Informed
<1>4. CASE ReapWorkers
  <2> DEFINE jobs == {JobOf[t] : t \in TasksHeldBy(f.dead)}
             g == [Idle EXCEPT !.pc = "reapLeases", !.todo = jobs]
  <2>0. jobs \in SUBSET Jobs
    BY DEF TasksHeldBy
  <2> HIDE DEF jobs
  <2>1. g \in Frame
    BY <2>0 DEF Idle, Frame, PC
  <2>2. g.pc = "reapLeases"
    BY DEF Idle
  <2>3. Put(Reaper, g)
    BY <1>4 DEF ReapWorkers, jobs
  <2> QED
    BY <1>1, <2>1, <2>2, <2>3, PutGood DEF Informed
<1>5. CASE ReapLeases
  <2>1. f.todo \cup {JobOf[t] : t \in ExpiredTasks} \in SUBSET Jobs
    BY <1>2 DEF ExpiredTasks
  <2> QED
    BY <1>1, <1>5, <2>1, FinalizeAllGood DEF ReapLeases
<1> QED
  BY <1>3, <1>4, <1>5

LEMMA RequestFrames ==
  ASSUME FramesOK, NEW p \in Procs, Request(p)
  PROVE  FramesOK'
<1>1. ASSUME NEW j \in Jobs, ReceiveCancel(p, j) PROVE FramesOK'
  <2> DEFINE g == [Idle EXCEPT !.pc = "cancelTasks", !.job = j]
  <2>1. g \in Frame /\ g.pc = "cancelTasks" /\ g.job = j
    BY DEF Idle, Frame, PC
  <2>2. Put(p, g)
    BY <1>1 DEF ReceiveCancel
  <2> QED
    BY <2>1, <2>2, PutGood DEF Informed
<1>2. ASSUME NEW t \in Tasks, NEW w \in Workers, NEW r \in Reports,
             NEW v \in Metrics \cup {NoMetric}, ReceiveReport(p, t, w, r, v)
      PROVE FramesOK'
  <2> DEFINE g == [Idle EXCEPT !.pc = "readJob", !.job = JobOf[t], !.task = t,
                               !.worker = w, !.report = r, !.value = v]
  <2>1. g \in Frame
    BY DEF Idle, Frame, PC
  <2>2. g.pc = "readJob" /\ g.job = JobOf[t] /\ g.task = t /\ g.worker = w /\ JobOf[t] \in Jobs
    BY DEF Idle
  <2>3. Put(p, g)
    BY <1>2 DEF ReceiveReport
  <2> HIDE DEF g
  <2> QED
    BY <2>1, <2>2, <2>3, PutGood DEF Informed
<1>3. {"complete", "fail", "failForGood"} = Reports /\ NoMetric \in Metrics \cup {NoMetric}
  BY DEF Reports
<1>4. CASE \E j \in Jobs : ReceiveCancel(p, j)
  BY <1>1, <1>4
<1>5. CASE \E t \in Tasks, w \in Workers, v \in Metrics \cup {NoMetric} :
             ReceiveReport(p, t, w, "complete", v)
  BY <1>2, <1>3, <1>5
<1>6. CASE \E t \in Tasks, w \in Workers, r \in {"fail", "failForGood"} :
             ReceiveReport(p, t, w, r, NoMetric)
  BY <1>2, <1>3, <1>6
<1> QED
  BY <1>4, <1>5, <1>6 DEF Request

LEMMA FramesStep ==
  ASSUME QueueTypeOK, FramesOK, [ServerNext]_allVars
  PROVE  FramesOK'
<1>1. CASE UNCHANGED frame
  BY <1>1 DEF FramesOK, Informed
<1>2. ASSUME NEW p \in Handlers, Request(p) \/ Continue(p) PROVE FramesOK'
  BY <1>2, RequestFrames, CancelFrames, ReportFrames, FinalizeFrames DEF Continue, Procs
<1>3. CASE ReaperWake \/ ReaperContinue
  BY <1>3, ReaperFrames, FinalizeFrames DEF ReaperContinue, Procs
<1>4. CASE Restart
  BY <1>4, IdleIsGood DEF Restart, FramesOK
<1> QED
  BY <1>1, <1>2, <1>3, <1>4
  DEF ServerNext, SubmitJob, Register, Heartbeat, Lease, Start, TimePasses, serverVars, allVars

-----------------------------------------------------------------------------
(* The handlers keep to the database methods                               *)

LEMMA ServerStepIsQueueStep ==
  ASSUME FramesOK, QueueTypeOK, [ServerNext]_allVars
  PROVE  [QueueNext]_queueVars
<1> USE DEF QueueNext, JobStep, WorkerStep, TaskStep, ReaperStep
<1>1. ASSUME NEW j \in Jobs, SubmitJob(j) PROVE QueueNext
  BY <1>1 DEF SubmitJob
<1>2. ASSUME NEW w \in Workers, Register(w) \/ Heartbeat(w) \/ Lease(w) PROVE QueueNext
  BY <1>2 DEF Register, Heartbeat, Lease, LeaseNextTask
<1>3. ASSUME NEW t \in Tasks, NEW w \in Workers, Start(t, w) PROVE QueueNext
  BY <1>3 DEF Start
<1>4. ASSUME NEW p \in Handlers, Request(p) PROVE UNCHANGED queueVars
  BY <1>4 DEF Request, ReceiveCancel, ReceiveReport
<1>5. ASSUME NEW p \in Procs, CancelTasks(p) \/ CancelJob(p) PROVE [QueueNext]_queueVars
  <2>1. frame[p].job \in Jobs
    BY <1>5 DEF CancelTasks, CancelJob, At, FramesOK, Informed
  <2>2. CancelTarget(p) \in JobTerminal \cup {"cancelling"}
    BY DEF CancelTarget, JobTerminal
  <2> QED
    BY <1>5, <2>1, <2>2 DEF CancelTasks, CancelJob
<1>6. ASSUME NEW p \in Procs, ReadJob(p) \/ ReportCancelled(p) \/ ReportComplete(p) \/ ReportFail(p)
      PROVE [QueueNext]_queueVars
  <2>1. frame[p].task \in Tasks /\ frame[p].worker \in Workers
    BY <1>6 DEF ReadJob, ReportCancelled, ReportComplete, ReportFail, At, FramesOK, Informed
  <2>2. (frame[p].report = "fail") \in BOOLEAN
    OBVIOUS
  <2> QED
    BY <1>6, <2>1, <2>2 DEF ReadJob, ReportCancelled, ReportComplete, ReportFail
<1>7. ASSUME NEW p \in Procs, Finalize(p) PROVE [QueueNext]_queueVars
  <2>1. CASE Commit(p)
    <3>1. frame[p].job \in Jobs /\ frame[p].final \in JobTerminal
      BY <2>1 DEF Commit, At, FramesOK, Informed
    <3> QED
      BY <2>1, <3>1 DEF Commit
  <2> QED
    BY <1>7, <2>1 DEF Finalize, Aggregate, ClearBest, LinkBest, CheckTasks, PickVerdict
<1>8. CASE ReaperWake \/ ReapWorkers \/ ReapLeases
  <2>1. frame[Reaper].dead \in SUBSET Workers
    BY DEF FramesOK, Frame, Procs
  <2> QED
    BY <1>8, <2>1 DEF ReaperWake, ReapWorkers, ReapLeases
<1>9. CASE TimePasses
  BY <1>9 DEF TimePasses
<1>10. CASE Restart \/ UNCHANGED allVars
  BY <1>10 DEF Restart, allVars
<1> QED
  BY <1>1, <1>2, <1>3, <1>4, <1>5, <1>6, <1>7, <1>8, <1>9, <1>10
  DEF ServerNext, Continue, ReaperContinue, Procs

ServerInv == TableInv /\ FramesOK

\* Every process of the server knows what its next step needs, and the table
\* invariant of TaskQueueProofs holds.
THEOREM ServerInvariant == ServerSpec => []ServerInv
<1>1. ServerInit => FramesOK
  BY IdleIsGood DEF ServerInit, FramesOK
<1>2. ServerInit => TableInv
  BY TableInit DEF ServerInit
<1>3. ServerInv /\ [ServerNext]_allVars => ServerInv'
  <2> SUFFICES ASSUME ServerInv, [ServerNext]_allVars PROVE ServerInv'
    OBVIOUS
  <2>1. QueueTypeOK
    BY DEF ServerInv, TableInv
  <2> QED
    BY <2>1, FramesStep, ServerStepIsQueueStep, TableStep DEF ServerInv
<1> QED
  BY <1>1, <1>2, <1>3, PTL DEF ServerSpec, ServerInv

\* The server implements TaskQueue: each database call of each handler, in
\* every interleaving, is a step TaskQueue allows.
THEOREM ServerUsesTheQueue == ServerSpec => UsesTheQueue
<1>1. ServerInit => QueueInit
  BY DEF ServerInit
<1>2. ServerInv /\ [ServerNext]_allVars => [QueueNext]_queueVars
  BY ServerStepIsQueueStep DEF ServerInv, TableInv
<1> QED
  BY <1>1, <1>2, ServerInvariant, PTL DEF ServerSpec, UsesTheQueue

\* So every promise of the database is one of the server: each task runs in
\* numbered attempts within max_attempts, and no worker is overbooked, whatever
\* requests interleave and whenever the server restarts.
THEOREM ServerKeepsQueuePromises ==
  ServerSpec => LifecycleKept /\ []TableInv /\ []SlotsInv
<1>1. UsesTheQueue => QueueSpec
  BY DEF UsesTheQueue, QueueSpec
<1> QED
  BY <1>1, ServerUsesTheQueue, QueueImplementsLifecycle, TableInvariant, SlotsInvariant, PTL

-----------------------------------------------------------------------------
(* Closing a job                                                           *)

Over(j, st) == \A t \in TasksOf(j) : st[t] \in TaskTerminal

Earned(j, st) == \E t \in TasksOf(j) : st[t] = "succeeded"

\* What a process has read stays true while it acts on it: f is its frame, js
\* and st are the status columns of the jobs and of the tasks.
Sound(f, js, st) ==
  /\ f.pc = "cancelTasks" => js[f.job] # "absent"
  /\ f.pc = "cancelJob" /\ ~f.flag => Over(f.job, st)
  /\ f.pc \in {"verdict", "commit"} => Over(f.job, st)
  /\ f.pc \in {"clear", "link", "check", "verdict"} /\ f.succeeded => Earned(f.job, st)
  /\ f.pc = "commit" /\ f.final = "succeeded" => Earned(f.job, st)

FramesSound == \A p \in Procs : Sound(frame[p], jobStatus, status)

ClosingInv == FramesSound /\ ClosedJobHasNoLiveTask /\ SuccessIsEarned

LEMMA OverStays ==
  ASSUME TableInv, [QueueNext]_queueVars, NEW j \in Jobs
  PROVE  /\ Over(j, status) => Over(j, status')
         /\ Earned(j, status) => Earned(j, status')
<1>1. \A t \in Tasks : status[t] \in TaskTerminal => status'[t] = status[t]
  BY SettledTaskStays
<1> QED
  BY <1>1 DEF Over, Earned, TasksOf, TaskTerminal

\* No step of another process spoils what a process has read.
LEMMA SoundStays ==
  ASSUME TableInv, [QueueNext]_queueVars, NEW f, Informed(f), Sound(f, jobStatus, status)
  PROVE  Sound(f, jobStatus', status')
<1>1. f.job \in Jobs => /\ jobStatus[f.job] # "absent" => jobStatus'[f.job] # "absent"
                        /\ Over(f.job, status) => Over(f.job, status')
                        /\ Earned(f.job, status) => Earned(f.job, status')
  BY JobRowStays, OverStays DEF JobExists
<1> QED
  BY <1>1 DEF Sound, Informed

LEMMA PutSound ==
  ASSUME TableInv, FramesOK, FramesSound, [QueueNext]_queueVars,
         NEW p \in Procs, NEW g, Put(p, g), Sound(g, jobStatus', status')
  PROVE  FramesSound'
<1> SUFFICES ASSUME NEW q \in Procs PROVE Sound(frame'[q], jobStatus', status')
  BY DEF FramesSound
<1>1. frame'[q] = IF q = p THEN g ELSE frame[q]
  BY DEF FramesOK, Put
<1>2. Informed(frame[q]) /\ Sound(frame[q], jobStatus, status)
  BY DEF FramesOK, FramesSound
<1>3. Sound(frame[q], jobStatus', status')
  BY <1>2, SoundStays
<1> QED
  BY <1>1, <1>3

LEMMA FinalizingIsSound ==
  ASSUME NEW jobs, NEW g \in Finalizing(jobs), NEW js, NEW st
  PROVE  Sound(g, js, st)
<1>1. CASE jobs = {}
  BY <1>1 DEF Finalizing, Idle, Sound
<1>2. CASE jobs # {}
  <2>1. PICK j \in jobs : g = [Idle EXCEPT !.pc = "aggregate", !.job = j, !.todo = jobs \ {j}]
    BY <1>2 DEF Finalizing
  <2>2. g.pc = "aggregate"
    BY <2>1 DEF Idle
  <2> QED
    BY <2>2 DEF Sound
<1> QED
  BY <1>1, <1>2

\* A process that goes idle or on to the next job has nothing left to show.
LEMMA MoveOnSound ==
  ASSUME TableInv, FramesOK, FramesSound, [QueueNext]_queueVars,
         NEW p \in Procs, NEW jobs, FinalizeAll(p, jobs) \/ Put(p, Idle)
  PROVE  FramesSound'
<1>1. Idle \in Finalizing({})
  BY DEF Finalizing
<1>2. PICK g : Put(p, g) /\ Sound(g, jobStatus', status')
  BY <1>1, FinalizingIsSound DEF FinalizeAll
<1> QED
  BY <1>2, PutSound

\* Jobs that were closed stay accounted for; the newly closed ones must be.
LEMMA ClosedStays ==
  ASSUME TableInv, [QueueNext]_queueVars, ClosedJobHasNoLiveTask, SuccessIsEarned,
         \A j \in Jobs : (jobStatus'[j] \in JobTerminal /\ jobStatus'[j] # jobStatus[j])
           => Over(j, status') /\ (jobStatus'[j] = "succeeded" => Earned(j, status'))
  PROVE  ClosedJobHasNoLiveTask' /\ SuccessIsEarned'
<1> SUFFICES ASSUME NEW j \in Jobs, jobStatus'[j] \in JobTerminal
             PROVE  /\ Over(j, status')
                    /\ jobStatus'[j] = "succeeded" => Earned(j, status')
  BY DEF ClosedJobHasNoLiveTask, SuccessIsEarned, AllTerminal, Over, Succeeded, Earned, JobTerminal
<1>1. CASE jobStatus'[j] = jobStatus[j]
  <2>1. Over(j, status) /\ (jobStatus[j] = "succeeded" => Earned(j, status))
    BY <1>1 DEF ClosedJobHasNoLiveTask, SuccessIsEarned, AllTerminal, Over, Succeeded, Earned
  <2> QED
    BY <1>1, <2>1, OverStays
<1> QED
  BY <1>1

\* A step that leaves the status column of the jobs alone closes no job.
LEMMA NothingCloses ==
  ASSUME TableInv, [QueueNext]_queueVars, ClosedJobHasNoLiveTask, SuccessIsEarned,
         jobStatus' = jobStatus
  PROVE  ClosedJobHasNoLiveTask' /\ SuccessIsEarned'
BY ClosedStays

LEMMA CancelCloses ==
  ASSUME TableInv, FramesOK, ClosingInv, [QueueNext]_queueVars,
         NEW p \in Procs, CancelTasks(p) \/ CancelJob(p)
  PROVE  ClosingInv'
<1> DEFINE f == frame[p]
<1>1. f \in Frame /\ Informed(f) /\ Sound(f, jobStatus, status)
  BY DEF FramesOK, ClosingInv, FramesSound
<1>2. CASE CancelTasks(p)
  <2> DEFINE b == RunningTasks(f.job) # {}
             g == [f EXCEPT !.pc = "cancelJob", !.flag = b]
  <2>1. f.job \in Jobs /\ JobExists(f.job)
    BY <1>1, <1>2 DEF CancelTasks, At, Informed, Sound, JobExists
  <2>2. ~b => Over(f.job, status')
    <3> SUFFICES ASSUME ~b, NEW t \in TasksOf(f.job) PROVE status'[t] \in TaskTerminal
      BY DEF Over
    <3>1. t \in Tasks /\ JobOf[t] = f.job /\ status[t] # "running"
      BY DEF RunningTasks, TasksOf
    <3>2. status[t] \in VisibleTaskStatus
      BY <2>1, <3>1 DEF TableInv, QueueTypeOK, TaskFollowsJob
    <3> QED
      BY <1>2, <3>1, <3>2
      DEF CancelTasks, CancelJobTasks, WriteTasks, TasksOf, VisibleTaskStatus, TaskStatus,
          TaskTerminal
  <2>3. Put(p, g)
    BY <1>2 DEF CancelTasks
  <2>4. jobStatus' = jobStatus
    BY <1>2 DEF CancelTasks, CancelJobTasks, jobVars
  <2>5. g.pc = "cancelJob" /\ g.job = f.job /\ (~g.flag => ~b)
    <3> HIDE DEF b
    <3> QED
      BY <1>1 DEF Frame
  <2>6. Sound(g, jobStatus', status')
    BY <2>2, <2>5 DEF Sound
  <2> QED
    BY <2>3, <2>4, <2>6, PutSound, NothingCloses DEF ClosingInv
<1>3. CASE CancelJob(p)
  <2>1. FramesSound'
    BY <1>3, MoveOnSound DEF CancelJob, ClosingInv
  <2>2. CASE UNCHANGED queueVars
    BY <2>1, <2>2, NothingCloses DEF queueVars, ClosingInv
  <2>3. CASE SetJobStatus(f.job, CancelTarget(p))
    <3>1. \A j \in Jobs : jobStatus'[j] # jobStatus[j] => j = f.job
      BY <2>3 DEF SetJobStatus, TableInv, QueueTypeOK
    <3>2. f.job \in Jobs /\ jobStatus'[f.job] = CancelTarget(p)
      BY <1>1, <1>3, <2>3 DEF CancelJob, At, Informed, SetJobStatus, TableInv, QueueTypeOK
    <3>3. CancelTarget(p) \in JobTerminal => CancelTarget(p) = "cancelled" /\ ~f.flag
      BY DEF CancelTarget, JobTerminal
    <3>4. ~f.flag => Over(f.job, status')
      BY <1>1, <1>3, <3>2, OverStays DEF CancelJob, At, Sound
    <3> QED
      BY <2>1, <3>1, <3>2, <3>3, <3>4, ClosedStays DEF ClosingInv
  <2> QED
    BY <1>3, <2>2, <2>3 DEF CancelJob
<1> QED
  BY <1>2, <1>3

LEMMA ReportCloses ==
  ASSUME TableInv, FramesOK, ClosingInv, [QueueNext]_queueVars, NEW p \in Procs,
         ReadJob(p) \/ ReportCancelled(p) \/ ReportComplete(p) \/ ReportFail(p)
  PROVE  ClosingInv'
<1> DEFINE f == frame[p]
<1>1. jobStatus' = jobStatus
  BY DEF ReadJob, ReportCancelled, ReportComplete, ReportFail, queueVars, CancelRunningTask,
         CompleteTask, FailTask, jobVars
<1>2. CASE ReadJob(p)
  <2> DEFINE g == [f EXCEPT !.pc = "report", !.flag = Cancelled(f.job)]
  <2>1. Put(p, g)
    BY <1>2 DEF ReadJob
  <2>2. f \in Frame
    BY DEF FramesOK
  <2>3. g.pc = "report"
    BY <2>2 DEF Frame
  <2>4. Sound(g, jobStatus', status')
    BY <2>3 DEF Sound
  <2> QED
    BY <1>1, <2>1, <2>4, PutSound, NothingCloses DEF ClosingInv
<1>3. CASE ReportCancelled(p) \/ ReportComplete(p) \/ ReportFail(p)
  <2>1. FramesSound'
    BY <1>3, MoveOnSound DEF ReportCancelled, ReportComplete, ReportFail, ClosingInv
  <2> QED
    BY <1>1, <2>1, NothingCloses DEF ClosingInv
<1> QED
  BY <1>2, <1>3

LEMMA FinalizeCloses ==
  ASSUME TableInv, FramesOK, ClosingInv, [QueueNext]_queueVars, NEW p \in Procs, Finalize(p)
  PROVE  ClosingInv'
<1> DEFINE f == frame[p]
<1>1. f \in Frame /\ Informed(f) /\ Sound(f, jobStatus, status)
  BY DEF FramesOK, ClosingInv, FramesSound
<1>2. f.pc # "idle" /\ f.job \in Jobs
  BY <1>1 DEF Finalize, Aggregate, ClearBest, LinkBest, CheckTasks, PickVerdict, Commit, At,
              Informed
<1>3. /\ Over(f.job, status) => Over(f.job, status')
      /\ Earned(f.job, status) => Earned(f.job, status')
  BY <1>2, OverStays
<1>4. ~Commit(p) => jobStatus' = jobStatus
  BY DEF Finalize, Aggregate, ClearBest, LinkBest, CheckTasks, PickVerdict, queueVars
<1>5. CASE Aggregate(p)
  <2>1. PICK t : Put(p, [f EXCEPT !.pc = "clear", !.best = IF t \in Exports THEN t ELSE NoTask,
                                  !.succeeded = Succeeded(f.job) # {}])
    BY <1>5 DEF Aggregate
  <2> DEFINE b == Succeeded(f.job) # {}
             u == IF t \in Exports THEN t ELSE NoTask
             g == [f EXCEPT !.pc = "clear", !.best = u, !.succeeded = b]
  <2>2. Put(p, g)
    BY <2>1
  <2>3. b => Earned(f.job, status)
    BY DEF Succeeded, Earned
  <2> HIDE DEF b, u
  <2>4. g.pc = "clear" /\ g.job = f.job /\ (g.succeeded => b)
    BY <1>1 DEF Frame
  <2>5. Sound(g, jobStatus', status')
    BY <1>3, <2>3, <2>4 DEF Sound
  <2>6. ~Commit(p)
    BY <1>5 DEF Aggregate, Commit, At
  <2> QED
    BY <1>4, <2>2, <2>5, <2>6, PutSound, NothingCloses DEF ClosingInv
<1>6. CASE ClearBest(p) \/ LinkBest(p)
  <2>1. PICK where \in {"check", "link"}, u \in {f.best, NoTask} :
          Put(p, [f EXCEPT !.pc = where, !.best = u])
    BY <1>1, <1>6 DEF ClearBest, LinkBest, Frame
  <2> DEFINE g == [f EXCEPT !.pc = where, !.best = u]
  <2>2. /\ g.pc \in {"check", "link"} /\ f.pc \in {"clear", "link"}
        /\ g.job = f.job /\ g.succeeded = f.succeeded
    BY <1>1, <1>6 DEF Frame, ClearBest, LinkBest, At
  <2>3. Sound(g, jobStatus', status')
    BY <1>1, <1>3, <2>2 DEF Sound
  <2>4. ~Commit(p)
    BY <1>6 DEF ClearBest, LinkBest, Commit, At
  <2> QED
    BY <1>4, <2>1, <2>3, <2>4, PutSound, NothingCloses DEF ClosingInv
<1>7. CASE CheckTasks(p)
  <2> DEFINE g == [f EXCEPT !.pc = "verdict"]
  <2>1. ASSUME AllTerminal(f.job), Put(p, g) PROVE FramesSound'
    <3>1. /\ f.pc = "check" /\ g.pc = "verdict"
          /\ g.job = f.job /\ g.succeeded = f.succeeded
      BY <1>1, <1>7 DEF Frame, CheckTasks, At
    <3>2. Over(f.job, status)
      BY <2>1 DEF AllTerminal, Over
    <3>3. Sound(g, jobStatus', status')
      BY <1>1, <1>3, <3>1, <3>2 DEF Sound
    <3> QED
      BY <2>1, <3>3, PutSound DEF ClosingInv
  <2>2. ASSUME FinalizeAll(p, f.todo) PROVE FramesSound'
    BY <2>2, MoveOnSound DEF ClosingInv
  <2>3. FramesSound'
    BY <1>7, <2>1, <2>2 DEF CheckTasks, ClosingInv
  <2>4. ~Commit(p)
    BY <1>7 DEF CheckTasks, Commit, At
  <2> QED
    BY <1>4, <2>3, <2>4, NothingCloses DEF ClosingInv
<1>8. CASE PickVerdict(p)
  <2> DEFINE v == Verdict(f.job, f.succeeded)
             g == [f EXCEPT !.pc = "commit", !.succeeded = FALSE, !.final = v]
  <2>1. v = "succeeded" => f.succeeded
    BY DEF Verdict
  <2>2. f.pc = "verdict"
    BY <1>8 DEF PickVerdict, At
  <2>3. Put(p, g)
    BY <1>8 DEF PickVerdict
  <2> HIDE DEF v
  <2>4. g.pc = "commit" /\ g.job = f.job /\ g.final = v
    BY <1>1 DEF Frame
  <2>5. Sound(g, jobStatus', status')
    BY <1>1, <1>3, <2>1, <2>2, <2>4 DEF Sound
  <2>6. ~Commit(p)
    BY <2>2 DEF Commit, At
  <2> QED
    BY <1>4, <2>3, <2>5, <2>6, PutSound, NothingCloses DEF ClosingInv
<1>9. CASE Commit(p)
  <2>1. FramesSound'
    BY <1>9, MoveOnSound DEF Commit, ClosingInv
  <2>2. CASE UNCHANGED queueVars
    BY <2>1, <2>2, NothingCloses DEF queueVars, ClosingInv
  <2>3. CASE SetJobStatus(f.job, f.final)
    <3>1. \A j \in Jobs : jobStatus'[j] # jobStatus[j] => j = f.job
      BY <2>3 DEF SetJobStatus, TableInv, QueueTypeOK
    <3>2. jobStatus'[f.job] = f.final
      BY <1>2, <2>3 DEF SetJobStatus, TableInv, QueueTypeOK
    <3>3. Over(f.job, status') /\ (f.final = "succeeded" => Earned(f.job, status'))
      BY <1>1, <1>3, <1>9 DEF Commit, At, Sound
    <3> QED
      BY <2>1, <3>1, <3>2, <3>3, ClosedStays DEF ClosingInv
  <2> QED
    BY <1>9, <2>2, <2>3 DEF Commit
<1> QED
  BY <1>5, <1>6, <1>7, <1>8, <1>9 DEF Finalize

LEMMA ReaperCloses ==
  ASSUME TableInv, FramesOK, ClosingInv, [QueueNext]_queueVars,
         ReaperWake \/ ReapWorkers \/ ReapLeases
  PROVE  ClosingInv'
<1>1. Reaper \in Procs
  BY DEF Procs
<1>2. jobStatus' = jobStatus
  BY DEF ReaperWake, ReapWorkers, ReapLeases, MarkDeadWorkers, ReapTasksForWorkers,
         ReapExpiredLeases, ResolveLost, jobVars
<1>3. CASE ReapLeases
  BY <1>1, <1>2, <1>3, MoveOnSound, NothingCloses DEF ReapLeases, ClosingInv
<1>4. CASE ReaperWake \/ ReapWorkers
  <2>1. PICK g : Put(Reaper, g) /\ g.pc \in {"reapWorkers", "reapLeases"}
    <3>1. ASSUME ReaperWake
          PROVE  \E g : Put(Reaper, g) /\ g.pc \in {"reapWorkers", "reapLeases"}
      <4> DEFINE g == [Idle EXCEPT !.pc = IF SilentWorkers = {} THEN "reapLeases"
                                                               ELSE "reapWorkers",
                                   !.dead = SilentWorkers]
      <4>1. g.pc \in {"reapWorkers", "reapLeases"}
        BY DEF Idle
      <4> QED
        BY <3>1, <4>1 DEF ReaperWake
    <3>2. ASSUME ReapWorkers
          PROVE  \E g : Put(Reaper, g) /\ g.pc \in {"reapWorkers", "reapLeases"}
      <4> DEFINE g == [Idle EXCEPT !.pc = "reapLeases",
                                   !.todo = {JobOf[t] : t \in TasksHeldBy(frame[Reaper].dead)}]
      <4>1. g.pc = "reapLeases"
        BY DEF Idle
      <4> QED
        BY <3>2, <4>1 DEF ReapWorkers
    <3> QED
      BY <1>4, <3>1, <3>2
  <2>3. Sound(g, jobStatus', status')
    BY <2>1 DEF Sound
  <2> QED
    BY <1>1, <1>2, <2>1, <2>3, PutSound, NothingCloses DEF ClosingInv
<1> QED
  BY <1>3, <1>4

LEMMA RequestCloses ==
  ASSUME TableInv, FramesOK, ClosingInv, [QueueNext]_queueVars, NEW p \in Procs, Request(p)
  PROVE  ClosingInv'
<1>1. jobStatus' = jobStatus
  BY DEF Request, ReceiveCancel, ReceiveReport, queueVars
<1>2. PICK g : Put(p, g) /\ Sound(g, jobStatus', status')
  <2>1. ASSUME NEW j \in Jobs, ReceiveCancel(p, j)
        PROVE  \E g : Put(p, g) /\ Sound(g, jobStatus', status')
    <3> DEFINE g == [Idle EXCEPT !.pc = "cancelTasks", !.job = j]
    <3>1. g.pc = "cancelTasks" /\ g.job = j
      BY DEF Idle
    <3>2. Sound(g, jobStatus', status')
      BY <1>1, <2>1, <3>1 DEF Sound, ReceiveCancel, JobExists
    <3> QED
      BY <2>1, <3>2 DEF ReceiveCancel
  <2>2. ASSUME NEW t, NEW w, NEW r, NEW v, ReceiveReport(p, t, w, r, v)
        PROVE  \E g : Put(p, g) /\ Sound(g, jobStatus', status')
    <3> DEFINE g == [Idle EXCEPT !.pc = "readJob", !.job = JobOf[t], !.task = t,
                                 !.worker = w, !.report = r, !.value = v]
    <3>1. g.pc = "readJob"
      BY DEF Idle
    <3>2. Sound(g, jobStatus', status')
      BY <3>1 DEF Sound
    <3> QED
      BY <2>2, <3>2 DEF ReceiveReport
  <2> QED
    BY <2>1, <2>2 DEF Request
<1> QED
  BY <1>1, <1>2, PutSound, NothingCloses DEF ClosingInv

\* Steps that are over in one database call, and a restart.
LEMMA OneCallCloses ==
  ASSUME TableInv, FramesOK, ClosingInv, [QueueNext]_queueVars,
         \/ \E j \in Jobs : SubmitJob(j)
         \/ \E w \in Workers : Register(w) \/ Heartbeat(w) \/ Lease(w)
         \/ \E t \in Tasks, w \in Workers : Start(t, w)
         \/ TimePasses \/ Restart \/ UNCHANGED allVars
  PROVE  ClosingInv'
<1>1. \A j \in Jobs : jobStatus'[j] \in JobTerminal => jobStatus'[j] = jobStatus[j]
  <2>1. ASSUME NEW i \in Jobs, SubmitJob(i), NEW j \in Jobs, jobStatus'[j] \in JobTerminal
        PROVE  jobStatus'[j] = jobStatus[j]
    BY <2>1 DEF SubmitJob, CreateJobWithTasks, TableInv, QueueTypeOK, JobTerminal
  <2>2. ASSUME NEW w \in Workers, Lease(w), NEW j \in Jobs, jobStatus'[j] \in JobTerminal
        PROVE  jobStatus'[j] = jobStatus[j]
    BY <2>2 DEF Lease, LeaseNextTask, LeaseTask, MaybeJobRunning, TableInv, QueueTypeOK, JobTerminal
  <2>3. ASSUME \/ \E w \in Workers : Register(w) \/ Heartbeat(w)
               \/ \E t \in Tasks, w \in Workers : Start(t, w)
               \/ TimePasses \/ Restart \/ UNCHANGED allVars
        PROVE  jobStatus' = jobStatus
    BY <2>3 DEF Register, RegisterWorker, Heartbeat, HeartbeatWorker, Start, StartTask, TimePasses,
                LeaseLapse, FallSilent, Restart, allVars, queueVars, jobVars
  <2> QED
    BY <2>1, <2>2, <2>3
<1>2. ClosedJobHasNoLiveTask' /\ SuccessIsEarned'
  BY <1>1, ClosedStays DEF ClosingInv
<1>3. CASE Restart
  <2>1. Sound(Idle, jobStatus', status')
    BY DEF Sound, Idle
  <2>2. FramesSound'
    BY <1>3, <2>1 DEF Restart, FramesSound
  <2> QED
    BY <1>2, <2>2 DEF ClosingInv
<1>4. CASE ~Restart
  <2>1. frame' = frame
    BY <1>4 DEF SubmitJob, Register, Heartbeat, Lease, Start, TimePasses, serverVars, allVars
  <2>2. \A p \in Procs : Sound(frame[p], jobStatus', status')
    BY SoundStays DEF ClosingInv, FramesSound, FramesOK
  <2> QED
    BY <1>2, <2>1, <2>2 DEF ClosingInv, FramesSound
<1> QED
  BY <1>3, <1>4

\* No interleaving of cancel, reports and reaper closes a job that still has a
\* live task, or reports a success no task earned: what a process has read of
\* the tasks stays true until it writes the job.
THEOREM ClosingInvariant == ServerSpec => []ClosingInv
<1>1. ServerInit => ClosingInv
  <2>1. ServerInit => FramesSound
    BY DEF ServerInit, FramesSound, Sound, Idle
  <2>2. ServerInit => ClosedJobHasNoLiveTask /\ SuccessIsEarned
    BY DEF ServerInit, QueueInit, ClosedJobHasNoLiveTask, SuccessIsEarned, JobTerminal
  <2> QED
    BY <2>1, <2>2 DEF ClosingInv
<1>2. ServerInv /\ ClosingInv /\ [ServerNext]_allVars => ClosingInv'
  <2> SUFFICES ASSUME ServerInv, ClosingInv, [ServerNext]_allVars PROVE ClosingInv'
    OBVIOUS
  <2>1. TableInv /\ FramesOK /\ [QueueNext]_queueVars
    BY ServerStepIsQueueStep DEF ServerInv, TableInv
  <2>2. ASSUME NEW p \in Procs, Request(p) \/ Continue(p) PROVE ClosingInv'
    BY <2>1, <2>2, RequestCloses, CancelCloses, ReportCloses, FinalizeCloses DEF Continue
  <2>3. CASE ReaperWake \/ ReaperContinue
    BY <2>1, <2>3, ReaperCloses, FinalizeCloses DEF ReaperContinue, Procs
  <2> QED
    BY <2>1, <2>2, <2>3, OneCallCloses DEF ServerNext, Procs
<1> QED
  BY <1>1, <1>2, ServerInvariant, PTL DEF ServerSpec

\* A job reported as over has no live task, for any number of processes.
THEOREM ClosedJobsAreDone == ServerSpec => []ClosedJobHasNoLiveTask
BY ClosingInvariant, PTL DEF ClosingInv

\* A job reported as succeeded has a task that succeeded.
THEOREM SuccessesAreEarned == ServerSpec => []SuccessIsEarned
BY ClosingInvariant, PTL DEF ClosingInv

\* No late finalizer or cancellation reopens a closed job or changes its verdict.
THEOREM ClosedJobsStayClosed == ServerSpec => ClosedJobIsFinal
<1>1. ServerInv /\ [ServerNext]_allVars =>
        [\A j \in Jobs : jobStatus[j] \in JobTerminal => jobStatus'[j] = jobStatus[j]]_allVars
  BY ServerStepIsQueueStep, JobRowStays DEF ServerInv, TableInv
<1> QED
  BY <1>1, ServerInvariant, PTL DEF ServerSpec, ClosedJobIsFinal

-----------------------------------------------------------------------------
(* Type correctness                                                        *)

ColumnsOK ==
  /\ result \in [Tasks -> Metrics \cup {NoMetric}]
  /\ bestLinks \in [Jobs -> SUBSET Tasks]
  /\ crashes \in 0..MaxCrashes

LEMMA ColumnsStep ==
  ASSUME FramesOK, ColumnsOK, [ServerNext]_allVars
  PROVE  ColumnsOK'
<1> USE DEF ColumnsOK
<1>1. ASSUME NEW p \in Procs, ReportComplete(p) PROVE ColumnsOK'
  <2>1. frame[p].value \in Metrics \cup {NoMetric}
    BY DEF FramesOK, Frame
  <2>2. result' \in [Tasks -> Metrics \cup {NoMetric}]
    BY <1>1, <2>1 DEF ReportComplete
  <2> QED
    BY <1>1, <2>2 DEF ReportComplete
<1>2. ASSUME NEW p \in Procs, ClearBest(p) PROVE ColumnsOK'
  <2>1. bestLinks' \in [Jobs -> SUBSET Tasks]
    BY <1>2 DEF ClearBest
  <2> QED
    BY <1>2, <2>1 DEF ClearBest
<1>3. ASSUME NEW p \in Procs, LinkBest(p) PROVE ColumnsOK'
  <2>1. frame[p].best \in Tasks
    BY <1>3 DEF LinkBest, At, FramesOK, Informed
  <2>2. bestLinks' \in [Jobs -> SUBSET Tasks]
    BY <1>3, <2>1 DEF LinkBest
  <2> QED
    BY <1>3, <2>2 DEF LinkBest
<1>4. CASE Restart
  BY <1>4 DEF Restart
<1>5. ASSUME NEW p \in Procs, Request(p) \/ Continue(p) PROVE ColumnsOK'
  BY <1>1, <1>2, <1>3, <1>5
  DEF Request, ReceiveCancel, ReceiveReport, Continue, CancelTasks, CancelJob, ReadJob,
      ReportCancelled, ReportFail, Finalize, Aggregate, CheckTasks, PickVerdict, Commit
<1>6. CASE ReaperWake \/ ReaperContinue
  BY <1>2, <1>3, <1>6
  DEF ReaperWake, ReaperContinue, ReapWorkers, ReapLeases, Procs,
      Finalize, Aggregate, CheckTasks, PickVerdict, Commit
<1> QED
  BY <1>4, <1>5, <1>6
  DEF ServerNext, SubmitJob, Register, Heartbeat, Lease, Start, TimePasses, serverVars, allVars, Procs

\* Every variable of the server keeps to its type.
THEOREM ServerTypeCorrect == ServerSpec => []ServerTypeOK
<1>1. ServerInit => ColumnsOK
  BY DEF ServerInit, ColumnsOK
<1>2. ServerInv /\ ColumnsOK /\ [ServerNext]_allVars => ColumnsOK'
  BY ColumnsStep DEF ServerInv
<1>3. ServerInv /\ ColumnsOK => ServerTypeOK
  BY DEF ServerInv, TableInv, FramesOK, ColumnsOK, ServerTypeOK
<1> QED
  BY <1>1, <1>2, <1>3, ServerInvariant, PTL DEF ServerSpec

-----------------------------------------------------------------------------
(* Nobody leaves a job behind                                              *)

FinalizingAt == {"aggregate", "clear", "link", "check", "verdict", "commit"}

\* The process with frame f is bound to close job j, unless someone else does:
\* it finalizes j or will, its verdict is one the job may take, or it is about
\* to cancel a job without running tasks.  js is the status column of the jobs.
Closes(f, j, js) ==
  \/ f.pc \in FinalizingAt \ {"commit"} /\ f.job = j
  \/ f.pc = "commit" /\ f.job = j /\ JobMay(js[j], f.final)
  \/ f.pc = "cancelJob" /\ f.job = j /\ ~f.flag
  \/ f.pc \in FinalizingAt \cup {"reapLeases"} /\ j \in f.todo

OwnJob(f) == f.pc \in {"readJob", "report"} => f.job = JobOf[f.task]

ReportsOwnJob == \A p \in Procs : OwnJob(frame[p])

SomeoneCloses ==
  \A j \in Jobs :
    (JobExists(j) /\ Over(j, status)) =>
      jobStatus[j] \in JobTerminal \/ \E p \in Procs : Closes(frame[p], j, jobStatus)

LEMMA FinalizingOwnJob ==
  ASSUME NEW jobs, NEW f \in Finalizing(jobs)
  PROVE  OwnJob(f)
<1>1. CASE jobs = {}
  BY <1>1 DEF Finalizing, Idle, OwnJob
<1>2. CASE jobs # {}
  <2>1. PICK j \in jobs : f = [Idle EXCEPT !.pc = "aggregate", !.job = j, !.todo = jobs \ {j}]
    BY <1>2 DEF Finalizing
  <2>2. f.pc = "aggregate"
    BY <2>1 DEF Idle
  <2> QED
    BY <2>2 DEF OwnJob
<1> QED
  BY <1>1, <1>2

LEMMA PutOwnJob ==
  ASSUME FramesOK, ReportsOwnJob, NEW p \in Procs, NEW f, OwnJob(f), Put(p, f)
  PROVE  ReportsOwnJob'
BY DEF FramesOK, ReportsOwnJob, OwnJob, Put

LEMMA OwnJobStep ==
  ASSUME FramesOK, ReportsOwnJob, [ServerNext]_allVars
  PROVE  ReportsOwnJob'
<1>1. OwnJob(Idle)
  BY DEF OwnJob, Idle
<1>2. \A p \in Procs : frame[p] \in Frame
  BY DEF FramesOK
<1>3. ASSUME NEW p \in Procs, NEW jobs, FinalizeAll(p, jobs) \/ Put(p, Idle) PROVE ReportsOwnJob'
  BY <1>1, <1>3, FinalizingOwnJob, PutOwnJob DEF FinalizeAll
<1>4. ASSUME NEW p \in Procs, NEW g, Put(p, g), g.pc \notin {"readJob", "report"}
      PROVE  ReportsOwnJob'
  BY <1>4, PutOwnJob DEF OwnJob
<1>5. ASSUME NEW p \in Procs, NEW j \in Jobs, ReceiveCancel(p, j) PROVE ReportsOwnJob'
  BY <1>4, <1>5 DEF ReceiveCancel, Idle
<1>6. ASSUME NEW p \in Procs, NEW t, NEW w, NEW r, NEW v, ReceiveReport(p, t, w, r, v)
      PROVE  ReportsOwnJob'
  <2> DEFINE g == [Idle EXCEPT !.pc = "readJob", !.job = JobOf[t], !.task = t,
                               !.worker = w, !.report = r, !.value = v]
  <2>1. g.job = JobOf[t] /\ g.task = t
    BY DEF Idle
  <2>2. Put(p, g)
    BY <1>6 DEF ReceiveReport
  <2> QED
    BY <2>1, <2>2, PutOwnJob DEF OwnJob
<1>7. ASSUME NEW p \in Procs, CancelTasks(p) PROVE ReportsOwnJob'
  BY <1>2, <1>4, <1>7 DEF CancelTasks, Frame
<1>8. ASSUME NEW p \in Procs, ReadJob(p) PROVE ReportsOwnJob'
  <2> DEFINE f == frame[p]
             g == [f EXCEPT !.pc = "report", !.flag = Cancelled(f.job)]
  <2>1. f.job = JobOf[f.task]
    BY <1>8 DEF ReadJob, At, ReportsOwnJob, OwnJob
  <2>2. g.job = f.job /\ g.task = f.task
    BY <1>2 DEF Frame
  <2>3. Put(p, g)
    BY <1>8 DEF ReadJob
  <2> QED
    BY <2>1, <2>2, <2>3, PutOwnJob DEF OwnJob
<1>9. ASSUME NEW p \in Procs, CancelJob(p) \/ ReportCancelled(p) \/ ReportComplete(p) \/ ReportFail(p)
      PROVE  ReportsOwnJob'
  BY <1>3, <1>9 DEF CancelJob, ReportCancelled, ReportComplete, ReportFail
<1>10. ASSUME NEW p \in Procs, Finalize(p) PROVE ReportsOwnJob'
  <2> DEFINE f == frame[p]
  <2>1. CASE Aggregate(p)
    <3>1. PICK t : Put(p, [f EXCEPT !.pc = "clear", !.best = IF t \in Exports THEN t ELSE NoTask,
                                    !.succeeded = Succeeded(f.job) # {}])
      BY <2>1 DEF Aggregate
    <3> QED
      BY <1>2, <1>4, <3>1 DEF Frame
  <2>2. CASE ClearBest(p) \/ LinkBest(p)
    BY <1>2, <1>4, <2>2 DEF ClearBest, LinkBest, Frame
  <2>3. CASE CheckTasks(p)
    BY <1>2, <1>3, <1>4, <2>3 DEF CheckTasks, Frame
  <2>4. CASE PickVerdict(p)
    BY <1>2, <1>4, <2>4 DEF PickVerdict, Frame
  <2>5. CASE Commit(p)
    BY <1>3, <2>5 DEF Commit
  <2> QED
    BY <1>10, <2>1, <2>2, <2>3, <2>4, <2>5 DEF Finalize
<1>11. CASE ReaperWake
  BY <1>4, <1>11 DEF ReaperWake, Idle, Procs
<1>12. CASE ReapWorkers
  BY <1>4, <1>12 DEF ReapWorkers, Idle, Procs
<1>13. CASE ReapLeases
  BY <1>3, <1>13 DEF ReapLeases, Procs
<1>14. CASE Restart
  BY <1>1, <1>14 DEF Restart, ReportsOwnJob
<1>15. CASE UNCHANGED frame
  BY <1>15 DEF ReportsOwnJob, OwnJob
<1> QED
  BY <1>5, <1>6, <1>7, <1>8, <1>9, <1>10, <1>11, <1>12, <1>13, <1>14, <1>15
  DEF ServerNext, Request, Continue, ReaperContinue, SubmitJob, Register, Heartbeat, Lease, Start,
      TimePasses, serverVars, allVars, Procs

\* Whoever moves on to a list of jobs is bound to close each of them.
LEMMA FinalizingCloses ==
  ASSUME NEW jobs, NEW g \in Finalizing(jobs), NEW j \in jobs, NEW js
  PROVE  Closes(g, j, js)
<1>1. PICK i \in jobs : g = [Idle EXCEPT !.pc = "aggregate", !.job = i, !.todo = jobs \ {i}]
  BY DEF Finalizing
<1>2. g.pc = "aggregate" /\ g.job = i /\ g.todo = jobs \ {i}
  BY <1>1 DEF Idle
<1> QED
  BY <1>2 DEF Closes, FinalizingAt

\* What the process that takes a step, and then has frame g, must answer for:
\* the jobs it was bound to close, those whose last task it settles and those
\* it moves to a status that is not final.
Answers(p, g) ==
  \A j \in Jobs :
    (/\ JobExists(j) /\ Over(j, status') /\ jobStatus'[j] \notin JobTerminal
     /\ \/ ~Over(j, status)
        \/ jobStatus'[j] # jobStatus[j]
        \/ Closes(frame[p], j, jobStatus))
    => Closes(g, j, jobStatus')

Answered(p) == \E g : Put(p, g) /\ Answers(p, g)

LEMMA AnswerIsEnough ==
  ASSUME FramesOK, SomeoneCloses, NEW p \in Procs, Answered(p),
         \A j \in Jobs : jobStatus'[j] # "absent" => JobExists(j),
         \A j \in Jobs : jobStatus[j] \in JobTerminal => jobStatus'[j] = jobStatus[j]
  PROVE  SomeoneCloses'
<1> SUFFICES ASSUME NEW j \in Jobs, jobStatus'[j] # "absent", Over(j, status'),
                    jobStatus'[j] \notin JobTerminal
             PROVE  \E q \in Procs : Closes(frame'[q], j, jobStatus')
  BY DEF SomeoneCloses, JobExists, Over
<1>1. JobExists(j) /\ jobStatus[j] \notin JobTerminal
  OBVIOUS
<1> PICK g : Put(p, g) /\ Answers(p, g)
  BY DEF Answered
<1>2. \A q \in Procs : frame'[q] = IF q = p THEN g ELSE frame[q]
  BY DEF FramesOK, Put
<1>3. CASE Closes(g, j, jobStatus')
  BY <1>2, <1>3
<1>4. CASE ~Closes(g, j, jobStatus')
  <2>1. /\ Over(j, status) /\ jobStatus'[j] = jobStatus[j]
        /\ ~Closes(frame[p], j, jobStatus)
    BY <1>1, <1>4 DEF Answers
  <2>2. PICK q \in Procs : Closes(frame[q], j, jobStatus)
    BY <1>1, <2>1 DEF SomeoneCloses
  <2>3. Closes(frame[q], j, jobStatus')
    BY <2>1, <2>2 DEF Closes
  <2> QED
    BY <1>2, <2>1, <2>2, <2>3
<1> QED
  BY <1>3, <1>4

\* A step that leaves frames alone and neither settles a job nor creates one
\* that is over.
LEMMA QuietCloses ==
  ASSUME SomeoneCloses, frame' = frame,
         \A j \in Jobs : jobStatus'[j] # "absent" /\ Over(j, status')
            => JobExists(j) /\ Over(j, status) /\ jobStatus'[j] = jobStatus[j]
  PROVE  SomeoneCloses'
<1> SUFFICES ASSUME NEW j \in Jobs, jobStatus'[j] # "absent", Over(j, status'),
                    jobStatus'[j] \notin JobTerminal
             PROVE  \E q \in Procs : Closes(frame'[q], j, jobStatus')
  BY DEF SomeoneCloses, JobExists, Over
<1>1. JobExists(j) /\ Over(j, status) /\ jobStatus'[j] = jobStatus[j]
  OBVIOUS
<1>2. PICK q \in Procs : Closes(frame[q], j, jobStatus)
  BY <1>1 DEF SomeoneCloses
<1> QED
  BY <1>1, <1>2 DEF Closes

\* The step of a process that leaves the tables alone, and its duties too.
LEMMA SameDuties ==
  ASSUME UNCHANGED queueVars, NEW p \in Procs, NEW g, Put(p, g),
         \A j \in Jobs : JobExists(j) /\ Over(j, status) /\ jobStatus[j] \notin JobTerminal
           => (Closes(frame[p], j, jobStatus) => Closes(g, j, jobStatus))
  PROVE  Answered(p)
<1>1. jobStatus' = jobStatus /\ status' = status
  BY DEF queueVars
<1> QED
  BY <1>1 DEF Answered, Answers

\* One that has no duties.
LEMMA NoDuties ==
  ASSUME UNCHANGED queueVars, NEW p \in Procs, NEW g, Put(p, g),
         frame[p].pc \in {"idle", "cancelTasks", "readJob", "report", "reapWorkers"}
  PROVE  Answered(p)
<1>1. \A j \in Jobs : ~Closes(frame[p], j, jobStatus)
  BY DEF Closes, FinalizingAt
<1> QED
  BY <1>1, SameDuties

LEMMA RequestAnswers ==
  ASSUME NEW p \in Procs, Request(p)
  PROVE  Answered(p)
<1>1. frame[p].pc = "idle" /\ (\E g : Put(p, g)) /\ UNCHANGED queueVars
  BY DEF Request, ReceiveCancel, ReceiveReport, Free, At
<1> QED
  BY <1>1, NoDuties

\* One that goes on to finalize all it must answer for.
LEMMA MoveOnCloses ==
  ASSUME NEW p \in Procs, NEW jobs, FinalizeAll(p, jobs),
         \A j \in Jobs :
           (/\ JobExists(j) /\ Over(j, status') /\ jobStatus'[j] \notin JobTerminal
            /\ \/ ~Over(j, status)
               \/ jobStatus'[j] # jobStatus[j]
               \/ Closes(frame[p], j, jobStatus))
           => j \in jobs
  PROVE  Answered(p)
<1>1. PICK g \in Finalizing(jobs) : Put(p, g)
  BY DEF FinalizeAll
<1>2. \A j \in jobs : Closes(g, j, jobStatus')
  BY FinalizingCloses
<1> QED
  BY <1>1, <1>2 DEF Answered, Answers

\* A job gets over when the status of one of its tasks changes.
LEMMA SettledByChange ==
  ASSUME NEW j, ~Over(j, status), Over(j, status')
  PROVE  \E t \in Tasks : JobOf[t] = j /\ status'[t] # status[t]
BY DEF Over, TasksOf

LEMMA CancelAnswers ==
  ASSUME TableInv, FramesOK, [QueueNext]_queueVars,
         NEW p \in Procs, CancelTasks(p) \/ CancelJob(p)
  PROVE  Answered(p)
<1> DEFINE f == frame[p]
<1>1. f \in Frame
  BY DEF FramesOK
<1>2. CASE CancelTasks(p)
  <2> DEFINE b == RunningTasks(f.job) # {}
             g == [f EXCEPT !.pc = "cancelJob", !.flag = b]
  <2>1. jobStatus' = jobStatus
    BY <1>2 DEF CancelTasks, CancelJobTasks, jobVars
  <2>2. Put(p, g)
    BY <1>2 DEF CancelTasks
  <2>3. \A t \in Tasks : status'[t] # status[t] => JobOf[t] = f.job
    BY <1>2 DEF CancelTasks, CancelJobTasks, WriteTasks, TasksOf
  <2>4. \A t \in TasksOf(f.job) : status[t] = "running" => status'[t] = "running"
    BY <1>2 DEF CancelTasks, CancelJobTasks, WriteTasks, TasksOf
  <2>5. Over(f.job, status') => ~b
    BY <2>4 DEF Over, TaskTerminal, RunningTasks
  <2> HIDE DEF b
  <2>6. g.pc = "cancelJob" /\ g.job = f.job /\ g.flag = b
    BY <1>1 DEF Frame
  <2>7. \A j \in Jobs : ~Closes(f, j, jobStatus)
    BY <1>2 DEF Closes, FinalizingAt, CancelTasks, At
  <2>8. Answers(p, g)
    <3> SUFFICES ASSUME NEW j \in Jobs, Over(j, status'), ~Over(j, status)
                 PROVE  Closes(g, j, jobStatus')
      BY <2>1, <2>7 DEF Answers
    <3>1. j = f.job
      BY <2>3, SettledByChange
    <3> QED
      BY <2>5, <2>6, <3>1 DEF Closes
  <2> QED
    BY <2>2, <2>8 DEF Answered
<1>3. CASE CancelJob(p)
  <2>1. f.pc = "cancelJob" /\ f.job \in Jobs
    BY <1>3 DEF CancelJob, At, FramesOK, Informed
  <2>2. \A j \in Jobs : Closes(f, j, jobStatus) => j = f.job /\ ~f.flag
    BY <2>1 DEF Closes, FinalizingAt
  <2>3. CASE SetJobStatus(f.job, CancelTarget(p)) /\ FinalizeAll(p, {f.job})
    <3>1. status' = status
      BY <2>3 DEF SetJobStatus, taskVars
    <3>2. \A j \in Jobs : jobStatus'[j] # jobStatus[j] => j = f.job
      BY <2>3 DEF SetJobStatus, TableInv, QueueTypeOK
    <3> QED
      BY <2>2, <2>3, <3>1, <3>2, MoveOnCloses
  <2>4. CASE ~JobMay(jobStatus[f.job], CancelTarget(p)) /\ Put(p, Idle) /\ UNCHANGED queueVars
    <3>1. ASSUME NEW j \in Jobs, JobExists(j), jobStatus[j] \notin JobTerminal,
                 Closes(f, j, jobStatus)
          PROVE  FALSE
      <4>1. CancelTarget(p) = "cancelled" /\ j = f.job
        BY <2>2, <3>1 DEF CancelTarget
      <4>2. jobStatus[j] \in {"queued", "running", "cancelling"}
        BY <3>1 DEF TableInv, QueueTypeOK, JobStatus, JobTerminal, JobExists
      <4> QED
        BY <2>4, <4>1, <4>2 DEF JobMay
    <3> QED
      BY <2>4, <3>1, SameDuties
  <2> QED
    BY <1>3, <2>3, <2>4 DEF CancelJob
<1> QED
  BY <1>2, <1>3

\* A report settles a task of the job that it goes on to finalize.
LEMMA ReportAnswers ==
  ASSUME TableInv, FramesOK, ReportsOwnJob, NEW p \in Procs,
         ReadJob(p) \/ ReportCancelled(p) \/ ReportComplete(p) \/ ReportFail(p)
  PROVE  Answered(p)
<1> DEFINE f == frame[p]
<1>1. f.pc \in {"readJob", "report"} /\ f.job = JobOf[f.task]
  BY DEF ReadJob, ReportCancelled, ReportComplete, ReportFail, At, ReportsOwnJob, OwnJob
<1>2. CASE (\E g : Put(p, g)) /\ UNCHANGED queueVars
  BY <1>1, <1>2, NoDuties
<1>3. CASE /\ FinalizeAll(p, {f.job})
           /\ \/ CancelRunningTask(f.task, f.worker)
              \/ CompleteTask(f.task, f.worker)
              \/ FailTask(f.task, f.worker, f.report = "fail")
  <2>1. jobStatus' = jobStatus
    BY <1>3 DEF CancelRunningTask, CompleteTask, FailTask, jobVars
  <2>2. \A t \in Tasks : status'[t] # status[t] => t = f.task
    BY <1>3 DEF CancelRunningTask, CompleteTask, FailTask, WriteTasks, TableInv, QueueTypeOK
  <2>3. \A j \in Jobs : ~Closes(f, j, jobStatus)
    BY <1>1 DEF Closes, FinalizingAt
  <2>4. \A j \in Jobs : Over(j, status') /\ ~Over(j, status) => j = f.job
    BY <1>1, <2>2, SettledByChange
  <2> QED
    BY <1>3, <2>1, <2>3, <2>4, MoveOnCloses DEF JobExists
<1> QED
  BY <1>2, <1>3 DEF ReadJob, ReportCancelled, ReportComplete, ReportFail, FinalizeAll

LEMMA ReaperAnswers ==
  ASSUME TableInv, FramesOK, ReaperWake \/ ReapWorkers \/ ReapLeases
  PROVE  Answered(Reaper)
<1> DEFINE f == frame[Reaper]
<1>1. Reaper \in Procs
  BY DEF Procs
<1>2. jobStatus' = jobStatus
  BY DEF ReaperWake, ReapWorkers, ReapLeases, MarkDeadWorkers, ReapTasksForWorkers,
         ReapExpiredLeases, ResolveLost, jobVars
<1>3. CASE ReaperWake
  <2>1. status' = status
    BY <1>3 DEF ReaperWake, MarkDeadWorkers, taskVars
  <2>2. \A j \in Jobs : ~Closes(f, j, jobStatus)
    BY <1>3 DEF ReaperWake, Free, At, Closes, FinalizingAt
  <2>3. PICK g : Put(Reaper, g)
    BY <1>3 DEF ReaperWake
  <2>4. Answers(Reaper, g)
    BY <1>2, <2>1, <2>2 DEF Answers
  <2> QED
    BY <2>3, <2>4 DEF Answered
<1>4. CASE ReapWorkers
  <2> DEFINE lost == TasksHeldBy(f.dead)
             jobs == {JobOf[t] : t \in lost}
             g == [Idle EXCEPT !.pc = "reapLeases", !.todo = jobs]
  <2>1. \A t \in Tasks : status'[t] # status[t] => t \in lost
    BY <1>4 DEF ReapWorkers, ReapTasksForWorkers, ResolveLost, WriteTasks
  <2>2. \A j \in Jobs : ~Closes(f, j, jobStatus)
    BY <1>4 DEF ReapWorkers, At, Closes, FinalizingAt
  <2>3. Put(Reaper, g)
    BY <1>4 DEF ReapWorkers
  <2>4. g.pc = "reapLeases" /\ g.todo = jobs
    BY DEF Idle
  <2>5. \A j \in Jobs : Over(j, status') /\ ~Over(j, status) => j \in jobs
    BY <2>1, SettledByChange
  <2> HIDE DEF g, jobs
  <2>6. Answers(Reaper, g)
    BY <1>2, <2>2, <2>4, <2>5 DEF Answers, Closes
  <2> QED
    BY <2>3, <2>6 DEF Answered
<1>5. CASE ReapLeases
  <2> DEFINE jobs == f.todo \cup {JobOf[t] : t \in ExpiredTasks}
  <2>1. \A t \in Tasks : status'[t] # status[t] => t \in ExpiredTasks
    BY <1>5 DEF ReapLeases, ReapExpiredLeases, ResolveLost, WriteTasks
  <2>2. \A j \in Jobs : Closes(f, j, jobStatus) => j \in jobs
    BY <1>5 DEF ReapLeases, At, Closes, FinalizingAt
  <2>3. \A j \in Jobs : Over(j, status') /\ ~Over(j, status) => j \in jobs
    BY <2>1, SettledByChange
  <2>4. FinalizeAll(Reaper, jobs)
    BY <1>5 DEF ReapLeases
  <2> HIDE DEF jobs
  <2> QED
    BY <1>1, <1>2, <2>2, <2>3, <2>4, MoveOnCloses
<1> QED
  BY <1>3, <1>4, <1>5

\* The verdict picked for a job that is not closed is one the job may take.
LEMMA VerdictIsLegal ==
  ASSUME TableInv, ClosingInv, NEW p \in Procs, At(p, "verdict"), frame[p].job \in Jobs,
         JobExists(frame[p].job), jobStatus[frame[p].job] \notin JobTerminal
  PROVE  JobMay(jobStatus[frame[p].job], Verdict(frame[p].job, frame[p].succeeded))
<1> DEFINE j == frame[p].job
<1>1. jobStatus[j] \in {"queued", "running", "cancelling"}
  BY DEF TableInv, QueueTypeOK, JobStatus, JobTerminal, JobExists
<1>2. frame[p].succeeded => Earned(j, status)
  BY DEF ClosingInv, FramesSound, Sound, At
<1>3. jobStatus[j] = "queued" => ~Earned(j, status)
  BY DEF TableInv, QueuedJobIsUntouched, Earned, TasksOf
<1> QED
  BY <1>1, <1>2, <1>3 DEF JobMay, Verdict

LEMMA FinalizeAnswers ==
  ASSUME TableInv, FramesOK, ClosingInv, [QueueNext]_queueVars,
         NEW p \in Procs, Finalize(p)
  PROVE  Answered(p)
<1> DEFINE f == frame[p]
<1>1. f \in Frame /\ f.pc \in FinalizingAt /\ f.job \in Jobs
  BY DEF FramesOK, Informed, Finalize, Aggregate, ClearBest, LinkBest, CheckTasks, PickVerdict,
         Commit, At, FinalizingAt
<1>2. ASSUME UNCHANGED queueVars, f.pc # "commit",
             NEW g, Put(p, g), g.pc \in FinalizingAt \ {"commit"}, g.job = f.job, g.todo = f.todo
      PROVE  Answered(p)
  <2>1. \A j \in Jobs : Closes(f, j, jobStatus) => Closes(g, j, jobStatus)
    BY <1>1, <1>2 DEF Closes, FinalizingAt
  <2> QED
    BY <1>2, <2>1, SameDuties
<1>3. CASE Aggregate(p)
  <2>1. PICK t : Put(p, [f EXCEPT !.pc = "clear", !.best = IF t \in Exports THEN t ELSE NoTask,
                                  !.succeeded = Succeeded(f.job) # {}])
    BY <1>3 DEF Aggregate
  <2> DEFINE b == Succeeded(f.job) # {}
             u == IF t \in Exports THEN t ELSE NoTask
             g == [f EXCEPT !.pc = "clear", !.best = u, !.succeeded = b]
  <2>2. Put(p, g)
    BY <2>1
  <2> HIDE DEF b, u
  <2>3. g.pc = "clear" /\ g.job = f.job /\ g.todo = f.todo
    BY <1>1 DEF Frame
  <2>4. f.pc # "commit" /\ UNCHANGED queueVars
    BY <1>3 DEF Aggregate, At
  <2> QED
    BY <1>2, <2>2, <2>3, <2>4 DEF FinalizingAt
<1>4. CASE ClearBest(p) \/ LinkBest(p)
  <2>1. PICK where \in {"check", "link"}, u \in {f.best, NoTask} :
          Put(p, [f EXCEPT !.pc = where, !.best = u])
    BY <1>1, <1>4 DEF ClearBest, LinkBest, Frame
  <2> DEFINE g == [f EXCEPT !.pc = where, !.best = u]
  <2>2. g.pc = where /\ g.job = f.job /\ g.todo = f.todo
    BY <1>1 DEF Frame
  <2>3. f.pc # "commit" /\ UNCHANGED queueVars
    BY <1>4 DEF ClearBest, LinkBest, At
  <2> QED
    BY <1>2, <2>1, <2>2, <2>3 DEF FinalizingAt
<1>5. CASE CheckTasks(p)
  <2>1. f.pc = "check" /\ UNCHANGED queueVars
    BY <1>5 DEF CheckTasks, At
  <2>2. CASE AllTerminal(f.job)
    <3> DEFINE g == [f EXCEPT !.pc = "verdict"]
    <3>1. g.pc = "verdict" /\ g.job = f.job /\ g.todo = f.todo
      BY <1>1 DEF Frame
    <3>2. Put(p, g)
      BY <1>5, <2>2 DEF CheckTasks
    <3> QED
      BY <1>2, <2>1, <3>1, <3>2 DEF FinalizingAt
  <2>3. CASE ~AllTerminal(f.job)
    <3>1. FinalizeAll(p, f.todo)
      BY <1>5, <2>3 DEF CheckTasks
    <3>2. \A j \in Jobs : Over(j, status) /\ Closes(f, j, jobStatus) => j \in f.todo
      BY <2>1, <2>3 DEF Closes, FinalizingAt, Over, AllTerminal
    <3> QED
      BY <2>1, <3>1, <3>2, MoveOnCloses DEF queueVars, JobExists
  <2> QED
    BY <2>2, <2>3
<1>6. CASE PickVerdict(p)
  <2> DEFINE v == Verdict(f.job, f.succeeded)
             g == [f EXCEPT !.pc = "commit", !.succeeded = FALSE, !.final = v]
  <2>1. At(p, "verdict") /\ f.pc = "verdict" /\ UNCHANGED queueVars /\ Put(p, g)
    BY <1>6 DEF PickVerdict, At
  <2>2. JobExists(f.job) /\ jobStatus[f.job] \notin JobTerminal => JobMay(jobStatus[f.job], v)
    BY <1>1, <2>1, VerdictIsLegal
  <2> HIDE DEF v
  <2>3. g.pc = "commit" /\ g.job = f.job /\ g.final = v /\ g.todo = f.todo
    BY <1>1 DEF Frame
  <2>4. \A j \in Jobs : JobExists(j) /\ jobStatus[j] \notin JobTerminal =>
          (Closes(f, j, jobStatus) => Closes(g, j, jobStatus))
    BY <2>1, <2>2, <2>3 DEF Closes, FinalizingAt
  <2> HIDE DEF g
  <2> QED
    BY <2>1, <2>4, SameDuties
<1>7. CASE Commit(p)
  <2>1. f.pc = "commit" /\ f.final \in JobTerminal /\ FinalizeAll(p, f.todo)
    BY <1>7 DEF Commit, At, FramesOK, Informed
  <2>2. /\ status' = status
        /\ \A j \in Jobs : jobStatus'[j] # jobStatus[j] => jobStatus'[j] \in JobTerminal
    BY <1>7, <2>1 DEF Commit, SetJobStatus, taskVars, queueVars, TableInv, QueueTypeOK
  <2>3. JobExists(f.job) /\ JobMay(jobStatus[f.job], f.final) => jobStatus'[f.job] \in JobTerminal
    BY <1>1, <1>7, <2>1 DEF Commit, SetJobStatus, TableInv, QueueTypeOK
  <2>4. \A j \in Jobs : JobExists(j) /\ jobStatus'[j] \notin JobTerminal /\ Closes(f, j, jobStatus)
          => j \in f.todo
    BY <2>1, <2>3 DEF Closes, FinalizingAt
  <2> QED
    BY <2>1, <2>2, <2>4, MoveOnCloses
<1> QED
  BY <1>3, <1>4, <1>5, <1>6, <1>7 DEF Finalize

\* A submitted job has a queued task, a leased or started one is not over: a
\* job that is over after a step no process takes was so before.
LEMMA QuietSettlesNone ==
  ASSUME TableInv, QuietStep, NEW i \in Jobs, JobExists(i)', Over(i, status')
  PROVE  JobExists(i) /\ Over(i, status) /\ jobStatus'[i] = jobStatus[i]
<1>1. ASSUME NEW k \in Jobs, SubmitJob(k), NEW j \in Jobs, jobStatus'[j] # "absent", Over(j, status')
      PROVE  JobExists(j) /\ Over(j, status) /\ jobStatus'[j] = jobStatus[j]
  <2>1. PICK t \in Tasks : JobOf[t] = k
    BY JobsHaveTasks DEF TasksOf
  <2>2. status'[t] = "queued"
    BY <1>1, <2>1 DEF SubmitJob, CreateJobWithTasks
  <2>3. j # k
    BY <1>1, <2>1, <2>2 DEF Over, TasksOf, TaskTerminal
  <2> QED
    BY <1>1, <2>3
    DEF SubmitJob, CreateJobWithTasks, TableInv, QueueTypeOK, JobExists, Over, TasksOf
<1>2. ASSUME NEW w \in Workers, NEW t \in Tasks, LeaseTask(w, t),
             NEW j \in Jobs, jobStatus'[j] # "absent", Over(j, status')
      PROVE  JobExists(j) /\ Over(j, status) /\ jobStatus'[j] = jobStatus[j]
  <2>1. status' = [status EXCEPT ![t] = "leased"]
    BY <1>2 DEF LeaseTask, WriteTasks
  <2>2. status'[t] = "leased"
    BY <2>1 DEF TableInv, QueueTypeOK
  <2>3. JobOf[t] # j
    BY <1>2, <2>2 DEF Over, TasksOf, TaskTerminal
  <2>4. jobStatus'[j] = jobStatus[j]
    BY <1>2, <2>3 DEF LeaseTask, MaybeJobRunning, TableInv, QueueTypeOK
  <2> QED
    BY <1>2, <2>1, <2>3, <2>4 DEF Over, TasksOf, JobExists, TableInv, QueueTypeOK
<1>3. ASSUME NEW t \in Tasks, NEW w \in Workers, Start(t, w),
             NEW j \in Jobs, jobStatus'[j] # "absent", Over(j, status')
      PROVE  JobExists(j) /\ Over(j, status) /\ jobStatus'[j] = jobStatus[j]
  <2>1. status' = [status EXCEPT ![t] = "running"] /\ jobStatus' = jobStatus
    BY <1>3 DEF Start, StartTask, jobVars
  <2>2. status'[t] = "running"
    BY <2>1 DEF TableInv, QueueTypeOK
  <2>3. JobOf[t] # j
    BY <1>3, <2>2 DEF Over, TasksOf, TaskTerminal
  <2> QED
    BY <1>3, <2>1, <2>3 DEF Over, TasksOf, JobExists
<1>4. ASSUME \/ \E w \in Workers : Register(w) \/ Heartbeat(w)
             \/ TimePasses \/ UNCHANGED allVars
      PROVE  jobStatus' = jobStatus /\ status' = status
  BY <1>4 DEF Register, RegisterWorker, Heartbeat, HeartbeatWorker, TimePasses, LeaseLapse,
              FallSilent, allVars, queueVars, jobVars, taskVars
<1> QED
  BY <1>1, <1>2, <1>3, <1>4 DEF QuietStep, Lease, LeaseNextTask, JobExists

LEMMA OneCallAnswers ==
  ASSUME TableInv, SomeoneCloses, QuietStep
  PROVE  SomeoneCloses'
<1>1. frame' = frame
  BY QuietFrames DEF serverVars
<1> QED
  BY <1>1, QuietSettlesNone, QuietCloses DEF JobExists

\* Whatever a process does, it answers for it.
LEMMA ActorAnswers ==
  ASSUME TableInv, FramesOK, ClosingInv, ReportsOwnJob, [QueueNext]_queueVars,
         NEW p \in Procs, ActorStep(p)
  PROVE  Answered(p)
BY RequestAnswers, CancelAnswers, ReportAnswers, FinalizeAnswers, ReaperAnswers
DEF ActorStep, Continue

\* Processes write jobs through SetJobStatus only, which creates none.
LEMMA ActorKeepsRows ==
  ASSUME TableInv, FramesOK, [QueueNext]_queueVars, NEW p \in Procs, ActorStep(p)
  PROVE  /\ \A j \in Jobs : jobStatus'[j] # "absent" => JobExists(j)
         /\ \A j \in Jobs : jobStatus[j] \in JobTerminal => jobStatus'[j] = jobStatus[j]
<1>1. CASE \E s : SetJobStatus(frame[p].job, s)
  <2>1. \A j \in Jobs : jobStatus'[j] # jobStatus[j] => JobExists(j)
    BY <1>1 DEF SetJobStatus, TableInv, QueueTypeOK
  <2> QED
    BY <2>1, JobRowStays DEF JobExists
<1>2. CASE jobStatus' = jobStatus
  BY <1>2 DEF JobExists
<1>3. (\E s : SetJobStatus(frame[p].job, s)) \/ jobStatus' = jobStatus
  BY DEF ActorStep, Request, ReceiveCancel, ReceiveReport, Continue, CancelTasks, CancelJobTasks,
         CancelJob, ReadJob, ReportCancelled, ReportComplete, ReportFail, CancelRunningTask,
         CompleteTask, FailTask, Finalize, Aggregate, ClearBest, LinkBest, CheckTasks, PickVerdict,
         Commit, ReaperWake, ReapWorkers, ReapLeases, MarkDeadWorkers, ReapTasksForWorkers,
         ReapExpiredLeases, ResolveLost, queueVars, jobVars
<1> QED
  BY <1>1, <1>2, <1>3

\* Every report in progress is about a task of the job it will finalize, and as
\* long as the server has not restarted every job whose tasks are over has
\* someone bound to close it.
HandOverInv == ReportsOwnJob /\ (crashes = 0 => SomeoneCloses)

\* The handlers and the reaper never drop a job they have to close (app.py,
\* every caller of _finalize_job), restarts apart.
THEOREM HandOverInvariant == ServerSpec => []HandOverInv
<1>1. ServerInit => HandOverInv
  <2>1. ServerInit => ReportsOwnJob
    BY DEF ServerInit, ReportsOwnJob, OwnJob, Idle
  <2>2. ServerInit => SomeoneCloses
    BY DEF ServerInit, QueueInit, SomeoneCloses, JobExists
  <2> QED
    BY <2>1, <2>2 DEF HandOverInv
<1>2. ServerInv /\ ClosingInv /\ ColumnsOK /\ HandOverInv /\ [ServerNext]_allVars => HandOverInv'
  <2> SUFFICES ASSUME ServerInv, ClosingInv, ColumnsOK, HandOverInv, [ServerNext]_allVars,
                      crashes' = 0
               PROVE  SomeoneCloses'
    BY OwnJobStep DEF HandOverInv, ServerInv
  <2>1. TableInv /\ FramesOK /\ ReportsOwnJob /\ [QueueNext]_queueVars
    BY ServerStepIsQueueStep DEF ServerInv, TableInv, HandOverInv
  <2>2. ~Restart
    BY DEF Restart, ColumnsOK
  <2>3. crashes = 0
    BY <2>2 DEF ServerNext, SubmitJob, Register, Heartbeat, Lease, Start, TimePasses, serverVars,
                allVars, Request, ReceiveCancel, ReceiveReport, Continue, CancelTasks, CancelJob,
                ReadJob, ReportCancelled, ReportComplete, ReportFail, Finalize, Aggregate, ClearBest,
                LinkBest, CheckTasks, PickVerdict, Commit, ReaperWake, ReaperContinue, ReapWorkers,
                ReapLeases
  <2>4. SomeoneCloses
    BY <2>3 DEF HandOverInv
  <2>5. ASSUME NEW p \in Procs, ActorStep(p) PROVE SomeoneCloses'
    BY <2>1, <2>4, <2>5, ActorAnswers, ActorKeepsRows, AnswerIsEnough
  <2> QED
    BY <2>1, <2>2, <2>4, <2>5, OneCallAnswers, StepKinds
<1>3. ServerInv /\ ServerTypeOK => ColumnsOK
  BY DEF ServerTypeOK, ColumnsOK
<1> QED
  BY <1>1, <1>2, <1>3, ServerInvariant, ClosingInvariant, ServerTypeCorrect, PTL DEF ServerSpec

\* Whatever requests, reports and reaper iterations interleave, a job whose tasks
\* have all settled is closed or some process is on its way to closing it, as
\* long as the server has not restarted.
THEOREM NoJobIsLeftBehind == ServerSpec => [](crashes = 0 => NoJobLeftBehind)
<1>1. ASSUME NEW p \in Procs, NEW j \in Jobs, Closes(frame[p], j, jobStatus)
      PROVE  Attends(p, j)
  BY <1>1 DEF Closes, Attends, At, FinalizingAt
<1>2. HandOverInv => (crashes = 0 => NoJobLeftBehind)
  BY <1>1 DEF HandOverInv, SomeoneCloses, NoJobLeftBehind, AllTerminal, Over
<1> QED
  BY <1>2, HandOverInvariant, PTL

=============================================================================
