------------------------- MODULE ClusterRaceProofs -------------------------
(***************************************************************************)
(* Theorems about what overlapping requests can and cannot do to a job,    *)
(* for any numbers of jobs, tasks, workers, threads and restarts: closing  *)
(* it wrongly takes two processes at work on it, its links stay within the *)
(* requests in progress, and once a cancellation has taken hold it holds.  *)
(***************************************************************************)
EXTENDS ClusterServerProofs

USE QueueAssumption, ServerAssumption

-----------------------------------------------------------------------------
(* Where a step leaves its process                                         *)

LEMMA PutFrame ==
  ASSUME FramesOK, NEW p \in Procs, NEW g, Put(p, g)
  PROVE  \A q \in Procs : frame'[q] = IF q = p THEN g ELSE frame[q]
BY DEF FramesOK, Put

LEMMA FinalizingPC ==
  ASSUME NEW jobs, NEW g \in Finalizing(jobs)
  PROVE  g.pc \in {"idle", "aggregate"}
<1>1. CASE jobs = {}
  BY <1>1 DEF Finalizing, Idle
<1>2. CASE jobs # {}
  <2>1. PICK j \in jobs : g = [Idle EXCEPT !.pc = "aggregate", !.job = j, !.todo = jobs \ {j}]
    BY <1>2 DEF Finalizing
  <2> QED
    BY <2>1 DEF Idle
<1> QED
  BY <1>1, <1>2

\* The steps at which a process has read nothing yet that it will act on.
Uninformed == {"idle", "cancelTasks", "readJob", "reapWorkers", "reapLeases", "aggregate"}

\* Where a step leaves its process, which then has frame g.
Arrives(p, g) ==
  \/ g.pc \in Uninformed
  \/ CancelTasks(p) /\ g.pc = "cancelJob"
  \/ ReadJob(p) /\ g.pc = "report" /\ g.flag = Cancelled(frame[p].job)
  \/ /\ Aggregate(p) /\ g.pc = "clear"
     /\ g.succeeded = (Succeeded(frame[p].job) # {})
  \/ ClearBest(p) /\ g.pc \in {"link", "check"} /\ g.best = frame[p].best
     /\ (g.pc = "check" <=> g.best = NoTask)
  \/ LinkBest(p) /\ g.pc = "check"
  \/ CheckTasks(p) /\ g.pc = "verdict"
  \/ PickVerdict(p) /\ g.pc = "commit" /\ g.final = Verdict(frame[p].job, frame[p].succeeded)

LEMMA ActorArrives ==
  ASSUME FramesOK, NEW p \in Procs, ActorStep(p), NEW g, Put(p, g)
  PROVE  /\ Arrives(p, g)
         /\ g.pc \notin Uninformed => g.job = frame[p].job /\ g.todo = frame[p].todo
         /\ g.pc \in {"check", "verdict"} => g.succeeded = frame[p].succeeded
         /\ g.pc = "link" => g.succeeded = frame[p].succeeded
<1> DEFINE f == frame[p]
           Goal == /\ Arrives(p, g)
                   /\ g.pc \notin Uninformed => g.job = f.job /\ g.todo = f.todo
                   /\ g.pc \in {"check", "verdict"} => g.succeeded = f.succeeded
                   /\ g.pc = "link" => g.succeeded = f.succeeded
<1>1. f \in Frame
  BY DEF FramesOK
<1>2. \A r : Put(p, r) => r = g
  BY DEF Put, FramesOK
<1>3. ASSUME g.pc \in Uninformed PROVE Goal
  BY <1>3 DEF Arrives, Uninformed
<1>4. ASSUME NEW jobs, FinalizeAll(p, jobs) PROVE Goal
  BY <1>2, <1>3, <1>4, FinalizingPC DEF FinalizeAll, Uninformed
<1>5. ASSUME Put(p, Idle) PROVE Goal
  BY <1>2, <1>3, <1>5 DEF Idle, Uninformed
<1>6. CASE Request(p)
  <2>1. g.pc \in Uninformed
    BY <1>2, <1>6 DEF Request, ReceiveCancel, ReceiveReport, Idle, Uninformed
  <2> QED
    BY <1>3, <2>1
<1>7. CASE CancelTasks(p)
  <2>1. g = [f EXCEPT !.pc = "cancelJob", !.flag = RunningTasks(f.job) # {}]
    BY <1>2, <1>7 DEF CancelTasks
  <2>2. g.pc = "cancelJob" /\ g.job = f.job /\ g.todo = f.todo
    BY <1>1, <2>1 DEF Frame
  <2> QED
    BY <1>7, <2>2 DEF Arrives, Uninformed
<1>8. CASE CancelJob(p) \/ ReportCancelled(p) \/ ReportComplete(p) \/ ReportFail(p) \/ Commit(p)
  BY <1>4, <1>5, <1>8 DEF CancelJob, ReportCancelled, ReportComplete, ReportFail, Commit
<1>9. CASE ReadJob(p)
  <2>1. g = [f EXCEPT !.pc = "report", !.flag = Cancelled(f.job)]
    BY <1>2, <1>9 DEF ReadJob
  <2>2. g.pc = "report" /\ g.job = f.job /\ g.todo = f.todo /\ g.flag = Cancelled(f.job)
    BY <1>1, <2>1 DEF Frame
  <2> QED
    BY <1>9, <2>2 DEF Arrives, Uninformed
<1>10. CASE Aggregate(p)
  <2>1. PICK t : g = [f EXCEPT !.pc = "clear", !.best = IF t \in Exports THEN t ELSE NoTask,
                               !.succeeded = Succeeded(f.job) # {}]
    BY <1>2, <1>10 DEF Aggregate
  <2> DEFINE b == Succeeded(f.job) # {}
             u == IF t \in Exports THEN t ELSE NoTask
  <2>2. g = [f EXCEPT !.pc = "clear", !.best = u, !.succeeded = b]
    BY <2>1
  <2> HIDE DEF b, u
  <2>3. g.pc = "clear" /\ g.job = f.job /\ g.todo = f.todo /\ g.succeeded = b
    BY <1>1, <2>2 DEF Frame
  <2> QED
    BY <1>10, <2>3 DEF Arrives, Uninformed, b
<1>11. CASE ClearBest(p)
  <2>1. g = [f EXCEPT !.pc = IF f.best = NoTask THEN "check" ELSE "link"]
    BY <1>2, <1>11 DEF ClearBest
  <2>2. /\ g.pc = IF f.best = NoTask THEN "check" ELSE "link"
        /\ g.job = f.job /\ g.todo = f.todo /\ g.best = f.best /\ g.succeeded = f.succeeded
    BY <1>1, <2>1 DEF Frame
  <2> QED
    BY <1>11, <2>2 DEF Arrives, Uninformed
<1>12. CASE LinkBest(p)
  <2>1. g = [f EXCEPT !.pc = "check", !.best = NoTask]
    BY <1>2, <1>12 DEF LinkBest
  <2>2. g.pc = "check" /\ g.job = f.job /\ g.todo = f.todo /\ g.succeeded = f.succeeded
    BY <1>1, <2>1 DEF Frame
  <2> QED
    BY <1>12, <2>2 DEF Arrives, Uninformed
<1>13. CASE CheckTasks(p)
  <2>1. ASSUME g = [f EXCEPT !.pc = "verdict"] PROVE Goal
    <3>1. g.pc = "verdict" /\ g.job = f.job /\ g.todo = f.todo /\ g.succeeded = f.succeeded
      BY <1>1, <2>1 DEF Frame
    <3> QED
      BY <1>13, <3>1 DEF Arrives, Uninformed
  <2> QED
    BY <1>2, <1>4, <1>13, <2>1 DEF CheckTasks
<1>14. CASE PickVerdict(p)
  <2> DEFINE v == Verdict(f.job, f.succeeded)
  <2>1. g = [f EXCEPT !.pc = "commit", !.succeeded = FALSE, !.final = v]
    BY <1>2, <1>14 DEF PickVerdict
  <2> HIDE DEF v
  <2>2. g.pc = "commit" /\ g.job = f.job /\ g.todo = f.todo /\ g.final = v
    BY <1>1, <2>1 DEF Frame
  <2> QED
    BY <1>14, <2>2 DEF Arrives, Uninformed, v
<1>15. CASE p = Reaper /\ (ReaperWake \/ ReapWorkers)
  <2>1. g.pc \in Uninformed
    BY <1>2, <1>15 DEF ReaperWake, ReapWorkers, Idle, Uninformed
  <2> QED
    BY <1>3, <2>1
<1>16. CASE p = Reaper /\ ReapLeases
  BY <1>4, <1>16 DEF ReapLeases
<1> QED
  BY <1>6, <1>7, <1>8, <1>9, <1>10, <1>11, <1>12, <1>13, <1>14, <1>15, <1>16
  DEF ActorStep, Continue, Finalize

\* What the snapshot of a job says of the model to link: the frame f names a
\* best task that has one, or there is no such task to name.
KnowsBest(f) ==
  IF f.best = NoTask
  THEN BestTasks(f.job) = {} \/ ~(BestTasks(f.job) \subseteq Exports)
  ELSE f.best \in BestTasks(f.job) \cap Exports

LEMMA AggregateKnows ==
  ASSUME FramesOK, NEW p \in Procs, Aggregate(p), NEW g, Put(p, g)
  PROVE  /\ g.pc = "clear" /\ g.job = frame[p].job
         /\ g.succeeded = (Succeeded(g.job) # {})
         /\ KnowsBest(g)
<1> DEFINE f == frame[p]
<1>1. f \in Frame /\ \A r : Put(p, r) => r = g
  BY DEF FramesOK, Put
<1>2. PICK t \in (IF BestTasks(f.job) = {} THEN {NoTask} ELSE BestTasks(f.job)) :
        g = [f EXCEPT !.pc = "clear", !.best = IF t \in Exports THEN t ELSE NoTask,
                      !.succeeded = Succeeded(f.job) # {}]
  BY <1>1 DEF Aggregate
<1> DEFINE b == Succeeded(f.job) # {}
           u == IF t \in Exports THEN t ELSE NoTask
<1>3. g = [f EXCEPT !.pc = "clear", !.best = u, !.succeeded = b]
  BY <1>2
<1> HIDE DEF b, u
<1>4. g.pc = "clear" /\ g.job = f.job /\ g.best = u /\ g.succeeded = b
  BY <1>1, <1>3 DEF Frame
<1>5. BestTasks(f.job) \subseteq Tasks
  BY DEF BestTasks, Succeeded, TasksOf
<1>6. KnowsBest(g)
  BY <1>2, <1>4, <1>5 DEF KnowsBest, u
<1> QED
  BY <1>4, <1>6 DEF b

-----------------------------------------------------------------------------
(* What a settled task keeps                                               *)

LEMMA SettledTaskKeeps ==
  ASSUME TableInv, FramesOK, [ServerNext]_allVars, NEW t \in Tasks, status[t] \in TaskTerminal
  PROVE  status'[t] = status[t] /\ result'[t] = result[t]
<1>1. [QueueNext]_queueVars
  BY ServerStepIsQueueStep DEF TableInv
<1>2. ASSUME NEW p \in Procs, ReportComplete(p) PROVE result'[t] = result[t]
  <2>1. CASE UNCHANGED result
    BY <2>1
  <2>2. CASE /\ CompleteTask(frame[p].task, frame[p].worker)
             /\ result' = [result EXCEPT ![frame[p].task] = frame[p].value]
    <3>1. status[frame[p].task] = "running"
      BY <2>2 DEF CompleteTask, TaskMay
    <3> QED
      BY <2>2, <3>1 DEF TaskTerminal
  <2> QED
    BY <1>2, <2>1, <2>2 DEF ReportComplete
<1>3. ASSUME NEW p \in Procs, ActorStep(p), ~ReportComplete(p) PROVE UNCHANGED result
  BY <1>3
  DEF ActorStep, Request, ReceiveCancel, ReceiveReport, Continue, CancelTasks, CancelJob,
      ReadJob, ReportCancelled, ReportFail, Finalize, Aggregate, ClearBest, LinkBest, CheckTasks,
      PickVerdict, Commit, ReaperWake, ReapWorkers, ReapLeases
<1>4. result'[t] = result[t]
  BY <1>2, <1>3, StepKinds, QuietFrames DEF serverVars, Restart
<1> QED
  BY <1>1, <1>4, SettledTaskStays

\* Only the finalizers write links.
LEMMA LinksWritten ==
  ASSUME NEW p \in Procs, ActorStep(p), ~ClearBest(p), ~LinkBest(p)
  PROVE  bestLinks' = bestLinks
BY DEF ActorStep, Request, ReceiveCancel, ReceiveReport, Continue, CancelTasks, CancelJob,
       ReadJob, ReportCancelled, ReportComplete, ReportFail, Finalize, Aggregate, CheckTasks,
       PickVerdict, Commit, ReaperWake, ReapWorkers, ReapLeases

-----------------------------------------------------------------------------
(* The links of a job                                                      *)

Busy == {q \in Procs : ~At(q, "idle")}

BusyBounded == IsFiniteSet(Busy) /\ Cardinality(Busy) =< MaxBusy

LEMMA BusyStep ==
  ASSUME FramesOK, BusyBounded, [ServerNext]_allVars
  PROVE  BusyBounded'
<1>1. CASE QuietStep
  <2>1. Busy' = Busy
    BY <1>1, QuietFrames DEF serverVars, Busy, At
  <2> QED
    BY <2>1 DEF BusyBounded
<1>2. CASE Restart
  <2>1. Busy' = {}
    BY <1>2 DEF Restart, Busy, At, Idle
  <2> QED
    BY <2>1, FS_EmptySet DEF BusyBounded
<1>3. ASSUME NEW p \in Procs, ActorStep(p) PROVE BusyBounded'
  <2>1. PICK g : Put(p, g)
    BY <1>3, ActorPuts
  <2>2. Busy' \subseteq Busy \cup {p}
    BY <2>1, PutFrame DEF Busy, At
  <2>3. CASE frame[p].pc # "idle"
    <3>1. Busy' \subseteq Busy
      BY <2>2, <2>3 DEF Busy, At
    <3>2. IsFiniteSet(Busy') /\ Cardinality(Busy') =< Cardinality(Busy)
      BY <3>1, FS_Subset DEF BusyBounded
    <3> QED
      BY <3>2, FS_CardinalityType DEF BusyBounded
  <2>4. CASE Free(p)
    <3>1. p \notin Busy /\ Cardinality(Busy) < MaxBusy
      BY <2>4 DEF Free, Busy
    <3>2. /\ IsFiniteSet(Busy \cup {p})
          /\ Cardinality(Busy \cup {p}) = Cardinality(Busy) + 1
      BY <3>1, FS_AddElement DEF BusyBounded
    <3>3. IsFiniteSet(Busy') /\ Cardinality(Busy') =< Cardinality(Busy \cup {p})
      BY <2>2, <3>2, FS_Subset
    <3> QED
      BY <3>1, <3>2, <3>3, FS_CardinalityType DEF BusyBounded
  <2> QED
    BY <1>3, <2>3, <2>4, ActorPuts
<1> QED
  BY <1>1, <1>2, <1>3, StepKinds

\* Task t is one that job j may name as its best: it succeeded with a metric
\* and a model.
Worthy(t, j) == t \in Succeeded(j) /\ t \in Exports /\ result[t] # NoMetric

LEMMA WorthyStays ==
  ASSUME TableInv, FramesOK, [ServerNext]_allVars, NEW t, NEW j, Worthy(t, j)
  PROVE  Worthy(t, j)'
<1>1. t \in Tasks /\ status[t] = "succeeded"
  BY DEF Worthy, Succeeded, TasksOf
<1>2. status'[t] = status[t] /\ result'[t] = result[t]
  BY <1>1, SettledTaskKeeps DEF TaskTerminal
<1> QED
  BY <1>1, <1>2 DEF Worthy, Succeeded

\* A finalizer that is about to link names a worthy task.
NamesWorthy(f) ==
  f.pc \in {"clear", "link"} /\ f.best # NoTask => Worthy(f.best, f.job)

BestIsWorthy == \A p \in Procs : NamesWorthy(frame[p])

LEMMA WorthyStep ==
  ASSUME TableInv, FramesOK, BestIsWorthy, [ServerNext]_allVars
  PROVE  BestIsWorthy'
<1>1. ASSUME NEW f, NamesWorthy(f) PROVE NamesWorthy(f)'
  BY <1>1, WorthyStays DEF NamesWorthy
<1>2. CASE QuietStep
  BY <1>1, <1>2, QuietFrames DEF serverVars, BestIsWorthy, NamesWorthy
<1>3. CASE Restart
  BY <1>3 DEF Restart, BestIsWorthy, NamesWorthy, Idle
<1>4. ASSUME NEW p \in Procs, ActorStep(p) PROVE BestIsWorthy'
  <2>1. PICK g : Put(p, g)
    BY <1>4, ActorPuts
  <2>2. NamesWorthy(g)
    <3>1. CASE Aggregate(p)
      BY <2>1, <3>1, AggregateKnows DEF KnowsBest, BestTasks, NamesWorthy, Worthy
    <3>2. CASE ClearBest(p) /\ g.pc = "link"
      <4>1. g.job = frame[p].job /\ g.best = frame[p].best /\ frame[p].pc = "clear"
        BY <1>4, <2>1, <3>2, ActorArrives
        DEF Arrives, Uninformed, ClearBest, CancelTasks, ReadJob, Aggregate, LinkBest, CheckTasks,
            PickVerdict, At
      <4> QED
        BY <4>1 DEF BestIsWorthy, NamesWorthy
    <3>3. CASE g.pc \notin {"clear", "link"}
      BY <3>3 DEF NamesWorthy
    <3> QED
      BY <1>4, <2>1, <3>1, <3>2, <3>3, ActorArrives DEF Arrives, Uninformed
  <2>3. NamesWorthy(g)'
    BY <1>1, <2>2
  <2>4. \A q \in Procs : q # p => NamesWorthy(frame[q])'
    <3> SUFFICES ASSUME NEW q \in Procs, q # p PROVE NamesWorthy(frame[q])'
      OBVIOUS
    <3>1. PICK f : f = frame[q]
      OBVIOUS
    <3>2. frame'[q] = f /\ NamesWorthy(f)'
      BY <1>1, <2>1, <3>1, PutFrame DEF BestIsWorthy
    <3> QED
      BY <3>2 DEF NamesWorthy
  <2>5. frame'[p] = g
    BY <2>1, PutFrame
  <2>6. NamesWorthy(frame[p])'
    BY <2>3, <2>5 DEF NamesWorthy
  <2> QED
    BY <2>4, <2>6 DEF BestIsWorthy
<1> QED
  BY <1>2, <1>3, <1>4, StepKinds

\* The bound for one job: its links and those about to be written.
LinksBounded(j) ==
  /\ Cardinality(bestLinks[j]) + Cardinality(Linking(j)) =< MaxBusy
  /\ \A t \in bestLinks[j] : Worthy(t, j)

LEMMA SubsetCount ==
  ASSUME NEW S, NEW T, IsFiniteSet(T), S \subseteq T
  PROVE  /\ IsFiniteSet(S) /\ Cardinality(S) \in Nat
         /\ Cardinality(T) \in Nat /\ Cardinality(S) =< Cardinality(T)
BY FS_Subset, FS_CardinalityType

LEMMA LinksStep ==
  ASSUME TableInv, FramesOK, ColumnsOK, BusyBounded, BestIsWorthy, [ServerNext]_allVars,
         NEW j \in Jobs, LinksBounded(j)
  PROVE  LinksBounded(j)'
<1>1. /\ IsFiniteSet(bestLinks[j]) /\ IsFiniteSet(Linking(j))
      /\ Cardinality(bestLinks[j]) \in Nat /\ Cardinality(Linking(j)) \in Nat
  <2>1. bestLinks[j] \subseteq Tasks /\ Linking(j) \subseteq Busy
    BY DEF ColumnsOK, Linking, Busy, At
  <2> QED
    BY <2>1, SubsetCount DEF BusyBounded
<1>2. ASSUME bestLinks'[j] \subseteq bestLinks[j], Linking(j)' \subseteq Linking(j)
      PROVE  LinksBounded(j)'
  <2>1. /\ Cardinality(bestLinks'[j]) \in Nat
        /\ Cardinality(bestLinks'[j]) =< Cardinality(bestLinks[j])
    BY <1>1, <1>2, SubsetCount
  <2>2. /\ Cardinality(Linking(j)') \in Nat
        /\ Cardinality(Linking(j)') =< Cardinality(Linking(j))
    BY <1>1, <1>2, SubsetCount
  <2>3. \A t \in bestLinks'[j] : Worthy(t, j)'
    BY <1>2, WorthyStays DEF LinksBounded
  <2>4. Cardinality(bestLinks'[j]) + Cardinality(Linking(j)') =< MaxBusy
    BY <1>1, <2>1, <2>2 DEF LinksBounded
  <2> QED
    BY <2>3, <2>4 DEF LinksBounded
<1>3. CASE QuietStep
  <2>1. bestLinks' = bestLinks /\ frame' = frame
    BY <1>3, QuietFrames DEF serverVars
  <2> QED
    BY <1>2, <2>1 DEF Linking, At
<1>4. CASE Restart
  <2>1. bestLinks' = bestLinks /\ \A q \in Procs : frame'[q].pc = "idle"
    BY <1>4 DEF Restart, Idle
  <2> QED
    BY <1>2, <2>1 DEF Linking, At
<1>5. ASSUME NEW p \in Procs, ActorStep(p) PROVE LinksBounded(j)'
  <2> DEFINE f == frame[p]
  <2>1. PICK g : Put(p, g)
    BY <1>5, ActorPuts
  <2>2. \A q \in Procs : frame'[q] = IF q = p THEN g ELSE frame[q]
    BY <2>1, PutFrame
  <2>3. CASE ClearBest(p) /\ f.job = j
    <3>1. bestLinks'[j] = {}
      BY <2>3 DEF ClearBest, ColumnsOK
    <3>2. Linking(j)' \subseteq Busy'
      BY DEF Linking, Busy, At
    <3>3. BusyBounded'
      BY BusyStep
    <3>4. /\ Cardinality(Linking(j)') \in Nat /\ Cardinality(Busy') \in Nat
          /\ Cardinality(Linking(j)') =< Cardinality(Busy')
      BY <3>2, <3>3, SubsetCount DEF BusyBounded
    <3>5. Cardinality(bestLinks'[j]) = 0
      BY <3>1, FS_EmptySet, Zenon
    <3>6. Cardinality(bestLinks'[j]) + Cardinality(Linking(j)') =< MaxBusy
      BY <3>3, <3>4, <3>5 DEF BusyBounded
    <3> QED
      BY <3>1, <3>6 DEF LinksBounded
  <2>4. CASE LinkBest(p) /\ f.job = j
    <3>1. f.pc = "link" /\ f.best \in Tasks
      BY <2>4 DEF LinkBest, At, FramesOK, Informed
    <3>2. PICK t : t = f.best
      OBVIOUS
    <3>3. Worthy(t, j)
      BY <2>4, <3>1, <3>2 DEF BestIsWorthy, NamesWorthy
    <3>4. bestLinks'[j] = bestLinks[j] \cup {t}
      BY <2>4, <3>2 DEF LinkBest, ColumnsOK
    <3>5. /\ Cardinality(bestLinks'[j]) \in Nat
          /\ Cardinality(bestLinks'[j]) =< Cardinality(bestLinks[j]) + 1
      <4>1. /\ IsFiniteSet(bestLinks[j] \cup {t})
            /\ \/ Cardinality(bestLinks[j] \cup {t}) = Cardinality(bestLinks[j])
               \/ Cardinality(bestLinks[j] \cup {t}) = Cardinality(bestLinks[j]) + 1
        BY <1>1, FS_AddElement
      <4> QED
        BY <1>1, <3>4, <4>1
    <3>6. g.pc = "check"
      <4>1. f \in Frame
        BY DEF FramesOK
      <4>2. g = [f EXCEPT !.pc = "check", !.best = NoTask]
        BY <2>1, <2>4 DEF LinkBest, Put, FramesOK
      <4> QED
        BY <4>1, <4>2 DEF Frame
    <3>7. p \in Linking(j) /\ Linking(j)' \subseteq Linking(j) \ {p}
      BY <2>2, <2>4, <3>1, <3>6 DEF Linking, At
    <3>8. /\ IsFiniteSet(Linking(j) \ {p})
          /\ Cardinality(Linking(j) \ {p}) = Cardinality(Linking(j)) - 1
      BY <1>1, <3>7, FS_RemoveElement
    <3>9. /\ Cardinality(Linking(j)') \in Nat
          /\ Cardinality(Linking(j)') =< Cardinality(Linking(j)) - 1
      BY <3>7, <3>8, SubsetCount
    <3>10. Cardinality(bestLinks'[j]) + Cardinality(Linking(j)') =< MaxBusy
      BY <1>1, <3>5, <3>9 DEF LinksBounded
    <3>11. \A u \in bestLinks'[j] : Worthy(u, j)'
      BY <3>3, <3>4, WorthyStays DEF LinksBounded
    <3> QED
      BY <3>10, <3>11 DEF LinksBounded
  <2>5. CASE ~(f.job = j /\ (ClearBest(p) \/ LinkBest(p)))
    <3>1. bestLinks'[j] = bestLinks[j]
      <4>1. CASE ClearBest(p) \/ LinkBest(p)
        BY <2>5, <4>1 DEF ClearBest, LinkBest, ColumnsOK
      <4>2. CASE ~ClearBest(p) /\ ~LinkBest(p)
        BY <1>5, <4>2, LinksWritten
      <4> QED
        BY <4>1, <4>2
    <3>2. g.pc = "link" => ClearBest(p) /\ g.job = f.job
      BY <1>5, <2>1, ActorArrives DEF Arrives, Uninformed
    <3>3. Linking(j)' \subseteq Linking(j)
      BY <2>2, <2>5, <3>2 DEF Linking, At
    <3> QED
      BY <1>2, <3>1, <3>3
  <2> QED
    BY <2>3, <2>4, <2>5
<1> QED
  BY <1>3, <1>4, <1>5, StepKinds

LinksInv == BusyBounded /\ BestIsWorthy /\ LinksWithinRequests

\* The server is never in the middle of more than MaxBusy requests, a finalizer
\* about to link names a succeeded task with a metric and a model, and the links
\* of a job stay within those bounds (app.py, _finalize_job, 936-938).
THEOREM LinksInvariant == ServerSpec => []LinksInv
<1>1. LinksWithinRequests <=> \A j \in Jobs : LinksBounded(j)
  BY DEF LinksWithinRequests, LinksBounded, Worthy
<1>2. ServerInit => LinksInv
  <2> SUFFICES ASSUME ServerInit PROVE LinksInv
    OBVIOUS
  <2>1. Busy = {}
    BY DEF ServerInit, Busy, At, Idle
  <2>2. BusyBounded
    BY <2>1, FS_EmptySet DEF BusyBounded
  <2>3. BestIsWorthy
    BY DEF ServerInit, BestIsWorthy, NamesWorthy, Idle
  <2>4. \A j \in Jobs : bestLinks[j] = {} /\ Linking(j) = {}
    BY DEF ServerInit, Linking, At, Idle
  <2>5. \A j \in Jobs : Cardinality(bestLinks[j]) = 0 /\ Cardinality(Linking(j)) = 0
    BY <2>4, FS_EmptySet, Zenon
  <2>6. LinksWithinRequests
    BY <2>4, <2>5 DEF LinksWithinRequests
  <2> QED
    BY <2>2, <2>3, <2>6 DEF LinksInv
<1>3. ServerInv /\ ServerTypeOK /\ LinksInv /\ [ServerNext]_allVars => LinksInv'
  <2> SUFFICES ASSUME ServerInv, ServerTypeOK, LinksInv, [ServerNext]_allVars PROVE LinksInv'
    OBVIOUS
  <2>1. TableInv /\ FramesOK /\ ColumnsOK
    BY DEF ServerInv, ServerTypeOK, ColumnsOK
  <2>2. BusyBounded' /\ BestIsWorthy'
    BY <2>1, BusyStep, WorthyStep DEF LinksInv
  <2>3. \A j \in Jobs : LinksBounded(j)'
    BY <1>1, <2>1, LinksStep DEF LinksInv
  <2>4. LinksWithinRequests'
    BY <2>3 DEF LinksWithinRequests, LinksBounded, Worthy
  <2> QED
    BY <2>2, <2>4 DEF LinksInv
<1> QED
  BY <1>2, <1>3, ServerInvariant, ServerTypeCorrect, PTL DEF ServerSpec

\* A job never has more best_model links than the server works on requests at a
\* time, and each is to the model of a ranked success; for every number of
\* threads and with restarts.
THEOREM LinksStayWithinRequests == ServerSpec => []LinksWithinRequests
BY LinksInvariant, PTL DEF LinksInv


-----------------------------------------------------------------------------
(* A cancellation that has taken hold                                      *)

\* Steps no process takes queue the tasks of new jobs only, and cancel nothing.
LEMMA QuietQueue ==
  ASSUME TableInv, QuietStep
  PROVE  /\ \A t \in Tasks : status'[t] = "queued" => status[t] = "queued" \/ ~JobExists(JobOf[t])
         /\ \A j \in Jobs : jobStatus'[j] \in {"cancelling", "cancelled"} => Cancelled(j)
<1> DEFINE Goal ==
      /\ \A t \in Tasks : status'[t] = "queued" => status[t] = "queued" \/ ~JobExists(JobOf[t])
      /\ \A j \in Jobs : jobStatus'[j] \in {"cancelling", "cancelled"} => Cancelled(j)
<1>1. ASSUME NEW i \in Jobs, SubmitJob(i) PROVE Goal
  BY <1>1 DEF SubmitJob, CreateJobWithTasks, TableInv, QueueTypeOK, Cancelled
<1>2. ASSUME NEW w \in Workers, NEW t \in Tasks, LeaseTask(w, t) PROVE Goal
  <2>1. \A u \in Tasks : status'[u] = "queued" => status[u] = "queued"
    BY <1>2 DEF LeaseTask, WriteTasks, TableInv, QueueTypeOK
  <2>2. \A j \in Jobs :
          jobStatus'[j] \in {"cancelling", "cancelled"} => jobStatus'[j] = jobStatus[j]
    BY <1>2 DEF LeaseTask, MaybeJobRunning, TableInv, QueueTypeOK
  <2> QED
    BY <2>1, <2>2 DEF Cancelled
<1>3. ASSUME NEW w \in Workers, NEW t \in Tasks, Start(t, w) PROVE Goal
  BY <1>3 DEF Start, StartTask, TableInv, QueueTypeOK, jobVars, Cancelled
<1>4. ASSUME \/ \E w \in Workers : Register(w) \/ Heartbeat(w)
             \/ TimePasses \/ UNCHANGED allVars
      PROVE  Goal
  <2>1. jobStatus' = jobStatus /\ status' = status
    BY <1>4 DEF Register, RegisterWorker, Heartbeat, HeartbeatWorker, TimePasses, LeaseLapse,
                FallSilent, allVars, queueVars, jobVars, taskVars
  <2> QED
    BY <2>1 DEF Cancelled
<1> QED
  BY <1>1, <1>2, <1>3, <1>4 DEF QuietStep, Lease, LeaseNextTask

\* Processes write the status of a job in two steps only.
LEMMA ActorJobs ==
  ASSUME NEW p \in Procs, ActorStep(p)
  PROVE  \/ jobStatus' = jobStatus
         \/ /\ CancelJob(p) \/ Commit(p)
            /\ \E s : SetJobStatus(frame[p].job, s)
BY DEF ActorStep, Request, ReceiveCancel, ReceiveReport, Continue, CancelTasks, CancelJobTasks,
       CancelJob, ReadJob, ReportCancelled, ReportComplete, ReportFail, CancelRunningTask,
       CompleteTask, FailTask, Finalize, Aggregate, ClearBest, LinkBest, CheckTasks, PickVerdict,
       Commit, ReaperWake, ReapWorkers, ReapLeases, MarkDeadWorkers, ReapTasksForWorkers,
       ReapExpiredLeases, ResolveLost, queueVars, jobVars

\* Of the steps of processes only a failure report queues a task of a cancelled
\* job, one that read the job before.
LEMMA ActorQueue ==
  ASSUME TableInv, FramesOK, ReportsOwnJob, NEW p \in Procs, ActorStep(p),
         NEW t \in Tasks, Cancelled(JobOf[t]), status'[t] = "queued"
  PROVE  \/ status[t] = "queued"
         \/ At(p, "report") /\ ~frame[p].flag /\ frame[p].job = JobOf[t]
<1> DEFINE f == frame[p]
<1>1. CASE UNCHANGED status
  BY <1>1
<1>2. CASE CancelTasks(p)
  BY <1>2 DEF CancelTasks, CancelJobTasks, WriteTasks
<1>3. CASE CancelJob(p) \/ Commit(p)
  BY <1>1, <1>3 DEF CancelJob, Commit, SetJobStatus, taskVars, queueVars
<1>4. CASE ReportCancelled(p) \/ ReportComplete(p) \/ ReportFail(p)
  <2>1. f.job = JobOf[f.task]
    BY <1>4 DEF ReportCancelled, ReportComplete, ReportFail, At, ReportsOwnJob, OwnJob
  <2>2. CASE UNCHANGED queueVars
    BY <1>1, <2>2 DEF queueVars
  <2>3. CASE CancelRunningTask(f.task, f.worker) \/ CompleteTask(f.task, f.worker)
    BY <2>3 DEF CancelRunningTask, CompleteTask, WriteTasks, TableInv, QueueTypeOK
  <2>4. CASE FailTask(f.task, f.worker, f.report = "fail") /\ ReportFail(p)
    <3>1. t # f.task => status'[t] = status[t]
      BY <2>4 DEF FailTask, WriteTasks, TableInv, QueueTypeOK
    <3> QED
      BY <2>1, <2>4, <3>1 DEF ReportFail
  <2> QED
    BY <1>4, <2>2, <2>3, <2>4 DEF ReportCancelled, ReportComplete, ReportFail
<1>5. CASE p = Reaper /\ (ReapWorkers \/ ReapLeases)
  <2>1. PICK L : ResolveLost(L)
    BY <1>5 DEF ReapWorkers, ReapTasksForWorkers, ReapLeases, ReapExpiredLeases
  <2> QED
    BY <2>1 DEF ResolveLost, WriteTasks, LostOutcome
<1>6. CASE Request(p) \/ ReadJob(p) \/ (Finalize(p) /\ ~Commit(p)) \/ (p = Reaper /\ ReaperWake)
  <2>1. UNCHANGED status
    BY <1>6
    DEF Request, ReceiveCancel, ReceiveReport, ReadJob, Finalize, Aggregate, ClearBest, LinkBest,
        CheckTasks, PickVerdict, ReaperWake, MarkDeadWorkers, queueVars, taskVars
  <2> QED
    BY <1>1, <2>1
<1> QED
  BY <1>2, <1>3, <1>4, <1>5, <1>6 DEF ActorStep, Continue, Finalize

\* A task without an attempt has left the queue by a cancellation if at all.
Untouched == {"absent", "queued", "cancelled"}

UntouchedOK == \A t \in Tasks : attempt[t] = 0 => status[t] \in Untouched

\* What TaskLifecycle says of attempts: only a lease grants one, and it takes a
\* queued task.
LEMMA AttemptStep ==
  ASSUME TableInv, [QueueNext]_queueVars, NEW t \in Tasks
  PROVE  /\ attempt'[t] # attempt[t] => status[t] = "queued"
         /\ attempt'[t] = 0 => attempt[t] = 0
         /\ attempt'[t] = 0 /\ status[t] \in Untouched => status'[t] \in Untouched
<1>1. attempt[t] \in Nat
  BY DEF TableInv, QueueTypeOK
<1>2. CASE QueueNext
  <2>1. Lifecycle!LifeStep(t)
    BY <1>2, LifeStepKept DEF Lifecycle!LifeNext
  <2> QED
    BY <1>1, <2>1
    DEF Lifecycle!LifeStep, Lifecycle!Submit, Lifecycle!Grant, Lifecycle!Begin, Lifecycle!Finish,
        Lifecycle!Release, Lifecycle!GiveUp, Lifecycle!Withdraw, Lifecycle!Rest, Lifecycle!Moves,
        Lifecycle!SameAttempt, Lifecycle!InFlight, Untouched
<1> QED
  BY <1>2 DEF queueVars

\* Job j is cancelled, or a request has cancelled its tasks and will write that.
Barred(j) == Cancelled(j) \/ \E p \in Procs : At(p, "cancelJob") /\ frame[p].job = j

NothingNew(j) == \A t \in TasksOf(j) : attempt[t] = 0 => status[t] = "cancelled"

BarredOK == \A j \in Jobs : Barred(j) => NothingNew(j)

LEMMA NewlyBarred ==
  ASSUME TableInv, FramesOK, ClosingInv, UntouchedOK, [ServerNext]_allVars,
         NEW j \in Jobs, ~Barred(j), Barred(j)'
  PROVE  NothingNew(j)'
<1>1. [QueueNext]_queueVars
  BY ServerStepIsQueueStep DEF TableInv
<1>2. CASE QuietStep
  <2>1. frame' = frame
    BY <1>2, QuietFrames DEF serverVars
  <2> QED
    BY <1>2, <2>1, QuietQueue DEF Barred, Cancelled, At
<1>3. CASE Restart
  <2>1. jobStatus' = jobStatus /\ \A q \in Procs : frame'[q].pc = "idle"
    BY <1>3 DEF Restart, queueVars, Idle
  <2> QED
    BY <2>1 DEF Barred, Cancelled, At
<1>4. ASSUME NEW p \in Procs, ActorStep(p) PROVE NothingNew(j)'
  <2> DEFINE f == frame[p]
  <2>1. PICK g : Put(p, g)
    BY <1>4, ActorPuts
  <2>2. \A q \in Procs : frame'[q] = IF q = p THEN g ELSE frame[q]
    BY <2>1, PutFrame
  <2>3. f \in Frame /\ Informed(f) /\ Sound(f, jobStatus, status)
    BY DEF FramesOK, ClosingInv, FramesSound
  <2>4. CASE CancelTasks(p)
    <3>1. jobStatus' = jobStatus /\ attempt' = attempt
      BY <2>4 DEF CancelTasks, CancelJobTasks, jobVars
    <3>2. f.job = j
      <4>1. ~Cancelled(j)'
        BY <3>1 DEF Barred, Cancelled
      <4>2. g.pc = "cancelJob" /\ g.job = j
        BY <2>2, <4>1 DEF Barred, At
      <4> QED
        BY <1>4, <2>1, <4>2, ActorArrives DEF Uninformed
    <3>3. JobExists(j)
      BY <2>3, <2>4, <3>2 DEF CancelTasks, At, Sound, JobExists
    <3>4. ASSUME NEW t \in TasksOf(j), attempt'[t] = 0 PROVE status'[t] = "cancelled"
      <4>1. t \in Tasks /\ JobOf[t] = j /\ attempt[t] = 0
        BY <3>1, <3>4 DEF TasksOf
      <4>2. status[t] \in {"queued", "cancelled"}
        BY <3>3, <4>1 DEF UntouchedOK, Untouched, TableInv, TaskFollowsJob
      <4> QED
        BY <2>4, <3>2, <4>1, <4>2 DEF CancelTasks, CancelJobTasks, WriteTasks, TasksOf
    <3> QED
      BY <3>4 DEF NothingNew
  <2>5. CASE ~CancelTasks(p)
    <3>1. g.pc # "cancelJob"
      BY <1>4, <2>1, <2>5, ActorArrives DEF Arrives, Uninformed
    <3>2. Cancelled(j)'
      BY <2>2, <3>1 DEF Barred, At
    <3>3. PICK s : (CancelJob(p) \/ Commit(p)) /\ SetJobStatus(f.job, s)
      BY <1>4, <3>2, ActorJobs DEF Barred, Cancelled
    <3>4. f.job = j /\ status' = status /\ attempt' = attempt
      BY <3>2, <3>3 DEF SetJobStatus, taskVars, Barred, Cancelled, TableInv, QueueTypeOK
    <3>5. Commit(p)
      BY <3>3, <3>4 DEF CancelJob, Barred
    <3>6. Over(j, status)
      BY <2>3, <3>4, <3>5 DEF Commit, At, Sound
    <3> QED
      BY <3>4, <3>6 DEF Over, UntouchedOK, Untouched, TaskTerminal, NothingNew, TasksOf
  <2> QED
    BY <2>4, <2>5
<1> QED
  BY <1>2, <1>3, <1>4, StepKinds

CancelInv == UntouchedOK /\ BarredOK

\* A task no worker has had is off the queue for good from the moment its job
\* is cancelled (app.py, cancel_job; db.py, cancel_job_tasks).
THEOREM CancelInvariant == ServerSpec => []CancelInv
<1>1. ServerInit => CancelInv
  BY DEF ServerInit, QueueInit, CancelInv, UntouchedOK, Untouched, BarredOK, Barred, Cancelled,
         At, Idle
<1>2. ServerInv /\ ClosingInv /\ CancelInv /\ [ServerNext]_allVars => CancelInv'
  <2> SUFFICES ASSUME ServerInv, ClosingInv, CancelInv, [ServerNext]_allVars PROVE CancelInv'
    OBVIOUS
  <2>1. TableInv /\ FramesOK /\ [QueueNext]_queueVars
    BY ServerStepIsQueueStep DEF ServerInv, TableInv
  <2>2. UntouchedOK'
    BY <2>1, AttemptStep DEF CancelInv, UntouchedOK
  <2>3. ASSUME NEW j \in Jobs, Barred(j), NothingNew(j) PROVE NothingNew(j)'
    <3>1. ASSUME NEW t \in Tasks, status[t] = "cancelled" PROVE status'[t] = "cancelled"
      BY <2>1, <3>1, SettledTaskStays DEF TaskTerminal
    <3> QED
      BY <2>1, <2>3, <3>1, AttemptStep DEF NothingNew, TasksOf
  <2>4. BarredOK'
    BY <2>1, <2>3, NewlyBarred DEF CancelInv, BarredOK
  <2> QED
    BY <2>2, <2>4 DEF CancelInv
<1> QED
  BY <1>1, <1>2, ServerInvariant, ClosingInvariant, PTL DEF ServerSpec

LEMMA CancellingStays ==
  ASSUME TableInv, FramesOK, [ServerNext]_allVars, NEW j \in Jobs, jobStatus[j] = "cancelling"
  PROVE  jobStatus'[j] \in JobTerminal \cup {"cancelling"}
<1>1. CASE QuietStep
  BY <1>1
  DEF QuietStep, SubmitJob, CreateJobWithTasks, JobExists, Register, RegisterWorker, Heartbeat,
      HeartbeatWorker, Lease, LeaseNextTask, LeaseTask, MaybeJobRunning, Start, StartTask,
      TimePasses, LeaseLapse, FallSilent, allVars, queueVars, jobVars, TableInv, QueueTypeOK
<1>2. ASSUME NEW p \in Procs, ActorStep(p) PROVE jobStatus'[j] \in JobTerminal \cup {"cancelling"}
  BY <1>2, ActorJobs DEF SetJobStatus, JobMay, JobTerminal, TableInv, QueueTypeOK
<1> QED
  BY <1>1, <1>2, StepKinds DEF Restart, queueVars

LEMMA StoppedStays ==
  ASSUME TableInv, FramesOK, ReportsOwnJob, [ServerNext]_allVars, NEW j \in Jobs, Stopped(j)
  PROVE  Stopped(j)'
<1>1. [QueueNext]_queueVars
  BY ServerStepIsQueueStep DEF TableInv
<1>2. CASE jobStatus[j] \in JobTerminal
  BY <1>1, <1>2, JobRowStays DEF Stopped
<1>3. CASE jobStatus'[j] \in JobTerminal
  BY <1>3 DEF Stopped
<1>4. CASE jobStatus[j] = "cancelling" /\ jobStatus'[j] = "cancelling"
  <2>1. /\ \A t \in TasksOf(j) : status[t] # "queued"
        /\ \A q \in Procs : At(q, "report") /\ frame[q].job = j => frame[q].flag
    BY <1>4 DEF Stopped, JobTerminal
  <2>2. Cancelled(j) /\ JobExists(j)
    BY <1>4 DEF Cancelled, JobExists
  <2>3. CASE QuietStep
    <3>1. frame' = frame
      BY <2>3, QuietFrames DEF serverVars
    <3>2. \A t \in TasksOf(j) : status'[t] # "queued"
      BY <2>1, <2>2, <2>3, QuietQueue DEF TasksOf
    <3> QED
      BY <1>4, <2>1, <3>1, <3>2 DEF Stopped, At
  <2>4. CASE Restart
    <3>1. status' = status /\ \A q \in Procs : frame'[q].pc = "idle"
      BY <2>4 DEF Restart, queueVars, Idle
    <3> QED
      BY <1>4, <2>1, <3>1 DEF Stopped, At
  <2>5. ASSUME NEW p \in Procs, ActorStep(p) PROVE Stopped(j)'
    <3>1. PICK g : Put(p, g)
      BY <2>5, ActorPuts
    <3>2. \A q \in Procs : frame'[q] = IF q = p THEN g ELSE frame[q]
      BY <3>1, PutFrame
    <3>3. \A t \in TasksOf(j) : status'[t] # "queued"
      BY <2>1, <2>2, <2>5, ActorQueue DEF TasksOf
    <3>4. g.pc = "report" /\ g.job = j => g.flag
      BY <2>2, <2>5, <3>1, ActorArrives DEF Arrives, Uninformed
    <3>5. \A q \in Procs : frame'[q].pc = "report" /\ frame'[q].job = j => frame'[q].flag
      BY <2>1, <3>2, <3>4 DEF At
    <3> QED
      BY <1>4, <3>3, <3>5 DEF Stopped, At
  <2> QED
    BY <2>3, <2>4, <2>5, StepKinds
<1> QED
  BY <1>2, <1>3, <1>4, CancellingStays DEF Stopped

\* Once the requests that overlapped its cancellation are over, no report, lapsed
\* lease or dead worker restarts a task of a cancelled job; and a task no worker
\* has had is not leased after the cancellation, whatever overlaps it.
THEOREM CancellationsHold == ServerSpec => CancellationHolds
<1> DEFINE A == \A j \in Jobs :
              /\ Stopped(j) => Stopped(j)' /\ \A t \in TasksOf(j) : attempt'[t] = attempt[t]
              /\ Cancelled(j) => \A t \in TasksOf(j) : attempt[t] = 0 => attempt'[t] = 0
<1>1. ServerInv /\ ClosingInv /\ HandOverInv /\ CancelInv /\ [ServerNext]_allVars => [A]_allVars
  <2> SUFFICES ASSUME ServerInv, ClosingInv, HandOverInv, CancelInv, [ServerNext]_allVars
               PROVE  A
    OBVIOUS
  <2>1. TableInv /\ FramesOK /\ [QueueNext]_queueVars
    BY ServerStepIsQueueStep DEF ServerInv, TableInv
  <2>2. ASSUME NEW j \in Jobs, Stopped(j), NEW t \in TasksOf(j) PROVE attempt'[t] = attempt[t]
    <3>1. t \in Tasks /\ status[t] # "queued"
      BY <2>2 DEF Stopped, TasksOf, ClosingInv, ClosedJobHasNoLiveTask, AllTerminal, TaskTerminal
    <3> QED
      BY <2>1, <3>1, AttemptStep
  <2>3. ASSUME NEW j \in Jobs, Cancelled(j), NEW t \in TasksOf(j), attempt[t] = 0
        PROVE  attempt'[t] = 0
    <3>1. t \in Tasks /\ status[t] # "queued"
      BY <2>3 DEF CancelInv, BarredOK, Barred, NothingNew, TasksOf
    <3> QED
      BY <2>1, <2>3, <3>1, AttemptStep
  <2>4. \A j \in Jobs : Stopped(j) => Stopped(j)'
    BY <2>1, StoppedStays DEF HandOverInv
  <2> QED
    BY <2>2, <2>3, <2>4
<1>2. [][A]_allVars => CancellationHolds
  BY PTL DEF CancellationHolds
<1> QED
  BY <1>1, <1>2, ServerInvariant, ClosingInvariant, HandOverInvariant, CancelInvariant, PTL
  DEF ServerSpec

-----------------------------------------------------------------------------
(* A job closed wrongly                                                    *)

LEMMA OverKeeps ==
  ASSUME TableInv, FramesOK, [ServerNext]_allVars, NEW j \in Jobs, Over(j, status)
  PROVE  Succeeded(j)' = Succeeded(j) /\ BestTasks(j)' = BestTasks(j)
<1>1. \A t \in Tasks : JobOf[t] = j => status'[t] = status[t] /\ result'[t] = result[t]
  BY SettledTaskKeeps DEF Over, TasksOf
<1>2. Succeeded(j)' = Succeeded(j)
  BY <1>1 DEF Succeeded, TasksOf
<1>3. \A t \in Succeeded(j) : result'[t] = result[t]
  BY <1>1 DEF Succeeded, TasksOf
<1> QED
  BY <1>2, <1>3 DEF BestTasks

\* What BestLinked says, by the best tasks the finalizer ranks.
Linked(j) ==
  \/ bestLinks[j] = {} /\ (BestTasks(j) = {} \/ ~(BestTasks(j) \subseteq Exports))
  \/ \E t \in BestTasks(j) \cap Exports : bestLinks[j] = {t}

LEMMA LinkedIsBest ==
  ASSUME NEW j, Linked(j)
  PROVE  BestLinked(j)
<1> DEFINE ranked == {t \in Succeeded(j) : result[t] # NoMetric}
           best == {t \in ranked : \A u \in ranked : result[t] =< result[u]}
<1>1. BestTasks(j) = best
  BY DEF BestTasks
<1> HIDE DEF best
<1>2. \/ bestLinks[j] = {} /\ (best = {} \/ ~(best \subseteq Exports))
      \/ \E t \in best \cap Exports : bestLinks[j] = {t}
  BY <1>1 DEF Linked
<1> QED
  BY <1>2 DEF BestLinked, best

\* A finalizer whose job has settled acts on what holds: it saw every success,
\* knows a best model, and the links are as it left them.
UpToDate(f) ==
  /\ f.pc \in {"clear", "link", "check", "verdict"} => f.succeeded = (Succeeded(f.job) # {})
  /\ f.pc \in {"clear", "link"} => KnowsBest(f)
  /\ f.pc = "link" => bestLinks[f.job] = {} /\ f.best # NoTask
  /\ f.pc \in {"check", "verdict", "commit"} => Linked(f.job)
  /\ f.pc = "commit" /\ f.final = "failed" => Succeeded(f.job) = {}

\* Job j is there, its tasks have settled and it is not closed.
Open(j) == JobExists(j) /\ Over(j, status) /\ jobStatus[j] \notin JobTerminal

\* Whoever finalizes a settled job acts on what holds, unless another process
\* is bound to close the job as well.
AloneInv ==
  \A p \in Procs, f \in Frame :
    (f = frame[p] /\ f.pc \in FinalizingAt /\ Open(f.job)) =>
      UpToDate(f) \/ \E q \in Procs : q # p /\ Closes(frame[q], f.job, jobStatus)

LEMMA UpToDateStays ==
  ASSUME TableInv, FramesOK, [ServerNext]_allVars, NEW f, f.job \in Jobs, Over(f.job, status),
         bestLinks'[f.job] = bestLinks[f.job], UpToDate(f)
  PROVE  UpToDate(f)'
<1> PICK j \in Jobs : j = f.job
  OBVIOUS
<1>1. Succeeded(j)' = Succeeded(j) /\ BestTasks(j)' = BestTasks(j)
  BY OverKeeps
<1>2. KnowsBest(f) => KnowsBest(f)'
  BY <1>1 DEF KnowsBest
<1>3. Linked(f.job) => Linked(f.job)'
  BY <1>1 DEF Linked
<1> QED
  BY <1>1, <1>2, <1>3 DEF UpToDate

\* The links of a job are written by a process bound to close it.
LEMMA LinksOfOthers ==
  ASSUME FramesOK, ColumnsOK, NEW a \in Procs, ActorStep(a), NEW j \in Jobs,
         ~Closes(frame[a], j, jobStatus)
  PROVE  bestLinks'[j] = bestLinks[j]
<1>1. CASE ClearBest(a) \/ LinkBest(a)
  <2>1. frame[a].job # j
    BY <1>1 DEF ClearBest, LinkBest, At, Closes, FinalizingAt
  <2> QED
    BY <1>1, <2>1 DEF ClearBest, LinkBest, ColumnsOK
<1>2. CASE ~ClearBest(a) /\ ~LinkBest(a)
  BY <1>2, LinksWritten
<1> QED
  BY <1>1, <1>2

\* A finalizer that starts up to date stays so by its own steps.
LEMMA OwnStepUpToDate ==
  ASSUME FramesOK, ColumnsOK, NEW p \in Procs, NEW g, Put(p, g), g.job = frame[p].job,
         ClearBest(p) \/ LinkBest(p) \/ (CheckTasks(p) /\ g.pc = "verdict") \/ PickVerdict(p),
         UpToDate(frame[p])
  PROVE  UpToDate(g)'
<1> DEFINE f == frame[p]
<1>1. f \in Frame /\ Informed(f) /\ \A r : Put(p, r) => r = g
  BY DEF FramesOK, Put
<1> PICK j : j = f.job
  OBVIOUS
<1>2. UNCHANGED <<status, jobStatus, result>>
  BY DEF ClearBest, LinkBest, CheckTasks, PickVerdict, queueVars
<1>3. Succeeded(j)' = Succeeded(j) /\ BestTasks(j)' = BestTasks(j)
  BY <1>2 DEF Succeeded, BestTasks
<1>4. CASE ClearBest(p)
  <2>1. g = [f EXCEPT !.pc = IF f.best = NoTask THEN "check" ELSE "link"]
    BY <1>1, <1>4 DEF ClearBest
  <2>2. /\ g.pc = IF f.best = NoTask THEN "check" ELSE "link"
        /\ g.best = f.best /\ g.succeeded = f.succeeded
    BY <1>1, <2>1 DEF Frame
  <2>3. f.pc = "clear" /\ j \in Jobs
    BY <1>1, <1>4 DEF ClearBest, At, Informed
  <2>4. f.succeeded = (Succeeded(j) # {}) /\ KnowsBest(f)
    BY <2>3 DEF UpToDate
  <2>5. bestLinks'[j] = {}
    BY <1>4, <2>3 DEF ClearBest, ColumnsOK
  <2>6. KnowsBest(g)'
    BY <1>3, <2>2, <2>4 DEF KnowsBest
  <2>7. g.pc = "check" => Linked(j)'
    BY <1>3, <2>2, <2>4, <2>5 DEF KnowsBest, Linked
  <2>8. g.succeeded = (Succeeded(j)' # {})
    BY <1>3, <2>2, <2>4
  <2> QED
    BY <2>2, <2>5, <2>6, <2>7, <2>8 DEF UpToDate
<1>5. CASE LinkBest(p)
  <2>1. g = [f EXCEPT !.pc = "check", !.best = NoTask]
    BY <1>1, <1>5 DEF LinkBest
  <2>2. g.pc = "check" /\ g.succeeded = f.succeeded
    BY <1>1, <2>1 DEF Frame
  <2>3. f.pc = "link" /\ j \in Jobs
    BY <1>1, <1>5 DEF LinkBest, At, Informed
  <2>4. /\ f.succeeded = (Succeeded(j) # {}) /\ KnowsBest(f)
        /\ bestLinks[j] = {} /\ f.best # NoTask
    BY <2>3 DEF UpToDate
  <2>5. f.best \in BestTasks(j) \cap Exports
    BY <2>4 DEF KnowsBest
  <2>6. bestLinks'[j] = {f.best}
    BY <1>5, <2>3, <2>4 DEF LinkBest, ColumnsOK
  <2>7. Linked(j)'
    BY <1>3, <2>5, <2>6 DEF Linked
  <2>8. g.succeeded = (Succeeded(j)' # {})
    BY <1>3, <2>2, <2>4
  <2> QED
    BY <2>2, <2>7, <2>8 DEF UpToDate
<1>6. CASE CheckTasks(p) /\ g.pc = "verdict"
  <2>1. g = [f EXCEPT !.pc = "verdict"]
    <3>1. Put(p, [f EXCEPT !.pc = "verdict"]) \/ FinalizeAll(p, f.todo)
      BY <1>6 DEF CheckTasks
    <3> QED
      BY <1>1, <1>6, <3>1, FinalizingPC DEF FinalizeAll
  <2>2. g.succeeded = f.succeeded
    BY <1>1, <2>1 DEF Frame
  <2>3. f.pc = "check" /\ bestLinks' = bestLinks
    BY <1>6 DEF CheckTasks, At
  <2>4. f.succeeded = (Succeeded(j) # {}) /\ Linked(j)
    BY <2>3 DEF UpToDate
  <2>5. Linked(j)'
    BY <1>3, <2>3, <2>4 DEF Linked
  <2>6. g.succeeded = (Succeeded(j)' # {})
    BY <1>3, <2>2, <2>4
  <2> QED
    BY <1>6, <2>5, <2>6 DEF UpToDate
<1>7. CASE PickVerdict(p)
  <2> DEFINE v == Verdict(f.job, f.succeeded)
  <2>1. g = [f EXCEPT !.pc = "commit", !.succeeded = FALSE, !.final = v]
    BY <1>1, <1>7 DEF PickVerdict
  <2> HIDE DEF v
  <2>2. g.pc = "commit" /\ g.final = v
    BY <1>1, <2>1 DEF Frame
  <2>3. f.pc = "verdict" /\ bestLinks' = bestLinks
    BY <1>7 DEF PickVerdict, At
  <2>4. f.succeeded = (Succeeded(j) # {}) /\ Linked(j)
    BY <2>3 DEF UpToDate
  <2>5. Linked(j)'
    BY <1>3, <2>3, <2>4 DEF Linked
  <2>6. v = "failed" => Succeeded(j)' = {}
    BY <1>3, <2>4 DEF v, Verdict
  <2> QED
    BY <2>2, <2>5, <2>6 DEF UpToDate
<1> QED
  BY <1>4, <1>5, <1>6, <1>7

\* The process that takes a step.
LEMMA ActorAlone ==
  ASSUME TableInv, FramesOK, ColumnsOK, AloneInv, [ServerNext]_allVars,
         NEW p \in Procs, ActorStep(p), NEW g, Put(p, g), g.pc \in FinalizingAt, Open(g.job)'
  PROVE  \/ UpToDate(g)'
         \/ \E q \in Procs : q # p /\ Closes(frame'[q], g.job, jobStatus')
<1> DEFINE f == frame[p]
<1>1. CASE g.pc = "aggregate"
  BY <1>1 DEF UpToDate
<1>2. CASE Aggregate(p)
  <2>1. g.pc = "clear" /\ g.succeeded = (Succeeded(g.job) # {}) /\ KnowsBest(g)
    BY <1>2, AggregateKnows
  <2>2. UNCHANGED <<status, result>>
    BY <1>2 DEF Aggregate, queueVars
  <2> PICK j : j = g.job
    OBVIOUS
  <2>3. Succeeded(j)' = Succeeded(j) /\ BestTasks(j)' = BestTasks(j)
    BY <2>2 DEF Succeeded, BestTasks
  <2>4. KnowsBest(g)'
    BY <2>1, <2>3 DEF KnowsBest
  <2>5. g.succeeded = (Succeeded(j)' # {})
    BY <2>1, <2>3
  <2> QED
    BY <2>1, <2>4, <2>5 DEF UpToDate
<1>3. CASE g.pc # "aggregate" /\ ~Aggregate(p)
  <2>1. g.pc \notin Uninformed /\ g.pc \notin {"cancelJob", "report"}
    BY <1>3 DEF FinalizingAt, Uninformed
  <2>2. /\ g.job = f.job
        /\ ClearBest(p) \/ LinkBest(p) \/ (CheckTasks(p) /\ g.pc = "verdict") \/ PickVerdict(p)
    BY <1>3, <2>1, ActorArrives DEF Arrives
  <2>3. UNCHANGED <<status, jobStatus>>
    BY <2>2 DEF ClearBest, LinkBest, CheckTasks, PickVerdict, queueVars
  <2>4. f.pc \in FinalizingAt
    BY <2>2 DEF ClearBest, LinkBest, CheckTasks, PickVerdict, At, FinalizingAt
  <2> PICK j : j = f.job
    OBVIOUS
  <2>5. Open(j)
    BY <2>2, <2>3 DEF Open, JobExists, Over
  <2>6. UpToDate(f) \/ \E q \in Procs : q # p /\ Closes(frame[q], j, jobStatus)
    BY <2>4, <2>5 DEF AloneInv, FramesOK
  <2>7. CASE UpToDate(f)
    BY <2>2, <2>7, OwnStepUpToDate
  <2>8. CASE \E q \in Procs : q # p /\ Closes(frame[q], j, jobStatus)
    BY <2>2, <2>3, <2>8, PutFrame
  <2> QED
    BY <2>6, <2>7, <2>8
<1> QED
  BY <1>1, <1>2, <1>3

\* The other processes: where the one that took the step is not bound to close
\* their job, it has left it as it was.
LEMMA OthersAlone ==
  ASSUME TableInv, FramesOK, ColumnsOK, ClosingInv, ReportsOwnJob, AloneInv, [ServerNext]_allVars,
         NEW a \in Procs, ActorStep(a), NEW p \in Procs, p # a,
         NEW f, f = frame[p], f.pc \in FinalizingAt, Open(f.job)'
  PROVE  \/ UpToDate(f)'
         \/ \E q \in Procs : q # p /\ Closes(frame'[q], f.job, jobStatus')
<1>0. [QueueNext]_queueVars
  BY ServerStepIsQueueStep DEF TableInv
<1>1. PICK g : Put(a, g) /\ Answers(a, g)
  BY <1>0, ActorAnswers DEF Answered
<1>2. \A q \in Procs : frame'[q] = IF q = a THEN g ELSE frame[q]
  BY <1>1, PutFrame
<1>3. f.job \in Jobs /\ f \in Frame
  BY DEF FramesOK, Informed, FinalizingAt
<1> PICK j \in Jobs : j = f.job
  BY <1>3
<1>4. jobStatus'[j] # "absent" /\ Over(j, status') /\ jobStatus'[j] \notin JobTerminal
  BY <1>3 DEF Open, JobExists, Over
<1>5. JobExists(j)
  BY <1>0, <1>4, ActorKeepsRows
<1>6. CASE Closes(g, j, jobStatus')
  BY <1>2, <1>6
<1>7. CASE ~Closes(g, j, jobStatus')
  <2>1. Over(j, status) /\ jobStatus'[j] = jobStatus[j] /\ ~Closes(frame[a], j, jobStatus)
    BY <1>1, <1>4, <1>5, <1>7 DEF Answers
  <2>2. Open(j)
    BY <1>4, <1>5, <2>1 DEF Open
  <2>3. UpToDate(f) \/ \E q \in Procs : q # p /\ Closes(frame[q], j, jobStatus)
    BY <1>3, <2>2 DEF AloneInv
  <2>4. CASE UpToDate(f)
    <3>1. bestLinks'[j] = bestLinks[j]
      BY <2>1, LinksOfOthers
    <3> QED
      BY <1>3, <2>1, <2>4, <3>1, UpToDateStays
  <2>5. ASSUME NEW q \in Procs, q # p, Closes(frame[q], j, jobStatus)
        PROVE  Closes(frame'[q], j, jobStatus')
    <3>1. q # a
      BY <2>1, <2>5
    <3> QED
      BY <1>2, <2>1, <2>5, <3>1 DEF Closes
  <2> QED
    BY <2>3, <2>4, <2>5
<1> QED
  BY <1>6, <1>7

LEMMA AloneStep ==
  ASSUME TableInv, FramesOK, ColumnsOK, ClosingInv, ReportsOwnJob, AloneInv, [ServerNext]_allVars
  PROVE  AloneInv'
<1> SUFFICES ASSUME NEW p \in Procs, NEW f \in Frame, f = frame'[p], f.pc \in FinalizingAt,
                    Open(f.job)'
             PROVE  \/ UpToDate(f)'
                    \/ \E q \in Procs : q # p /\ Closes(frame'[q], f.job, jobStatus')
  BY DEF AloneInv
<1>1. CASE QuietStep
  <2>1. frame' = frame /\ bestLinks' = bestLinks
    BY <1>1, QuietFrames DEF serverVars
  <2>2. f = frame[p] /\ f.job \in Jobs
    BY <2>1 DEF FramesOK, Informed, FinalizingAt
  <2> PICK j \in Jobs : j = f.job
    BY <2>2
  <2>3. JobExists(j)' /\ Over(j, status') /\ jobStatus'[j] \notin JobTerminal
    BY DEF Open, JobExists, Over
  <2>4. JobExists(j) /\ Over(j, status) /\ jobStatus'[j] = jobStatus[j]
    BY <1>1, <2>3, QuietSettlesNone
  <2>5. Open(j)
    BY <2>3, <2>4 DEF Open
  <2>6. UpToDate(f) \/ \E q \in Procs : q # p /\ Closes(frame[q], j, jobStatus)
    BY <2>2, <2>5 DEF AloneInv
  <2>7. CASE UpToDate(f)
    BY <2>1, <2>2, <2>4, <2>7, UpToDateStays
  <2>8. ASSUME NEW q \in Procs, Closes(frame[q], j, jobStatus)
        PROVE  Closes(frame'[q], j, jobStatus')
    BY <2>1, <2>4, <2>8 DEF Closes
  <2> QED
    BY <2>6, <2>7, <2>8
<1>2. CASE Restart
  BY <1>2 DEF Restart, Idle, FinalizingAt
<1>3. ASSUME NEW a \in Procs, ActorStep(a)
      PROVE  \/ UpToDate(f)'
             \/ \E q \in Procs : q # p /\ Closes(frame'[q], f.job, jobStatus')
  <2>1. PICK g : Put(a, g)
    BY <1>3, ActorPuts
  <2>2. f = IF p = a THEN g ELSE frame[p]
    BY <2>1, PutFrame
  <2>3. CASE p = a
    BY <1>3, <2>1, <2>2, <2>3, ActorAlone
  <2>4. CASE p # a
    BY <1>3, <2>2, <2>4, OthersAlone
  <2> QED
    BY <2>3, <2>4
<1> QED
  BY <1>1, <1>2, <1>3, StepKinds

\* A finalizer of a settled job that misses a success, or has not linked the
\* best model, is never the only one left to close the job (app.py,
\* _finalize_job: the last to settle a task sees them all).
THEOREM AloneInvariant == ServerSpec => []AloneInv
<1>1. ServerInit => AloneInv
  BY DEF ServerInit, AloneInv, Idle, FinalizingAt
<1>2. ServerInv /\ ServerTypeOK /\ ClosingInv /\ HandOverInv /\ AloneInv /\ [ServerNext]_allVars
        => AloneInv'
  <2>1. ServerTypeOK => ColumnsOK
    BY DEF ServerTypeOK, ColumnsOK
  <2> QED
    BY <2>1, AloneStep DEF ServerInv, HandOverInv
<1> QED
  BY <1>1, <1>2, ServerInvariant, ServerTypeCorrect, ClosingInvariant, HandOverInvariant, PTL
  DEF ServerSpec

\* A job is closed as succeeded or failed by the last step of a finalization.
LEMMA VerdictStep ==
  ASSUME TableInv, FramesOK, [ServerNext]_allVars, NEW j \in Jobs,
         jobStatus'[j] \in {"succeeded", "failed"}, jobStatus'[j] # jobStatus[j]
  PROVE  \E p \in Procs :
           Commit(p) /\ frame[p].job = j /\ frame[p].final = jobStatus'[j] /\ JobExists(j)
<1>1. ~QuietStep
  <2>1. ASSUME NEW i \in Jobs, SubmitJob(i) PROVE FALSE
    BY <2>1 DEF SubmitJob, CreateJobWithTasks, TableInv, QueueTypeOK
  <2>2. ASSUME NEW w \in Workers, NEW t \in Tasks, LeaseTask(w, t) PROVE FALSE
    BY <2>2 DEF LeaseTask, MaybeJobRunning, TableInv, QueueTypeOK
  <2> QED
    BY <2>1, <2>2
    DEF QuietStep, Register, RegisterWorker, Heartbeat, HeartbeatWorker, Lease, LeaseNextTask,
        Start, StartTask, TimePasses, LeaseLapse, FallSilent, allVars, queueVars, jobVars
<1>2. ~Restart
  BY DEF Restart, queueVars
<1>3. PICK p \in Procs : ActorStep(p)
  BY <1>1, <1>2, StepKinds
<1>4. PICK s : (CancelJob(p) \/ Commit(p)) /\ SetJobStatus(frame[p].job, s)
  BY <1>3, ActorJobs
<1>5. frame[p].job = j /\ JobExists(j)
  BY <1>4 DEF SetJobStatus, TableInv, QueueTypeOK
<1>6. ~CancelJob(p)
  <2> SUFFICES ASSUME CancelJob(p) PROVE FALSE
    OBVIOUS
  <2>1. SetJobStatus(j, CancelTarget(p))
    BY <1>5 DEF CancelJob, queueVars
  <2> QED
    BY <2>1 DEF SetJobStatus, CancelTarget, TableInv, QueueTypeOK
<1>7. SetJobStatus(j, frame[p].final)
  BY <1>4, <1>5, <1>6 DEF Commit, queueVars
<1>8. jobStatus'[j] = frame[p].final
  BY <1>7 DEF SetJobStatus, TableInv, QueueTypeOK
<1> QED
  BY <1>4, <1>5, <1>6, <1>8

\* A job closed as failed has no task that succeeded, and a job closed by a
\* verdict is linked to its best model, unless a second process is at work on it
\* at that moment: for every number of threads, with restarts.
THEOREM OnlyRacesGoWrong == ServerSpec => OnlyRacesCloseWrong
<1> DEFINE A == \A j \in Jobs :
       (jobStatus'[j] # jobStatus[j] /\ jobStatus'[j] \in {"succeeded", "failed"}) =>
         \/ (jobStatus'[j] = "failed" => Succeeded(j) = {}) /\ BestLinked(j)
         \/ \E p, q \in Procs : p # q /\ Attends(p, j) /\ Attends(q, j)
<1>1. ServerInv /\ ClosingInv /\ AloneInv /\ [ServerNext]_allVars => [A]_allVars
  <2> SUFFICES ASSUME ServerInv, ClosingInv, AloneInv, [ServerNext]_allVars, NEW j \in Jobs,
                      jobStatus'[j] # jobStatus[j], jobStatus'[j] \in {"succeeded", "failed"}
               PROVE  \/ (jobStatus'[j] = "failed" => Succeeded(j) = {}) /\ BestLinked(j)
                      \/ \E p, q \in Procs : p # q /\ Attends(p, j) /\ Attends(q, j)
    OBVIOUS
  <2>1. TableInv /\ FramesOK /\ [QueueNext]_queueVars
    BY ServerStepIsQueueStep DEF ServerInv, TableInv
  <2>2. PICK p \in Procs :
          Commit(p) /\ frame[p].job = j /\ frame[p].final = jobStatus'[j] /\ JobExists(j)
    BY <2>1, VerdictStep
  <2>3. frame[p].pc = "commit"
    BY <2>2 DEF Commit, At
  <2>4. Over(j, status)
    BY <2>2, <2>3 DEF ClosingInv, FramesSound, Sound
  <2>5. jobStatus[j] \notin JobTerminal
    BY <2>1, JobRowStays
  <2>6. \/ UpToDate(frame[p])
        \/ \E q \in Procs : q # p /\ Closes(frame[q], j, jobStatus)
    BY <2>1, <2>2, <2>3, <2>4, <2>5 DEF AloneInv, Open, FinalizingAt, FramesOK
  <2>7. CASE UpToDate(frame[p])
    BY <2>2, <2>3, <2>7, LinkedIsBest DEF UpToDate
  <2>8. ASSUME NEW q \in Procs, q # p, Closes(frame[q], j, jobStatus)
        PROVE  \E r, s \in Procs : r # s /\ Attends(r, j) /\ Attends(s, j)
    <3>1. Attends(p, j)
      BY <2>2, <2>3 DEF Attends, At
    <3>2. Attends(q, j)
      BY <2>8 DEF Closes, Attends, At, FinalizingAt
    <3> QED
      BY <2>8, <3>1, <3>2
  <2> QED
    BY <2>6, <2>7, <2>8
<1>2. [][A]_allVars => OnlyRacesCloseWrong
  BY PTL DEF OnlyRacesCloseWrong
<1> QED
  BY <1>1, <1>2, ServerInvariant, ClosingInvariant, AloneInvariant, PTL DEF ServerSpec

=============================================================================
