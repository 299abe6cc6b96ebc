------------------------- MODULE WorkerAgentProofs -------------------------
(***************************************************************************)
(* Theorems about WorkerAgent, for any numbers of jobs, tasks, workers and *)
(* attempts and any bound on losses and on agents that end.                *)
(***************************************************************************)
EXTENDS WorkerAgent, TaskQueueProofs

USE QueueAssumption, AgentAssumption

-----------------------------------------------------------------------------
(* Runs                                                                    *)

LEMMA RunsAre ==
  ASSUME NEW r
  PROVE  r \in Runs <=> \E t \in Tasks : \E n \in 1..MaxAttempts[JobOf[t]] : r = <<t, n>>
<1>1. r \in Runs <=> \E t \in Tasks : r \in {t} \X (1..MaxAttempts[JobOf[t]])
  BY Zenon DEF Runs
<1>2. \A t \in Tasks : r \in {t} \X (1..MaxAttempts[JobOf[t]])
                       <=> \E n \in 1..MaxAttempts[JobOf[t]] : r = <<t, n>>
  OBVIOUS
<1> QED
  BY <1>1, <1>2

LEMMA RunParts ==
  \A r \in Runs : /\ TaskOf(r) \in Tasks
                  /\ r[2] \in 1..MaxAttempts[JobOf[TaskOf(r)]]
                  /\ r[2] \in Nat \ {0}
                  /\ r = <<TaskOf(r), r[2]>>
                  /\ r[2] \in {q[2] : q \in Runs}
<1> SUFFICES ASSUME NEW r \in Runs
             PROVE  /\ TaskOf(r) \in Tasks
                    /\ r[2] \in 1..MaxAttempts[JobOf[TaskOf(r)]]
                    /\ r[2] \in Nat \ {0}
                    /\ r = <<TaskOf(r), r[2]>>
  OBVIOUS
<1>1. PICK t \in Tasks : \E n \in 1..MaxAttempts[JobOf[t]] : r = <<t, n>>
  BY RunsAre
<1>2. PICK n \in 1..MaxAttempts[JobOf[t]] : r = <<t, n>>
  BY <1>1
<1> QED
  BY <1>2 DEF TaskOf

LEMMA RunMade ==
  \A t \in Tasks : \A n \in 1..MaxAttempts[JobOf[t]] : <<t, n>> \in Runs
BY RunsAre

\* The attempts a task may have, and so the runs, are finitely many.
LEMMA RunsFinite == IsFiniteSet(Runs)
<1> DEFINE F == {{t} \X (1..MaxAttempts[JobOf[t]]) : t \in Tasks}
<1>1. IsFiniteSet(F)
  <2> DEFINE row == [t \in Tasks |-> {t} \X (1..MaxAttempts[JobOf[t]])]
  <2>1. F = {row[t] : t \in Tasks}
    OBVIOUS
  <2>2. row \in Surjection(Tasks, F)
    BY DEF Surjection
  <2> QED
    BY <2>2, FS_Surjection
<1>2. \A t \in Tasks : IsFiniteSet({t} \X (1..MaxAttempts[JobOf[t]]))
  <2> SUFFICES ASSUME NEW t \in Tasks PROVE IsFiniteSet({t} \X (1..MaxAttempts[JobOf[t]]))
    OBVIOUS
  <2>1. MaxAttempts[JobOf[t]] \in Int
    OBVIOUS
  <2>2. IsFiniteSet(1..MaxAttempts[JobOf[t]])
    BY <2>1, FS_Interval
  <2>3. IsFiniteSet({t})
    BY FS_Singleton
  <2> QED
    BY <2>2, <2>3, FS_Product
<1> QED
  BY <1>1, <1>2, FS_UNION DEF Runs

-----------------------------------------------------------------------------
(* Type correctness, and what a step does to the database                  *)

\* Where a run has a thread, some worker was leased it.
RunsFollowAttempts ==
  \A r \in Runs :
    /\ attempt[TaskOf(r)] < r[2] => at[r] = "none"
    /\ at[r] = "none" => by[r] = NoWorker /\ child[r] = "none"
    /\ at[r] # "none" => by[r] \in Workers /\ agent[by[r]] # "off"
    /\ at[r] \in {"granted", "prepare"} => child[r] = "none"
    /\ (child[r] = "running" /\ Online(r)) => at[r] = "running"

\* A report is one of the methods a worker calls, or changes no table.
LEMMA TakeIsReport ==
  ASSUME NEW t \in Tasks, NEW w \in Workers, NEW n, NEW retriable \in BOOLEAN,
         TakeComplete(t, w, n) \/ TakeFail(t, w, retriable)
  PROVE  TaskStep(t, w) \/ UNCHANGED queueVars
BY DEF TakeComplete, TakeFail, Refused, TaskStep

\* The run a lease starts is one of those its job allows, and a new one.
LEMMA LeasedRun ==
  ASSUME TableInv, NEW w \in Workers, NEW t \in Tasks, LeaseTask(w, t)
  PROVE  /\ <<t, attempt[t] + 1>> \in Runs
         /\ attempt[t] \in Nat
         /\ TaskOf(<<t, attempt[t] + 1>>) = t
<1>1. attempt[t] \in Nat /\ attempt[t] < MaxAttempts[JobOf[t]]
  BY DEF TableInv, QueueTypeOK, QueuedIsFree, MayRetry, LeaseTask, Candidates
<1>2. attempt[t] + 1 \in 1..MaxAttempts[JobOf[t]]
  BY <1>1
<1> QED
  BY <1>1, <1>2, RunMade DEF TaskOf

\* Whatever the agents do, the tables change by the methods of the database.
LEMMA AgentMovesQueue ==
  ASSUME AgentTypeOK, RunsFollowAttempts, [AgentNext]_clusterVars
  PROVE  [QueueNext]_queueVars
<1>1. ASSUME NEW w \in Workers, AgentStep(w) PROVE [QueueNext]_queueVars
  BY <1>1 DEF AgentStep, Launch, Stop, CloseHttp, Kill, SendHeartbeat, HeartbeatAnswered,
              AgentLease, QueueNext, WorkerStep
<1>2. ASSUME NEW r \in Runs, at[r] # "none", HandleTask(r) PROVE [QueueNext]_queueVars
  <2>1. by[r] \in Workers /\ TaskOf(r) \in Tasks
    BY <1>2, RunParts DEF RunsFollowAttempts
  <2>2. CASE PostStart(r)
    BY <2>1, <2>2 DEF PostStart, QueueNext, TaskStep
  <2>3. CASE PostComplete(r)
    <3>1. TakeComplete(TaskOf(r), by[r], read[r]) \/ UNCHANGED queueVars
      BY <2>3 DEF PostComplete
    <3> QED
      BY <2>1, <3>1, TakeIsReport DEF QueueNext
  <2>4. CASE PostFail(r)
    <3>1. TakeFail(TaskOf(r), by[r], at[r] = "fail") \/ UNCHANGED queueVars
      BY <2>4 DEF PostFail
    <3> QED
      BY <2>1, <3>1, TakeIsReport DEF QueueNext
  <2> QED
    BY <1>2, <2>2, <2>3, <2>4
    DEF HandleTask, Prepare, PollExit, PollCancel, TickAfterClose, EvidenceLost, Cleanup
<1>3. ASSUME NEW r \in Runs, HandleTask(r) PROVE at[r] # "none"
  BY <1>3 DEF HandleTask, PostStart, Prepare, PollExit, PollCancel, TickAfterClose,
              EvidenceLost, PostComplete, PostFail, Cleanup
<1>4. ASSUME NEW j \in Jobs, ClientStep(j) PROVE [QueueNext]_queueVars
  <2>1. toMark[j] \in {"none", "cancelling", "cancelled"}
    BY DEF AgentTypeOK
  <2> QED
    BY <1>4, <2>1 DEF ClientStep, Submit, CancelTasks, MarkJob, CloseJob, QueueNext, JobStep,
                      JobTerminal
<1>5. CASE ReapLeases \/ (\E t \in Tasks : TimePasses(t)) \/ (\E r \in Runs : ChildEnds(r))
  BY <1>5 DEF ReapLeases, TimePasses, ChildEnds, QueueNext, ReaperStep
<1>6. CASE UNCHANGED clusterVars
  BY <1>6 DEF clusterVars
<1> QED
  BY <1>1, <1>2, <1>3, <1>4, <1>5, <1>6 DEF AgentNext

LEMMA ThreadTypeStep ==
  ASSUME AgentTypeOK, RunsFollowAttempts, QueueTypeOK', NEW r \in Runs,
         HandleTask(r) \/ ChildEnds(r)
  PROVE  AgentTypeOK'
<1> USE DEF AgentTypeOK, serverVars, threadVars, signalVars, lossVars, Goto, ThreadPC
<1>0. at[r] # "none" \/ child[r] = "running"
  BY DEF HandleTask, PostStart, Prepare, PollExit, PollCancel, TickAfterClose,
         EvidenceLost, PostComplete, PostFail, Cleanup, ChildEnds
<1>1. by[r] \in Workers /\ TaskOf(r) \in Tasks /\ Dir[by[r]] \in Dirs
  BY <1>0, RunParts DEF RunsFollowAttempts, Dirs
<1>2. r[2] \in {q[2] : q \in Runs}
  OBVIOUS
<1>3. Lose(r) => mislaid' \subseteq Runs /\ losses' \in 0..MaxLosses
  BY DEF Lose
<1>10. onDisk[Dir[by[r]]][TaskOf(r)] \in {0} \cup {q[2] : q \in Runs}
  BY <1>1
<1>11. ASSUME NEW n \in {0} \cup {q[2] : q \in Runs},
              onDisk' = [onDisk EXCEPT ![Dir[by[r]]][TaskOf(r)] = n]
       PROVE  onDisk' \in [Dirs -> [Tasks -> {0} \cup {q[2] : q \in Runs}]]
  BY <1>1, <1>11
<1>4. CASE PostStart(r)
  BY <1>3, <1>4 DEF PostStart
<1>5. CASE Prepare(r) \/ TickAfterClose(r) \/ EvidenceLost(r)
  <2>1. CASE Prepare(r)
    BY <2>1 DEF Prepare
  <2>2. CASE TickAfterClose(r)
    BY <2>2 DEF TickAfterClose
  <2>3. CASE EvidenceLost(r)
    <3>1. losses' \in 0..MaxLosses
      BY <2>3 DEF EvidenceLost
    <3> QED
      BY <2>3, <3>1 DEF EvidenceLost
  <2> QED
    BY <1>5, <2>1, <2>2, <2>3
<1>12. CASE PollExit(r)
  <2>1. read' = read \/ read' = [read EXCEPT ![r] = onDisk[Dir[by[r]]][TaskOf(r)]]
    BY <1>12 DEF PollExit
  <2>2. read' \in [Runs -> {0} \cup {q[2] : q \in Runs}]
    BY <1>10, <2>1
  <2>3. at' = [at EXCEPT ![r] = "complete"] \/ at' = [at EXCEPT ![r] = "fail"]
    BY <1>12 DEF PollExit
  <2> QED
    BY <1>12, <2>2, <2>3 DEF PollExit
<1>13. CASE PollCancel(r)
  BY <1>13 DEF PollCancel
<1>6. CASE PostComplete(r)
  <2>1. result' = result \/ result' = [result EXCEPT ![TaskOf(r)] = read[r]]
    BY <1>6 DEF PostComplete, TakeComplete, Refused
  <2>2. toMark' = toMark
    BY <1>6 DEF PostComplete, TakeComplete
  <2> QED
    BY <1>3, <1>6, <2>1, <2>2 DEF PostComplete
<1>7. CASE PostFail(r)
  <2>1. result' = result /\ toMark' = toMark
    BY <1>7 DEF PostFail, TakeFail
  <2> QED
    BY <1>3, <1>7, <2>1 DEF PostFail
<1>8. CASE Cleanup(r)
  <2>1. PICK n \in {0} \cup {q[2] : q \in Runs} :
          onDisk' = [onDisk EXCEPT ![Dir[by[r]]][TaskOf(r)] = n]
    <3>1. CASE TaskOf(r) \in KeepWorkspace
      BY <1>1, <1>8, <1>10, <3>1 DEF Cleanup
    <3>2. CASE TaskOf(r) \notin KeepWorkspace
      BY <1>1, <1>8, <3>2 DEF Cleanup
    <3> QED
      BY <3>1, <3>2
  <2>2. cancelRequested' \in [Workers -> SUBSET Tasks]
    BY <1>1, <1>8 DEF Cleanup
  <2> QED
    BY <1>8, <1>11, <2>1, <2>2 DEF Cleanup
<1>9. CASE ChildEnds(r)
  <2>1. PICK n \in {0} \cup {q[2] : q \in Runs} :
          onDisk' = [onDisk EXCEPT ![Dir[by[r]]][TaskOf(r)] = n]
    BY <1>2, <1>9, <1>10 DEF ChildEnds
  <2> QED
    BY <1>9, <1>11, <2>1 DEF ChildEnds
<1> QED
  BY <1>4, <1>5, <1>6, <1>7, <1>8, <1>9, <1>12, <1>13 DEF HandleTask

LEMMA ProcessTypeStep ==
  ASSUME AgentTypeOK, TableInv, QueueTypeOK', NEW w \in Workers, AgentStep(w)
  PROVE  AgentTypeOK'
<1> USE DEF AgentTypeOK, serverVars, threadVars, signalVars, lossVars, Goto, ThreadPC, AgentStates
<1>1. CASE Launch(w) \/ Stop(w) \/ CloseHttp(w)
  BY <1>1 DEF Launch, Stop, CloseHttp
<1>2. CASE Kill(w)
  BY <1>2 DEF Kill
<1>3. CASE SendHeartbeat(w)
  <2>1. CancelIds(w) \subseteq Tasks
    BY DEF CancelIds, InFlightTasks, HeldIn
  <2>2. reply' \in [Workers -> SUBSET Tasks]
    BY <1>3, <2>1 DEF SendHeartbeat
  <2>3. losses' \in 0..MaxLosses /\ mislaid' = mislaid
    BY <1>3 DEF SendHeartbeat
  <2> QED
    BY <1>3, <2>2, <2>3 DEF SendHeartbeat
<1>5. CASE HeartbeatAnswered(w)
  <2>1. cancelRequested' \in [Workers -> SUBSET Tasks]
    BY <1>5 DEF HeartbeatAnswered
  <2> QED
    BY <1>5, <2>1 DEF HeartbeatAnswered
<1>4. CASE AgentLease(w)
  <2>1. PICK t \in Tasks :
          /\ LeaseTask(w, t)
          /\ by' = [by EXCEPT ![<<t, attempt[t] + 1>>] = w]
          /\ \/ Goto(<<t, attempt[t] + 1>>, "granted") /\ UNCHANGED lossVars
             \/ Goto(<<t, attempt[t] + 1>>, "done") /\ Lose(<<t, attempt[t] + 1>>)
    BY <1>4 DEF AgentLease
  <2>2. <<t, attempt[t] + 1>> \in Runs
    BY <2>1, LeasedRun
  <2>3. PICK r \in Runs : r = <<t, attempt[t] + 1>>
    BY <2>2
  <2>4. mislaid' \subseteq Runs /\ losses' \in 0..MaxLosses
    <3>1. Lose(r) => mislaid' \subseteq Runs /\ losses' \in 0..MaxLosses
      BY DEF Lose
    <3> QED
      BY <2>1, <2>3, <3>1
  <2>5. at' \in [Runs -> ThreadPC] /\ by' \in [Runs -> Workers \cup {NoWorker}]
    BY <2>1, <2>3
  <2> QED
    BY <1>4, <2>4, <2>5 DEF AgentLease
<1> QED
  BY <1>1, <1>2, <1>3, <1>4, <1>5 DEF AgentStep

LEMMA AgentTypeStep ==
  ASSUME AgentTypeOK, TableInv, RunsFollowAttempts, [AgentNext]_clusterVars
  PROVE  AgentTypeOK'
<1>1. QueueTypeOK'
  BY AgentMovesQueue, TableStep DEF TableInv
<1>2. ASSUME NEW j \in Jobs, ClientStep(j) PROVE AgentTypeOK'
  BY <1>1, <1>2 DEF ClientStep, Submit, CancelTasks, MarkJob, CloseJob, AgentTypeOK, serverVars,
                    agentVars, threadVars, signalVars, lossVars
<1>3. CASE ReapLeases \/ \E t \in Tasks : TimePasses(t)
  BY <1>1, <1>3 DEF ReapLeases, TimePasses, AgentTypeOK, serverVars, agentVars, threadVars,
                    signalVars, lossVars
<1>4. CASE UNCHANGED clusterVars
  BY <1>1, <1>4 DEF clusterVars, AgentTypeOK, serverVars, agentVars, threadVars, signalVars,
                    lossVars
<1> QED
  BY <1>1, <1>2, <1>3, <1>4, ThreadTypeStep, ProcessTypeStep DEF AgentNext

-----------------------------------------------------------------------------
(* How the thread of a run moves                                           *)

\* One step of a thread or of its child, as seen by the run itself.
RunMoves(r) ==
  \/ at[r] = "granted" /\ at'[r] \in {"prepare", "fail", "cleanup"} /\ child'[r] = child[r]
  \/ at[r] = "prepare" /\ at'[r] \in {"fail", "failForGood"} /\ child'[r] = child[r]
  \/ at[r] = "prepare" /\ at'[r] = "running" /\ child'[r] = "running"
  \/ /\ at[r] = "running" /\ at'[r] \in {"complete", "fail"}
     /\ child[r] # "running" /\ child'[r] = child[r]
  \/ /\ at[r] = "running" /\ at'[r] = "failForGood"
     /\ child'[r] = IF child[r] = "running" THEN "failed" ELSE child[r]
  \/ at[r] = "running" /\ ~Online(r) /\ at'[r] = "fail" /\ child'[r] = child[r]
  \/ /\ at[r] \in {"complete", "fail", "failForGood", "cleanup"}
     /\ at'[r] \in {"fail", "cleanup", "done"}
     /\ child'[r] = child[r]
  \/ at'[r] = at[r] /\ child[r] = "running" /\ child'[r] \in {"succeeded", "failed"}

\* The other runs stay where they are, and no thread step grants an attempt.
LEMMA ThreadFrame ==
  ASSUME AgentTypeOK, NEW r \in Runs, HandleTask(r) \/ ChildEnds(r)
  PROVE  /\ by' = by /\ agent' = agent /\ attempt' = attempt /\ reply' = reply
         /\ jobStatus' = jobStatus /\ toMark' = toMark
         /\ \A q \in Runs \ {r} : at'[q] = at[q] /\ child'[q] = child[q] /\ read'[q] = read[q]
<1> USE DEF AgentTypeOK, serverVars, threadVars, signalVars, lossVars, queueVars, jobVars, Goto
<1>1. CASE PostStart(r)
  BY <1>1 DEF PostStart, StartTask
<1>2. CASE Prepare(r) \/ PollExit(r) \/ PollCancel(r) \/ TickAfterClose(r) \/ EvidenceLost(r)
  BY <1>2 DEF Prepare, PollExit, PollCancel, TickAfterClose, EvidenceLost
<1>3. CASE PostComplete(r)
  <2>1. /\ jobStatus' = jobStatus /\ attempt' = attempt /\ toMark' = toMark
    BY <1>3 DEF PostComplete, TakeComplete, Refused, CompleteTask, CancelRunningTask
  <2> QED
    BY <1>3, <2>1 DEF PostComplete
<1>4. CASE PostFail(r)
  <2>1. /\ jobStatus' = jobStatus /\ attempt' = attempt /\ toMark' = toMark
    BY <1>4 DEF PostFail, TakeFail, Refused, FailTask, CancelRunningTask
  <2> QED
    BY <1>4, <2>1 DEF PostFail
<1>5. CASE Cleanup(r)
  BY <1>5 DEF Cleanup
<1>6. CASE ChildEnds(r)
  BY <1>6 DEF ChildEnds
<1> QED
  BY <1>1, <1>2, <1>3, <1>4, <1>5, <1>6 DEF HandleTask

LEMMA ThreadMoves ==
  ASSUME AgentTypeOK, NEW r \in Runs, HandleTask(r) \/ ChildEnds(r)
  PROVE  RunMoves(r)
<1> USE DEF AgentTypeOK, threadVars, Goto, RunMoves
<1>1. CASE PostStart(r)
  BY <1>1 DEF PostStart
<1>2. CASE Prepare(r) \/ TickAfterClose(r)
  BY <1>2 DEF Prepare, TickAfterClose
<1>3. CASE PollExit(r) \/ PollCancel(r)
  BY <1>3 DEF PollExit, PollCancel
<1>4. CASE EvidenceLost(r) \/ PostComplete(r) \/ PostFail(r) \/ Cleanup(r)
  BY <1>4 DEF EvidenceLost, PostComplete, PostFail, Cleanup
<1>5. CASE ChildEnds(r)
  BY <1>5 DEF ChildEnds
<1> QED
  BY <1>1, <1>2, <1>3, <1>4, <1>5 DEF HandleTask

\* The other steps, except the grant of a run and the end of an agent.
QuietStep ==
  \/ \E j \in Jobs : ClientStep(j)
  \/ ReapLeases
  \/ \E t \in Tasks : TimePasses(t)
  \/ \E w \in Workers :
       \/ Launch(w) \/ Stop(w) \/ CloseHttp(w)
       \/ SendHeartbeat(w) \/ HeartbeatAnswered(w)
  \/ UNCHANGED clusterVars

LEMMA QuietFrame ==
  ASSUME QuietStep
  PROVE  /\ UNCHANGED threadVars
         /\ attempt' = attempt
         /\ result' = result
         /\ mislaid' = mislaid
<1> USE DEF serverVars, agentVars, signalVars, lossVars, queueVars, taskVars
<1>1. ASSUME NEW j \in Jobs, ClientStep(j)
      PROVE  UNCHANGED threadVars /\ attempt' = attempt /\ result' = result /\ mislaid' = mislaid
  BY <1>1 DEF ClientStep, Submit, CancelTasks, MarkJob, CloseJob, CreateJobWithTasks,
              CancelJobTasks, SetJobStatus
<1>2. CASE ReapLeases \/ \E t \in Tasks : TimePasses(t)
  BY <1>2 DEF ReapLeases, TimePasses, ReapExpiredLeases, ResolveLost, LeaseLapse
<1>3. ASSUME NEW w \in Workers, Launch(w) \/ Stop(w) \/ CloseHttp(w) \/ HeartbeatAnswered(w)
      PROVE  UNCHANGED threadVars /\ attempt' = attempt /\ result' = result /\ mislaid' = mislaid
  BY <1>3 DEF Launch, Stop, CloseHttp, HeartbeatAnswered, RegisterWorker
<1>4. ASSUME NEW w \in Workers, SendHeartbeat(w)
      PROVE  UNCHANGED threadVars /\ attempt' = attempt /\ result' = result /\ mislaid' = mislaid
  BY <1>4 DEF SendHeartbeat, HeartbeatWorker
<1>5. CASE UNCHANGED clusterVars
  BY <1>5 DEF clusterVars
<1> QED
  BY <1>1, <1>2, <1>3, <1>4, <1>5 DEF QuietStep

\* No agent returns: one that serves was serving, or registers now and has
\* neither threads nor tasks.
LEMMA QuietAgents ==
  ASSUME AgentTypeOK, QuietStep, NEW w \in Workers
  PROVE  /\ agent[w] # "off" => agent'[w] # "off"
         /\ agent'[w] \in {"up", "draining"} =>
              agent[w] \in {"up", "draining"} \/ (agent[w] = "off" /\ Launch(w))
<1> USE DEF AgentTypeOK, agentVars, AgentStates
<1>1. CASE \E j \in Jobs : ClientStep(j)
  BY <1>1 DEF ClientStep, Submit, CancelTasks, MarkJob, CloseJob
<1>2. CASE ReapLeases \/ \E t \in Tasks : TimePasses(t)
  BY <1>2 DEF ReapLeases, TimePasses
<1>3. ASSUME NEW v \in Workers, Launch(v)
      PROVE  /\ agent[w] # "off" => agent'[w] # "off"
             /\ agent'[w] \in {"up", "draining"} =>
                  agent[w] \in {"up", "draining"} \/ (agent[w] = "off" /\ Launch(w))
  <2>1. agent[v] = "off" /\ agent' = [agent EXCEPT ![v] = "up"]
    BY <1>3 DEF Launch
  <2>2. CASE v = w
    BY <1>3, <2>1, <2>2
  <2>3. CASE v # w
    BY <2>1, <2>3
  <2> QED
    BY <2>2, <2>3
<1>4. CASE \E v \in Workers : Stop(v) \/ CloseHttp(v)
  BY <1>4 DEF Stop, CloseHttp
<1>5. CASE \E v \in Workers : SendHeartbeat(v) \/ HeartbeatAnswered(v)
  BY <1>5 DEF SendHeartbeat, HeartbeatAnswered
<1>6. CASE UNCHANGED clusterVars
  BY <1>6 DEF clusterVars
<1> QED
  BY <1>1, <1>2, <1>3, <1>4, <1>5, <1>6 DEF QuietStep

\* Every step is a thread's or a child's, a grant, the end of an agent, or quiet.
LEMMA AgentCases ==
  ASSUME [AgentNext]_clusterVars
  PROVE  \/ \E r \in Runs : HandleTask(r) \/ ChildEnds(r)
         \/ \E w \in Workers : AgentLease(w) \/ Kill(w)
         \/ QuietStep
BY DEF AgentNext, AgentStep, QuietStep

\* The lease of a task, with the run it starts.
LEMMA LeaseSteps ==
  ASSUME AgentTypeOK, TableInv, RunsFollowAttempts, NEW w \in Workers, AgentLease(w)
  PROVE  \E t \in Tasks, r \in Runs :
           /\ r = <<t, attempt[t] + 1>> /\ TaskOf(r) = t
           /\ at[r] = "none" /\ by[r] = NoWorker /\ child[r] = "none"
           /\ agent[w] = "up" /\ HasIdleSlot(w)
           /\ LeaseTask(w, t)
           /\ by' = [by EXCEPT ![r] = w]
           /\ \/ at' = [at EXCEPT ![r] = "granted"] /\ mislaid' = mislaid
              \/ at' = [at EXCEPT ![r] = "done"] /\ mislaid' = mislaid \cup {r}
           /\ UNCHANGED <<serverVars, agent, child, onDisk, read, signalVars>>
<1>1. PICK t \in Tasks :
        /\ LeaseTask(w, t)
        /\ by' = [by EXCEPT ![<<t, attempt[t] + 1>>] = w]
        /\ \/ Goto(<<t, attempt[t] + 1>>, "granted") /\ UNCHANGED lossVars
           \/ Goto(<<t, attempt[t] + 1>>, "done") /\ Lose(<<t, attempt[t] + 1>>)
  BY DEF AgentLease
<1>2. <<t, attempt[t] + 1>> \in Runs /\ attempt[t] \in Nat /\ TaskOf(<<t, attempt[t] + 1>>) = t
  BY <1>1, LeasedRun
<1>3. PICK r \in Runs : r = <<t, attempt[t] + 1>>
  BY <1>2
<1>4. attempt[TaskOf(r)] < r[2]
  BY <1>2, <1>3
<1>5. at[r] = "none" /\ by[r] = NoWorker /\ child[r] = "none"
  BY <1>4 DEF RunsFollowAttempts
<1>6. \/ at' = [at EXCEPT ![r] = "granted"] /\ mislaid' = mislaid
      \/ at' = [at EXCEPT ![r] = "done"] /\ mislaid' = mislaid \cup {r}
  BY <1>1, <1>3 DEF Goto, Lose, lossVars
<1>7. by' = [by EXCEPT ![r] = w]
  BY <1>1, <1>3
<1> QED
  BY <1>1, <1>2, <1>3, <1>5, <1>6, <1>7 DEF AgentLease

-----------------------------------------------------------------------------
(* Runs follow the attempts granted                                        *)

LEMMA AttemptsFromLease ==
  ASSUME AgentTypeOK, NEW w \in Workers, NEW t \in Tasks, LeaseTask(w, t), NEW u \in Tasks
  PROVE  attempt[u] =< attempt'[u] /\ attempt'[t] = attempt[t] + 1
                     /\ attempt[u] \in Nat /\ attempt'[u] \in Nat
BY DEF LeaseTask, AgentTypeOK, QueueTypeOK

LEMMA RunsFollowStep ==
  ASSUME AgentTypeOK, TableInv, RunsFollowAttempts, [AgentNext]_clusterVars
  PROVE  RunsFollowAttempts'
<1> USE DEF Online
<1>1. ASSUME NEW r \in Runs, HandleTask(r) \/ ChildEnds(r) PROVE RunsFollowAttempts'
  <2>1. RunMoves(r)
    BY <1>1, ThreadMoves
  <2>2. by' = by /\ agent' = agent /\ attempt' = attempt
    BY <1>1, ThreadFrame
  <2>3. \A q \in Runs \ {r} : at'[q] = at[q] /\ child'[q] = child[q]
    BY <1>1, ThreadFrame
  <2> QED
    BY <2>1, <2>2, <2>3 DEF RunMoves, RunsFollowAttempts
<1>2. ASSUME NEW w \in Workers, AgentLease(w) PROVE RunsFollowAttempts'
  <2>1. PICK t \in Tasks, r \in Runs :
          /\ r = <<t, attempt[t] + 1>> /\ TaskOf(r) = t
          /\ at[r] = "none" /\ by[r] = NoWorker /\ child[r] = "none"
          /\ agent[w] = "up"
          /\ LeaseTask(w, t)
          /\ by' = [by EXCEPT ![r] = w]
          /\ at' = [at EXCEPT ![r] = "granted"] \/ at' = [at EXCEPT ![r] = "done"]
          /\ UNCHANGED <<agent, child>>
    BY <1>2, LeaseSteps
  <2>2. \A u \in Tasks : attempt[u] =< attempt'[u] /\ attempt[u] \in Nat /\ attempt'[u] \in Nat
    BY <2>1, AttemptsFromLease
  <2>3. attempt'[t] = attempt[t] + 1 /\ r[2] = attempt[t] + 1
    BY <2>1, AttemptsFromLease
  <2> SUFFICES ASSUME NEW q \in Runs
               PROVE  /\ attempt'[TaskOf(q)] < q[2] => at'[q] = "none"
                      /\ at'[q] = "none" => by'[q] = NoWorker /\ child'[q] = "none"
                      /\ at'[q] # "none" => by'[q] \in Workers /\ agent'[by'[q]] # "off"
                      /\ at'[q] \in {"granted", "prepare"} => child'[q] = "none"
                      /\ (child'[q] = "running" /\ Online(q)') => at'[q] = "running"
    BY DEF RunsFollowAttempts, TaskOf
  <2>4. CASE q = r
    <3>1. ~(attempt'[TaskOf(q)] < q[2])
      BY <2>1, <2>2, <2>3, <2>4
    <3> QED
      BY <2>1, <2>4, <3>1 DEF AgentTypeOK
  <2>5. CASE q # r
    <3>1. at'[q] = at[q] /\ by'[q] = by[q]
      BY <2>1, <2>5 DEF AgentTypeOK
    <3>2. attempt'[TaskOf(q)] < q[2] => attempt[TaskOf(q)] < q[2]
      BY <2>2, RunParts
    <3> QED
      BY <2>1, <3>1, <3>2 DEF RunsFollowAttempts
  <2> QED
    BY <2>4, <2>5
<1>3. ASSUME NEW w \in Workers, Kill(w) PROVE RunsFollowAttempts'
  <2>1. /\ agent' = [agent EXCEPT ![w] = "dead"]
        /\ at' = [q \in Runs |-> IF q \in Active(w) THEN "done" ELSE at[q]]
        /\ UNCHANGED <<by, child, attempt>>
    BY <1>3 DEF Kill, queueVars
  <2> SUFFICES ASSUME NEW q \in Runs
               PROVE  /\ attempt'[TaskOf(q)] < q[2] => at'[q] = "none"
                      /\ at'[q] = "none" => by'[q] = NoWorker /\ child'[q] = "none"
                      /\ at'[q] # "none" => by'[q] \in Workers /\ agent'[by'[q]] # "off"
                      /\ at'[q] \in {"granted", "prepare"} => child'[q] = "none"
                      /\ (child'[q] = "running" /\ Online(q)') => at'[q] = "running"
    BY DEF RunsFollowAttempts, TaskOf
  <2>2. CASE q \in Active(w)
    BY <2>1, <2>2 DEF Active, AgentTypeOK, RunsFollowAttempts
  <2>3. CASE q \notin Active(w)
    BY <2>1, <2>3 DEF Active, AgentTypeOK, RunsFollowAttempts
  <2> QED
    BY <2>2, <2>3
<1>4. CASE QuietStep
  <2>1. UNCHANGED <<at, by, child, attempt>>
    BY <1>4, QuietFrame DEF threadVars
  <2>2. \A w \in Workers : agent[w] # "off" => agent'[w] # "off"
    BY <1>4, QuietAgents
  <2>3. \A w \in Workers : agent[w] # "off" /\ agent'[w] \in {"up", "draining"}
                             => agent[w] \in {"up", "draining"}
    BY <1>4, QuietAgents
  <2> QED
    BY <2>1, <2>2, <2>3 DEF RunsFollowAttempts
<1> QED
  BY <1>1, <1>2, <1>3, <1>4, AgentCases

-----------------------------------------------------------------------------
(* A recorded success was produced                                         *)

\* The runs whose child ended well.
Produced == {q \in Runs : child[q] = "succeeded"}

\* A success that is on disk, read or recorded is that of a run of the task
\* whose child ended well.
SuccessIsTraced ==
  /\ \A d \in Dirs : \A t \in Tasks : onDisk[d][t] # 0 => <<t, onDisk[d][t]>> \in Produced
  /\ \A r \in Runs : read[r] # 0 => <<TaskOf(r), read[r]>> \in Produced
  /\ \A r \in Runs : at[r] = "complete" => read[r] # 0
  /\ \A t \in Tasks : result[t] # 0 => <<t, result[t]>> \in Produced
  /\ \A t \in Tasks : status[t] = "succeeded" => result[t] # 0

\* What has ended well stays so: a child is started once.
LEMMA ProducedStays ==
  ASSUME AgentTypeOK, TableInv, RunsFollowAttempts, [AgentNext]_clusterVars
  PROVE  Produced \subseteq Produced'
<1> SUFFICES ASSUME NEW q \in Runs, child[q] = "succeeded" PROVE child'[q] = "succeeded"
  BY DEF Produced
<1>1. ASSUME NEW r \in Runs, HandleTask(r) \/ ChildEnds(r) PROVE child'[q] = "succeeded"
  <2>1. CASE q = r
    BY <1>1, <2>1, ThreadMoves DEF RunMoves, RunsFollowAttempts
  <2>2. CASE q # r
    BY <1>1, <2>2, ThreadFrame
  <2> QED
    BY <2>1, <2>2
<1>2. CASE \E w \in Workers : AgentLease(w) \/ Kill(w)
  BY <1>2 DEF AgentLease, Kill
<1>3. CASE QuietStep
  BY <1>3, QuietFrame DEF threadVars
<1> QED
  BY <1>1, <1>2, <1>3, AgentCases

\* Of the steps of the agents, only a report of success records a result.
LEMMA ResultByReport ==
  ASSUME AgentTypeOK, TableInv, RunsFollowAttempts, [AgentNext]_clusterVars
  PROVE  \/ result' = result /\ \A t \in Tasks : status'[t] = "succeeded" => status[t] = "succeeded"
         \/ \E r \in Runs : /\ at[r] = "complete"
                            /\ result' = [result EXCEPT ![TaskOf(r)] = read[r]]
                            /\ \A t \in Tasks \ {TaskOf(r)} :
                                 status'[t] = "succeeded" => status[t] = "succeeded"
<1> DEFINE Same == result' = result
                   /\ \A t \in Tasks : status'[t] = "succeeded" => status[t] = "succeeded"
           Recorded(r) == /\ at[r] = "complete"
                          /\ result' = [result EXCEPT ![TaskOf(r)] = read[r]]
                          /\ \A t \in Tasks \ {TaskOf(r)} :
                               status'[t] = "succeeded" => status[t] = "succeeded"
<1> USE DEF serverVars, agentVars, threadVars, signalVars, lossVars, queueVars, taskVars,
            AgentTypeOK, QueueTypeOK, WriteTasks
<1>1. ASSUME NEW r \in Runs, PostComplete(r) PROVE Same \/ Recorded(r)
  <2>1. TaskOf(r) \in Tasks /\ at[r] = "complete"
    BY <1>1, RunParts DEF PostComplete
  <2>2. TakeComplete(TaskOf(r), by[r], read[r]) \/ UNCHANGED <<queueVars, serverVars>>
    BY <1>1 DEF PostComplete
  <2>3. CASE CompleteTask(TaskOf(r), by[r]) /\ result' = [result EXCEPT ![TaskOf(r)] = read[r]]
    BY <2>1, <2>3 DEF CompleteTask
  <2>4. CASE CancelRunningTask(TaskOf(r), by[r]) /\ result' = result
    BY <2>1, <2>4 DEF CancelRunningTask
  <2> QED
    BY <2>2, <2>3, <2>4 DEF TakeComplete, Refused
<1>2. ASSUME NEW r \in Runs, PostFail(r) PROVE Same
  <2>1. TaskOf(r) \in Tasks
    BY RunParts
  <2>2. TakeFail(TaskOf(r), by[r], at[r] = "fail") \/ UNCHANGED <<queueVars, serverVars>>
    BY <1>2 DEF PostFail
  <2>3. CASE TakeFail(TaskOf(r), by[r], at[r] = "fail")
    BY <2>1, <2>3 DEF TakeFail, Refused, FailTask, CancelRunningTask
  <2> QED
    BY <2>2, <2>3
<1>3. ASSUME NEW r \in Runs, HandleTask(r) \/ ChildEnds(r), ~PostComplete(r), ~PostFail(r)
      PROVE  Same
  <2>1. result' = result
    BY <1>3 DEF HandleTask, PostStart, Prepare, PollExit, PollCancel, TickAfterClose,
                EvidenceLost, Cleanup, ChildEnds
  <2>2. StartTask(TaskOf(r), by[r]) \/ UNCHANGED queueVars
    BY <1>3 DEF HandleTask, PostStart, Prepare, PollExit, PollCancel, TickAfterClose,
                EvidenceLost, Cleanup, ChildEnds
  <2> QED
    BY <2>1, <2>2, RunParts DEF StartTask
<1>4. ASSUME NEW w \in Workers, AgentLease(w) \/ Kill(w) PROVE Same
  BY <1>4 DEF AgentLease, Kill, LeaseTask
<1>5. CASE QuietStep
  <2>1. result' = result
    BY <1>5, QuietFrame
  <2>2. ASSUME NEW t \in Tasks, status'[t] = "succeeded", status[t] # "succeeded" PROVE FALSE
    <3>3. CASE \E j \in Jobs : ClientStep(j)
      BY <2>2, <3>3 DEF ClientStep, Submit, CancelTasks, MarkJob, CloseJob, CreateJobWithTasks,
                        CancelJobTasks, SetJobStatus
    <3>4. CASE ReapLeases
      <4>1. status' = [u \in Tasks |-> IF u \in ExpiredTasks THEN LostOutcome(u) ELSE status[u]]
        BY <3>4 DEF ReapLeases, ReapExpiredLeases, ResolveLost
      <4>2. LostOutcome(t) # "succeeded"
        BY LostOutcomeType
      <4> QED
        BY <2>2, <4>1, <4>2
    <3>7. CASE \E u \in Tasks : TimePasses(u)
      BY <2>2, <3>7 DEF TimePasses, LeaseLapse
    <3>5. CASE \E v \in Workers : \/ Launch(v) \/ Stop(v) \/ CloseHttp(v)
                                  \/ SendHeartbeat(v) \/ HeartbeatAnswered(v)
      BY <2>2, <3>5 DEF Launch, Stop, CloseHttp, SendHeartbeat, HeartbeatAnswered,
                        RegisterWorker, HeartbeatWorker
    <3>6. CASE UNCHANGED clusterVars
      BY <2>2, <3>6 DEF clusterVars
    <3> QED
      BY <1>5, <3>3, <3>4, <3>5, <3>6, <3>7 DEF QuietStep
  <2> QED
    BY <2>1, <2>2
<1> QED
  BY <1>1, <1>2, <1>3, <1>4, <1>5, AgentCases

\* What a thread reads, and a child or the clean-up leaves on disk.
LEMMA DiskAndReads ==
  ASSUME AgentTypeOK, RunsFollowAttempts, [AgentNext]_clusterVars
  PROVE  /\ \A d \in Dirs : \A t \in Tasks :
              \/ onDisk'[d][t] \in {0, onDisk[d][t]}
              \/ <<t, onDisk'[d][t]>> \in Produced'
         /\ \A r \in Runs : \/ read'[r] \in {0, read[r]}
                            \/ \E d \in Dirs : read'[r] = onDisk[d][TaskOf(r)]
         /\ \A r \in Runs : at'[r] = "complete" =>
              \/ at[r] = "complete" /\ read'[r] = read[r]
              \/ read'[r] # 0
<1> DEFINE Goal == /\ \A d \in Dirs : \A t \in Tasks :
                        \/ onDisk'[d][t] \in {0, onDisk[d][t]}
                        \/ <<t, onDisk'[d][t]>> \in Produced'
                   /\ \A r \in Runs : \/ read'[r] \in {0, read[r]}
                                      \/ \E d \in Dirs : read'[r] = onDisk[d][TaskOf(r)]
                   /\ \A r \in Runs : at'[r] = "complete" =>
                        \/ at[r] = "complete" /\ read'[r] = read[r]
                        \/ read'[r] # 0
<1> USE DEF AgentTypeOK, Goto, threadVars
<1>1. ASSUME NEW r \in Runs, PollExit(r) PROVE Goal
  <2>1. Dir[by[r]] \in Dirs
    BY <1>1 DEF PollExit, RunsFollowAttempts, Dirs
  <2>2. read' = read \/ read' = [read EXCEPT ![r] = onDisk[Dir[by[r]]][TaskOf(r)]]
    BY <1>1 DEF PollExit
  <2>3. at'[r] = "complete" => read'[r] # 0
    BY <1>1 DEF PollExit, ReadsSuccess
  <2>4. \A q \in Runs \ {r} : at'[q] = at[q] /\ read'[q] = read[q]
    BY <1>1 DEF PollExit
  <2> QED
    BY <1>1, <2>1, <2>2, <2>3, <2>4 DEF PollExit
<1>2. ASSUME NEW r \in Runs, ChildEnds(r) PROVE Goal
  <2>1. r = <<TaskOf(r), r[2]>> /\ Dir[by[r]] \in Dirs /\ TaskOf(r) \in Tasks
    BY <1>2, RunParts DEF ChildEnds, RunsFollowAttempts, Dirs
  <2>2. CASE child' = [child EXCEPT ![r] = "succeeded"]
             /\ onDisk' = [onDisk EXCEPT ![Dir[by[r]]][TaskOf(r)] = r[2]]
    <3>1. r \in Produced' /\ r = <<TaskOf(r), r[2]>>
      BY <2>1, <2>2 DEF Produced
    <3>2. ASSUME NEW d \in Dirs, NEW t \in Tasks
          PROVE  onDisk'[d][t] = onDisk[d][t] \/ (t = TaskOf(r) /\ onDisk'[d][t] = r[2])
      BY <2>1, <2>2
    <3>3. \A d \in Dirs : \A t \in Tasks :
            onDisk'[d][t] = onDisk[d][t] \/ <<t, onDisk'[d][t]>> \in Produced'
      <4> SUFFICES ASSUME NEW d \in Dirs, NEW t \in Tasks, onDisk'[d][t] # onDisk[d][t]
                   PROVE  <<t, onDisk'[d][t]>> \in Produced'
        OBVIOUS
      <4>1. <<t, onDisk'[d][t]>> = r
        BY <2>1, <3>2
      <4> QED
        BY <3>1, <4>1
    <3> QED
      BY <1>2, <3>3 DEF ChildEnds
  <2>3. CASE \E left \in {onDisk[Dir[by[r]]][TaskOf(r)], 0} :
               onDisk' = [onDisk EXCEPT ![Dir[by[r]]][TaskOf(r)] = left]
    <3>1. \A d \in Dirs : \A t \in Tasks : onDisk'[d][t] \in {0, onDisk[d][t]}
      BY <2>1, <2>3
    <3> QED
      BY <1>2, <3>1 DEF ChildEnds
  <2> QED
    BY <1>2, <2>2, <2>3 DEF ChildEnds
<1>3. ASSUME NEW r \in Runs, Cleanup(r) PROVE Goal
  <2>1. Dir[by[r]] \in Dirs /\ TaskOf(r) \in Tasks
    BY <1>3, RunParts DEF Cleanup, RunsFollowAttempts, Dirs
  <2>2. \A d \in Dirs : \A t \in Tasks : onDisk'[d][t] \in {0, onDisk[d][t]}
    BY <1>3, <2>1 DEF Cleanup
  <2>3. \A q \in Runs : read'[q] \in {0, read[q]}
    BY <1>3 DEF Cleanup
  <2>4. \A q \in Runs : at'[q] = "complete" => at[q] = "complete" /\ read'[q] = read[q]
    BY <1>3 DEF Cleanup
  <2> QED
    BY <2>2, <2>3, <2>4
<1>4. ASSUME NEW r \in Runs, HandleTask(r), ~PollExit(r), ~Cleanup(r) PROVE Goal
  BY <1>4 DEF HandleTask, PostStart, Prepare, PollCancel, TickAfterClose, EvidenceLost,
              PostComplete, PostFail
<1>5. ASSUME NEW w \in Workers, AgentLease(w) PROVE Goal
  <2>1. UNCHANGED <<onDisk, read>>
    BY <1>5 DEF AgentLease
  <2>2. \A q \in Runs : at'[q] = "complete" => at[q] = "complete"
    BY <1>5 DEF AgentLease
  <2> QED
    BY <2>1, <2>2
<1>6. ASSUME NEW w \in Workers, Kill(w) PROVE Goal
  BY <1>6 DEF Kill
<1>7. CASE QuietStep
  BY <1>7, QuietFrame
<1> QED
  BY <1>1, <1>2, <1>3, <1>4, <1>5, <1>6, <1>7, AgentCases

LEMMA TracedStep ==
  ASSUME AgentTypeOK, TableInv, RunsFollowAttempts, SuccessIsTraced, [AgentNext]_clusterVars
  PROVE  SuccessIsTraced'
<1>1. Produced \subseteq Produced'
  BY ProducedStays
<1>2. \A d \in Dirs : \A t \in Tasks : onDisk'[d][t] # 0 => <<t, onDisk'[d][t]>> \in Produced'
  <2> SUFFICES ASSUME NEW d \in Dirs, NEW t \in Tasks, onDisk'[d][t] # 0
               PROVE  <<t, onDisk'[d][t]>> \in Produced'
    OBVIOUS
  <2>1. onDisk'[d][t] \in {0, onDisk[d][t]} \/ <<t, onDisk'[d][t]>> \in Produced'
    BY DiskAndReads
  <2>2. CASE onDisk'[d][t] = onDisk[d][t]
    BY <1>1, <2>2 DEF SuccessIsTraced
  <2> QED
    BY <2>1, <2>2
<1>3. \A r \in Runs : read'[r] # 0 => <<TaskOf(r), read'[r]>> \in Produced'
  <2> SUFFICES ASSUME NEW r \in Runs, read'[r] # 0
               PROVE  <<TaskOf(r), read'[r]>> \in Produced'
    OBVIOUS
  <2>1. read'[r] \in {0, read[r]} \/ \E d \in Dirs : read'[r] = onDisk[d][TaskOf(r)]
    BY DiskAndReads
  <2>2. TaskOf(r) \in Tasks
    BY RunParts
  <2> QED
    BY <1>1, <2>1, <2>2 DEF SuccessIsTraced
<1>4. \A r \in Runs : at'[r] = "complete" => read'[r] # 0
  BY DiskAndReads DEF SuccessIsTraced
<1>5. /\ \A t \in Tasks : result'[t] # 0 => <<t, result'[t]>> \in Produced'
      /\ \A t \in Tasks : status'[t] = "succeeded" => result'[t] # 0
  <2>1. CASE /\ result' = result
             /\ \A t \in Tasks : status'[t] = "succeeded" => status[t] = "succeeded"
    BY <1>1, <2>1 DEF SuccessIsTraced
  <2>2. ASSUME NEW r \in Runs, at[r] = "complete",
               result' = [result EXCEPT ![TaskOf(r)] = read[r]],
               \A t \in Tasks \ {TaskOf(r)} : status'[t] = "succeeded" => status[t] = "succeeded"
        PROVE  /\ \A t \in Tasks : result'[t] # 0 => <<t, result'[t]>> \in Produced'
               /\ \A t \in Tasks : status'[t] = "succeeded" => result'[t] # 0
    <3>1. read[r] # 0 /\ <<TaskOf(r), read[r]>> \in Produced
      BY <2>2 DEF SuccessIsTraced
    <3> QED
      BY <1>1, <2>2, <3>1 DEF SuccessIsTraced, AgentTypeOK
  <2> QED
    BY <2>1, <2>2, ResultByReport
<1> QED
  BY <1>2, <1>3, <1>4, <1>5 DEF SuccessIsTraced, TaskOf

-----------------------------------------------------------------------------
(* A held task is attended                                                 *)

Working == {"prepare", "running", "complete", "fail", "failForGood"}

\* The thread of r is where a thread is that has the task in hand: before the
\* start of a task that is leased, or between start and report of one that runs.
Attends(r, t) ==
  /\ TaskOf(r) = t
  /\ \/ status[t] = "leased" /\ at[r] = "granted"
     \/ status[t] = "running" /\ at[r] \in Working

AttendedInv ==
  \A w \in Workers : \A t \in InFlightTasks(w) :
    agent[w] \in {"up", "draining"} =>
      MessageLost(w, t) \/ \E r \in Runs : by[r] = w /\ Attends(r, t)

\* A report about a task that runs, by its worker, takes it out of flight, and
\* one that changes nothing was not.
LEMMA ReportOutcome ==
  ASSUME AgentTypeOK, NEW t \in Tasks, NEW w, NEW n, NEW retriable,
         TakeComplete(t, w, n) \/ TakeFail(t, w, retriable)
  PROVE  /\ \A u \in Tasks \ {t} : status'[u] = status[u] /\ worker'[u] = worker[u]
         /\ \/ status'[t] \notin InFlight
            \/ /\ status'[t] = status[t] /\ worker'[t] = worker[t]
               /\ ~(worker[t] = w /\ status[t] = "running")
<1> USE DEF AgentTypeOK, QueueTypeOK, WriteTasks, InFlight, Owns
<1>1. CASE CompleteTask(t, w)
  BY <1>1 DEF CompleteTask
<1>2. CASE CancelRunningTask(t, w)
  BY <1>2 DEF CancelRunningTask
<1>3. CASE FailTask(t, w, retriable)
  BY <1>3 DEF FailTask
<1>4. CASE \E outcome \in {"succeeded", "failed"} : Refused(t, w, outcome)
  BY <1>4 DEF Refused, queueVars, TaskMay
<1> QED
  BY <1>1, <1>2, <1>3, <1>4 DEF TakeComplete, TakeFail

\* What a thread step does to a task that is in flight after it.
LEMMA ThreadKeepsFlight ==
  ASSUME AgentTypeOK, NEW r \in Runs, HandleTask(r) \/ ChildEnds(r),
         NEW t \in Tasks, status'[t] \in InFlight
  PROVE  /\ worker'[t] = worker[t]
         /\ \/ status'[t] = status[t]
            \/ /\ TaskOf(r) = t /\ by[r] = worker[t]
               /\ status[t] = "leased" /\ status'[t] = "running"
               /\ at'[r] \in {"prepare", "fail"}
<1> USE DEF AgentTypeOK, QueueTypeOK, InFlight, Goto
<1>1. TaskOf(r) \in Tasks
  BY RunParts
<1>2. CASE PostStart(r)
  <2>1. CASE StartTask(TaskOf(r), by[r])
    <3>1. /\ worker[TaskOf(r)] = by[r] /\ status[TaskOf(r)] = "leased"
          /\ status' = [status EXCEPT ![TaskOf(r)] = "running"] /\ worker' = worker
      BY <1>1, <2>1 DEF StartTask, Owns, TaskMay
    <3>2. ~UNCHANGED queueVars
      BY <1>1, <3>1 DEF queueVars
    <3>3. Goto(r, "prepare") \/ Goto(r, "fail")
      BY <1>2, <3>2 DEF PostStart
    <3> QED
      BY <1>1, <3>1, <3>3
  <2>2. CASE UNCHANGED queueVars
    BY <2>2 DEF queueVars
  <2> QED
    BY <1>2, <2>1, <2>2 DEF PostStart
<1>3. CASE PostComplete(r) \/ PostFail(r)
  <2>1. \/ TakeComplete(TaskOf(r), by[r], read[r])
        \/ TakeFail(TaskOf(r), by[r], at[r] = "fail")
        \/ UNCHANGED queueVars
    BY <1>3 DEF PostComplete, PostFail
  <2>2. CASE UNCHANGED queueVars
    BY <2>2 DEF queueVars
  <2> QED
    BY <1>1, <2>1, <2>2, ReportOutcome
<1>4. CASE UNCHANGED queueVars
  BY <1>4 DEF queueVars
<1> QED
  BY <1>2, <1>3, <1>4
  DEF HandleTask, Prepare, PollExit, PollCancel, TickAfterClose, EvidenceLost, Cleanup, ChildEnds

\* The thread that has a task in hand keeps it, loses a message, or hands the
\* task back.
LEMMA AttendantStep ==
  ASSUME AgentTypeOK, RunsFollowAttempts, NEW r \in Runs, HandleTask(r) \/ ChildEnds(r),
         Attends(r, TaskOf(r)), by[r] = worker[TaskOf(r)], Online(r),
         status'[TaskOf(r)] \in InFlight
  PROVE  r \in mislaid' \/ Attends(r, TaskOf(r))'
<1> USE DEF Goto, Working
<1>1. PICK t \in Tasks : t = TaskOf(r)
  BY RunParts
<1>2. \/ status[t] = "leased" /\ at[r] = "granted"
      \/ status[t] = "running" /\ at[r] \in Working
  BY <1>1 DEF Attends
<1>4. SUFFICES r \in mislaid' \/ (status'[t] = "leased" /\ at'[r] = "granted")
               \/ (status'[t] = "running" /\ at'[r] \in Working)
  BY <1>1 DEF Attends, TaskOf
<1>5. CASE PostStart(r)
  <2>1. at[r] = "granted" /\ status[t] = "leased" /\ Owns(by[r], t)
    BY <1>1, <1>2, <1>5 DEF PostStart, Owns
  <2>2. TaskMay(status[t], "running")
    BY <2>1 DEF TaskMay
  <2>3. (StartTask(t, by[r]) /\ at' = [at EXCEPT ![r] = "prepare"]) \/ Lose(r)
    BY <1>1, <1>5, <2>1, <2>2 DEF PostStart
  <2>4. StartTask(t, by[r]) => status'[t] = "running"
    BY DEF StartTask, AgentTypeOK, QueueTypeOK
  <2> QED
    BY <2>3, <2>4 DEF Lose, AgentTypeOK
<1>6. CASE PostComplete(r)
  <2>1. status[t] = "running" /\ worker[t] = by[r]
    BY <1>1, <1>2, <1>6 DEF PostComplete
  <2>2. ~TakeComplete(t, by[r], read[r])
    BY <1>1, <2>1, ReportOutcome DEF AgentTypeOK
  <2> QED
    BY <1>1, <1>6, <2>2 DEF PostComplete, Lose
<1>7. CASE PostFail(r)
  <2>1. status[t] = "running" /\ worker[t] = by[r]
    BY <1>1, <1>2, <1>7 DEF PostFail
  <2>2. ~TakeFail(t, by[r], at[r] = "fail")
    BY <1>1, <2>1, ReportOutcome
  <2> QED
    BY <1>1, <1>7, <2>2 DEF PostFail, Lose
<1>8. CASE Prepare(r) \/ PollExit(r) \/ PollCancel(r) \/ TickAfterClose(r) \/ EvidenceLost(r)
  <2>1. status[t] = "running" /\ status'[t] = status[t]
    BY <1>2, <1>8 DEF Prepare, PollExit, PollCancel, TickAfterClose, EvidenceLost, queueVars
  <2>2. at'[r] \in Working
    BY <1>8 DEF Prepare, PollExit, PollCancel, TickAfterClose, EvidenceLost, AgentTypeOK
  <2> QED
    BY <2>1, <2>2
<1>9. CASE ChildEnds(r)
  BY <1>2, <1>9 DEF ChildEnds, queueVars
<1>10. ~Cleanup(r)
  BY <1>2 DEF Cleanup
<1> QED
  BY <1>5, <1>6, <1>7, <1>8, <1>9, <1>10 DEF HandleTask

LEMMA ThreadAttended ==
  ASSUME AgentTypeOK, RunsFollowAttempts, AttendedInv, NEW r \in Runs,
         HandleTask(r) \/ ChildEnds(r)
  PROVE  AttendedInv'
<1>1. by' = by /\ agent' = agent
  BY ThreadFrame
<1>2. \A q \in Runs \ {r} : at'[q] = at[q]
  BY ThreadFrame
<1>3. mislaid \subseteq mislaid'
  BY DEF HandleTask, PostStart, Prepare, PollExit, PollCancel, TickAfterClose, EvidenceLost,
         PostComplete, PostFail, Cleanup, ChildEnds, lossVars, Lose
<1> SUFFICES ASSUME NEW w \in Workers, NEW t \in Tasks, worker'[t] = w, status'[t] \in InFlight,
                    agent'[w] \in {"up", "draining"}
             PROVE  \/ \E q \in mislaid' : by'[q] = w /\ TaskOf(q) = t
                    \/ \E q \in Runs : by'[q] = w /\ Attends(q, t)'
  BY DEF AttendedInv, MessageLost, InFlightTasks, HeldIn, TaskOf
<1>4. /\ worker'[t] = worker[t]
      /\ \/ status'[t] = status[t]
         \/ /\ TaskOf(r) = t /\ by[r] = worker[t]
            /\ status[t] = "leased" /\ status'[t] = "running"
            /\ at'[r] \in {"prepare", "fail"}
  BY ThreadKeepsFlight
<1>5. t \in InFlightTasks(w) /\ agent[w] \in {"up", "draining"}
  BY <1>1, <1>4 DEF InFlightTasks, HeldIn, InFlight
<1>6. CASE MessageLost(w, t)
  BY <1>1, <1>3, <1>6 DEF MessageLost
<1>7. ASSUME NEW q \in Runs, by[q] = w, Attends(q, t)
      PROVE  \/ \E p \in mislaid' : by'[p] = w /\ TaskOf(p) = t
             \/ \E p \in Runs : by'[p] = w /\ Attends(p, t)'
  <2>1. CASE status'[t] # status[t]
    BY <1>1, <1>4, <2>1 DEF Attends, Working, TaskOf
  <2>2. CASE status'[t] = status[t] /\ q # r
    BY <1>1, <1>2, <1>7, <2>2 DEF Attends, TaskOf
  <2>3. CASE q = r
    <3>1. TaskOf(r) = t /\ by[r] = worker[TaskOf(r)] /\ Online(r) /\ Attends(r, TaskOf(r))
      BY <1>4, <1>5, <1>7, <2>3 DEF Attends, Online
    <3>2. r \in mislaid' \/ Attends(r, TaskOf(r))'
      BY <3>1, AttendantStep
    <3> QED
      BY <1>1, <1>7, <2>3, <3>1, <3>2 DEF Attends, TaskOf
  <2> QED
    BY <2>1, <2>2, <2>3
<1> QED
  BY <1>5, <1>6, <1>7 DEF AttendedInv

\* A quiet step grants no task and moves none in flight.
LEMMA QuietKeepsFlight ==
  ASSUME AgentTypeOK, QuietStep, NEW t \in Tasks, status'[t] \in InFlight
  PROVE  status'[t] = status[t] /\ worker'[t] = worker[t]
<1> USE DEF AgentTypeOK, QueueTypeOK, InFlight, WriteTasks
<1>1. CASE \E j \in Jobs : ClientStep(j)
  BY <1>1 DEF ClientStep, Submit, CancelTasks, MarkJob, CloseJob, CreateJobWithTasks,
              CancelJobTasks, SetJobStatus, taskVars, queueVars
<1>2. CASE ReapLeases
  <2>1. /\ status' = [u \in Tasks |-> IF u \in ExpiredTasks THEN LostOutcome(u) ELSE status[u]]
        /\ \A u \in Tasks \ ExpiredTasks : worker'[u] = worker[u]
    BY <1>2 DEF ReapLeases, ReapExpiredLeases, ResolveLost
  <2>2. LostOutcome(t) \notin InFlight
    BY LostOutcomeType
  <2> QED
    BY <2>1, <2>2
<1>3. CASE \E u \in Tasks : TimePasses(u)
  BY <1>3 DEF TimePasses, LeaseLapse
<1>4. CASE \E v \in Workers : \/ Launch(v) \/ Stop(v) \/ CloseHttp(v)
                              \/ SendHeartbeat(v) \/ HeartbeatAnswered(v)
  BY <1>4 DEF Launch, Stop, CloseHttp, SendHeartbeat, HeartbeatAnswered, RegisterWorker,
              HeartbeatWorker, taskVars, queueVars
<1>5. CASE UNCHANGED clusterVars
  BY <1>5 DEF clusterVars, queueVars
<1> QED
  BY <1>1, <1>2, <1>3, <1>4, <1>5 DEF QuietStep

LEMMA AttendedStep ==
  ASSUME AgentTypeOK, TableInv, RunsFollowAttempts, AttendedInv, [AgentNext]_clusterVars
  PROVE  AttendedInv'
<1> DEFINE Looked(w, t) == \/ \E q \in mislaid' : by'[q] = w /\ TaskOf(q) = t
                           \/ \E q \in Runs : by'[q] = w /\ Attends(q, t)'
<1>0. SUFFICES ASSUME NEW w \in Workers, NEW t \in Tasks, worker'[t] = w, status'[t] \in InFlight,
                      agent'[w] \in {"up", "draining"}, ~AttendedInv'
               PROVE  Looked(w, t)
  BY DEF AttendedInv, MessageLost, InFlightTasks, HeldIn, TaskOf
<1>1. CASE \E r \in Runs : HandleTask(r) \/ ChildEnds(r)
  BY <1>0, <1>1, ThreadAttended
<1>2. ASSUME NEW v \in Workers, AgentLease(v) PROVE Looked(w, t)
  <2>1. PICK u \in Tasks, r \in Runs :
          /\ TaskOf(r) = u
          /\ at[r] = "none" /\ by[r] = NoWorker
          /\ LeaseTask(v, u)
          /\ by' = [by EXCEPT ![r] = v]
          /\ \/ at' = [at EXCEPT ![r] = "granted"] /\ mislaid' = mislaid
             \/ at' = [at EXCEPT ![r] = "done"] /\ mislaid' = mislaid \cup {r}
          /\ agent' = agent
    BY <1>2, LeaseSteps
  <2>2. /\ status' = [status EXCEPT ![u] = "leased"] /\ worker' = [worker EXCEPT ![u] = v]
    BY <2>1 DEF LeaseTask, WriteTasks
  <2>3. CASE t = u
    <3>1. status'[t] = "leased" /\ v = w /\ by'[r] = w
      BY <1>0, <2>1, <2>2, <2>3 DEF AgentTypeOK, QueueTypeOK
    <3> QED
      BY <2>1, <2>3, <3>1 DEF Attends, TaskOf, AgentTypeOK
  <2>4. CASE t # u
    <3>1. status'[t] = status[t] /\ worker'[t] = worker[t]
      BY <2>2, <2>4
    <3>2. t \in InFlightTasks(w) /\ agent[w] \in {"up", "draining"}
      BY <1>0, <2>1, <3>1 DEF InFlightTasks, HeldIn
    <3>3. mislaid \subseteq mislaid' /\ mislaid \subseteq Runs
      BY <2>1 DEF AgentTypeOK
    <3>4. \A q \in Runs : by[q] = w => by'[q] = w /\ at'[q] = at[q]
      BY <2>1 DEF AgentTypeOK
    <3>5. CASE MessageLost(w, t)
      BY <3>3, <3>4, <3>5 DEF MessageLost
    <3>6. ASSUME NEW q \in Runs, by[q] = w, Attends(q, t) PROVE Looked(w, t)
      BY <3>1, <3>4, <3>6 DEF Attends, TaskOf
    <3> QED
      BY <3>2, <3>5, <3>6 DEF AttendedInv
  <2> QED
    BY <2>3, <2>4
<1>3. ASSUME NEW v \in Workers, Kill(v) PROVE Looked(w, t)
  <2>1. /\ agent' = [agent EXCEPT ![v] = "dead"]
        /\ at' = [q \in Runs |-> IF q \in Active(v) THEN "done" ELSE at[q]]
        /\ by' = by /\ status' = status /\ worker' = worker /\ mislaid' = mislaid
    BY <1>3 DEF Kill, queueVars, lossVars
  <2>2. v # w /\ agent[w] \in {"up", "draining"} /\ t \in InFlightTasks(w)
    BY <1>0, <2>1 DEF AgentTypeOK, InFlightTasks, HeldIn
  <2>3. \A q \in Runs : by[q] = w => at'[q] = at[q]
    BY <2>1, <2>2 DEF Active
  <2>4. CASE MessageLost(w, t)
    BY <2>1, <2>4 DEF MessageLost
  <2>5. ASSUME NEW q \in Runs, by[q] = w, Attends(q, t) PROVE Looked(w, t)
    BY <2>1, <2>3, <2>5 DEF Attends, TaskOf
  <2> QED
    BY <2>2, <2>4, <2>5 DEF AttendedInv
<1>4. CASE QuietStep
  <2>1. status'[t] = status[t] /\ worker'[t] = worker[t]
    BY <1>0, <1>4, QuietKeepsFlight
  <2>2. UNCHANGED <<at, by, mislaid>>
    BY <1>4, QuietFrame DEF threadVars
  <2>3. t \in InFlightTasks(w)
    BY <1>0, <2>1 DEF InFlightTasks, HeldIn
  <2>4. ~Launch(w)
    BY <2>3 DEF Launch, RegisterWorker, InFlightTasks, HeldIn, TableInv, InFlightIsRecoverable
  <2>5. agent[w] \in {"up", "draining"}
    BY <1>0, <1>4, <2>4, QuietAgents
  <2>6. CASE MessageLost(w, t)
    BY <2>2, <2>6 DEF MessageLost
  <2>7. ASSUME NEW q \in Runs, by[q] = w, Attends(q, t) PROVE Looked(w, t)
    BY <2>1, <2>2, <2>7 DEF Attends, TaskOf
  <2> QED
    BY <2>3, <2>5, <2>6, <2>7 DEF AttendedInv
<1> QED
  BY <1>1, <1>2, <1>3, <1>4, AgentCases

-----------------------------------------------------------------------------
(* Threads and slots                                                       *)

ThreadsWithinSlots == \A w \in Workers : Cardinality(Active(w)) =< Slots[w]

LEMMA ActiveFinite ==
  \A w : IsFiniteSet(Active(w)) /\ Cardinality(Active(w)) \in Nat
<1> SUFFICES ASSUME NEW w PROVE IsFiniteSet(Active(w)) /\ Cardinality(Active(w)) \in Nat
  OBVIOUS
<1>1. Active(w) \subseteq Runs
  BY DEF Active
<1> QED
  BY <1>1, RunsFinite, FS_Subset, FS_CardinalityType

\* Fewer threads stay within the slots.
LEMMA ThreadsShrink ==
  ASSUME ThreadsWithinSlots, \A w \in Workers : Active(w)' \subseteq Active(w)
  PROVE  ThreadsWithinSlots'
<1> SUFFICES ASSUME NEW w \in Workers PROVE Cardinality(Active(w)') =< Slots[w]
  BY DEF ThreadsWithinSlots
<1>1. IsFiniteSet(Active(w)) /\ Cardinality(Active(w)) \in Nat
  BY ActiveFinite
<1>2. /\ Cardinality(Active(w)') =< Cardinality(Active(w))
      /\ IsFiniteSet(Active(w)')
  BY <1>1, FS_Subset
<1>3. Cardinality(Active(w)') \in Nat
  BY <1>2, FS_CardinalityType
<1>4. Cardinality(Active(w)) =< Slots[w] /\ Slots[w] \in Nat
  BY DEF ThreadsWithinSlots
<1> QED
  BY <1>1, <1>2, <1>3, <1>4

LEMMA ThreadsStep ==
  ASSUME AgentTypeOK, TableInv, RunsFollowAttempts, ThreadsWithinSlots, [AgentNext]_clusterVars
  PROVE  ThreadsWithinSlots'
<1>1. ASSUME NEW r \in Runs, HandleTask(r) \/ ChildEnds(r) PROVE ThreadsWithinSlots'
  <2>1. by' = by /\ \A q \in Runs \ {r} : at'[q] = at[q]
    BY <1>1, ThreadFrame
  <2>2. at[r] \in {"none", "done"} => at'[r] = at[r]
    BY <1>1, ThreadMoves DEF RunMoves
  <2>3. \A w \in Workers : Active(w)' \subseteq Active(w)
    BY <2>1, <2>2 DEF Active
  <2> QED
    BY <2>3, ThreadsShrink
<1>2. ASSUME NEW v \in Workers, AgentLease(v) PROVE ThreadsWithinSlots'
  <2>1. PICK r \in Runs :
          /\ at[r] = "none" /\ HasIdleSlot(v)
          /\ by' = [by EXCEPT ![r] = v]
          /\ at' = [at EXCEPT ![r] = "granted"] \/ at' = [at EXCEPT ![r] = "done"]
    BY <1>2, LeaseSteps
  <2>2. \A w \in Workers \ {v} : Active(w)' = Active(w)
    BY <2>1 DEF Active, AgentTypeOK
  <2>3. Active(v)' \subseteq Active(v) \cup {r} /\ r \notin Active(v)
    BY <2>1 DEF Active, AgentTypeOK
  <2>4. /\ IsFiniteSet(Active(v)) /\ Cardinality(Active(v)) \in Nat
    BY ActiveFinite
  <2>5. /\ IsFiniteSet(Active(v) \cup {r})
        /\ Cardinality(Active(v) \cup {r}) = Cardinality(Active(v)) + 1
    BY <2>3, <2>4, FS_AddElement
  <2>6. IsFiniteSet(Active(v)') /\ Cardinality(Active(v)') =< Cardinality(Active(v)) + 1
    BY <2>3, <2>5, FS_Subset
  <2>7. Cardinality(Active(v)') \in Nat
    BY <2>6, FS_CardinalityType
  <2>8. Cardinality(Active(v)') =< Slots[v]
    <3>1. Cardinality(Active(v)) < Slots[v] /\ Slots[v] \in Nat
      BY <2>1 DEF HasIdleSlot
    <3> QED
      BY <2>4, <2>6, <2>7, <3>1
  <2> QED
    BY <2>2, <2>8 DEF ThreadsWithinSlots
<1>3. ASSUME NEW v \in Workers, Kill(v) PROVE ThreadsWithinSlots'
  <2>1. \A w \in Workers : Active(w)' \subseteq Active(w)
    BY <1>3 DEF Kill, Active
  <2> QED
    BY <2>1, ThreadsShrink
<1>4. CASE QuietStep
  <2>1. \A w \in Workers : Active(w)' \subseteq Active(w)
    BY <1>4, QuietFrame DEF threadVars, Active
  <2> QED
    BY <2>1, ThreadsShrink
<1> QED
  BY <1>1, <1>2, <1>3, <1>4, AgentCases

-----------------------------------------------------------------------------
(* Signals                                                                 *)

SignalsAreMeant ==
  \A w \in Workers : \A t \in reply[w] \cup cancelRequested[w] : Cancelled(JobOf[t])

\* A job whose cancellation was asked for is never anything else again: it is
\* closed as cancelled, and no step of the agents fails or reopens it.
LEMMA CancelledStays ==
  ASSUME AgentTypeOK, RunsFollowAttempts, [AgentNext]_clusterVars, NEW j \in Jobs, Cancelled(j)
  PROVE  Cancelled(j)'
<1> USE DEF Cancelled, AgentTypeOK, QueueTypeOK, jobVars, queueVars
<1>1. CASE \E r \in Runs : HandleTask(r) \/ ChildEnds(r)
  BY <1>1, ThreadFrame
<1>2. CASE \E w \in Workers : AgentLease(w) \/ Kill(w)
  <2>1. ASSUME NEW w \in Workers, AgentLease(w) PROVE Cancelled(j)'
    <3>1. PICK t \in Tasks : LeaseTask(w, t)
      BY <2>1 DEF AgentLease
    <3>2. jobStatus' = [jobStatus EXCEPT ![JobOf[t]] = IF @ = "queued" THEN "running" ELSE @]
      BY <3>1 DEF LeaseTask, MaybeJobRunning
    <3> QED
      BY <3>2
  <2>2. ASSUME NEW w \in Workers, Kill(w) PROVE Cancelled(j)'
    BY <2>2 DEF Kill
  <2> QED
    BY <1>2, <2>1, <2>2
<1>3. ASSUME NEW i \in Jobs, ClientStep(i) PROVE Cancelled(j)'
  <2>1. CASE Submit(i)
    BY <2>1 DEF Submit, CreateJobWithTasks, JobExists
  <2>2. CASE CancelTasks(i)
    BY <2>2 DEF CancelTasks, CancelJobTasks
  <2>3. CASE MarkJob(i)
    BY <2>3 DEF MarkJob, SetJobStatus, JobMay
  <2>4. CASE CloseJob(i)
    BY <2>4 DEF CloseJob, SetJobStatus, JobMay
  <2> QED
    BY <1>3, <2>1, <2>2, <2>3, <2>4 DEF ClientStep
<1>4. CASE ReapLeases \/ \E t \in Tasks : TimePasses(t)
  BY <1>4 DEF ReapLeases, TimePasses, ReapExpiredLeases, ResolveLost, LeaseLapse
<1>5. CASE \E v \in Workers : \/ Launch(v) \/ Stop(v) \/ CloseHttp(v)
                              \/ SendHeartbeat(v) \/ HeartbeatAnswered(v)
  BY <1>5 DEF Launch, Stop, CloseHttp, SendHeartbeat, HeartbeatAnswered, RegisterWorker,
              HeartbeatWorker
<1>6. CASE UNCHANGED clusterVars
  BY <1>6 DEF clusterVars
<1> QED
  BY <1>1, <1>2, <1>3, <1>4, <1>5, <1>6, AgentCases DEF QuietStep

LEMMA SignalsStep ==
  ASSUME AgentTypeOK, RunsFollowAttempts, SignalsAreMeant, [AgentNext]_clusterVars
  PROVE  SignalsAreMeant'
<1> DEFINE Listed(w) == reply[w] \cup cancelRequested[w]
<1> SUFFICES ASSUME NEW w \in Workers, NEW t \in Listed(w)' PROVE Cancelled(JobOf[t])'
  BY DEF SignalsAreMeant
<1>1. t \in Listed(w) => t \in Tasks /\ JobOf[t] \in Jobs
  BY DEF AgentTypeOK
<1>2. CASE t \in Listed(w)
  BY <1>1, <1>2, CancelledStays DEF SignalsAreMeant
<1>3. CASE t \notin Listed(w)
  <2> USE DEF AgentTypeOK
  <2>1. ASSUME NEW r \in Runs, HandleTask(r) \/ ChildEnds(r) PROVE t \in Listed(w)
    <3>1. CASE Cleanup(r)
      BY <3>1 DEF Cleanup
    <3>2. CASE ~Cleanup(r)
      BY <2>1, <3>2 DEF HandleTask, PostStart, Prepare, PollExit, PollCancel, TickAfterClose,
           EvidenceLost, PostComplete, PostFail, ChildEnds, signalVars
    <3> QED
      BY <3>1, <3>2
  <2>2. ASSUME NEW v \in Workers, AgentLease(v) \/ Kill(v) PROVE t \in Listed(w)
    BY <2>2 DEF AgentLease, Kill, signalVars
  <2>3. ASSUME NEW v \in Workers, SendHeartbeat(v) PROVE t \in Listed(w) \/ Cancelled(JobOf[t])'
    <3>1. /\ reply' = reply \/ reply' = [reply EXCEPT ![v] = CancelIds(v)]
          /\ cancelRequested' = cancelRequested /\ jobStatus' = jobStatus
      BY <2>3 DEF SendHeartbeat, HeartbeatWorker, jobVars
    <3> QED
      BY <3>1 DEF CancelIds, Cancelled
  <2>4. ASSUME NEW v \in Workers, HeartbeatAnswered(v) PROVE t \in Listed(w)
    BY <2>4 DEF HeartbeatAnswered
  <2>5. ASSUME NEW v \in Workers, Launch(v) \/ Stop(v) \/ CloseHttp(v) PROVE t \in Listed(w)
    BY <2>5 DEF Launch, Stop, CloseHttp, signalVars
  <2>6. CASE \E j \in Jobs : ClientStep(j)
    BY <1>3, <2>6 DEF ClientStep, Submit, CancelTasks, MarkJob, CloseJob, agentVars, signalVars
  <2>7. CASE ReapLeases \/ (\E u \in Tasks : TimePasses(u)) \/ UNCHANGED clusterVars
    BY <1>3, <2>7 DEF ReapLeases, TimePasses, agentVars, signalVars, clusterVars
  <2> QED
    BY <1>3, <2>1, <2>2, <2>3, <2>4, <2>5, <2>6, <2>7, AgentCases DEF QuietStep
<1> QED
  BY <1>2, <1>3

-----------------------------------------------------------------------------
(* Theorems                                                                *)

AgentInv ==
  /\ AgentTypeOK
  /\ TableInv
  /\ RunsFollowAttempts
  /\ SuccessIsTraced
  /\ AttendedInv
  /\ ThreadsWithinSlots
  /\ SignalsAreMeant

LEMMA AgentInitInv == AgentInit => AgentInv
<1> SUFFICES ASSUME AgentInit PROVE AgentInv
  OBVIOUS
<1> USE DEF AgentInit
<1>1. TableInv
  BY TableInit
<1>2. AgentTypeOK
  BY <1>1 DEF AgentTypeOK, TableInv, ThreadPC, AgentStates
<1>3. RunsFollowAttempts
  BY DEF RunsFollowAttempts
<1>4. SuccessIsTraced
  BY DEF SuccessIsTraced, QueueInit
<1>5. AttendedInv
  BY DEF AttendedInv, InFlightTasks, HeldIn, InFlight, QueueInit
<1>6. ThreadsWithinSlots
  <2>1. \A w \in Workers : Active(w) = {}
    BY DEF Active
  <2>2. Cardinality({}) = 0
    BY FS_EmptySet
  <2>3. \A w \in Workers : Cardinality(Active(w)) = 0
    BY <2>1, <2>2, Zenon
  <2>4. \A w \in Workers : Slots[w] \in Nat
    OBVIOUS
  <2> QED
    BY <2>3, <2>4 DEF ThreadsWithinSlots
<1>7. SignalsAreMeant
  BY DEF SignalsAreMeant
<1> QED
  BY <1>1, <1>2, <1>3, <1>4, <1>5, <1>6, <1>7 DEF AgentInv

LEMMA AgentInvStep == AgentInv /\ [AgentNext]_clusterVars => AgentInv'
<1> SUFFICES ASSUME AgentInv, [AgentNext]_clusterVars PROVE AgentInv'
  OBVIOUS
<1>1. TableInv'
  BY AgentMovesQueue, TableStep DEF AgentInv
<1> QED
  BY <1>1, AgentTypeStep, RunsFollowStep, TracedStep, AttendedStep, ThreadsStep, SignalsStep
  DEF AgentInv

\* Agents, threads, children, files and tables agree with each other whatever
\* messages are lost and whichever agents end (agent.py, executor.py, db.py).
THEOREM AgentInvariant == AgentSpec => []AgentInv
BY AgentInitInv, AgentInvStep, PTL DEF AgentSpec

\* The variables of the agents and of the requests under way keep to their
\* domains, whatever is lost and whichever agents end.
THEOREM AgentTypeCorrect == AgentSpec => []AgentTypeOK
BY AgentInvariant, PTL DEF AgentInv

\* The agents only ever move the tables by the methods of the database, so all
\* that is proved of TaskQueue is true of the cluster they make.
THEOREM AgentsImplementQueue == AgentSpec => QueueSpec
<1>1. AgentInit => QueueInit
  BY DEF AgentInit
<1>2. AgentInv /\ [AgentNext]_clusterVars => [QueueNext]_queueVars
  BY AgentMovesQueue DEF AgentInv
<1> QED
  BY <1>1, <1>2, AgentInvariant, PTL DEF AgentSpec, QueueSpec

\* A recorded success was produced by a run of that task that ended well.
THEOREM RecordedSuccessWasProduced == AgentSpec => []SuccessWasProduced
<1>1. AgentInv => SuccessWasProduced
  BY DEF AgentInv, SuccessIsTraced, Produced, SuccessWasProduced
<1> QED
  BY <1>1, AgentInvariant, PTL

\* A task leased to a serving agent has a thread there that is not done with
\* it, unless a message about one of its runs was lost.
THEOREM HeldTasksAreAttended == AgentSpec => []HeldTaskIsAttended
<1>1. AgentInv => HeldTaskIsAttended
  BY DEF AgentInv, AttendedInv, Attends, Working, HeldTaskIsAttended, Active
<1> QED
  BY <1>1, AgentInvariant, PTL

\* A serving agent never has more children running than slots.
THEOREM ChildrenStayWithinSlots == AgentSpec => []ChildrenWithinSlots
<1>1. AgentInv => ChildrenWithinSlots
  <2> SUFFICES ASSUME AgentInv, NEW w \in Workers, agent[w] \in {"up", "draining"}
               PROVE  Cardinality({r \in Runs : by[r] = w /\ child[r] = "running"}) =< Slots[w]
    BY DEF ChildrenWithinSlots
  <2>1. {r \in Runs : by[r] = w /\ child[r] = "running"} \subseteq Active(w)
    BY DEF AgentInv, RunsFollowAttempts, Online, Active
  <2>2. IsFiniteSet(Active(w)) /\ Cardinality(Active(w)) \in Nat
    BY ActiveFinite
  <2>3. PICK S : S = {r \in Runs : by[r] = w /\ child[r] = "running"}
    OBVIOUS
  <2>4. IsFiniteSet(S) /\ Cardinality(S) =< Cardinality(Active(w))
    BY <2>1, <2>2, <2>3, FS_Subset
  <2>5. Cardinality(S) \in Nat
    BY <2>4, FS_CardinalityType
  <2>6. Cardinality(Active(w)) =< Slots[w] /\ Slots[w] \in Nat
    BY DEF AgentInv, ThreadsWithinSlots
  <2> QED
    BY <2>2, <2>3, <2>4, <2>5, <2>6
<1> QED
  BY <1>1, AgentInvariant, PTL

\* A cancel signal stops no run of a job that nobody asked to cancel, however
\* late it arrives and whichever attempt it was sent for.
THEOREM CancelsAreMeant == AgentSpec => OnlyMeantCancels
<1>1. AgentInv /\ [AgentNext]_clusterVars =>
        [\A r \in Runs : (at[r] = "running" /\ at'[r] = "failForGood")
                            => Cancelled(JobOf[TaskOf(r)])]_clusterVars
  <2> SUFFICES ASSUME AgentInv, [AgentNext]_clusterVars,
                      NEW r \in Runs, at[r] = "running", at'[r] = "failForGood"
               PROVE  Cancelled(JobOf[TaskOf(r)])
    OBVIOUS
  <2> USE DEF AgentInv
  <2>1. ASSUME NEW q \in Runs, HandleTask(q) \/ ChildEnds(q) PROVE Cancelled(JobOf[TaskOf(r)])
    <3>1. q = r
      BY <2>1, ThreadFrame
    <3>2. at \in [Runs -> ThreadPC]
      BY DEF AgentTypeOK
    <3>3. PollCancel(r)
      BY <2>1, <3>1, <3>2 DEF HandleTask, PostStart, Prepare, PollExit, TickAfterClose,
           EvidenceLost, PostComplete, PostFail, Cleanup, ChildEnds, Goto
    <3> QED
      BY <3>3 DEF PollCancel, RunsFollowAttempts, SignalsAreMeant
  <2>2. ~\E w \in Workers : AgentLease(w) \/ Kill(w)
    <3>1. ASSUME NEW w \in Workers, AgentLease(w) PROVE FALSE
      <4>1. PICK q \in Runs : /\ at[q] = "none"
                              /\ \/ at' = [at EXCEPT ![q] = "granted"]
                                 \/ at' = [at EXCEPT ![q] = "done"]
        BY <3>1, LeaseSteps
      <4> QED
        BY <4>1 DEF AgentTypeOK
    <3>2. ASSUME NEW w \in Workers, Kill(w) PROVE FALSE
      BY <3>2 DEF Kill
    <3> QED
      BY <3>1, <3>2
  <2>3. ~QuietStep
    BY QuietFrame DEF threadVars
  <2> QED
    BY <2>1, <2>2, <2>3, AgentCases
<1> QED
  BY <1>1, AgentInvariant, PTL DEF AgentSpec, OnlyMeantCancels

=============================================================================
