---------------------------- MODULE WorkerAgent ----------------------------
(***************************************************************************)
(* The worker process (worker/agent.py and worker/executor.py) over the    *)
(* database of TaskQueue.  An agent has a heartbeat thread, a lease loop   *)
(* and a thread per task it was leased; a task thread runs the task in a   *)
(* child process that leaves a result.json in the work directory of the    *)
(* TASK, where a later attempt on that machine finds it again.             *)
(*                                                                         *)
(* A run is a pair <<task, attempt>>: the server grants each attempt once, *)
(* so at most one thread is started for a run.  A request, or the response *)
(* to it, may be lost.  A request is served in one step, except for the    *)
(* finalization that follows a report and the second call of cancel; how   *)
(* handlers interleave between their calls is the subject of ClusterServer.*)
(***************************************************************************)
EXTENDS TaskQueue

CONSTANTS
  Dir,           \* the state_dir of an agent; a restarted agent keeps it
  KeepWorkspace, \* tasks with outputs.keep_task_workspace
  Evidence,      \* tasks whose workspace upload is required
  MaxLosses,     \* bound on lost requests and responses
  MaxEnded       \* bound on agents that are stopped or killed

Runs == UNION {{t} \X (1..MaxAttempts[JobOf[t]]) : t \in Tasks}
Dirs == {Dir[w] : w \in Workers}

ASSUME AgentAssumption ==
  /\ KeepWorkspace \cup Evidence \subseteq Tasks
  /\ MaxLosses \in Nat
  /\ MaxEnded \in Nat

VARIABLES
  result,       \* the run whose result is in tasks.result_json, 0 if none
  toMark,       \* a cancel request between its two calls: the status to set
  agent,        \* the process that registered as w
  at,           \* where the task thread of a run is
  by,           \* the agent the thread of a run belongs to
  child,        \* the child process of a run and how it ended
  onDisk,       \* the run whose success is in the result.json of a task, or 0
  read,         \* the run whose result.json a thread read, 0 if none
  reply,        \* cancel_task_ids of a heartbeat response under way
  cancelRequested,  \* _cancel_requested
  mislaid,      \* runs of which a request or response was lost
  losses

serverVars == <<result, toMark>>
threadVars == <<at, by, child, onDisk, read>>
signalVars == <<reply, cancelRequested>>
lossVars   == <<mislaid, losses>>
agentVars  == <<agent, threadVars, signalVars, lossVars>>
clusterVars == <<queueVars, serverVars, agentVars>>

-----------------------------------------------------------------------------
(* The server                                                              *)

Submit(j) == CreateJobWithTasks(j) /\ UNCHANGED <<serverVars, agentVars>>

\* cancel_job: the tasks first, then the job.
CancelTasks(j) ==
  /\ JobExists(j)
  /\ jobStatus[j] \notin JobTerminal
  /\ toMark[j] = "none"
  /\ CancelJobTasks(j)
  /\ toMark' = [toMark EXCEPT ![j] = IF RunningTasks(j) = {} THEN "cancelled" ELSE "cancelling"]
  /\ UNCHANGED <<result, agentVars>>

MarkJob(j) ==
  /\ toMark[j] # "none"
  /\ \/ SetJobStatus(j, toMark[j])
     \/ ~JobMay(jobStatus[j], toMark[j]) /\ UNCHANGED queueVars
  /\ toMark' = [toMark EXCEPT ![j] = "none"]
  /\ UNCHANGED <<result, agentVars>>

\* _finalize_job, as one step.
CloseJob(j) ==
  LET won == \E t \in TasksOf(j) : status[t] = "succeeded"
  IN  /\ JobExists(j)
      /\ \A t \in TasksOf(j) : status[t] \in TaskTerminal
      /\ SetJobStatus(j, IF jobStatus[j] = "cancelling" THEN "cancelled"
                         ELSE IF won THEN "succeeded" ELSE "failed")
      /\ UNCHANGED <<serverVars, agentVars>>

\* _reaper_loop takes tasks whose lease has run out.  Marking a worker dead
\* takes its tasks in the same way and is left to ClusterServer.
ReapLeases ==
  /\ ExpiredTasks # {}
  /\ ReapExpiredLeases
  /\ UNCHANGED <<serverVars, agentVars>>

\* Time passes: a lease nobody renewed runs out.
TimePasses(t) == LeaseLapse(t) /\ UNCHANGED <<serverVars, agentVars>>

\* The complete and fail handlers: the task must be the worker's, and the
\* report of a task of a cancelled job cancels it.  A report of a task that is
\* not the worker's or has settled is refused; the agent never looks at the
\* response of either.
Cancels(t) == Cancelled(JobOf[t])

Refused(t, w, outcome) ==
  /\ ~(Owns(w, t) /\ TaskMay(status[t], IF Cancels(t) THEN "cancelled" ELSE outcome))
  /\ UNCHANGED <<queueVars, result>>

TakeComplete(t, w, n) ==
  /\ \/ Cancels(t) /\ CancelRunningTask(t, w) /\ UNCHANGED result
     \/ ~Cancels(t) /\ CompleteTask(t, w) /\ result' = [result EXCEPT ![t] = n]
     \/ Refused(t, w, "succeeded")
  /\ UNCHANGED toMark

TakeFail(t, w, retriable) ==
  /\ \/ Cancels(t) /\ CancelRunningTask(t, w)
     \/ ~Cancels(t) /\ FailTask(t, w, retriable)
     \/ Refused(t, w, "failed")
  /\ UNCHANGED serverVars

-----------------------------------------------------------------------------
(* Threads                                                                 *)

AgentStates == {"off", "up", "draining", "closed", "dead"}

ThreadPC == {"none", "granted", "prepare", "running", "complete", "fail", "failForGood",
             "cleanup", "done"}

TaskOf(r) == r[1]

\* The threads _active counts: from _inc_active to _dec_active.
Active(w) == {r \in Runs : by[r] = w /\ at[r] \notin {"none", "done"}}

Goto(r, pc) == at' = [at EXCEPT ![r] = pc]

\* Requests arrive and are answered until _http is closed.
Online(r) == agent[by[r]] \in {"up", "draining"}

\* One request or response of the run is lost.
Lose(r) ==
  /\ losses < MaxLosses
  /\ losses' = losses + 1
  /\ mislaid' = mislaid \cup {r}

-----------------------------------------------------------------------------
(* The process                                                             *)

\* register: a fresh worker id, in a state_dir no other live agent uses.
Launch(w) ==
  /\ agent[w] = "off"
  /\ ~\E v \in Workers : Dir[v] = Dir[w] /\ agent[v] \in {"up", "draining", "closed"}
  /\ RegisterWorker(w)
  /\ agent' = [agent EXCEPT ![w] = "up"]
  /\ UNCHANGED <<serverVars, threadVars, signalVars, lossVars>>

\* The agent may be stopped or killed, within the bound.
MayEnd(w) ==
  \/ agent[w] \in {"draining", "closed"}
  \/ agent[w] = "up" /\ Cardinality({v \in Workers : agent[v] \notin {"off", "up"}}) < MaxEnded

\* The loops end; serve then waits for the task threads.
Stop(w) ==
  /\ agent[w] = "up"
  /\ MayEnd(w)
  /\ agent' = [agent EXCEPT ![w] = "draining"]
  /\ UNCHANGED <<queueVars, serverVars, threadVars, signalVars, lossVars>>

\* Every thread was joined or given 30 s; _http.close().
CloseHttp(w) ==
  /\ agent[w] = "draining"
  /\ agent' = [agent EXCEPT ![w] = "closed"]
  /\ UNCHANGED <<queueVars, serverVars, threadVars, signalVars, lossVars>>

\* The process is killed.  Its children are not: they may still write.
Kill(w) ==
  /\ MayEnd(w)
  /\ agent' = [agent EXCEPT ![w] = "dead"]
  /\ at' = [r \in Runs |-> IF r \in Active(w) THEN "done" ELSE at[r]]
  /\ reply' = [reply EXCEPT ![w] = {}]
  /\ cancelRequested' = [cancelRequested EXCEPT ![w] = {}]
  /\ UNCHANGED <<queueVars, serverVars, by, child, onDisk, read, lossVars>>

-----------------------------------------------------------------------------
(* _heartbeat_loop                                                         *)

\* A fault to detect: every task of the worker is listed.
CancelIds_All(w) == InFlightTasks(w)

\* The ids the heartbeat handler answers with.
CancelIds(w) == {t \in InFlightTasks(w) : Cancelled(JobOf[t])}

SendHeartbeat(w) ==
  /\ agent[w] = "up"
  /\ reply[w] = {}
  /\ HeartbeatWorker(w)
  /\ \/ reply' = [reply EXCEPT ![w] = CancelIds(w)] /\ UNCHANGED lossVars
     \/ losses < MaxLosses /\ losses' = losses + 1 /\ UNCHANGED <<reply, mislaid>>
  /\ UNCHANGED <<serverVars, agent, threadVars, cancelRequested>>

\* A fault to detect: the ids of a response are logged and not kept.
HeartbeatAnswered_Ignored(w) ==
  /\ agent[w] \in {"up", "draining"}
  /\ reply[w] # {}
  /\ reply' = [reply EXCEPT ![w] = {}]
  /\ UNCHANGED <<queueVars, serverVars, agent, threadVars, cancelRequested, lossVars>>

\* The response arrives, perhaps long after the task it lists has ended.
HeartbeatAnswered(w) ==
  /\ agent[w] \in {"up", "draining"}
  /\ reply[w] # {}
  /\ cancelRequested' = [cancelRequested EXCEPT ![w] = @ \cup reply[w]]
  /\ reply' = [reply EXCEPT ![w] = {}]
  /\ UNCHANGED <<queueVars, serverVars, agent, threadVars, lossVars>>

-----------------------------------------------------------------------------
(* _lease_loop                                                             *)

\* A fault to detect: the agent trusts the server to count its slots.
HasIdleSlot_TrustServer(w) == TRUE

HasIdleSlot(w) == Cardinality(Active(w)) < Slots[w]

\* _lease and the start of _handle_task; a lost response is taken for "no task".
AgentLease(w) ==
  /\ agent[w] = "up"
  /\ HasIdleSlot(w)
  /\ \E t \in Tasks :
       LET r == <<t, attempt[t] + 1>>
       IN  /\ LeaseTask(w, t)
           /\ by' = [by EXCEPT ![r] = w]
           /\ \/ Goto(r, "granted") /\ UNCHANGED lossVars
              \/ Goto(r, "done") /\ Lose(r)
  /\ UNCHANGED <<serverVars, agent, child, onDisk, read, signalVars>>

-----------------------------------------------------------------------------
(* _handle_task                                                            *)

\* POST start.  The server answers 200, or 409 and the run is abandoned; an
\* exception, whether or not the request got through, is reported as a failure.
PostStart(r) ==
  LET t == TaskOf(r)
      w == by[r]
      accepted == Owns(w, t) /\ TaskMay(status[t], "running")
  IN  /\ at[r] = "granted"
      /\ \/ Online(r) /\ StartTask(t, w) /\ Goto(r, "prepare") /\ UNCHANGED lossVars
         \/ Online(r) /\ StartTask(t, w) /\ Goto(r, "fail") /\ Lose(r)
         \/ Online(r) /\ ~accepted /\ UNCHANGED queueVars /\ Goto(r, "cleanup") /\ UNCHANGED lossVars
         \/ Online(r) /\ UNCHANGED queueVars /\ Goto(r, "fail") /\ Lose(r)
         \/ ~Online(r) /\ UNCHANGED queueVars /\ Goto(r, "cleanup") /\ UNCHANGED lossVars
      /\ UNCHANGED <<serverVars, agent, by, child, onDisk, read, signalVars>>

\* build_runner_spec, and the start of the child in execute_task.  An input
\* that can never be materialized fails for good, any other exception (a
\* download that fails, a directory removed meanwhile) may be retried.
Prepare(r) ==
  /\ at[r] = "prepare"
  /\ \/ Goto(r, "running") /\ child' = [child EXCEPT ![r] = "running"]
     \/ Goto(r, "failForGood") /\ UNCHANGED child
     \/ Goto(r, "fail") /\ UNCHANGED child
  /\ UNCHANGED <<queueVars, serverVars, agent, by, onDisk, read, signalVars, lossVars>>

\* The runner writes a result and exits, or ends without one; a result cut
\* short is not readable.
ChildEnds(r) ==
  LET d == Dir[by[r]]
      t == TaskOf(r)
  IN  /\ child[r] = "running"
      /\ \/ /\ child' = [child EXCEPT ![r] = "succeeded"]
            /\ onDisk' = [onDisk EXCEPT ![d][t] = r[2]]
         \/ /\ child' = [child EXCEPT ![r] = "failed"]
            /\ \E left \in {onDisk[d][t], 0} : onDisk' = [onDisk EXCEPT ![d][t] = left]
      /\ UNCHANGED <<queueVars, serverVars, agent, at, by, read, signalVars, lossVars>>

\* A fault to detect: a child that ended is taken for a success.
ReadsSuccess_AnyExit(r) == TRUE

\* There is a result.json that says "succeeded", whichever run it is from.
ReadsSuccess(r) == onDisk[Dir[by[r]]][TaskOf(r)] # 0

\* proc.poll sees the exit; without a readable result the run has failed.
PollExit(r) ==
  /\ at[r] = "running"
  /\ child[r] # "running"
  /\ IF ReadsSuccess(r)
     THEN /\ Goto(r, "complete")
          /\ read' = [read EXCEPT ![r] = onDisk[Dir[by[r]]][TaskOf(r)]]
     ELSE Goto(r, "fail") /\ UNCHANGED read
  /\ UNCHANGED <<queueVars, serverVars, agent, by, child, onDisk, signalVars, lossVars>>

\* cancel_check: the child is terminated and whatever it wrote is overruled.
PollCancel(r) ==
  /\ at[r] = "running"
  /\ TaskOf(r) \in cancelRequested[by[r]]
  /\ child' = [child EXCEPT ![r] = IF @ = "running" THEN "failed" ELSE @]
  /\ Goto(r, "failForGood")
  /\ UNCHANGED <<queueVars, serverVars, agent, by, onDisk, read, signalVars, lossVars>>

\* on_tick raises once the client is closed: the thread leaves its child behind.
TickAfterClose(r) ==
  /\ at[r] = "running"
  /\ ~Online(r)
  /\ Goto(r, "fail")
  /\ UNCHANGED <<queueVars, serverVars, agent, by, child, onDisk, read, signalVars, lossVars>>

\* _report_success raises when a workspace it must deliver is not uploaded.
EvidenceLost(r) ==
  /\ at[r] = "complete"
  /\ TaskOf(r) \in Evidence
  /\ losses < MaxLosses
  /\ losses' = losses + 1
  /\ Goto(r, "fail")
  /\ UNCHANGED <<queueVars, serverVars, agent, by, child, onDisk, read, signalVars, mislaid>>

\* A fault to detect: a completion that could not be sent ends the thread.
PostComplete_GiveUp(r) ==
  /\ at[r] = "complete"
  /\ \/ Online(r) /\ TakeComplete(TaskOf(r), by[r], read[r])
     \/ UNCHANGED <<queueVars, serverVars>>
  /\ Goto(r, "cleanup")
  /\ UNCHANGED <<agent, by, child, onDisk, read, signalVars, lossVars>>

\* The POST at the end of _report_success; an exception becomes a failure.
PostComplete(r) ==
  LET taken == TakeComplete(TaskOf(r), by[r], read[r])
      notTaken == UNCHANGED <<queueVars, serverVars>>
  IN  /\ at[r] = "complete"
      /\ \/ Online(r) /\ taken /\ Goto(r, "cleanup") /\ UNCHANGED lossVars
         \/ Online(r) /\ taken /\ Goto(r, "fail") /\ Lose(r)
         \/ Online(r) /\ notTaken /\ Goto(r, "fail") /\ Lose(r)
         \/ ~Online(r) /\ notTaken /\ Goto(r, "fail") /\ UNCHANGED lossVars
      /\ UNCHANGED <<agent, by, child, onDisk, read, signalVars>>

\* _report_fail: an exception of the client is swallowed.
PostFail(r) ==
  /\ at[r] \in {"fail", "failForGood"}
  /\ \/ Online(r) /\ TakeFail(TaskOf(r), by[r], at[r] = "fail") /\ UNCHANGED lossVars
     \/ Online(r) /\ UNCHANGED <<queueVars, serverVars>> /\ Lose(r)
     \/ ~Online(r) /\ UNCHANGED <<queueVars, serverVars, lossVars>>
  /\ Goto(r, "cleanup")
  /\ UNCHANGED <<agent, by, child, onDisk, read, signalVars>>

\* The finally clause of _handle_task.
Cleanup(r) ==
  LET t == TaskOf(r)
      d == Dir[by[r]]
  IN  /\ at[r] = "cleanup"
      /\ cancelRequested' = [cancelRequested EXCEPT ![by[r]] = @ \ {t}]
      /\ onDisk' = [onDisk EXCEPT ![d][t] = IF t \in KeepWorkspace THEN @ ELSE 0]
      /\ read' = [read EXCEPT ![r] = 0]
      /\ Goto(r, "done")
      /\ UNCHANGED <<queueVars, serverVars, agent, by, child, reply, lossVars>>

-----------------------------------------------------------------------------
(* Specification                                                           *)

AgentInit ==
  /\ QueueInit
  /\ result = [t \in Tasks |-> 0]
  /\ toMark = [j \in Jobs |-> "none"]
  /\ agent = [w \in Workers |-> "off"]
  /\ at = [r \in Runs |-> "none"]
  /\ by = [r \in Runs |-> NoWorker]
  /\ child = [r \in Runs |-> "none"]
  /\ onDisk = [d \in Dirs |-> [t \in Tasks |-> 0]]
  /\ read = [r \in Runs |-> 0]
  /\ reply = [w \in Workers |-> {}]
  /\ cancelRequested = [w \in Workers |-> {}]
  /\ mislaid = {}
  /\ losses = 0

HandleTask(r) ==
  \/ PostStart(r) \/ Prepare(r)
  \/ PollExit(r) \/ PollCancel(r) \/ TickAfterClose(r)
  \/ EvidenceLost(r) \/ PostComplete(r) \/ PostFail(r)
  \/ Cleanup(r)

AgentStep(w) ==
  \/ Launch(w) \/ Stop(w) \/ CloseHttp(w) \/ Kill(w)
  \/ SendHeartbeat(w) \/ HeartbeatAnswered(w)
  \/ AgentLease(w)

ClientStep(j) == Submit(j) \/ CancelTasks(j) \/ MarkJob(j) \/ CloseJob(j)

AgentNext ==
  \/ \E w \in Workers : AgentStep(w)
  \/ \E r \in Runs : HandleTask(r) \/ ChildEnds(r)
  \/ \E j \in Jobs : ClientStep(j)
  \/ ReapLeases
  \/ \E t \in Tasks : TimePasses(t)

AgentSpec == AgentInit /\ [][AgentNext]_clusterVars

\* A live agent keeps sending heartbeats and its task threads go on; the leases
\* of an agent that has stopped run out; the reaper wakes again and again, and
\* a handler goes on.  A child may run for ever.
AgentFairness ==
  /\ \A w \in Workers :
       /\ WF_clusterVars(SendHeartbeat(w))
       /\ WF_clusterVars(HeartbeatAnswered(w))
  /\ \A r \in Runs : WF_clusterVars(HandleTask(r))
  /\ \A w \in Workers, t \in Tasks : WF_clusterVars(Owns(w, t) /\ agent[w] # "up" /\ TimePasses(t))
  /\ WF_clusterVars(ReapLeases)
  /\ \A j \in Jobs : WF_clusterVars(MarkJob(j))

FairAgentSpec == AgentSpec /\ AgentFairness

-----------------------------------------------------------------------------
(* Properties                                                              *)

AgentTypeOK ==
  /\ QueueTypeOK
  /\ result \in [Tasks -> {0} \cup {r[2] : r \in Runs}]
  /\ toMark \in [Jobs -> {"none", "cancelling", "cancelled"}]
  /\ agent \in [Workers -> AgentStates]
  /\ at \in [Runs -> ThreadPC]
  /\ by \in [Runs -> Workers \cup {NoWorker}]
  /\ child \in [Runs -> {"none", "running", "succeeded", "failed"}]
  /\ onDisk \in [Dirs -> [Tasks -> {0} \cup {r[2] : r \in Runs}]]
  /\ read \in [Runs -> {0} \cup {r[2] : r \in Runs}]
  /\ reply \in [Workers -> SUBSET Tasks]
  /\ cancelRequested \in [Workers -> SUBSET Tasks]
  /\ mislaid \subseteq Runs
  /\ losses \in 0..MaxLosses

\* A result the server has recorded was written by a run of that task that
\* succeeded: not by one that crashed, was cancelled or never ran, whatever was
\* lost on the way and whichever attempt the result.json was from.
SuccessWasProduced ==
  \A t \in Tasks : status[t] = "succeeded" =>
    /\ result[t] # 0
    /\ child[<<t, result[t]>>] = "succeeded"

\* A run is stopped by a cancel signal only if its job is being cancelled or
\* was: a signal that arrives late or outlives its attempt stops no other run.
OnlyMeantCancels ==
  [][\A r \in Runs :
       (at[r] = "running" /\ at'[r] = "failForGood") => Cancelled(JobOf[TaskOf(r)])]_clusterVars

\* The agent and the server may disagree about the task: a message about one
\* of its runs there was lost.
MessageLost(w, t) == \E r \in mislaid : by[r] = w /\ TaskOf(r) = t

\* A task leased to an agent that is still serving has a thread there that is
\* not done with it, unless a message about a run there was lost: otherwise
\* heartbeats would renew for ever a lease that nobody works on.
HeldTaskIsAttended ==
  \A w \in Workers : \A t \in InFlightTasks(w) :
    agent[w] \in {"up", "draining"} =>
      \/ MessageLost(w, t)
      \/ \E r \in Active(w) : TaskOf(r) = t

\* An agent that is serving never has more children running than slots, also
\* when the server has taken tasks from it and counts fewer.
ChildrenWithinSlots ==
  \A w \in Workers : agent[w] \in {"up", "draining"} =>
    Cardinality({r \in Runs : by[r] = w /\ child[r] = "running"}) =< Slots[w]

\* The cancellation of a job reaches the task that runs: it leaves flight even
\* if its child would run for ever, its agent stops, or heartbeats are lost,
\* unless a message about a run of the task there was lost.
CancelTakesEffect ==
  \A t \in Tasks :
    (status[t] \in InFlight /\ Cancelled(JobOf[t]))
      ~> (status[t] \notin InFlight \/ MessageLost(worker[t], t))

=============================================================================
