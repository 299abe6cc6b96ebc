# nirs4all-cluster in TLA+

nirs4all-cluster distributes NIRS pipeline runs. A client submits a *job*, the
server expands it into *tasks* (one per pipeline and dataset), *workers* lease the
tasks over HTTP, run each in a subprocess and report, and the server ranks the
results and closes the job. This directory holds TLA+ models of that system, the
TLC configurations that check them and proofs checked by TLAPS. Paths below are
relative to the repository; `app.py`, `db.py`, `scheduler.py` and `events.py` are
those of `nirs4all_cluster/server/`, `agent.py` and `executor.py` those of
`nirs4all_cluster/worker/`.

    tlc -workers 2 -config MCServer.cfg MCServer      # any .cfg with its module
    tlapm ClusterServerProofs.tla

## 1. The system

| Component | State it keeps | Operations | Modelled by |
|---|---|---|---|
| Scheduling policy (`scheduler.py`) | none | the transition tables of jobs and tasks, requirement matching, metric comparison | `Scheduler` (tables), `JobSpec` (matching), `ClusterServer` (comparison) |
| Database (`db.py`) | tables `jobs`, `tasks`, `workers`, `artifacts`, `job_artifacts`, `events` in SQLite, one connection under one re-entrant lock | one method per transaction | `TaskQueue` (jobs, tasks, workers), `RequestFront` (artifacts), `EventStream` (events), `ClusterServer` (`best_model` rows) |
| Request handlers (`app.py`) | local variables of each request | submit, cancel, register, heartbeat, lease, start, complete, fail, uploads, download, streams | `ClusterServer`, `RequestFront`, `EventStream` |
| Finalization (`app.py`, `_finalize_job`) | local aggregate | snapshot the tasks, replace the `best_model` link, decide, close the job | `ClusterServer` |
| Reaper (`app.py`, `_reaper_loop`) | local lists of dead workers and lost tasks | mark dead workers, take their tasks, take tasks with lapsed leases, finalize | `ClusterServer` |
| Worker agent (`agent.py`) | worker id, active count, requested cancellations, task threads | register, heartbeat and lease loops, run, report, drain | `WorkerAgent` |
| Task execution (`executor.py`, `materialize.py`) | work directory of a task, `result.json`, child process | materialize, run, poll, cancel, read the result | `WorkerAgent` (process and files), `JobSpec` (materialization) |
| Events (`events.py`) | `events` table, subscriber queues, callbacks of the loop | emit, broadcast, subscribe, replay, stream | `EventFeed`, `EventStream` |
| Artifacts (`artifacts.py`) | content-addressed files, temporary files, rows | store a stream, link, fetch | `RequestFront` |
| Credentials (`auth.py`), version handshake (`versioning.py`) | the configured principals | the checks in front of a handler | `AccessControl` |
| Request schemas (`schemas.py`), adapter of the SDK (`client.py`) | none | validate, translate parameters, expand into tasks | `JobSpec`, `TaskPath` |
| Runner (`nirs4all_run.py`) | the workspace of the run | run the library, export, publish robustness evidence, trace it | `Evidence`, `TaskPath` |
| Other methods of the client, transports, command line, dashboard, repository scripts | (almost) none | single requests, printing | not modelled |

How the parts interact:

* The handlers are synchronous functions; FastAPI runs each in a thread of a pool,
  so many run at once. The reaper is a coroutine of the event loop that calls the
  same database from the loop's thread. They share the database, whose methods are
  atomic, the files of the artifact store and the subscriber queues. **Between two
  database calls of one of them, any other may run**: cancel is a read, a write of the
  tasks, a write of the job and a finalization; a report is two reads, a write and a
  finalization; a finalization is a read, two writes of the link, a read of the tasks, a
  read of the job, and a write of the job.
* Workers and clients talk to the server over HTTP. A worker may report a task
  that was taken from it; a client may cancel at any moment.
* The server may stop between any two database calls and start again on the same
  file. Nothing but the database and the artifact files survives.

What is hard: verdicts and links derived from values read some calls earlier;
reports, cancellation and the reaper racing for one task; several finalizers of
one job racing to close it; leases and heartbeats against late reports; the
`slots_used` cache; the retry budget checked in two places; restarts between
settlement and finalization; lost requests and responses between agent and server;
files that outlive the attempt that wrote them; broadcasts that overtake each other;
uploads of one content racing for its address. `PROJECT.json` lists each such hazard
at its line with the properties that watch it. The rest of this section is what each
component must guarantee:

* *Database*: tasks run in numbered attempts, at most `max_attempts`, each granted
  to one worker; a settled task never moves; no in-flight task is beyond recovery;
  no worker is overbooked; the slot cache is exact; a queued job is untouched.
* *Handlers, finalization and reaper*: a job is closed once and for all, only when
  every task has settled, and as succeeded only if a task succeeded; the last
  settlement is always followed by a finalization; the `best_model` link is one
  and the best; a cancelled job is not restarted.
* *Agent and execution*: a task that is leased has a thread that attends to it; a
  recorded success was produced by a run; a cancellation stops the runs it means,
  all of them and no other; slots are respected locally.
* *Events*: a stream is an ordered feed without repetition; it loses events only in
  ways that can be named; a live stream stays live.
* *Artifacts and submission*: a row never points to bytes that are not there; a
  refusal leaves nothing; an idempotency key names one job; an output comes from a
  worker that has held the task.
* *Schemas, adapter, runner*: what runs is what was asked for, or the call fails;
  evidence is published for the right rows or not at all; a trace that claims
  completeness is true.

## 2. Modules

`Scheduler` holds the status values and the two transition tables, `JobMay` and
`TaskMay`. `"absent"` stands for a row not yet inserted.

`TaskLifecycle` is the abstract specification of the database: what may happen
to one task, with no table, lease, slot or worker status in sight. A transaction
may move several tasks, each by at most one of its steps.

`TaskQueue` is the database. A variable is a column (a function from ids to
values); an action is a method of `Database`, which holds the lock and commits
once. Notable choices:

* Columns that only describe a row are left out, and so are labels, payloads and
  error texts. A worker id is used for one registration, as `register_worker`
  makes a fresh one each time.
* Time is abstract. A lease is `"current"` until `LeaseLapse` makes it
  `"expired"`; `FallSilent` puts a worker in `silent` when its last heartbeat is
  older than `worker_dead_after_s`. Both may happen at any moment, which covers
  every timing.
* `lost` is entered and left within `_resolve_lost_task`; no reader sees it.
* The reaping methods treat a set of tasks in one action because the method
  does so in one lock.
* `RanksBefore` is the `ORDER BY` of `lease_next_task` up to its last key, a
  random id, which is left open. The order compares priority, the in-flight count
  of the job and its age.
* `requirements_match` is the constant relation `Matches`; `JobSpec` has its
  definition.

`ClusterServer` EXTENDS `TaskQueue` with the threads (`Handlers`) and the
`Reaper`. `frame[p]` holds the step process p is at and the local variables it has
read: `flag` is `still_running` of cancel or `cancelling` of a report,
`succeeded`, `best` and `final` belong to a finalization, `dead` and `todo` to the
reaper. Each action is one database call of a handler together with the code up to
the next one. Calls that touch nothing shared (the re-read after a write, event
emission) are merged with their neighbour. A request of a single database call
is one action and needs no process. Failures are kept: `set_job_status` raises when
another process was first, a report of a lost task is refused, a second closing is
ignored. `Restart` empties every frame and keeps the tables. A request
in progress counts against `MaxBusy`. The report of a task already settled at the
first check is left out: it changes nothing. The
model keeps the direction "smaller metric is better"; the other one is its mirror
image.

`WorkerAgent` EXTENDS `TaskQueue` with the worker processes. `agent[w]` is the process
that registered as `w`; an agent started again in the same `state_dir` is another
worker with the same `Dir`. A run is a pair of task and attempt, so at most one
thread (`at`) belongs to it. The child process and `result.json` are separate from
the thread: `onDisk` belongs to the directory of the *task* and outlives runs and
agents. Each message is one step with four outcomes: served and answered, the
request lost, the response lost, or an exception because the HTTP client is closed
already. The set `mislaid` remembers the runs of which a message was lost.
`Stop` is `stop()` and the drain that follows, `Kill` the end of the process; a child
goes on without its agent. On the server side a request is one step, except that
cancel keeps its two calls and finalization is separate; `ClusterServer` has the finer
grain. Neither module needs the other's detail.

`EventFeed` is what a stream promises; `EventStream` is how `EventBroker` and the two
WebSocket handlers do it. An id is an index of `log`. `AddEvent` and `CallSoon` are
the two halves of `emit`, between which another emitter may pass; `Broadcast` is one
callback of the loop; `Accept`, `SendHistory`, `Subscribe` and `TakeEvent` are what a
stream does between two awaits. The replay is a set of ids (`Oldest` or `Newest` of the
rows), which `SendHistory` sends in order. `readAt` and `joinedAt` record the length of
the log at two of these points, for the properties.

`AccessControl` holds the checks in front of a handler, in their order: the version
and size middleware, the credential, the right. `RequestFront` EXTENDS it with
the handlers that add rows and files. `pc[n]` is the next database call or file
operation of request `n`. Files are counted in chunks, so that a file cut off in the
middle differs from a whole one; a content address is the content. `Move` is the
queue taking a task from one worker and giving it to another, `Crash` a server killed
at any point.

`JobSpec` has the pure functions a job passes through: the adapter of the SDK, the
validators, the expansion, the matching and the materialization. A call is a record of
what matters to them; a reference is its kind, whether its field is given, whether
what it points to is there and how an archive is laid out. `Evidence` has the pure
functions of the runner's publication: a prediction says how many rows it has, perhaps
which (`indices`, `entries`), and `truth` is the rows it was really made on, which no
function of the module reads. `TaskPath` EXTENDS both and follows one task through
client, server, worker, runner and report; what the library returns is any of
`Results`. `IsCall` and `IsResult` say what the code relies on in these inputs: lists are
lists, counts of jobs are integers, and a prediction was made on rows of the dataset.

`MCTaskQueue`, `MCServer`, `MCAgent`, `MCStream`, `MCFront` and `MCPath`
give the constants small values. The theorems are in `TaskQueueProofs`,
`ClusterServerProofs` and `WorkerAgentProofs`, which build on it, `ClusterRaceProofs`,
which builds on the second, `EventStreamProofs`, `RequestFrontProofs` and
`TaskPathProofs`.

Definitions named `X_Y` after the original `X`, with the comment "A fault to
detect", are faults one could introduce in that method (a dropped guard, a
forgotten reset). Each property fails under at least one of them; none is part of
a specification.

## 3. Runs

| Run | Instance | What it shows |
|---|---|---|
| `queue` | 1 job, 2 tasks, 2 workers with 1 and 2 slots, 2 attempts, one pair that does not match | Under *every* order of method calls: the table invariants, and refinement of `TaskLifecycle` |
| `server` | 1 job, 2 tasks, 1 worker, 2 attempts, 2 threads and the reaper, all three in progress at once | Jobs close once, with nothing live behind them, as succeeded only if earned; no settled job is left without a process on its way to closing it; the handlers implement `TaskQueue` |
| `live` | the same with 1 attempt, 1 thread, 1 restart, fair | A settled job is closed unless the server restarts; a silent worker loses its tasks, also when the server restarts after marking it dead |
| `race` | 1 job, 2 tasks with models and metrics 1 or 2, 1 worker, 2 attempts, 2 threads and the reaper of which two are in progress at once, 1 restart | What still holds when requests overlap: a job is closed with a wrong verdict or link only while a second process is at work on it; links do not pile up; a cancellation that has taken hold holds |
| `stale_verdict`, `relaunch`, `two_best_models` | 2 processes in progress | With two requests at once, each of these three is violated (section 5) |
| `agent` | 1 task with 2 attempts and evidence to deliver, 2 agents with 2 and 1 slots in one state directory, 1 lost message, 1 agent stopped or killed, fair | A recorded success was produced by a run of that task; a serving agent attends to what it holds; children stay within slots; a cancel signal stops only what it means; a cancellation takes effect |
| `streams` | 1 job, 2 emitters, 3 events, one stream of each kind, 1 connection, every limit (queue, both replays) equal to 1, fair | A stream implements `EventFeed`; an event is lost in one of four ways and no other; the replay begins at the beginning; live events arrive |
| `front` | 3 requests out of 13, 2 workers, 3 moves of a task, 1 restart, a content of the maximal size and one above | One job per key; whole files behind rows; nothing left of a refusal; a linked output comes from a holder |
| `path` | all combinations of 4 values for the four ways to ask for parallel jobs; the shapes of a request; requirements against three workers; evidence of runs with up to 2 predictions over datasets of 2 rows with 2 identity keys | The run is the one asked for; evidence is aligned; the trace is honest |
| `crash` | as `live` | After a restart a settled job may stay open for ever (section 5) |

Why the bounds are enough to be interesting: two tasks give a job a first and a
last settlement, a retry beside a success, and two candidates for best; two
attempts give a retry and its exhaustion; two threads and the reaper give three
finalizers of one job at once; two workers give a task that moves from one to the
other while the first still reports. `MaxBusy` bounds the processes in the middle
of a request and `MaxCrashes` the restarts; no other counter needs a bound, as
attempts are bounded by the code. In `agent`, one lost message at any point is
enough to leave the two sides in disagreement, and the second agent finds the files of
the first. In `streams` limits of 1 make every limit bite; three events are the fewest
that overflow the queue while an earlier one is read. In `front` three requests are
two that race and a third that sees the outcome. In `path` two rows are enough for a
permutation, and two keys for a contradiction. The `server` run uses no metrics and no models
(they do not influence the closing of a job), the `race` run does, with two
processes at once, which is what the faults of section 5 take. The theorems
of section 6 need no bound at all. Tasks that are alike and threads are declared
symmetric in the runs without liveness.

Deadlock is checked where the system goes on for ever: in the runs of the server and
of the agent, workers and clients can always call. In `streams`, `front` and `path`
the bound on events, requests or stages is reached and nothing is left to do, so it
is off there.

### Fairness

`FairServerSpec` assumes that a thread that has begun a request runs on
(the thread pool schedules it; the database lock is held for one method only),
that the reaper wakes again and again and finishes its iteration (`while True`,
and an exception in an iteration is caught), and that the lease of a task whose
worker is silent runs out (a TTL; only heartbeats renew it). Nothing is assumed of
clients and workers: they may never call again.

`FairAgentSpec` assumes that an agent's heartbeat loop and its task threads go on while
the agent runs (they are threads of it, and wait with a time limit), that the lease of a task
whose agent has ended runs out, that the reaper wakes and that the second call of
cancel follows the first. Nothing is assumed of child processes: a child may run for
ever. Nor of the lease loop. A message can be lost each time up to `MaxLosses`.

`FairStreamSpec` assumes that an emitter schedules what it has inserted (the next
statement), that the event loop runs its callbacks and resumes handlers that can go on.
Of clients it assumes that one which stays connected keeps reading, for `Serve` is a send
that completes; a client may leave at any time, and the handler learns it at its next send.

## 4. Properties worth a second look

* `NoJobLeftBehind` relates the tables to the frames: if every task of a job has
  settled, the job is closed or some process is still to finalize it. It is what
  "whoever comes second changes nothing" needs to be harmless.
* `LostTaskIsTaken`: `mark_dead_workers` returns a worker once. If the server stops
  before reaping it, only the lapsing leases recover its tasks. The property holds
  because no method leaves an in-flight task without a lease
  (`InFlightIsRecoverable`).
* `OnlyRacesCloseWrong`, `CancellationHolds` and `LinksWithinRequests` say how far the
  first three disagreements of section 5 reach. They are stated of the server as it is, with its
  threads. The first compares the closing of a job with the tables at that moment, not with
  what the finalizer read: only a second process at work on the same job can have spoilt it.
  The second starts when the reports that overlapped the cancellation are answered and the
  queue of the job is empty; a task they did requeue is outside it. The third bounds what
  overlapping finalizers leave behind.
* `SlotsCacheExact` and `NoOverbooking` hold after revival: a worker declared dead,
  reaped, revived by a heartbeat and leased to again.
* `SuccessWasProduced` survives everything that can go wrong between an attempt and its
  report: `result.json` of an earlier attempt left in the directory, a second agent in
  that directory, reports of a lost attempt that arrive in a later one. It says that
  *some* successful run of the task produced the result, not that the attempt did that
  is recorded: see the observations below.
* `HeldTaskIsAttended` is what makes lease renewal sound. A heartbeat renews every task
  of the worker; a task nobody works on would be held for ever. The only exception is
  a lost message.
* `LossIsExplained` is the complement of `FeedKept`: a refinement of a feed that may
  skip events would also hold of a stream that sends nothing. The four ways are the gap
  between replay and subscription, the limit of the replay, a later event overtaking
  in the loop, and a full queue.
* `LinkIsFromAHolder`: the owner is looked up before the upload is read, and leases move
  meanwhile.
* `EvidenceIsAligned` takes a prediction that says one true thing about its rows, and
  lets everything else it says be false; one that says nothing must cover the dataset.
* `TraceIsHonest` relates the last thing the agent does to what the runner wrote
  before: a trace without missing fields in a stored result means that the evidence is
  there *and* was delivered.
* `QueuedJobIsUntouched` matters because the transition table has no way from
  queued to succeeded: a job left in queued could never close as a success.

## 5. Where code and documents disagree

Each of these is a run whose single property TLC refutes; the traces are short. For the first
three, the `race` run and `ClusterRaceProofs` say what holds all the same.

1. *Stale verdict* (`app.py:934-953`). `_finalize_job` aggregates first and checks
   that every task has settled afterwards. If the second task succeeds in between,
   the finalizer of the first, failed task closes the job as failed with an
   aggregate that has no success. `FailedJobHasNoSuccess`. The comment at
   `app.py:945` promises the right terminal state.
2. *Relaunch* (`app.py:397-402`, `728-747`). cancel stops the tasks and marks the job
   in two calls. A retriable failure whose handler read the job before the mark
   requeues the task afterwards, and `lease_next_task` does not look at the job. The
   reaper, when it runs between the two calls of cancel, requeues as well, which
   `docs/operations.md:28` excludes ("never relaunched").
   `CancelledJobNotRestarted`.
3. *Two best models* (`app.py:936-939`). Clearing and linking are separate calls;
   two finalizers with different best tasks may clear, clear, link, link.
   `OneBestModelLink`; `docs/concepts/job-decomposition.md:26` says "atomically".
4. *Restart* (`app.py:174-200`). Finalization only follows a request or a reaped task. A
   stop between the last settlement and the finalization leaves the job open, and
   nothing looks for such jobs at start-up. `SettledJobClosesAfterRestart`;
   `PROTOTYPE_DESIGN.md:59` names recovery after a server crash as a target.

Other behaviour that the models show and no document excludes:

* If a response to a lease request, a report or its failure notice is lost, the
  agent drops the task and its heartbeats renew the lease; only the end of the agent
  or a cancellation frees it (`MessageLost` in `HeldTaskIsAttended`).
* After its lease has lapsed, a run goes on; the same agent may be granted the next
  attempt, and two runs of a task share a work directory. A `result.json` that
  an earlier attempt left is taken for that of a later one whose child was killed.
* The upload of a worker that has lost the task may finish last and replaces the link
  of its successor's.
* A server killed during an upload leaves a temporary file that nothing removes.
* A raw job (one that skips the adapter) may have `n_jobs` in its params; the runner
  drops it without a word.
* The adapter ignores `pipeline` when `pipelines` is given, and datasets likewise.
* A handoff that asks for no field has the trace "published" with nothing published;
  `TraceIsHonest` excepts it.
* A run in a kept workspace sees the predictions of an earlier attempt, and may count
  a bundle of it as missing.
* A task with a catalog dataset always fails for good.

## 6. Proofs

Every invariant and every action property that a passing run checks is also a theorem, for
every value of the constants; the four liveness properties are not (below). The assumptions are
`QueueAssumption` and `ServerAssumption` (jobs and tasks are finite sets, every job
allows at least one attempt, every worker has at least one slot, the "null" values are
not ids), `JobsHaveTasks` (`schemas.py:366-369` refuses an empty list of pipelines or
datasets, and a job is inserted with its tasks in one transaction), `AgentAssumption` (what is kept or delivered belongs to tasks),
`StreamAssumption` (a stream follows one job or all, its queue and its replay hold at
least one event), `FrontAssumption` (a content has at least one chunk, every upload has a
content, the limits are natural numbers), `NamesAssumption` and `PathAssumption` (`IsCall`
of every call and `IsResult` of every result; None is not an integer, a failure or a
publication; the identity keys are finitely many). TLC evaluates them in the runs.

**The tables** (`TaskQueueProofs`). `TableInv` is inductive under `QueueNext`. Most
of its conjuncts are properties of the `queue` run; they need each other
(`AttemptsBounded` needs that a queued task has an attempt left,
`InFlightIsRecoverable` needs the types) and one more, `TaskFollowsJob`: a task
exists exactly when its job does, and its columns are blank before. Without it
`create_job_with_tasks` could "queue" a task that was used before and
`QueuedJobIsUntouched` would not be inductive. There is one lemma per group of
methods (`ResolveLostTable`, `CreateJobTable`, ...), and `TableStep` joins them.

**Slots.** `SlotsInv` (exact cache, no overbooking) is inductive relative to
`TableInv`. Two lemmas carry it: `CacheStep` (the cache is right for synced workers
and for those whose set of in-flight tasks did not change) and `ShrinkStep`
(removing tasks from flight cannot overbook).

**Refinement.** `QueueImplementsLifecycle`: `TableInv` gives each step of each
task its counterpart in `TaskLifecycle`; in particular an attempt is granted only
below the budget and the report of a former owner moves nothing.

**The server** (`ClusterServerProofs`), for any number of threads and restarts.
`FramesOK` says what a process must know by the step it is at, and
`ServerStepIsQueueStep` uses it to show that each database call of each handler is
a step of `TaskQueue`; so `ServerUsesTheQueue`, and with it
`ServerKeepsQueuePromises`, which carries all of the above over to the server.

**Closing.** `ClosedJobHasNoLiveTask` and `SuccessIsEarned` are not inductive:
they depend on what a finalizer read some calls before it writes. `ClosingInv` adds
`FramesSound`: a process at `verdict` or `commit` has a job with only settled tasks,
one about to mark a job as cancelled (no running task seen) likewise, one
that counted a success has a job with a success, and one about to cancel has a job
that exists. The argument is that these facts are stable: a settled task stays
settled (`SettledTaskStays`, from the refinement) and a job row stays
(`JobRowStays`), so no other process can spoil them (`SoundStays`). It is also
clear from here why the verdict "failed" is *not* safe: "no task has succeeded"
is not stable.

**Streams** (`EventStreamProofs`), for any number of jobs, emitters, streams and events,
and any limits. `StreamImplementsFeed` rests on `FeedInv`: every id a stream holds, in its
history or its queue, is about what it wants (`Wanted`), and a history only has ids later
than the last one sent; the id filter of the handler restores the order that the loop may
have lost. `LossIsAlwaysExplained` has two inductive parts. `Replayed`: what the handler
could read (`Before`) is still in the history, sent, or beyond the limit. `Followed`: of
every event broadcast since the subscription, that event or a later one was sent or is on
its way, or the queue has overflowed (`Kept`). The log only grows, so `Before` never
changes; an id that the filter drops is at most the last one sent; one lost from a full
queue marks the stream as overflowed.

**Requests** (`RequestFrontProofs`), for any principals, requests, contents, moves of
tasks and any number of restarts. `FrontInv` has one part for each concern: `Stages`
(what a handler has left to do tells its kind and its status), `Keys` (a job per key; one
that found its key taken has a job of that key, as rows stay), `Objects` (an object is
absent or whole, because the temporary file is complete before the atomic move),
`Rows` (whoever made a row was not refused) and `Outputs` (a lease is remembered in
`held`, so what the check of the owner saw stays true while the upload is read, although
the lease does not). One lemma for each step says what it writes (`AtFind` ...
`AtLookUp`), and one for each part shows it kept.

**Nobody leaves a job behind** (`ClusterServerProofs`). `NoJobLeftBehind` is about what a
process *will* do, so the invariant says what makes it sure to: `Closes(f, j, js)` holds of
a frame f that is on its way to finalize j, has a verdict the job may take, is about to
cancel a job that has no running task, or is the reaper with j in its list.
`SomeoneCloses` says that each settled job that is open has such a process. A step that
settles the last task leaves its own process in that position; a process leaves it only
by closing the job, by seeing a task that is not settled (which a settled job does not
have), or because another one closed the job. It needs `ReportsOwnJob`, since the
handler of a report finalizes the job it has read, and that nothing was restarted:
the hypothesis `crashes = 0` is part of the statement, and the `crash` run shows why.

**What overlap can and cannot do** (`ClusterRaceProofs`), for any number of threads, of
processes in progress and of restarts. The right verdict, the single link and the end of
relaunches are false of the code when requests overlap (section 5); these theorems bound how
false, with nothing assumed about the order of requests.

* `OnlyRacesGoWrong`: a job that is closed as failed in spite of a success, or linked to another
  model than its best, is closed while a second process attends to it. A finalizer that
  began before the last task settled may hold stale facts, and then whoever settles that task is
  bound to close the job too. `AloneInv` says this of every step: the finalizer of a settled
  open job is `UpToDate`, or another process `Closes` the job (the notion of
  `NoJobLeftBehind`). It is kept because the successes of a settled job and its best
  tasks no longer change (`OverKeeps`), because only finalizers of the job write its links
  (`LinksOfOthers`), and because a process that was bound to close the job stops being so only
  when the job is closed (`OthersAlone`). Since a restart takes all processes at once, it
  leaves no stale finalizer, so restarts need no exception here.
* `CancellationsHold`: the only step that queues a task of a cancelled job is a failure report
  that read the job before (`ActorQueue`, `QuietQueue`); once no such report is in progress and
  the queue is empty, none comes back, as a later report reads `cancelling`. That a task no worker
  ever had is not leased after the cancellation needs `CancelInv`: such a task was queued when
  `cancel_job_tasks` ran, so it is cancelled before the job is marked.
* `LinksStayWithinRequests`: each process between clearing and linking adds one link at most, and
  a later clearing removes all. `LinksInv` counts the links of a job together with the processes
  about to write one. With `MaxBusy` processes the bound is `MaxBusy`; section 5 shows two
  links with two. `BestIsWorthy` says that what is about to be linked is a ranked success.

**Agents** (`WorkerAgentProofs`), for any number of agents, slots, tasks, lost messages and
ends of agents. Each step is a step of the tables or leaves them alone
(`AgentsImplementQueue`), so `TableInv` carries over. `RunsFollowAttempts`: a thread
exists for attempts that were granted, and belongs to one agent for good.
`SuccessIsTraced` follows a success from the child through the file, the thread and the
report; each of these may be older than the attempt, but all come from a child of the
task that ended well, and a child is started once. `AttendedInv` is `HeldTaskIsAttended`
with agents that drain: the agent that is granted a task starts its thread in the same
step, a thread ends with a report that takes the task out of flight, and a report that is
lost is remembered in `mislaid`. `SignalsAreMeant` says that what a heartbeat has
answered and what is still requested is about cancelled jobs, and `CancelledStays` that
such a job stays cancelled, so that an old answer means what it meant.

**The way of a task** (`TaskPathProofs`), for any calls and workers, and for results with any
number of predictions, rows and identity keys. `PathInv` says what each stage finds of the
ones before. The work is in the functions. `InnerJobsAreAsked`: the adapter's value is the only
one given, since an earlier conflict is never forgotten. `TasksAreOfTheRequest`: the index
arithmetic of the expansion stays within both lists. `SelectedRowsAreTrue`: a true column
that is unique in the dataset can only be inverted to the true rows, and all keys must
agree with it. `NothingMissing`: a field that is not missing means that every prediction was
aligned, which also means that the batch was saved and the workspace is required.

All theorems are listed in `PROJECT.json`. Only model-checked: the liveness properties
(`SettledJobCloses`, `LostTaskIsTaken`, `CancelTakesEffect`, `LiveEventArrives`), which rest
on fairness, out of reach of the prover. The safety half of two of them is proved: no job
is left behind, and every in-flight task can be found by the reaper.

## 7. Not modelled, and why

* `jobs.result_json`: written at every finalization and read by no code (the
  job view rebuilds the aggregate).
* The job list with its page cursor, views, dashboard page: queries without state.
* The parity, DAG and provenance records of a request: they describe a job, and nothing
  decides by them. The syntax of version specifiers and of entry points is left out;
  `Admits` says what a specifier admits.
* Detection of GPUs and package versions on a worker: `WorkersSeen` is what came of it.
* The note of a divergent package version, progress messages, log files: wording.
* The timeout of `execute_task` and `put_bytes`: nothing in the package uses them.
* The nirs4all library, the arrays themselves, and the comparison of a replay with the
  stored predictions: `p.replays` says whether they agree.
* The command line, the transports and the polling methods of the client: one request
  at a time, no state.
* An exception in the middle of a reaper iteration (a disk error), which would drop
  the jobs it still had to finalize: `Restart` has the same effect on the tables.
* An idempotency key that is the empty string. The handler takes it for no key
  (`app.py:326`, `334`) and the unique index for a value (`db.py:53`), so a second such
  submission ends in an error. `RequestFront` has "no key" and real keys.
* `int(n_jobs)` of a value that is not a number, which raises: counts are integers in `JobSpec`.
* An uploaded archive that is corrupt: an archive of `JobSpec` has a layout, and is readable.
* The refusal of Python by a server without `allow_python` is part of `TaskPath`, but `MCPath`
  sets `AllowPython` to TRUE: that side is covered by `RunIsTheOneAsked` alone.

## 8. Plan

1. Proofs: the recovery after a restart of the server. What of `HandOverInv` survives one, and
   that only jobs settled before it are exposed.
2. The job list: `list_jobs` with its page cursor over rows whose timestamps may be
   equal, against the list of all jobs.
3. `WorkerAgent` with the handlers of `ClusterServer` instead of whole requests, for a
   single task.
