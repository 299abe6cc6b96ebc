--------------------------- MODULE TaskLifecycle ---------------------------
(***************************************************************************)
(* What the database promises about each task, whatever the order in which *)
(* its methods are called: the task is executed in numbered attempts, each *)
(* attempt is granted to one worker, there are at most MaxOf[t] of them,   *)
(* and a settled task never moves again.  One transaction may move several *)
(* tasks, each by at most one step of its own.  TaskQueue implements this  *)
(* specification.                                                          *)
(***************************************************************************)
EXTENDS Naturals, Scheduler

CONSTANTS
  Tasks,        \* ids of the tasks
  Workers,      \* ids of the workers
  NoWorker,     \* the NULL of the worker_id column
  MaxOf         \* the max_attempts column of each task

VARIABLES
  phase,        \* the status a task is seen in
  attempts,     \* how many attempts of it have been granted
  holder        \* the worker of its current or last attempt

lifeVars == <<phase, attempts, holder>>

Moves(t, from, to) == phase[t] \in from /\ phase'[t] = to

SameAttempt(t) == attempts'[t] = attempts[t]

SameHolder(t) == holder'[t] = holder[t]

Submit(t) == Moves(t, {"absent"}, "queued") /\ SameAttempt(t) /\ SameHolder(t)

Grant(t) ==
  /\ Moves(t, {"queued"}, "leased")
  /\ attempts[t] < MaxOf[t]
  /\ attempts'[t] = attempts[t] + 1
  /\ holder'[t] \in Workers

Begin(t) == Moves(t, {"leased"}, "running") /\ SameAttempt(t) /\ SameHolder(t)

Finish(t) == Moves(t, {"running"}, "succeeded") /\ SameAttempt(t) /\ SameHolder(t)

\* The attempt is over and another one is allowed.
Release(t) ==
  /\ Moves(t, InFlight, "queued")
  /\ attempts[t] < MaxOf[t]
  /\ SameAttempt(t)
  /\ holder'[t] = NoWorker

\* The attempt is over and the task with it.
GiveUp(t) == Moves(t, InFlight, "failed") /\ SameAttempt(t) /\ SameHolder(t)

Withdraw(t) ==
  /\ Moves(t, {"queued"} \cup InFlight, "cancelled")
  /\ SameAttempt(t)
  /\ holder'[t] \in {holder[t], NoWorker}

Rest(t) == phase'[t] = phase[t] /\ SameAttempt(t) /\ SameHolder(t)

LifeStep(t) ==
  \/ Submit(t) \/ Grant(t) \/ Begin(t) \/ Finish(t)
  \/ Release(t) \/ GiveUp(t) \/ Withdraw(t) \/ Rest(t)

LifeInit ==
  /\ phase = [t \in Tasks |-> "absent"]
  /\ attempts = [t \in Tasks |-> 0]
  /\ holder = [t \in Tasks |-> NoWorker]

LifeNext == \A t \in Tasks : LifeStep(t)

LifeSpec == LifeInit /\ [][LifeNext]_lifeVars

=============================================================================
