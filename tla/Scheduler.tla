----------------------------- MODULE Scheduler -----------------------------
(***************************************************************************)
(* The policy half of the server (server/scheduler.py): the status values  *)
(* of jobs and tasks and the two transition tables the database enforces.  *)
(* "absent" is the status of a row that has not been inserted yet.         *)
(***************************************************************************)

JobStatus == {"queued", "running", "succeeded", "failed", "cancelling",
              "cancelled"}

TaskStatus == {"queued", "leased", "running", "succeeded", "failed", "lost",
               "cancelled"}

\* A lost task is resolved within the transaction that marks it lost, so no
\* reader of the database meets that status.
VisibleTaskStatus == TaskStatus \ {"lost"}

JobTerminal  == {"succeeded", "failed", "cancelled"}
TaskTerminal == {"succeeded", "failed", "cancelled"}
InFlight     == {"leased", "running"}

\* job_can_transition(src, dst): one disjunct per row of JOB_TRANSITIONS.
JobMay(src, dst) ==
  \/ src = "queued"     /\ dst \in {"running", "cancelling", "cancelled", "failed"}
  \/ src = "running"    /\ dst \in {"succeeded", "failed", "cancelling", "cancelled"}
  \/ src = "cancelling" /\ dst \in {"cancelled", "failed"}
  \/ src = "failed"     /\ dst = "queued"

\* task_can_transition(src, dst): one disjunct per row of TASK_TRANSITIONS.
TaskMay(src, dst) ==
  \/ src = "queued"  /\ dst \in {"leased", "cancelled"}
  \/ src = "leased"  /\ dst \in {"running", "lost", "queued", "failed", "cancelled"}
  \/ src = "running" /\ dst \in {"succeeded", "failed", "lost", "cancelled"}
  \/ src = "lost"    /\ dst \in {"queued", "failed", "cancelled"}
  \/ src = "failed"  /\ dst = "queued"

=============================================================================
