------------------------------ MODULE JobSpec ------------------------------
(***************************************************************************)
(* A job as data: what the adapter of client.py makes of a call, what      *)
(* schemas.py lets through, which worker scheduler.py finds fit, and what  *)
(* worker/materialize.py makes of the two references of a task.            *)
(***************************************************************************)
EXTENDS Integers, Sequences, FiniteSets, SequencesExt

CONSTANTS
  None,
  Runtime,  \* the package nirs4all
  Admits,   \* the versions a specifier admits; the empty one admits all
  Conflict  \* a ValueError of the adapter

-----------------------------------------------------------------------------
(* The adapter                                                             *)

\* A fault to detect: the last value given wins.
Choose_Last(current, candidate) ==
  IF candidate = None THEN current ELSE IF candidate < 1 THEN Conflict ELSE candidate

\* _choose_inner_n_jobs, where a value is given.
Choose(current, candidate) ==
  IF candidate = None THEN current
  ELSE IF current = Conflict \/ candidate < 1 \/ current \notin {None, candidate} THEN Conflict
  ELSE candidate

\* _normalize_run_params: n_jobs and inner_n_jobs may each come as an argument
\* and in params.
InnerJobs(c) ==
  LET chosen == Choose(Choose(Choose(c.inner, c.nJobs), c.paramsNJobs), c.paramsInner)
  IN  IF chosen \notin {None, Conflict} /\ chosen < 1 THEN Conflict ELSE chosen

\* A workspace is dropped, unless two different ones are named.
WorkspaceClash(c) ==
  None \notin {c.workspace, c.paramsWorkspace} /\ c.workspace # c.paramsWorkspace

AdapterRefuses(c) == InnerJobs(c) = Conflict \/ WorkspaceClash(c)

\* build_nirs4all_run_request: a list takes precedence over a single reference.
\* Of what may conflict only inner_n_jobs is left in params.
FromAdapter(c) ==
  [c EXCEPT !.pipeline = IF c.pipelines = None THEN @ ELSE None,
            !.dataset = IF c.datasets = None THEN @ ELSE None,
            !.paramsNJobs = None, !.paramsInner = InnerJobs(c), !.paramsWorkspace = None]

-----------------------------------------------------------------------------
(* The boundary of the server                                              *)

PipelineList(q) == IF q.pipelines # None THEN q.pipelines ELSE <<q.pipeline>>
DatasetList(q)  == IF q.datasets # None THEN q.datasets ELSE <<q.dataset>>

\* Exactly one of each pair, no empty list, and in each reference the field that
\* its kind requires.
ValidRequest(q) ==
  /\ (q.pipeline = None) # (q.pipelines = None)
  /\ (q.dataset = None) # (q.datasets = None)
  /\ q.pipelines # <<>> /\ q.datasets # <<>>
  /\ \A ref \in ToSet(PipelineList(q) \o DatasetList(q)) : ref.given

HasPython(q) == \E p \in ToSet(PipelineList(q)) : p.kind = "python_entrypoint"

\* submit_job: the runtime must be present, unless the client pins it.
Required(q) ==
  [p \in DOMAIN q.packages \cup {Runtime} |->
     IF p \in DOMAIN q.packages THEN q.packages[p] ELSE ""]

\* _insert_tasks: the product, pipelines first.
Expand(q) ==
  LET ds == DatasetList(q)
      ps == PipelineList(q)
      n == Len(ds)
  IN  [k \in 1..(Len(ps) * n) |-> [pipeline |-> ps[((k - 1) \div n) + 1],
                                   dataset  |-> ds[((k - 1) % n) + 1]]]

-----------------------------------------------------------------------------
(* requirements_match                                                      *)

\* An undeclared package satisfies nothing; an unreadable version satisfies the
\* empty specifier alone.
VersionSatisfies(versions, package, spec) ==
  /\ package \in DOMAIN versions
  /\ spec # "" => versions[package] \in Admits[spec]

\* Undeclared memory is enough, undeclared GPUs are none.
RequirementsMatch(q, w) ==
  /\ q.labels \subseteq w.labels
  /\ None \notin {q.memory, w.memory} => w.memory >= q.memory
  /\ q.gpus # None => (IF w.gpus = None THEN 0 ELSE w.gpus) >= q.gpus
  /\ \A p \in DOMAIN Required(q) : VersionSatisfies(w.versions, p, Required(q)[p])

-----------------------------------------------------------------------------
(* Materialization: a runner spec, or how the task fails                   *)

FailsForGood == "never_again"
FailsOnce    == "again"

\* The two special values are no numbers, and None is no way to fail.
ASSUME NamesAssumption ==
  /\ None \notin Int /\ Conflict \notin Int \cup {None}
  /\ None \notin {FailsForGood, FailsOnce}

MaterializePipeline(ref) ==
  IF ~ref.there THEN (IF ref.kind = "path" THEN FailsForGood ELSE FailsOnce)
  ELSE IF ref.kind # "python_entrypoint" THEN "path"
  ELSE IF ref.zip = "unsafe" THEN FailsForGood ELSE "entrypoint"

\* A single folder in the archive is entered.
MaterializeDataset(ref) ==
  CASE ref.kind \in {"shared_path", "worker_local"} -> IF ref.there THEN "path" ELSE FailsForGood
    [] ref.kind = "catalog"                         -> FailsForGood
    [] OTHER -> IF ~ref.there THEN FailsOnce
                ELSE IF ref.zip = "unsafe" THEN FailsForGood
                ELSE IF ref.zip = "folder" THEN "path_in_folder" ELSE "path"

\* A fault to detect: only the pipeline is looked at.
Materialize_PipelineOnly(task) ==
  LET p == MaterializePipeline(task.pipeline)
  IN  IF p \in {FailsForGood, FailsOnce} THEN [fails |-> p]
      ELSE [fails |-> None, pipeline |-> p, dataset |-> MaterializeDataset(task.dataset)]

\* build_runner_spec: the pipeline first.
Materialize(task) ==
  LET p == MaterializePipeline(task.pipeline)
      d == MaterializeDataset(task.dataset)
  IN  IF p \in {FailsForGood, FailsOnce} THEN [fails |-> p]
      ELSE IF d \in {FailsForGood, FailsOnce} THEN [fails |-> d]
      ELSE [fails |-> None, pipeline |-> p, dataset |-> d]
=============================================================================
