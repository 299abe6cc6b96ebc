------------------------------ MODULE TaskPath ------------------------------
(***************************************************************************)
(* One task from the call that submits its job to the result that is       *)
(* stored for it: adapter, server, worker, the runner's main and the       *)
(* agent's report, each at the granularity of the data it hands on.  What  *)
(* the nirs4all library does with the arguments is a choice.               *)
(***************************************************************************)
EXTENDS JobSpec, Evidence

CONSTANTS
  Calls,       \* calls of the SDK; a raw call skips the adapter
  WorkersSeen, \* what workers declare
  Results(_),  \* what the library may leave for a request: a run, and the dataset
               \* as the runner reloads it; see Evidence
  AllowPython  \* --allow-python-jobs of the server

VARIABLES
  stage,
  call,      \* what the client asked for
  request,   \* what is stored in jobs.request_json
  task,      \* the pipeline and the dataset of the task that is followed
  worker,    \* the worker that leased it
  spec,      \* task.json
  nJobs,     \* n_jobs of nirs4all.run, None if it is not passed
  run, data, \* what the run left, and the dataset
  model,     \* the exported model file exists
  published, \* what Publish returned, None if it was not called
  trace,     \* the trace in result.json, None if there is none
  uploads,   \* the roles whose upload succeeded
  stored     \* a result is stored for the task

pathVars == <<stage, call, request, task, worker, spec, nJobs, run, data, model, published, trace,
              uploads, stored>>

Goto(s) == stage' = s

Prepared(c) == IF c.raw THEN c ELSE FromAdapter(c)

-----------------------------------------------------------------------------
(* What the code relies on in its inputs                                   *)

IsList(s) == s \in Seq(ToSet(s))

IsCall(c) ==
  /\ {"raw", "nJobs", "inner", "paramsNJobs", "paramsInner", "paramsWorkspace", "pipeline",
      "pipelines", "dataset", "datasets", "packages", "exportModel", "handoff"} \subseteq DOMAIN c
  /\ {c.nJobs, c.inner, c.paramsNJobs, c.paramsInner} \subseteq Int \cup {None}
  /\ c.pipelines # None => IsList(c.pipelines)
  /\ c.datasets # None => IsList(c.datasets)

\* A prediction was made on rows of the dataset; a column is a list.
IsPrediction(p, data_) ==
  /\ p.truth # Absent /\ p.truth \in Seq(1..data_.size)
  /\ IsFiniteSet(p.entries)
  /\ \A e \in p.entries : e.key \in IdentityKeys /\ IsList(e.values)

IsResult(r) ==
  /\ {"native", "model", "captured", "saves", "predictions"} \subseteq DOMAIN r.run
  /\ IsList(r.run.predictions)
  /\ r.data.size \in Nat /\ IsFiniteSet(r.data.columns)
  /\ \A e \in r.data.columns : IsList(e.values)
  /\ \A i \in DOMAIN r.run.predictions : IsPrediction(r.run.predictions[i], r.data)

\* None is never the outcome of a publication.
ASSUME PathAssumption ==
  /\ IsFiniteSet(IdentityKeys)
  /\ \A c \in Calls :
       /\ IsCall(c)
       /\ \A r \in Results(Prepared(c)) :
            /\ IsResult(r)
            /\ \A m \in BOOLEAN : Publish([r.run EXCEPT !.model = m], r.data) # None

-----------------------------------------------------------------------------
(* Client and server                                                       *)

\* submit, submit_nirs4all_run: the model refuses on the client already.
Call(c) ==
  /\ stage = "call"
  /\ call' = c
  /\ IF (~c.raw /\ AdapterRefuses(c)) \/ ~ValidRequest(Prepared(c))
     THEN Goto("refused") /\ UNCHANGED request
     ELSE Goto("sent") /\ request' = Prepared(c)
  /\ UNCHANGED <<task, worker, spec, nJobs, run, data, model, published, trace, uploads, stored>>

\* submit_job; one task of the job is followed from here.
Accept ==
  /\ stage = "sent"
  /\ IF HasPython(request) /\ ~AllowPython
     THEN Goto("refused") /\ UNCHANGED task
     ELSE \E k \in DOMAIN Expand(request) : task' = Expand(request)[k] /\ Goto("queued")
  /\ UNCHANGED <<call, request, worker, spec, nJobs, run, data, model, published, trace, uploads,
                 stored>>

\* lease_next_task passes over a worker that does not match.
Lease(w) ==
  /\ stage = "queued"
  /\ RequirementsMatch(request, w)
  /\ worker' = w
  /\ Goto("leased")
  /\ UNCHANGED <<call, request, task, spec, nJobs, run, data, model, published, trace, uploads,
                 stored>>

\* build_runner_spec in _handle_task
Prepare ==
  LET m == Materialize(task)
  IN  /\ stage = "leased"
      /\ IF m.fails = None THEN Goto("runner") /\ spec' = m
         ELSE Goto(m.fails) /\ UNCHANGED spec
      /\ UNCHANGED <<call, request, task, worker, nJobs, run, data, model, published, trace,
                     uploads, stored>>

-----------------------------------------------------------------------------
(* The runner                                                              *)

\* main: one is the default and is not passed on; params.n_jobs is dropped.
PassedJobs(inner) == IF inner \in {None, 1} THEN None ELSE inner

\* Any exception in main, the one of the library included.  The export does not
\* raise, and of the publication only the opening of the workspace store.
RunnerFails ==
  /\ stage \in {"runner", "ran", "exported"}
  /\ Goto(FailsOnce)
  /\ UNCHANGED <<call, request, task, worker, spec, nJobs, run, data, model, published, trace,
                 uploads, stored>>

RunLibrary ==
  /\ stage = "runner"
  /\ spec.pipeline = "entrypoint" => worker.allowPython
  /\ nJobs' = PassedJobs(request.paramsInner)
  /\ \E r \in Results(request) : run' = r.run /\ data' = r.data
  /\ Goto("ran")
  /\ UNCHANGED <<call, request, task, worker, spec, model, published, trace, uploads, stored>>

\* The export is tried unless the outputs say no, and may fail.
ExportModel ==
  /\ stage = "ran"
  /\ model' = (request.exportModel /\ run.model)
  /\ Goto("exported")
  /\ UNCHANGED <<call, request, task, worker, spec, nJobs, run, data, published, trace, uploads,
                 stored>>

Handoff == request.handoff

PublishEvidence ==
  /\ stage = "exported"
  /\ IF Handoff # None /\ Handoff.requested
     THEN LET p == Publish([run EXCEPT !.model = model], data)
          IN  /\ published' = p
              /\ trace' = [missing  |-> TraceMissing(Handoff.fields, p.missing),
                           required |-> p.saved # {}]
     ELSE UNCHANGED <<published, trace>>
  /\ Goto("written")
  /\ UNCHANGED <<call, request, task, worker, spec, nJobs, run, data, model, uploads, stored>>

-----------------------------------------------------------------------------
(* The agent                                                               *)

WantsWorkspace == request.keepWorkspace \/ (trace # None /\ trace.required)

\* A fault to detect: a lost workspace is no reason to fail.
EvidenceLost_Ignored == FALSE

EvidenceLost == trace # None /\ trace.required /\ "workspace" \notin uploads

\* The uploads of _report_success: each may be lost.
Upload ==
  /\ stage = "written"
  /\ \E done \in SUBSET ({"logs"} \cup (IF model THEN {"model"} ELSE {})
                          \cup (IF WantsWorkspace THEN {"workspace"} ELSE {})) : uploads' = done
  /\ Goto("uploaded")
  /\ UNCHANGED <<call, request, task, worker, spec, nJobs, run, data, model, published, trace, stored>>

Report ==
  /\ stage = "uploaded"
  /\ IF EvidenceLost THEN Goto(FailsOnce) /\ UNCHANGED stored
                     ELSE Goto("succeeded") /\ stored' = TRUE
  /\ UNCHANGED <<call, request, task, worker, spec, nJobs, run, data, model, published, trace,
                 uploads>>

-----------------------------------------------------------------------------
(* Specification                                                           *)

PathInit ==
  /\ stage = "call"
  /\ call = None /\ request = None /\ task = None /\ worker = None /\ spec = None
  /\ nJobs = None /\ run = None /\ data = None /\ published = None /\ trace = None
  /\ model = FALSE /\ uploads = {} /\ stored = FALSE

RunnerStep == RunnerFails \/ RunLibrary \/ ExportModel \/ PublishEvidence

PathNext ==
  \/ \E c \in Calls : Call(c)
  \/ Accept
  \/ \E w \in WorkersSeen : Lease(w)
  \/ Prepare \/ RunnerStep \/ Upload \/ Report

PathSpec == PathInit /\ [][PathNext]_pathVars

-----------------------------------------------------------------------------
(* Properties                                                              *)

Stages == {"call", "refused", "sent", "queued", "leased", "runner", "ran", "exported", "written",
           "uploaded", "succeeded", FailsOnce, FailsForGood}

\* The stages follow each other with what they hand on, and evidence that the
\* agent must deliver exists only where it was asked for.
PathTypeOK ==
  /\ stage \in Stages
  /\ (stage \notin {"call", "refused"}) => ValidRequest(request)
  /\ stage \in {"runner", "ran"} =>
       spec.pipeline \in {"path", "entrypoint"} /\ spec.dataset \in {"path", "path_in_folder"}
  /\ trace # None => Handoff # None /\ published # None
  /\ uploads \subseteq {"logs", "model", "workspace"}
  /\ stored <=> stage = "succeeded"

\* What the client asked for, wherever it said it.
AskedJobs == {call.nJobs, call.inner, call.paramsNJobs, call.paramsInner} \ {None}

\* What runs is what was asked for: the adapter translates every way to ask for
\* parallel jobs and never settles for one of two values; what is dropped is
\* the default; Python code runs only where server and worker allow it; and the
\* worker has proved every package, the runtime included.
RunIsWhatWasAsked ==
  run # None =>
    /\ ~call.raw => AskedJobs \subseteq {IF nJobs = None THEN 1 ELSE nJobs}
    /\ ~call.raw /\ nJobs # None => nJobs \in AskedJobs /\ nJobs > 1
    /\ task.pipeline.kind = "python_entrypoint" => AllowPython /\ worker.allowPython
    /\ \A p \in DOMAIN call.packages \cup {Runtime} : p \in DOMAIN worker.versions

OnTrueRows(e, p, column) ==
  /\ Cardinality(ColumnsOf(data.columns, e.key)) = 1
  /\ e.values = [i \in DOMAIN p.truth |-> column[p.truth[i]]]

\* Published rows are the rows the prediction was made on, if the prediction
\* says one true thing about them: its indices, or one identity column, or, if
\* it says nothing, that it covers the dataset in order.  Whatever else it says
\* and however false, it can only prevent the publication.
EvidenceIsAligned ==
  published # None =>
    \A i \in DOMAIN run.predictions :
      LET p == run.predictions[i]
          saysNothing == p.indices = Absent /\ p.entries = {}
          saysTruth ==
            \/ p.indices = p.truth
            \/ \E e \in p.entries : \E c \in ColumnsOf(data.columns, e.key) : OnTrueRows(e, p, c)
            \/ saysNothing /\ p.truth = [r \in 1..data.size |-> r]
      IN  (saysTruth /\ published.store[i].rows # NoRows) => published.store[i].rows = p.truth

\* A stored result whose trace says that nothing is missing: then every
\* prediction of the workspace has all the evidence asked for, the bundles are
\* of this run and replay, and the workspace that holds it was delivered.
TraceIsHonest ==
  (stored /\ trace # None /\ trace.missing = {} /\ Handoff.fields # {}) =>
    /\ "workspace" \in uploads
    /\ run.predictions # <<>>
    /\ \A i \in DOMAIN run.predictions :
         LET s == published.store[i]
             wanted == {FieldPart(f) : f \in Handoff.fields}
             p == run.predictions[i]
         IN  /\ "X" \in wanted => s.rows # NoRows
             /\ "bundle" \in wanted =>
                  s.bundle /\ p.replays /\ (IF run.native THEN p.ofFinal ELSE p.known)

=============================================================================
