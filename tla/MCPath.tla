------------------------------ MODULE MCPath ------------------------------
(***************************************************************************)
(* Calls that differ from a plain one in their parameters, in their shape, *)
(* in their requirements, or in the evidence they ask for, each met by the *)
(* results that matter to it.  Datasets have two rows and two identity     *)
(* keys, runs at most two predictions.                                     *)
(***************************************************************************)
EXTENDS TaskPath, TLC

CONSTANTS a, b

-----------------------------------------------------------------------------
(* Calls                                                                   *)

Ref(kind) == [kind |-> kind, given |-> TRUE, there |-> TRUE, zip |-> "flat"]

Plain ==
  [raw |-> FALSE, nJobs |-> None, inner |-> None, paramsNJobs |-> None, paramsInner |-> None,
   workspace |-> None, paramsWorkspace |-> None,
   pipeline |-> Ref("inline_json"), pipelines |-> None,
   dataset |-> Ref("shared_path"), datasets |-> None,
   packages |-> <<>>, labels |-> {}, memory |-> None, gpus |-> None,
   exportModel |-> TRUE, keepWorkspace |-> FALSE, handoff |-> None]

Jobs == {None, 0, 1, 2}
Names == {None, "here", "there"}

ParamCalls ==
  {[Plain EXCEPT !.nJobs = j[1], !.inner = j[2], !.paramsNJobs = j[3], !.paramsInner = j[4]] :
     j \in Jobs \X Jobs \X Jobs \X Jobs}
    \cup {[Plain EXCEPT !.raw = TRUE, !.paramsNJobs = j, !.paramsInner = k] : j \in Jobs, k \in Jobs}
    \cup {[Plain EXCEPT !.workspace = n, !.paramsWorkspace = m] : n \in Names, m \in Names}

PipelineRefs ==
  {Ref("inline_json"), [Ref("path") EXCEPT !.there = FALSE], [Ref("path") EXCEPT !.given = FALSE],
   [Ref("artifact") EXCEPT !.there = FALSE]}
    \cup {[Ref("python_entrypoint") EXCEPT !.zip = z] : z \in {"flat", "unsafe"}}

DatasetRefs ==
  {Ref("catalog"), [Ref("shared_path") EXCEPT !.there = FALSE]}
    \cup {[Ref("artifact") EXCEPT !.there = t, !.zip = z] :
            t \in BOOLEAN, z \in {"flat", "folder", "unsafe"}}

ShapeCalls ==
  UNION {{[Plain EXCEPT !.raw = raw, !.pipeline = p] : p \in PipelineRefs \cup {None}}
           \cup {[Plain EXCEPT !.raw = raw, !.dataset = d] : d \in DatasetRefs \cup {None}}
           \cup {[Plain EXCEPT !.raw = raw, !.pipeline = None, !.pipelines = ps] :
                   ps \in {<<>>, <<Ref("inline_json"), Ref("python_entrypoint")>>}}
           \cup {[Plain EXCEPT !.raw = raw, !.datasets = ds] :
                   ds \in {<<>>, <<Ref("catalog"), Ref("shared_path")>>}}
         : raw \in BOOLEAN}

RequirementCalls ==
  {[Plain EXCEPT !.packages = p, !.memory = m, !.gpus = g, !.labels = l] :
     p \in {<<>>, "nirs4all" :> "", "nirs4all" :> ">=2", "torch" :> ">=2"},
     m \in {None, 2}, g \in {None, 1}, l \in {{}, {"site=a"}}}

EveryField ==
  {"prediction_arrays.X", "result_metadata.robustness_evidence.predictor_bundle"}

EvidenceCalls ==
  {[Plain EXCEPT !.handoff = [requested |-> r, fields |-> f], !.exportModel = e, !.keepWorkspace = k] :
     r \in BOOLEAN, e \in BOOLEAN, k \in BOOLEAN,
     f \in {EveryField, {}, {"prediction_arrays.X", "prediction_arrays.y"}}}

AlignmentCall ==
  [Plain EXCEPT !.handoff = [requested |-> TRUE, fields |-> {"prediction_arrays.X"}]]

MCCalls == ParamCalls \cup ShapeCalls \cup RequirementCalls \cup EvidenceCalls \cup {AlignmentCall}

MCWorkersSeen ==
  {[labels |-> {"site=a"}, memory |-> 1, gpus |-> 1, allowPython |-> TRUE,
    versions |-> "nirs4all" :> "2"],
   [labels |-> {"site=a"}, memory |-> None, gpus |-> None, allowPython |-> FALSE,
    versions |-> "nirs4all" :> "odd" @@ "torch" :> "2"],
   [labels |-> {"site=a"}, memory |-> None, gpus |-> 1, allowPython |-> FALSE,
    versions |-> "torch" :> "2"]}

MCAdmits == ">=2" :> {"2"}

-----------------------------------------------------------------------------
(* Results                                                                 *)

Keys == {"sample_id", "unit_id"}
Entry(key, values) == [key |-> key, values |-> values]

Column(key, kinds) ==
  CASE kinds = "none"    -> {}
    [] kinds = "unlike"  -> {Entry(key, <<a, b>>), Entry(key, <<b, a>>)}
    [] kinds = "twice"   -> {Entry(key, <<a, a>>)}
    [] kinds = "in order" -> {Entry(key, <<a, b>>)}
    [] OTHER             -> {Entry(key, <<b, a>>)}

Data(columns) == [size |-> 2, loads |-> TRUE, columns |-> columns]

AlignmentData ==
  {Data(Column("sample_id", s) \cup Column("unit_id", u)) :
     s \in {"none", "unlike", "twice", "in order"}, u \in {"none", "in order", "reversed"}}

Aligned ==
  [count |-> 2, truth |-> <<1, 2>>, indices |-> Absent, entries |-> {}, fold |-> "0",
   weights |-> Absent, entryUnique |-> TRUE, known |-> TRUE, ofFinal |-> TRUE, replays |-> TRUE,
   loads |-> TRUE, stale |-> FALSE]

Entries ==
  {Entry(key, values) : key \in Keys, values \in {<<a>>, <<a, b>>, <<b, a>>, <<a, a>>, <<Blank, b>>}}

AlignmentPredictions ==
  {[Aligned EXCEPT !.truth = t, !.count = Len(t), !.indices = i, !.entries = {e, f}] :
     t \in {<<1>>, <<1, 2>>, <<2, 1>>}, i \in {Absent, <<1>>, <<1, 2>>, <<1, 1>>, <<1, 3>>},
     e \in Entries, f \in Entries}
    \cup {[Aligned EXCEPT !.truth = t, !.count = Len(t), !.indices = i] :
            t \in {<<2>>, <<1, 2>>, <<2, 1>>}, i \in {Absent, <<2>>, <<2, 1>>}}

RunOf(predictions) ==
  [native |-> FALSE, model |-> TRUE, captured |-> {"0", "1"}, saves |-> TRUE,
   predictions |-> predictions]

BundlePredictions ==
  {Aligned, [Aligned EXCEPT !.fold = "1"], [Aligned EXCEPT !.fold = "odd"],
   [Aligned EXCEPT !.fold = "avg"], [Aligned EXCEPT !.fold = "final"],
   [Aligned EXCEPT !.fold = "w_avg", !.weights = {"0", "1"}],
   [Aligned EXCEPT !.entryUnique = FALSE], [Aligned EXCEPT !.known = FALSE, !.stale = TRUE],
   [Aligned EXCEPT !.fold = "final", !.ofFinal = FALSE],
   [Aligned EXCEPT !.replays = FALSE], [Aligned EXCEPT !.loads = FALSE, !.stale = TRUE]}

BundleRuns ==
  {[RunOf(ps) EXCEPT !.native = n, !.model = m, !.captured = c] :
     ps \in {<<>>, <<Aligned>>} \cup {<<p, Aligned>> : p \in BundlePredictions},
     n \in BOOLEAN, m \in BOOLEAN, c \in {{"0"}, {"0", "1"}, {"final", "all"}}}
    \cup {[RunOf(<<p>>) EXCEPT !.saves = FALSE] : p \in BundlePredictions}

With(run_, data_) == [run |-> run_, data |-> data_]

AlignmentResults == {With(RunOf(<<p>>), d) : p \in AlignmentPredictions, d \in AlignmentData}

BundleResults ==
  {With(r, Data({})) : r \in BundleRuns}
    \cup {With(RunOf(<<Aligned>>), [Data({}) EXCEPT !.loads = FALSE])}

PlainResults == {With(RunOf(<<>>), Data({}))}

MCResults(q) ==
  IF q.handoff = None THEN PlainResults
  ELSE IF q.handoff.fields = {"prediction_arrays.X"} THEN AlignmentResults ELSE BundleResults
=============================================================================
