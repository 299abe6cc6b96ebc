-------------------------- MODULE TaskPathProofs --------------------------
(***************************************************************************)
(* TaskPath: what runs is what was asked for, evidence is aligned and a    *)
(* trace is honest, for any calls, workers and results, and for datasets   *)
(* and runs of any size.                                                   *)
(***************************************************************************)
EXTENDS TaskPath, FiniteSetTheorems, SequenceTheorems, TLAPS

USE NamesAssumption, PathAssumption

-----------------------------------------------------------------------------
(* The adapter                                                             *)

\* The ways to ask for parallel jobs that a call uses.
Asked(c) == {c.nJobs, c.inner, c.paramsNJobs, c.paramsInner} \ {None}

\* A value that is chosen is positive, is the only one so far, and no earlier
\* conflict is forgotten (client.py, _choose_inner_n_jobs).
LEMMA ChooseKeeps ==
  ASSUME NEW current \in Int \cup {None, Conflict}, NEW candidate \in Int \cup {None},
         Choose(current, candidate) # Conflict
  PROVE  /\ current # Conflict
         /\ Choose(current, candidate) \in Int \cup {None}
         /\ candidate = None => Choose(current, candidate) = current
         /\ candidate # None => /\ Choose(current, candidate) = candidate
                                /\ candidate >= 1
                                /\ current \in {None, candidate}
BY DEF Choose

LEMMA ChooseType ==
  ASSUME NEW current \in Int \cup {None, Conflict}, NEW candidate \in Int \cup {None}
  PROVE  Choose(current, candidate) \in Int \cup {None, Conflict}
BY DEF Choose

\* The adapter translates every way to ask for parallel jobs, to a value that was
\* given, and never settles for one of two (client.py, _normalize_run_params).
LEMMA InnerJobsAreAsked ==
  ASSUME NEW c \in Calls, InnerJobs(c) # Conflict
  PROVE  /\ InnerJobs(c) \in Int \cup {None}
         /\ InnerJobs(c) # None => InnerJobs(c) \in Asked(c) /\ InnerJobs(c) >= 1
         /\ Asked(c) \subseteq {InnerJobs(c)}
<1> DEFINE first  == Choose(c.inner, c.nJobs)
           second == Choose(first, c.paramsNJobs)
           third  == Choose(second, c.paramsInner)
<1>1. {c.nJobs, c.inner, c.paramsNJobs, c.paramsInner} \subseteq Int \cup {None}
  BY DEF IsCall
<1>2. first \in Int \cup {None, Conflict}
  BY <1>1, ChooseType
<1>3. second \in Int \cup {None, Conflict}
  BY <1>1, <1>2, ChooseType
<1>4. third \in Int \cup {None, Conflict}
  BY <1>1, <1>3, ChooseType
<1>5. third # Conflict /\ InnerJobs(c) = third /\ (third # None => third >= 1)
  BY <1>4 DEF InnerJobs
<1>6. /\ second # Conflict /\ third \in Int \cup {None}
      /\ c.paramsInner = None => third = second
      /\ c.paramsInner # None => third = c.paramsInner /\ second \in {None, c.paramsInner}
  <2> HIDE DEF second
  <2> QED BY <1>1, <1>3, <1>5, ChooseKeeps
<1>7. /\ first # Conflict
      /\ c.paramsNJobs = None => second = first
      /\ c.paramsNJobs # None => second = c.paramsNJobs /\ first \in {None, c.paramsNJobs}
  <2> HIDE DEF first
  <2> QED BY <1>1, <1>2, <1>6, ChooseKeeps
<1>8. /\ c.nJobs = None => first = c.inner
      /\ c.nJobs # None => first = c.nJobs /\ c.inner \in {None, c.nJobs}
  BY <1>1, <1>7, ChooseKeeps
<1> HIDE DEF first, second, third
<1> QED BY <1>1, <1>5, <1>6, <1>7, <1>8 DEF Asked

\* What the adapter leaves of a call as it is.
LEMMA PreparedKeeps ==
  ASSUME NEW c \in Calls
  PROVE  /\ Prepared(c).packages = c.packages
         /\ ~c.raw => Prepared(c).paramsInner = InnerJobs(c)
         /\ Prepared(c).pipelines = c.pipelines /\ Prepared(c).datasets = c.datasets
         /\ Prepared(c).handoff = c.handoff
BY DEF IsCall, Prepared, FromAdapter

-----------------------------------------------------------------------------
(* The server                                                              *)

\* What \div and % do to the index of a task (db.py, _insert_tasks).
LEMMA DivisionOfIndex ==
  ASSUME NEW m \in Nat, NEW n \in Nat \ {0}, NEW k \in 0..(m * n - 1)
  PROVE  k \div n \in 0..(m - 1) /\ k % n \in 0..(n - 1)
<1>1. /\ k = n * (k \div n) + (k % n)
      /\ k \div n \in Int /\ k % n \in 0..(n - 1)
  OBVIOUS
<1> DEFINE d == k \div n
<1>2. d >= 0
  OBVIOUS
<1>3. d < m
  <2>1. SUFFICES ASSUME d >= m PROVE FALSE
    BY <1>1
  <2>2. n * d >= n * m
    <3> DEFINE e == d - m
    <3>1. e \in Nat /\ d = m + e
      BY <1>1, <2>1
    <3> HIDE DEF d, e
    <3>2. n * (m + e) = n * m + n * e /\ n * e >= 0
      BY <3>1
    <3> QED BY <3>1, <3>2
  <2>3. k >= n * m
    BY <1>1, <2>2
  <2> QED BY <2>3
<1> QED BY <1>1, <1>2, <1>3

\* Each task of a job has a pipeline and a dataset of its request.
LEMMA TasksAreOfTheRequest ==
  ASSUME NEW c \in Calls, NEW k \in DOMAIN Expand(Prepared(c))
  PROVE  /\ Expand(Prepared(c))[k].pipeline \in ToSet(PipelineList(Prepared(c)))
         /\ Expand(Prepared(c))[k].dataset \in ToSet(DatasetList(Prepared(c)))
<1> DEFINE q == Prepared(c)
           ps == PipelineList(q)
           ds == DatasetList(q)
<1>1. Len(ps) \in Nat /\ DOMAIN ps = 1..Len(ps) /\ Len(ds) \in Nat /\ DOMAIN ds = 1..Len(ds)
  <2>1. q.pipelines # None => q.pipelines \in Seq(ToSet(q.pipelines))
    BY PreparedKeeps DEF IsCall, IsList
  <2>2. q.datasets # None => q.datasets \in Seq(ToSet(q.datasets))
    BY PreparedKeeps DEF IsCall, IsList
  <2> HIDE DEF q
  <2>3. /\ q.pipelines # None => Len(ps) \in Nat /\ DOMAIN ps = 1..Len(ps)
        /\ q.datasets # None => Len(ds) \in Nat /\ DOMAIN ds = 1..Len(ds)
    BY <2>1, <2>2, LenProperties DEF PipelineList, DatasetList
  <2>4. \A x : Len(<<x>>) \in Nat /\ DOMAIN <<x>> = 1..Len(<<x>>)
    OBVIOUS
  <2>5. /\ q.pipelines = None => ps = <<q.pipeline>>
        /\ q.datasets = None => ds = <<q.dataset>>
    BY DEF PipelineList, DatasetList
  <2> HIDE DEF ps, ds
  <2> QED BY <2>3, <2>4, <2>5
<1> HIDE DEF q, ps, ds
<1>2. Expand(q) = [i \in 1..(Len(ps) * Len(ds)) |->
                     [pipeline |-> ps[((i - 1) \div Len(ds)) + 1],
                      dataset  |-> ds[((i - 1) % Len(ds)) + 1]]]
  BY DEF Expand, ps, ds
<1>3. k \in 1..(Len(ps) * Len(ds))
  BY <1>2 DEF q
<1>4. Len(ds) # 0
  <2>1. Len(ds) = 0 => Len(ps) * Len(ds) = 0
    BY <1>1
  <2> QED BY <1>1, <1>3, <2>1
<1>5. k - 1 \in 0..(Len(ps) * Len(ds) - 1)
  <2>1. Len(ps) * Len(ds) \in Nat
    BY <1>1
  <2> QED BY <1>3, <2>1
<1>6. /\ (k - 1) \div Len(ds) \in 0..(Len(ps) - 1)
      /\ (k - 1) % Len(ds) \in 0..(Len(ds) - 1)
  BY <1>1, <1>4, <1>5, DivisionOfIndex
<1>7. /\ ((k - 1) \div Len(ds)) + 1 \in DOMAIN ps
      /\ ((k - 1) % Len(ds)) + 1 \in DOMAIN ds
  BY <1>1, <1>6
<1>8. /\ Expand(q)[k].pipeline = ps[((k - 1) \div Len(ds)) + 1]
      /\ Expand(q)[k].dataset = ds[((k - 1) % Len(ds)) + 1]
  BY <1>2, <1>3
<1> QED BY <1>7, <1>8 DEF ToSet, q, ps, ds

\* What comes of the two references of a task (worker/materialize.py).
LEMMA MaterializedOrFailed ==
  ASSUME NEW t
  PROVE  /\ Materialize(t).fails \in {None, FailsOnce, FailsForGood}
         /\ Materialize(t).fails = None =>
              /\ Materialize(t).pipeline \in {"path", "entrypoint"}
              /\ Materialize(t).dataset \in {"path", "path_in_folder"}
              /\ t.pipeline.kind = "python_entrypoint" => Materialize(t).pipeline = "entrypoint"
<1>1. MaterializePipeline(t.pipeline) \in {"path", "entrypoint", FailsOnce, FailsForGood}
  BY DEF MaterializePipeline
<1>2. MaterializeDataset(t.dataset) \in {"path", "path_in_folder", FailsOnce, FailsForGood}
  BY DEF MaterializeDataset
<1>3. /\ t.pipeline.kind = "python_entrypoint"
      /\ MaterializePipeline(t.pipeline) \notin {FailsOnce, FailsForGood}
      => MaterializePipeline(t.pipeline) = "entrypoint"
  BY DEF MaterializePipeline
<1> QED BY <1>1, <1>2, <1>3 DEF Materialize

-----------------------------------------------------------------------------
(* Alignment                                                               *)

LEMMA OnlyElement ==
  ASSUME NEW S, IsFiniteSet(S), Cardinality(S) <= 1, NEW x \in S, NEW y \in S
  PROVE  x = y
<1>1. Cardinality(S) \in Nat /\ Cardinality(S) # 0
  BY FS_CardinalityType, FS_EmptySet
<1>2. Cardinality(S) = 1
  BY <1>1
<1>3. PICK z : S = {z}
  BY <1>2, FS_Singleton
<1> QED BY <1>3

LEMMA FiniteImage ==
  ASSUME NEW S, IsFiniteSet(S), NEW f, DOMAIN f = S, f = [x \in S |-> f[x]]
  PROVE  IsFiniteSet({f[x] : x \in S})
<1> DEFINE T == {f[x] : x \in S}
<1>1. f \in [S -> T]
  OBVIOUS
<1>2. f \in Surjection(S, T)
  BY <1>1 DEF Surjection
<1> QED BY <1>2, FS_Surjection

LEMMA ColumnsAreFinite ==
  ASSUME NEW entries, IsFiniteSet(entries), NEW key
  PROVE  IsFiniteSet(ColumnsOf(entries, key))
<1> DEFINE f == [e \in {g \in entries : g.key = key} |-> e.values]
<1>1. IsFiniteSet({g \in entries : g.key = key})
  BY FS_Subset
<1>2. IsFiniteSet({f[e] : e \in {g \in entries : g.key = key}})
  <2> DEFINE S == {g \in entries : g.key = key}
  <2>1. DOMAIN f = S /\ f = [e \in S |-> f[e]]
    OBVIOUS
  <2> HIDE DEF f, S
  <2> QED BY <1>1, <2>1, FiniteImage DEF S
<1>3. ColumnsOf(entries, key) = {f[e] : e \in {g \in entries : g.key = key}}
  BY DEF ColumnsOf
<1> QED BY <1>2, <1>3

\* A dataset as the runner reloads it.
IsData(d) ==
  d.size \in Nat /\ IsFiniteSet(d.columns) /\ \A e \in d.columns : IsList(e.values)

\* The values of a column of a prediction are those of its rows.
TrueColumn(e, p, d) ==
  /\ Cardinality(ColumnsOf(d.columns, e.key)) = 1
  /\ \E c \in ColumnsOf(d.columns, e.key) : e.values = [i \in DOMAIN p.truth |-> c[p.truth[i]]]

\* A column that is true and unique gives the true rows or none
\* (nirs4all_run.py, _prediction_identity_positions).
LEMMA TrueColumnGivesTruth ==
  ASSUME NEW d, IsData(d), NEW p, IsPrediction(p, d), EntriesAgree(p),
         NEW e \in p.entries, TrueColumn(e, p, d)
  PROVE  PositionsBy(e.key, p, d) \in {NoRows, p.truth}
<1> DEFINE columns == ColumnsOf(d.columns, e.key)
           column == CHOOSE c \in columns : TRUE
           mine == ColumnsOf(p.entries, e.key)
           values == CHOOSE v \in mine : TRUE
<1>1. IsFiniteSet(columns) /\ IsFiniteSet(mine)
  BY ColumnsAreFinite DEF IsData, IsPrediction
<1>2. PICK c \in columns : e.values = [i \in DOMAIN p.truth |-> c[p.truth[i]]]
  BY DEF TrueColumn
<1>3. column = c
  <2>1. column \in columns
    BY <1>2
  <2>2. Cardinality(columns) <= 1
    BY DEF TrueColumn
  <2> HIDE DEF column, columns
  <2> QED BY <1>1, <1>2, <2>1, <2>2, OnlyElement
<1>4. values = e.values
  <2>1. e.values \in mine
    BY DEF ColumnsOf
  <2>2. values \in mine
    BY <2>1
  <2>3. Cardinality(mine) <= 1
    BY DEF EntriesAgree, IsPrediction
  <2> HIDE DEF values, mine
  <2> QED BY <1>1, <2>1, <2>2, <2>3, OnlyElement
<1>5. c \in Seq(ToSet(c))
  BY <1>2 DEF ColumnsOf, IsData, IsList
<1>6. p.truth \in Seq(1..d.size)
  BY DEF IsPrediction
<1> HIDE DEF columns, column, mine, values
<1>7. CASE Unique(c, d.size)
  <2>1. DOMAIN c = 1..d.size /\ IsInjective(c)
    BY <1>5, <1>7, LenProperties DEF Unique
  <2>2. \A i \in DOMAIN p.truth : p.truth[i] \in DOMAIN c
    BY <1>6, <2>1, ElementOfSeq, LenProperties
  <2>3. DOMAIN e.values = DOMAIN p.truth
    BY <1>2
  <2>4. ASSUME NEW i \in DOMAIN p.truth
        PROVE  (CHOOSE r \in DOMAIN c : c[r] = e.values[i]) = p.truth[i]
    <3>1. e.values[i] = c[p.truth[i]]
      BY <1>2
    <3>2. \A r \in DOMAIN c : c[r] = e.values[i] => r = p.truth[i]
      BY <2>1, <2>2, <3>1 DEF IsInjective
    <3> QED BY <2>2, <3>1, <3>2
  <2>5. PositionsOf(e.values, c) = [i \in DOMAIN p.truth |-> p.truth[i]]
    BY <2>3, <2>4 DEF PositionsOf
  <2>6. p.truth = [i \in DOMAIN p.truth |-> p.truth[i]]
    BY <1>6
  <2>7. PositionsBy(e.key, p, d) \in {NoRows, PositionsOf(values, column)}
    BY DEF PositionsBy, columns, column, mine, values
  <2> QED BY <1>3, <1>4, <2>5, <2>6, <2>7
<1>8. CASE ~Unique(c, d.size)
  <2>1. ~Unique(column, d.size)
    BY <1>3, <1>8
  <2> QED BY <2>1 DEF PositionsBy, columns, column, mine, values
<1> QED BY <1>7, <1>8

\* The prediction says one true thing about its rows, or nothing at all about
\* rows that are those of the dataset, in order.
SaysTruth(p, d) ==
  \/ p.indices = p.truth
  \/ \E e \in p.entries : TrueColumn(e, p, d)
  \/ p.indices = Absent /\ p.entries = {} /\ p.truth = [r \in 1..d.size |-> r]

\* If some key of a prediction has a true column, the keys together give the true
\* rows or none: they must all agree with it.
LEMMA IdentityGivesTruth ==
  ASSUME NEW d, IsData(d), NEW p, IsPrediction(p, d), EntriesAgree(p),
         NEW e \in p.entries, TrueColumn(e, p, d)
  PROVE  Comparable(p, d) # {} /\ IdentityPositions(p, d) \in {NoRows, p.truth}
<1> DEFINE f == [key \in Comparable(p, d) |-> PositionsBy(key, p, d)]
           found == {f[key] : key \in Comparable(p, d)}
<1>1. e.key \in Comparable(p, d)
  BY DEF Comparable, ColumnsOf, IsPrediction, TrueColumn
<1>2. IsFiniteSet(found)
  <2>1. IsFiniteSet(Comparable(p, d))
    BY FS_Subset DEF Comparable
  <2>2. DOMAIN f = Comparable(p, d) /\ f = [key \in Comparable(p, d) |-> f[key]]
    OBVIOUS
  <2> HIDE DEF f
  <2> QED BY <2>1, <2>2, FiniteImage
<1>3. f[e.key] \in {NoRows, p.truth} /\ f[e.key] \in found
  BY <1>1, TrueColumnGivesTruth
<1>4. IdentityPositions(p, d)
        = IF Cardinality(found) = 1 THEN CHOOSE x \in found : TRUE ELSE NoRows
  <2>1. found = {PositionsBy(key, p, d) : key \in Comparable(p, d)}
    OBVIOUS
  <2> HIDE DEF f, found
  <2> QED BY <2>1 DEF IdentityPositions
<1> HIDE DEF f, found
<1>5. CASE Cardinality(found) = 1
  <2>1. (CHOOSE x \in found : TRUE) \in found
    BY <1>3
  <2>2. (CHOOSE x \in found : TRUE) = f[e.key]
    BY <1>2, <1>3, <1>5, <2>1, OnlyElement
  <2> QED BY <1>1, <1>3, <1>4, <1>5, <2>2
<1> QED BY <1>1, <1>4, <1>5

\* Whatever else a prediction says that says one true thing, and however false,
\* it can only prevent the alignment (nirs4all_run.py, _select_prediction_X).
LEMMA SelectedRowsAreTrue ==
  ASSUME NEW d, IsData(d), NEW p, IsPrediction(p, d), SaysTruth(p, d),
         SelectRows(p, d) # NoRows
  PROVE  SelectRows(p, d) = p.truth
<1> DEFINE rows == IdentityPositions(p, d)
           byIdentity == Comparable(p, d) # {}
<1>1. EntriesAgree(p) /\ (byIdentity => rows # NoRows)
  BY DEF SelectRows
<1>2. \/ p.indices # Absent /\ (byIdentity => rows = p.indices) /\ SelectRows(p, d) = p.indices
      \/ p.indices = Absent /\ byIdentity /\ SelectRows(p, d) = rows
      \/ p.indices = Absent /\ ~byIdentity /\ p.entries = {}
           /\ SelectRows(p, d) = [i \in 1..d.size |-> i]
  BY DEF SelectRows
<1>3. CASE p.indices = p.truth
  BY <1>2, <1>3 DEF IsPrediction
<1>4. CASE \E e \in p.entries : TrueColumn(e, p, d)
  <2>1. byIdentity /\ rows \in {NoRows, p.truth}
    BY <1>1, <1>4, IdentityGivesTruth
  <2> HIDE DEF rows, byIdentity
  <2> QED BY <1>1, <1>2, <2>1
<1>5. CASE p.indices = Absent /\ p.entries = {} /\ p.truth = [r \in 1..d.size |-> r]
  <2>1. ~byIdentity
    BY <1>5 DEF Comparable, ColumnsOf
  <2> QED BY <1>2, <1>5, <2>1
<1> QED BY <1>3, <1>4, <1>5 DEF SaysTruth

-----------------------------------------------------------------------------
(* Publication                                                             *)

\* A row of the store has rows only if that prediction was aligned and loaded.
LEMMA PublishedRowsAreSelected ==
  ASSUME NEW r, NEW d, NEW i \in DOMAIN r.predictions,
         Publish(r, d).store[i].rows # NoRows
  PROVE  Publish(r, d).store[i].rows = SelectRows(r.predictions[i], d)
<1> DEFINE ps == r.predictions
           outcomes == [j \in DOMAIN ps |-> Outcome(ps[j], r, d)]
           saved == {j \in DOMAIN ps : outcomes[j].rows # NoRows}
           before == [j \in DOMAIN ps |-> [rows |-> NoRows, bundle |-> ps[j].stale]]
           after == [j \in DOMAIN ps |->
                       IF j \in saved
                       THEN [rows |-> outcomes[j].rows, bundle |-> outcomes[j].missing = {}]
                       ELSE before[j]]
<1>1. Publish(r, d).store \in {before, after}
  BY DEF Publish
<1>2. before[i].rows = NoRows
  OBVIOUS
<1>3. after[i].rows \in {NoRows, outcomes[i].rows}
  <2>1. after[i] = IF i \in saved
                   THEN [rows |-> outcomes[i].rows, bundle |-> outcomes[i].missing = {}]
                   ELSE before[i]
    OBVIOUS
  <2> HIDE DEF after, before, outcomes
  <2> QED BY <1>2, <2>1
<1>4. outcomes[i].rows \in {NoRows, SelectRows(ps[i], d)}
  BY DEF Outcome
<1> HIDE DEF outcomes, saved, before, after
<1> QED BY <1>1, <1>2, <1>3, <1>4

\* A publication of which no field is missing saved every row, and the bundle of
\* every row if one was asked for (nirs4all_run.py, _robustness_handoff_trace).
LEMMA NothingMissing ==
  ASSUME NEW r, NEW d, NEW fields, fields # {},
         TraceMissing(fields, Publish(r, d).missing) = {}
  PROVE  /\ Publish(r, d).saved # {}
         /\ r.predictions # <<>>
         /\ \A i \in DOMAIN r.predictions :
              /\ Publish(r, d).store[i].rows # NoRows
              /\ "bundle" \in {FieldPart(f) : f \in fields} =>
                   Publish(r, d).store[i].bundle /\ BundleMade(r.predictions[i], r)
<1> DEFINE ps == r.predictions
           outcomes == [j \in DOMAIN ps |-> Outcome(ps[j], r, d)]
           saved == {j \in DOMAIN ps : outcomes[j].rows # NoRows}
           before == [j \in DOMAIN ps |-> [rows |-> NoRows, bundle |-> ps[j].stale]]
           after == [j \in DOMAIN ps |->
                       IF j \in saved
                       THEN [rows |-> outcomes[j].rows, bundle |-> outcomes[j].missing = {}]
                       ELSE before[j]]
           missing == Publish(r, d).missing
<1>1. \A f \in fields : /\ FieldPart(f) \in Parts
                        /\ missing # <<>>
                        /\ \A m \in ToSet(missing) : FieldPart(f) \notin m
  BY DEF TraceMissing, PartPublished
<1>2. PICK g \in fields : TRUE
  OBVIOUS
<1>4. \/ missing = <<>>
      \/ missing = [j \in DOMAIN ps |-> Parts]
      \/ /\ missing = [j \in DOMAIN ps |-> outcomes[j].missing]
         /\ Publish(r, d).saved = saved /\ Publish(r, d).store = after
  BY DEF Publish
<1>5. DOMAIN ps # {}
  <2>1. SUFFICES ASSUME DOMAIN ps = {} PROVE FALSE
    OBVIOUS
  <2>2. \/ missing = <<>>
        \/ missing = [j \in {} |-> Parts]
        \/ missing = [j \in {} |-> outcomes[j].missing]
    BY <1>4, <2>1
  <2>3. [j \in {} |-> Parts] = <<>> /\ [j \in {} |-> outcomes[j].missing] = <<>>
    OBVIOUS
  <2> HIDE DEF missing, outcomes
  <2> QED BY <1>1, <1>2, <2>2, <2>3
<1>6. missing # [j \in DOMAIN ps |-> Parts]
  <2>1. SUFFICES ASSUME missing = [j \in DOMAIN ps |-> Parts] PROVE FALSE
    OBVIOUS
  <2> HIDE DEF missing
  <2>2. Parts \in ToSet(missing)
    BY <1>5, <2>1 DEF ToSet
  <2> QED BY <1>1, <1>2, <2>2
<1>7. /\ missing = [j \in DOMAIN ps |-> outcomes[j].missing]
      /\ Publish(r, d).saved = saved /\ Publish(r, d).store = after
  <2> HIDE DEF missing, outcomes, saved, after
  <2> QED BY <1>1, <1>2, <1>4, <1>6
<1>8. ASSUME NEW i \in DOMAIN ps
      PROVE  /\ outcomes[i].rows # NoRows
             /\ "bundle" \in {FieldPart(f) : f \in fields} =>
                  outcomes[i].missing = {} /\ BundleMade(ps[i], r)
  <2>1. outcomes[i].missing \in ToSet(missing)
    BY <1>7, <1>8 DEF ToSet
  <2>2. \A f \in fields : FieldPart(f) \in Parts /\ FieldPart(f) \notin outcomes[i].missing
    BY <1>1, <2>1
  <2>3. /\ outcomes[i].rows = NoRows => outcomes[i].missing = Parts
        /\ outcomes[i].missing \in {Parts, {}, {"bundle"}}
        /\ outcomes[i].missing = {} => BundleMade(ps[i], r)
    BY <1>8 DEF Outcome, Parts
  <2> HIDE DEF outcomes, missing
  <2>4. outcomes[i].rows # NoRows
    BY <1>2, <2>2, <2>3
  <2>5. ASSUME "bundle" \in {FieldPart(f) : f \in fields}
        PROVE  outcomes[i].missing = {} /\ BundleMade(ps[i], r)
    <3>1. "bundle" \notin outcomes[i].missing /\ "bundle" \in Parts
      BY <2>2, <2>5
    <3> QED BY <2>3, <3>1
  <2> QED BY <2>4, <2>5
<1>9. ASSUME NEW i \in DOMAIN ps
      PROVE  /\ after[i].rows = outcomes[i].rows
             /\ after[i].bundle = (outcomes[i].missing = {})
             /\ i \in saved
  <2>1. i \in saved
    BY <1>8, <1>9
  <2>2. after[i] = [rows |-> outcomes[i].rows, bundle |-> outcomes[i].missing = {}]
    BY <1>9, <2>1
  <2> HIDE DEF after, outcomes, saved
  <2> QED BY <2>1, <2>2
<1>10. saved # {}
  BY <1>5, <1>9
<1>11. ps # <<>>
  BY <1>5
<1>12. Publish(r, d).saved = saved /\ Publish(r, d).store = after
  BY <1>7
<1> HIDE DEF outcomes, saved, before, after, missing
<1> QED BY <1>8, <1>9, <1>10, <1>11, <1>12

-----------------------------------------------------------------------------
(* The inductive invariant                                                 *)

\* What is stored was let through.
RequestIsPrepared ==
  stage \notin {"call", "refused"} =>
    /\ call \in Calls /\ request = Prepared(call) /\ ValidRequest(request)
    /\ ~call.raw => InnerJobs(call) # Conflict

TaskIsOfRequest ==
  stage \notin {"call", "refused", "sent"} =>
    /\ task.pipeline \in ToSet(PipelineList(request))
    /\ HasPython(request) => AllowPython

WorkerFits == stage \in {"leased", "runner"} => RequirementsMatch(request, worker)

SpecIsOfTask == stage \in {"runner", "ran"} => spec = Materialize(task) /\ spec.fails = None

\* Nothing is known of a run before it, and nothing is published before the export.
RunComesFirst ==
  /\ stage \in {"call", "refused", "sent", "queued", "leased", "runner"} => run = None
  /\ stage \notin {"written", "uploaded", "succeeded", FailsOnce} =>
       published = None /\ trace = None

RunIsAResult == \E r \in Results(request) : run = r.run /\ data = r.data

ResultIsKept ==
  /\ model \in BOOLEAN
  /\ stage \in {"ran", "exported"} => RunIsAResult
  /\ published # None =>
       RunIsAResult /\ \E m \in BOOLEAN : published = Publish([run EXCEPT !.model = m], data)

TraceIsOfPublication ==
  trace # None =>
    /\ Handoff # None /\ published # None
    /\ trace = [missing  |-> TraceMissing(Handoff.fields, published.missing),
                required |-> published.saved # {}]

StoredIsDelivered ==
  stored /\ trace # None /\ trace.required => "workspace" \in uploads

PathInv ==
  /\ PathTypeOK /\ RequestIsPrepared /\ TaskIsOfRequest /\ WorkerFits /\ SpecIsOfTask
  /\ RunComesFirst /\ RunIsWhatWasAsked /\ ResultIsKept /\ TraceIsOfPublication
  /\ StoredIsDelivered

LEMMA PathInitOK == PathInit => PathInv
BY DEF PathInit, PathInv, PathTypeOK, RequestIsPrepared, TaskIsOfRequest, WorkerFits,
       SpecIsOfTask, RunComesFirst, RunIsWhatWasAsked, ResultIsKept, TraceIsOfPublication,
       StoredIsDelivered, Stages, FailsOnce, FailsForGood

\* The request is made once.
LEMMA RequestKept == PathInv /\ [PathNext]_pathVars => RequestIsPrepared'
<1> SUFFICES ASSUME PathInv, [PathNext]_pathVars PROVE RequestIsPrepared'
  OBVIOUS
<1> USE DEF PathInv, RequestIsPrepared, Goto, FailsOnce, FailsForGood
<1>1. CASE \E c \in Calls : Call(c)
  BY <1>1 DEF Call, AdapterRefuses, Prepared
<1>2. CASE Accept
  BY <1>2 DEF Accept
<1>3. CASE \E w \in WorkersSeen : Lease(w)
  BY <1>3 DEF Lease
<1>4. CASE Prepare
  BY <1>4 DEF Prepare
<1>5. CASE RunnerFails
  BY <1>5 DEF RunnerFails
<1>6. CASE RunLibrary
  BY <1>6 DEF RunLibrary
<1>7. CASE ExportModel
  BY <1>7 DEF ExportModel
<1>8. CASE PublishEvidence
  BY <1>8 DEF PublishEvidence
<1>9. CASE Upload
  BY <1>9 DEF Upload
<1>10. CASE Report
  BY <1>10 DEF Report
<1>11. CASE UNCHANGED pathVars
  BY <1>11 DEF pathVars
<1> QED BY <1>1, <1>2, <1>3, <1>4, <1>5, <1>6, <1>7, <1>8, <1>9, <1>10, <1>11 DEF PathNext, RunnerStep

\* The task is one of the request, and Python code is let through by the server only.
LEMMA TaskKept == PathInv /\ [PathNext]_pathVars => TaskIsOfRequest'
<1> SUFFICES ASSUME PathInv, [PathNext]_pathVars PROVE TaskIsOfRequest'
  OBVIOUS
<1> USE DEF PathInv, TaskIsOfRequest, RequestIsPrepared, Goto, FailsOnce, FailsForGood
<1>1. CASE \E c \in Calls : Call(c)
  BY <1>1 DEF Call
<1>2. CASE Accept
  BY <1>2, TasksAreOfTheRequest DEF Accept
<1>3. CASE \E w \in WorkersSeen : Lease(w)
  BY <1>3 DEF Lease
<1>4. CASE Prepare
  BY <1>4 DEF Prepare
<1>5. CASE RunnerFails
  BY <1>5 DEF RunnerFails
<1>6. CASE RunLibrary
  BY <1>6 DEF RunLibrary
<1>7. CASE ExportModel
  BY <1>7 DEF ExportModel
<1>8. CASE PublishEvidence
  BY <1>8 DEF PublishEvidence
<1>9. CASE Upload
  BY <1>9 DEF Upload
<1>10. CASE Report
  BY <1>10 DEF Report
<1>11. CASE UNCHANGED pathVars
  BY <1>11 DEF pathVars
<1> QED BY <1>1, <1>2, <1>3, <1>4, <1>5, <1>6, <1>7, <1>8, <1>9, <1>10, <1>11 DEF PathNext, RunnerStep

\* A leased task has a worker that fits.
LEMMA WorkerKept == PathInv /\ [PathNext]_pathVars => WorkerFits'
<1> SUFFICES ASSUME PathInv, [PathNext]_pathVars PROVE WorkerFits'
  OBVIOUS
<1> USE DEF PathInv, WorkerFits, Goto, FailsOnce, FailsForGood
<1>1. CASE \E c \in Calls : Call(c)
  BY <1>1 DEF Call
<1>2. CASE Accept
  BY <1>2 DEF Accept
<1>3. CASE \E w \in WorkersSeen : Lease(w)
  BY <1>3 DEF Lease
<1>4. CASE Prepare
  BY <1>4 DEF Prepare
<1>5. CASE RunnerFails
  BY <1>5 DEF RunnerFails
<1>6. CASE RunLibrary
  BY <1>6 DEF RunLibrary
<1>7. CASE ExportModel
  BY <1>7 DEF ExportModel
<1>8. CASE PublishEvidence
  BY <1>8 DEF PublishEvidence
<1>9. CASE Upload
  BY <1>9 DEF Upload
<1>10. CASE Report
  BY <1>10 DEF Report
<1>11. CASE UNCHANGED pathVars
  BY <1>11 DEF pathVars
<1> QED BY <1>1, <1>2, <1>3, <1>4, <1>5, <1>6, <1>7, <1>8, <1>9, <1>10, <1>11 DEF PathNext, RunnerStep

\* task.json is what was materialized.
LEMMA SpecKept == PathInv /\ [PathNext]_pathVars => SpecIsOfTask'
<1> SUFFICES ASSUME PathInv, [PathNext]_pathVars PROVE SpecIsOfTask'
  OBVIOUS
<1> USE DEF PathInv, SpecIsOfTask, Goto, FailsOnce, FailsForGood
<1>1. CASE \E c \in Calls : Call(c)
  BY <1>1 DEF Call
<1>2. CASE Accept
  BY <1>2 DEF Accept
<1>3. CASE \E w \in WorkersSeen : Lease(w)
  BY <1>3 DEF Lease
<1>4. CASE Prepare
  <2>1. Materialize(task).fails \in {None, FailsOnce, FailsForGood}
    BY MaterializedOrFailed
  <2> QED BY <1>4, <2>1 DEF Prepare
<1>5. CASE RunnerFails
  BY <1>5 DEF RunnerFails
<1>6. CASE RunLibrary
  BY <1>6 DEF RunLibrary
<1>7. CASE ExportModel
  BY <1>7 DEF ExportModel
<1>8. CASE PublishEvidence
  BY <1>8 DEF PublishEvidence
<1>9. CASE Upload
  BY <1>9 DEF Upload
<1>10. CASE Report
  BY <1>10 DEF Report
<1>11. CASE UNCHANGED pathVars
  BY <1>11 DEF pathVars
<1> QED BY <1>1, <1>2, <1>3, <1>4, <1>5, <1>6, <1>7, <1>8, <1>9, <1>10, <1>11 DEF PathNext, RunnerStep

\* The stages come in their order.
LEMMA OrderKept == PathInv /\ [PathNext]_pathVars => RunComesFirst'
<1> SUFFICES ASSUME PathInv, [PathNext]_pathVars PROVE RunComesFirst'
  OBVIOUS
<1> USE DEF PathInv, RunComesFirst, Goto, FailsOnce, FailsForGood
<1>1. CASE \E c \in Calls : Call(c)
  BY <1>1 DEF Call
<1>2. CASE Accept
  BY <1>2 DEF Accept
<1>3. CASE \E w \in WorkersSeen : Lease(w)
  BY <1>3 DEF Lease
<1>4. CASE Prepare
  <2>1. stage = "leased" /\ stage' \in {"runner", FailsOnce, FailsForGood}
    BY <1>4, MaterializedOrFailed DEF Prepare
  <2>2. UNCHANGED <<run, published, trace>>
    BY <1>4 DEF Prepare
  <2> QED BY <2>1, <2>2
<1>5. CASE RunnerFails
  BY <1>5 DEF RunnerFails
<1>6. CASE RunLibrary
  BY <1>6 DEF RunLibrary
<1>7. CASE ExportModel
  BY <1>7 DEF ExportModel
<1>8. CASE PublishEvidence
  BY <1>8 DEF PublishEvidence
<1>9. CASE Upload
  BY <1>9 DEF Upload
<1>10. CASE Report
  BY <1>10 DEF Report
<1>11. CASE UNCHANGED pathVars
  BY <1>11 DEF pathVars
<1> QED BY <1>1, <1>2, <1>3, <1>4, <1>5, <1>6, <1>7, <1>8, <1>9, <1>10, <1>11 DEF PathNext, RunnerStep

\* The run and the dataset are a result of the library for the request, and what is
\* published was made of them.
LEMMA ResultKept == PathInv /\ [PathNext]_pathVars => ResultIsKept'
<1> SUFFICES ASSUME PathInv, [PathNext]_pathVars PROVE ResultIsKept'
  OBVIOUS
<1> USE DEF PathInv, ResultIsKept, RunIsAResult, RunComesFirst, Goto, FailsOnce, FailsForGood
<1>1. CASE \E c \in Calls : Call(c)
  BY <1>1 DEF Call
<1>2. CASE Accept
  BY <1>2 DEF Accept
<1>3. CASE \E w \in WorkersSeen : Lease(w)
  BY <1>3 DEF Lease
<1>4. CASE Prepare
  BY <1>4, MaterializedOrFailed DEF Prepare
<1>5. CASE RunnerFails
  BY <1>5 DEF RunnerFails
<1>6. CASE RunLibrary
  BY <1>6 DEF RunLibrary
<1>7. CASE ExportModel
  BY <1>7 DEF ExportModel
<1>8. CASE PublishEvidence
  BY <1>8 DEF PublishEvidence
<1>9. CASE Upload
  BY <1>9 DEF Upload
<1>10. CASE Report
  BY <1>10 DEF Report
<1>11. CASE UNCHANGED pathVars
  BY <1>11 DEF pathVars
<1> QED BY <1>1, <1>2, <1>3, <1>4, <1>5, <1>6, <1>7, <1>8, <1>9, <1>10, <1>11 DEF PathNext, RunnerStep

\* The trace is about what was published, and is made only where it was asked for.
LEMMA TraceKept == PathInv /\ [PathNext]_pathVars => TraceIsOfPublication'
<1> SUFFICES ASSUME PathInv, [PathNext]_pathVars PROVE TraceIsOfPublication'
  OBVIOUS
<1> USE DEF PathInv, TraceIsOfPublication, RunComesFirst, Handoff, Goto, FailsOnce, FailsForGood
<1>1. CASE \E c \in Calls : Call(c)
  BY <1>1 DEF Call
<1>2. CASE Accept
  BY <1>2 DEF Accept
<1>3. CASE \E w \in WorkersSeen : Lease(w)
  BY <1>3 DEF Lease
<1>4. CASE Prepare
  BY <1>4 DEF Prepare
<1>5. CASE RunnerFails
  BY <1>5 DEF RunnerFails
<1>6. CASE RunLibrary
  BY <1>6 DEF RunLibrary
<1>7. CASE ExportModel
  BY <1>7 DEF ExportModel
<1>8. CASE PublishEvidence
  <2>1. CASE Handoff # None /\ Handoff.requested
    <3> DEFINE p == Publish([run EXCEPT !.model = model], data)
    <3>1. p # None
      <4>1. call \in Calls /\ request = Prepared(call)
        BY <1>8 DEF PublishEvidence, RequestIsPrepared
      <4>2. model \in BOOLEAN /\ RunIsAResult
        BY <1>8 DEF PublishEvidence, ResultIsKept
      <4> QED BY <4>1, <4>2 DEF RunIsAResult
    <3>2. /\ published' = p /\ request' = request
          /\ trace' = [missing  |-> TraceMissing(Handoff.fields, p.missing),
                      required |-> p.saved # {}]
      BY <1>8, <2>1 DEF PublishEvidence
    <3> HIDE DEF p
    <3> QED BY <2>1, <3>1, <3>2
  <2>2. CASE ~(Handoff # None /\ Handoff.requested)
    BY <1>8, <2>2 DEF PublishEvidence
  <2> QED BY <2>1, <2>2
<1>9. CASE Upload
  BY <1>9 DEF Upload
<1>10. CASE Report
  BY <1>10 DEF Report
<1>11. CASE UNCHANGED pathVars
  BY <1>11 DEF pathVars
<1> QED BY <1>1, <1>2, <1>3, <1>4, <1>5, <1>6, <1>7, <1>8, <1>9, <1>10, <1>11 DEF PathNext, RunnerStep

\* A result is stored only after its workspace was delivered, where it must be.
LEMMA DeliveryKept == PathInv /\ [PathNext]_pathVars => StoredIsDelivered'
<1> SUFFICES ASSUME PathInv, [PathNext]_pathVars PROVE StoredIsDelivered'
  OBVIOUS
<1> USE DEF PathInv, StoredIsDelivered, RunComesFirst, PathTypeOK, Goto, FailsOnce, FailsForGood
<1>1. CASE \E c \in Calls : Call(c)
  BY <1>1 DEF Call
<1>2. CASE Accept
  BY <1>2 DEF Accept
<1>3. CASE \E w \in WorkersSeen : Lease(w)
  BY <1>3 DEF Lease
<1>4. CASE Prepare
  BY <1>4 DEF Prepare
<1>5. CASE RunnerFails
  BY <1>5 DEF RunnerFails
<1>6. CASE RunLibrary
  BY <1>6 DEF RunLibrary
<1>7. CASE ExportModel
  BY <1>7 DEF ExportModel
<1>8. CASE PublishEvidence
  BY <1>8 DEF PublishEvidence
<1>9. CASE Upload
  BY <1>9 DEF Upload
<1>10. CASE Report
  BY <1>10 DEF Report, EvidenceLost
<1>11. CASE UNCHANGED pathVars
  BY <1>11 DEF pathVars
<1> QED BY <1>1, <1>2, <1>3, <1>4, <1>5, <1>6, <1>7, <1>8, <1>9, <1>10, <1>11 DEF PathNext, RunnerStep

\* What runs is what was asked for, of a request that was prepared and let through,
\* of a task of it, and on a worker that fits.
LEMMA RunIsAsAsked ==
  ASSUME PathInv, RunLibrary
  PROVE  RunIsWhatWasAsked'
<1>1. /\ call \in Calls /\ request = Prepared(call)
      /\ ~call.raw => InnerJobs(call) # Conflict
      /\ task.pipeline \in ToSet(PipelineList(request))
      /\ HasPython(request) => AllowPython
      /\ RequirementsMatch(request, worker)
      /\ spec = Materialize(task) /\ spec.fails = None
  BY DEF RunLibrary, PathInv, RequestIsPrepared, TaskIsOfRequest, WorkerFits, SpecIsOfTask,
         FailsOnce, FailsForGood
<1>2. /\ UNCHANGED <<call, request, task, worker>>
      /\ nJobs' = PassedJobs(request.paramsInner)
      /\ spec.pipeline = "entrypoint" => worker.allowPython
  BY DEF RunLibrary
<1>3. ASSUME ~call.raw
      PROVE  /\ Asked(call) \subseteq {IF nJobs' = None THEN 1 ELSE nJobs'}
             /\ nJobs' # None => nJobs' \in Asked(call) /\ nJobs' > 1
  <2>1. nJobs' = PassedJobs(InnerJobs(call))
    BY <1>1, <1>2, <1>3, PreparedKeeps
  <2>2. /\ InnerJobs(call) \in Int \cup {None}
        /\ InnerJobs(call) # None => InnerJobs(call) \in Asked(call) /\ InnerJobs(call) >= 1
        /\ Asked(call) \subseteq {InnerJobs(call)}
    BY <1>1, <1>3, InnerJobsAreAsked
  <2>3. CASE InnerJobs(call) = None
    <3>1. nJobs' = None /\ Asked(call) = {}
      BY <2>1, <2>2, <2>3 DEF PassedJobs, Asked
    <3> QED BY <3>1
  <2>4. CASE InnerJobs(call) = 1
    <3>1. nJobs' = None
      BY <2>1, <2>4 DEF PassedJobs
    <3> QED BY <2>2, <2>4, <3>1
  <2>5. CASE InnerJobs(call) \notin {None, 1}
    <3>1. nJobs' = InnerJobs(call) /\ InnerJobs(call) > 1
      BY <2>1, <2>2, <2>5 DEF PassedJobs
    <3> QED BY <2>2, <2>5, <3>1
  <2> QED BY <2>3, <2>4, <2>5
<1>4. task.pipeline.kind = "python_entrypoint" => AllowPython /\ worker.allowPython
  <2>1. task.pipeline.kind = "python_entrypoint" => HasPython(request)
    BY <1>1 DEF HasPython
  <2>2. task.pipeline.kind = "python_entrypoint" => spec.pipeline = "entrypoint"
    BY <1>1, MaterializedOrFailed
  <2> QED BY <1>1, <1>2, <2>1, <2>2
<1>5. \A p \in DOMAIN call.packages \cup {Runtime} : p \in DOMAIN worker.versions
  <2>1. request.packages = call.packages
    BY <1>1, PreparedKeeps
  <2>2. DOMAIN Required(request) = DOMAIN call.packages \cup {Runtime}
    BY <2>1 DEF Required
  <2>3. \A p \in DOMAIN Required(request) :
          VersionSatisfies(worker.versions, p, Required(request)[p])
    BY <1>1 DEF RequirementsMatch
  <2> QED BY <2>2, <2>3 DEF VersionSatisfies
<1> QED BY <1>2, <1>3, <1>4, <1>5 DEF RunIsWhatWasAsked, AskedJobs, Asked

\* Afterwards nothing of it changes.
LEMMA AskedKept == PathInv /\ [PathNext]_pathVars => RunIsWhatWasAsked'
<1> SUFFICES ASSUME PathInv, [PathNext]_pathVars PROVE RunIsWhatWasAsked'
  OBVIOUS
<1> USE DEF PathInv, RunIsWhatWasAsked, AskedJobs, RunComesFirst, Goto, FailsOnce, FailsForGood
<1>1. CASE \E c \in Calls : Call(c)
  BY <1>1 DEF Call
<1>2. CASE Accept
  BY <1>2 DEF Accept
<1>3. CASE \E w \in WorkersSeen : Lease(w)
  BY <1>3 DEF Lease
<1>4. CASE Prepare
  BY <1>4 DEF Prepare
<1>5. CASE RunnerFails
  BY <1>5 DEF RunnerFails
<1>6. CASE RunLibrary
  BY <1>6, RunIsAsAsked
<1>7. CASE ExportModel
  BY <1>7 DEF ExportModel
<1>8. CASE PublishEvidence
  BY <1>8 DEF PublishEvidence
<1>9. CASE Upload
  BY <1>9 DEF Upload
<1>10. CASE Report
  BY <1>10 DEF Report
<1>11. CASE UNCHANGED pathVars
  BY <1>11 DEF pathVars
<1> QED BY <1>1, <1>2, <1>3, <1>4, <1>5, <1>6, <1>7, <1>8, <1>9, <1>10, <1>11 DEF PathNext, RunnerStep

\* Each stage finds what the one before it hands on.
LEMMA PathTypeKept == PathInv /\ [PathNext]_pathVars => PathTypeOK'
<1> SUFFICES ASSUME PathInv, [PathNext]_pathVars PROVE PathTypeOK'
  OBVIOUS
<1> USE DEF PathInv, PathTypeOK, Stages, Handoff, Goto, FailsOnce, FailsForGood
<1>1. CASE \E c \in Calls : Call(c)
  BY <1>1 DEF Call, RunComesFirst
<1>2. CASE Accept
  BY <1>2 DEF Accept
<1>3. CASE \E w \in WorkersSeen : Lease(w)
  BY <1>3 DEF Lease
<1>4. CASE Prepare
  <2>1. /\ Materialize(task).fails \in {None, FailsOnce, FailsForGood}
        /\ Materialize(task).fails = None =>
             /\ Materialize(task).pipeline \in {"path", "entrypoint"}
             /\ Materialize(task).dataset \in {"path", "path_in_folder"}
    BY MaterializedOrFailed
  <2> QED BY <1>4, <2>1 DEF Prepare, Handoff
<1>5. CASE RunnerFails
  BY <1>5 DEF RunnerFails
<1>6. CASE RunLibrary
  BY <1>6 DEF RunLibrary
<1>7. CASE ExportModel
  BY <1>7 DEF ExportModel
<1>8. CASE PublishEvidence
  BY <1>8, TraceKept DEF PublishEvidence, TraceIsOfPublication
<1>9. CASE Upload
  BY <1>9 DEF Upload
<1>10. CASE Report
  BY <1>10 DEF Report
<1>11. CASE UNCHANGED pathVars
  BY <1>11 DEF pathVars
<1> QED BY <1>1, <1>2, <1>3, <1>4, <1>5, <1>6, <1>7, <1>8, <1>9, <1>10, <1>11 DEF PathNext, RunnerStep

-----------------------------------------------------------------------------
(* The theorems                                                            *)

\* Where there is a publication there is a well-formed result it was made of.
LEMMA PublicationOfAResult ==
  ASSUME PathInv, published # None
  PROVE  /\ IsData(data)
         /\ \A i \in DOMAIN run.predictions : IsPrediction(run.predictions[i], data)
         /\ \E m \in BOOLEAN :
              LET q == [run EXCEPT !.model = m]
              IN  /\ published = Publish(q, data)
                  /\ q.predictions = run.predictions /\ q.native = run.native
<1>1. call \in Calls /\ request = Prepared(call)
  BY DEF PathInv, RunComesFirst, RequestIsPrepared, FailsOnce
<1>2. PICK r \in Results(request) : run = r.run /\ data = r.data
  BY DEF PathInv, ResultIsKept, RunIsAResult
<1>3. IsResult(r)
  BY <1>1, <1>2
<1>4. PICK m \in BOOLEAN : published = Publish([run EXCEPT !.model = m], data)
  BY DEF PathInv, ResultIsKept
<1>5. /\ [run EXCEPT !.model = m].predictions = run.predictions
      /\ [run EXCEPT !.model = m].native = run.native
  BY <1>2, <1>3 DEF IsResult
<1>6. IsData(data) /\ \A i \in DOMAIN run.predictions : IsPrediction(run.predictions[i], data)
  BY <1>2, <1>3 DEF IsResult, IsData
<1> QED BY <1>4, <1>5, <1>6

LEMMA InvariantAligns == PathInv => EvidenceIsAligned
<1> SUFFICES ASSUME PathInv, published # None, NEW i \in DOMAIN run.predictions
             PROVE  LET p == run.predictions[i]
                    IN  (SaysTruth(p, data) /\ published.store[i].rows # NoRows)
                          => published.store[i].rows = p.truth
  BY DEF EvidenceIsAligned, OnTrueRows, SaysTruth, TrueColumn
<1> DEFINE p == run.predictions[i]
<1>1. IsData(data) /\ IsPrediction(p, data)
  BY PublicationOfAResult
<1>2. PICK m \in BOOLEAN :
        LET q == [run EXCEPT !.model = m]
        IN  published = Publish(q, data) /\ q.predictions = run.predictions
  BY PublicationOfAResult
<1>3. published.store[i].rows # NoRows => published.store[i].rows = SelectRows(p, data)
  <2> DEFINE q == [run EXCEPT !.model = m]
  <2>1. published = Publish(q, data) /\ q.predictions = run.predictions
    BY <1>2
  <2> HIDE DEF q
  <2> QED BY <2>1, PublishedRowsAreSelected
<1> HIDE DEF p
<1> QED BY <1>1, <1>3, SelectedRowsAreTrue DEF p

LEMMA InvariantIsHonest == PathInv => TraceIsHonest
<1> SUFFICES ASSUME PathInv, stored, trace # None, trace.missing = {}, Handoff.fields # {}
             PROVE  /\ "workspace" \in uploads
                    /\ run.predictions # <<>>
                    /\ \A i \in DOMAIN run.predictions :
                         LET s == published.store[i]
                             wanted == {FieldPart(f) : f \in Handoff.fields}
                             p == run.predictions[i]
                         IN  /\ "X" \in wanted => s.rows # NoRows
                             /\ "bundle" \in wanted =>
                                  s.bundle /\ p.replays
                                    /\ (IF run.native THEN p.ofFinal ELSE p.known)
  BY DEF TraceIsHonest
<1> DEFINE fields == Handoff.fields
<1>1. /\ published # None
      /\ trace = [missing  |-> TraceMissing(fields, published.missing),
                required |-> published.saved # {}]
  BY DEF PathInv, TraceIsOfPublication
<1>2. PICK m \in BOOLEAN :
        LET q == [run EXCEPT !.model = m]
        IN  /\ published = Publish(q, data)
            /\ q.predictions = run.predictions /\ q.native = run.native
  BY <1>1, PublicationOfAResult
<1> DEFINE q == [run EXCEPT !.model = m]
<1>3. /\ published = Publish(q, data)
      /\ q.predictions = run.predictions /\ q.native = run.native
  BY <1>2
<1>4. TraceMissing(fields, published.missing) = {} /\ trace.required = (published.saved # {})
  <2> HIDE DEF fields
  <2> QED BY <1>1
<1> HIDE DEF q
<1>5. /\ published.saved # {} /\ run.predictions # <<>>
      /\ \A i \in DOMAIN run.predictions :
           /\ published.store[i].rows # NoRows
           /\ "bundle" \in {FieldPart(f) : f \in fields} =>
                published.store[i].bundle /\ BundleMade(run.predictions[i], q)
  BY <1>3, <1>4, NothingMissing
<1>6. "workspace" \in uploads
  BY <1>4, <1>5 DEF PathInv, StoredIsDelivered
<1>7. ASSUME NEW i \in DOMAIN run.predictions, BundleMade(run.predictions[i], q)
      PROVE  /\ run.predictions[i].replays
             /\ IF run.native THEN run.predictions[i].ofFinal ELSE run.predictions[i].known
  BY <1>3, <1>7 DEF BundleMade
<1> QED BY <1>5, <1>6, <1>7

\* What each stage finds is what the stages before it left: the inductive invariant
\* of the way of a task through client, server, worker, runner and agent.
THEOREM PathInvariant == PathSpec => []PathInv
<1>1. PathInit => PathInv
  BY PathInitOK
<1>2. PathInv /\ [PathNext]_pathVars => PathInv'
  BY RequestKept, TaskKept, WorkerKept, SpecKept, OrderKept, ResultKept, TraceKept,
     DeliveryKept, AskedKept, PathTypeKept DEF PathInv
<1> QED BY <1>1, <1>2, PTL DEF PathSpec

\* The stages follow each other with what they hand on (from submit_job to
\* _report_success).
THEOREM PathTypeCorrect == PathSpec => []PathTypeOK
<1>1. PathInv => PathTypeOK
  BY DEF PathInv
<1> QED BY <1>1, PathInvariant, PTL

\* What runs is what was asked for: the parallelism, the permission to run Python
\* code and the proven packages (client.py, submit_job, requirements_match, main).
THEOREM RunIsTheOneAsked == PathSpec => []RunIsWhatWasAsked
<1>1. PathInv => RunIsWhatWasAsked
  BY DEF PathInv
<1> QED BY <1>1, PathInvariant, PTL

\* Evidence is published for the true rows or not at all, if the prediction says
\* one true thing about them, for datasets of any size, any number of predictions
\* and any identity keys (nirs4all_run.py, _select_prediction_X).
THEOREM EvidenceAlwaysAligned == PathSpec => []EvidenceIsAligned
BY PathInvariant, InvariantAligns, PTL

\* A stored result whose trace lacks nothing has all its evidence, delivered
\* (nirs4all_run.py, _robustness_handoff_trace; agent.py, _report_success).
THEOREM TraceAlwaysHonest == PathSpec => []TraceIsHonest
BY PathInvariant, InvariantIsHonest, PTL
=============================================================================
