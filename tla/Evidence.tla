------------------------------ MODULE Evidence ------------------------------
(***************************************************************************)
(* The publication of robustness evidence by the runner                    *)
(* (runners/nirs4all_run.py): for every prediction of the workspace, the   *)
(* rows of the dataset it was made on, if they can be proved, and a bundle *)
(* of the model that made it, if it replays.  A row of the dataset is its  *)
(* position, from 1 to data.size.                                          *)
(*                                                                         *)
(* A prediction p has count rows.  It may name them: by indices, and by    *)
(* identity columns, which are entries of a key and a value per row, found *)
(* in its metadata (p.entries, a set of records).  data.columns has the    *)
(* columns of the dataset, likewise: two entries of one key are aliases.   *)
(***************************************************************************)
EXTENDS Integers, Sequences, FiniteSets, SequencesExt

CONSTANTS
  Absent,    \* indices or weights that a prediction does not have
  NoRows,    \* the rows of a prediction that cannot be aligned
  IdentityKeys,
  Blank      \* a missing value in a column

-----------------------------------------------------------------------------
(* Alignment                                                               *)

\* _prediction_row_count: everything that has a length agrees on it.
RowsCounted(p) ==
  /\ p.count > 0
  /\ p.indices = Absent \/ Len(p.indices) = p.count

ColumnsOf(entries, key) == {e.values : e \in {f \in entries : f.key = key}}

\* _collect_prediction_identity_columns_from_mapping raises for the others.
EntriesAgree(p) ==
  /\ \A e \in p.entries : Len(e.values) = p.count
  /\ \A key \in IdentityKeys : Cardinality(ColumnsOf(p.entries, key)) =< 1

\* _unique_identity_index
Unique(values, n) == Len(values) = n /\ Blank \notin ToSet(values) /\ IsInjective(values)

Comparable(p, data) ==
  {key \in IdentityKeys : ColumnsOf(p.entries, key) # {} /\ ColumnsOf(data.columns, key) # {}}

PositionsOf(values, column) == [i \in DOMAIN values |-> CHOOSE r \in DOMAIN column : column[r] = values[i]]

\* The positions that the column of one key gives, NoRows if it cannot.
PositionsBy(key, p, data) ==
  LET columns == ColumnsOf(data.columns, key)
      column == CHOOSE c \in columns : TRUE
      values == CHOOSE v \in ColumnsOf(p.entries, key) : TRUE
  IN  IF /\ Cardinality(columns) = 1
         /\ Unique(column, data.size)
         /\ ToSet(values) \subseteq ToSet(column)
      THEN PositionsOf(values, column) ELSE NoRows

\* A fault to detect: the first key decides, the others are not compared.
IdentityPositions_AnyKey(p, data) ==
  PositionsBy(CHOOSE key \in Comparable(p, data) : TRUE, p, data)

\* _prediction_identity_positions: all keys must give the same rows.
IdentityPositions(p, data) ==
  LET found == {PositionsBy(key, p, data) : key \in Comparable(p, data)}
  IN  IF Cardinality(found) = 1 THEN CHOOSE x \in found : TRUE ELSE NoRows

IndicesFit(p, data) ==
  Unique(p.indices, p.count) /\ ToSet(p.indices) \subseteq 1..data.size

\* _select_prediction_X.  Indices and identities must not contradict each other;
\* without either the prediction must cover the dataset.
SelectRows(p, data) ==
  LET rows == IdentityPositions(p, data)
      byIdentity == Comparable(p, data) # {}
  IN  IF \/ ~RowsCounted(p) \/ ~EntriesAgree(p)
         \/ \E e \in p.entries : ~Unique(e.values, p.count)
         \/ byIdentity /\ rows = NoRows
      THEN NoRows
      ELSE IF p.indices # Absent
           THEN IF IndicesFit(p, data) /\ (byIdentity => rows = p.indices) THEN p.indices ELSE NoRows
      ELSE IF byIdentity THEN rows
      ELSE IF p.entries = {} /\ p.count = data.size THEN [i \in 1..data.size |-> i]
      ELSE NoRows

-----------------------------------------------------------------------------
(* The bundle                                                              *)

Numbered == {"0", "1"}

\* The final export may number its only captured model 0.
SelectedFold(fold, captured) == IF fold = "final" /\ captured = {"0"} THEN "0" ELSE fold

Ensemble(fold) == fold \in {"avg", "w_avg"}

\* _select_legacy_bundle_fold: the folds of the export that stay in the bundle.
KeptFolds(fold, captured) ==
  captured \cap ({"all"} \cup IF Ensemble(fold) THEN Numbered ELSE {SelectedFold(fold, captured)})

\* It raises if the fold is unknown, the weights of an ensemble do not number
\* its folds, no kept model is of the fold, or the entry operator is not unique.
FoldSelectable(p, captured) ==
  /\ p.fold \in {"final", "avg", "w_avg"} \cup Numbered
  /\ (p.fold = "w_avg" /\ p.weights # Absent) => captured \cap Numbered = p.weights
  /\ KeptFolds(p.fold, captured) \ {"all"} # {}
  /\ p.entryUnique

\* _prediction_bundle: the model of this prediction and of this run, and its
\* replay on the aligned rows gives the predicted values again.
BundleMade(p, run) ==
  /\ IF run.native THEN p.ofFinal /\ p.fold = "final" /\ run.model
                   ELSE p.known /\ FoldSelectable(p, run.captured)
  /\ p.replays

-----------------------------------------------------------------------------
(* Publication                                                             *)

Parts == {"X", "bundle"}

\* _publish_robustness_evidence_to_workspace, for one row of the store.
Outcome(p, run, data) ==
  LET rows == IF p.loads THEN SelectRows(p, data) ELSE NoRows
  IN  [rows    |-> rows,
       missing |-> IF rows = NoRows THEN Parts
                   ELSE IF BundleMade(p, run) THEN {} ELSE {"bundle"}]

\* The outcomes of all rows, the rows written back, and what the store holds
\* after.  Nothing is tried without the dataset and the store; if the batch
\* cannot be saved every outcome is withdrawn.
Publish(run, data) ==
  LET ps == run.predictions
      outcomes == [i \in DOMAIN ps |-> Outcome(ps[i], run, data)]
      saved == {i \in DOMAIN ps : outcomes[i].rows # NoRows}
      before == [i \in DOMAIN ps |-> [rows |-> NoRows, bundle |-> ps[i].stale]]
  IN  IF ~data.loads
      THEN [missing |-> <<>>, saved |-> {}, store |-> before]
      ELSE IF saved # {} /\ ~run.saves
      THEN [missing |-> [i \in DOMAIN ps |-> Parts], saved |-> {}, store |-> before]
      ELSE [missing |-> [i \in DOMAIN ps |-> outcomes[i].missing],
            saved   |-> saved,
            store   |-> [i \in DOMAIN ps |->
                           IF i \in saved
                           THEN [rows |-> outcomes[i].rows, bundle |-> outcomes[i].missing = {}]
                           ELSE before[i]]]

\* The fields a handoff may ask for, and the part of the evidence each stands for.
FieldPart(field) ==
  CASE field \in {"prediction_arrays.X", "result_metadata.robustness_evidence.X"} -> "X"
    [] field = "result_metadata.robustness_evidence.predictor_bundle" -> "bundle"
    [] OTHER -> "unknown"

\* Every prediction must have the part, and there must be one.
PartPublished(part, missing) ==
  part \in Parts /\ missing # <<>> /\ \A m \in ToSet(missing) : part \notin m

\* _robustness_handoff_trace
TraceMissing(fields, missing) == {f \in fields : ~PartPublished(FieldPart(f), missing)}
=============================================================================
