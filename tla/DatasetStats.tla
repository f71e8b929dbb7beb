---------------------------- MODULE DatasetStats ----------------------------
(***************************************************************************)
(* compute_dataset_stats (stats_worker.py): the normalization statistics   *)
(* of a dataset.  Those of a feature are named here by the arrays they are *)
(* computed from, each a column of a file, <<file, column>>.               *)
(*                                                                         *)
(* A dataset is a sequence of parquet files and its cameras, the image     *)
(* features of info.json.  A file may be unreadable; otherwise it has a    *)
(* sequence of columns, each with a name and a kind, for what pyarrow and  *)
(* numpy make of it: "number", "object" (lists, strings), or "opaque"      *)
(* (cannot be converted).                                                  *)
(***************************************************************************)
EXTENDS Naturals, Sequences, FiniteSets

NotAFeature == "none"

\* _classify_feature, on the column names that occur.
FeatureOf == [action |-> "action", action_left |-> "action",
              state |-> "observation.state", timestamp |-> NotAFeature]

ColumnNames == DOMAIN FeatureOf
Columns == [name : ColumnNames, kind : {"number", "object", "opaque"}]
ParquetFiles == [readable : BOOLEAN, columns : Seq(Columns)]

Column(ds, p) == ds.files[p[1]].columns[p[2]]

\* What all_columns holds, in the order it is met.
Arrays(ds) == UNION {{<<i, k>> : k \in DOMAIN ds.files[i].columns} :
                        i \in {i \in DOMAIN ds.files : ds.files[i].readable}}

Met(p, q)     == p[1] < q[1] \/ (p[1] = q[1] /\ p[2] <= q[2])

\* Mutant: the columns of a feature are put together.
ArraysOf_ByFeature(ds, name) ==
    {p \in Arrays(ds) : /\ FeatureOf[Column(ds, p).name] = FeatureOf[name]
                        /\ Column(ds, p).kind # "opaque"}

ArraysOf(ds, name) ==
    {p \in Arrays(ds) : Column(ds, p).name = name /\ Column(ds, p).kind # "opaque"}

FirstMet(ds, name) == CHOOSE p \in ArraysOf(ds, name) : \A q \in ArraysOf(ds, name) : Met(p, q)

\* The columns statistics are taken of: np.concatenate of numbers and objects is an array
\* of objects.
Numeric(ds) == {name \in ColumnNames :
                  /\ FeatureOf[name] # NotAFeature
                  /\ ArraysOf(ds, name) # {}
                  /\ \A p \in ArraysOf(ds, name) : Column(ds, p).kind = "number"}

\* Of the columns of one feature, the one met last stays.
ColumnOf(ds, feature) ==
    CHOOSE name \in Numeric(ds) :
        /\ FeatureOf[name] = feature
        /\ \A other \in Numeric(ds) :
              FeatureOf[other] = feature => Met(FirstMet(ds, other), FirstMet(ds, name))

\* An empty function if there is nothing to say about the dataset; of a camera, shape and
\* type are taken from info.json.
ComputeDatasetStats(ds) ==
    LET numeric == {FeatureOf[name] : name \in Numeric(ds)}
    IN  IF ds.files = <<>> THEN <<>>
        ELSE [f \in numeric \cup ds.cameras |->
                 IF f \in numeric THEN ArraysOf(ds, ColumnOf(ds, f)) ELSE {}]
=============================================================================
