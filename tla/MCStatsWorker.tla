---------------------------- MODULE MCStatsWorker ----------------------------
EXTENDS StatsWorker

Col(name, kind) == [name |-> name, kind |-> kind]

\* Parquet files as they occur: whole, unreadable, with two columns of one feature, with
\* lists, and without a feature.
Whole    == [readable |-> TRUE,
             columns |-> <<Col("action", "number"), Col("state", "number"), Col("timestamp", "number")>>]
Broken   == [readable |-> FALSE, columns |-> <<>>]
TwoArms  == [readable |-> TRUE, columns |-> <<Col("action_left", "number"), Col("action", "number")>>]
Lists    == [readable |-> TRUE, columns |-> <<Col("action", "object"), Col("state", "opaque")>>]
NoAction == [readable |-> TRUE, columns |-> <<Col("timestamp", "number")>>]

Files == {Whole, Broken, TwoArms, Lists, NoAction}

MCDatasets == {[files |-> <<>>, cameras |-> {"top"}], [files |-> <<Lists>>, cameras |-> {"top"}],
               [files |-> <<TwoArms, TwoArms>>, cameras |-> {"top"}]}
              \cup {[files |-> <<f, g>>, cameras |-> {}] : f \in Files, g \in {Whole, NoAction}}
=============================================================================
