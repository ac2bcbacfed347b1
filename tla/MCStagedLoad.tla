---------------------------- MODULE MCStagedLoad ----------------------------
(* Instances of StagedLoad for TLC. *)
EXTENDS StagedLoad

CONSTANTS a, b

Load(driver, streams, rows, max) ==
  [driver |-> driver, streams |-> streams, rows |-> [s \in Streams |-> IF s \in streams THEN rows ELSE 0],
   max |-> max, faults |-> {}, change |-> {}, single |-> FALSE]

\* Every driver with every fault and without one, on the files of one stream.
One == {[Load(d, {a}, 3, 2) EXCEPT !.faults = x] : d \in Drivers, x \in {{}} \cup {{y} : y \in Faults}}

\* Two streams that share the mutex, the channel and the table.
Two == {Load(d, {a, b}, 1, 1) : d \in {"bigquery", "starrocks", "stage"}}
  \cup {[Load("file", {a, b}, 1, 2) EXCEPT !.faults = {"write"}, !.rows[a] = 3],
        [Load("duckdb", {a, b}, 1, 2) EXCEPT !.faults = {"write", "source"}],
        [Load("bigquery", {a, b}, 1, 2) EXCEPT !.faults = {"load", "source"}],
        [Load("stage", {a, b}, 1, 2) EXCEPT !.faults = {"create"}]}

\* Columns that change: in a table while load jobs run, and in a single file.
Changing ==
  {[Load("bigquery", {a, b}, 2, 3) EXCEPT !.change = {<<a, 1>>}],
   [Load("file", {a}, 2, 3) EXCEPT !.change = {<<a, 1>>}, !.single = TRUE]}

\* A first stream without rows, and no rows at all.
Empty == {[Load(d, {a, b}, 1, 1) EXCEPT !.faults = {"prepare"}, !.rows = [s \in Streams |-> IF s = a THEN 0 ELSE n]] :
            d \in {"duckdb", "stage", "file"}, n \in {0, 1}}
  \cup {[Load("duckdb", {a, b}, 1, 1) EXCEPT !.faults = {"source"}, !.rows[a] = 0]}

AllLoads == One \cup Two \cup Changing \cup Empty
=============================================================================
