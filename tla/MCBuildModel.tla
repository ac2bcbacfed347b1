---------------------------- MODULE MCBuildModel ----------------------------
(***************************************************************************)
(* Small instances of BuildModel for TLC.                                  *)
(***************************************************************************)
EXTENDS BuildModel

Plan1(mode, ddl, before) ==
  [mode |-> mode, ddl |-> ddl, columnStore |-> FALSE, lookback |-> 0, range |-> NoRange,
   before |-> before]

Ranges == {[start |-> 1, end |-> 4, step |-> s] : s \in 0..2}

AllPlans ==
  { Plan1("full-refresh", ddl, before) :
      ddl \in {"replace", "rename", "drop"}, before \in {"none", "table", "view"} }
  \cup { Plan1("view", "replace", before) : before \in {"none", "table", "view"} }
  \cup { Plan1(mode, "replace", before) :
           mode \in {"truncate", "append", "incremental"}, before \in {"none", "table"} }
  \cup { [Plan1("append", "drop", "table") EXCEPT !.columnStore = TRUE],
         [Plan1("incremental", "rename", "none") EXCEPT !.lookback = 1] }
  \cup { [Plan1("incremental", "replace", "table") EXCEPT !.range = r] : r \in Ranges }
============================================================================
