----------------------------- MODULE MCTaskRun -----------------------------
(***************************************************************************)
(* Small instances of TaskRun for TLC.                                     *)
(***************************************************************************)
EXTENDS TaskRun

\* One ordinary task, enough for the questions about the goroutines.
Ordinary(t) == /\ t.mode = "full-refresh" /\ t.tx /\ t.existed /\ t.rows
               /\ ~t.allowEmpty /\ ~t.warns /\ ~t.ignore
OneTask == {t \in Task : Ordinary(t) /\ ~t.direct /\ ~t.chunked /\ ~t.again}

\* The ways a task can be written: through a temporary table or directly, in each
\* mode, into a table that exists or not; an empty stream, with and without
\* allowEmpty; no transactions; a chunk; and every option that touches the status
\* or one early return.  (The theorems about this run hold for every task.)
Basic == CHOOSE t \in OneTask : TRUE
AllTasks ==
  { [Basic EXCEPT !.direct = d, !.existed = ~d] : d \in BOOLEAN }
  \cup { [Basic EXCEPT !.mode = "truncate", !.direct = TRUE, !.rows = r] : r \in BOOLEAN }
  \cup { [Basic EXCEPT !.mode = "incremental", !.rows = FALSE, !.allowEmpty = TRUE],
         [Basic EXCEPT !.mode = "incremental", !.tx = FALSE, !.warns = TRUE],
         [Basic EXCEPT !.mode = "incremental", !.ignore = TRUE],
         [Basic EXCEPT !.chunked = TRUE, !.again = TRUE],
         [Basic EXCEPT !.mode = "definition-only", !.existed = FALSE] }
============================================================================
