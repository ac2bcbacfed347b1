---------------------------- MODULE BuildModel ----------------------------
(***************************************************************************)
(* How one model of a build is written into the target database, over       *)
(* several runs: executeModel and the functions of the modes below it       *)
(* (core/sling/build/executor.go), with the statements of ddl.go.           *)
(*                                                                          *)
(* The executor works without a transaction: every statement is visible and *)
(* permanent when it is answered, any of them may fail, and the process may *)
(* die between two.  The user then runs the model again, after a failed     *)
(* --range with the range that the resume hint shows.                       *)
(*                                                                          *)
(* A row is a key and a version, its update_key.  What the model's query    *)
(* computes is the current version of every key; it changes while the model *)
(* is built, each change with a version above all earlier ones.  Tables are *)
(* bags: nothing in the database keeps a key unique.                        *)
(***************************************************************************)
EXTENDS Naturals, Sequences

CONSTANTS
  Keys,     \* the values of unique_key
  MaxVer,   \* bound: the versions are 1..MaxVer
  MaxRuns,  \* bound: the number of runs of the model
  Plans     \* the models considered, a set of Plan records

ASSUME BoundsAssumption == MaxVer \in Nat /\ MaxRuns \in Nat

\* --range start,end,step; a step of 0 is none.
Range == [start : Nat, end : Nat, step : Nat]
NoRange == [start |-> 0, end |-> 0, step |-> 0]

\* A model: its mode; how the database replaces a table (CREATE OR REPLACE, rename,
\* or drop and create); whether it is a column store; range.lookback; --range; and
\* what has the model's name before the first run.
Plan == [mode : {"full-refresh", "view", "truncate", "incremental", "append"},
         ddl : {"replace", "rename", "drop"}, columnStore : BOOLEAN, lookback : Nat,
         range : Range, before : {"none", "table", "view"}]

\* Only executeIncremental looks at --range, so it is none for another mode.
ASSUME PlansAssumption ==
  Plans \subseteq Plan /\ \A b \in Plans : b.range # NoRange => b.mode = "incremental"

VARIABLES
  plan,    \* the model
  source,  \* version of each key in the result of the query, 0 for none
  clock,   \* the last version given
  target,  \* what has the model's name in the database
  temps,   \* the temporary table of each run
  run,     \* the number of the current or last run
  range,   \* the --range of the current run
  pc,      \* the statement that comes next; "idle" between two runs
  err,     \* how the last run ended, or an error the current one will return
  chunks,  \* the chunks of an incremental run
  c,       \* the chunk that is merged
  \* kept for the properties only:
  began,   \* source, when the run, or the first one of a resumed range, started
  built,   \* the target has been a table
  doubled, \* a delete failed and the insert behind it was executed
  excused  \* runs that crashed, or whose rename or drop of the temporary table failed

dbVars == <<target, temps>>
runVars == <<run, range, chunks, c, began>>
histVars == <<built, doubled, excused>>
vars == <<plan, source, clock, dbVars, pc, err, runVars, histVars>>

Version == 1..MaxVer
Row == Keys \X Version
Rows == [Row -> Nat]
Relation == [kind : {"none", "table", "view"}, rows : Rows]

NoRows == [r \in Row |-> 0]
Missing == [kind |-> "none", rows |-> NoRows]
View == [kind |-> "view", rows |-> NoRows]
TableOf(rows) == [kind |-> "table", rows |-> rows]

Chunk == [lower : Nat, inclusive : BOOLEAN, upper : Nat]

Labels == {"idle", "pre", "dropView", "replace", "dropTemp", "createTemp", "dropTarget",
           "rename", "create", "viewDropTable", "viewDropView", "createView", "truncate",
           "insert", "resolve", "stage", "delete", "insertTemp", "dropStage", "post"}

TypeOK ==
  /\ plan \in Plans
  /\ source \in [Keys -> 0..MaxVer] /\ clock \in 0..MaxVer
  /\ target \in Relation /\ temps \in [1..MaxRuns -> Relation]
  /\ run \in 0..MaxRuns /\ range \in Range
  /\ pc \in Labels /\ err \in BOOLEAN
  /\ chunks \in Seq(Chunk) /\ c \in Nat \ {0}
  /\ began \in [Keys -> 0..MaxVer]
  /\ built \in BOOLEAN /\ doubled \in BOOLEAN /\ excused \subseteq 1..MaxRuns

Init ==
  /\ plan \in Plans
  /\ source = [k \in Keys |-> 0] /\ clock = 0
  /\ target = CASE plan.before = "none" -> Missing
                [] plan.before = "view" -> View
                [] OTHER -> TableOf(NoRows)
  /\ temps = [r \in 1..MaxRuns |-> Missing]
  /\ run = 0 /\ range = plan.range /\ pc = "idle" /\ err = FALSE
  /\ chunks = <<>> /\ c = 1 /\ began = source
  /\ built = (plan.before = "table") /\ doubled = FALSE /\ excused = {}

-----------------------------------------------------------------------------
(* Rows and ranges.                                                         *)

\* Faulty variants used to show that the properties can fail.
FromUpper(ch) == ch.upper
KeepsKeys(rows, staged) == rows
DropsOnFailure == TRUE
LeavesStage == FALSE

\* The rows of the query, and those of a chunk: RangeChunk.WhereCond.
Result == [r \in Row |-> IF source[r[1]] = r[2] THEN 1 ELSE 0]
InChunk(ch, v) == /\ IF ch.inclusive THEN v >= ch.lower ELSE v > ch.lower
                  /\ v < ch.upper
ResultIn(ch) == [r \in Row |-> IF InChunk(ch, r[2]) THEN Result[r] ELSE 0]

Plus(a, b) == [r \in Row |-> a[r] + b[r]]

\* DELETE ... WHERE EXISTS: the rows whose key is among the staged ones go.
WithoutKeys(rows, staged) ==
  [r \in Row |-> IF \E v \in Version : staged[<<r[1], v>>] > 0 THEN 0 ELSE rows[r]]

\* queryTargetMax.
TargetMax ==
  LET present == {v \in Version : \E k \in Keys : target.rows[<<k, v>>] > 0}
  IN IF present = {} THEN 0 ELSE CHOOSE v \in present : \A w \in present : v >= w

\* resolveIncrementalRange: rows above the maximum of the target, from `lookback`
\* below it on when that is set.
AboveMax ==
  LET max == TargetMax
      looks == plan.lookback > 0 /\ max > 0
  IN [lower |-> IF ~looks THEN max ELSE IF max > plan.lookback THEN max - plan.lookback ELSE 0,
      inclusive |-> looks, upper |-> MaxVer + 1]
Unbounded == [lower |-> 0, inclusive |-> FALSE, upper |-> MaxVer + 1]

\* splitCLIRange: from start to end in steps, the last one cut at the end.
SplitRange(r) ==
  IF r.step = 0 THEN << [lower |-> r.start, inclusive |-> TRUE, upper |-> r.end] >>
  ELSE LET n == IF r.end <= r.start THEN 0 ELSE (r.end - r.start + r.step - 1) \div r.step
       IN [j \in 1..n |->
             [lower |-> r.start + (j - 1) * r.step, inclusive |-> TRUE,
              upper |-> IF j = n THEN r.end ELSE r.start + j * r.step]]

\* formatResumeCommand: from the lower bound of the chunk that failed.
ResumeStart(ch) == ch.lower
Resume == [start |-> ResumeStart(chunks[c]), end |-> chunks[Len(chunks)].upper,
           step |-> range.step]

\* Whether the temporary table is dropped after a failed rename, and after a merge.
DropsTempOnRename == FALSE
DropsStage == TRUE

-----------------------------------------------------------------------------
(* A run.                                                                   *)

\* The query's result changes.
Change(k) ==
  /\ clock < MaxVer
  /\ clock' = clock + 1 /\ source' = [source EXCEPT ![k] = clock + 1]
  /\ UNCHANGED <<plan, dbVars, pc, err, runVars, histVars>>

\* A run, with a new RunID.  After an error the user takes the range of the hint.
Begin ==
  /\ pc = "idle" /\ run < MaxRuns
  /\ run' = run + 1 /\ pc' = "pre" /\ err' = FALSE
  /\ range' = IF err THEN range ELSE plan.range
  /\ began' = IF range' = plan.range THEN source ELSE began
  /\ chunks' = <<>> /\ c' = 1
  /\ UNCHANGED <<plan, source, clock, dbVars, histVars>>

\* What is left alone by a statement.
Rest == UNCHANGED <<plan, source, clock, runVars, doubled>>

\* The statement is answered: the database changes and the run goes on.
Answered(newTarget, newTemp, next) ==
  /\ target' = newTarget /\ temps' = [temps EXCEPT ![run] = newTemp]
  /\ built' = (built \/ newTarget.kind = "table")
  /\ pc' = next /\ err' = err /\ excused' = excused

\* It fails and the run ends with an error; newTemp tells what becomes of the
\* temporary table.
Failed(newTemp) ==
  /\ temps' = [temps EXCEPT ![run] = newTemp] /\ target' = target
  /\ pc' = "idle" /\ err' = TRUE /\ UNCHANGED <<built, excused>>

\* It fails and the temporary table stays: on purpose, or because its drop, which
\* is tried without looking at the answer, fails too.
FailedKeepingTemp ==
  /\ pc' = "idle" /\ err' = TRUE /\ excused' = excused \cup {run}
  /\ UNCHANGED <<dbVars, built>>

\* Its error is ignored.
Ignored(next) == pc' = next /\ UNCHANGED <<dbVars, err, built, excused>>

\* CREATE TABLE AS, of the target.
CreateTable(next) == target.kind = "none" /\ Answered(TableOf(Result), temps[run], next)

\* The first statement of executeFullRefresh.
FullRefresh == "dropView"

\* The start hooks and pre-statements passed: the mode decides.
Pre ==
  /\ pc = "pre"
  /\ Ignored(CASE plan.mode = "full-refresh" -> FullRefresh
               [] plan.mode = "view" -> "viewDropTable"
               [] plan.mode = "incremental" -> IF target.kind = "none" THEN FullRefresh
                                               ELSE "resolve"
               [] OTHER -> IF target.kind = "none" THEN "create"
                           ELSE IF plan.mode = "truncate" THEN "truncate"
                           ELSE IF plan.columnStore THEN "stage" ELSE "insert")
  /\ Rest

\* Anything that fails before the mode's first statement or after its last one:
\* hooks, pre- and post-statements, the existence query, the data tests.
SurroundingFails == pc \in {"pre", "post"} /\ Failed(temps[run]) /\ Rest

\* executeFullRefresh.  A view of the same name is dropped first; the error that a
\* table of the name causes is ignored, like any other.
DropOldView ==
  LET next == CASE plan.ddl = "replace" -> "replace"
                [] plan.ddl = "rename" -> "dropTemp"
                [] OTHER -> "dropTarget"
  IN /\ pc = "dropView"
     /\ \/ target.kind = "view" /\ Answered(Missing, temps[run], next)
        \/ Ignored(next)
     /\ Rest

Replace ==
  /\ pc = "replace"
  /\ \/ target.kind # "view" /\ Answered(TableOf(Result), temps[run], "post")
     \/ Failed(temps[run])
  /\ Rest

\* executeFullRefreshAtomic.
DropTemp ==
  /\ pc = "dropTemp"
  /\ \/ Answered(target, Missing, "createTemp")
     \/ Ignored("createTemp")
  /\ Rest

CreateTemp ==
  /\ pc = "createTemp"
  /\ \/ Answered(target, TableOf(Result), "dropTarget")
     \/ Failed(Missing)
  /\ Rest

DropTarget ==
  /\ pc = "dropTarget"
  /\ \/ target.kind # "view"
        /\ Answered(Missing, temps[run], IF plan.ddl = "rename" THEN "rename" ELSE "create")
     \/ Failed(Missing)
     \/ plan.ddl = "rename" /\ FailedKeepingTemp
  /\ Rest

Rename ==
  /\ pc = "rename"
  /\ \/ Answered(temps[run], Missing, "post")
     \/ IF DropsTempOnRename THEN Failed(Missing) ELSE FailedKeepingTemp
  /\ Rest

\* CREATE TABLE AS: the last step of the path without rename, and the first run of
\* executeTruncate and executeAppend.
Create ==
  /\ pc = "create"
  /\ CreateTable("post") \/ Failed(temps[run])
  /\ Rest

\* executeView: the two drops may fail.
ViewDropTable ==
  /\ pc = "viewDropTable"
  /\ \/ target.kind = "table" /\ Answered(Missing, temps[run], "viewDropView")
     \/ Ignored("viewDropView")
  /\ Rest

ViewDropView ==
  /\ pc = "viewDropView"
  /\ \/ target.kind = "view" /\ Answered(Missing, temps[run], "createView")
     \/ Ignored("createView")
  /\ Rest

CreateView ==
  /\ pc = "createView"
  /\ \/ target.kind # "table" /\ Answered(View, temps[run], "post")
     \/ Failed(temps[run])
  /\ Rest

\* executeTruncate and executeAppend on a table that exists.
Truncate ==
  /\ pc = "truncate"
  /\ Answered(TableOf(NoRows), temps[run], "insert") \/ Failed(temps[run])
  /\ Rest

Insert ==
  /\ pc = "insert"
  /\ \/ Answered(TableOf(Plus(target.rows, Result)), temps[run], "post")
     \/ Failed(temps[run])
  /\ Rest

\* resolveRange.  When the query for the maximum fails the model is treated as on
\* its first run.  A range of no chunks is a success.
Resolve ==
  /\ pc = "resolve"
  /\ chunks' \in IF range # NoRange THEN {SplitRange(range)} ELSE {<<AboveMax>>, <<Unbounded>>}
  /\ pc' = IF chunks' = <<>> THEN "post" ELSE "stage"
  /\ UNCHANGED <<plan, source, clock, dbVars, err, run, range, c, began, histVars>>

\* A chunk that fails ends the run; a --range is continued from there.
ChunkFails ==
  /\ pc' = "dropStage" /\ err' = TRUE
  /\ range' = IF range = NoRange THEN range ELSE Resume
  /\ UNCHANGED <<plan, source, clock, run, chunks, c, began>>

\* runMergeForChunk: the rows of the chunk are staged in a temporary table.  The
\* append of a column store stages the whole result the same way.
Stage ==
  /\ pc = "stage"
  /\ \/ /\ Answered(target, TableOf(IF plan.mode = "append" THEN Result ELSE ResultIn(chunks[c])),
                    IF plan.mode = "append" THEN "insertTemp" ELSE "delete")
        /\ Rest
     \/ plan.mode # "append" /\ ChunkFails /\ UNCHANGED <<dbVars, histVars>>
     \/ plan.mode = "append" /\ Failed(Missing) /\ Rest

\* delete+insert in one ExecMulti, which executes the insert although the delete
\* failed, and returns the error then.
Delete ==
  /\ pc = "delete" /\ pc' = "insertTemp"
  /\ \/ /\ target' = [target EXCEPT !.rows = WithoutKeys(@, temps[run].rows)]
        /\ err' = err
     \/ target' = target /\ err' = TRUE
  /\ UNCHANGED <<plan, source, clock, temps, runVars, histVars>>

InsertTemp ==
  /\ pc = "insertTemp"
  /\ \/ /\ target' = [target EXCEPT !.rows = Plus(@, temps[run].rows)]
        /\ doubled' = (doubled \/ err)
        /\ UNCHANGED <<temps, built, excused>>
        /\ IF err THEN ChunkFails
           ELSE pc' = "dropStage" /\ UNCHANGED <<plan, source, clock, err, runVars>>
     \/ ChunkFails /\ UNCHANGED <<dbVars, histVars>>

\* The deferred drop of the temporary table, whose error is only logged; then the
\* next chunk, or the end of the run.
DropStage ==
  /\ pc = "dropStage"
  /\ \/ temps' = [temps EXCEPT ![run] = IF DropsStage THEN Missing ELSE @] /\ excused' = excused
     \/ temps' = temps /\ excused' = excused \cup {run}
  /\ IF err THEN pc' = "idle" /\ c' = c
     ELSE IF c < Len(chunks) THEN pc' = "stage" /\ c' = c + 1
     ELSE pc' = "post" /\ c' = c
  /\ UNCHANGED <<plan, source, clock, target, err, run, range, chunks, began, built, doubled>>

\* Post-statements, data tests and end hooks passed.
Post == pc = "post" /\ Ignored("idle") /\ Rest

\* The process dies; nothing is cleaned up.
Crash ==
  /\ pc # "idle"
  /\ pc' = "idle" /\ err' = TRUE /\ excused' = excused \cup {run}
  /\ UNCHANGED <<plan, source, clock, dbVars, runVars, built, doubled>>

\* The bounds are reached.
Over == pc = "idle" /\ run = MaxRuns /\ UNCHANGED vars

Next ==
  \/ \E k \in Keys : Change(k)
  \/ Begin \/ Pre \/ SurroundingFails \/ DropOldView \/ Replace
  \/ DropTemp \/ CreateTemp \/ DropTarget \/ Rename \/ Create
  \/ ViewDropTable \/ ViewDropView \/ CreateView \/ Truncate \/ Insert
  \/ Resolve \/ Stage \/ Delete \/ InsertTemp \/ DropStage \/ Post
  \/ Crash \/ Over

Spec == Init /\ [][Next]_vars

-----------------------------------------------------------------------------
(* Properties.                                                              *)

\* The last run has ended, and without an error.
Succeeded == pc = "idle" /\ run > 0 /\ ~err

\* The versions of a key in the target, and how many rows it has there.
VersionsOf(k) == {v \in Version : target.rows[<<k, v>>] > 0}
OneRow(k) == \E v \in VersionsOf(k) : VersionsOf(k) = {v} /\ target.rows[<<k, v>>] = 1

\* A model that was built without an error holds one row for every key, and it is
\* not older than the query's result when the run started, whatever failed or
\* crashed in earlier runs and however the result changed meanwhile: the watermark
\* of an incremental model never passes a row that is not in the target
\* (resolveIncrementalRange, runMergeForChunk).  Exempt: append, which never
\* replaces; --range, which selects; a target in which a failed delete was
\* followed by its insert.
FreshAfterSuccess ==
  Succeeded /\ plan.mode \in {"full-refresh", "truncate", "incremental"}
            /\ plan.range = NoRange /\ ~doubled =>
    \A k \in Keys :
      began[k] > 0 => OneRow(k) /\ \A v \in VersionsOf(k) : began[k] <= v /\ v <= source[k]

\* A --range that was carried through, resumed as often as needed with the hint of
\* the chunk that failed, has loaded every row of the range that the query has,
\* each once: the chunks leave no gap, and the hint skips nothing (splitCLIRange,
\* handleChunkError, formatResumeCommand).
RangeLoaded ==
  Succeeded /\ plan.range # NoRange /\ plan.before = "table" =>
    \A k \in Keys :
      /\ source[k] > 0 /\ source[k] >= plan.range.start /\ source[k] < plan.range.end
      /\ began[k] = source[k]
      => target.rows[<<k, source[k]>>] = 1

\* Once a full-refresh model was built, its rows are never lost: with CREATE OR
\* REPLACE the table is always there; with rename either the table is there or a
\* finished temporary table that was left behind holds them, after a crash between
\* the drop and the rename as after a failed rename (executeFullRefreshAtomic).
NeverWithoutData ==
  built /\ plan.mode = "full-refresh" /\ plan.ddl # "drop" =>
    \/ target.kind = "table"
    \/ plan.ddl = "rename" /\ \E r \in 1..MaxRuns : temps[r].kind = "table"

\* A run that ended leaves no temporary table, on no path of error, unless it
\* crashed, its rename failed (the rows are kept on purpose) or its drop failed.
NoTempLeft ==
  pc = "idle" => \A r \in 1..run : temps[r].kind = "table" => r \in excused
============================================================================
