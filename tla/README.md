# A verification project for sling-cli

sling-cli moves data: it reads streams from databases, files and APIs and writes
them to databases and files (`sling run`), runs them in bulk (replications and
pipelines), and materialises a graph of SQL models (`sling build`).  This
directory holds TLA+ models of the parts of it in which goroutines, processes,
failures and cancellations meet, the TLC configurations that check them, and TLAPS
proofs.  Every definition that stands for code names its lines in `PROJECT.json`
(`map`).

## The system

| Component | Where (under `src/`) | State it keeps | Operations | What makes it correct |
|---|---|---|---|---|
| Build compilation | `cmd/sling/sling_build.go`, `core/sling/build/{build,selector}.go` | graph, order, selection, sub-projects, semaphore | BuildDAG, TopologicalSort, Selector.Apply, Execute | a topological order, refused exactly for cycles; what is executed is what was asked for; every project is tried and reported |
| Build scheduler | `core/sling/build/executor.go` | ready queue, counters, failed set, results, heartbeats | dispatch, run, record, stop, report | dependencies first; nothing runs below a failure; one result per node; the build returns |
| Model materialisation | `core/sling/build/executor.go` (executeModel ff.), `ddl.go` | target and temporary tables of a model, watermark, range | full refresh, view, truncate, append, incremental, ranges | a reader never loses the rows; no row is left out or doubled, over failed and crashed runs |
| Replication run loop | `cmd/sling/sling_run.go` | list of tasks, FailErr, cleared targets, counters | replicationRun, runTask, setTimeout | success means that every stream was loaded; a chunked table is cleared once |
| Task execution | `core/sling/task*.go` | status, error, target, temporary table, cleanup functions | Execute, WriteToDb, Cleanup, StateSet | all or nothing; success means written; temporary tables are dropped; an interrupt returns |
| Dataflow and datastream | `core/dbio/iop/{dataflow,datastream,datastream_batch}.go` | batches, pause flags, columns | Push, Pause, AddColumns, CloseCurrentBatches | no row lost, repeated or written in a batch without its columns; no stream waits for ever |
| Queues and API sources | `core/dbio/iop/queue.go`, `core/dbio/api/api.go` | queue file, sentinel, read positions | Append, FlushAndDone, Next | every consumer gets every record, whole and once; every stream ends |
| DuckDB session | `core/dbio/iop/duckdb.go` | process, current query, scanner, timers, watchers | Open, ExecContext, StreamContext, Close | a success was executed; queries do not disturb each other; every query returns |
| Replication configuration, hooks, pipelines | `core/sling/{replication,config,hooks,pipeline}.go` | stream configurations, runtime state | parse, defaults, wildcards, chunks; pre, post, start, end | chunks partition the range; hooks see the status of what they follow |
| Bulk loads through files | `core/dbio/filesys/fs.go`, `core/dbio/database/database_{duckdb,bigquery,starrocks,snowflake,databricks,redshift}.go` | files, pipes, channel of files, stage, temporary table | WriteDataflowReady, importVia..., StreamLoad, CopyVia... | what is merged has every row; a fault is noticed before the merge; the import returns |
| Other drivers, file systems, connections, formats | `core/dbio/database`, `filesys`, `connection`, `iop` | connections, transactions | open, exec, begin, commit | transactions are atomic (assumed) |
| Command line, store, environment, assistant | `cmd/sling`, `core/store`, `core/env` | flags, run records | parse, signal, save | no logic of their own on the data path |

How they interact.  The command line loads a replication or a pipeline and calls
`runTask` for each stream, under one context that an interrupt or SLING_TIMEOUT
cancels (`ReplicationRun`).  `runTask` starts a status goroutine, calls
`TaskExecution.Execute` and publishes the final status when it returns; `Execute`
starts the writer, waits for it or for the cancellation, runs the cleanups and the
post-hooks (`TaskRun`).  The writer opens a dataflow on the source and gives it to
`WriteToDb`, which imports its streams into a table while they find new columns
(`Dataflow`), directly or through files that a bulk loader takes up (`StagedLoad`); files
and DuckDB targets go through a DuckDB process (`DuckDb`), and the endpoints of
an API hand records to each other through queue files (`ApiQueue`).
`sling build` compiles models into a graph and selects nodes of it
(`BuildProject`), runs them with a pool of workers (`BuildExecutor`), and each of
them writes its table (`BuildModel`); a seed is itself a task.

What is hard in it: a goroutine that is given up after a grace period and goes on
running; a mutex and a condition variable around the queue of the build; streams
that stop each other, over channels without buffers, to alter the table they all
write; a process whose output is only divided by markers and timers; a file that
is tailed while it is written; files that are announced before it is known whether
they were written, to loaders that look for errors at different times;
statements without a transaction, with a crash between two of them; marks in a map shared by all tasks of the process.  `hazards`
in `PROJECT.json` lists each at its line, with the properties about it, and says
where a property makes an exception and why.

## Modules

| Module | What it is |
|---|---|
| `BuildProject` | from a directory to the nodes that are executed; the pool of independent projects |
| `BuildExecutor` | the scheduler: main goroutine, worker pool, heartbeats |
| `BuildPromise` | what a build promises: nodes settle once, on good dependencies or for a stated reason |
| `BuildModel` | one model into its table, statement by statement, over several runs |
| `ReplicationRun` | the loop over the streams of a replication |
| `TaskRun` | one stream into a database table: main, writer, late cleanup, status goroutine, tables |
| `Dataflow` | the rows between source and table: streams, batches, pauses, schema changes, importer |
| `StagedLoad` | the files between a dataflow and its target: encoders, writers, loaders, the counts before the merge |
| `ApiQueue` | the queue file between API endpoints, in one process or several |
| `DuckDb` | a DuckDB session: caller, process, scanner, timers, watchers |
| `BuildProject_proofs`, `BuildExecutor_proofs`, `BuildModel_proofs`, `ReplicationRun_proofs`, `TaskRun_proofs`, `Dataflow_proofs`, `StagedLoad_proofs`, `ApiQueue_proofs` | theorems |
| `MC*` | the instances TLC enumerates |

The modules meet at their interfaces, not in one product.  `BuildExecutor` assumes
of its input what `OrderIsTopological` shows of `BuildProject`'s output;
`ReplicationRun` takes as the outcomes of Execute those that the properties of
`TaskRun` leave; the writer of `TaskRun` sees a dataflow that fails or delivers
all rows, which is `EveryRowOnce`.  `BuildExecutor` implements `BuildPromise` by a
refinement mapping that is both checked and proved.

### BuildProject

`BuildDAG`, `Pop` and `SortEnds` are BuildDAG and TopologicalSort, `SelectNodes` with
the pattern operators is Selector.Apply, `Spawn`, `PoolDone` and the steps of a
project are the loop over the independent projects with its semaphore, wait group
and error channel.  Names are numbers in sorted order; references found in
templates and SQL, and what a glob, tag or path matches, are given as sets.  The
sort is one step per node taken, so that its loop invariant can be seen.
`SelectsAsAsked` compares the walks of the code with the meaning of a selector said
without a walk (least fixed point, existence of a path).

### BuildExecutor and BuildPromise

The variables are the fields and locals of `Executor.Execute` under their own
names (`ready`, `started`, `inFlight`, `completed`, `remaining`, `failedSet`,
`stopped`, `Results`).  A critical section of `mu` is one action: taking a node
from the queue (with `cond.Wait` inside), and recording a result (with the
release of dependents and `cond.Broadcast` inside).  Everything between two
critical sections - the test of `failedSet`, the execution of the node, the stop
of its heartbeat - is a step of its own.  A heartbeat takes its snapshot in one
step and posts it in another, so that a final status can fall between them.  What
a node does to its database is "ok" or "err" here.

`BuildPromise` has neither workers nor counters.  The refinement mapping takes
`outcome[n]` from `Results` and `ret` from the value Execute returned.

### BuildModel

Each statement is an action: it is answered, or it fails; a crash may come before
any of them.  There is no transaction, so every statement is permanent.  A row is
a key with a version (its `update_key`); tables are bags, since nothing keeps a key
unique.  The result of the model's query changes while the model is built, each
change with a version above all earlier ones: rows that arrive late with an old
`update_key` are out of scope, as they are for the code.  One process builds a model
at a time.  The merge is delete+insert; the other merge strategies and the
dbt-style recompilation are left out, and the state store is not in this
repository.  `doubled` marks a target in which a failed DELETE was followed by its
INSERT (see below).

### ReplicationRun

The goroutine of replicationRun (`pc`) with the signal handler and the timer
beside it.  `ProcessChunks` replaces a chunked stream by its parts.  Execute is one
step with the outcomes of `TaskRun`, among them that of a writer which was given up
after a cancel and takes the error back when it ends: Execute then returns no error and
the stream counts as a success, shown as terminated or timed out (`CancelStatus`).
Warnings count as success, the ranges of the
chunks come from the database.  A table holds the set of loads whose rows it has,
with 0 for the rows from before.  A stream that fails before Execute (its
preparation, or FailErr) is counted as failed but shown to end hooks as "created".
An interrupt between two streams makes replicationRun return nil: the properties
name it (`interrupted`).

### TaskRun

`main`, `writer`, `cleaner` and `hb` are the places of the four goroutines.  The
variables of the code that they share (`t.Err`, `newStatus`, `t.Status`, the
override `new_status` and the mark `temp_table_dropped:<name>` of
`t.Context.Map`, `t.cleanedUp`, `t.Context.Mux`) are variables of the model.
`t.Err` and `newStatus` are written without a lock in the code and so by any
interleaving in the model.  A table is the set of batches it holds: the old rows,
the new rows, a part of them, rows left by a crashed run.  `work` is the target
as the open transaction sees it, `target` as it is committed: they differ only
where the database has transactions that cover DDL (`task.tx`).  A failing call
of `WriteToDb` is the action `Fails`; calls that can fail after they have
changed something (`Define`, `LoadTemp`, `LoadTarget`, `PrepareFinal`) have a
parameter for it.  The writer may also hang: none of its calls is fair.

### Dataflow

Every stream is a goroutine that reads a row, handles the changes of
`schemaChgChan`, pushes the row into its open batch and may be sent back to
`it.Reprocess`.  `pusher` is PushStreamChan, `main` is WriteToDb and the importer.
Pausing is modelled stream by stream, with its time limits as choices.  The types
of columns are abstracted: a value that does not fit is an event that needs the
handler.  The runs have at most two streams, the theorems any number; Arrow, row limits,
`batch_max_duration`, inference and casting are left out.  `late` is a stream that was appended between df.Pause
and CloseCurrentBatches; `misfit` is the importer's stop at a batch with a column
that the table does not have; a `Lost` stream was paused and unpaused by two goroutines at
once and waits for nobody.  With one, as after an error, the run may stop (`Over`).

### StagedLoad

`enc[s]` is the goroutine of NewCsvReaderChnl for stream s, `proc[s]` that of
processStream, `w[f]` the one of writePart for file f, `wd` WriteDataflowReady itself,
`ld[f]` the goroutine that loads f, `alter` the handler of a column change and `pc` the
caller: the import, then WriteToDb.  A file is the number of its rows on disk, on the
stage and in the table, so that what was lost can be said per file.  `plan.driver`
chooses between six ways to take the files: one after the other (DuckDB), a job or a
request per file (BigQuery, StarRocks), a stage and one COPY (Snowflake, Databricks),
a bucket and one COPY (Redshift, Snowflake with S3), and the file as the target.
They differ in when they look at df.Err() and in what they wait for, and that is what
the properties are about.  Whether CaptureErr also cancels the context is not in this
repository: after an error a stream may stop or go on.  CSV only; limits by bytes,
compression, the Arrow and DuckDB ways of writing files, `ignore_existing` and the
loads over HTTP or Google Storage are left out.  The row lost in a failing io.Copy is
the one being flushed.

### ApiQueue

A line is one cell of the file, or two if a reader may see a part of it.  Streams
of one process share its Queue (mode and positions), and streams of other processes
have their own on the same file.  Producers are queue_only endpoints (the others
never write the sentinel), in one process or several.  `wpos` is where a process
writes next: NewQueue opens the file at its beginning and without O_APPEND, so `Put`
overwrites what another process may have put there.  Cells have one size and are seen at
once, so what is left of overwritten lines is approximate; the properties claim nothing
of them (`Apart`).  `done` is the set of producers that have written the sentinel, which
is there with the first of them; `late` are the readers it misleads.  After it the teardown
may still fail.  What starts and cancels the processes is external; a write that fails
midway is left out.

### DuckDb

`proc`, `stdin`, `stdout`, `stderr` are the process and what is between it and the
session; the scanner, the two 25 ms timers, a watcher for each query and the
caller are goroutines.  A query is `exec` (ExecContext), `print` (a DESCRIBE or
PRAGMA read from stdout, as before each SELECT) or `select` (rows from a named
pipe).  The early returns are the ones of the code: a process or a named pipe
that cannot be made (`OpenFails`, `Submit`), an error found while the output was opened
(`OutputOpens`), an error found after the sample (`Sampled`).  `broken` says that the
scanner met a line it cannot hold and stopped; the watcher finds out.  `kill` is two
steps, `connected` first and the process afterwards, so that others may act in between,
and a watcher that has decided may do both long after its query.  `seen` is what
waitForResult saw when it looked at the error.

Timing that the code relies on is assumed: what was printed is scanned within the 25 ms
(`InTime`); what a killed process had printed is scanned before another one starts, and
none starts between the two statements of a kill; the watcher of the opening query
(`0`) is through before another opening; a stall is detected only when the process hangs
or has nothing left to do.  One goroutine makes the queries.

## Runs

| Run | Checks | On |
|---|---|---|
| `build_runs` | NoRunBelowFailure, OneResultPerNode, Termination, KeepsPromise, ReportsAreFinal | two workers; all graphs of a seed and three models; all flags, heartbeats and failing connections on three nodes |
| `project_runs` | OrderIsTopological, SelectsAsAsked, ProjectsReported, Returns | all graphs of three models, cyclic ones too; every selector on chain, diamond and shortcut; three independent projects |
| `model_runs` | FreshAfterSuccess, RangeLoaded, NeverWithoutData, NoTempLeft | three runs of a model in every mode, two keys, three versions |
| `replication_runs` | SuccessIsComplete, ChunksReplace, EveryStreamCounted, RunsShowOutcome | up to four tasks into two tables |
| `task_runs` | AllOrNothing, SuccessMeansWritten, TempDropped, PostHooksSeeStatus, InterruptReported, NoLateCommit, CancelReturns | nine kinds of task |
| `dataflow_runs` | EveryRowOnce, RowInItsBatch, NoSendOnClosed, NoRowDuringHandler, PausedResumes | two streams of up to three rows, one new column |
| `queue_runs` | Broadcast, ReadIsComplete, StreamsEnd | a producer with two tailing and a deferred reader; four streams of one process; two producers in processes of their own |
| `duck_runs` | SuccessMeansExecuted, OwnOutcome, QueriesReturn | sessions of up to three queries, with every fault |
| `staged_runs` | MergedIsWhole, NoFalseAlarm, StagedFilesLast, NoLoadDuringAlter, ImportReturns | six loaders, every fault on one stream, several on two, column changes, empty streams |
| `build_test_seeds` | TestsEveryModel (violated) | finding 1 |
| `replication_clear` | ClearedIsReloaded (violated) | finding 2 |
| `queue_drained` | DoneAndDrained (violated) | finding 3 |

Every property has a mutant in `PROJECT.json`: a plausible fault in the code that
makes TLC find the property violated.  The runs list what could be wrong with the code;
`TypeOK` of a module says what its variables hold, and is proved where there are proofs.

Bounds.  *Builds*: two workers are enough for each hazard listed (one records while
the other tests, waits or runs); four nodes give a node with two dependencies of
which one fails, a diamond, and a node left in the queue by fail-fast.  Selectors
need four nodes, so that a path of two edges differs from one of three and a
shortcut from both.  *Models*: three runs are a run that fails or crashes, one that
goes on after it, and one more on what both left; two keys differ in whether they
changed; three versions are before, during and after; ranges of three values in
steps of none, one and two have a last chunk that is full and one that is not.
*Replications*: two tables and four tasks have a chunked stream beside another one
into the same and into another table.  *Tasks*: one run is finite and needs no
bound; the nine tasks are one for every way through the writer, and the theorems
hold for every combination of options.  *Dataflow*: two streams are one that pauses and one
that is paused; three rows are one before, one with and one after a change; two of the
plans have both streams meet a change, so that two goroutines pause each other.
*Queue*: lines of one and two cells, up to two items from a producer; with two
producers in two processes up to one from each, so that one overwrites the other's.  *DuckDb*:
`MaxAttempts` is 2 where the code has 5; `Pipe` is 1 row, so that the pipe is full
with the second; `Sample` is 1 row where the code has 900, so that an error can come
before and after it; three queries are a disturbed one and two after it; a process dies or
hangs under one query of a session.  *Staged loads*:
three rows in files of two make a full file and one that is not, three rows of one
stream and one of another make an encoder wait for the mutex of a stranded one;
`Room` is 1 where the code has 3 or 10, so that the channel is full with the second
file; two loads at once are enough to lose an addition.

Fairness.  Goroutines that can run do (weak fairness).  Beyond that:
- Build: the two places where a heartbeat goroutine is joined are strongly fair: a
  closed `done` is a ready case of its `select` from then on, and Go picks uniformly
  among ready cases.  A node being run ends.
- Task: a goroutine blocked on the mutex gets it (strong fairness), since Go's
  mutexes hand over to a waiter that starves; the drop of a temporary table is
  answered.  The other calls of the writer are not fair: `CancelReturns` holds even
  if none of them ever answers.
- Dataflow: the same for df's mutex, for every goroutine that holds the dataflow paused;
  handlers and imports end.
- Project: databases and templates answer.
- Queue: the context's case of a `select` is taken at some time (strong fairness);
  whoever runs the streams cancels the others when one has failed.
- DuckDb: the process goes on with what it was given unless it hangs; timers fire.
  Nobody has to cancel, stop reading, die or hang.
- Staged loads: some step is taken as long as there is one (`WF_vars(Next)`); every
  behaviour is finite, so this only excludes stopping, and a call that hangs.
- `BuildModel` states none (its properties are safety); `ReplicationRun` states
  that the loop goes on.

Assumptions.  Five seconds are enough for the writer goroutine to be scheduled
once (`GraceOver`).  A transaction of a cancelled context neither begins nor
commits (`database/sql`, `BaseConn.Commit`).  A single statement is atomic where
there is a transaction, and in `BuildModel` everywhere.

## Theorems

All theorems hold for every value of the constants: any graph, options and number
of workers; any set of tasks; any list of streams; any models, projects, queues,
dataflows and loads through files.  They use the assumptions that the modules state and TLC
evaluates (`ASSUME`), which say what shape a plan has: that names are numbers and
finitely many, that a queue is kept if several processes use it and that a deferred consumer
waits for the producers of other processes, that only one stream writes a single file.

*Scheduler* (`BuildExecutor_proofs`).  The properties are
not inductive: that a worker holds a node whose dependencies have ended follows
from the counters, and only if each counter equals the number of selected
dependencies that have no result, the queue holds no started node and none twice,
and `inFlight` counts the workers between dispatch and record.  The inductive
invariant is the conjunction of these facts with the phases of the main goroutine
and of the heartbeats; `Invariance` proves it, the others follow:
`TypeCorrect`, `DependenciesComeFirst`, `NothingRunsBelowFailure`,
`EveryNodeHasOneResult`, `FailFastStopsDispatch`, `ReportsStayFinal`.
`SchedulerKeepsPromise` is the refinement: initial states map to initial states
and, under the invariant, steps to steps or stutters.

*Task run* (`TaskRun_proofs`).  `IndInv` is the type invariant with five parts:
`MutexHeld` (who is inside a critical section holds the mutex), `MainPhase` (how
far the writer is when main has left its wait, the part that makes a late writer
harmless), `TablePhase` (what the committed and the working table hold at every
step of the writer), `TempPhase` (an owed drop is registered and the cleanup not
yet done, or the table is about to be registered) and `StatusPhase` (the override
is there from settling to assignment).  `TaskInvariance` proves it step by step;
from it follow `TaskTypeCorrect`, `TargetIsAllOrNothing`, `SuccessIsTruthful`,
`TempIsDropped`, `HooksSeeStatus`, `StatusIsFinal`, `InterruptsAreReported`, and the
action property `GivenUpWriterIsHarmless`.

*Replication* (`ReplicationRun_proofs`).  That a success has loaded everything is
not inductive: one needs that the streams before `i` are exactly those counted
(`Counted`), that a counted success still has its rows or a later load replaced
them (`LoadedKept`), and for chunked tables that the table was cleared before its
first part (`ClearedFirst`) and holds nothing but parts since (`ChunkTables`); with
`LoopPhase`, `Published`, `NilPhase` and `HooksPhase` they form the inductive
invariant of `ReplicationInvariance`.  From it follow `ReplicationTypes`,
`SuccessComplete`, `ChunksReplaceAll`, `StreamsCounted`, `HooksSeeOutcome`, `HooksRun`
and the action property `PartsAreKept`.

*Compilation* (`BuildProject_proofs`).  `ProjectInv` holds the loop invariant of the
topological sort: the degree of a node counts its dependencies that are not in order
yet, and the queue holds the other nodes without any (`Sorting`); every node in order
comes after all it depends on (`Behind`).  When the queue runs empty, either all
nodes are in order, or each of those left waits for another of them: a knot.  A graph
that has been put in order has no knot, since one of the knot's nodes would come first
in the order.  `OrderCorrect` follows.  `SelectionCorrect` needs nothing of the steps but
that what a project compiled is an application of its selectors; the work is to show
that the walks of the code reach the ends of paths (`ReachNIs`), and all of them, the
least closed set, after as many steps as there are nodes (`ReachIs`).  For the pool,
`Slots` ties the semaphore to the projects at work and `Kept` the lists to the reasons
of failure; from them `ReportsCorrect`, `PoolBounded` and `ErrorsFit` (no goroutine
waits for room on `errCh`).

*Models* (`BuildModel_proofs`).  `StepInv` says where a run may be for its mode
(`OnPath`), which temporary tables are there and whose (`TempsAccounted`) and where
the rows of a full refresh are (`RowsKept`); from it `TempsDropped` and `NeverLost`.
That a model is fresh after a success cannot be shown from the last run alone, since
an incremental run starts at the watermark that the earlier ones left.  `Fresh` adds
that the target never has two rows of a key (`Tidy`) and that its watermark passes no
row it lacks (`NoGap`); a crash between any two statements keeps both, because the
staged rows all lie above the rows that stay (`Above`).  `FreshCorrect` follows.  For
`--range`, `RangeKept` says that all before the range of a run is loaded, that its
chunks leave no gap (`Chained`, by the arithmetic of the steps) and that the staged
rows are those of their chunk; from it `RangeCorrect`, over any number of runs.

*Queue* (`ApiQueue_proofs`).  A consumer has been given the lines of the first n
cells of the file, where n is its position less what it holds of an unfinished line,
and n is the end of a line (`Given`).  For that the cells must form lines (`FileOk`),
the streams of a process must take turns (`Turns`), since they share its position, and a
tailing reader must be inside the file (`InFile`).  All this is so while the queue is
`Intact`: one process at most has written it, and it has not been removed.  That process
then writes at the end of the file (`Written`), and its producers may be many.  Where two
processes write, the invariant keeps types and positions only, and the theorems claim
nothing.  `BroadcastCorrect` follows.  `ReadsComplete` needs `Finished` also: once a
consumer is at its end, no producer appends; for a tailing reader because all of them are
done (`AllDone`), which is what fails for those in `late`.

*Dataflow* (`Dataflow_proofs`).  `FlowInv` has a part for every question.  `Positions`,
`Arrivals` and `Import` say where a goroutine may be, that streams join in their order
and are imported in it, each after the one before is closed.  `InHands`: what has been
read of a stream is what was received and the one row in hand, which is the row of the
loop, or `it.Reprocess`, or neither; wherever a waiting stream was sent away from (`Place`).
`RowsOnce` follows, since the importer ends only after every stream has closed.
`AllColumns`: the columns of a stream are those of its open batch and of its queued
changes, and a row is pushed only with none queued, except the first; `RowsFit` follows.
The pauses are the hard part.  Whom a stream waits for cannot be told from `ds.paused`,
which Batch.Shape also writes.  `Owns(a, s)` says it from the loop of a: the streams it has
got, those it has still to unpause and, when it has them all, those that were in the
dataflow before it (`Firm`).  `Owners`: an owned stream waits, and for one actor only; two
actors hold the dataflow at once only when the second is the writer of the table and no
stream is open.  So who closes batches has all others waiting (`NoSendCorrect`), and while a
handler runs the stream being imported is behind the one that called it, and cannot be:
that one would have been closed and imported before (`HandlerAlone`).

*Staged loads* (`StagedLoad_proofs`).  `LoadInv` follows a row from its stream to the
table.  `Accounts`: what is in the files of a stream and in the hand of its encoder is
what the stream has counted if none of its files has failed, and less if one was cut
short (a single file that is begun again is excepted).  `Passage`: an announced file is in
the channel, being loaded, or loaded with all it holds.  `After`: what can be true when
the import has returned.  The code compares one sum over all files with one over all
streams.  That whole streams give equal sums (`RowsWhole`) makes that no false alarm;
that a short one gives a smaller sum, no other stream having a row too many
(`RowsByStream`), makes it see the loss.  From the invariant follow `WholeCorrect`,
`NoAlarmCorrect`, `FilesLast` and `NoLoadCorrect`.

Proved and not checked by a run of its own, since the theorem says more than a
small instance would: the type invariants (that of `Dataflow` among them), `DependenciesFirst`, `FailFast`,
`FinalStatusSticks`, `EndHooksRun`, `PartsStay`, `PoolBounded`, `ErrorsFit`.

Only model-checked: liveness (`Termination`, `CancelReturns`, `PausedResumes`,
`Returns`, `StreamsEnd`, `QueriesReturn`, `ImportReturns`), which is outside the
prover; and so far everything about `DuckDb` (`SuccessMeansExecuted`, `OwnOutcome`).

## Findings

1. `sling build test` skips every seed, and a skipped seed counts as failed unless
   `--no-seeds` was given; the models below seeds are skipped, their tests do not
   run, and the build succeeds (`executor.go:380`, `build_test_seeds`).
2. The table of a chunked stream is cleared before the loop looks whether the
   stream is disabled and before a dry run returns: both drop or truncate the target
   and nothing re-creates it (`sling_run.go:721`, `replication_clear`).
3. The reader of a queue looks at the file and then for the sentinel; records
   appended between the two are lost (`queue.go:479`, `queue_drained`).

Other places where a property had to name an exception, each seen as a
counterexample of the property without it:

- *BuildProject.*  Sub-projects are capped to one thread for a single-writer target
  only if the target is known at the root, which has no configuration of its own; two
  sub-projects with the same DuckDB target run at once (`build.go:277`; `OneWriter`,
  which no run lists).
- *TaskRun.*  A writer that hangs while it creates the temporary table registers
  the cleanup after the late cleanup has run; the table stays.  A writer that was
  given up assigns `t.Err` when it ends, and an interrupted run can return no error.
  The mark `temp_table_dropped:<name>` stays in the context of the process: the
  second stream into the same table does not drop its temporary table.  The row
  count check of a direct write compares the rows of a chunk with all the rows of
  the table.
- *Dataflow.*  MergeColumns merges the columns of a later stream into df.Columns
  before AddColumns looks for new ones, so the table never gets them.  A stream
  appended while the dataflow is paused runs on and may send on a batch that is
  being closed.  When WriteToDb returns with an error between df.Pause and
  df.Unpause, the streams stay paused.  Datastream.Unpause sends and then clears ds.paused,
  without a lock against the importer, which pauses the same stream in Batch.Shape
  (`datastream.go:2601`, `datastream_batch.go:181`): the clearing of one may follow the
  setting of the other, which then does not unpause, and the stream and the load wait for
  ever (`Lost`, excepted in `PausedResumes`).  The first row of a later stream of which
  nothing was sampled (`datastream.go:995`) is pushed before its stream joins, and may be
  imported in a batch without the column it showed (excepted in `RowInItsBatch`).
- *BuildModel.*  ExecMulti executes the INSERT although its DELETE failed; the keys
  are doubled, and later runs do not repair all of them.
- *DuckDb.*  An error set between the two looks of waitForResult is lost
  (`ErrorMissed`), and a cancelled exec that the scanner has ended before the watcher set
  the error is returned as a success (`EndedByCancel`).  A process that dies while idle leaves
  `connected` true, and every later query fails.  A failed set-up leaves a usable
  session whose late marker can end the next query.  The remaining statements of
  a failed list run on, and their errors reach the next query.  Close waits for a
  hung process before its kill timer starts.  A late watcher of an earlier query kills
  the process that was opened for the next one, and `connected` stays true
  (`duckdb.go:788`): the queries after it fail (`early`).  A query that fails while its output
  is opened leaves its COPY running, and the COPY's own failure reaches the next query
  (`duckdb.go:1267`; `early`).  A datastream that StreamContext returns with an error
  after its sample (`duckdb.go:1340`) is closed by nobody: its goroutine blocks,
  duck.Context stays locked and the next query waits for ever (`left`, excepted in
  `QueriesReturn`).
- *ApiQueue.*  Producers in two processes overwrite each other's lines, since each
  opens the queue file at its beginning and without O_APPEND (`queue.go:70`; `Apart`).
  The first producer that ends marks the queue as done for all of them (`queue.go:40`), and
  tailing readers end before the others have produced (`late`).  A producer whose teardown
  fails has marked its queue before (`api.go:352`): the stream fails, its readers end well.
- *ReplicationRun.*  A stream that was cancelled, and whose given-up writer took the error
  back, counts as a success and is shown as terminated or timed out.
- *StagedLoad.*  importViaTempCSVs returns df.Count() without a look at df.Err(): after
  the source has failed the rows read so far are merged and committed, and then the
  task fails (`database_duckdb.go:370`).  If no row was loaded by then and the first
  stream has none, the load is reported as empty and without an error, since WriteToDb
  returns before it looks at df.Err() (`task_run_write.go:414`).  A single file keeps
  its name when the columns change, and its second part overwrites the first
  (`fs.go:919`).  processStream leaves its loop on an error while the encoder may be flushing, with the mutex of the dataflow
  held, into a file nobody will take: the encoders of all streams stop, and so does
  the import unless something else ends it (`fs.go:948`).  A file system client that
  cannot be made inside the goroutine leaves the channel of files open for ever
  (`database_duckdb.go:317`).  StreamLoad adds up loadedRows in several goroutines
  without a lock and may refuse a complete load (`database_starrocks.go:655`).  Only the
  first stream is looked at to tell an empty load: with it empty, a file target is not
  written although other streams have rows (`task_run_write.go:33`).

## Not modelled

The map covers a small part of the implementation's lines.  Most of the rest is
wide and not deep: forty-odd database drivers and file systems that translate
between one interface and a remote system (`core/dbio/database`, `filesys`,
`connection`), parsers and encoders of CSV, JSON, Parquet, Arrow, Excel and types
(`iop`), templates and SQL text, flags, prompts.  They are sequential translations
of values, they keep no state across calls that two actors share, and what they
compute is tested better on inputs than on abstract states.  Where they take part
in a protocol (transactions, the pipe of DuckDB, the queue file, the importer) the
protocol is modelled from the caller's side.

Of the modelled components: files as source, API sources as a source of a
task, change data capture and the Iceberg merge of `TaskRun`; seeds and data tests
of a model; merge strategies other than delete+insert; the request loop of API
endpoints, which is not in this repository; pipelines.  `components` in
`PROJECT.json` gives the reason for each.

## Plan

1. Done: the scheduler of builds, its promise, its proofs.
2. Done: one stream into a database, its proofs.
3. Done: the replication loop and its proofs; dataflow; model materialisation;
   compilation and selection; API queues; the DuckDB session; loads through
   staged files.
4. Done: proofs about compilation, models, queues, staged loads and the dataflow.
5. Next, the proofs about `DuckDb`: `OwnOutcome` needs to know, for every line in the
   pipe, which query it answers.
6. Then the pipeline's loop, and the Arrow way of writing files.
