------------------------------ MODULE TaskRun ------------------------------
(***************************************************************************)
(* One run of a stream into a database table: runTask (cmd/sling/           *)
(* sling_run.go), TaskExecution.Execute and runDbToDb (core/sling/          *)
(* task_run.go), WriteToDb (core/sling/task_run_write.go) and Cleanup       *)
(* (core/sling/task.go).                                                    *)
(*                                                                          *)
(* Four goroutines share the task: `main` waits in Execute for the writer   *)
(* or for the context to be cancelled; `writer` reads the source and writes *)
(* the target through a temporary table; `cleaner` is the cleanup that main *)
(* starts when the writer does not stop within the grace period; `hb`       *)
(* publishes the status every few seconds.  t.Err and newStatus are shared  *)
(* by main and writer without a lock; t.Context.Mux serialises cleanups and *)
(* status updates.                                                          *)
(*                                                                          *)
(* Table contents are abstracted to the batches of rows they hold: "old",   *)
(* what the target held before; "new", all the rows of this run; "part",    *)
(* some of them; "stale", rows of a crashed run left in the temporary table.*)
(***************************************************************************)
CONSTANT Tasks  \* the tasks considered, a set of Task records

(***************************************************************************)
(* A task: its mode, whether it writes into the target without a temporary  *)
(* table, whether the target database has transactions that cover its DDL,  *)
(* whether the table already exists, whether it is a chunk of a chunked     *)
(* load, whether the source has rows, SLING_ALLOW_EMPTY, whether column      *)
(* constraints will fail, ignore_existing, and whether an earlier stream of  *)
(* the same process wrote to the same table.                                *)
(***************************************************************************)
Task == [mode : {"full-refresh", "truncate", "incremental", "definition-only"},
         direct : BOOLEAN, tx : BOOLEAN, existed : BOOLEAN, chunked : BOOLEAN,
         rows : BOOLEAN, allowEmpty : BOOLEAN, warns : BOOLEAN,
         ignore : BOOLEAN, again : BOOLEAN]

ASSUME TasksAssumption == Tasks \subseteq Task

VARIABLES
  task,       \* t.Config
  main,       \* where the goroutine of Execute is
  writer,     \* where the goroutine of the run function is
  cleaner,    \* where the late cleanup goroutine is
  hb,         \* where the status goroutine is
  cancelled,  \* t.Context.Ctx: "no", or what cancelled it
  cut,        \* main left its wait because of the cancellation
  tErr,       \* t.Err
  newStatus,  \* newStatus of Execute
  override,   \* "new_status" in t.Context.Map
  status,     \* t.Status
  published,  \* run.Status of the runtime state, what hooks are shown
  ret,        \* what Execute returned
  mux,        \* t.Context.Mux
  registered, \* the cleanup function of the temporary table is registered
  cleanedUp,  \* t.cleanedUp
  target,     \* the target table, as committed
  work,       \* the target table, as the writer's connection sees it
  tmp,        \* the temporary table
  werr,       \* what the run function is about to return
  dropKey     \* "temp_table_dropped:<name>" in t.Context.Map

tableVars  == <<target, work, tmp>>
statusVars == <<newStatus, override, status, published>>
cleanVars  == <<mux, registered, cleanedUp, dropKey>>
goroutines == <<main, writer, cleaner, hb>>
vars == <<task, goroutines, cancelled, cut, tErr, ret, werr, statusVars, cleanVars, tableVars>>

Rows == {"old", "new", "part", "stale"}
Table == [exists : BOOLEAN, rows : SUBSET Rows]
NoTable == [exists |-> FALSE, rows |-> {}]
Holding(r) == [exists |-> TRUE, rows |-> r]

\* A temporary table is `owed` until the run that created it has asked the
\* database to drop it.
TempTable == [exists : BOOLEAN, owed : BOOLEAN, rows : SUBSET Rows]
NoTemp == [exists |-> FALSE, owed |-> FALSE, rows |-> {}]

Final == {"success", "warning", "error", "terminated", "timed-out"}
TypeOK ==
  /\ task \in Tasks
  /\ main \in {"wait", "grace", "cleanup", "cleaning", "interrupt", "settle", "publish",
              "postHooks", "return", "lastSet", "exit"}
  /\ writer \in {"start", "preHooks", "read", "dropTemp", "define", "createTemp",
                "addCleanup", "createTarget", "load", "verify", "prepareFinal", "merge",
                "commit", "post", "cleanup", "cleaning", "finish", "end"}
  /\ cleaner \in {"off", "cleanup", "cleaning", "end"}
  /\ hb \in {"tick", "select", "set", "publish", "off"}
  /\ cancelled \in {"no", "interrupt", "timeout"} /\ cut \in BOOLEAN
  /\ tErr \in {"nil", "err", "interrupted"} /\ ret \in {"none", "nil", "err"}
  /\ werr \in {"nil", "err"}
  /\ newStatus \in {"none"} \cup Final /\ override \in {"none"} \cup Final
  /\ status \in {"running"} \cup Final
  /\ published \in {"created", "running"} \cup Final
  /\ mux \in {"free", "main", "writer", "cleaner", "hb"}
  /\ registered \in BOOLEAN /\ cleanedUp \in BOOLEAN /\ dropKey \in BOOLEAN
  /\ target \in Table /\ work \in Table
  /\ tmp \in TempTable

\* What the source holds.
SourceRows == IF task.rows THEN {"new"} ELSE {}

\* What the target held when the run started.
InitialTable == IF task.existed THEN Holding({"old"}) ELSE NoTable

-----------------------------------------------------------------------------
(* Small decisions of the code, each one operator.                          *)

\* Faulty variants used to show that the properties can fail.
AlwaysAllows == TRUE
WritesThrough(t) == work' = t /\ target' = t
ForgetsTemp == FALSE

\* The cleanup function of the temporary table is there, and the table is not
\* already marked as dropped.
DropsTemp == registered /\ ~dropKey

\* Replaces the whole table: drop and create, or truncate.  A chunked load has
\* been cleared once by the replication, before its first chunk.
ReplacesTarget == task.mode \in {"full-refresh", "truncate"} /\ ~task.chunked

\* BaseConn.Commit and BeginContext: a transaction of a cancelled context
\* neither starts nor commits.  Without transactions there is nothing to refuse.
ContextAllows == cancelled = "no" \/ ~task.tx

\* A statement that changes the target: seen by others at once, unless it is
\* inside a transaction.
WriteTarget(t) == work' = t /\ target' = IF task.tx THEN target ELSE t

\* The post-load row count check on the temporary table.
CountMatches(r) == tmp.rows = r

\* Nothing to write: the stream is empty and empty tables are not asked for.
NothingToDo == ~task.rows /\ ~task.allowEmpty

\* The row count check of a direct write, made for these two modes only.
CountIsChecked == task.mode \in {"full-refresh", "truncate"}

\* The run is to leave an existing table alone.
TargetIgnored == task.ignore /\ target.exists

\* The status Execute ends with; `passed`, whether the deadline of SLING_TIMEOUT
\* is less than a second away.
Settled(passed) ==
  IF tErr = "nil" THEN (IF newStatus = "warning" THEN "warning" ELSE "success")
  ELSE IF passed THEN "timed-out"
  ELSE IF newStatus = "terminated" THEN "terminated" ELSE "error"

\* t.Context.Mux can be taken.
Unlocked == mux = "free"

-----------------------------------------------------------------------------
Init ==
  /\ task \in Tasks
  /\ main = "wait" /\ writer = "start" /\ cleaner = "off" /\ hb = "tick"
  /\ cancelled = "no" /\ cut = FALSE
  /\ tErr = "nil" /\ ret = "none" /\ werr = "nil"
  /\ newStatus = "none" /\ override = "none" /\ status = "running"
  /\ published = "created"
  /\ mux = "free" /\ registered = FALSE /\ cleanedUp = FALSE /\ dropKey = task.again
  /\ target = InitialTable /\ work = InitialTable
  /\ tmp \in {NoTemp, [exists |-> TRUE, owed |-> FALSE, rows |-> {"stale"}]}

\* The user interrupts, or SLING_TIMEOUT elapses.
Cancel(why) ==
  /\ cancelled = "no" /\ main # "exit"
  /\ cancelled' = why
  /\ UNCHANGED <<task, goroutines, cut, tErr, ret, werr, statusVars, cleanVars, tableVars>>

-----------------------------------------------------------------------------
(* Cleanup, called by main, by the writer (deferred) and by the cleaner.    *)

\* Take the mutex, unless the cleanup has been done.
CleanupBegin(who, at, done, at1) ==
  /\ at = "cleanup" /\ Unlocked
  /\ IF cleanedUp THEN at1 = done /\ UNCHANGED mux ELSE at1 = "cleaning" /\ mux' = who
  /\ UNCHANGED <<cleanedUp, tmp, dropKey>>

\* Run the registered functions, which drop the temporary table; an error of the
\* drop is only logged.
CleanupEnd(at, done, at1) ==
  /\ at = "cleaning" /\ at1 = done
  /\ IF DropsTemp
     THEN tmp' \in {NoTemp, [tmp EXCEPT !.owed = FALSE]} /\ dropKey' = TRUE
     ELSE UNCHANGED <<tmp, dropKey>>
  /\ cleanedUp' = TRUE /\ mux' = "free"

Cleanup(who, at, done, at1) == CleanupBegin(who, at, done, at1) \/ CleanupEnd(at, done, at1)

cleanupKeeps == <<task, cancelled, cut, tErr, ret, werr, statusVars, registered, target, work, hb>>

MainCleanup ==
  /\ Cleanup("main", main, IF cut THEN "interrupt" ELSE "settle", main')
  /\ UNCHANGED <<writer, cleaner, cleanupKeeps>>

WriterCleanup ==
  /\ Cleanup("writer", writer, "finish", writer')
  /\ UNCHANGED <<main, cleaner, cleanupKeeps>>

CleanerCleanup ==
  /\ Cleanup("cleaner", cleaner, "end", cleaner')
  /\ UNCHANGED <<main, writer, cleanupKeeps>>

-----------------------------------------------------------------------------
(* The writer.  A call may fail, or may never answer.                       *)

writerKeeps == <<task, main, cleaner, hb, cancelled, cut, tErr, ret, override, status,
                 newStatus, mux, cleanedUp, dropKey>>

\* The pre-hooks fail, or the source cannot be read: nothing to clean up yet.
FailsEarly ==
  /\ writer \in {"preHooks", "read"}
  /\ tErr' = "err"
  /\ writer' = "end"
  /\ UNCHANGED <<task, main, cleaner, hb, cancelled, cut, ret, werr, statusVars, cleanVars,
                 tableVars>>

\* A call of WriteToDb fails before changing anything: the open transaction is
\* rolled back and the deferred cleanup follows.
Fails ==
  /\ writer \in {"dropTemp", "createTemp", "createTarget", "load", "verify", "prepareFinal",
                 "merge", "commit", "post"}
  /\ writer' = "cleanup"
  /\ werr' = "err"
  /\ work' = target
  /\ UNCHANGED <<writerKeeps, published, registered, target, tmp>>

\* The status "running" is published...
Start ==
  /\ writer = "start" /\ Unlocked
  /\ published' = "running"
  /\ writer' = "preHooks"
  /\ UNCHANGED <<writerKeeps, werr, registered, tableVars>>

\* ... the pre-hooks run...
PreHooks ==
  /\ writer = "preHooks"
  /\ writer' = "read"
  /\ UNCHANGED <<writerKeeps, werr, published, registered, tableVars>>

\* ... and runDbToDb connects and opens the source; WriteToDb then takes one of
\* two paths.
Read ==
  /\ writer = "read" /\ ~TargetIgnored
  /\ writer' = IF task.direct /\ task.mode # "definition-only" THEN "createTarget" ELSE "dropTemp"
  /\ UNCHANGED <<writerKeeps, werr, published, registered, tableVars>>

\* ignore_existing: the table is there, so nothing is read or written.
IgnoreExisting ==
  /\ writer = "read" /\ TargetIgnored
  /\ writer' = "finish"
  /\ UNCHANGED <<writerKeeps, werr, published, registered, tableVars>>

\* A stream without rows may come without columns, and is not written at all.
NoColumns ==
  /\ writer = "read" /\ ~TargetIgnored /\ ~task.rows
  /\ writer' = "cleanup"
  /\ UNCHANGED <<writerKeeps, werr, published, registered, tableVars>>

\* Drop what an earlier run may have left under the same name.
DropTemp ==
  /\ writer = "dropTemp"
  /\ tmp' = NoTemp
  /\ writer' = IF task.mode = "definition-only" THEN "define" ELSE "createTemp"
  /\ UNCHANGED <<writerKeeps, werr, published, registered, target, work>>

\* Definition only: drop the target and create it empty, outside a transaction.
\* An error of the drop is ignored; the create may fail after the drop.
Define(created) ==
  /\ writer = "define"
  /\ work' = IF created THEN Holding({}) ELSE NoTable
  /\ target' = work'
  /\ werr' = IF created THEN "nil" ELSE "err"
  /\ writer' = "cleanup"
  /\ UNCHANGED <<writerKeeps, published, registered, tmp>>

CreateTemp ==
  /\ writer = "createTemp"
  /\ tmp' = [exists |-> TRUE, owed |-> TRUE, rows |-> tmp.rows]
  /\ writer' = "addCleanup"
  /\ UNCHANGED <<writerKeeps, werr, published, registered, target, work>>

\* AddCleanupTaskFirst.
AddCleanup ==
  /\ writer = "addCleanup" /\ Unlocked
  /\ registered' = TRUE
  /\ writer' = "load"
  /\ UNCHANGED <<writerKeeps, werr, published, tableVars>>

\* Direct insert: the target is created before the transaction begins.
CreateTarget ==
  /\ writer = "createTarget"
  /\ work' = IF target.exists THEN target ELSE Holding({})
  /\ target' = work'
  /\ writer' = "prepareFinal"
  /\ UNCHANGED <<writerKeeps, werr, published, registered, tmp>>

\* BulkImportFlow into the temporary table.  A failure half way leaves rows
\* behind where there is no transaction to roll back.
LoadTemp(complete) ==
  /\ writer = "load" /\ ~task.direct
  /\ tmp.exists /\ ContextAllows
  /\ IF complete
     THEN /\ tmp' = [tmp EXCEPT !.rows = @ \cup SourceRows]
          /\ writer' = "verify" /\ UNCHANGED werr
     ELSE /\ tmp' = [tmp EXCEPT !.rows = IF task.tx \/ ~task.rows THEN @ ELSE @ \cup {"part"}]
          /\ writer' = "cleanup" /\ werr' = "err"
  /\ UNCHANGED <<writerKeeps, published, registered, target, work>>

\* Commit, the row count check and pre-SQL; an empty stream ends here.
Verify ==
  /\ writer = "verify" /\ ~task.direct
  /\ ContextAllows /\ tmp.exists /\ CountMatches(SourceRows)
  /\ writer' = IF NothingToDo THEN "cleanup" ELSE "prepareFinal"
  /\ UNCHANGED <<writerKeeps, werr, published, registered, tableVars>>

\* Begin the transaction of the final table; drop, create or truncate it.  The
\* create may fail after the drop.
PrepareFinal(created) ==
  /\ writer = "prepareFinal" /\ ContextAllows
  /\ IF created
     THEN /\ WriteTarget(IF ReplacesTarget \/ ~work.exists THEN Holding({}) ELSE work)
          /\ writer' = IF task.direct THEN "load" ELSE "merge"
          /\ UNCHANGED werr
     ELSE /\ task.mode = "full-refresh" /\ ~task.chunked
          /\ target' = IF task.tx THEN target ELSE NoTable
          /\ work' = target'
          /\ writer' = "cleanup" /\ werr' = "err"
  /\ UNCHANGED <<writerKeeps, published, registered, tmp>>

\* BulkImportFlow into the target itself.
LoadTarget(complete) ==
  /\ writer = "load" /\ task.direct
  /\ IF complete
     THEN /\ WriteTarget(Holding(work.rows \cup SourceRows))
          /\ writer' = "verify" /\ UNCHANGED werr
     ELSE /\ target' = IF task.tx \/ ~task.rows THEN target ELSE Holding(work.rows \cup {"part"})
          /\ work' = target'
          /\ writer' = "cleanup" /\ werr' = "err"
  /\ UNCHANGED <<writerKeeps, published, registered, tmp>>

\* The row count check of a direct write.
VerifyTarget ==
  /\ writer = "verify" /\ task.direct
  /\ CountIsChecked => work.rows = SourceRows
  /\ writer' = "commit"
  /\ UNCHANGED <<writerKeeps, werr, published, registered, tableVars>>

\* Insert or merge the rows of the temporary table into the target.
MergeData ==
  /\ writer = "merge" /\ (task.rows => tmp.exists)
  /\ WriteTarget(Holding(work.rows \cup tmp.rows))
  /\ writer' = "commit"
  /\ UNCHANGED <<writerKeeps, werr, published, registered, tmp>>

\* Commit the final transaction.
CommitFinal ==
  /\ writer = "commit" /\ ContextAllows
  /\ target' = work
  /\ writer' = "post"
  /\ UNCHANGED <<writerKeeps, werr, published, registered, work, tmp>>

\* Post-SQL and the last look at the dataflow's error.
PostWrite ==
  /\ writer = "post"
  /\ writer' = "cleanup"
  /\ UNCHANGED <<writerKeeps, werr, published, registered, tableVars>>

\* The faulty variant of FinishWriter: the error is shadowed.
SwallowsError ==
  /\ writer = "finish" /\ writer' = "end"
  /\ UNCHANGED <<task, main, cleaner, hb, cancelled, cut, tErr, ret, werr, statusVars, cleanVars,
                 tableVars>>

\* The goroutine stores its error, looks at the constraints, closes `done`.
FinishWriter ==
  /\ writer = "finish"
  /\ tErr' = werr
  /\ newStatus' = IF task.warns THEN "warning" ELSE newStatus
  /\ writer' = "end"
  /\ UNCHANGED <<task, main, cleaner, hb, cancelled, cut, ret, werr, override, status,
                 published, cleanVars, tableVars>>

WriterCalls ==
  \/ Start \/ PreHooks \/ FailsEarly \/ Read \/ IgnoreExisting \/ NoColumns \/ Fails
  \/ DropTemp \/ CreateTemp \/ AddCleanup \/ CreateTarget \/ Verify \/ VerifyTarget
  \/ MergeData \/ CommitFinal \/ PostWrite \/ FinishWriter
  \/ \E ok \in BOOLEAN : Define(ok) \/ LoadTemp(ok) \/ LoadTarget(ok) \/ PrepareFinal(ok)

-----------------------------------------------------------------------------
(* The main goroutine, in Execute and then in runTask.                      *)

mainKeeps == <<task, writer, hb, cancelled, werr, cleanVars, tableVars>>

\* The faulty variant of GraceOver: main waits for the writer only.
GraceNever ==
  /\ main = "grace" /\ writer = "end"
  /\ main' = "interrupt" /\ cleaner' = "cleanup"
  /\ UNCHANGED <<mainKeeps, cut, tErr, ret, newStatus, override, status, published>>

\* The writer is done.
WriterDone ==
  /\ main \in {"wait", "grace"} /\ writer = "end"
  /\ main' = "cleanup"
  /\ UNCHANGED <<mainKeeps, cleaner, cut, tErr, ret, newStatus, override, status, published>>

\* The context is cancelled first: give the writer five seconds to stop.
ContextDone ==
  /\ main = "wait" /\ cancelled # "no"
  /\ main' = "grace" /\ cut' = TRUE
  /\ UNCHANGED <<mainKeeps, cleaner, tErr, ret, newStatus, override, status, published>>

\* The writer hangs: clean up anyway, in a goroutine of its own.  Five seconds
\* are enough for the writer to have started.
GraceOver ==
  /\ main = "grace" /\ writer # "start"
  /\ main' = "interrupt" /\ cleaner' = "cleanup"
  /\ UNCHANGED <<mainKeeps, cut, tErr, ret, newStatus, override, status, published>>

\* The faulty variant of Interrupt: t.Err is left as the writer set it.
KeepsError ==
  /\ main = "interrupt"
  /\ newStatus' = "terminated"
  /\ main' = "settle"
  /\ UNCHANGED <<mainKeeps, cleaner, cut, tErr, ret, override, status, published>>

Interrupt ==
  /\ main = "interrupt"
  /\ newStatus' = "terminated" /\ tErr' = "interrupted"
  /\ main' = "settle"
  /\ UNCHANGED <<mainKeeps, cleaner, cut, ret, override, status, published>>

\* Decide on the status from t.Err, and make it the override.
Settle(passed) ==
  /\ main = "settle" /\ (cancelled = "timeout" => passed)
  /\ newStatus' = Settled(passed) /\ override' = newStatus'
  /\ main' = "publish"
  /\ UNCHANGED <<mainKeeps, cleaner, cut, tErr, ret, status, published>>

\* StateSet with the override.
Publish ==
  /\ main = "publish" /\ Unlocked
  /\ published' = override
  /\ main' = "postHooks"
  /\ UNCHANGED <<mainKeeps, cleaner, cut, tErr, ret, newStatus, override, status>>

PostHooks(ok) ==
  /\ main = "postHooks"
  /\ IF ~ok /\ tErr = "nil"
     THEN tErr' = "err" /\ newStatus' = "error"
     ELSE UNCHANGED <<tErr, newStatus>>
  /\ main' = "return"
  /\ UNCHANGED <<mainKeeps, cleaner, cut, ret, override, status, published>>

\* t.Status is set, t.Err returned and the override removed.
Return ==
  /\ main = "return"
  /\ status' = newStatus
  /\ ret' = IF tErr = "nil" THEN "nil" ELSE "err"
  /\ override' = "none"
  /\ main' = "lastSet"
  /\ UNCHANGED <<mainKeeps, cleaner, cut, tErr, newStatus, published>>

\* runTask's deferred StateSet.
LastSet ==
  /\ main = "lastSet" /\ Unlocked
  /\ published' = status
  /\ main' = "exit"
  /\ UNCHANGED <<mainKeeps, cleaner, cut, tErr, ret, newStatus, override, status>>

MainCalls ==
  \/ WriterDone \/ ContextDone \/ GraceOver \/ Interrupt \/ Publish
  \/ (\E ok \in BOOLEAN : Settle(ok) \/ PostHooks(ok)) \/ Return \/ LastSet

-----------------------------------------------------------------------------
(* The status goroutine.                                                    *)

hbKeeps == <<task, main, writer, cleaner, cancelled, cut, tErr, ret, werr, newStatus, override,
             status, registered, cleanedUp, dropKey, tableVars>>

\* A tick: stop if the task is done, else wait for the next one or the end.
Tick ==
  /\ hb = "tick"
  /\ hb' = IF status # "running" THEN "off" ELSE "select"
  /\ UNCHANGED <<hbKeeps, published, mux>>

Select ==
  /\ hb = "select"
  /\ hb' = "set" \/ (hb' = "off" /\ cancelled # "no")
  /\ UNCHANGED <<hbKeeps, published, mux>>

\* StateSet: run.Status becomes t.Status, under the mutex...
HeartbeatRead ==
  /\ hb = "set" /\ Unlocked
  /\ mux' = "hb" /\ published' = status
  /\ hb' = "publish"
  /\ UNCHANGED hbKeeps

\* The faulty variant of HeartbeatSet: the override is not looked for.
IgnoresOverride ==
  /\ hb = "publish" /\ mux' = "free" /\ hb' = "tick"
  /\ UNCHANGED <<hbKeeps, published>>

\* ... then the override, if there is one.
HeartbeatSet ==
  /\ hb = "publish"
  /\ published' = IF override = "none" THEN published ELSE override
  /\ mux' = "free"
  /\ hb' = "tick"
  /\ UNCHANGED hbKeeps

\* runTask has returned, and the writer has ended or hangs.
Done == main = "exit" /\ UNCHANGED vars

Next ==
  \/ MainCalls \/ MainCleanup
  \/ WriterCalls \/ WriterCleanup
  \/ CleanerCleanup
  \/ Tick \/ Select \/ HeartbeatRead \/ HeartbeatSet
  \/ (\E why \in {"interrupt", "timeout"} : Cancel(why))
  \/ Done

(***************************************************************************)
(* Fairness: main, the cleanups and the status goroutine run, and the drop  *)
(* of a temporary table is answered.  The other calls of the writer may     *)
(* hang.  A goroutine blocked on the mutex gets it in the end (Go's mutexes *)
(* are fair to waiters), hence the strong fairness of who takes it.         *)
(***************************************************************************)
Fairness ==
  /\ SF_vars(MainCalls) /\ SF_vars(MainCleanup)
  /\ SF_vars(WriterCleanup) /\ SF_vars(CleanerCleanup)
  /\ SF_vars(Start) /\ WF_vars(HeartbeatSet)

Spec == Init /\ [][Next]_vars /\ Fairness

-----------------------------------------------------------------------------
(* Properties.                                                              *)

\* What the target holds when the run has done its work.
WrittenRows == SourceRows \cup (IF ReplacesTarget THEN {} ELSE InitialTable.rows)

\* Where transactions cover the DDL, a reader of the target sees the rows it
\* held before or the rows it is to hold after, never a part of them and never
\* no table where there was one, whatever fails and whenever.
AllOrNothing ==
  task.tx /\ task.mode # "definition-only" =>
    /\ target.rows \in {InitialTable.rows, WrittenRows}
    /\ task.existed => target.exists

\* The work is done, or there was none.
Written ==
  \/ target = Holding(WrittenRows)
  \/ target = InitialTable /\ (~task.rows \/ (task.ignore /\ task.existed))

\* An Execute that returns no error has written the rows, or had none to write.
SuccessMeansWritten == ret = "nil" /\ task.mode # "definition-only" => Written

\* After Execute has returned, a writer that was given up does not change the
\* rows of a target with transactions any more.
NoLateCommit ==
  [][ret # "none" /\ task.tx /\ task.mode # "definition-only" =>
       target'.rows = target.rows]_vars

\* Unless the writer was given up, or an earlier stream of the process used a
\* temporary table of the same name, no run ends without having its temporary
\* table dropped.
TempDropped ==
  main = "exit" /\ cleaner = "off" /\ ~task.again => ~tmp.owed

\* An Execute that saw the cancel before the writer's end returns an error, and the
\* status says why, even if the writer then succeeded - unless the writer was given
\* up: it may still assign t.Err and newStatus while Execute settles them.
InterruptReported ==
  cut /\ cleaner = "off" /\ ret # "none" =>
    ret = "err" /\ status \in {"terminated", "timed-out"}

\* "since t.Status is still "running", let's use the context.Map for real status":
\* outside a status update, post-hooks are shown the status Execute settled on,
\* whatever the heartbeat does meanwhile.
PostHooksSeeStatus == main = "postHooks" /\ mux # "hb" => published = override

\* When runTask has returned the runtime state shows the task's final status, and
\* no late heartbeat replaces it.
FinalStatusSticks == main = "exit" => published = status

\* An interrupted or timed-out run returns even if the writer never does.
CancelReturns == cancelled # "no" ~> main = "exit"

-----------------------------------------------------------------------------
(* What makes the properties above inductive.                              *)

\* The rows of the target that are there when the new ones are added.
KeptRows == IF ReplacesTarget THEN {} ELSE InitialTable.rows

\* The mutex is held by who is inside a critical section of two steps.
MutexHeld ==
  /\ hb = "publish" => mux = "hb"
  /\ main = "cleaning" => mux = "main"
  /\ writer = "cleaning" => mux = "writer"
  /\ cleaner = "cleaning" => mux = "cleaner"

\* How far the writer has come when main has left its wait.
MainPhase ==
  /\ main \notin {"wait", "grace"} => writer # "start"
  /\ main # "wait" /\ cancelled = "no" => writer = "end"
  /\ main \in {"cleanup", "cleaning"} => writer = "end"
  /\ main \in {"settle", "publish", "postHooks", "return", "lastSet", "exit"} /\ tErr = "nil"
       => writer = "end"
  /\ ret # "none" => main \in {"lastSet", "exit"}

\* What the target holds at each step of the writer.
TablePhase ==
  task.mode # "definition-only" =>
    /\ \/ writer \in {"start", "preHooks", "read", "dropTemp", "createTemp", "addCleanup",
                      "createTarget"}
       \/ writer \in {"load", "verify", "prepareFinal"} /\ ~task.direct
       => target = InitialTable /\ work = target
    /\ writer \in {"dropTemp", "createTemp", "addCleanup", "merge"} => ~task.direct
    /\ writer = "createTarget" => task.direct
    /\ writer = "prepareFinal" /\ task.direct =>
         /\ work = target
         /\ work = IF task.existed THEN InitialTable ELSE Holding({})
    /\ writer \in {"prepareFinal", "merge"} /\ ~task.direct =>
         tmp.rows = SourceRows \/ ~tmp.exists
    /\ writer = "merge" \/ (writer = "load" /\ task.direct) => work = Holding(KeptRows)
    /\ writer = "commit" \/ (writer = "verify" /\ task.direct) => work = Holding(WrittenRows)
    /\ writer = "post" => target = Holding(WrittenRows)
    /\ writer \in {"cleanup", "cleaning", "finish"} /\ werr = "nil" => Written
    /\ writer = "end" /\ tErr = "nil" => Written
    /\ ret = "nil" => writer = "end" /\ Written
    /\ writer # "define"
    /\ ~tmp.exists => tmp.rows = {}
    /\ AllOrNothing

\* A temporary table that is owed a drop will get it from the cleanup.
TempPhase ==
  ~task.again =>
    /\ dropKey => cleanedUp
    /\ cleaner = "off" /\ cleanedUp => writer \in {"finish", "end"}
    /\ cleaner = "off" /\ tmp.owed => ~cleanedUp /\ (registered \/ writer = "addCleanup")
    /\ cleaner = "off" /\ main \notin {"wait", "grace", "cleanup", "cleaning"} => cleanedUp

\* The override is there from the settling of the status to its assignment.
StatusPhase ==
  /\ main \in {"publish", "postHooks", "return"} => override # "none"
  /\ main \in {"lastSet", "exit"} => override = "none"
  /\ main = "return" => newStatus # "none"
  /\ main = "postHooks" => newStatus # "none"
  /\ main = "publish" => newStatus # "none"
  /\ PostHooksSeeStatus
  /\ FinalStatusSticks

\* From the interrupt on nobody but Execute writes t.Err and newStatus.
InterruptPhase ==
  cut /\ cleaner = "off" =>
    /\ main # "wait" /\ (main # "grace" => writer = "end")
    /\ main \in {"settle", "publish", "postHooks", "return"} => tErr = "interrupted"
    /\ main = "settle" => newStatus = "terminated"
    /\ main \in {"publish", "postHooks", "return"} => newStatus \in {"terminated", "timed-out"}
    /\ InterruptReported

IndInv == TypeOK /\ MutexHeld /\ MainPhase /\ TablePhase /\ TempPhase /\ StatusPhase /\ InterruptPhase
============================================================================
