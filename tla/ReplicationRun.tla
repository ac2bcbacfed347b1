--------------------------- MODULE ReplicationRun ---------------------------
(***************************************************************************)
(* One run of a replication: replicationRun and runTask                    *)
(* (cmd/sling/sling_run.go), with the chunking of its streams               *)
(* (ProcessChunks, core/sling/replication.go), the clearing of the tables   *)
(* that are loaded in chunks (ClearTableForChunkLoadWithRange,              *)
(* core/sling/config.go) and the runtime state that hooks are shown         *)
(* (RuntimeState and StateSet).                                             *)
(*                                                                          *)
(* The streams run one after the other in one goroutine; the signal handler *)
(* and the timer of SLING_TIMEOUT work beside it.  What a task does inside  *)
(* Execute is the subject of module TaskRun; here Execute is one step with  *)
(* the outcomes that module shows to be possible.                           *)
(*                                                                          *)
(* A table holds the set of loads whose rows it has: 0 for the rows that    *)
(* were there before, k for the rows of the k-th task.                      *)
(***************************************************************************)
EXTENDS Naturals, Sequences, FiniteSets, SequencesExt

CONSTANTS
  Objects,  \* the target tables (cfg.Target.Object)
  Plans     \* the replications considered, a set of Plan records

Mode == {"full-refresh", "truncate", "incremental"}

\* A stream of the configuration.  `chunking`: a chunk option is set, and the
\* source is a database that cut the range in `parts` parts.
Stream == [object : Objects, mode : Mode, chunking : BOOLEAN, parts : Nat,
           disabled : BOOLEAN]

\* A task: the configuration of one stream, or of one part of a chunked one.
Task == [object : Objects, mode : Mode, chunking : BOOLEAN, disabled : BOOLEAN]

\* The replication and how it is started: SLING_THREAD_CHILD, SLING_DRY_RUN,
\* the kind of the target, the hooks of the configuration, SLING_TIMEOUT.
Plan == [streams : Seq(Stream), child : BOOLEAN, dry : BOOLEAN, file : BOOLEAN,
         startHooks : BOOLEAN, endHooks : BOOLEAN, timeout : BOOLEAN]

-----------------------------------------------------------------------------
(* Compiling.                                                               *)

TaskOf(s) == [object |-> s.object, mode |-> s.mode, chunking |-> s.chunking,
              disabled |-> s.disabled]

\* A chunked stream is replaced, in its place, by one stream for each part; a
\* stream without parts is gone.
ProcessChunks(streams) ==
  FlattenSeq([i \in DOMAIN streams |->
     IF streams[i].chunking
     THEN [j \in 1..streams[i].parts |-> TaskOf(streams[i])]
     ELSE <<TaskOf(streams[i])>>])

\* The plans are well formed; parts become tasks.
ASSUME PlansAssumption ==
  \A p \in Plans : p \in Plan /\ ProcessChunks(p.streams) \in Seq(Task)

-----------------------------------------------------------------------------
VARIABLES
  plan,         \* the replication
  pc,           \* where the goroutine of replicationRun is
  tasks,        \* replication.Tasks
  i,            \* the task the loop is at
  table,        \* the target tables
  cleaned,      \* cleanedForChunkLoad
  failErr,      \* replication.FailErr is set
  succeeded,    \* the tasks counted in successes
  failed,       \* the tasks whose error was captured in eG
  runs,         \* run.Status of each task in the runtime state
  hooks,        \* status of the start and of the end hooks
  interrupted,  \* the flag of the signal handler
  cancelled,    \* ctx: "no", or what cancelled it
  result        \* what replicationRun returned

loopVars == <<tasks, i, cleaned, failErr, succeeded, failed>>
signalVars == <<interrupted, cancelled>>
vars == <<plan, pc, loopVars, table, runs, hooks, signalVars, result>>

Table == [exists : BOOLEAN, rows : SUBSET Nat]
NoTable == [exists |-> FALSE, rows |-> {}]
Holding(r) == [exists |-> TRUE, rows |-> r]

\* A success with warnings is a success here: nothing in the loop tells them apart.
Status == {"created", "running", "success", "error", "terminated", "timed-out"}

TypeOK ==
  /\ plan \in Plans
  /\ pc \in {"compile", "startHooks", "loop", "clear", "prepare", "execute", "retry",
             "endHooks", "return", "done", "killed"}
  /\ tasks \in Seq(Task) /\ i \in Nat \ {0}
  /\ table \in [Objects -> Table] /\ cleaned \subseteq Objects
  /\ failErr \in BOOLEAN
  /\ succeeded \subseteq DOMAIN tasks /\ failed \subseteq DOMAIN tasks
  /\ runs \in [DOMAIN tasks -> Status]
  /\ hooks \in [{"start", "end"} -> {"none", "success", "error"}]
  /\ interrupted \in BOOLEAN /\ cancelled \in {"no", "interrupt", "timeout"}
  /\ result \in {"none", "nil", "err"}

Init ==
  /\ plan \in Plans
  /\ pc = "compile" /\ tasks = <<>> /\ i = 1
  /\ table \in [Objects -> {NoTable, Holding({0})}]
  /\ cleaned = {} /\ failErr = FALSE /\ succeeded = {} /\ failed = {}
  /\ runs = <<>>
  /\ hooks = [stage \in {"start", "end"} |-> "none"]
  /\ interrupted = FALSE /\ cancelled = "no"
  /\ result = "none"

-----------------------------------------------------------------------------
(* Small decisions of the code.                                             *)

\* Faulty variants used to show that the properties can fail.
NeverClears(k) == FALSE
FirstTryStays(k, st) == [runs EXCEPT ![k] = IF pc = "retry" THEN @ ELSE st]
SkipsTheRest == i > Len(tasks) \/ interrupted \/ failErr
LosesErrors == IF hooks["end"] = "error" THEN "err" ELSE "nil"

\* IsFullRefreshWithChunking or IsTruncateWithChunking, of a table that was not
\* cleared before.  A thread child leaves that to its parent.
MustClear(k) ==
  /\ ~plan.child
  /\ tasks[k].object \notin cleaned
  /\ tasks[k].chunking /\ tasks[k].mode # "incremental"

\* The loop is left.
LoopEnds == i > Len(tasks) \/ interrupted

\* Where the goroutine goes then.
AfterLoop == "endHooks"

\* StateSet: publishes the status of the k-th task.  The deferred call of runTask
\* reads the variable `task` when it runs, so it sees the task of the last try.
StateSet(k, st) == [runs EXCEPT ![k] = st]

\* The task is run once more.
Retries(err) == pc = "execute" /\ err = "died" /\ ~interrupted /\ plan.file

\* Whether eG or the end hooks leave an error to return.
GroupErr == IF failed # {} \/ hooks["end"] = "error" THEN "err" ELSE "nil"

\* What the k-th task makes of its table when it is written: a chunk, like an
\* incremental load, adds to the table; the rest replaces it.
Loaded(k) ==
  IF tasks[k].chunking \/ tasks[k].mode = "incremental"
  THEN Holding(table[tasks[k].object].rows \cup {k})
  ELSE Holding({k})

\* What a cancelled Execute publishes; the deadline may pass after an interrupt.
CancelStatus == IF cancelled = "no" THEN {}
                ELSE {"terminated"} \cup (IF plan.timeout THEN {"timed-out"} ELSE {})

\* What Execute may return and publish.  An error may come before the table is
\* written or after it (a post hook); a connection error and a dead DuckDB process
\* come before it, a file target being written in a temporary place first.  A writer
\* that was given up after a cancel and then ends well sets the task's error back to
\* nil, under a status that says it was cancelled.
Outcome == [err : {"nil", "err", "connect", "died"}, status : Status, written : BOOLEAN]
Outcomes ==
  {o \in Outcome :
     /\ o.status \in CancelStatus \cup (IF o.err = "nil" THEN {"success"} ELSE {"error"})
     /\ o.err = "nil" => o.written
     /\ o.err \in {"connect", "died"} => ~o.written}

-----------------------------------------------------------------------------
(* The goroutine of replicationRun.                                         *)

Return(r) ==
  /\ pc' = "done" /\ result' = r
  /\ UNCHANGED <<plan, loopVars, table, runs, hooks, signalVars>>

\* Parsing or compiling fails.
CompileFails == pc = "compile" /\ Return("err")

\* replication.Compile.  A selection that matched nothing is only a warning.
Compile ==
  /\ pc = "compile"
  /\ tasks' = ProcessChunks(plan.streams)
  /\ runs' = [k \in DOMAIN tasks' |-> "created"]
  /\ IF tasks' = <<>> THEN pc' = "done" /\ result' = "nil"
                      ELSE pc' = "startHooks" /\ result' = result
  /\ UNCHANGED <<plan, i, cleaned, failErr, succeeded, failed, table, hooks, signalVars>>

\* ExecuteReplicationHook(HookStageStart).
StartHooks ==
  /\ pc = "startHooks"
  /\ pc' = "loop"
  /\ hooks' = IF plan.startHooks /\ ~plan.child
              THEN [hooks EXCEPT !["start"] = "success"] ELSE hooks
  /\ UNCHANGED <<plan, loopVars, table, runs, signalVars, result>>

StartHooksFail ==
  /\ pc = "startHooks"
  /\ plan.startHooks /\ ~plan.child
  /\ hooks' = [hooks EXCEPT !["start"] = "error"]
  /\ pc' = "done" /\ result' = "err"
  /\ UNCHANGED <<plan, loopVars, table, runs, signalVars>>

\* The head of the loop over replication.Tasks.
Loop ==
  /\ pc = "loop"
  /\ IF LoopEnds THEN pc' = AfterLoop /\ i' = i
     ELSE IF MustClear(i) THEN pc' = "clear" /\ i' = i
     ELSE IF tasks[i].disabled THEN pc' = pc /\ i' = i + 1
     ELSE pc' = "prepare" /\ i' = i
  /\ UNCHANGED <<plan, tasks, cleaned, failErr, succeeded, failed, table, runs, hooks,
                 signalVars, result>>

\* ClearTableForChunkLoadWithRange: drops the table, or truncates it, which needs
\* the table to be there.  Only then is the stream skipped when it is disabled.
Clear ==
  LET t == tasks[i] IN
  /\ pc = "clear"
  /\ t.mode = "truncate" => table[t.object].exists
  /\ table' = [table EXCEPT ![t.object] =
                 IF t.mode = "truncate" THEN Holding({}) ELSE NoTable]
  /\ cleaned' = cleaned \cup {t.object}
  /\ IF t.disabled THEN pc' = "loop" /\ i' = i + 1
                   ELSE pc' = "prepare" /\ i' = i
  /\ UNCHANGED <<plan, tasks, failErr, succeeded, failed, runs, hooks, signalVars, result>>

\* It cannot connect, drop or truncate: the replication is given up at once, the
\* end hooks and the errors of earlier streams included.
ClearFails == pc = "clear" /\ Return("err")

\* eG.Capture, and FailErr when the error is one of connecting.
Capture(connection) ==
  /\ failed' = failed \cup {i} /\ succeeded' = succeeded
  /\ failErr' = (failErr \/ connection)
  /\ i' = i + 1 /\ pc' = "loop"

Succeed ==
  /\ succeeded' = succeeded \cup {i} /\ failed' = failed /\ failErr' = failErr
  /\ i' = i + 1 /\ pc' = "loop"

\* runTask before Execute: preparing the configuration may fail; a dry run stops
\* here; FailErr makes the task fail.  None of them publishes a status, the task
\* has no context yet.
PrepareFails ==
  /\ pc = "prepare"
  /\ Capture(FALSE)
  /\ UNCHANGED <<plan, tasks, cleaned, table, runs, hooks, signalVars, result>>

Prepare ==
  /\ pc = "prepare"
  /\ IF plan.dry THEN Succeed /\ runs' = runs
     ELSE IF failErr THEN Capture(FALSE) /\ runs' = runs
     ELSE /\ pc' = "execute" /\ runs' = StateSet(i, "running")
          /\ UNCHANGED <<i, failErr, succeeded, failed>>
  /\ UNCHANGED <<plan, tasks, cleaned, table, hooks, signalVars, result>>

\* task.Execute, what the code makes of its error, and the deferred StateSet.
Execute ==
  /\ pc \in {"execute", "retry"}
  /\ \E o \in Outcomes :
       /\ table' = IF o.written THEN [table EXCEPT ![tasks[i].object] = Loaded(i)] ELSE table
       /\ runs' = StateSet(i, o.status)
       /\ IF Retries(o.err) THEN pc' = "retry" /\ UNCHANGED <<i, failErr, succeeded, failed>>
          ELSE IF o.err = "nil" THEN Succeed
          ELSE Capture(o.err = "connect")
  /\ UNCHANGED <<plan, tasks, cleaned, hooks, signalVars, result>>

\* ExecuteReplicationHook(HookStageEnd), and the queues a thread child closes.
EndHooks ==
  /\ pc = "endHooks"
  /\ pc' = "return"
  /\ hooks' \in IF plan.endHooks /\ ~plan.child
                THEN {[hooks EXCEPT !["end"] = "success"], [hooks EXCEPT !["end"] = "error"]}
                ELSE {hooks}
  /\ UNCHANGED <<plan, loopVars, table, runs, signalVars, result>>

ReturnErrors == pc = "return" /\ Return(GroupErr)

Run ==
  \/ CompileFails \/ Compile \/ StartHooks \/ StartHooksFail \/ Loop \/ Clear \/ ClearFails
  \/ PrepareFails \/ Prepare \/ Execute \/ EndHooks \/ ReturnErrors

-----------------------------------------------------------------------------
(* Beside it.                                                               *)

Running == pc \notin {"done", "killed"}

\* The signal handler raises its flag, cancels the context, and ends the process
\* if replicationRun has not returned ten seconds later.
Interrupt ==
  /\ Running /\ ~interrupted
  /\ interrupted' = TRUE
  /\ UNCHANGED <<plan, pc, loopVars, table, runs, hooks, cancelled, result>>

CancelContext ==
  /\ Running /\ interrupted /\ cancelled = "no"
  /\ cancelled' = "interrupt"
  /\ UNCHANGED <<plan, pc, loopVars, table, runs, hooks, interrupted, result>>

Kill ==
  /\ Running /\ interrupted /\ cancelled # "no"
  /\ pc' = "killed"
  /\ UNCHANGED <<plan, loopVars, table, runs, hooks, signalVars, result>>

\* The timer of setTimeout.
Timeout ==
  /\ Running /\ plan.timeout /\ cancelled = "no"
  /\ cancelled' = "timeout"
  /\ UNCHANGED <<plan, pc, loopVars, table, runs, hooks, interrupted, result>>

Over == ~Running /\ UNCHANGED vars

Next == Run \/ Interrupt \/ CancelContext \/ Kill \/ Timeout \/ Over

\* The goroutine goes on; hooks, databases and tasks answer.  Signals need not come.
Spec == Init /\ [][Next]_vars /\ WF_vars(Run)

-----------------------------------------------------------------------------
(* Properties.                                                              *)

Enabled == {k \in DOMAIN tasks : ~tasks[k].disabled}
ChunkLoad(k) == tasks[k].chunking /\ tasks[k].mode # "incremental"

\* The objects that only chunked loads write.
ChunkObjects == {obj \in Objects : \A k \in DOMAIN tasks :
                                     tasks[k].object = obj => ChunkLoad(k)}

\* replicationRun returned nil, and neither a signal nor a dry run explains why a
\* stream was not loaded.
ReportedComplete == result = "nil" /\ ~interrupted /\ ~plan.dry

\* The m-th task replaces what the k-th has loaded: a later load of the same table
\* that is not incremental.  The parts of chunked loads are cleared together, so
\* they do not replace each other; a chunked stream clears even if it is disabled.
Replaces(m, k) ==
  /\ m > k /\ tasks[m].object = tasks[k].object /\ tasks[m].mode # "incremental"
  /\ IF ChunkLoad(m) THEN ~ChunkLoad(k) ELSE m \in Enabled

\* The rows of the k-th task are in its table unless a later task replaced them.
Kept(k) == k \in table[tasks[k].object].rows \/ \E m \in DOMAIN tasks : Replaces(m, k)

\* A replication that reports no error has loaded every enabled stream: its rows
\* are in the table unless a later load of the same table replaced them.  Behind
\* it: the loop goes on after an error, FailErr fails the streams it keeps from
\* running, and eG keeps every error (replicationRun, lines 711-789).
SuccessIsComplete == ReportedComplete => \A k \in Enabled : Kept(k)

\* A table loaded in chunks holds, when the replication reports no error, exactly
\* its parts: nothing of what it held before, each part of an enabled stream.
\* (A thread child relies on its parent for the clearing.)
ChunksReplace ==
  ReportedComplete /\ ~plan.child =>
    \A obj \in ChunkObjects \cap {tasks[k].object : k \in DOMAIN tasks} :
      table[obj].rows = {k \in Enabled : tasks[k].object = obj}

\* The parts of a chunked load are cleared together, once, before the first one: no
\* step takes away the rows of a part (cleanedForChunkLoad, lines 709 and 719-724).
PartsStay ==
  [][\A obj \in ChunkObjects : table[obj].rows \ {0} \subseteq table'[obj].rows]_vars

\* Every enabled stream is counted, once: as a success or as a failure.  Only an
\* interrupt leaves streams out, and only the last ones; a connection error, which
\* "stops" the replication, reports the streams that it keeps from running.
EveryStreamCounted ==
  /\ succeeded \cap failed = {}
  /\ (succeeded \cup failed) \cap (DOMAIN tasks \ Enabled) = {}
  /\ pc \in {"endHooks", "return"} =>
       \/ Enabled \subseteq succeeded \cup failed
       \/ interrupted /\ \A k \in Enabled : k \in succeeded \cup failed <=> k < i

\* The k-th task is shown as cancelled, in a run that was.
ShownCancelled(k) == cancelled # "no" /\ runs[k] \in {"terminated", "timed-out"}

\* What the end hooks are shown agrees with what the run counted: no stream that
\* failed while it ran is shown as a success or as running, no stream that
\* succeeded as a failure, a retried one included (StateSet, and the deferred call
\* in runTask).  A stream counted as a success may be shown as cancelled: its writer
\* was given up after the cancel and ended well (see Outcomes).
RunsShowOutcome ==
  pc = "endHooks" =>
    /\ \A k \in failed : runs[k] \in {"created", "error"} \/ ShownCancelled(k)
    /\ \A k \in succeeded : runs[k] = "success" \/ plan.dry \/ ShownCancelled(k)

\* Once the start hooks passed, the end hooks run, after an interrupt too, unless a
\* table could not be cleared (which returns at once) or the process is killed.
EndHooksRun ==
  /\ result # "none" /\ plan.endHooks /\ ~plan.child /\ hooks["end"] = "none"
  => \/ tasks = <<>> \/ hooks["start"] = "error"
     \/ i <= Len(tasks) /\ MustClear(i) /\ result = "err"

\* What the comment in the loop says of a table it clears, "the first task will
\* re-create it": when the replication returned, a task has been executed on it.
ClearedIsReloaded ==
  result # "none" => \A obj \in cleaned : \E k \in DOMAIN tasks :
                        tasks[k].object = obj /\ runs[k] # "created"

-----------------------------------------------------------------------------
(* What makes the properties above inductive.                               *)

AtTask == pc \in {"prepare", "execute", "retry"}

\* Where the loop is.
LoopPhase ==
  /\ pc = "compile" => tasks = <<>> /\ runs = <<>>
  /\ i <= Len(tasks) + 1
  /\ pc \in {"compile", "startHooks"} => i = 1
  /\ pc = "clear" => i <= Len(tasks) /\ MustClear(i)
  /\ AtTask => i \in Enabled
  /\ pc \in {"endHooks", "return"} => i > Len(tasks) \/ interrupted
  /\ result # "none" => pc = "done"

\* The streams before i have been counted.
Counted ==
  /\ succeeded \cap failed = {}
  /\ succeeded \cup failed = {k \in Enabled : k < i}

\* What has been published of them, and nothing yet of the others.
Published ==
  /\ \A k \in failed : runs[k] \in {"created", "error"} \/ ShownCancelled(k)
  /\ \A k \in succeeded : runs[k] = "success" \/ plan.dry \/ ShownCancelled(k)
  /\ \A k \in DOMAIN tasks :
       k > i \/ (k = i /\ pc \notin {"execute", "retry", "killed"}) => runs[k] = "created"

\* The table of a chunked load is cleared before its first part is run.
ClearedFirst ==
  ~plan.child =>
    \A k \in DOMAIN tasks :
      ChunkLoad(k) /\ (k < i \/ (k = i /\ AtTask)) => tasks[k].object \in cleaned

\* What a table that only chunked loads write holds, before and after.
ChunkTables ==
  ~plan.child =>
    \A obj \in ChunkObjects :
      IF obj \in cleaned THEN table[obj].rows \subseteq {k \in Enabled : tasks[k].object = obj /\ k < i}
                         ELSE table[obj].rows \subseteq {0}

\* What has been loaded is there, or was replaced.
LoadedKept == ~plan.dry => \A k \in succeeded : Kept(k)

\* Nil is returned when no stream failed, after the last one or an interrupt.
NilPhase ==
  result = "nil" => tasks = <<>> \/ (failed = {} /\ (i > Len(tasks) \/ interrupted))

\* The end hooks have been run before the return.
HooksPhase ==
  /\ pc = "return" /\ plan.endHooks /\ ~plan.child => hooks["end"] # "none"
  /\ EndHooksRun

IndInv ==
  /\ TypeOK /\ LoopPhase /\ Counted /\ Published /\ ClearedFirst /\ ChunkTables
  /\ LoadedKept /\ NilPhase /\ HooksPhase
============================================================================
