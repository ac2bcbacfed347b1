----------------------- MODULE ReplicationRun_proofs -----------------------
(***************************************************************************)
(* Proofs about ReplicationRun, for every replication: the types, and the   *)
(* inductive invariant from which the properties of a run follow.           *)
(***************************************************************************)
EXTENDS ReplicationRun, TLAPS

-----------------------------------------------------------------------------
(* Types.                                                                   *)

\* A plan is a replication and has well-formed tasks.
LEMMA PlanFacts ==
  ASSUME TypeOK PROVE plan \in Plan /\ ProcessChunks(plan.streams) \in Seq(Task)
BY PlansAssumption DEF TypeOK

\* The constructors of tables return tables.
LEMMA TableFacts ==
  NoTable \in Table /\ \A r \in SUBSET Nat : Holding(r) \in Table
BY DEF NoTable, Holding, Table

\* The tasks are tasks, and their positions numbers.
LEMMA TaskFacts ==
  ASSUME TypeOK
  PROVE  /\ DOMAIN tasks = 1..Len(tasks) /\ Len(tasks) \in Nat
         /\ \A k \in DOMAIN tasks : tasks[k] \in Task /\ k \in Nat \ {0}
BY DEF TypeOK

\* What a task makes of its table is a table.
LEMMA LoadedType ==
  ASSUME TypeOK, NEW k \in DOMAIN tasks PROVE Loaded(k) \in Table
<1>1. tasks[k].object \in Objects /\ k \in Nat
  BY TaskFacts DEF Task
<1>2. table[tasks[k].object].rows \in SUBSET Nat
  BY <1>1 DEF TypeOK, Table
<1>3. table[tasks[k].object].rows \cup {k} \in SUBSET Nat /\ {k} \in SUBSET Nat
  BY <1>1, <1>2
<1> QED
  BY <1>3, TableFacts DEF Loaded

\* The initial states are well typed.
LEMMA TypeInit == Init => TypeOK
<1> SUFFICES ASSUME Init PROVE TypeOK
  OBVIOUS
<1>1. table \in [Objects -> Table]
  BY TableFacts DEF Init
<1>2. hooks \in [{"start", "end"} -> {"none", "success", "error"}]
  BY DEF Init
<1>3. tasks \in Seq(Task) /\ DOMAIN tasks = {} /\ runs \in [DOMAIN tasks -> Status]
  BY DEF Init
<1>4. succeeded \subseteq DOMAIN tasks /\ failed \subseteq DOMAIN tasks /\ cleaned \subseteq Objects
  BY DEF Init
<1>5. i \in Nat \ {0}
  BY DEF Init
<1>6. failErr \in BOOLEAN /\ interrupted \in BOOLEAN
  BY DEF Init
<1> QED
  BY <1>1, <1>2, <1>3, <1>4, <1>5, <1>6 DEF Init, TypeOK

\* Types survive every step; the position of a task is needed where it is indexed.
LEMMA TypeStep == TypeOK /\ LoopPhase /\ [Next]_vars => TypeOK'
<1> SUFFICES ASSUME TypeOK, LoopPhase, [Next]_vars PROVE TypeOK'
  OBVIOUS
<1> USE DEF loopVars, signalVars
<1>0. AtTask \/ pc = "clear" => i \in DOMAIN tasks
  BY TaskFacts DEF LoopPhase, Enabled, TypeOK
<1>1. CASE CompileFails \/ ReturnErrors \/ ClearFails
  BY <1>1 DEF TypeOK, CompileFails, ReturnErrors, ClearFails, Return, GroupErr
<1>2. CASE Compile
  <2>1. tasks' \in Seq(Task) /\ DOMAIN tasks' = 1..Len(tasks')
    BY <1>2, PlanFacts DEF Compile
  <2>2. runs' \in [DOMAIN tasks' -> Status]
    BY <1>2 DEF Compile, Status
  <2>3. succeeded' = {} /\ failed' = {}
    BY <1>2, <1>2 DEF Compile, TypeOK, LoopPhase
  <2> QED
    BY <1>2, <2>1, <2>2, <2>3 DEF Compile, TypeOK
<1>3. CASE StartHooks \/ StartHooksFail \/ EndHooks
  BY <1>3 DEF TypeOK, StartHooks, StartHooksFail, EndHooks
<1>4. CASE Loop
  BY <1>4 DEF TypeOK, Loop, AfterLoop
<1>5. CASE Clear
  <2>1. tasks[i].object \in Objects
    BY <1>0, <1>5, TaskFacts DEF Task, Clear
  <2>2. Holding({}) \in Table
    BY TableFacts
  <2> QED
    BY <1>5, <2>1, <2>2, TableFacts DEF TypeOK, Clear
<1>6. CASE PrepareFails
  BY <1>6, <1>0 DEF TypeOK, PrepareFails, Capture, AtTask
<1>7. CASE Prepare
  <2>1. StateSet(i, "running") \in [DOMAIN tasks -> Status]
    BY DEF TypeOK, StateSet, Status
  <2> QED
    BY <1>7, <1>0, <2>1 DEF TypeOK, Prepare, Capture, Succeed, AtTask
<1>8. CASE Execute
  <2>0. i \in DOMAIN tasks /\ tasks[i].object \in Objects
    BY <1>0, <1>8, TaskFacts DEF AtTask, Execute, Task
  <2>1. PICK o \in Outcomes :
          /\ table' = IF o.written THEN [table EXCEPT ![tasks[i].object] = Loaded(i)] ELSE table
          /\ runs' = StateSet(i, o.status)
          /\ IF Retries(o.err) THEN pc' = "retry" /\ UNCHANGED <<i, failErr, succeeded, failed>>
             ELSE IF o.err = "nil" THEN Succeed
             ELSE Capture(o.err = "connect")
    BY <1>8 DEF Execute
  <2>2. table' \in [Objects -> Table]
    BY <2>0, <2>1, LoadedType DEF TypeOK
  <2>3. runs' \in [DOMAIN tasks -> Status]
    BY <2>1 DEF TypeOK, StateSet, Outcomes, Outcome
  <2>4. failErr' \in BOOLEAN
    BY <2>1 DEF TypeOK, Capture, Succeed
  <2>5. /\ pc' \in {"retry", "loop"} /\ i' \in Nat \ {0}
        /\ succeeded' \subseteq DOMAIN tasks /\ failed' \subseteq DOMAIN tasks
    BY <2>0, <2>1 DEF TypeOK, Capture, Succeed
  <2> QED
    BY <1>8, <2>2, <2>3, <2>4, <2>5 DEF TypeOK, Execute
<1>9. CASE Interrupt \/ CancelContext \/ Kill \/ Timeout
  BY <1>9 DEF TypeOK, Interrupt, CancelContext, Kill, Timeout
<1>10. CASE UNCHANGED vars
  BY <1>10 DEF TypeOK, vars
<1> QED
  BY <1>1, <1>2, <1>3, <1>4, <1>5, <1>6, <1>7, <1>8, <1>9, <1>10 DEF Next, Run, Over

-----------------------------------------------------------------------------
(* The steps that leave the streams alone, and those that do not.           *)

\* Neither the tasks, nor what was counted and published of them, nor the tables
\* are changed.
Quiet ==
  \/ CompileFails \/ ReturnErrors \/ ClearFails \/ StartHooks \/ StartHooksFail \/ EndHooks
  \/ Interrupt \/ CancelContext \/ Kill \/ Timeout \/ UNCHANGED vars

\* What a quiet step leaves alone, and where it may lead.
LEMMA QuietFacts ==
  ASSUME Quiet, TypeOK, LoopPhase
  PROVE  /\ UNCHANGED <<plan, loopVars, table, runs>>
         /\ pc' = pc \/ pc' \in {"loop", "return", "done", "killed"}
         /\ pc' = "loop" /\ pc # "loop" => pc = "startHooks"
         /\ pc' = "return" /\ pc # "return" => pc = "endHooks"
         /\ interrupted => interrupted'
         /\ cancelled # "no" => cancelled' # "no"
<1> USE DEF Quiet, CompileFails, ReturnErrors, ClearFails, Return, StartHooks, StartHooksFail,
        EndHooks, Interrupt, CancelContext, Kill, Timeout, vars, signalVars
<1>1. UNCHANGED <<plan, loopVars, table, runs>>
  OBVIOUS
<1>2. /\ pc' = pc \/ pc' \in {"loop", "return", "done", "killed"}
      /\ pc' = "loop" /\ pc # "loop" => pc = "startHooks"
      /\ pc' = "return" /\ pc # "return" => pc = "endHooks"
  OBVIOUS
<1>3. (interrupted => interrupted') /\ (cancelled # "no" => cancelled' # "no")
  OBVIOUS
<1> QED
  BY <1>1, <1>2, <1>3

\* Every step is a quiet one or one of the loop.
LEMMA StepCases ==
  [Next]_vars <=> Quiet \/ Compile \/ Loop \/ Clear \/ PrepareFails \/ Prepare \/ Execute
BY DEF Next, Run, Over, Quiet

\* A status that tells of a cancelled run.
Shown(st) == cancelled # "no" /\ st \in {"terminated", "timed-out"}

\* What one try of the task at hand can lead to.
LEMMA ExecuteFacts ==
  ASSUME IndInv, Execute
  PROVE  /\ i \in Enabled /\ i \in DOMAIN tasks
         /\ \E o \in Outcomes :
              /\ table' = IF o.written THEN [table EXCEPT ![tasks[i].object] = Loaded(i)]
                                       ELSE table
              /\ runs' = [runs EXCEPT ![i] = o.status]
              /\ \/ pc' = "retry" /\ ~o.written /\ UNCHANGED <<i, failErr, succeeded, failed>>
                 \/ /\ o.err = "nil" /\ o.written /\ Succeed
                    /\ o.status = "success" \/ Shown(o.status)
                 \/ /\ o.err # "nil" /\ Capture(o.err = "connect")
                    /\ o.status = "error" \/ Shown(o.status)
<1>1. i \in Enabled
  BY DEF IndInv, LoopPhase, AtTask, Execute
<1>2. i \in DOMAIN tasks
  BY <1>1 DEF Enabled
<1>3. PICK o \in Outcomes :
        /\ table' = IF o.written THEN [table EXCEPT ![tasks[i].object] = Loaded(i)] ELSE table
        /\ runs' = StateSet(i, o.status)
        /\ IF Retries(o.err) THEN pc' = "retry" /\ UNCHANGED <<i, failErr, succeeded, failed>>
           ELSE IF o.err = "nil" THEN Succeed
           ELSE Capture(o.err = "connect")
  BY DEF Execute
<1>4. /\ o.err = "nil" => o.written
      /\ o.err = "died" => ~o.written
  BY <1>3 DEF Outcomes
<1>6. /\ o.err = "nil" => o.status = "success" \/ Shown(o.status)
      /\ o.err # "nil" => o.status = "error" \/ Shown(o.status)
  BY <1>3 DEF Outcomes, CancelStatus, Shown
<1>5. Retries(o.err) => o.err = "died"
  BY DEF Retries
<1> QED
  BY <1>1, <1>2, <1>3, <1>4, <1>5, <1>6 DEF StateSet

-----------------------------------------------------------------------------
(* The parts of the invariant, one by one.                                  *)

\* The initial states satisfy the invariant.
LEMMA InvInit == Init => IndInv
<1> SUFFICES ASSUME Init PROVE IndInv
  OBVIOUS
<1>0. TypeOK
  BY TypeInit
<1>1. LoopPhase
  BY DEF Init, LoopPhase, AtTask
<1>2. Counted /\ Published /\ ClearedFirst /\ LoadedKept /\ NilPhase
  BY DEF Init, Counted, Published, ClearedFirst, LoadedKept, NilPhase, Enabled
<1>3. ChunkTables
  <2>1. \A obj \in Objects : table[obj].rows \subseteq {0}
    <3> TAKE obj \in Objects
    <3>1. table[obj] = NoTable \/ table[obj] = Holding({0})
      BY DEF Init
    <3> QED
      BY <3>1 DEF NoTable, Holding
  <2>2. cleaned = {}
    BY DEF Init
  <2> QED
    BY <2>1, <2>2 DEF ChunkTables, ChunkObjects
<1>4. HooksPhase
  BY DEF Init, HooksPhase, EndHooksRun
<1> QED
  BY <1>0, <1>1, <1>2, <1>3, <1>4 DEF IndInv

\* The loop stays where it should be.
LEMMA LoopPhaseStep == IndInv /\ [Next]_vars => LoopPhase'
<1> SUFFICES ASSUME IndInv, [Next]_vars PROVE LoopPhase'
  OBVIOUS
<1> USE DEF IndInv, LoopPhase, AtTask, Enabled, loopVars, signalVars
<1>1. CASE Quiet
  <2>1. result' # "none" => pc' = "done"
    BY <1>1 DEF Quiet, CompileFails, ReturnErrors, ClearFails, Return, StartHooks, StartHooksFail,
       EndHooks, Interrupt, CancelContext, Kill, Timeout, vars, Running
  <2>2. pc' = pc => (interrupted => interrupted')
    BY <1>1, QuietFacts
  <2>3. MustClear(i)' <=> MustClear(i)
    BY <1>1, QuietFacts DEF MustClear
  <2> QED
    BY <1>1, <2>1, <2>2, <2>3, QuietFacts
<1>2. CASE Compile
  <2>1. tasks' \in Seq(Task)
    BY <1>2, PlanFacts DEF Compile
  <2> QED
    BY <1>2, <2>1 DEF Compile
<1>3. CASE Loop
  <2>1. LoopEnds \/ i \in DOMAIN tasks
    BY TaskFacts DEF LoopEnds, TypeOK
  <2>2. MustClear(i)' <=> MustClear(i')
    BY <1>3 DEF Loop, MustClear
  <2> QED
    BY <1>3, <2>1, <2>2, TaskFacts DEF Loop, AfterLoop, LoopEnds, MustClear, TypeOK
<1>4. CASE Clear
  BY <1>4, TaskFacts DEF Clear, TypeOK
<1>5. CASE PrepareFails \/ Prepare
  BY <1>5, TaskFacts DEF PrepareFails, Prepare, Capture, Succeed, TypeOK
<1>6. CASE Execute
  BY <1>6, TaskFacts, ExecuteFacts DEF Execute, Capture, Succeed, TypeOK
<1> QED
  BY <1>1, <1>2, <1>3, <1>4, <1>5, <1>6, StepCases

\* Every stream the loop passes is counted once.
LEMMA CountedStep == IndInv /\ [Next]_vars => Counted'
<1> SUFFICES ASSUME IndInv, [Next]_vars PROVE Counted'
  OBVIOUS
<1> USE DEF IndInv, Counted, Enabled, loopVars
<1>0. AtTask => i \in DOMAIN tasks /\ ~tasks[i].disabled
  BY DEF LoopPhase
<1>1. CASE Quiet
  BY <1>1, QuietFacts
<1>2. CASE Compile
  <2>1. DOMAIN tasks = {} /\ i = 1
    BY <1>2 DEF Compile, LoopPhase
  <2>2. tasks' \in Seq(Task) /\ DOMAIN tasks' = 1..Len(tasks')
    BY <1>2, PlanFacts DEF Compile
  <2> QED
    BY <1>2, <2>1, <2>2 DEF Compile
<1>3. CASE Loop
  BY <1>3, TaskFacts DEF Loop, TypeOK
<1>4. CASE Clear
  BY <1>4, TaskFacts DEF Clear, TypeOK
<1>5. CASE PrepareFails \/ Prepare
  BY <1>5, <1>0, TaskFacts DEF PrepareFails, Prepare, Capture, Succeed, TypeOK, AtTask
<1>6. CASE Execute
  BY <1>6, <1>0, TaskFacts, ExecuteFacts DEF Execute, Capture, Succeed, TypeOK
<1> QED
  BY <1>1, <1>2, <1>3, <1>4, <1>5, <1>6, StepCases

\* What is published agrees with what is counted.
LEMMA PublishedStep == IndInv /\ [Next]_vars => Published'
<1> SUFFICES ASSUME IndInv, [Next]_vars PROVE Published'
  OBVIOUS
<1> USE DEF IndInv, Published, ShownCancelled, loopVars, signalVars
<1>0. \A k \in succeeded \cup failed : k < i /\ k \in DOMAIN tasks
  BY DEF Counted, Enabled
<1>1. CASE Quiet
  <2>1. pc' \notin {"execute", "retry", "killed"} => pc \notin {"execute", "retry", "killed"}
    BY <1>1 DEF Quiet, CompileFails, ReturnErrors, ClearFails, Return, StartHooks, StartHooksFail,
       EndHooks, Interrupt, CancelContext, Kill, Timeout, vars, Running
  <2> QED
    BY <1>1, <2>1, QuietFacts
<1>2. CASE Compile
  <2>1. succeeded = {} /\ failed = {}
    BY <1>2, <1>0 DEF Compile, LoopPhase
  <2> QED
    BY <1>2, <2>1 DEF Compile
<1>3. CASE Loop
  BY <1>3, TaskFacts DEF Loop, AfterLoop, TypeOK
<1>4. CASE Clear
  BY <1>4, TaskFacts DEF Clear, TypeOK
<1>5. CASE PrepareFails
  BY <1>5, TaskFacts DEF PrepareFails, Capture, TypeOK, LoopPhase, AtTask, Enabled
<1>6. CASE Prepare
  <2>1. i \in DOMAIN tasks
    BY <1>6 DEF Prepare, LoopPhase, AtTask, Enabled
  <2> QED
    BY <1>0, <1>6, <2>1, TaskFacts DEF Prepare, Capture, Succeed, StateSet, TypeOK
<1>7. CASE Execute
  <2>1. i \in DOMAIN tasks
    BY <1>7, ExecuteFacts
  <2>2. PICK o \in Outcomes :
          /\ runs' = [runs EXCEPT ![i] = o.status]
          /\ \/ pc' = "retry" /\ UNCHANGED <<i, succeeded, failed>>
             \/ (o.status = "success" \/ Shown(o.status)) /\ Succeed
             \/ (o.status = "error" \/ Shown(o.status)) /\ Capture(o.err = "connect")
    BY <1>7, ExecuteFacts
  <2>3. \A k \in DOMAIN tasks : k # i => runs'[k] = runs[k]
    BY <2>2 DEF TypeOK
  <2>4. runs'[i] = o.status
    BY <2>1, <2>2 DEF TypeOK
  <2>5. tasks' = tasks /\ plan' = plan /\ cancelled' = cancelled
    BY <1>7 DEF Execute, signalVars
  <2> QED
    BY <1>0, <2>1, <2>2, <2>3, <2>4, <2>5, TaskFacts DEF Shown, Capture, Succeed, TypeOK
<1> QED
  BY <1>1, <1>2, <1>3, <1>4, <1>5, <1>6, <1>7, StepCases

\* A chunked load that the loop has reached has had its table cleared.
LEMMA ClearedFirstStep == IndInv /\ [Next]_vars => ClearedFirst'
<1> SUFFICES ASSUME IndInv, [Next]_vars PROVE ClearedFirst'
  OBVIOUS
<1> USE DEF IndInv, ClearedFirst, ChunkLoad, loopVars
<1>1. CASE Quiet
  <2>1. AtTask' => AtTask
    BY <1>1, QuietFacts DEF AtTask
  <2> QED
    BY <1>1, <2>1, QuietFacts
<1>2. CASE Compile
  <2>1. tasks' \in Seq(Task) /\ DOMAIN tasks' = 1..Len(tasks') /\ i' = 1 /\ ~AtTask'
    BY <1>2, PlanFacts DEF Compile, LoopPhase, AtTask
  <2> QED
    BY <2>1
<1>3. CASE Loop
  <2>1. UNCHANGED <<plan, tasks, cleaned>>
    BY <1>3 DEF Loop
  <2>2. \/ i' = i /\ ~AtTask'
        \/ ~MustClear(i) /\ i' = i
        \/ ~MustClear(i) /\ i' = i + 1 /\ ~AtTask'
    BY <1>3 DEF Loop, AfterLoop, AtTask
  <2> QED
    BY <2>1, <2>2, TaskFacts DEF MustClear, TypeOK
<1>4. CASE Clear
  <2>1. UNCHANGED <<plan, tasks>> /\ cleaned' = cleaned \cup {tasks[i].object} /\ i' \in {i, i + 1}
    BY <1>4 DEF Clear
  <2>2. i' = i + 1 => ~AtTask'
    BY <1>4, TaskFacts DEF Clear, AtTask, TypeOK
  <2> QED
    BY <2>1, <2>2, TaskFacts DEF TypeOK
<1>5. CASE PrepareFails \/ Prepare \/ Execute
  <2>1. UNCHANGED <<plan, tasks, cleaned>> /\ AtTask
    BY <1>5 DEF PrepareFails, Prepare, Execute, AtTask
  <2>2. i' = i \/ (i' = i + 1 /\ pc' = "loop")
    BY <1>5 DEF PrepareFails, Prepare, Execute, Capture, Succeed
  <2> QED
    BY <2>1, <2>2, TaskFacts DEF TypeOK, AtTask
<1> QED
  BY <1>1, <1>2, <1>3, <1>4, <1>5, StepCases

\* When a table is to be cleared, no chunked load of it has been reached.
LEMMA NotYetLoaded ==
  ASSUME IndInv, pc = "clear"
  PROVE  /\ i \in DOMAIN tasks /\ ~plan.child /\ ChunkLoad(i) /\ tasks[i].object \notin cleaned
         /\ \A k \in DOMAIN tasks : k < i /\ ChunkLoad(k) => tasks[k].object # tasks[i].object
BY TaskFacts DEF IndInv, LoopPhase, ClearedFirst, MustClear, ChunkLoad, TypeOK

\* The tasks and the counts stay, the tables change only as Loaded says.
LEMMA WriteFacts ==
  ASSUME IndInv, Execute
  PROVE  /\ UNCHANGED <<plan, tasks, cleaned>>
         /\ i \in Enabled /\ i \in DOMAIN tasks /\ tasks[i].object \in Objects
         /\ \/ table' = table /\ i' \in {i, i + 1} /\ succeeded' = succeeded
            \/ /\ table' = [table EXCEPT ![tasks[i].object] = Loaded(i)]
               /\ i' = i + 1 /\ succeeded' \in {succeeded, succeeded \cup {i}}
<1>1. UNCHANGED <<plan, tasks, cleaned>>
  BY DEF Execute
<1>2. i \in Enabled /\ i \in DOMAIN tasks
  BY ExecuteFacts
<1>3. tasks[i].object \in Objects
  BY <1>2, TaskFacts DEF IndInv, Task
<1>4. PICK o \in Outcomes :
        /\ table' = IF o.written THEN [table EXCEPT ![tasks[i].object] = Loaded(i)] ELSE table
        /\ \/ ~o.written /\ UNCHANGED <<i, succeeded>>
           \/ o.written /\ Succeed
           \/ Capture(o.err = "connect")
  BY ExecuteFacts
<1> QED
  BY <1>1, <1>2, <1>3, <1>4 DEF Capture, Succeed

\* A table that is loaded in chunks holds the rows it had before until it is cleared,
\* and then only parts of it.
LEMMA ChunkTablesStep == IndInv /\ [Next]_vars => ChunkTables'
<1> SUFFICES ASSUME IndInv, [Next]_vars PROVE ChunkTables'
  OBVIOUS
<1> USE DEF IndInv, loopVars
<1>1. CASE Quiet
  <2>1. UNCHANGED <<plan, tasks, i, cleaned, table>>
    BY <1>1, QuietFacts
  <2> QED
    BY <2>1 DEF ChunkTables, ChunkObjects, ChunkLoad, Enabled
<1>2. CASE Compile
  <2>1. ChunkObjects = Objects /\ UNCHANGED <<plan, table, cleaned>>
    BY <1>2 DEF Compile, LoopPhase, ChunkObjects
  <2>2. ~plan.child => \A obj \in Objects :
          IF obj \in cleaned THEN table[obj].rows = {} ELSE table[obj].rows \subseteq {0}
    BY <1>2, <2>1 DEF ChunkTables, Enabled, Compile, LoopPhase
  <2>3. ChunkObjects' \subseteq Objects
    BY DEF ChunkObjects
  <2> QED
    BY <2>1, <2>2, <2>3 DEF ChunkTables
<1>3. CASE Loop \/ PrepareFails \/ Prepare
  <2>1. UNCHANGED <<plan, tasks, cleaned, table>> /\ i' \in {i, i + 1}
    BY <1>3 DEF Loop, PrepareFails, Prepare, Capture, Succeed
  <2>2. ChunkObjects' = ChunkObjects /\ Enabled' = Enabled
    BY <2>1 DEF ChunkObjects, ChunkLoad, Enabled
  <2> QED
    BY <2>1, <2>2, TaskFacts DEF ChunkTables, Enabled, TypeOK
<1>4. CASE Clear
  <2>1. UNCHANGED <<plan, tasks>> /\ cleaned' = cleaned \cup {tasks[i].object} /\ i' \in {i, i + 1}
    BY <1>4 DEF Clear
  <2>2. ChunkObjects' = ChunkObjects /\ Enabled' = Enabled
    BY <2>1 DEF ChunkObjects, ChunkLoad, Enabled
  <2>3. i \in DOMAIN tasks /\ tasks[i].object \in Objects
    BY <1>4, NotYetLoaded, TaskFacts DEF Clear, Task
  <2>4. table'[tasks[i].object].rows = {}
    BY <1>4, <2>3 DEF Clear, Holding, NoTable, TypeOK
  <2>5. \A obj \in Objects : obj # tasks[i].object => table'[obj] = table[obj]
    BY <1>4 DEF Clear, TypeOK
  <2>6. \A k \in Enabled : k < i => k < i'
    BY <2>1, TaskFacts DEF Enabled, TypeOK
  <2> SUFFICES ASSUME ~plan.child, NEW obj \in ChunkObjects
               PROVE  IF obj \in cleaned'
                      THEN table'[obj].rows \subseteq {k \in Enabled : tasks[k].object = obj /\ k < i'}
                      ELSE table'[obj].rows \subseteq {0}
    BY <2>1, <2>2 DEF ChunkTables
  <2>7. CASE obj = tasks[i].object
    BY <2>1, <2>4, <2>7
  <2>8. CASE obj # tasks[i].object
    <3>1. table'[obj] = table[obj] /\ (obj \in cleaned' <=> obj \in cleaned)
      BY <2>1, <2>5, <2>8 DEF ChunkObjects
    <3>2. IF obj \in cleaned THEN table[obj].rows \subseteq {k \in Enabled : tasks[k].object = obj /\ k < i}
                             ELSE table[obj].rows \subseteq {0}
      BY DEF ChunkTables
    <3> QED
      BY <2>6, <3>1, <3>2
  <2> QED
    BY <2>7, <2>8
<1>5. CASE Execute
  <2>0. UNCHANGED <<plan, tasks, cleaned>> /\ i \in Enabled /\ i \in DOMAIN tasks
    BY <1>5, WriteFacts
  <2>1. ChunkObjects' = ChunkObjects /\ Enabled' = Enabled
    BY <2>0 DEF ChunkObjects, ChunkLoad, Enabled
  <2>2. CASE table' = table /\ i' \in {i, i + 1}
    BY <2>0, <2>1, <2>2, TaskFacts DEF ChunkTables, Enabled, TypeOK
  <2>3. CASE table' = [table EXCEPT ![tasks[i].object] = Loaded(i)] /\ i' = i + 1
    <3> SUFFICES ASSUME ~plan.child, NEW obj \in ChunkObjects
                 PROVE  IF obj \in cleaned
                        THEN table'[obj].rows \subseteq {k \in Enabled : tasks[k].object = obj /\ k < i + 1}
                        ELSE table'[obj].rows \subseteq {0}
      BY <2>0, <2>1, <2>3 DEF ChunkTables
    <3>0. obj \in Objects
      BY DEF ChunkObjects
    <3>1. CASE obj # tasks[i].object
      <4>1. table'[obj] = table[obj]
        BY <2>3, <3>0, <3>1 DEF TypeOK
      <4> QED
        BY <4>1, TaskFacts DEF ChunkTables, Enabled, TypeOK
    <3>2. CASE obj = tasks[i].object
      <4>1. ChunkLoad(i)
        BY <2>0, <3>2 DEF ChunkObjects
      <4>2. obj \in cleaned
        BY <1>5, <2>0, <3>2, <4>1 DEF ClearedFirst, AtTask, Execute
      <4>3. table'[obj].rows = table[obj].rows \cup {i}
        BY <2>3, <3>0, <3>2, <4>1 DEF Loaded, ChunkLoad, Holding, TypeOK
      <4>4. table[obj].rows \subseteq {k \in Enabled : tasks[k].object = obj /\ k < i}
        BY <4>2 DEF ChunkTables
      <4> QED
        BY <2>0, <3>2, <4>2, <4>3, <4>4, TaskFacts DEF Enabled, TypeOK
    <3> QED
      BY <3>1, <3>2
  <2> QED
    BY <1>5, <2>2, <2>3, WriteFacts
<1> QED
  BY <1>1, <1>2, <1>3, <1>4, <1>5, StepCases

\* What a later task replaces, it replaces for good.
LEMMA ReplacesStays ==
  ASSUME UNCHANGED tasks PROVE \A m, k : Replaces(m, k)' <=> Replaces(m, k)
BY DEF Replaces, ChunkLoad, Enabled

\* The rows of a stream that succeeded stay until a later load replaces them.
LEMMA LoadedKeptStep == IndInv /\ [Next]_vars => LoadedKept'
<1> SUFFICES ASSUME IndInv, [Next]_vars, ~plan'.dry PROVE \A k \in succeeded' : Kept(k)'
  BY DEF LoadedKept
<1> USE DEF IndInv, loopVars
<1>0. succeeded \subseteq DOMAIN tasks /\ \A k \in succeeded : k < i /\ tasks[k].object \in Objects
  BY TaskFacts DEF Counted, Enabled, Task
<1>1. CASE Quiet
  BY <1>1, QuietFacts DEF LoadedKept, Kept, Replaces, ChunkLoad, Enabled
<1>2. CASE Compile
  <2>1. succeeded' = {}
    BY <1>2, <1>0 DEF Compile, LoopPhase
  <2> QED
    BY <2>1
<1>3. CASE Loop \/ PrepareFails \/ Prepare
  <2>1. UNCHANGED <<plan, tasks, table>>
    BY <1>3 DEF Loop, PrepareFails, Prepare
  <2>2. succeeded' = succeeded
    BY <1>3, <2>1 DEF Loop, PrepareFails, Prepare, Capture, Succeed
  <2> QED
    BY <2>1, <2>2, ReplacesStays DEF LoadedKept, Kept
<1>4. CASE Clear
  <2>1. UNCHANGED <<plan, tasks, succeeded>>
    BY <1>4 DEF Clear
  <2> SUFFICES ASSUME NEW k \in succeeded PROVE Kept(k)'
    BY <2>1
  <2>2. Kept(k)
    BY <2>1 DEF LoadedKept
  <2>3. CASE tasks[k].object = tasks[i].object
    <3>1. ~ChunkLoad(k) /\ ChunkLoad(i) /\ i \in DOMAIN tasks /\ k < i
      BY <1>0, <1>4, <2>3, NotYetLoaded DEF Clear
    <3>2. Replaces(i, k)
      BY <1>0, <2>3, <3>1, TaskFacts DEF Replaces, ChunkLoad, TypeOK
    <3> QED
      BY <2>1, <3>1, <3>2, ReplacesStays DEF Kept
  <2>4. CASE tasks[k].object # tasks[i].object
    <3>1. table'[tasks[k].object] = table[tasks[k].object]
      BY <1>0, <1>4, <2>4 DEF Clear, TypeOK
    <3> QED
      BY <2>1, <2>2, <3>1, ReplacesStays DEF Kept
  <2> QED
    BY <2>3, <2>4
<1>5. CASE Execute
  <2>0. UNCHANGED <<plan, tasks, cleaned>> /\ i \in Enabled /\ i \in DOMAIN tasks
        /\ tasks[i].object \in Objects
    BY <1>5, WriteFacts
  <2>1. CASE table' = table /\ succeeded' = succeeded
    BY <2>0, <2>1, ReplacesStays DEF LoadedKept, Kept
  <2>2. CASE /\ table' = [table EXCEPT ![tasks[i].object] = Loaded(i)]
             /\ succeeded' \in {succeeded, succeeded \cup {i}}
    <3> SUFFICES ASSUME NEW k \in succeeded \cup {i} PROVE Kept(k)'
      BY <2>2
    <3>0. tasks[k].object \in Objects
      BY <1>0, <2>0
    <3>1. table'[tasks[i].object] = Loaded(i)
      BY <2>0, <2>2 DEF TypeOK
    <3>2. CASE k = i
      <4>1. i \in table'[tasks[i].object].rows
        BY <3>1 DEF Loaded, Holding
      <4> QED
        BY <2>0, <3>2, <4>1 DEF Kept
    <3>3. CASE k # i /\ tasks[k].object # tasks[i].object
      <4>1. table'[tasks[k].object] = table[tasks[k].object] /\ Kept(k)
        BY <2>0, <2>2, <3>0, <3>3 DEF TypeOK, LoadedKept
      <4> QED
        BY <2>0, <4>1, ReplacesStays DEF Kept
    <3>4. CASE k # i /\ tasks[k].object = tasks[i].object
      <4>0. k < i /\ Kept(k)
        BY <1>0, <2>0, <3>4 DEF LoadedKept
      <4>1. CASE tasks[i].chunking \/ tasks[i].mode = "incremental"
        <5>1. table[tasks[k].object].rows \subseteq table'[tasks[k].object].rows
          BY <3>1, <3>4, <4>1 DEF Loaded, Holding
        <5> QED
          BY <2>0, <4>0, <5>1, ReplacesStays DEF Kept
      <4>2. CASE ~tasks[i].chunking /\ tasks[i].mode # "incremental"
        <5>1. Replaces(i, k)
          BY <1>0, <2>0, <3>4, <4>0, <4>2, TaskFacts DEF Replaces, ChunkLoad, TypeOK
        <5> QED
          BY <2>0, <5>1, ReplacesStays DEF Kept
      <4> QED
        BY <4>1, <4>2
    <3> QED
      BY <3>2, <3>3, <3>4
  <2> QED
    BY <1>5, <2>1, <2>2, WriteFacts
<1> QED
  BY <1>1, <1>2, <1>3, <1>4, <1>5, StepCases

\* Nil comes from an empty replication or from the end of the loop.
LEMMA NilPhaseStep == IndInv /\ [Next]_vars => NilPhase'
<1> SUFFICES ASSUME IndInv, [Next]_vars PROVE NilPhase'
  OBVIOUS
<1> USE DEF IndInv, NilPhase, LoopPhase, loopVars, signalVars
<1>1. CASE ReturnErrors
  BY <1>1 DEF ReturnErrors, Return, GroupErr
<1>2. CASE Quiet /\ ~ReturnErrors
  <2>1. UNCHANGED <<tasks, failed, i>> /\ (interrupted => interrupted')
    BY <1>2, QuietFacts
  <2>2. result' = "nil" => result = "nil"
    BY <1>2 DEF Quiet, CompileFails, ClearFails, Return, StartHooks, StartHooksFail,
       EndHooks, Interrupt, CancelContext, Kill, Timeout, vars
  <2> QED
    BY <2>1, <2>2
<1>3. CASE Compile
  BY <1>3 DEF Compile
<1>4. CASE Loop \/ Clear \/ PrepareFails \/ Prepare \/ Execute
  BY <1>4 DEF Loop, Clear, PrepareFails, Prepare, Execute
<1> QED
  BY <1>1, <1>2, <1>3, <1>4, StepCases

\* The end hooks are run on the way to the return.
LEMMA HooksPhaseStep == IndInv /\ [Next]_vars => HooksPhase'
<1> SUFFICES ASSUME IndInv, [Next]_vars PROVE HooksPhase'
  OBVIOUS
<1> USE DEF IndInv, HooksPhase, LoopPhase, loopVars, signalVars
<1>0. plan' = plan
  BY DEF Next, Run, Over, vars, CompileFails, ReturnErrors, ClearFails, Return, StartHooks,
     StartHooksFail, EndHooks, Interrupt, CancelContext, Kill, Timeout, Compile, Loop, Clear,
     PrepareFails, Prepare, Execute
<1>1. CASE CompileFails
  BY <1>1, <1>0 DEF CompileFails, Return, EndHooksRun
<1>2. CASE ReturnErrors
  BY <1>2, <1>0 DEF ReturnErrors, Return, EndHooksRun
<1>3. CASE ClearFails
  <2>1. MustClear(i)' /\ (i <= Len(tasks))'
    BY <1>3, <1>0 DEF ClearFails, Return, MustClear
  <2> QED
    BY <1>3, <1>0, <2>1 DEF ClearFails, Return, EndHooksRun
<1>4. CASE StartHooks
  BY <1>4, <1>0 DEF StartHooks, EndHooksRun
<1>5. CASE StartHooksFail
  BY <1>5, <1>0 DEF StartHooksFail, EndHooksRun, TypeOK
<1>6. CASE EndHooks
  <2>1. plan.endHooks /\ ~plan.child => hooks'["end"] # "none"
    BY <1>6 DEF EndHooks, TypeOK
  <2> QED
    BY <1>6, <1>0, <2>1 DEF EndHooks, EndHooksRun
<1>7. CASE Interrupt \/ CancelContext \/ Kill \/ Timeout \/ UNCHANGED vars
  <2>1. UNCHANGED <<plan, hooks, result, tasks, i, cleaned>> /\ (pc' = pc \/ pc' = "killed")
    BY <1>7 DEF Interrupt, CancelContext, Kill, Timeout, vars
  <2> QED
    BY <2>1 DEF EndHooksRun, MustClear
<1>8. CASE Compile
  BY <1>8, <1>0 DEF Compile, EndHooksRun
<1>9. CASE Loop \/ Clear \/ PrepareFails \/ Prepare \/ Execute
  <2>1. result' = "none" /\ pc' # "return"
    BY <1>9 DEF Loop, AfterLoop, Clear, PrepareFails, Prepare, Execute, Capture, Succeed
  <2> QED
    BY <2>1 DEF EndHooksRun
<1> QED
  BY <1>1, <1>2, <1>3, <1>4, <1>5, <1>6, <1>7, <1>8, <1>9, StepCases DEF Quiet

-----------------------------------------------------------------------------
(* The theorems.                                                            *)

\* The invariant holds in every reachable state of every replication.
THEOREM ReplicationInvariance == Spec => []IndInv
<1>1. Init => IndInv
  BY InvInit
<1>2. IndInv /\ [Next]_vars => IndInv'
  <2> SUFFICES ASSUME IndInv, [Next]_vars PROVE IndInv'
    OBVIOUS
  <2>1. TypeOK'
    BY TypeStep DEF IndInv
  <2> QED
    BY <2>1, LoopPhaseStep, CountedStep, PublishedStep, ClearedFirstStep, ChunkTablesStep,
       LoadedKeptStep, NilPhaseStep, HooksPhaseStep DEF IndInv
<1> QED
  BY <1>1, <1>2, PTL DEF Spec

\* The state of a run is well typed (replicationRun).
THEOREM ReplicationTypes == Spec => []TypeOK
<1>1. IndInv => TypeOK
  BY DEF IndInv
<1> QED
  BY <1>1, ReplicationInvariance, PTL

\* A run that returns nil to its caller has counted every enabled stream as a success.
LEMMA NilMeansAll ==
  ASSUME IndInv, ReportedComplete PROVE succeeded = Enabled
<1>1. CASE tasks = <<>>
  BY <1>1 DEF IndInv, TypeOK, Enabled
<1>2. CASE failed = {} /\ i > Len(tasks)
  <2>1. \A k \in Enabled : k < i
    BY <1>2, TaskFacts DEF IndInv, TypeOK, Enabled
  <2> QED
    BY <1>2, <2>1 DEF IndInv, Counted
<1> QED
  BY <1>1, <1>2 DEF IndInv, NilPhase, ReportedComplete

\* A replication that reports no error has loaded every enabled stream, whatever the
\* number of streams, their modes and the tables they share (lines 711-789).
THEOREM SuccessComplete == Spec => []SuccessIsComplete
<1>1. IndInv => SuccessIsComplete
  <2> SUFFICES ASSUME IndInv, ReportedComplete PROVE \A k \in Enabled : Kept(k)
    BY DEF SuccessIsComplete
  <2> QED
    BY NilMeansAll DEF IndInv, LoadedKept, ReportedComplete
<1> QED
  BY <1>1, ReplicationInvariance, PTL

\* A table loaded in chunks holds exactly its parts when no error is reported: it was
\* cleared once, before the first of them (lines 709 and 719-724).
THEOREM ChunksReplaceAll == Spec => []ChunksReplace
<1>1. IndInv => ChunksReplace
  <2> SUFFICES ASSUME IndInv, ReportedComplete, ~plan.child, NEW obj \in ChunkObjects,
                      NEW n \in DOMAIN tasks, tasks[n].object = obj
               PROVE  table[obj].rows = {k \in Enabled : tasks[k].object = obj}
    BY DEF ChunksReplace
  <2>1. i > Len(tasks)
    BY TaskFacts DEF IndInv, NilPhase, ReportedComplete
  <2>2. ChunkLoad(n) /\ n < i
    BY <2>1, TaskFacts DEF ChunkObjects, IndInv, TypeOK
  <2>3. obj \in cleaned
    BY <2>2 DEF IndInv, ClearedFirst
  <2>4. table[obj].rows \subseteq {k \in Enabled : tasks[k].object = obj}
    BY <2>3 DEF IndInv, ChunkTables
  <2>5. ASSUME NEW k \in Enabled, tasks[k].object = obj PROVE k \in table[obj].rows
    <3>1. Kept(k)
      BY NilMeansAll DEF IndInv, LoadedKept, ReportedComplete
    <3>2. ASSUME NEW m \in DOMAIN tasks, Replaces(m, k) PROVE FALSE
      <4>1. tasks[m].object = obj /\ k \in DOMAIN tasks
        BY <2>5, <3>2 DEF Replaces, Enabled
      <4>2. ChunkLoad(m) /\ ChunkLoad(k)
        BY <2>5, <4>1 DEF ChunkObjects
      <4> QED
        BY <3>2, <4>2 DEF Replaces
    <3> QED
      BY <2>5, <3>1, <3>2 DEF Kept
  <2> QED
    BY <2>4, <2>5
<1> QED
  BY <1>1, ReplicationInvariance, PTL

\* Every enabled stream is counted once when the end hooks run; only an interrupt
\* leaves out the last ones (runTask's error, eG and successes, lines 741-757).
THEOREM StreamsCounted == Spec => []EveryStreamCounted
<1>1. IndInv => EveryStreamCounted
  <2> SUFFICES ASSUME IndInv PROVE EveryStreamCounted
    OBVIOUS
  <2>1. /\ succeeded \cap failed = {}
        /\ (succeeded \cup failed) \cap (DOMAIN tasks \ Enabled) = {}
    BY DEF IndInv, Counted
  <2>2. \A k \in Enabled : k \in succeeded \cup failed <=> k < i
    BY DEF IndInv, Counted
  <2>3. i > Len(tasks) => Enabled \subseteq succeeded \cup failed
    BY <2>2, TaskFacts DEF IndInv, Enabled, TypeOK
  <2> QED
    BY <2>1, <2>2, <2>3 DEF EveryStreamCounted, IndInv, LoopPhase
<1> QED
  BY <1>1, ReplicationInvariance, PTL

\* The status the end hooks are shown of a stream agrees with what was counted of it,
\* a retried one included (StateSet and the deferred call in runTask).
THEOREM HooksSeeOutcome == Spec => []RunsShowOutcome
<1>1. IndInv => RunsShowOutcome
  BY DEF IndInv, Published, RunsShowOutcome
<1> QED
  BY <1>1, ReplicationInvariance, PTL

\* The end hooks are not skipped, after an interrupt either, except where a table
\* could not be cleared (lines 719-724 and 761-766).
THEOREM HooksRun == Spec => []EndHooksRun
<1>1. IndInv => EndHooksRun
  BY DEF IndInv, HooksPhase
<1> QED
  BY <1>1, ReplicationInvariance, PTL

\* No step takes away the rows of a part: a table is cleared before its first part
\* only (cleanedForChunkLoad).
THEOREM PartsAreKept == Spec => PartsStay
<1>1. IndInv /\ [Next]_vars =>
        [\A obj \in ChunkObjects : table[obj].rows \ {0} \subseteq table'[obj].rows]_vars
  <2> SUFFICES ASSUME IndInv, [Next]_vars, NEW obj \in ChunkObjects
               PROVE  table[obj].rows \ {0} \subseteq table'[obj].rows
    OBVIOUS
  <2>0. obj \in Objects
    BY DEF ChunkObjects
  <2>1. CASE Quiet \/ Compile \/ Loop \/ PrepareFails \/ Prepare
    <3>1. table' = table
      BY <2>1, QuietFacts DEF IndInv, Compile, Loop, PrepareFails, Prepare
    <3> QED
      BY <3>1
  <2>2. CASE Clear
    <3>1. CASE obj # tasks[i].object
      BY <2>0, <2>2, <3>1 DEF Clear, IndInv, TypeOK
    <3>2. CASE obj = tasks[i].object
      <4>1. obj \notin cleaned /\ ~plan.child
        BY <2>2, <3>2, NotYetLoaded DEF Clear
      <4> QED
        BY <4>1 DEF IndInv, ChunkTables
    <3> QED
      BY <3>1, <3>2
  <2>3. CASE Execute
    <3>1. CASE obj # tasks[i].object
      BY <2>0, <2>3, <3>1, WriteFacts DEF IndInv, TypeOK
    <3>2. CASE obj = tasks[i].object
      <4>1. tasks[i].chunking
        BY <2>3, <3>2, WriteFacts DEF ChunkObjects, ChunkLoad
      <4>2. Loaded(i).rows = table[obj].rows \cup {i}
        BY <3>2, <4>1 DEF Loaded, Holding
      <4> QED
        BY <2>0, <2>3, <3>2, <4>2, WriteFacts DEF IndInv, TypeOK
    <3> QED
      BY <3>1, <3>2
  <2> QED
    BY <2>1, <2>2, <2>3, StepCases
<1> QED
  BY <1>1, ReplicationInvariance, PTL DEF Spec, PartsStay
============================================================================
