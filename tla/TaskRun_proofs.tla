--------------------------- MODULE TaskRun_proofs ---------------------------
(***************************************************************************)
(* Proofs about TaskRun, for every set of tasks: its invariants, and that a *)
(* writer given up by Execute changes no rows afterwards.                   *)
(***************************************************************************)
EXTENDS TaskRun, TLAPS

-----------------------------------------------------------------------------
(* Tables.                                                                  *)

\* The constructors of tables return tables.
LEMMA TableFacts ==
  /\ NoTable \in Table /\ NoTemp \in TempTable
  /\ \A r \in SUBSET Rows : Holding(r) \in Table
BY DEF NoTable, NoTemp, Table, TempTable, Holding

\* The batches of rows the actions add are sets of rows.
LEMMA RowFacts ==
  /\ SourceRows \in SUBSET Rows /\ {"part"} \in SUBSET Rows /\ {"old"} \in SUBSET Rows
  /\ {} \in SUBSET Rows
BY DEF SourceRows, Rows

\* What the target held at first is a table.
LEMMA InitialTableType == InitialTable \in Table
BY TableFacts, RowFacts DEF InitialTable

-----------------------------------------------------------------------------
\* The initial states are well typed.
LEMMA TypeInit == Init => TypeOK
<1> SUFFICES ASSUME Init PROVE TypeOK
  OBVIOUS
<1>1. target \in Table /\ work \in Table
  BY InitialTableType DEF Init
<1>2. tmp \in TempTable
  <2>1. [exists |-> TRUE, owed |-> FALSE, rows |-> {"stale"}] \in TempTable
    BY DEF TempTable, Rows
  <2> QED
    BY <2>1, TableFacts DEF Init
<1>3. dropKey \in BOOLEAN
  BY TasksAssumption DEF Init, Task
<1> QED
  BY <1>1, <1>2, <1>3 DEF Init, TypeOK

\* The part of the type invariant that speaks of the tables.
TableTypes == target \in Table /\ work \in Table /\ tmp \in TempTable

\* A step of Cleanup keeps the types of what it changes.
LEMMA CleanupTypes ==
  ASSUME NEW who, NEW at, NEW done, NEW at1, TypeOK, Cleanup(who, at, done, at1),
         who \in {"main", "writer", "cleaner"}
  PROVE  /\ at1 \in {done, "cleaning"}
         /\ mux' \in {"free", "main", "writer", "cleaner", "hb"}
         /\ cleanedUp' \in BOOLEAN /\ dropKey' \in BOOLEAN
         /\ tmp' \in TempTable
<1>1. CASE CleanupBegin(who, at, done, at1)
  BY <1>1 DEF CleanupBegin, TypeOK
<1>2. CASE CleanupEnd(at, done, at1)
  <2>1. [tmp EXCEPT !.owed = FALSE] \in TempTable
    BY DEF TypeOK, TempTable
  <2> QED
    BY <1>2, <2>1, TableFacts DEF CleanupEnd, TypeOK
<1> QED
  BY <1>1, <1>2 DEF Cleanup

\* A call of the writer leaves tables behind.
LEMMA WriterTableTypes ==
  ASSUME TypeOK, WriterCalls PROVE TableTypes'
<1> USE DEF TypeOK, TableTypes, tableVars, writerKeeps
<1>1. CASE Start \/ PreHooks \/ FailsEarly \/ Read \/ IgnoreExisting \/ NoColumns \/ AddCleanup
           \/ Verify \/ VerifyTarget \/ PostWrite \/ FinishWriter
  BY <1>1 DEF Start, PreHooks, FailsEarly, Read, IgnoreExisting, NoColumns, AddCleanup, Verify,
     VerifyTarget, PostWrite, FinishWriter
<1>2. CASE Fails \/ DropTemp \/ CommitFinal
  BY <1>2, TableFacts DEF Fails, DropTemp, CommitFinal
<1>3. CASE CreateTemp
  BY <1>3 DEF CreateTemp, TempTable
<1>4. CASE CreateTarget
  BY <1>4, TableFacts, RowFacts DEF CreateTarget
<1>5. CASE MergeData
  <2>1. work.rows \cup tmp.rows \in SUBSET Rows
    BY DEF Table, TempTable
  <2> QED
    BY <1>5, <2>1, TableFacts DEF MergeData, WriteTarget
<1>6. ASSUME NEW ok \in BOOLEAN, Define(ok) \/ PrepareFinal(ok) PROVE TableTypes'
  BY <1>6, TableFacts, RowFacts DEF Define, PrepareFinal, WriteTarget
<1>7. ASSUME NEW ok \in BOOLEAN, LoadTemp(ok) PROVE TableTypes'
  <2>1. [tmp EXCEPT !.rows = @ \cup SourceRows] \in TempTable
    BY RowFacts DEF TempTable
  <2>2. [tmp EXCEPT !.rows = IF task.tx \/ ~task.rows THEN @ ELSE @ \cup {"part"}] \in TempTable
    BY RowFacts DEF TempTable
  <2> QED
    BY <1>7, <2>1, <2>2 DEF LoadTemp
<1>8. ASSUME NEW ok \in BOOLEAN, LoadTarget(ok) PROVE TableTypes'
  <2>1. work.rows \cup SourceRows \in SUBSET Rows /\ work.rows \cup {"part"} \in SUBSET Rows
    BY RowFacts DEF Table
  <2> QED
    BY <1>8, <2>1, TableFacts DEF LoadTarget, WriteTarget
<1> QED
  BY <1>1, <1>2, <1>3, <1>4, <1>5, <1>6, <1>7, <1>8 DEF WriterCalls

\* Types survive every step; Return needs StatusPhase, or t.Status could become empty.
LEMMA TypeStep == TypeOK /\ StatusPhase /\ [Next]_vars => TypeOK'
<1> SUFFICES ASSUME TypeOK, StatusPhase, [Next]_vars PROVE TypeOK'
  OBVIOUS
<1> USE DEF tableVars, statusVars, cleanVars, goroutines
<1>1. CASE MainCalls
  <2>1. CASE WriterDone \/ ContextDone \/ GraceOver \/ Interrupt \/ Publish \/ Return \/ LastSet
    BY <1>1, <2>1 DEF TypeOK, StatusPhase, WriterDone, ContextDone, GraceOver, Interrupt, Publish,
       Return, LastSet, mainKeeps, Final
  <2>2. ASSUME NEW ok \in BOOLEAN, Settle(ok) PROVE TypeOK'
    BY <2>2 DEF TypeOK, Settle, Settled, mainKeeps, Final
  <2>3. ASSUME NEW ok \in BOOLEAN, PostHooks(ok) PROVE TypeOK'
    BY <2>3 DEF TypeOK, PostHooks, mainKeeps, Final
  <2> QED
    BY <1>1, <2>1, <2>2, <2>3 DEF MainCalls
<1>2. CASE MainCleanup
  BY <1>2, CleanupTypes DEF TypeOK, MainCleanup, cleanupKeeps
<1>3. CASE WriterCleanup
  BY <1>3, CleanupTypes DEF TypeOK, WriterCleanup, cleanupKeeps
<1>4. CASE CleanerCleanup
  BY <1>4, CleanupTypes DEF TypeOK, CleanerCleanup, cleanupKeeps
<1>5. CASE Tick \/ Select \/ HeartbeatRead \/ HeartbeatSet
  BY <1>5 DEF TypeOK, Tick, Select, HeartbeatRead, HeartbeatSet, hbKeeps, Final
<1>6. ASSUME NEW why \in {"interrupt", "timeout"}, Cancel(why) PROVE TypeOK'
  BY <1>6 DEF TypeOK, Cancel
<1>7. CASE WriterCalls
  <2>1. TableTypes'
    BY <1>7, WriterTableTypes
  <2>2. TypeOK' \/ ~TableTypes'
    BY <1>7 DEF TypeOK, TableTypes, WriterCalls, Start, PreHooks, FailsEarly, Read, IgnoreExisting,
       NoColumns, Fails, DropTemp, CreateTemp, AddCleanup, CreateTarget, Verify, VerifyTarget,
       MergeData, CommitFinal, PostWrite, FinishWriter, Define, LoadTemp, LoadTarget, PrepareFinal,
       writerKeeps, Final
  <2> QED
    BY <2>1, <2>2
<1>8. CASE UNCHANGED vars
  BY <1>8 DEF TypeOK, vars
<1> QED
  BY <1>1, <1>2, <1>3, <1>4, <1>5, <1>6, <1>7, <1>8 DEF Next, Done

-----------------------------------------------------------------------------
(* The mutex, and how far the writer is when main goes on.                  *)

\* Who is inside a critical section holds the mutex, after every step too.
LEMMA MutexStep == MutexHeld /\ [Next]_vars => MutexHeld'
<1> SUFFICES ASSUME MutexHeld, [Next]_vars PROVE MutexHeld'
  OBVIOUS
<1> USE DEF MutexHeld, Unlocked, tableVars, statusVars, cleanVars, goroutines
<1>1. CASE MainCalls
  BY <1>1 DEF MainCalls, WriterDone, ContextDone, GraceOver, Interrupt, Publish, Settle, PostHooks,
     Return, LastSet, mainKeeps
<1>2. CASE MainCleanup
  BY <1>2 DEF MainCleanup, Cleanup, CleanupBegin, CleanupEnd, cleanupKeeps
<1>3. CASE WriterCleanup
  BY <1>3 DEF WriterCleanup, Cleanup, CleanupBegin, CleanupEnd, cleanupKeeps
<1>4. CASE CleanerCleanup
  BY <1>4 DEF CleanerCleanup, Cleanup, CleanupBegin, CleanupEnd, cleanupKeeps
<1>5. CASE Tick \/ Select \/ HeartbeatRead \/ HeartbeatSet
  BY <1>5 DEF Tick, Select, HeartbeatRead, HeartbeatSet, hbKeeps
<1>6. ASSUME NEW why \in {"interrupt", "timeout"}, Cancel(why) PROVE MutexHeld'
  BY <1>6 DEF Cancel
<1>7. CASE WriterCalls
  BY <1>7 DEF WriterCalls, Start, PreHooks, FailsEarly, Read, IgnoreExisting, NoColumns, Fails,
     DropTemp, CreateTemp, AddCleanup, CreateTarget, Verify, VerifyTarget, MergeData, CommitFinal,
     PostWrite, FinishWriter, Define, LoadTemp, LoadTarget, PrepareFinal, writerKeeps
<1>8. CASE UNCHANGED vars
  BY <1>8 DEF vars
<1> QED
  BY <1>1, <1>2, <1>3, <1>4, <1>5, <1>6, <1>7, <1>8 DEF Next, Done

\* How far the writer has come when main has left its wait survives every step.
LEMMA MainStep == TypeOK /\ MainPhase /\ [Next]_vars => MainPhase'
<1> SUFFICES ASSUME TypeOK, MainPhase, [Next]_vars PROVE MainPhase'
  OBVIOUS
<1> USE DEF MainPhase, tableVars, statusVars, cleanVars, goroutines
<1>1. CASE MainCalls
  BY <1>1 DEF TypeOK, MainCalls, WriterDone, ContextDone, GraceOver, Interrupt, Publish, Settle,
     PostHooks, Return, LastSet, mainKeeps
<1>2. CASE MainCleanup
  BY <1>2 DEF MainCleanup, Cleanup, CleanupBegin, CleanupEnd, cleanupKeeps
<1>3. CASE WriterCleanup
  BY <1>3 DEF WriterCleanup, Cleanup, CleanupBegin, CleanupEnd, cleanupKeeps
<1>4. CASE CleanerCleanup
  BY <1>4 DEF CleanerCleanup, Cleanup, CleanupBegin, CleanupEnd, cleanupKeeps
<1>5. CASE Tick \/ Select \/ HeartbeatRead \/ HeartbeatSet
  BY <1>5 DEF Tick, Select, HeartbeatRead, HeartbeatSet, hbKeeps
<1>6. ASSUME NEW why \in {"interrupt", "timeout"}, Cancel(why) PROVE MainPhase'
  BY <1>6 DEF Cancel
<1>7. CASE WriterCalls
  BY <1>7 DEF WriterCalls, Start, PreHooks, FailsEarly, Read, IgnoreExisting, NoColumns, Fails,
     DropTemp, CreateTemp, AddCleanup, CreateTarget, Verify, VerifyTarget, MergeData, CommitFinal,
     PostWrite, FinishWriter, Define, LoadTemp, LoadTarget, PrepareFinal, writerKeeps
<1>8. CASE UNCHANGED vars
  BY <1>8 DEF vars
<1> QED
  BY <1>1, <1>2, <1>3, <1>4, <1>5, <1>6, <1>7, <1>8 DEF Next, Done

-----------------------------------------------------------------------------
(* The status that is shown.                                                *)

\* The relation of the override to the published status survives every step.
LEMMA StatusStep ==
  TypeOK /\ MutexHeld /\ MainPhase /\ StatusPhase /\ [Next]_vars => StatusPhase'
<1> SUFFICES ASSUME TypeOK, MutexHeld, MainPhase, StatusPhase, [Next]_vars PROVE StatusPhase'
  OBVIOUS
<1> USE DEF StatusPhase, PostHooksSeeStatus, FinalStatusSticks, tableVars, statusVars, cleanVars,
        goroutines
<1>1. CASE MainCalls
  <2>1. CASE WriterDone \/ ContextDone \/ GraceOver \/ Interrupt \/ Publish \/ Return \/ LastSet
    BY <2>1 DEF WriterDone, ContextDone, GraceOver, Interrupt, Publish, Return, LastSet, mainKeeps,
       TypeOK, Final
  <2>2. ASSUME NEW ok \in BOOLEAN, Settle(ok) PROVE StatusPhase'
    BY <2>2 DEF Settle, Settled, mainKeeps, TypeOK, Final
  <2>3. ASSUME NEW ok \in BOOLEAN, PostHooks(ok) PROVE StatusPhase'
    BY <2>3 DEF PostHooks, mainKeeps
  <2> QED
    BY <1>1, <2>1, <2>2, <2>3 DEF MainCalls
<1>2. CASE MainCleanup
  BY <1>2 DEF MainCleanup, Cleanup, CleanupBegin, CleanupEnd, cleanupKeeps
<1>3. CASE WriterCleanup
  <2>1. mux # "hb"
    BY <1>3 DEF WriterCleanup, Cleanup, CleanupBegin, CleanupEnd, MutexHeld, Unlocked
  <2> QED
    BY <1>3, <2>1 DEF WriterCleanup, cleanupKeeps
<1>4. CASE CleanerCleanup
  <2>1. mux # "hb"
    BY <1>4 DEF CleanerCleanup, Cleanup, CleanupBegin, CleanupEnd, MutexHeld, Unlocked
  <2> QED
    BY <1>4, <2>1 DEF CleanerCleanup, cleanupKeeps
<1>5. CASE Tick \/ Select \/ HeartbeatRead \/ HeartbeatSet
  BY <1>5 DEF Tick, Select, HeartbeatRead, HeartbeatSet, hbKeeps, TypeOK, MutexHeld, Unlocked
<1>6. ASSUME NEW why \in {"interrupt", "timeout"}, Cancel(why) PROVE StatusPhase'
  BY <1>6 DEF Cancel
<1>7. CASE WriterCalls
  <2>1. CASE Start
    BY <2>1 DEF Start, writerKeeps, MainPhase
  <2>2. CASE FinishWriter
    BY <2>2 DEF FinishWriter
  <2> QED
    BY <1>7, <2>1, <2>2 DEF WriterCalls, PreHooks, FailsEarly, Read, IgnoreExisting, NoColumns, Fails,
       DropTemp, CreateTemp, AddCleanup, CreateTarget, Verify, VerifyTarget, MergeData, CommitFinal,
       PostWrite, Define, LoadTemp, LoadTarget, PrepareFinal, writerKeeps
<1>8. CASE UNCHANGED vars
  BY <1>8 DEF vars
<1> QED
  BY <1>1, <1>2, <1>3, <1>4, <1>5, <1>6, <1>7, <1>8 DEF Next, Done

-----------------------------------------------------------------------------
(* The temporary table.                                                     *)

\* No step changes what the task is.
LEMMA TaskKept == [Next]_vars => task' = task
<1> SUFFICES ASSUME [Next]_vars PROVE task' = task
  OBVIOUS
<1>1. CASE MainCalls
  BY <1>1 DEF MainCalls, WriterDone, ContextDone, GraceOver, Interrupt, Publish, Settle, PostHooks,
     Return, LastSet, mainKeeps
<1>2. CASE MainCleanup \/ WriterCleanup \/ CleanerCleanup
  BY <1>2 DEF MainCleanup, WriterCleanup, CleanerCleanup, cleanupKeeps
<1>3. CASE Tick \/ Select \/ HeartbeatRead \/ HeartbeatSet
  BY <1>3 DEF Tick, Select, HeartbeatRead, HeartbeatSet, hbKeeps
<1>4. ASSUME NEW why \in {"interrupt", "timeout"}, Cancel(why) PROVE task' = task
  BY <1>4 DEF Cancel
<1>5. CASE WriterCalls
  BY <1>5 DEF WriterCalls, Start, PreHooks, FailsEarly, Read, IgnoreExisting, NoColumns, Fails,
     DropTemp, CreateTemp, AddCleanup, CreateTarget, Verify, VerifyTarget, MergeData, CommitFinal,
     PostWrite, FinishWriter, Define, LoadTemp, LoadTarget, PrepareFinal, writerKeeps
<1>6. CASE UNCHANGED vars
  BY <1>6 DEF vars
<1> QED
  BY <1>1, <1>2, <1>3, <1>4, <1>5, <1>6 DEF Next, Done

\* A table that is not there is owed nothing.
LEMMA NoTempOwed == NoTemp.owed = FALSE
  BY DEF NoTemp

\* A cleanup that finds the drop registered and not yet done leaves nothing owed.
LEMMA CleanupDrops ==
  ASSUME TypeOK, TempPhase, ~task.again, cleaner = "off", writer # "addCleanup",
         NEW at, NEW done, NEW at1, CleanupEnd(at, done, at1)
  PROVE  ~tmp'.owed
<1>1. CASE DropsTemp
  <2>1. [tmp EXCEPT !.owed = FALSE].owed = FALSE
    BY DEF TypeOK, TempTable
  <2> QED
    BY <1>1, <2>1, NoTempOwed DEF CleanupEnd
<1>2. CASE ~DropsTemp
  BY <1>2 DEF CleanupEnd, DropsTemp, TempPhase
<1> QED
  BY <1>1, <1>2

\* What is owed to the temporary table survives every step.
LEMMA TempStep == TypeOK /\ MainPhase /\ TempPhase /\ [Next]_vars => TempPhase'
<1> SUFFICES ASSUME TypeOK, MainPhase, TempPhase, [Next]_vars PROVE TempPhase'
  OBVIOUS
<1>0. task' = task
  BY TaskKept
<1> SUFFICES ASSUME ~task.again PROVE TempPhase'
  BY <1>0 DEF TempPhase
<1> USE DEF TempPhase, tableVars, statusVars, cleanVars, goroutines
<1>1. CASE MainCalls
  BY <1>1 DEF TypeOK, MainCalls, WriterDone, ContextDone, GraceOver, Interrupt, Publish, Settle,
     PostHooks, Return, LastSet, mainKeeps
<1>2. CASE MainCleanup
  <2>1. CASE CleanupBegin("main", main, IF cut THEN "interrupt" ELSE "settle", main')
    BY <1>2, <2>1 DEF MainCleanup, CleanupBegin, cleanupKeeps
  <2>2. CASE CleanupEnd(main, IF cut THEN "interrupt" ELSE "settle", main')
    <3>1. cleaner = "off" => ~tmp'.owed
      BY <2>2, CleanupDrops DEF CleanupEnd, MainPhase
    <3> QED
      BY <1>2, <2>2, <3>1 DEF MainCleanup, CleanupEnd, cleanupKeeps, MainPhase
  <2> QED
    BY <1>2, <2>1, <2>2 DEF MainCleanup, Cleanup
<1>3. CASE WriterCleanup
  <2>1. CASE CleanupBegin("writer", writer, "finish", writer')
    BY <1>3, <2>1 DEF WriterCleanup, CleanupBegin, cleanupKeeps
  <2>2. CASE CleanupEnd(writer, "finish", writer')
    <3>1. cleaner = "off" => ~tmp'.owed
      BY <2>2, CleanupDrops DEF CleanupEnd
    <3> QED
      BY <1>3, <2>2, <3>1 DEF WriterCleanup, CleanupEnd, cleanupKeeps
  <2> QED
    BY <1>3, <2>1, <2>2 DEF WriterCleanup, Cleanup
<1>4. CASE CleanerCleanup
  BY <1>4 DEF CleanerCleanup, Cleanup, CleanupBegin, CleanupEnd, cleanupKeeps
<1>5. CASE Tick \/ Select \/ HeartbeatRead \/ HeartbeatSet
  BY <1>5 DEF Tick, Select, HeartbeatRead, HeartbeatSet, hbKeeps
<1>6. ASSUME NEW why \in {"interrupt", "timeout"}, Cancel(why) PROVE TempPhase'
  BY <1>6 DEF Cancel
<1>7. CASE WriterCalls
  <2>1. CASE CreateTemp
    BY <2>1 DEF CreateTemp, writerKeeps
  <2>2. CASE AddCleanup
    BY <2>2 DEF AddCleanup, writerKeeps
  <2>3. CASE DropTemp
    BY <2>3, NoTempOwed DEF DropTemp, writerKeeps
  <2>4. ASSUME NEW ok \in BOOLEAN, LoadTemp(ok) PROVE TempPhase'
    <3>1. tmp'.owed = tmp.owed
      BY <2>4 DEF LoadTemp, TypeOK, TempTable
    <3> QED
      BY <2>4, <3>1 DEF LoadTemp, writerKeeps
  <2> QED
    BY <1>7, <2>1, <2>2, <2>3, <2>4 DEF WriterCalls, Start, PreHooks, FailsEarly, Read,
       IgnoreExisting, NoColumns, Fails, CreateTarget, Verify, VerifyTarget, MergeData, CommitFinal, PostWrite, FinishWriter,
       Define, LoadTarget, PrepareFinal, writerKeeps
<1>8. CASE UNCHANGED vars
  BY <1>8 DEF vars
<1> QED
  BY <1>1, <1>2, <1>3, <1>4, <1>5, <1>6, <1>7, <1>8 DEF Next, Done

-----------------------------------------------------------------------------
(* The target table.                                                        *)

\* What the table held at first, what it keeps and what it is to hold depend on
\* the task alone.
LEMMA GoalsKept ==
  ASSUME task' = task
  PROVE  /\ InitialTable' = InitialTable /\ SourceRows' = SourceRows
         /\ KeptRows' = KeptRows /\ WrittenRows' = WrittenRows
BY DEF InitialTable, SourceRows, KeptRows, WrittenRows, ReplacesTarget

\* The fields of the tables the actions build.
LEMMA InitialTableFields ==
  /\ InitialTable.exists = task.existed \/ task.existed \notin BOOLEAN
  /\ InitialTable.exists => InitialTable = Holding(InitialTable.rows)
  /\ ~task.existed => InitialTable = NoTable
  /\ \A r : Holding(r).exists = TRUE /\ Holding(r).rows = r
  /\ NoTable.exists = FALSE /\ NoTable.rows = {}
BY DEF InitialTable, Holding, NoTable

\* A step that leaves the writer and the table alone, and changes the temporary
\* table by dropping it at most, keeps the phase.
LEMMA TableFrame ==
  ASSUME TablePhase, task' = task, UNCHANGED <<target, work, writer, werr>>,
         tErr' = "nil" => tErr = "nil",
         ret' = "nil" => ret = "nil" \/ (writer = "end" /\ tErr = "nil"),
         tmp'.exists => tmp.exists /\ tmp'.rows = tmp.rows,
         ~tmp'.exists => tmp'.rows = {}
  PROVE  TablePhase'
<1>1. Written' = Written /\ AllOrNothing' = AllOrNothing
  BY GoalsKept DEF Written, AllOrNothing
<1> QED
  BY <1>1, GoalsKept DEF TablePhase

\* A cleanup drops the temporary table or leaves its rows alone.
LEMMA CleanupTemp ==
  ASSUME NEW who, NEW at, NEW done, NEW at1, TypeOK, Cleanup(who, at, done, at1),
         ~tmp.exists => tmp.rows = {}
  PROVE  /\ tmp'.exists => tmp.exists /\ tmp'.rows = tmp.rows
         /\ ~tmp'.exists => tmp'.rows = {}
<1>1. CASE CleanupBegin(who, at, done, at1)
  BY <1>1 DEF CleanupBegin
<1>2. CASE CleanupEnd(at, done, at1)
  <2> DEFINE u == [tmp EXCEPT !.owed = FALSE]
  <2>1. u.exists = tmp.exists /\ u.rows = tmp.rows
    BY DEF TypeOK, TempTable
  <2>2. NoTemp.exists = FALSE /\ NoTemp.rows = {}
    BY DEF NoTemp
  <2>3. tmp' \in {NoTemp, u} \/ tmp' = tmp
    BY <1>2 DEF CleanupEnd
  <2> HIDE DEF u
  <2> QED
    BY <2>1, <2>2, <2>3
<1> QED
  BY <1>1, <1>2 DEF Cleanup

\* Every call of the writer takes the table to the next phase.
LEMMA WriterTableStep ==
  ASSUME TypeOK, TablePhase, WriterCalls, task' = task, task.mode # "definition-only"
  PROVE  TablePhase'
<1>0. /\ task.existed \in BOOLEAN /\ task.direct \in BOOLEAN
      /\ InitialTable.exists = task.existed
  BY TasksAssumption, InitialTableFields DEF TypeOK, Task
<1>1. ret # "nil" /\ ret' = ret
  BY DEF TablePhase, WriterCalls, Start, PreHooks, FailsEarly, Read, IgnoreExisting, NoColumns,
     Fails, DropTemp, CreateTemp, AddCleanup, CreateTarget, Verify, VerifyTarget, MergeData,
     CommitFinal, PostWrite, FinishWriter, Define, LoadTemp, LoadTarget, PrepareFinal, writerKeeps
<1> USE DEF TablePhase, writerKeeps, tableVars
<1>2. target' = target /\ work' = work => Written' = Written /\ AllOrNothing' = AllOrNothing
  BY GoalsKept DEF Written, AllOrNothing
<1>3. CASE Start \/ PreHooks \/ AddCleanup \/ FailsEarly \/ FinishWriter \/ PostWrite
  BY <1>1, <1>2, <1>3, GoalsKept DEF Start, PreHooks, AddCleanup, FailsEarly, FinishWriter,
     PostWrite, Written
<1>4. CASE Read \/ IgnoreExisting \/ NoColumns
  BY <1>0, <1>1, <1>2, <1>4, GoalsKept DEF Read, IgnoreExisting, NoColumns, Written, TargetIgnored
<1>5. CASE Verify \/ VerifyTarget
  BY <1>1, <1>2, <1>5, GoalsKept DEF Verify, VerifyTarget, Written, NothingToDo, CountMatches
<1>6. CASE DropTemp \/ CreateTemp
  <2>1. NoTemp.exists = FALSE /\ NoTemp.rows = {}
    BY DEF NoTemp
  <2> QED
    BY <1>1, <1>2, <1>6, <2>1, GoalsKept DEF DropTemp, CreateTemp
<1>7. ASSUME NEW ok \in BOOLEAN, LoadTemp(ok) PROVE TablePhase'
  <2>1. tmp'.exists
    BY <1>7 DEF LoadTemp, TypeOK, TempTable
  <2> QED
    BY <1>1, <1>2, <1>7, <2>1, GoalsKept DEF LoadTemp
<1>8. CASE Fails
  <2>1. AllOrNothing'
    BY <1>8, GoalsKept DEF Fails, AllOrNothing
  <2> QED
    BY <1>1, <1>8, <2>1 DEF Fails
<1>9. CASE CreateTarget
  <2>1. AllOrNothing'
    BY <1>0, <1>9, GoalsKept, InitialTableFields DEF CreateTarget, AllOrNothing
  <2> QED
    BY <1>0, <1>1, <1>9, <2>1, GoalsKept, InitialTableFields DEF CreateTarget
<1>10. CASE MergeData
  <2>1. AllOrNothing'
    BY <1>10, GoalsKept DEF MergeData, WriteTarget, AllOrNothing
  <2>2. work.rows \cup tmp.rows = WrittenRows
    BY <1>10, InitialTableFields DEF MergeData, WrittenRows, KeptRows, SourceRows
  <2> QED
    BY <1>1, <1>10, <2>1, <2>2, GoalsKept DEF MergeData, WriteTarget
<1>11. CASE CommitFinal
  <2>1. AllOrNothing'
    BY <1>11, GoalsKept, InitialTableFields DEF CommitFinal, AllOrNothing
  <2> QED
    BY <1>1, <1>11, <2>1, GoalsKept DEF CommitFinal
<1>12. ASSUME NEW ok \in BOOLEAN, PrepareFinal(ok) PROVE TablePhase'
  <2>1. AllOrNothing'
    BY <1>12, GoalsKept DEF PrepareFinal, WriteTarget, AllOrNothing
  <2>2. CASE ok
    <3>1. work' = Holding(KeptRows)
      <4>1. work' = IF ReplacesTarget \/ ~work.exists THEN Holding({}) ELSE work
        BY <1>12, <2>2 DEF PrepareFinal, WriteTarget
      <4>2. work = InitialTable \/ (~task.existed /\ work = Holding({}))
        BY <1>0, <1>12 DEF PrepareFinal
      <4>3. CASE task.existed
        BY <1>0, <4>1, <4>2, <4>3, InitialTableFields DEF KeptRows
      <4>4. CASE ~task.existed
        BY <4>1, <4>2, <4>4, InitialTableFields DEF KeptRows
      <4> QED
        BY <4>3, <4>4
    <3> QED
      BY <1>1, <1>12, <2>1, <2>2, <3>1, GoalsKept DEF PrepareFinal
  <2>3. CASE ~ok
    BY <1>1, <1>12, <2>1, <2>3 DEF PrepareFinal
  <2> QED
    BY <2>2, <2>3
<1>13. ASSUME NEW ok \in BOOLEAN, LoadTarget(ok) PROVE TablePhase'
  <2>1. AllOrNothing'
    BY <1>13, GoalsKept DEF LoadTarget, WriteTarget, AllOrNothing
  <2>2. CASE ok
    <3>1. work' = Holding(WrittenRows)
      BY <1>13, <2>2, InitialTableFields DEF LoadTarget, WriteTarget, WrittenRows, KeptRows
    <3> QED
      BY <1>1, <1>13, <2>1, <2>2, <3>1, GoalsKept DEF LoadTarget
  <2>3. CASE ~ok
    BY <1>1, <1>13, <2>1, <2>3 DEF LoadTarget
  <2> QED
    BY <2>2, <2>3
<1>14. ASSUME NEW ok \in BOOLEAN PROVE ~Define(ok)
  BY DEF Define
<1> QED
  BY <1>3, <1>4, <1>5, <1>6, <1>7, <1>8, <1>9, <1>10, <1>11, <1>12, <1>13, <1>14 DEF WriterCalls

\* The phases of the target survive every step.
LEMMA TableStep ==
  ASSUME TypeOK, MainPhase, TablePhase, [Next]_vars, task' = task,
         task.mode # "definition-only"
  PROVE  TablePhase'
<1>0. ~tmp.exists => tmp.rows = {}
  BY DEF TablePhase
<1>1. CASE MainCalls
  <2>1. ret' = "nil" => ret = "nil" \/ (writer = "end" /\ tErr = "nil")
    BY <1>1 DEF MainCalls, WriterDone, ContextDone, GraceOver, Interrupt, Publish, Settle, PostHooks,
       Return, LastSet, mainKeeps, MainPhase
  <2>2. tErr' = "nil" => tErr = "nil"
    BY <1>1 DEF MainCalls, WriterDone, ContextDone, GraceOver, Interrupt, Publish, Settle, PostHooks,
       Return, LastSet, mainKeeps
  <2>3. UNCHANGED <<target, work, tmp, writer, werr>>
    BY <1>1 DEF MainCalls, WriterDone, ContextDone, GraceOver, Interrupt, Publish, Settle, PostHooks,
       Return, LastSet, mainKeeps, tableVars
  <2> QED
    BY <1>0, <2>1, <2>2, <2>3, TableFrame
<1>2. CASE MainCleanup
  BY <1>0, <1>2, CleanupTemp, TableFrame DEF MainCleanup, cleanupKeeps
<1>3. CASE WriterCleanup
  <2>1. /\ tmp'.exists => tmp.exists /\ tmp'.rows = tmp.rows
        /\ ~tmp'.exists => tmp'.rows = {}
    BY <1>0, <1>3, CleanupTemp DEF WriterCleanup
  <2>2. writer \in {"cleanup", "cleaning"} /\ writer' \in {"cleaning", "finish"}
    BY <1>3 DEF WriterCleanup, Cleanup, CleanupBegin, CleanupEnd
  <2>3. Written' = Written /\ AllOrNothing' = AllOrNothing
    BY <1>3, GoalsKept DEF Written, AllOrNothing, WriterCleanup, cleanupKeeps
  <2> QED
    BY <1>3, <2>1, <2>2, <2>3, GoalsKept DEF WriterCleanup, cleanupKeeps, TablePhase
<1>4. CASE CleanerCleanup
  BY <1>0, <1>4, CleanupTemp, TableFrame DEF CleanerCleanup, cleanupKeeps
<1>5. CASE Tick \/ Select \/ HeartbeatRead \/ HeartbeatSet
  BY <1>0, <1>5, TableFrame DEF Tick, Select, HeartbeatRead, HeartbeatSet, hbKeeps, tableVars
<1>6. ASSUME NEW why \in {"interrupt", "timeout"}, Cancel(why) PROVE TablePhase'
  BY <1>0, <1>6, TableFrame DEF Cancel, tableVars, goroutines
<1>7. CASE WriterCalls
  BY <1>7, WriterTableStep
<1>8. CASE UNCHANGED vars
  BY <1>0, <1>8, TableFrame DEF vars, tableVars, goroutines
<1> QED
  BY <1>1, <1>2, <1>3, <1>4, <1>5, <1>6, <1>7, <1>8 DEF Next, Done

\* An interrupt that was taken notice of stays the outcome.
LEMMA InterruptStep ==
  TypeOK /\ MainPhase /\ InterruptPhase /\ [Next]_vars => InterruptPhase'
<1> SUFFICES ASSUME TypeOK, MainPhase, InterruptPhase, [Next]_vars PROVE InterruptPhase'
  OBVIOUS
<1> USE DEF InterruptPhase, InterruptReported, tableVars, statusVars, cleanVars, goroutines
<1>1. CASE MainCalls
  <2>1. CASE WriterDone \/ ContextDone \/ GraceOver \/ Interrupt \/ Publish \/ Return \/ LastSet
    BY <2>1 DEF TypeOK, MainPhase, WriterDone, ContextDone, GraceOver, Interrupt, Publish, Return,
       LastSet, mainKeeps
  <2>2. ASSUME NEW ok \in BOOLEAN, Settle(ok) PROVE InterruptPhase'
    BY <2>2 DEF MainPhase, Settle, Settled, mainKeeps
  <2>3. ASSUME NEW ok \in BOOLEAN, PostHooks(ok) PROVE InterruptPhase'
    BY <2>3 DEF MainPhase, PostHooks, mainKeeps
  <2> QED
    BY <1>1, <2>1, <2>2, <2>3 DEF MainCalls
<1>2. CASE MainCleanup
  BY <1>2 DEF MainPhase, MainCleanup, Cleanup, CleanupBegin, CleanupEnd, cleanupKeeps
<1>3. CASE WriterCleanup \/ CleanerCleanup
  BY <1>3 DEF WriterCleanup, CleanerCleanup, Cleanup, CleanupBegin, CleanupEnd, cleanupKeeps
<1>4. CASE WriterCalls
  <2>1. writer # "end"
    BY <1>4 DEF WriterCalls, Start, PreHooks, FailsEarly, Read, IgnoreExisting, NoColumns, Fails,
       DropTemp, CreateTemp, AddCleanup, CreateTarget, Verify, VerifyTarget, MergeData, CommitFinal,
       PostWrite, FinishWriter, Define, LoadTemp, LoadTarget, PrepareFinal
  <2>2. UNCHANGED <<main, cleaner, cut, ret, status>>
    BY <1>4 DEF WriterCalls, Start, PreHooks, FailsEarly, Read, IgnoreExisting, NoColumns, Fails,
       DropTemp, CreateTemp, AddCleanup, CreateTarget, Verify, VerifyTarget, MergeData, CommitFinal,
       PostWrite, FinishWriter, Define, LoadTemp, LoadTarget, PrepareFinal, writerKeeps
  <2> QED
    BY <2>1, <2>2 DEF MainPhase
<1>5. CASE Tick \/ Select \/ HeartbeatRead \/ HeartbeatSet
  BY <1>5 DEF Tick, Select, HeartbeatRead, HeartbeatSet, hbKeeps
<1>6. ASSUME NEW why \in {"interrupt", "timeout"}, Cancel(why) PROVE InterruptPhase'
  BY <1>6 DEF Cancel
<1>7. CASE UNCHANGED vars
  BY <1>7 DEF vars
<1> QED
  BY <1>1, <1>2, <1>3, <1>4, <1>5, <1>6, <1>7 DEF Next, Done

-----------------------------------------------------------------------------
(* The theorems.                                                            *)

\* The initial states satisfy the inductive invariant.
LEMMA InitInv == Init => IndInv
<1> SUFFICES ASSUME Init PROVE IndInv
  OBVIOUS
<1>1. TypeOK
  BY TypeInit
<1>2. MutexHeld /\ MainPhase /\ StatusPhase /\ InterruptPhase
  BY DEF Init, MutexHeld, MainPhase, StatusPhase, PostHooksSeeStatus, FinalStatusSticks, InterruptPhase
<1>3. TablePhase
  <2>1. AllOrNothing
    <3>1. task.existed \in BOOLEAN
      BY <1>1, TasksAssumption DEF TypeOK, Task
    <3> QED
      BY <3>1, InitialTableFields DEF Init, AllOrNothing
  <2>2. ~tmp.exists => tmp.rows = {}
    BY DEF Init, NoTemp
  <2> QED
    BY <2>1, <2>2 DEF Init, TablePhase
<1>4. TempPhase
  <2>1. ~tmp.owed
    BY NoTempOwed DEF Init
  <2> QED
    BY <2>1 DEF Init, TempPhase
<1> QED
  BY <1>1, <1>2, <1>3, <1>4 DEF IndInv

\* Every step keeps the inductive invariant.
LEMMA StepInv == IndInv /\ [Next]_vars => IndInv'
<1> SUFFICES ASSUME IndInv, [Next]_vars PROVE IndInv'
  OBVIOUS
<1>1. TypeOK /\ MutexHeld /\ MainPhase /\ TablePhase /\ TempPhase /\ StatusPhase /\ InterruptPhase
  BY DEF IndInv
<1>2. TypeOK' /\ MutexHeld' /\ MainPhase' /\ TempPhase' /\ StatusPhase' /\ InterruptPhase'
  BY <1>1, TypeStep, MutexStep, MainStep, TempStep, StatusStep, InterruptStep
<1>3. TablePhase'
  <2>1. task' = task
    BY TaskKept
  <2>2. CASE task.mode = "definition-only"
    BY <2>1, <2>2 DEF TablePhase
  <2>3. CASE task.mode # "definition-only"
    BY <1>1, <2>1, <2>3, TableStep
  <2> QED
    BY <2>2, <2>3
<1> QED
  BY <1>2, <1>3 DEF IndInv

\* The strengthened invariant: whatever fails, hangs or is cancelled in Execute,
\* runDbToDb and WriteToDb, every step of the four goroutines keeps it.
THEOREM TaskInvariance == Spec => []IndInv
  BY InitInv, StepInv, PTL DEF Spec

\* Every variable of a task run keeps its type; in particular t.Status never
\* becomes the empty status when Execute assigns newStatus to it.
THEOREM TaskTypeCorrect == Spec => []TypeOK
<1>1. IndInv => TypeOK
  BY DEF IndInv
<1> QED
  BY <1>1, TaskInvariance, PTL

\* WriteToDb with transactions: a reader of the target sees the rows from before
\* the run or all the rows it is to have after it, for every task.
THEOREM TargetIsAllOrNothing == Spec => []AllOrNothing
<1>1. IndInv => AllOrNothing
  BY DEF IndInv, TablePhase, AllOrNothing
<1> QED
  BY <1>1, TaskInvariance, PTL

\* If Execute returns nil, the rows of the stream are in the target, or there
\* were none, or ignore_existing asked to leave the table alone.
THEOREM SuccessIsTruthful == Spec => []SuccessMeansWritten
<1>1. IndInv => SuccessMeansWritten
  BY DEF IndInv, TablePhase, SuccessMeansWritten
<1> QED
  BY <1>1, TaskInvariance, PTL

\* The temporary table created by WriteToDb has been dropped when runTask returns,
\* unless the writer was given up or the name had been used before.
THEOREM TempIsDropped == Spec => []TempDropped
<1>1. IndInv => TempDropped
  BY DEF IndInv, TempPhase, TempDropped
<1> QED
  BY <1>1, TaskInvariance, PTL

\* Post-hooks are shown the status Execute settled on although t.Status is still
\* "running" and the heartbeat keeps publishing.
THEOREM HooksSeeStatus == Spec => []PostHooksSeeStatus
<1>1. IndInv => PostHooksSeeStatus
  BY DEF IndInv, StatusPhase
<1> QED
  BY <1>1, TaskInvariance, PTL

\* After runTask's deferred StateSet the runtime state shows the final status for
\* good, late heartbeats and a late writer notwithstanding.
THEOREM StatusIsFinal == Spec => []FinalStatusSticks
<1>1. IndInv => FinalStatusSticks
  BY DEF IndInv, StatusPhase
<1> QED
  BY <1>1, TaskInvariance, PTL

\* Execute returns an error with status "terminated" or "timed-out" once it has seen
\* the cancelled context, although the writer may have finished without one, unless
\* it gave the writer up.
THEOREM InterruptsAreReported == Spec => []InterruptReported
<1>1. IndInv => InterruptReported
  BY DEF IndInv, InterruptPhase, InterruptReported
<1> QED
  BY <1>1, TaskInvariance, PTL

\* A writer given up after the grace period goes on running, but the cancelled
\* context keeps it from committing: the rows of the target do not change after
\* Execute has returned.
THEOREM GivenUpWriterIsHarmless == Spec => NoLateCommit
<1> DEFINE Late == ret # "none" /\ task.tx /\ task.mode # "definition-only"
<1>1. ASSUME IndInv, [Next]_vars PROVE [Late => target'.rows = target.rows]_vars
  <2> SUFFICES ASSUME Late PROVE target'.rows = target.rows
    OBVIOUS
  <2>0. TypeOK /\ TablePhase /\ main # "wait" /\ (cancelled = "no" => writer = "end")
    BY <1>1 DEF IndInv, MainPhase
  <2> USE DEF tableVars, writerKeeps
  <2>1. CASE MainCalls
    BY <2>1 DEF MainCalls, WriterDone, ContextDone, GraceOver, Interrupt, Publish, Settle, PostHooks,
       Return, LastSet, mainKeeps
  <2>2. CASE MainCleanup \/ WriterCleanup \/ CleanerCleanup
    BY <2>2 DEF MainCleanup, WriterCleanup, CleanerCleanup, cleanupKeeps
  <2>3. CASE Tick \/ Select \/ HeartbeatRead \/ HeartbeatSet
    BY <2>3 DEF Tick, Select, HeartbeatRead, HeartbeatSet, hbKeeps
  <2>4. ASSUME NEW why \in {"interrupt", "timeout"}, Cancel(why) PROVE target' = target
    BY <2>4 DEF Cancel
  <2>5. CASE WriterCalls
    <3>1. CASE CreateTarget
      BY <2>0, <3>1, InitialTableFields DEF CreateTarget, TablePhase
    <3>2. ~CommitFinal
      BY <2>0 DEF CommitFinal, ContextAllows
    <3>3. ASSUME NEW ok \in BOOLEAN PROVE ~Define(ok)
      BY <2>0 DEF Define, TablePhase
    <3>4. CASE MergeData
      BY <3>4 DEF MergeData, WriteTarget
    <3>5. ASSUME NEW ok \in BOOLEAN, PrepareFinal(ok) \/ LoadTarget(ok) \/ LoadTemp(ok)
          PROVE  target' = target
      BY <3>5 DEF PrepareFinal, LoadTarget, LoadTemp, WriteTarget
    <3> QED
      BY <2>5, <3>1, <3>2, <3>3, <3>4, <3>5 DEF WriterCalls, Start, PreHooks, FailsEarly, Read,
         IgnoreExisting, NoColumns, Fails, DropTemp, CreateTemp, AddCleanup, Verify, VerifyTarget,
         PostWrite, FinishWriter
  <2>6. CASE UNCHANGED vars
    BY <2>6 DEF vars
  <2> QED
    BY <1>1, <2>1, <2>2, <2>3, <2>4, <2>5, <2>6 DEF Next, Done
<1>2. Spec => [][Late => target'.rows = target.rows]_vars
  BY <1>1, TaskInvariance, PTL DEF Spec
<1> QED
  BY <1>2 DEF NoLateCommit
=============================================================================
