-------------------------- MODULE BuildModel_proofs --------------------------
(***************************************************************************)
(* Proofs about BuildModel, for every set of keys, of versions and of       *)
(* models, and any number of runs: the temporary tables that are left, the  *)
(* rows of a full refresh, and what a model holds after a success.          *)
(***************************************************************************)
EXTENDS BuildModel, WellFoundedInduction, TLAPS

-----------------------------------------------------------------------------
(* The statements a model goes through, and its temporary tables.           *)

Modes == {"full-refresh", "view", "truncate", "incremental", "append"}

\* The statements of a full refresh, and of a model.
RefreshPath ==
  {"dropView"} \cup
    (CASE plan.ddl = "replace" -> {"replace"}
       [] plan.ddl = "rename" -> {"dropTemp", "createTemp", "dropTarget", "rename"}
       [] OTHER -> {"dropTarget", "create"})
MergePath == {"stage", "delete", "insertTemp", "dropStage"}
Path ==
  {"idle", "pre", "post"} \cup
    (CASE plan.mode = "full-refresh" -> RefreshPath
       [] plan.mode = "view" -> {"viewDropTable", "viewDropView", "createView"}
       [] plan.mode = "truncate" -> {"create", "truncate", "insert"}
       [] plan.mode = "incremental" -> RefreshPath \cup MergePath \cup {"resolve"}
       [] plan.mode = "append" -> {"create", "insert", "stage", "insertTemp", "dropStage"})

\* Where a run may be, and which chunk it merges.
OnPath ==
  /\ pc \in Path
  /\ pc # "idle" => run \in 1..MaxRuns
  /\ err => pc \in {"idle", "insertTemp", "dropStage"}
  /\ IF plan.mode = "incremental" THEN pc \in MergePath => c <= Len(chunks)
     ELSE chunks = <<>> /\ c = 1 /\ (pc = "insertTemp" => ~err)
  /\ pc \notin MergePath \cup {"post", "idle"} => c = 1
  /\ plan.mode # "incremental" => range = NoRange

\* A temporary table is there while its run needs it, and is left by excused runs.
TempsAccounted ==
  /\ \A r \in 1..MaxRuns : r > run => temps[r].kind # "table"
  /\ \A r \in 1..MaxRuns : temps[r].kind = "table" =>
       \/ r \in excused /\ (r = run => pc \in MergePath \cup {"post", "idle"})
       \/ r = run /\ pc \in {"dropTarget", "rename", "delete", "insertTemp", "dropStage"}
  /\ pc = "dropTarget" /\ plan.ddl # "rename" => temps[run].kind # "table"

\* The rows of a built full-refresh model, between any two statements.
RowsKept ==
  plan.mode = "full-refresh" /\ plan.ddl # "drop" =>
    /\ built => \/ target.kind = "table"
                \/ plan.ddl = "rename" /\ \E r \in 1..MaxRuns :
                     /\ temps[r].kind = "table"
                     /\ r = run => pc \in {"idle", "rename"}
    /\ pc \in {"dropTarget", "rename"} => temps[run].kind = "table"

StepInv == TypeOK /\ OnPath /\ TempsAccounted /\ RowsKept

-----------------------------------------------------------------------------
(* Types.                                                                   *)

\* What the operators on rows and ranges return.
LEMMA RowTypes ==
  ASSUME TypeOK
  PROVE  /\ NoRows \in Rows /\ Result \in Rows
         /\ Missing \in Relation /\ View \in Relation
         /\ \A r \in Rows : TableOf(r) \in Relation
         /\ \A a, b \in Rows : Plus(a, b) \in Rows /\ WithoutKeys(a, b) \in Rows
         /\ \A ch : ResultIn(ch) \in Rows
<1> USE DEF Rows, Relation
<1>1. NoRows \in Rows /\ Result \in Rows
  BY DEF NoRows, Result
<1>2. Missing \in Relation /\ View \in Relation
  BY <1>1 DEF Missing, View
<1>3. \A r \in Rows : TableOf(r) \in Relation
  BY DEF TableOf
<1>4. \A a, b \in Rows : Plus(a, b) \in Rows /\ WithoutKeys(a, b) \in Rows
  BY DEF Plus, WithoutKeys
<1>5. \A ch : ResultIn(ch) \in Rows
  BY <1>1 DEF ResultIn
<1> QED
  BY <1>1, <1>2, <1>3, <1>4, <1>5

\* A set of naturals that is not empty has a least element.
LEMMA LeastNat ==
  ASSUME NEW S \in SUBSET Nat, S # {}
  PROVE  \E n \in S : \A m \in S : n <= m
<1>1. IsWellFoundedOn({p \in Nat \X Nat : p[1] < p[2]}, Nat)
  BY NatLessThanWellFounded DEF OpToRel
<1>2. PICK n \in S : \A m \in S : <<m, n>> \notin {p \in Nat \X Nat : p[1] < p[2]}
  BY <1>1, WFMin, Zenon
<1>3. n \in Nat
  OBVIOUS
<1>4. ASSUME NEW m \in S PROVE n <= m
  <2>1. m \in Nat /\ <<m, n>> \in Nat \X Nat
    BY <1>3
  <2>2. ~(m < n)
    BY <1>2, <2>1
  <2> QED
    BY <1>3, <2>1, <2>2
<1> QED
  BY <1>4

\* The watermark is the largest version in the target, or 0.
LEMMA TargetMaxIs ==
  ASSUME TypeOK
  PROVE  /\ TargetMax \in 0..MaxVer
         /\ \A k \in Keys, v \in Version : target.rows[<<k, v>>] > 0 => v <= TargetMax
         /\ TargetMax > 0 => \E k \in Keys : target.rows[<<k, TargetMax>>] > 0
<1> DEFINE present == {v \in Version : \E k \in Keys : target.rows[<<k, v>>] > 0}
<1>1. CASE present = {}
  <2>1. TargetMax = 0
    BY <1>1 DEF TargetMax
  <2>2. \A k \in Keys, v \in Version : ~(target.rows[<<k, v>>] > 0)
    BY <1>1
  <2> QED
    BY <2>1, <2>2, BoundsAssumption
<1>2. CASE present # {}
  <2> DEFINE depths == {MaxVer - v : v \in present}
  <2>1. depths \in SUBSET Nat /\ depths # {}
    BY <1>2, BoundsAssumption DEF Version
  <2>2. PICK n \in depths : \A m \in depths : n <= m
    BY <2>1, LeastNat
  <2>3. PICK v \in present : n = MaxVer - v
    BY <2>2
  <2>4. ASSUME NEW w \in present PROVE v >= w
    <3>1. MaxVer - v <= MaxVer - w
      BY <2>2, <2>3
    <3> QED
      BY <3>1, BoundsAssumption DEF Version
  <2>5. TargetMax \in present /\ \A w \in present : TargetMax >= w
    <3> HIDE DEF present
    <3>1. TargetMax = CHOOSE x \in present : \A w \in present : x >= w
      BY <1>2 DEF TargetMax, present
    <3> QED
      BY <2>3, <2>4, <3>1
  <2> QED
    BY <2>5, BoundsAssumption DEF Version
<1> QED
  BY <1>1, <1>2

\* The ranges that are resolved are sequences of chunks.
LEMMA RangeTypes ==
  ASSUME TypeOK
  PROVE  /\ <<AboveMax>> \in Seq(Chunk) /\ <<Unbounded>> \in Seq(Chunk)
         /\ SplitRange(range) \in Seq(Chunk)
<1>1. AboveMax \in Chunk /\ Unbounded \in Chunk
  <2>1. plan.lookback \in Nat
    BY PlansAssumption DEF TypeOK, Plan
  <2>2. TargetMax \in Nat
    BY TargetMaxIs, BoundsAssumption
  <2> QED
    BY <2>1, <2>2, BoundsAssumption DEF AboveMax, Unbounded, Chunk
<1>2. range.start \in Nat /\ range.end \in Nat /\ range.step \in Nat
  BY DEF TypeOK, Range
<1>3. CASE range.step = 0
  <2>1. [lower |-> range.start, inclusive |-> TRUE, upper |-> range.end] \in Chunk
    BY <1>2 DEF Chunk
  <2> QED
    BY <1>1, <1>3, <2>1 DEF SplitRange
<1>4. CASE range.step # 0
  <2> DEFINE n == IF range.end <= range.start THEN 0
                  ELSE (range.end - range.start + range.step - 1) \div range.step
             s == [j \in 1..n |->
                     [lower |-> range.start + (j - 1) * range.step, inclusive |-> TRUE,
                      upper |-> IF j = n THEN range.end ELSE range.start + j * range.step]]
  <2>1. n \in Nat
    BY <1>2, <1>4
  <2> HIDE DEF n
  <2>2. ASSUME NEW j \in 1..n PROVE s[j] \in Chunk
    <3>1. (j - 1) * range.step \in Nat /\ j * range.step \in Nat
      BY <1>2, <2>1
    <3> QED
      BY <1>2, <2>1, <3>1 DEF Chunk
  <2>3. s \in [1..n -> Chunk]
    BY <2>2
  <2>4. SplitRange(range) = s
    BY <1>4 DEF SplitRange, n
  <2> QED
    BY <1>1, <2>1, <2>3, <2>4
<1> QED
  BY <1>1, <1>3, <1>4

\* The initial states are well typed, and satisfy the other parts.
LEMMA StepInit == Init => StepInv
<1> SUFFICES ASSUME Init PROVE StepInv
  OBVIOUS
<1>1. NoRows \in Rows
  BY DEF NoRows, Rows
<1>2. Missing \in Relation /\ View \in Relation /\ TableOf(NoRows) \in Relation
  BY <1>1 DEF Missing, View, TableOf, Relation
<1>3. plan \in Plan
  BY PlansAssumption DEF Init
<1>4. TypeOK
  <2>1. target \in Relation /\ temps \in [1..MaxRuns -> Relation]
    BY <1>2 DEF Init
  <2>2. /\ source \in [Keys -> 0..MaxVer] /\ began \in [Keys -> 0..MaxVer]
        /\ clock \in 0..MaxVer /\ run \in 0..MaxRuns
    BY BoundsAssumption DEF Init
  <2>3. range \in Range /\ pc \in Labels /\ chunks \in Seq(Chunk) /\ c \in Nat \ {0}
    BY <1>3 DEF Init, Plan, Labels
  <2> QED
    BY <2>1, <2>2, <2>3 DEF Init, TypeOK
<1>5. OnPath
  BY <1>3, PlansAssumption DEF Init, OnPath, Path, MergePath
<1>6. TempsAccounted
  BY DEF Init, TempsAccounted, Missing
<1>7. RowsKept
  BY <1>3 DEF Init, RowsKept, Missing, View, TableOf, Plan
<1> QED
  BY <1>4, <1>5, <1>6, <1>7 DEF StepInv

\* Statements that are answered, that fail or whose error is ignored keep the types.
LEMMA StatementTypes ==
  ASSUME TypeOK, run \in 1..MaxRuns, Rest, NEW next \in Labels,
         NEW newTarget \in Relation, NEW newTemp \in Relation
  PROVE  /\ Answered(newTarget, newTemp, next) => TypeOK'
         /\ Failed(newTemp) => TypeOK'
         /\ FailedKeepingTemp => TypeOK'
         /\ Ignored(next) => TypeOK'
<1> USE DEF TypeOK, Rest, runVars, dbVars
<1>1. [temps EXCEPT ![run] = newTemp] \in [1..MaxRuns -> Relation]
  OBVIOUS
<1>2. "idle" \in Labels
  BY DEF Labels
<1>3. Answered(newTarget, newTemp, next) => TypeOK'
  BY <1>1 DEF Answered
<1>4. Failed(newTemp) => TypeOK'
  BY <1>1, <1>2 DEF Failed
<1>5. FailedKeepingTemp => TypeOK'
  BY <1>2 DEF FailedKeepingTemp
<1>6. Ignored(next) => TypeOK'
  BY DEF Ignored
<1> QED
  BY <1>3, <1>4, <1>5, <1>6

\* So does the end of a chunk with an error.
LEMMA ChunkFailsTypes ==
  ASSUME TypeOK, OnPath, pc \in MergePath, ChunkFails
  PROVE  range' \in Range
<1>1. CASE range = NoRange
  BY <1>1 DEF ChunkFails, TypeOK
<1>2. CASE range # NoRange
  <2>1. c \in 1..Len(chunks) /\ Len(chunks) \in 1..Len(chunks)
    BY <1>2 DEF OnPath, TypeOK
  <2>2. chunks[c] \in Chunk /\ chunks[Len(chunks)] \in Chunk
    BY <2>1 DEF TypeOK
  <2>3. Resume \in Range
    BY <2>2 DEF Resume, ResumeStart, TypeOK, Range, Chunk
  <2> QED
    BY <1>2, <2>3 DEF ChunkFails
<1> QED
  BY <1>1, <1>2

\* The statements of a full refresh, of a view, of truncate and of append.
WholeTable ==
  \/ Pre \/ SurroundingFails \/ DropOldView \/ Replace
  \/ DropTemp \/ CreateTemp \/ DropTarget \/ Rename \/ Create
  \/ ViewDropTable \/ ViewDropView \/ CreateView \/ Truncate \/ Insert \/ Post

\* They keep the types.
LEMMA WholeTableTypes ==
  ASSUME TypeOK, OnPath, WholeTable
  PROVE  TypeOK'
<1>1. pc # "idle" /\ Rest
  BY DEF WholeTable, Pre, SurroundingFails, DropOldView, Replace, DropTemp, CreateTemp,
     DropTarget, Rename, Create, ViewDropTable, ViewDropView, CreateView, Truncate, Insert, Post
<1>2. run \in 1..MaxRuns
  BY <1>1 DEF OnPath
<1>3. /\ temps[run] \in Relation /\ target \in Relation
      /\ Missing \in Relation /\ View \in Relation
      /\ TableOf(Result) \in Relation /\ TableOf(NoRows) \in Relation
      /\ TableOf(Plus(target.rows, Result)) \in Relation
  <2>1. target.rows \in Rows
    BY DEF TypeOK, Relation
  <2> QED
    BY <1>2, <2>1, RowTypes DEF TypeOK
<1>4. Labels = Labels \cup {FullRefresh}
  BY DEF Labels, FullRefresh
<1> USE <1>1, <1>2, <1>3, StatementTypes
<1>5. CASE Pre
  <2>1. \E next \in Labels : Ignored(next)
    BY <1>4, <1>5 DEF Pre, Labels
  <2> QED
    BY <2>1
<1>6. CASE SurroundingFails
  BY <1>4, <1>6 DEF SurroundingFails
<1>7. CASE DropOldView
  <2>1. \E next \in Labels : Answered(Missing, temps[run], next) \/ Ignored(next)
    BY <1>7 DEF DropOldView, Labels
  <2> QED
    BY <2>1
<1>8. CASE Replace
  BY <1>8 DEF Replace, Labels
<1>9. CASE DropTemp
  BY <1>9 DEF DropTemp, Labels
<1>10. CASE CreateTemp
  BY <1>10 DEF CreateTemp, Labels
<1>11. CASE DropTarget
  <2>1. \/ \E next \in Labels : Answered(Missing, temps[run], next)
        \/ Failed(Missing) \/ FailedKeepingTemp
    BY <1>11 DEF DropTarget, Labels
  <2>2. \E next \in Labels : TRUE
    BY DEF Labels
  <2> QED
    BY <2>1, <2>2
<1>12. CASE Rename
  BY <1>12 DEF Rename, DropsTempOnRename, Labels
<1>13. CASE Create
  BY <1>13 DEF Create, CreateTable, Labels
<1>14. CASE ViewDropTable \/ ViewDropView \/ CreateView
  BY <1>14 DEF ViewDropTable, ViewDropView, CreateView, Labels
<1>15. CASE Truncate \/ Insert
  BY <1>15 DEF Truncate, Insert, Labels
<1>16. CASE Post
  BY <1>16 DEF Post, Labels
<1> QED
  BY <1>5, <1>6, <1>7, <1>8, <1>9, <1>10, <1>11, <1>12, <1>13, <1>14, <1>15, <1>16 DEF WholeTable

\* Every step keeps the types.
LEMMA TypeStep ==
  ASSUME TypeOK, OnPath, [Next]_vars
  PROVE  TypeOK'
<1> USE DEF dbVars, runVars, histVars
<1>1. CASE WholeTable
  BY <1>1, WholeTableTypes
<1>2. ASSUME NEW k \in Keys, Change(k) PROVE TypeOK'
  BY <1>2, BoundsAssumption DEF Change, TypeOK
<1>3. CASE Begin
  <2>1. plan.range \in Range
    BY PlansAssumption DEF TypeOK, Plan
  <2> QED
    <3>1. range' \in Range /\ began' \in [Keys -> 0..MaxVer]
      BY <1>3, <2>1 DEF Begin, TypeOK
    <3>2. run' \in 0..MaxRuns /\ chunks' \in Seq(Chunk) /\ c' \in Nat \ {0} /\ pc' \in Labels
      BY <1>3, BoundsAssumption DEF Begin, TypeOK, Labels
    <3> QED
      BY <1>3, <3>1, <3>2 DEF Begin, TypeOK
<1>4. CASE Resolve
  <2>1. chunks' \in Seq(Chunk)
    BY <1>4, RangeTypes DEF Resolve
  <2> QED
    BY <1>4, <2>1 DEF Resolve, TypeOK, Labels
<1>5. CASE Stage
  <2>1. pc \in MergePath /\ run \in 1..MaxRuns
    BY <1>5 DEF Stage, OnPath, MergePath
  <2>2. CASE \E next \in Labels, t \in Relation : Answered(target, t, next) /\ Rest
    BY <2>1, <2>2, StatementTypes DEF TypeOK
  <2>3. CASE ChunkFails /\ UNCHANGED <<dbVars, histVars>>
    BY <2>1, <2>3, ChunkFailsTypes DEF ChunkFails, TypeOK, Labels
  <2>4. CASE Failed(Missing) /\ Rest
    <3>1. "idle" \in Labels
      BY DEF Labels
    <3> QED
      BY <2>1, <2>4, <3>1, StatementTypes, RowTypes DEF TypeOK
  <2>5. TableOf(IF plan.mode = "append" THEN Result ELSE ResultIn(chunks[c])) \in Relation
    BY RowTypes
  <2>6. (IF plan.mode = "append" THEN "insertTemp" ELSE "delete") \in Labels
    BY DEF Labels
  <2> QED
    BY <1>5, <2>2, <2>3, <2>4, <2>5, <2>6 DEF Stage
<1>6. CASE Delete
  <2>1. run \in 1..MaxRuns
    BY <1>6 DEF Delete, OnPath
  <2>2. temps[run].rows \in Rows /\ target.rows \in Rows /\ target \in Relation
    BY <2>1 DEF TypeOK, Relation
  <2>3. [target EXCEPT !.rows = WithoutKeys(@, temps[run].rows)] \in Relation
    BY <2>2, RowTypes DEF Relation
  <2> QED
    BY <1>6, <2>3 DEF Delete, TypeOK, Labels
<1>7. CASE InsertTemp
  <2>1. run \in 1..MaxRuns /\ pc \in MergePath
    BY <1>7 DEF InsertTemp, OnPath, MergePath
  <2>2. temps[run].rows \in Rows /\ target.rows \in Rows /\ target \in Relation
    BY <2>1 DEF TypeOK, Relation
  <2>3. [target EXCEPT !.rows = Plus(@, temps[run].rows)] \in Relation
    BY <2>2, RowTypes DEF Relation
  <2>4. target' \in Relation /\ doubled' \in BOOLEAN
    BY <1>7, <2>3 DEF InsertTemp, TypeOK
  <2>5. range' \in Range
    BY <1>7, <2>1, ChunkFailsTypes DEF InsertTemp, TypeOK
  <2> QED
    BY <1>7, <2>4, <2>5 DEF InsertTemp, ChunkFails, TypeOK, Labels
<1>8. CASE DropStage
  <2>1. run \in 1..MaxRuns
    BY <1>8 DEF DropStage, OnPath
  <2>2. temps' \in [1..MaxRuns -> Relation] /\ excused' \subseteq 1..MaxRuns
    BY <1>8, <2>1, RowTypes DEF DropStage, TypeOK
  <2> QED
    BY <1>8, <2>2 DEF DropStage, TypeOK, Labels
<1>9. CASE Crash
  <2>1. run \in 1..MaxRuns
    BY <1>9 DEF Crash, OnPath
  <2> QED
    BY <1>9, <2>1 DEF Crash, TypeOK, Labels
<1>10. CASE UNCHANGED vars
  BY <1>10 DEF vars, TypeOK
<1> QED
  BY <1>1, <1>2, <1>3, <1>4, <1>5, <1>6, <1>7, <1>8, <1>9, <1>10 DEF Next, WholeTable, Over

\* A run never changes its plan, and its number only when it begins.
LEMMA PlanFixed == [Next]_vars => plan' = plan
BY DEF Next, vars, Change, Begin, Pre, SurroundingFails, DropOldView, Replace, DropTemp, CreateTemp,
   DropTarget, Rename, Create, ViewDropTable, ViewDropView, CreateView, Truncate, Insert, Resolve,
   Stage, Delete, InsertTemp, DropStage, Post, Crash, Over, Rest, ChunkFails

\* Where a statement of WholeTable leads.
LEMMA WholeTablePath ==
  ASSUME TypeOK, OnPath, WholeTable
  PROVE  OnPath'
<1>1. plan' = plan /\ plan \in Plan
  BY PlanFixed, PlansAssumption DEF WholeTable, Next, TypeOK
<1>2. /\ pc # "idle" /\ Rest /\ pc' \in Path /\ (err' => pc' = "idle")
      /\ pc' \in MergePath => plan.mode = "append"
      /\ pc' \notin {"post", "idle"} => pc \notin {"post", "idle"}
      /\ pc \notin MergePath
  <2> USE DEF Answered, Failed, FailedKeepingTemp, Ignored, OnPath, Path, RefreshPath, MergePath
  <2>1. CASE Pre
    BY <2>1, <1>1 DEF Pre, FullRefresh, Plan
  <2>2. CASE SurroundingFails \/ Post
    BY <2>2, <1>1 DEF SurroundingFails, Post
  <2>3. CASE DropOldView
    BY <2>3, <1>1 DEF DropOldView, Plan
  <2>4. CASE Replace \/ DropTemp \/ CreateTemp
    BY <2>4, <1>1 DEF Replace, DropTemp, CreateTemp, Plan
  <2>5. CASE DropTarget \/ Rename
    BY <2>5, <1>1 DEF DropTarget, Rename, DropsTempOnRename, Plan
  <2>6. CASE Create \/ Truncate \/ Insert
    BY <2>6, <1>1 DEF Create, CreateTable, Truncate, Insert, Plan
  <2>7. CASE ViewDropTable \/ ViewDropView \/ CreateView
    BY <2>7, <1>1 DEF ViewDropTable, ViewDropView, CreateView, Plan
  <2> QED
    BY <2>1, <2>2, <2>3, <2>4, <2>5, <2>6, <2>7 DEF WholeTable
<1>3. Path' = Path
  BY <1>1 DEF Path, RefreshPath
<1> QED
  BY <1>1, <1>2, <1>3 DEF OnPath, Rest, runVars, MergePath

\* Every step stays on the path.
LEMMA PathStep ==
  ASSUME TypeOK, OnPath, [Next]_vars
  PROVE  OnPath'
<1>1. plan' = plan /\ plan \in Plan /\ (plan.range # NoRange => plan.mode = "incremental")
  BY PlanFixed, PlansAssumption DEF TypeOK
<1>2. Path' = Path
  BY <1>1 DEF Path, RefreshPath
<1> USE DEF dbVars, runVars, histVars
<1>3. CASE WholeTable
  BY <1>3, WholeTablePath
<1>4. ASSUME NEW k \in Keys, Change(k) PROVE OnPath'
  BY <1>1, <1>2, <1>4 DEF Change, OnPath
<1>5. CASE Begin
  BY <1>1, <1>2, <1>5, BoundsAssumption DEF Begin, OnPath, Path, MergePath, TypeOK
<1>6. CASE Resolve
  <2>1. plan.mode = "incremental" /\ c = 1 /\ run \in 1..MaxRuns /\ ~err
    BY <1>1, <1>6 DEF Resolve, OnPath, Path, RefreshPath, MergePath, Plan
  <2>2. chunks' \in Seq(Chunk) /\ (chunks' # <<>> => Len(chunks') >= 1)
    <3>1. chunks' \in Seq(Chunk)
      BY <1>6, RangeTypes DEF Resolve
    <3>2. \A s \in Seq(Chunk) : s # <<>> => Len(s) >= 1
      OBVIOUS
    <3> QED
      BY <3>1, <3>2
  <2>3. pc' \in Path /\ pc' \notin {"idle", "insertTemp", "dropStage"}
    BY <1>6, <2>1 DEF Resolve, Path, MergePath
  <2> QED
    BY <1>1, <1>2, <1>6, <2>1, <2>2, <2>3 DEF Resolve, OnPath, MergePath
<1>7. CASE Stage \/ Delete \/ InsertTemp
  <2>1. /\ pc \in MergePath /\ pc' \in MergePath \cup {"idle"}
        /\ UNCHANGED <<run, chunks, c>>
        /\ err' => pc' \in {"idle", "insertTemp", "dropStage"}
        /\ range' # range => range # NoRange
    BY <1>7 DEF Stage, Delete, InsertTemp, ChunkFails, Answered, Failed, Rest, MergePath, OnPath
  <2>2. pc' \in Path
    BY <1>1, <1>7 DEF Stage, Delete, InsertTemp, ChunkFails, Answered, Failed, OnPath, Path,
       RefreshPath, MergePath, Plan
  <2>3. plan.mode # "incremental" /\ pc' = "insertTemp" => ~err'
    BY <1>1, <1>7 DEF Stage, Delete, InsertTemp, ChunkFails, Answered, Failed, OnPath, Path,
       RefreshPath, MergePath, Plan
  <2> QED
    BY <1>1, <1>2, <2>1, <2>2, <2>3 DEF OnPath, MergePath
<1>8. CASE DropStage
  <2>1. /\ pc \in MergePath /\ pc' \in {"idle", "stage", "post"}
        /\ UNCHANGED <<run, chunks, err, range>>
        /\ err => pc' = "idle"
        /\ IF pc' = "stage" THEN c < Len(chunks) /\ c' = c + 1 ELSE c' = c
    BY <1>8 DEF DropStage, MergePath
  <2>2. pc' = "stage" => plan.mode = "incremental"
    BY <1>8, <2>1, <1>1 DEF DropStage, OnPath, Path, RefreshPath, MergePath, Plan
  <2>3. pc' \in Path
    BY <2>1, <2>2 DEF Path, MergePath
  <2>4. c' \in Nat /\ (pc' = "stage" => c' <= Len(chunks))
    BY <2>1 DEF TypeOK
  <2> QED
    BY <1>1, <1>2, <2>1, <2>2, <2>3, <2>4 DEF OnPath, MergePath
<1>9. CASE Crash
  BY <1>1, <1>2, <1>9 DEF Crash, OnPath, Path, MergePath
<1>10. CASE UNCHANGED vars
  BY <1>2, <1>10 DEF vars, OnPath
<1> QED
  BY <1>3, <1>4, <1>5, <1>6, <1>7, <1>8, <1>9, <1>10 DEF Next, WholeTable, Over

-----------------------------------------------------------------------------
(* Temporary tables.                                                        *)

\* A step changes at most the temporary table of the current run, and excuses only
\* that run.
LEMMA TempsFrame ==
  ASSUME TypeOK, OnPath, [Next]_vars
  PROVE  /\ \A r \in 1..MaxRuns : r # run => temps'[r] = temps[r]
         /\ excused \subseteq excused' /\ excused' \subseteq excused \cup {run}
         /\ run' # run => Begin
<1> USE DEF dbVars, runVars, histVars, TypeOK
<1>1. CASE WholeTable
  BY <1>1 DEF WholeTable, Pre, SurroundingFails, DropOldView, Replace, DropTemp, CreateTemp,
     DropTarget, Rename, Create, CreateTable, ViewDropTable, ViewDropView, CreateView, Truncate,
     Insert, Post, Rest, Answered, Failed, FailedKeepingTemp, Ignored, DropsTempOnRename
<1>2. CASE (\E k \in Keys : Change(k)) \/ Begin \/ Resolve \/ Delete \/ DropStage \/ Crash \/ UNCHANGED vars
  BY <1>2 DEF Change, Begin, Resolve, Delete, DropStage, Crash, vars
<1>3. CASE Stage
  BY <1>3 DEF Stage, Answered, Failed, Rest, ChunkFails
<1>4. CASE InsertTemp
  BY <1>4 DEF InsertTemp, ChunkFails
<1> QED
  BY <1>1, <1>2, <1>3, <1>4 DEF Next, WholeTable, Over

\* What a step makes of the temporary table of the current run.
LEMMA TempOfRun ==
  ASSUME TypeOK, OnPath, TempsAccounted, [Next]_vars, pc # "idle",
         temps'[run].kind = "table"
  PROVE  /\ \/ run \in excused' /\ pc' \in MergePath \cup {"post", "idle"}
            \/ pc' \in {"dropTarget", "rename", "delete", "insertTemp", "dropStage"}
         /\ pc' = "dropTarget" => plan.ddl = "rename"
<1>1. plan \in Plan /\ run \in 1..MaxRuns
  BY PlansAssumption DEF TypeOK, OnPath
<1>2. /\ temps[run].kind = "table" =>
           \/ run \in excused /\ pc \in MergePath \cup {"post"}
           \/ pc \in {"rename", "delete", "insertTemp", "dropStage"}
           \/ pc = "dropTarget" /\ plan.ddl = "rename"
      /\ Missing.kind # "table" /\ excused \subseteq excused'
  BY <1>1, TempsFrame DEF TempsAccounted, Missing
<1> USE DEF dbVars, runVars, histVars, MergePath
<1>3. CASE Pre \/ SurroundingFails \/ Post
  BY <1>1, <1>2, <1>3 DEF Pre, SurroundingFails, Post, Failed, Ignored, FullRefresh, Plan, TypeOK
<1>4. CASE DropOldView \/ Replace
  BY <1>1, <1>2, <1>4 DEF DropOldView, Replace, Failed, Ignored, Answered, TypeOK
<1>5. CASE DropTemp \/ CreateTemp
  <2>1. plan.ddl = "rename"
    BY <1>1, <1>5 DEF DropTemp, CreateTemp, OnPath, Path, RefreshPath, Plan
  <2> QED
    BY <1>1, <1>2, <1>5, <2>1 DEF DropTemp, CreateTemp, Failed, Ignored, Answered, TypeOK
<1>6. CASE DropTarget
  BY <1>1, <1>2, <1>6 DEF DropTarget, Failed, FailedKeepingTemp, Answered, TypeOK
<1>7. CASE Rename
  BY <1>1, <1>2, <1>7 DEF Rename, DropsTempOnRename, Failed, FailedKeepingTemp, Answered, TypeOK
<1>8. CASE Create \/ Truncate \/ Insert
  BY <1>1, <1>2, <1>8 DEF Create, CreateTable, Truncate, Insert, Failed, Answered, TypeOK
<1>9. CASE ViewDropTable \/ ViewDropView \/ CreateView
  BY <1>1, <1>2, <1>9 DEF ViewDropTable, ViewDropView, CreateView, Failed, Ignored, Answered, TypeOK
<1>10. CASE (\E k \in Keys : Change(k)) \/ Begin \/ Resolve \/ UNCHANGED vars
  BY <1>1, <1>2, <1>10 DEF Change, Begin, Resolve, vars
<1>11. CASE Stage \/ Delete \/ InsertTemp
  BY <1>1, <1>2, <1>11 DEF Stage, Delete, InsertTemp, ChunkFails, Failed, Answered, TypeOK
<1>12. CASE DropStage
  BY <1>1, <1>2, <1>12 DEF DropStage, DropsStage, TypeOK
<1>13. CASE Crash
  BY <1>1, <1>2, <1>13 DEF Crash
<1> QED
  BY <1>3, <1>4, <1>5, <1>6, <1>7, <1>8, <1>9, <1>10, <1>11, <1>12, <1>13 DEF Next, Over

\* Every step accounts for the temporary tables.
LEMMA TempsStep ==
  ASSUME TypeOK, OnPath, TempsAccounted, [Next]_vars
  PROVE  TempsAccounted'
<1>1. /\ run \in Nat /\ run' \in Nat /\ (pc # "idle" => run' = run)
      /\ \A r \in 1..MaxRuns : r # run => temps'[r] = temps[r]
      /\ excused \subseteq excused' /\ plan' = plan
  <2>1. run \in Nat /\ run' \in Nat
    BY TypeStep, BoundsAssumption DEF TypeOK
  <2>2. pc # "idle" => run' = run
    BY TempsFrame DEF Begin
  <2> QED
    BY <2>1, <2>2, TempsFrame, PlanFixed
<1>2. CASE pc # "idle"
  BY <1>1, <1>2, TempOfRun DEF TempsAccounted, MergePath
<1>3. CASE pc = "idle" /\ Begin
  <2>1. /\ run' = run + 1 /\ temps' = temps /\ excused' = excused /\ pc' = "pre"
    BY <1>3 DEF Begin, dbVars, histVars
  <2> QED
    BY <1>1, <1>3, <2>1 DEF TempsAccounted, MergePath
<1>4. CASE pc = "idle" /\ ~Begin
  <2>1. UNCHANGED <<run, temps, excused, pc>>
    BY <1>4 DEF Next, vars, Change, Pre, SurroundingFails, DropOldView, Replace, DropTemp,
       CreateTemp, DropTarget, Rename, Create, ViewDropTable, ViewDropView, CreateView, Truncate,
       Insert, Resolve, Stage, Delete, InsertTemp, DropStage, Post, Crash, Over, dbVars, runVars,
       histVars
  <2> QED
    BY <1>1, <1>4, <2>1 DEF TempsAccounted
<1> QED
  BY <1>2, <1>3, <1>4

-----------------------------------------------------------------------------
(* The rows of a full refresh.                                              *)

\* Every step keeps the rows of a full-refresh model that was built.
LEMMA RowsStep ==
  ASSUME TypeOK, OnPath, TempsAccounted, RowsKept, [Next]_vars
  PROVE  RowsKept'
<1> SUFFICES ASSUME plan.mode = "full-refresh", plan.ddl # "drop"
             PROVE  /\ built' => \/ target'.kind = "table"
                                 \/ plan.ddl = "rename" /\ \E r \in 1..MaxRuns :
                                      temps'[r].kind = "table" /\ (r = run' => pc' \in {"idle", "rename"})
                    /\ pc' \in {"dropTarget", "rename"} => temps'[run'].kind = "table"
  BY PlanFixed DEF RowsKept
<1>1. /\ plan \in Plan
      /\ plan.ddl = "replace" => pc \in {"idle", "pre", "post", "dropView", "replace"}
      /\ plan.ddl = "rename" => pc \in {"idle", "pre", "post", "dropView", "dropTemp", "createTemp",
                                        "dropTarget", "rename"}
      /\ plan.ddl \in {"replace", "rename"}
      /\ pc # "idle" => run \in 1..MaxRuns
  BY PlansAssumption DEF TypeOK, OnPath, Path, RefreshPath, Plan
<1> DEFINE Elsewhere == plan.ddl = "rename" /\ \E r \in 1..MaxRuns : r # run /\ temps[r].kind = "table"
<1>2. /\ built => \/ target.kind = "table" \/ Elsewhere
                  \/ /\ plan.ddl = "rename" /\ run \in 1..MaxRuns
                     /\ temps[run].kind = "table" /\ pc \in {"idle", "rename"}
      /\ pc \in {"dropTarget", "rename"} => temps[run].kind = "table"
  BY DEF RowsKept
<1> USE DEF dbVars, runVars, histVars
<1>3. CASE Begin
  <2>1. run' = run + 1 /\ UNCHANGED <<plan, dbVars, built>> /\ pc = "idle" /\ pc' = "pre"
    BY <1>3 DEF Begin
  <2>2. \A r \in 1..MaxRuns : temps[r].kind = "table" => r # run'
    BY <2>1, BoundsAssumption DEF TempsAccounted, TypeOK
  <2> QED
    BY <1>2, <2>1, <2>2
\* In any other step what another run has left stays, and of this run it is enough that
\* the target or its own temporary table holds the rows.
<1>4. ASSUME ~Begin
      PROVE  /\ built' => \/ target'.kind = "table" \/ Elsewhere
                         \/ /\ plan.ddl = "rename" /\ run \in 1..MaxRuns
                            /\ temps'[run].kind = "table" /\ pc' \in {"idle", "rename"}
             /\ pc' \in {"dropTarget", "rename"} => temps'[run].kind = "table"
  <2> HIDE DEF Elsewhere
  <2>0. temps \in [1..MaxRuns -> Relation] /\ built \in BOOLEAN
    BY DEF TypeOK
  <2>1. CASE Pre \/ SurroundingFails \/ Post
    BY <1>1, <1>2, <2>0, <2>1 DEF Pre, SurroundingFails, Post, Failed, Ignored, FullRefresh, Rest
  <2>2. CASE DropOldView \/ Replace
    BY <1>1, <1>2, <2>0, <2>2 DEF DropOldView, Replace, Failed, Ignored, Answered, Rest, TableOf
  <2>3. CASE DropTemp
    BY <1>1, <1>2, <2>0, <2>3 DEF DropTemp, Ignored, Answered, Rest
  <2>4. CASE CreateTemp
    <3>1. run \in 1..MaxRuns /\ (built => target.kind = "table" \/ Elsewhere)
      BY <1>1, <1>2, <2>4 DEF CreateTemp
    <3>2. \/ /\ target' = target /\ built' = (built \/ target.kind = "table") /\ pc' = "dropTarget"
             /\ temps' = [temps EXCEPT ![run] = TableOf(Result)]
          \/ target' = target /\ built' = built /\ pc' = "idle"
      BY <2>4 DEF CreateTemp, Failed, Answered
    <3>3. pc' = "dropTarget" => temps'[run].kind = "table"
      <4>1. ASSUME pc' = "dropTarget" PROVE temps'[run] = TableOf(Result)
        <5>1. temps' = [temps EXCEPT ![run] = TableOf(Result)]
          BY <3>2, <4>1
        <5> QED
          BY <2>0, <3>1, <5>1
      <4> QED
        BY <4>1 DEF TableOf
    <3> QED
      BY <2>0, <3>1, <3>2, <3>3
  <2>5. CASE DropTarget
    <3>1. run \in 1..MaxRuns /\ (built => target.kind = "table" \/ Elsewhere)
      BY <1>1, <1>2, <2>5 DEF DropTarget
    <3>2. plan.ddl = "rename" /\ temps[run].kind = "table"
      BY <1>1, <1>2, <2>5 DEF DropTarget
    <3>3. \/ /\ built' = (built \/ Missing.kind = "table") /\ pc' = "rename"
             /\ temps' = [temps EXCEPT ![run] = temps[run]]
          \/ target' = target /\ built' = built /\ pc' = "idle"
      BY <2>5, <3>2 DEF DropTarget, Failed, FailedKeepingTemp, Answered
    <3> QED
      <4>1. pc' = "rename" => temps'[run].kind = "table"
        <5>1. [temps EXCEPT ![run] = temps[run]] = temps
          BY <2>0, <3>1
        <5> QED
          BY <3>2, <3>3, <5>1
      <4>2. built' => built
        BY <2>0, <3>3 DEF Missing
      <4>3. pc' = "rename" \/ (pc' = "idle" /\ target' = target)
        BY <3>3
      <4>4. pc' \in {"dropTarget", "rename"} => pc' = "rename"
        BY <4>3
      <4> QED
        BY <2>0, <3>1, <3>2, <4>1, <4>2, <4>3, <4>4
  <2>6. CASE Rename
    BY <1>1, <1>2, <2>0, <2>6 DEF Rename, DropsTempOnRename, FailedKeepingTemp, Answered, Rest
  <2>7. CASE Crash
    BY <1>1, <1>2, <2>7 DEF Crash
  <2>9. CASE (\E k \in Keys : Change(k)) \/ UNCHANGED vars
    BY <1>1, <1>2, <2>9 DEF Change, vars
  <2>8. CASE Create \/ ViewDropTable \/ ViewDropView \/ CreateView \/ Truncate \/ Insert \/ Resolve
              \/ Stage \/ Delete \/ InsertTemp \/ DropStage
    BY <1>1, <1>2, <2>8 DEF Create, ViewDropTable, ViewDropView, CreateView, Truncate, Insert, Resolve,
       Stage, Delete, InsertTemp, DropStage
  <2> QED
    BY <1>4, <2>1, <2>2, <2>3, <2>4, <2>5, <2>6, <2>7, <2>8, <2>9 DEF Next, Over
<1>5. CASE ~Begin
  <2>1. run' = run /\ \A r \in 1..MaxRuns : r # run => temps'[r] = temps[r]
    BY <1>5, TempsFrame
  <2>2. Elsewhere => plan.ddl = "rename" /\ \E r \in 1..MaxRuns :
          temps'[r].kind = "table" /\ (r = run' => pc' \in {"idle", "rename"})
    BY <2>1
  <2> QED
    BY <1>4, <1>5, <2>1, <2>2
<1> QED
  BY <1>3, <1>5

\* The state of a run is well typed and on its path, its temporary tables are
\* accounted for, and the rows of a full refresh are kept.
THEOREM StepCorrect == Spec => []StepInv
<1>1. StepInv /\ [Next]_vars => StepInv'
  BY TypeStep, PathStep, TempsStep, RowsStep DEF StepInv
<1> QED
  BY <1>1, StepInit, PTL DEF Spec

\* Type correctness.
THEOREM TypeCorrect == Spec => []TypeOK
<1>1. StepInv => TypeOK
  BY DEF StepInv
<1> QED
  BY <1>1, StepCorrect, PTL

\* A run that ended leaves no temporary table behind, whichever statement failed,
\* except a run that is excused: executeFullRefreshAtomic and runMergeForChunk drop it.
THEOREM TempsDropped == Spec => []NoTempLeft
<1>1. StepInv => NoTempLeft
  <2> SUFFICES ASSUME StepInv, pc = "idle", NEW r \in 1..run, temps[r].kind = "table"
               PROVE  r \in excused
    BY DEF NoTempLeft
  <2>1. r \in 1..MaxRuns
    BY BoundsAssumption DEF StepInv, TypeOK
  <2> QED
    BY <2>1 DEF StepInv, TempsAccounted
<1> QED
  BY <1>1, StepCorrect, PTL

\* Once built, a full-refresh model that is replaced or renamed is in the target or in
\* a temporary table, at every moment and after every crash.
THEOREM NeverLost == Spec => []NeverWithoutData
<1>1. StepInv => NeverWithoutData
  BY DEF StepInv, RowsKept, NeverWithoutData
<1> QED
  BY <1>1, StepCorrect, PTL

-----------------------------------------------------------------------------
(* What a model holds after a success.                                      *)

\* Rows with one row for a key at most, of a version the query has given it by now.
Tidy(rows, src) ==
  \A k \in Keys, v \in Version : rows[<<k, v>>] > 0 =>
    /\ rows[<<k, v>>] = 1 /\ v <= src[k]
    /\ \A w \in Version : rows[<<k, w>>] > 0 => w = v

\* Their watermark passes no current row that they lack.
NoGap(rows, src) ==
  \A j, k \in Keys, w \in Version :
    rows[<<j, w>>] > 0 /\ 0 < src[k] /\ src[k] <= w => rows[<<k, src[k]>>] > 0

\* They hold every key there was at the beginning, not older than it was then.
Covers(rows, from) ==
  \A k \in Keys : from[k] > 0 => \E v \in Version : from[k] <= v /\ rows[<<k, v>>] > 0

Snapshot(rows, src, from) == Tidy(rows, src) /\ NoGap(rows, src) /\ Covers(rows, from)

\* All versions of some rows are above those of others.
Above(staged, rows) ==
  \A j, k \in Keys, u, v \in Version : staged[<<k, v>>] > 0 /\ rows[<<j, u>>] > 0 => u < v

\* A chunk that is upward closed and takes all that is above some rows.
TakesAbove(ch, rows) ==
  \A w \in Version :
    \/ \E v \in Version : InChunk(ch, v) /\ v <= w
    \/ \A k \in Keys, v \in Version : rows[<<k, v>>] > 0 => v < w
    => InChunk(ch, w)

Versions ==
  /\ \A k \in Keys : began[k] <= source[k] /\ source[k] <= clock
  /\ plan.range = NoRange => range = NoRange

\* The target at every moment of a model that replaces its rows, and what a run needs to
\* know of the rows it is about to put there.
Fresh ==
  plan.mode \in {"full-refresh", "truncate", "incremental"} /\ plan.range = NoRange /\ ~doubled =>
    /\ Tidy(target.rows, source) /\ NoGap(target.rows, source)
    /\ pc \in {"post", "dropStage", "idle"} /\ ~err /\ run > 0 => Covers(target.rows, began)
    /\ pc \in {"dropTarget", "rename"} /\ plan.ddl = "rename" => Snapshot(temps[run].rows, source, began)
    /\ pc = "insert" => target.rows = NoRows
    /\ pc \in MergePath => Len(chunks) = 1
    /\ pc = "stage" => TakesAbove(chunks[c], target.rows)
    /\ pc = "delete" => LET kept == WithoutKeys(target.rows, temps[run].rows)
                        IN Snapshot(Plus(kept, temps[run].rows), source, began) /\ Above(temps[run].rows, kept)
    /\ pc = "insertTemp" /\ ~err =>
         Snapshot(Plus(target.rows, temps[run].rows), source, began) /\ Above(temps[run].rows, target.rows)

\* Rows by key and version.
LEMMA RowsAt ==
  ASSUME NEW a \in Rows, NEW b \in Rows, NEW k \in Keys, NEW v \in Version
  PROVE  /\ <<k, v>> \in Row /\ a[<<k, v>>] \in Nat /\ b[<<k, v>>] \in Nat
         /\ Plus(a, b)[<<k, v>>] = a[<<k, v>>] + b[<<k, v>>]
         /\ WithoutKeys(a, b)[<<k, v>>] =
              IF \E w \in Version : b[<<k, w>>] > 0 THEN 0 ELSE a[<<k, v>>]
         /\ NoRows[<<k, v>>] = 0
<1>1. <<k, v>> \in Row
  BY DEF Row
<1> QED
  BY <1>1 DEF Rows, Plus, WithoutKeys, NoRows

\* The rows of the query and those of a chunk.
LEMMA ResultAt ==
  ASSUME NEW k \in Keys, NEW v \in Version, NEW ch
  PROVE  /\ Result[<<k, v>>] = IF source[k] = v THEN 1 ELSE 0
         /\ ResultIn(ch)[<<k, v>>] = IF InChunk(ch, v) /\ source[k] = v THEN 1 ELSE 0
<1>1. <<k, v>> \in Row /\ <<k, v>>[1] = k /\ <<k, v>>[2] = v
  BY DEF Row
<1>2. Result[<<k, v>>] = IF source[k] = v THEN 1 ELSE 0
  BY <1>1 DEF Result
<1>3. ResultIn(ch)[<<k, v>>] = IF InChunk(ch, v) THEN Result[<<k, v>>] ELSE 0
  BY <1>1 DEF ResultIn
<1> QED
  BY <1>2, <1>3

\* The versions of a key.
LEMMA VersionFacts ==
  ASSUME TypeOK, Versions, NEW k \in Keys
  PROVE  /\ source[k] \in 0..MaxVer /\ began[k] \in 0..MaxVer
         /\ began[k] <= source[k] /\ source[k] <= clock
         /\ source[k] > 0 => source[k] \in Version
<1>1. source[k] \in 0..MaxVer /\ began[k] \in 0..MaxVer
  BY DEF TypeOK
<1>2. began[k] <= source[k] /\ source[k] <= clock
  BY DEF Versions
<1>3. source[k] > 0 => source[k] \in Version
  BY <1>1, BoundsAssumption DEF Version
<1> QED
  BY <1>1, <1>2, <1>3

\* What the query computes is a snapshot.
LEMMA ResultIsSnapshot ==
  ASSUME TypeOK, Versions
  PROVE  Snapshot(Result, source, began)
<1>1. \A k \in Keys : /\ source[k] \in 0..MaxVer /\ began[k] \in 0..MaxVer
                     /\ began[k] <= source[k] /\ (source[k] > 0 => source[k] \in Version)
  BY VersionFacts
<1>2. \A k \in Keys, v \in Version : Result[<<k, v>>] = IF source[k] = v THEN 1 ELSE 0
  BY ResultAt
<1>3. Tidy(Result, source)
  BY <1>1, <1>2, BoundsAssumption DEF Tidy, Version
<1>4. NoGap(Result, source)
  BY <1>1, <1>2, BoundsAssumption DEF NoGap
<1>5. Covers(Result, began)
  BY <1>1, <1>2, BoundsAssumption DEF Covers
<1> QED
  BY <1>3, <1>4, <1>5 DEF Snapshot

\* A change of the query's result leaves what is true of older rows: its version is new.
LEMMA ChangeKeepsRows ==
  ASSUME TypeOK, Versions, NEW rows \in Rows, NEW n \in Keys, clock < MaxVer,
         NEW src, src = [source EXCEPT ![n] = clock + 1], Tidy(rows, source)
  PROVE  /\ Tidy(rows, src)
         /\ NoGap(rows, source) => NoGap(rows, src)
<1>1. \A k \in Keys : /\ source[k] \in Nat /\ source[k] <= clock /\ clock \in Nat
                     /\ src[k] = IF k = n THEN clock + 1 ELSE source[k]
  <2>1. source \in [Keys -> 0..MaxVer] /\ clock \in Nat
    BY BoundsAssumption DEF TypeOK
  <2>2. ASSUME NEW k \in Keys PROVE source[k] \in Nat /\ source[k] <= clock
    BY VersionFacts, BoundsAssumption
  <2> QED
    BY <2>1, <2>2
<1>2. ASSUME NEW k \in Keys, NEW v \in Version PROVE v \in Nat /\ (rows[<<k, v>>] > 0 => v <= clock)
  <2>1. v \in Nat
    BY BoundsAssumption DEF Version
  <2>2. rows[<<k, v>>] > 0 => v <= source[k]
    BY DEF Tidy
  <2> QED
    BY <1>1, <2>1, <2>2
<1>3. Tidy(rows, src)
  BY <1>1, <1>2 DEF Tidy
<1>4. ASSUME NoGap(rows, source) PROVE NoGap(rows, src)
  BY <1>1, <1>2, <1>4 DEF NoGap
<1> QED
  BY <1>3, <1>4

\* Rows below those that are put beside them have no gap of their own.
LEMMA KeptHasNoGap ==
  ASSUME NEW kept \in Rows, NEW staged \in Rows, NEW src \in [Keys -> 0..MaxVer],
         Tidy(Plus(kept, staged), src), NoGap(Plus(kept, staged), src), Above(staged, kept)
  PROVE  Tidy(kept, src) /\ NoGap(kept, src)
<1>1. \A k \in Keys, v \in Version :
        /\ kept[<<k, v>>] \in Nat /\ staged[<<k, v>>] \in Nat
        /\ Plus(kept, staged)[<<k, v>>] = kept[<<k, v>>] + staged[<<k, v>>]
  BY RowsAt
<1> DEFINE both == Plus(kept, staged)
<1> HIDE DEF both
<1>2. \A k \in Keys, v \in Version :
        both[<<k, v>>] = kept[<<k, v>>] + staged[<<k, v>>]
  BY <1>1 DEF both
<1>3. Tidy(both, src) /\ NoGap(both, src)
  BY DEF both
<1>4. Tidy(kept, src)
  BY <1>1, <1>2, <1>3 DEF Tidy
<1>5. ASSUME NEW j \in Keys, NEW k \in Keys, NEW w \in Version,
             kept[<<j, w>>] > 0, 0 < src[k], src[k] <= w
      PROVE  kept[<<k, src[k]>>] > 0
  <2>1. src[k] \in Version /\ w \in Nat
    BY <1>5, BoundsAssumption DEF Version
  <2>2. both[<<j, w>>] > 0
    BY <1>1, <1>2, <1>5
  <2>3. both[<<k, src[k]>>] > 0
    BY <1>3, <1>5, <2>2 DEF NoGap
  <2>4. ~(staged[<<k, src[k]>>] > 0)
    <3>1. ~(w < src[k])
      BY <1>5, <2>1 DEF Version
    <3> QED
      BY <1>5, <2>1, <3>1 DEF Above
  <2> QED
    BY <1>1, <1>2, <2>1, <2>3, <2>4
<1> QED
  BY <1>4, <1>5 DEF NoGap

\* The merge of a chunk that takes all above the target: the rows that stay, with the
\* rows that are staged, are a snapshot, and the staged ones are above the others.
LEMMA MergeIsSnapshot ==
  ASSUME TypeOK, Versions, NEW rows \in Rows, NEW ch,
         Tidy(rows, source), NoGap(rows, source), TakesAbove(ch, rows)
  PROVE  LET staged == ResultIn(ch)
             kept == WithoutKeys(rows, staged)
         IN Snapshot(Plus(kept, staged), source, began) /\ Above(staged, kept)
<1> DEFINE staged == ResultIn(ch)
           kept == WithoutKeys(rows, staged)
           both == Plus(kept, staged)
           Took(k) == \E w \in Version : staged[<<k, w>>] > 0
<1>1. staged \in Rows /\ kept \in Rows
  BY RowTypes
<1>2. \A k \in Keys, v \in Version :
        /\ rows[<<k, v>>] \in Nat
        /\ staged[<<k, v>>] = IF InChunk(ch, v) /\ source[k] = v THEN 1 ELSE 0
        /\ kept[<<k, v>>] = IF Took(k) THEN 0 ELSE rows[<<k, v>>]
        /\ both[<<k, v>>] = kept[<<k, v>>] + staged[<<k, v>>]
  <2> TAKE k \in Keys, v \in Version
  <2>1. staged[<<k, v>>] = IF InChunk(ch, v) /\ source[k] = v THEN 1 ELSE 0
    BY ResultAt
  <2>2. rows[<<k, v>>] \in Nat /\ kept[<<k, v>>] = IF Took(k) THEN 0 ELSE rows[<<k, v>>]
    BY <1>1, RowsAt
  <2>3. both[<<k, v>>] = kept[<<k, v>>] + staged[<<k, v>>]
    BY <1>1, RowsAt
  <2> QED
    BY <2>1, <2>2, <2>3
<1>3. \A k \in Keys : /\ source[k] \in 0..MaxVer /\ began[k] \in 0..MaxVer
                     /\ began[k] <= source[k] /\ (source[k] > 0 => source[k] \in Version)
  BY VersionFacts
<1>4. \A v \in Version : v \in Nat /\ v > 0
  BY BoundsAssumption DEF Version
<1> HIDE DEF staged, kept, both
\* A key that is not taken is current in the target, or there is nothing of it.
<1>5. ASSUME NEW k \in Keys, source[k] > 0, ~Took(k)
      PROVE  /\ ~InChunk(ch, source[k])
             /\ rows[<<k, source[k]>>] > 0 /\ kept[<<k, source[k]>>] > 0
  <2>1. source[k] \in Version
    BY <1>3, <1>5
  <2>2. ~InChunk(ch, source[k])
    BY <1>2, <1>5, <2>1
  <2>3. PICK j \in Keys, v \in Version : rows[<<j, v>>] > 0 /\ ~(v < source[k])
    BY <2>1, <2>2 DEF TakesAbove
  <2>4. source[k] <= v
    BY <1>4, <2>1, <2>3
  <2>5. rows[<<k, source[k]>>] > 0
    BY <1>5, <2>3, <2>4 DEF NoGap
  <2> QED
    BY <1>2, <1>5, <2>1, <2>2, <2>5
<1>6. ASSUME NEW k \in Keys, Took(k)
      PROVE  /\ source[k] \in Version /\ InChunk(ch, source[k])
             /\ staged[<<k, source[k]>>] > 0
             /\ \A v \in Version : kept[<<k, v>>] = 0
  BY <1>2, <1>6
<1>7. ASSUME NEW k \in Keys, source[k] > 0 PROVE both[<<k, source[k]>>] > 0
  <2>1. source[k] \in Version
    BY <1>3, <1>7
  <2>2. kept[<<k, source[k]>>] \in Nat /\ staged[<<k, source[k]>>] \in Nat
    BY <1>2, <2>1
  <2>3. both[<<k, source[k]>>] = kept[<<k, source[k]>>] + staged[<<k, source[k]>>]
    BY <1>2, <2>1
  <2>4. CASE Took(k)
    BY <1>6, <2>2, <2>3, <2>4
  <2>5. CASE ~Took(k)
    BY <1>5, <1>7, <2>2, <2>3, <2>5
  <2> QED
    BY <2>4, <2>5
<1>8. Tidy(both, source)
  <2>1. SUFFICES ASSUME NEW k \in Keys, NEW v \in Version, both[<<k, v>>] > 0
                 PROVE  /\ both[<<k, v>>] = 1 /\ v <= source[k]
                        /\ \A w \in Version : both[<<k, w>>] > 0 => w = v
    BY DEF Tidy
  <2>2. CASE Took(k)
    <3>1. \A w \in Version : both[<<k, w>>] = IF source[k] = w THEN 1 ELSE 0
      BY <1>2, <1>6, <2>2
    <3> QED
      BY <1>4, <2>1, <3>1
  <2>3. CASE ~Took(k)
    <3>1. \A w \in Version : both[<<k, w>>] = rows[<<k, w>>]
      BY <1>2, <2>3
    <3> QED
      BY <2>1, <3>1 DEF Tidy
  <2> QED
    BY <2>2, <2>3
<1>9. NoGap(both, source)
  BY <1>7 DEF NoGap
<1>10. Covers(both, began)
  <2>1. SUFFICES ASSUME NEW k \in Keys, began[k] > 0
                 PROVE  \E v \in Version : began[k] <= v /\ both[<<k, v>>] > 0
    BY DEF Covers
  <2>2. source[k] > 0 /\ source[k] \in Version
    BY <1>3, <2>1
  <2> QED
    BY <1>3, <1>7, <2>2
<1>11. Above(staged, kept)
  <2>1. SUFFICES ASSUME NEW j \in Keys, NEW k \in Keys, NEW u \in Version, NEW v \in Version,
                        staged[<<k, v>>] > 0, kept[<<j, u>>] > 0
                 PROVE  u < v
    BY DEF Above
  <2>2. InChunk(ch, v) /\ ~Took(j) /\ rows[<<j, u>>] > 0
    BY <1>2, <2>1
  <2>3. u <= source[j] /\ source[j] > 0
    BY <1>3, <1>4, <2>2 DEF Tidy
  <2>4. ~InChunk(ch, source[j]) /\ rows[<<j, source[j]>>] > 0 /\ source[j] \in Version
    BY <1>3, <1>5, <2>2, <2>3
  <2>5. u = source[j]
    BY <2>2, <2>4 DEF Tidy
  <2>6. ~(v <= u)
    BY <2>2, <2>4, <2>5 DEF TakesAbove
  <2> QED
    BY <1>4, <2>6
<1>12. Snapshot(both, source, began) /\ Above(staged, kept)
  BY <1>8, <1>9, <1>10, <1>11 DEF Snapshot
<1> QED
  BY <1>12 DEF staged, kept, both

\* The ranges that are resolved from the target take all that is above it.
LEMMA ResolvedTakesAbove ==
  ASSUME TypeOK, NEW ch \in {AboveMax, Unbounded}
  PROVE  TakesAbove(ch, target.rows)
<1>1. /\ TargetMax \in Nat /\ TargetMax <= MaxVer
      /\ \A k \in Keys, v \in Version : target.rows[<<k, v>>] > 0 => v <= TargetMax
      /\ TargetMax > 0 => TargetMax \in Version /\ \E k \in Keys : target.rows[<<k, TargetMax>>] > 0
  BY TargetMaxIs, BoundsAssumption DEF Version
<1>2. plan.lookback \in Nat
  BY PlansAssumption DEF TypeOK, Plan
<1>3. /\ ch.upper = MaxVer + 1 /\ ch.lower \in Nat /\ ch.inclusive \in BOOLEAN
      /\ ch.lower <= TargetMax /\ (ch.inclusive => TargetMax > 0)
  <2>1. CASE ch = Unbounded
    BY <1>1, <2>1, BoundsAssumption DEF Unbounded
  <2>2. CASE ch = AboveMax
    <3>1. AboveMax.upper = MaxVer + 1 /\ AboveMax.inclusive = (plan.lookback > 0 /\ TargetMax > 0)
      BY DEF AboveMax
    <3>2. AboveMax.lower = IF ~(plan.lookback > 0 /\ TargetMax > 0) THEN TargetMax
                           ELSE IF TargetMax > plan.lookback THEN TargetMax - plan.lookback ELSE 0
      BY DEF AboveMax
    <3>3. AboveMax.lower \in Nat /\ AboveMax.lower <= TargetMax
      BY <1>1, <1>2, <3>2
    <3> QED
      BY <1>1, <2>2, <3>1, <3>3
  <2> QED
    BY <2>1, <2>2
<1>4. \A v \in Version : v \in Nat /\ v > 0 /\ v < MaxVer + 1
  BY BoundsAssumption DEF Version
<1>5. \A w \in Version : InChunk(ch, w) <=> IF ch.inclusive THEN w >= ch.lower ELSE w > ch.lower
  BY <1>3, <1>4 DEF InChunk
<1>6. ASSUME NEW w \in Version, NEW v \in Version, InChunk(ch, v), v <= w
      PROVE  InChunk(ch, w)
  BY <1>3, <1>4, <1>5, <1>6
<1>7. ASSUME NEW w \in Version, \A k \in Keys, v \in Version : target.rows[<<k, v>>] > 0 => v < w
      PROVE  InChunk(ch, w)
  <2>1. TargetMax < w
    <3>1. CASE TargetMax = 0
      BY <1>4, <3>1
    <3>2. CASE TargetMax > 0
      BY <1>1, <1>7, <3>2
    <3> QED
      BY <1>1, <3>1, <3>2
  <2> QED
    BY <1>1, <1>3, <1>4, <1>5, <2>1
<1> QED
  BY <1>6, <1>7 DEF TakesAbove

\* The versions stay ordered.
LEMMA VersionsStep ==
  ASSUME TypeOK, OnPath, Versions, [Next]_vars
  PROVE  Versions'
<1> USE DEF dbVars, runVars, histVars
<1>1. plan' = plan
  BY PlanFixed
<1>2. \A k \in Keys : began[k] <= source[k] /\ source[k] <= clock
                     /\ began[k] \in Nat /\ source[k] \in Nat /\ clock \in Nat
  <2>1. clock \in Nat
    BY BoundsAssumption DEF TypeOK
  <2> QED
    BY <2>1, VersionFacts, BoundsAssumption
<1>3. ASSUME NEW n \in Keys, Change(n) PROVE Versions'
  <2>1. /\ \A k \in Keys : source'[k] = IF k = n THEN clock + 1 ELSE source[k]
        /\ clock' = clock + 1 /\ began' = began /\ range' = range
    BY <1>3 DEF Change, TypeOK
  <2> QED
    BY <1>1, <1>2, <2>1 DEF Versions
<1>4. CASE Begin
  <2>1. UNCHANGED <<source, clock>> /\ (began' = source \/ began' = began) /\ range' \in {range, plan.range}
    BY <1>4 DEF Begin
  <2> QED
    BY <1>1, <1>2, <2>1 DEF Versions
<1>5. CASE WholeTable
  <2>1. Rest
    BY <1>5 DEF WholeTable, Pre, SurroundingFails, DropOldView, Replace, DropTemp, CreateTemp,
       DropTarget, Rename, Create, ViewDropTable, ViewDropView, CreateView, Truncate, Insert, Post
  <2> QED
    BY <1>1, <2>1 DEF Rest, Versions
<1>6. CASE Resolve \/ Stage \/ Delete \/ InsertTemp \/ DropStage \/ Crash \/ UNCHANGED vars
  <2>1. UNCHANGED <<source, clock, began>> /\ (range = NoRange => range' = NoRange)
    BY <1>6 DEF Resolve, Stage, Delete, InsertTemp, DropStage, Crash, ChunkFails, Rest, vars
  <2> QED
    BY <1>1, <2>1 DEF Versions
<1> QED
  BY <1>3, <1>4, <1>5, <1>6 DEF Next, WholeTable, Over

\* No rows, and no rows with those of the query.
LEMMA EmptyRows ==
  ASSUME TypeOK
  PROVE  /\ Tidy(NoRows, source) /\ NoGap(NoRows, source)
         /\ Plus(NoRows, Result) = Result
<1>1. \A k \in Keys, v \in Version : NoRows[<<k, v>>] = 0
  BY DEF NoRows, Row
<1>2. Tidy(NoRows, source) /\ NoGap(NoRows, source)
  BY <1>1 DEF Tidy, NoGap
<1>3. Result \in [Row -> Nat] /\ NoRows = [r \in Row |-> 0]
  BY RowTypes DEF Rows, NoRows
<1>4. \A r \in Row : NoRows[r] + Result[r] = Result[r]
  BY <1>3
<1>5. Plus(NoRows, Result) = [r \in Row |-> Result[r]]
  BY <1>4 DEF Plus
<1> QED
  BY <1>2, <1>3, <1>5

\* The models FreshAfterSuccess speaks of.
Replaces == plan.mode \in {"full-refresh", "truncate", "incremental"} /\ plan.range = NoRange

\* A change of the query's result.
LEMMA FreshChange ==
  ASSUME TypeOK, OnPath, Versions, Fresh, Replaces, ~doubled, NEW n \in Keys, Change(n)
  PROVE  Fresh'
<1> DEFINE staged == temps[run].rows
           kept == WithoutKeys(target.rows, staged)
<1>1. /\ clock < MaxVer /\ source' = [source EXCEPT ![n] = clock + 1]
      /\ UNCHANGED <<plan, target, temps, pc, err, run, range, chunks, c, began, doubled>>
  BY DEF Change, dbVars, runVars, histVars
<1>2. target.rows \in Rows /\ (pc # "idle" => staged \in Rows)
  BY DEF TypeOK, OnPath, Relation
<1>3. ASSUME NEW rows \in Rows, Tidy(rows, source)
      PROVE  Tidy(rows, source') /\ (NoGap(rows, source) => NoGap(rows, source'))
  BY <1>1, <1>3, ChangeKeepsRows
<1>4. ASSUME NEW rows \in Rows, Snapshot(rows, source, began)
      PROVE  Tidy(rows, source') /\ NoGap(rows, source') /\ Covers(rows, began')
  BY <1>1, <1>3, <1>4 DEF Snapshot
<1>5. Tidy(target'.rows, source') /\ NoGap(target'.rows, source')
  BY <1>1, <1>2, <1>3 DEF Fresh, Replaces
<1>6. pc \in {"dropTarget", "rename"} /\ plan.ddl = "rename" => Snapshot(temps[run].rows, source, began)'
  <2>1. pc \in {"dropTarget", "rename"} /\ plan.ddl = "rename" => Snapshot(staged, source, began)
    BY DEF Fresh, Replaces
  <2> QED
    BY <1>1, <1>2, <1>4, <2>1 DEF Snapshot
<1>7. pc = "delete" => Snapshot(Plus(kept, staged), source, began)' /\ Above(staged, kept)'
  <2>1. pc = "delete" => Plus(kept, staged) \in Rows
    BY <1>2, RowTypes
  <2>2. pc = "delete" => Snapshot(Plus(kept, staged), source, began) /\ Above(staged, kept)
    BY DEF Fresh, Replaces
  <2>3. staged' = staged /\ kept' = kept /\ Plus(kept, staged)' = Plus(kept, staged)
    BY <1>1 DEF WithoutKeys, Plus
  <2> HIDE DEF staged, kept
  <2>4. pc = "delete" => Snapshot(Plus(kept, staged), source, began)'
    BY <1>1, <1>4, <2>1, <2>2, <2>3 DEF Snapshot
  <2> QED
    BY <2>2, <2>3, <2>4
<1>8. pc = "insertTemp" /\ ~err =>
        Snapshot(Plus(target.rows, staged), source, began)' /\ Above(staged, target.rows)'
  <2>1. pc = "insertTemp" => Plus(target.rows, staged) \in Rows
    BY <1>2, RowTypes
  <2>2. pc = "insertTemp" /\ ~err => Snapshot(Plus(target.rows, staged), source, began) /\ Above(staged, target.rows)
    BY DEF Fresh, Replaces
  <2>3. staged' = staged /\ Plus(target.rows, staged)' = Plus(target.rows, staged)
    BY <1>1 DEF Plus
  <2> HIDE DEF staged
  <2>4. pc = "insertTemp" /\ ~err => Snapshot(Plus(target.rows, staged), source, began)'
    BY <1>1, <1>4, <2>1, <2>2, <2>3 DEF Snapshot
  <2> QED
    BY <1>1, <2>2, <2>3, <2>4
<1>9. pc = "stage" => TakesAbove(chunks'[c'], target'.rows)
  BY <1>1 DEF Fresh, Replaces
<1>10. /\ pc \in {"post", "dropStage", "idle"} /\ ~err /\ run > 0 => Covers(target'.rows, began')
       /\ pc = "insert" => target'.rows = NoRows
       /\ pc \in MergePath => Len(chunks') = 1
  BY <1>1 DEF Fresh, Replaces
<1>11. NoRows' = NoRows
  BY DEF NoRows
<1> QED
  BY <1>1, <1>5, <1>6, <1>7, <1>8, <1>9, <1>10, <1>11 DEF Fresh

\* A statement of a full refresh or of truncate.
LEMMA FreshWholeTable ==
  ASSUME TypeOK, OnPath, Versions, Fresh, Replaces, ~doubled, WholeTable
  PROVE  Fresh'
<1>1. /\ UNCHANGED <<plan, source, began, range, run, chunks, doubled>>
      /\ run \in 1..MaxRuns
  BY DEF WholeTable, Pre, SurroundingFails, DropOldView, Replace, DropTemp, CreateTemp, DropTarget,
     Rename, Create, ViewDropTable, ViewDropView, CreateView, Truncate, Insert, Post, Rest, runVars,
     OnPath
<1>2. /\ Tidy(NoRows, source) /\ NoGap(NoRows, source) /\ Plus(NoRows, Result) = Result
      /\ Snapshot(Result, source, began) /\ NoRows' = NoRows
  BY EmptyRows, ResultIsSnapshot DEF NoRows
<1>3. /\ plan \in Plan /\ plan.mode # "append"
      /\ pc \notin {"viewDropTable", "viewDropView", "createView"}
      /\ temps \in [1..MaxRuns -> Relation]
  BY PlansAssumption DEF Replaces, OnPath, Path, RefreshPath, MergePath, TypeOK
<1>4. \A rows \in Rows : Snapshot(rows, source, began)' <=> Tidy(rows, source) /\ NoGap(rows, source) /\ Covers(rows, began)
  BY <1>1 DEF Snapshot
<1>0. Tidy(target.rows, source) /\ NoGap(target.rows, source)
  BY DEF Fresh, Replaces
\* A run that ends its main statement has a snapshot in the target.
<1>5. ASSUME pc' = "post", target'.rows \in Rows, Snapshot(target'.rows, source, began) PROVE Fresh'
  BY <1>1, <1>5 DEF Fresh, Snapshot, MergePath
\* Other statements leave the target's rows or take them all away.
<1>6. ASSUME pc' \in {"dropView", "resolve", "create", "truncate", "replace", "dropTemp", "createTemp"},
             target'.rows \in {target.rows, NoRows}
      PROVE  Fresh'
  <2>1. Tidy(target'.rows, source') /\ NoGap(target'.rows, source')
    BY <1>0, <1>1, <1>2, <1>6
  <2> QED
    BY <1>6, <2>1 DEF Fresh, MergePath
<1>7. ASSUME pc' = "idle", err', target'.rows = target.rows PROVE Fresh'
  <2>1. Tidy(target'.rows, source') /\ NoGap(target'.rows, source')
    BY <1>0, <1>1, <1>7
  <2> QED
    BY <1>7, <2>1 DEF Fresh, MergePath
<1>8. CASE Pre
  <2>1. pc' \in {"dropView", "resolve", "create", "truncate"} /\ target' = target
    BY <1>3, <1>8 DEF Pre, Ignored, dbVars, FullRefresh, Replaces
  <2> QED
    BY <1>6, <2>1
<1>9. CASE SurroundingFails
  BY <1>7, <1>9 DEF SurroundingFails, Failed
<1>10. CASE Post
  <2>1. Covers(target.rows, began) /\ Tidy(target.rows, source) /\ NoGap(target.rows, source)
    BY <1>1, <1>10, BoundsAssumption DEF Post, Fresh, Replaces, OnPath
  <2>2. pc' = "idle" /\ target' = target
    BY <1>10 DEF Post, Ignored, dbVars
  <2> QED
    BY <1>1, <2>1, <2>2 DEF Fresh, MergePath
<1>11. CASE DropOldView
  <2>1. pc' \in {"replace", "dropTemp", "dropTarget"} /\ target'.rows \in {target.rows, NoRows}
        /\ (pc' = "dropTarget" => plan.ddl # "rename")
    BY <1>3, <1>11 DEF DropOldView, Answered, Ignored, dbVars, Missing, Plan
  <2>2. CASE pc' = "dropTarget"
    <3>1. Tidy(target'.rows, source') /\ NoGap(target'.rows, source') /\ plan'.ddl # "rename"
      BY <1>0, <1>1, <1>2, <2>1, <2>2
    <3> QED
      BY <2>2, <3>1 DEF Fresh, MergePath
  <2> QED
    BY <1>6, <2>1, <2>2
<1>12. CASE Replace
  <2>1. \/ pc' = "post" /\ target' = TableOf(Result)
        \/ pc' = "idle" /\ err' /\ target' = target
    BY <1>12 DEF Replace, Answered, Failed
  <2> QED
    BY <1>2, <1>5, <1>7, <2>1, RowTypes DEF TableOf
<1>13. CASE DropTemp
  BY <1>6, <1>13 DEF DropTemp, Answered, Ignored, dbVars
<1>14. CASE CreateTemp
  <2>1. \/ /\ pc' = "dropTarget" /\ target' = target
           /\ temps' = [temps EXCEPT ![run] = TableOf(Result)]
        \/ pc' = "idle" /\ err' /\ target' = target
    BY <1>14 DEF CreateTemp, Answered, Failed
  <2>2. CASE pc' = "dropTarget"
    <3>1. target' = target /\ temps' = [temps EXCEPT ![run] = TableOf(Result)]
      BY <2>1, <2>2
    <3>2. temps'[run].rows = Result
      BY <1>1, <1>3, <3>1 DEF TableOf
    <3>3. Snapshot(temps[run].rows, source, began)'
      BY <1>1, <1>2, <3>2 DEF Snapshot
    <3>4. Tidy(target'.rows, source') /\ NoGap(target'.rows, source')
      BY <1>0, <1>1, <3>1
    <3> QED
      BY <2>2, <3>3, <3>4 DEF Fresh, MergePath
  <2> QED
    BY <1>7, <2>1, <2>2
<1>15. CASE DropTarget
  <2>1. \/ /\ pc' \in {"rename", "create"} /\ target' = Missing
           /\ temps' = [temps EXCEPT ![run] = temps[run]]
           /\ pc' = "rename" => plan.ddl = "rename"
        \/ pc' = "idle" /\ err' /\ target' = target
    BY <1>15 DEF DropTarget, Answered, Failed, FailedKeepingTemp, dbVars
  <2>2. CASE pc' \in {"rename", "create"}
    <3>1. target'.rows = NoRows /\ temps' = temps
      <4>1. target' = Missing /\ temps' = [temps EXCEPT ![run] = temps[run]]
        BY <2>1, <2>2
      <4>2. [temps EXCEPT ![run] = temps[run]] = temps
        BY <1>1, <1>3
      <4> QED
        BY <4>1, <4>2 DEF Missing
    <3>2. pc' = "rename" => Snapshot(temps[run].rows, source, began)'
      <4>1. pc' = "rename" => Snapshot(temps[run].rows, source, began)
        BY <1>15, <2>1 DEF DropTarget, Fresh, Replaces
      <4> QED
        BY <1>1, <3>1, <4>1 DEF Snapshot
    <3>3. Tidy(target'.rows, source') /\ NoGap(target'.rows, source')
      BY <1>1, <1>2, <3>1
    <3> QED
      BY <2>2, <3>2, <3>3 DEF Fresh, MergePath
  <2> QED
    BY <1>7, <2>1, <2>2
<1>16. CASE Rename
  <2>1. \/ pc' = "post" /\ target' = temps[run]
        \/ pc' = "idle" /\ err' /\ target' = target
    BY <1>16 DEF Rename, DropsTempOnRename, Answered, FailedKeepingTemp, dbVars
  <2>2. pc = "rename" /\ plan.ddl = "rename"
    BY <1>3, <1>16 DEF Rename, OnPath, Path, RefreshPath, MergePath, Plan, Replaces
  <2>3. Snapshot(temps[run].rows, source, began) /\ temps[run].rows \in Rows
    BY <1>1, <1>3, <2>2 DEF Fresh, Replaces, Relation
  <2> QED
    BY <1>5, <1>7, <2>1, <2>3
<1>17. CASE Create
  <2>1. \/ pc' = "post" /\ target' = TableOf(Result)
        \/ pc' = "idle" /\ err' /\ target' = target
    BY <1>17 DEF Create, CreateTable, Answered, Failed
  <2> QED
    BY <1>2, <1>5, <1>7, <2>1, RowTypes DEF TableOf
<1>18. CASE Truncate
  <2>1. \/ pc' = "insert" /\ target' = TableOf(NoRows)
        \/ pc' = "idle" /\ err' /\ target' = target
    BY <1>18 DEF Truncate, Answered, Failed
  <2>2. CASE pc' = "insert"
    <3>1. target'.rows = NoRows
      BY <2>1, <2>2 DEF TableOf
    <3> QED
      BY <1>1, <1>2, <2>2, <3>1 DEF Fresh, MergePath
  <2> QED
    BY <1>7, <2>1, <2>2
<1>19. CASE Insert
  <2>1. \/ pc' = "post" /\ target' = TableOf(Plus(target.rows, Result))
        \/ pc' = "idle" /\ err' /\ target' = target
    BY <1>19 DEF Insert, Answered, Failed
  <2>2. target.rows = NoRows
    BY <1>19 DEF Insert, Fresh, Replaces
  <2> QED
    BY <1>2, <1>5, <1>7, <2>1, <2>2, RowTypes DEF TableOf
<1> QED
  BY <1>3, <1>8, <1>9, <1>10, <1>11, <1>12, <1>13, <1>14, <1>15, <1>16, <1>17, <1>18, <1>19
     DEF WholeTable, ViewDropTable, ViewDropView, CreateView

\* A statement of the merge of a chunk.
LEMMA FreshMerge ==
  ASSUME TypeOK, OnPath, Versions, Fresh, Replaces, ~doubled', Resolve \/ Stage \/ Delete \/ InsertTemp \/ DropStage
  PROVE  Fresh'
<1> USE DEF dbVars, runVars, histVars, MergePath
<1>1. /\ plan.mode = "incremental" /\ run \in 1..MaxRuns /\ temps \in [1..MaxRuns -> Relation]
      /\ plan.range = NoRange /\ range = NoRange /\ UNCHANGED <<plan, source, began, run>> /\ ~doubled
  <2>1. plan \in Plan
    BY PlansAssumption DEF TypeOK
  <2>2. pc \in MergePath \cup {"resolve"} /\ UNCHANGED <<plan, source, began, run>>
    BY DEF Resolve, Stage, Delete, InsertTemp, DropStage, ChunkFails, Rest
  <2>3. doubled => doubled'
    BY DEF Resolve, Stage, Delete, InsertTemp, DropStage, ChunkFails, Rest, TypeOK
  <2>4. plan.mode = "incremental"
    BY <2>1, <2>2 DEF Replaces, OnPath, Path, RefreshPath, Plan
  <2> QED
    BY <2>2, <2>3, <2>4 DEF OnPath, Versions, Replaces, TypeOK
<1>2. Tidy(target.rows, source) /\ NoGap(target.rows, source)
  BY <1>1 DEF Fresh, Replaces
<1>3. target \in Relation /\ target.rows \in Rows /\ temps[run].rows \in Rows
  BY <1>1 DEF TypeOK, Relation
<1>4. CASE Resolve
  <2>1. target' = target /\ c = 1 /\ c' = 1 /\ ~err' /\ chunks' \in {<<AboveMax>>, <<Unbounded>>}
    BY <1>1, <1>4 DEF Resolve, OnPath
  <2>2. Len(chunks') = 1 /\ chunks'[1] \in {AboveMax, Unbounded} /\ pc' = "stage"
    BY <1>4, <2>1 DEF Resolve
  <2>3. TakesAbove(chunks'[c'], target'.rows)
    BY <2>1, <2>2, ResolvedTakesAbove
  <2> QED
    BY <1>1, <1>2, <2>1, <2>2, <2>3 DEF Fresh
<1>5. CASE Stage
  <2>1. pc = "stage" /\ Len(chunks) = 1 /\ TakesAbove(chunks[c], target.rows)
    BY <1>1, <1>5 DEF Stage, Fresh, Replaces
  <2>2. CASE /\ Answered(target, TableOf(ResultIn(chunks[c])), "delete") /\ Rest
    <3>1. /\ target' = target /\ pc' = "delete" /\ chunks' = chunks
          /\ temps' = [temps EXCEPT ![run] = TableOf(ResultIn(chunks[c]))]
      BY <2>2 DEF Answered, Rest
    <3>2. temps'[run].rows = ResultIn(chunks[c])
      BY <1>1, <3>1 DEF TableOf
    <3> DEFINE staged == ResultIn(chunks[c])
               kept == WithoutKeys(target.rows, staged)
    <3>3. Snapshot(Plus(kept, staged), source, began) /\ Above(staged, kept)
      BY <1>2, <1>3, <2>1, MergeIsSnapshot
    <3> HIDE DEF staged
    <3>4. /\ WithoutKeys(target.rows, temps[run].rows)' = WithoutKeys(target.rows, staged)
          /\ Plus(kept, staged) = Plus(WithoutKeys(target.rows, temps[run].rows)', temps'[run'].rows)
      BY <1>1, <3>1, <3>2 DEF staged, WithoutKeys
    <3>5. /\ Snapshot(Plus(WithoutKeys(target.rows, temps[run].rows), temps[run].rows), source, began)'
          /\ Above(temps[run].rows, WithoutKeys(target.rows, temps[run].rows))'
      BY <1>1, <3>1, <3>2, <3>3, <3>4 DEF Snapshot, staged
    <3> QED
      BY <1>1, <1>2, <2>1, <3>1, <3>5 DEF Fresh
  <2>3. CASE ChunkFails /\ UNCHANGED <<dbVars, histVars>>
    BY <1>1, <1>2, <2>1, <2>3 DEF ChunkFails, Fresh
  <2> QED
    BY <1>1, <1>5, <2>2, <2>3 DEF Stage
<1>6. CASE Delete
  <2> DEFINE staged == temps[run].rows
             kept == WithoutKeys(target.rows, staged)
  <2>1. /\ pc = "delete" /\ Len(chunks) = 1
        /\ Snapshot(Plus(kept, staged), source, began) /\ Above(staged, kept)
    BY <1>1, <1>6 DEF Delete, Fresh, Replaces
  <2>2. pc' = "insertTemp" /\ UNCHANGED <<temps, chunks>>
    BY <1>6 DEF Delete
  <2>3. CASE target' = target /\ err' = TRUE
    BY <1>1, <1>2, <2>1, <2>2, <2>3 DEF Fresh
  <2>4. CASE target' = [target EXCEPT !.rows = WithoutKeys(@, temps[run].rows)] /\ err' = err
    <3>1. target'.rows = kept
      BY <1>3, <2>4 DEF Relation
    <3>2. kept \in Rows
      BY <1>3, RowTypes
    <3> HIDE DEF kept
    <3>3. Tidy(kept, source) /\ NoGap(kept, source)
      BY <1>3, <2>1, <3>2, KeptHasNoGap DEF Snapshot, TypeOK
    <3>4. staged' = staged /\ Plus(target.rows, temps[run].rows)' = Plus(kept, staged)
      BY <1>1, <2>2, <3>1 DEF Plus
    <3> HIDE DEF staged
    <3>5. Snapshot(Plus(target.rows, temps[run].rows), source, began)'
      <4>1. source' = source /\ began' = began
        BY <1>1
      <4>2. Plus(target'.rows, temps'[run'].rows) = Plus(kept, staged)
        BY <3>4
      <4>3. Snapshot(Plus(kept, staged), source, began)
        BY <2>1 DEF staged, kept
      <4> QED
        BY <4>1, <4>2, <4>3
    <3>6. Above(temps[run].rows, target.rows)'
      BY <2>1, <3>1, <3>4 DEF staged
    <3> QED
      BY <1>1, <2>1, <2>2, <3>1, <3>3, <3>5, <3>6 DEF Fresh
  <2> QED
    BY <1>6, <2>3, <2>4 DEF Delete
<1>7. CASE InsertTemp
  <2>1. pc = "insertTemp" /\ Len(chunks) = 1
    BY <1>1, <1>7 DEF InsertTemp, Fresh, Replaces
  <2>2. CASE ChunkFails /\ UNCHANGED <<dbVars, histVars>>
    BY <1>1, <1>2, <2>1, <2>2 DEF ChunkFails, Fresh
  <2>3. CASE /\ target' = [target EXCEPT !.rows = Plus(@, temps[run].rows)]
             /\ doubled' = (doubled \/ err)
             /\ IF err THEN ChunkFails
                ELSE pc' = "dropStage" /\ UNCHANGED <<plan, source, clock, err, runVars>>
    <3>1. ~err /\ pc' = "dropStage" /\ UNCHANGED <<err, chunks>>
      BY <1>1, <2>3
    <3>2. target'.rows = Plus(target.rows, temps[run].rows)
      BY <1>3, <2>3 DEF Relation
    <3>3. Snapshot(target'.rows, source, began)
      BY <1>1, <2>1, <3>1, <3>2 DEF Fresh, Replaces
    <3> QED
      BY <1>1, <2>1, <3>1, <3>3 DEF Fresh, Snapshot
  <2> QED
    BY <1>7, <2>2, <2>3 DEF InsertTemp
<1>8. CASE DropStage
  <2>1. pc = "dropStage" /\ Len(chunks) = 1 /\ c = 1 /\ UNCHANGED <<target, err, chunks>>
    <3>1. pc = "dropStage" /\ Len(chunks) = 1
      BY <1>1, <1>8 DEF DropStage, Fresh, Replaces
    <3>2. c <= Len(chunks) /\ c \in Nat \ {0}
      BY <1>1, <3>1 DEF OnPath, TypeOK
    <3> QED
      BY <1>8, <3>1, <3>2 DEF DropStage
  <2>2. CASE err
    BY <1>1, <1>2, <1>8, <2>1, <2>2 DEF DropStage, Fresh
  <2>3. CASE ~err
    <3>1. pc' = "post"
      BY <1>8, <2>1, <2>3 DEF DropStage
    <3>2. Covers(target.rows, began)
      BY <1>1, <2>1, <2>3, BoundsAssumption DEF Fresh, Replaces
    <3> QED
      BY <1>1, <1>2, <2>1, <3>1, <3>2 DEF Fresh
  <2> QED
    BY <2>2, <2>3
<1> QED
  BY <1>4, <1>5, <1>6, <1>7, <1>8

\* Every step keeps what is known of the target.
LEMMA FreshStep ==
  ASSUME TypeOK, OnPath, Versions, Fresh, [Next]_vars
  PROVE  Fresh'
<1> SUFFICES ASSUME Replaces, ~doubled' PROVE Fresh'
  <2>1. plan' = plan
    BY PlanFixed
  <2> QED
    BY <2>1 DEF Fresh, Replaces
<1>1. plan' = plan /\ ~doubled
  <2>1. doubled' = doubled \/ doubled' = (doubled \/ err)
    BY DEF Next, Change, Begin, Pre, SurroundingFails, DropOldView, Replace, DropTemp, CreateTemp,
       DropTarget, Rename, Create, ViewDropTable, ViewDropView, CreateView, Truncate, Insert, Resolve,
       Stage, Delete, InsertTemp, DropStage, Post, Crash, Over, Rest, vars, histVars
  <2> QED
    BY <2>1, PlanFixed DEF TypeOK
<1>2. Tidy(target.rows, source) /\ NoGap(target.rows, source)
  BY <1>1 DEF Fresh, Replaces
<1>3. ASSUME NEW n \in Keys, Change(n) PROVE Fresh'
  BY <1>1, <1>3, FreshChange
<1>4. CASE Begin
  <2>1. pc' = "pre" /\ UNCHANGED <<source, target>>
    BY <1>4 DEF Begin, dbVars
  <2> QED
    BY <1>2, <2>1 DEF Fresh, MergePath
<1>5. CASE WholeTable
  BY <1>1, <1>5, FreshWholeTable
<1>6. CASE Resolve \/ Stage \/ Delete \/ InsertTemp \/ DropStage
  BY <1>6, FreshMerge
<1>7. CASE Crash
  <2>1. pc' = "idle" /\ err' /\ UNCHANGED <<source, target>>
    BY <1>7 DEF Crash, dbVars
  <2> QED
    BY <1>2, <2>1 DEF Fresh, MergePath
<1>8. CASE UNCHANGED vars
  <2>1. UNCHANGED <<plan, source, target, temps, pc, err, run, range, chunks, c, began, doubled>>
    BY <1>8 DEF vars, dbVars, runVars, histVars
  <2>2. /\ WithoutKeys(target.rows, temps[run].rows)' = WithoutKeys(target.rows, temps[run].rows)
        /\ Plus(WithoutKeys(target.rows, temps[run].rows), temps[run].rows)' =
             Plus(WithoutKeys(target.rows, temps[run].rows), temps[run].rows)
        /\ Plus(target.rows, temps[run].rows)' = Plus(target.rows, temps[run].rows)
        /\ NoRows' = NoRows
    BY <2>1 DEF WithoutKeys, Plus, NoRows
  <2> QED
    BY <2>1, <2>2 DEF Fresh
<1> QED
  BY <1>3, <1>4, <1>5, <1>6, <1>7, <1>8 DEF Next, WholeTable, Over

\* And it holds at the start.
LEMMA FreshInit == Init => Versions /\ Fresh
<1> SUFFICES ASSUME Init PROVE Versions /\ Fresh
  OBVIOUS
<1>1. Versions
  BY BoundsAssumption DEF Init, Versions
<1>2. target.rows = NoRows /\ pc = "idle" /\ run = 0
  BY DEF Init, Missing, View, TableOf
<1>3. \A k \in Keys, v \in Version : ~(NoRows[<<k, v>>] > 0)
  BY DEF NoRows, Row
<1>4. Tidy(NoRows, source) /\ NoGap(NoRows, source)
  BY <1>3 DEF Tidy, NoGap
<1> QED
  BY <1>1, <1>2, <1>4 DEF Fresh, MergePath

\* A target that is tidy and covers what there was has one row, fresh enough, for
\* every key.
LEMMA OneFreshRow ==
  ASSUME TypeOK, Versions, Tidy(target.rows, source), Covers(target.rows, began),
         NEW k \in Keys, began[k] > 0
  PROVE  OneRow(k) /\ \A v \in VersionsOf(k) : began[k] <= v /\ v <= source[k]
<1>1. PICK v \in Version : began[k] <= v /\ target.rows[<<k, v>>] > 0
  BY DEF Covers
<1>2. target.rows[<<k, v>>] = 1 /\ v <= source[k]
  BY <1>1 DEF Tidy
<1>3. VersionsOf(k) = {v}
  BY <1>1 DEF VersionsOf, Tidy
<1> QED
  BY <1>1, <1>2, <1>3 DEF OneRow

\* A model that was built without an error holds one row for every key there was when
\* the run started, and it is not older than that: executeFullRefresh, executeTruncate
\* and executeIncremental, whatever failed or crashed before.
THEOREM FreshCorrect == Spec => []FreshAfterSuccess
<1> DEFINE IInv == StepInv /\ Versions /\ Fresh
<1>1. Init => IInv
  BY StepInit, FreshInit
<1>2. IInv /\ [Next]_vars => IInv'
  <2>1. StepInv /\ [Next]_vars => StepInv'
    BY TypeStep, PathStep, TempsStep, RowsStep DEF StepInv
  <2>2. StepInv /\ Versions /\ Fresh /\ [Next]_vars => Versions' /\ Fresh'
    BY VersionsStep, FreshStep DEF StepInv
  <2> QED
    BY <2>1, <2>2
<1>3. IInv => FreshAfterSuccess
  <2> SUFFICES ASSUME IInv, Succeeded, Replaces, ~doubled, NEW k \in Keys, began[k] > 0
               PROVE  OneRow(k) /\ \A v \in VersionsOf(k) : began[k] <= v /\ v <= source[k]
    BY DEF FreshAfterSuccess, Replaces
  <2>1. Tidy(target.rows, source) /\ Covers(target.rows, began)
    BY DEF Fresh, Succeeded, Replaces
  <2> QED
    BY <2>1, OneFreshRow DEF StepInv
<1> QED
  BY <1>1, <1>2, <1>3, PTL DEF Spec

-----------------------------------------------------------------------------
(* A --range that is carried through.                                       *)

\* The models RangeLoaded speaks of.
Ranged == plan.range # NoRange /\ plan.before = "table"

\* The rows that have not changed since the first run, of versions from `first` up to
\* `end`, are loaded, each once.
LoadedFrom(first, end, rows, src, from) ==
  \A k \in Keys : src[k] > 0 /\ src[k] = from[k] /\ first <= src[k] /\ src[k] < end =>
    rows[<<k, src[k]>>] = 1

\* Staged rows are those of the chunk, none older than the first run; what has not
\* changed since then is among them, once.
StagedFrom(ch, staged, src, from) ==
  /\ \A k \in Keys, v \in Version : staged[<<k, v>>] > 0 =>
       InChunk(ch, v) /\ from[k] <= v /\ v <= src[k]
  /\ \A k \in Keys : src[k] > 0 /\ src[k] = from[k] /\ InChunk(ch, src[k]) =>
       staged[<<k, src[k]>>] = 1

\* Chunks that leave no gap, from `first` or later up to `end`.
Chained(s, first, end) ==
  /\ \A j \in 1..Len(s) :
       /\ s[j].inclusive /\ s[j].lower >= first
       /\ j < Len(s) => s[j + 1].lower = s[j].upper
  /\ s[Len(s)].upper = end

\* A chunk is merged, and nothing failed.
Merging == pc \in MergePath /\ (pc = "dropStage" => ~err)

\* The range a run has is the rest of the model's, and all before it is loaded.
RangeKept ==
  Ranged =>
    /\ target.kind = "table" /\ pc \in {"idle", "pre", "resolve", "post"} \cup MergePath
    /\ range.end = plan.range.end /\ range.step = plan.range.step
    /\ range.start >= plan.range.start
    /\ LoadedFrom(plan.range.start, range.start, target.rows, source, began)
    /\ Merging => Chained(chunks, range.start, plan.range.end)
    /\ pc \in {"stage", "delete", "insertTemp"} =>
         LoadedFrom(plan.range.start, chunks[c].lower, target.rows, source, began)
    /\ pc = "dropStage" /\ ~err =>
         LoadedFrom(plan.range.start, chunks[c].upper, target.rows, source, began)
    /\ pc \in {"post", "idle"} /\ ~err /\ run > 0 =>
         LoadedFrom(plan.range.start, plan.range.end, target.rows, source, began)
    /\ pc \in {"delete", "insertTemp"} => StagedFrom(chunks[c], temps[run].rows, source, began)
    /\ pc = "insertTemp" /\ ~err =>
         \A k \in Keys, v, w \in Version : temps[run].rows[<<k, v>>] > 0 => target.rows[<<k, w>>] = 0

\* A quotient of a number that is not below its divisor.
LEMMA QuotientPositive ==
  ASSUME NEW a \in Nat, NEW b \in Nat \ {0}, a >= b
  PROVE  a \div b \in Nat /\ a \div b >= 1
<1>1. a \div b \in Nat
  OBVIOUS
<1>2. ASSUME a \div b = 0 PROVE FALSE
  <2>1. a < b * ((a \div b) + 1)
    OBVIOUS
  <2>2. b * ((a \div b) + 1) = b
    BY <1>2
  <2> QED
    BY <2>1, <2>2
<1> QED
  BY <1>1, <1>2

\* A range is split into chunks that leave no gap, from its start to its end.
LEMMA SplitIsChained ==
  ASSUME NEW r \in Range, NEW s, s = SplitRange(r)
  PROVE  IF s = <<>> THEN r.end <= r.start
         ELSE Len(s) >= 1 /\ s[1].lower = r.start /\ Chained(s, r.start, r.end)
<1>1. r.start \in Nat /\ r.end \in Nat /\ r.step \in Nat
  BY DEF Range
<1>2. CASE r.step = 0
  <2>1. s = << [lower |-> r.start, inclusive |-> TRUE, upper |-> r.end] >>
    BY <1>2 DEF SplitRange
  <2>2. Len(s) = 1 /\ s # <<>> /\ s[1] = [lower |-> r.start, inclusive |-> TRUE, upper |-> r.end]
    BY <2>1
  <2> QED
    BY <1>1, <2>2 DEF Chained
<1>3. CASE r.step # 0
  <2> DEFINE n == IF r.end <= r.start THEN 0
                  ELSE (r.end - r.start + r.step - 1) \div r.step
  <2>1. n \in Nat /\ (n = 0 => r.end <= r.start)
    <3>1. CASE r.end <= r.start
      BY <3>1
    <3>2. CASE r.end > r.start
      <4>1. r.end - r.start + r.step - 1 \in Nat /\ r.end - r.start + r.step - 1 >= r.step
        BY <1>1, <3>2
      <4>2. n = (r.end - r.start + r.step - 1) \div r.step
        BY <1>1, <3>2
      <4> QED
        BY <1>1, <1>3, <4>1, <4>2, QuotientPositive
    <3> QED
      BY <1>1, <3>1, <3>2
  <2>2. s = [j \in 1..n |-> [lower |-> r.start + (j - 1) * r.step, inclusive |-> TRUE,
                            upper |-> IF j = n THEN r.end ELSE r.start + j * r.step]]
    BY <1>3 DEF SplitRange
  <2> HIDE DEF n
  <2>3. Len(s) = n /\ (s = <<>> <=> n = 0)
    <3>1. DOMAIN s = 1..n
      BY <2>2
    <3>2. PICK T : s \in [1..n -> T]
      <4>1. s \in [1..n -> {s[j] : j \in 1..n}]
        BY <2>2, <3>1
      <4> QED
        BY <4>1
    <3>3. s \in Seq(T) /\ Len(s) = n
      BY <2>1, <3>2
    <3>4. s = <<>> <=> Len(s) = 0
      BY <3>3
    <3> QED
      BY <3>3, <3>4
  <2>4. \A j \in 1..n : /\ s[j].lower = r.start + (j - 1) * r.step /\ s[j].inclusive
                        /\ s[j].upper = IF j = n THEN r.end ELSE r.start + j * r.step
    BY <2>2
  <2>5. ASSUME NEW j \in 1..n
        PROVE  s[j].lower >= r.start /\ (j < n => s[j + 1].lower = s[j].upper)
    <3>1. (j - 1) * r.step \in Nat
      BY <1>1, <2>1
    <3>2. j < n => j + 1 \in 1..n /\ (j + 1) - 1 = j /\ j # n
      BY <2>1
    <3> QED
      BY <1>1, <2>4, <3>1, <3>2
  <2>6. CASE n = 0
    BY <2>1, <2>3, <2>6
  <2>7. CASE n # 0
    <3>1. 1 \in 1..n /\ n \in 1..n
      BY <2>1, <2>7
    <3>2. s[1].lower = r.start /\ s[n].upper = r.end
      BY <1>1, <2>4, <3>1
    <3> QED
      BY <2>3, <2>4, <2>5, <2>7, <3>1, <3>2 DEF Chained
  <2> QED
    BY <2>6, <2>7
<1> QED
  BY <1>1, <1>2, <1>3

\* The rows of a chunk are staged; deleting their keys and inserting them leaves what is
\* loaded before the chunk, and loads the chunk.
LEMMA ChunkLoads ==
  ASSUME NEW rows \in Rows, NEW staged \in Rows, NEW ch \in Chunk, ch.inclusive, NEW first \in Nat,
         NEW src \in [Keys -> 0..MaxVer], NEW from \in [Keys -> 0..MaxVer],
         StagedFrom(ch, staged, src, from), LoadedFrom(first, ch.lower, rows, src, from)
  PROVE  /\ LoadedFrom(first, ch.lower, WithoutKeys(rows, staged), src, from)
         /\ LoadedFrom(first, ch.lower, Plus(rows, staged), src, from)
         /\ \A k \in Keys, v, w \in Version : staged[<<k, v>>] > 0 => WithoutKeys(rows, staged)[<<k, w>>] = 0
         /\ (\A k \in Keys, v, w \in Version : staged[<<k, v>>] > 0 => rows[<<k, w>>] = 0)
              => LoadedFrom(first, ch.upper, Plus(rows, staged), src, from)
<1>1. \A k \in Keys, v \in Version :
        /\ rows[<<k, v>>] \in Nat /\ staged[<<k, v>>] \in Nat
        /\ Plus(rows, staged)[<<k, v>>] = rows[<<k, v>>] + staged[<<k, v>>]
        /\ WithoutKeys(rows, staged)[<<k, v>>] =
             IF \E w \in Version : staged[<<k, w>>] > 0 THEN 0 ELSE rows[<<k, v>>]
  BY RowsAt
<1>2. \A k \in Keys : src[k] \in Nat /\ (src[k] > 0 => src[k] \in Version)
  BY BoundsAssumption DEF Version
<1>3. /\ ch.lower \in Nat /\ ch.upper \in Nat
      /\ \A v \in Nat : InChunk(ch, v) <=> ch.lower <= v /\ v < ch.upper
  BY DEF Chunk, InChunk
<1>4. \A v \in Version : v \in Nat
  BY BoundsAssumption DEF Version
\* What has not changed and lies before the chunk is not staged.
<1>5. ASSUME NEW k \in Keys, src[k] > 0, src[k] = from[k], src[k] < ch.lower
      PROVE  \A v \in Version : staged[<<k, v>>] = 0
  <2> SUFFICES ASSUME NEW v \in Version, staged[<<k, v>>] > 0 PROVE FALSE
    BY <1>1
  <2>1. InChunk(ch, v) /\ from[k] <= v /\ v <= src[k]
    BY DEF StagedFrom
  <2> QED
    BY <1>2, <1>3, <1>4, <1>5, <2>1
<1>6. LoadedFrom(first, ch.lower, WithoutKeys(rows, staged), src, from)
  <2> SUFFICES ASSUME NEW k \in Keys, src[k] > 0, src[k] = from[k], first <= src[k], src[k] < ch.lower
               PROVE  WithoutKeys(rows, staged)[<<k, src[k]>>] = 1
    BY DEF LoadedFrom
  <2>1. rows[<<k, src[k]>>] = 1 /\ src[k] \in Version
    BY <1>2 DEF LoadedFrom
  <2>2. \A w \in Version : staged[<<k, w>>] = 0
    BY <1>5
  <2>3. ~ \E w \in Version : staged[<<k, w>>] > 0
    <3> SUFFICES ASSUME NEW w \in Version, staged[<<k, w>>] > 0 PROVE FALSE
      OBVIOUS
    <3>1. staged[<<k, w>>] = 0
      BY <2>2
    <3> QED
      BY <3>1
  <2> QED
    BY <1>1, <2>1, <2>3
<1>7. LoadedFrom(first, ch.lower, Plus(rows, staged), src, from)
  BY <1>1, <1>2, <1>5 DEF LoadedFrom
<1>8. ASSUME \A k \in Keys, v, w \in Version : staged[<<k, v>>] > 0 => rows[<<k, w>>] = 0
      PROVE  LoadedFrom(first, ch.upper, Plus(rows, staged), src, from)
  <2> SUFFICES ASSUME NEW k \in Keys, src[k] > 0, src[k] = from[k], first <= src[k], src[k] < ch.upper
               PROVE  Plus(rows, staged)[<<k, src[k]>>] = 1
    BY DEF LoadedFrom
  <2>1. CASE src[k] < ch.lower
    BY <1>7, <2>1 DEF LoadedFrom
  <2>2. CASE ~(src[k] < ch.lower)
    <3>1. staged[<<k, src[k]>>] = 1
      BY <1>2, <1>3, <2>2 DEF StagedFrom
    <3>2. rows[<<k, src[k]>>] = 0
      BY <1>2, <1>8, <3>1
    <3> QED
      BY <1>1, <1>2, <3>1, <3>2
  <2> QED
    BY <2>1, <2>2
<1> QED
  BY <1>1, <1>6, <1>7, <1>8

\* A change of the query's result leaves what is loaded and staged.
LEMMA ChangeKeepsLoaded ==
  ASSUME TypeOK, Versions, NEW n \in Keys, clock < MaxVer,
         NEW src, src = [source EXCEPT ![n] = clock + 1]
  PROVE  /\ \A rows, first, end : LoadedFrom(first, end, rows, source, began) =>
                                  LoadedFrom(first, end, rows, src, began)
         /\ \A ch, staged : StagedFrom(ch, staged, source, began) => StagedFrom(ch, staged, src, began)
<1>1. \A k \in Keys : /\ source[k] \in Nat /\ began[k] \in Nat /\ clock \in Nat
                     /\ began[k] <= source[k] /\ source[k] <= clock
                     /\ src[k] = IF k = n THEN clock + 1 ELSE source[k]
  <2>1. source \in [Keys -> 0..MaxVer] /\ clock \in Nat
    BY BoundsAssumption DEF TypeOK
  <2>2. ASSUME NEW k \in Keys
        PROVE  source[k] \in Nat /\ began[k] \in Nat /\ began[k] <= source[k] /\ source[k] <= clock
    BY VersionFacts, BoundsAssumption
  <2> QED
    BY <2>1, <2>2
<1>2. src[n] # began[n] /\ \A k \in Keys : source[k] <= src[k]
  BY <1>1
<1>3. \A rows, first, end : LoadedFrom(first, end, rows, source, began) =>
                            LoadedFrom(first, end, rows, src, began)
  BY <1>1, <1>2 DEF LoadedFrom
<1>4. ASSUME NEW ch, NEW staged, StagedFrom(ch, staged, source, began)
      PROVE  StagedFrom(ch, staged, src, began)
  <2>1. \A k \in Keys, v \in Version : staged[<<k, v>>] > 0 =>
          InChunk(ch, v) /\ began[k] <= v /\ v <= src[k]
    <3>1. \A v \in Version : v \in Nat
      BY BoundsAssumption DEF Version
    <3> QED
      BY <1>1, <1>2, <1>4, <3>1 DEF StagedFrom
  <2>2. \A k \in Keys : src[k] > 0 /\ src[k] = began[k] /\ InChunk(ch, src[k]) =>
          staged[<<k, src[k]>>] = 1
    BY <1>1, <1>2, <1>4 DEF StagedFrom
  <2> QED
    BY <2>1, <2>2 DEF StagedFrom
<1> QED
  BY <1>3, <1>4

\* What a chunk stages.
LEMMA ResultIsStaged ==
  ASSUME TypeOK, Versions, NEW ch
  PROVE  StagedFrom(ch, ResultIn(ch), source, began)
<1>1. ASSUME NEW k \in Keys
      PROVE  source[k] \in Nat /\ began[k] <= source[k] /\ (source[k] > 0 => source[k] \in Version)
  BY VersionFacts, BoundsAssumption
<1>2. \A k \in Keys, v \in Version :
        ResultIn(ch)[<<k, v>>] = IF InChunk(ch, v) /\ source[k] = v THEN 1 ELSE 0
  BY ResultAt
<1>3. \A v \in Version : v \in Nat
  BY BoundsAssumption DEF Version
<1> QED
  BY <1>1, <1>2, <1>3 DEF StagedFrom

\* The plan of a ranged model, its range and the chunk that is merged.
LEMMA RangedFacts ==
  ASSUME TypeOK, OnPath, RangeKept, Ranged
  PROVE  /\ plan.mode = "incremental" /\ range # NoRange
         /\ plan.range.start \in Nat /\ plan.range.end \in Nat
         /\ range.start \in Nat /\ range.end \in Nat
         /\ target \in Relation /\ target.rows \in Rows
         /\ temps \in [1..MaxRuns -> Relation]
         /\ Merging =>
              /\ run \in 1..MaxRuns /\ temps[run].rows \in Rows
              /\ c \in 1..Len(chunks) /\ Len(chunks) \in Nat
              /\ chunks[c] \in Chunk /\ chunks[c].inclusive /\ chunks[c].lower >= range.start
<1>1. plan \in Plan /\ plan.mode = "incremental" /\ plan.range \in Range /\ range \in Range
  BY PlansAssumption DEF TypeOK, Plan, Ranged
<1>2. /\ plan.range.start \in Nat /\ plan.range.end \in Nat
      /\ range.start \in Nat /\ range.end \in Nat
  BY <1>1 DEF Range
<1>3. range # NoRange
  <2>1. ASSUME range = NoRange PROVE plan.range = NoRange
    <3>1. plan.range.end = 0 /\ plan.range.step = 0 /\ plan.range.start = 0
      BY <1>2, <2>1 DEF NoRange, RangeKept
    <3>2. plan.range = [start |-> plan.range.start, end |-> plan.range.end, step |-> plan.range.step]
      BY <1>1 DEF Range
    <3> QED
      BY <3>1, <3>2 DEF NoRange
  <2> QED
    BY <2>1 DEF Ranged
<1>4. target \in Relation /\ target.rows \in Rows /\ temps \in [1..MaxRuns -> Relation]
  BY DEF TypeOK, Relation
<1>5. ASSUME Merging
      PROVE  /\ run \in 1..MaxRuns /\ temps[run].rows \in Rows
             /\ c \in 1..Len(chunks) /\ Len(chunks) \in Nat
             /\ chunks[c] \in Chunk /\ chunks[c].inclusive /\ chunks[c].lower >= range.start
  <2>1. run \in 1..MaxRuns
    BY <1>5 DEF Merging, OnPath, MergePath
  <2>2. temps[run].rows \in Rows
    BY <1>4, <2>1 DEF Relation
  <2>3. c \in 1..Len(chunks) /\ Len(chunks) \in Nat
    BY <1>1, <1>5 DEF Merging, OnPath, TypeOK
  <2>4. chunks[c] \in Chunk
    BY <2>3 DEF TypeOK
  <2>5. chunks[c].inclusive /\ chunks[c].lower >= range.start
    BY <1>5, <2>3 DEF RangeKept, Chained
  <2> QED
    BY <2>1, <2>2, <2>3, <2>4, <2>5
<1> QED
  BY <1>1, <1>2, <1>3, <1>4, <1>5

\* A chunk that fails leaves the range of the hint, and all before it loaded.
LEMMA HintSkipsNothing ==
  ASSUME TypeOK, OnPath, RangeKept, Ranged, Merging, ChunkFails,
         LoadedFrom(plan.range.start, chunks[c].lower, target'.rows, source, began),
         target'.kind = "table"
  PROVE  RangeKept'
<1>1. range # NoRange /\ chunks[c].lower >= plan.range.start
  <2>1. c \in 1..Len(chunks) /\ chunks[c] \in Chunk /\ chunks[c].lower >= range.start
    BY RangedFacts
  <2>2. range.start >= plan.range.start
    BY DEF RangeKept
  <2>3. chunks[c].lower \in Nat
    BY <2>1 DEF Chunk
  <2> QED
    BY <2>1, <2>2, <2>3, RangedFacts
<1>2. range' = [start |-> chunks[c].lower, end |-> chunks[Len(chunks)].upper, step |-> range.step]
  BY <1>1 DEF ChunkFails, Resume, ResumeStart
<1>3. Chained(chunks, range.start, plan.range.end) /\ range.step = plan.range.step
  BY DEF RangeKept
<1>4. /\ range'.start = chunks[c].lower /\ range'.end = plan.range.end
      /\ range'.step = plan.range.step
  BY <1>2, <1>3 DEF Chained
<1>5. UNCHANGED <<plan, source, run, chunks, c, began>> /\ pc' = "dropStage" /\ err'
  BY DEF ChunkFails
<1>6. LoadedFrom(plan'.range.start, range'.start, target'.rows, source', began')
  BY <1>4, <1>5
<1>7. ~Merging'
  BY <1>5 DEF Merging
<1>8. range'.end = plan'.range.end /\ range'.step = plan'.range.step /\ range'.start >= plan'.range.start
  BY <1>1, <1>4, <1>5
<1> QED
  BY <1>5, <1>6, <1>7, <1>8 DEF RangeKept, Merging, MergePath

\* A change of the query's result, during a range.
LEMMA RangeChange ==
  ASSUME TypeOK, OnPath, Versions, RangeKept, Ranged, NEW n \in Keys, Change(n)
  PROVE  RangeKept'
<1>1. /\ clock < MaxVer /\ source' = [source EXCEPT ![n] = clock + 1]
      /\ UNCHANGED <<plan, target, temps, pc, err, run, range, chunks, c, began>>
  BY DEF Change, dbVars, runVars, histVars
<1>2. /\ \A rows, first, end : LoadedFrom(first, end, rows, source, began) =>
                               LoadedFrom(first, end, rows, source', began)
      /\ \A ch, staged : StagedFrom(ch, staged, source, began) => StagedFrom(ch, staged, source', began)
  BY <1>1, ChangeKeepsLoaded
<1> QED
  BY <1>1, <1>2 DEF RangeKept, Merging

\* A run of a range begins: with the hint's range, or from the start again.
LEMMA RangeBegin ==
  ASSUME TypeOK, OnPath, RangeKept, Ranged, Begin
  PROVE  RangeKept'
<1>1. /\ UNCHANGED <<plan, source, target>> /\ pc' = "pre"
      /\ range' = (IF err THEN range ELSE plan.range)
      /\ began' = IF range' = plan.range THEN source ELSE began
  BY DEF Begin, dbVars
<1>2. plan.range.start \in Nat /\ \A k \in Keys : source[k] \in Nat
  <2>1. \A k \in Keys : source[k] \in Nat
    BY BoundsAssumption DEF TypeOK
  <2> QED
    BY <2>1, RangedFacts
<1>3. CASE range' = plan.range
  <2>1. LoadedFrom(plan.range.start, plan.range.start, target.rows, source, source)
    BY <1>2 DEF LoadedFrom
  <2> QED
    BY <1>1, <1>2, <1>3, <2>1 DEF RangeKept, Merging, MergePath
<1>4. CASE range' # plan.range
  BY <1>1, <1>4 DEF RangeKept, Merging, MergePath
<1> QED
  BY <1>3, <1>4

\* The statements around the merge.
LEMMA RangeAround ==
  ASSUME TypeOK, OnPath, RangeKept, Ranged, WholeTable
  PROVE  RangeKept'
<1>1. /\ UNCHANGED <<plan, source, began, range, run, chunks>>
      /\ pc \in {"pre", "post"} /\ (Pre \/ SurroundingFails \/ Post)
  BY DEF RangeKept, WholeTable, Pre, SurroundingFails, DropOldView, Replace, DropTemp, CreateTemp, DropTarget,
     Rename, Create, ViewDropTable, ViewDropView, CreateView, Truncate, Insert, Post, Rest, runVars,
     MergePath
<1>2. plan.mode = "incremental" /\ target.kind = "table"
  BY RangedFacts DEF RangeKept
<1>3. CASE Pre
  <2>1. pc' = "resolve" /\ target' = target
    BY <1>2, <1>3 DEF Pre, Ignored, dbVars
  <2> QED
    BY <1>1, <2>1 DEF RangeKept, Merging, MergePath
<1>4. CASE SurroundingFails
  <2>1. pc' = "idle" /\ err' /\ target' = target
    BY <1>4 DEF SurroundingFails, Failed
  <2> QED
    BY <1>1, <2>1 DEF RangeKept, Merging, MergePath
<1>5. CASE Post
  <2>1. pc = "post" /\ pc' = "idle" /\ err' = err /\ target' = target /\ ~err /\ run > 0
    BY <1>5, BoundsAssumption DEF Post, Ignored, dbVars, OnPath
  <2>2. LoadedFrom(plan.range.start, plan.range.end, target.rows, source, began)
    BY <2>1 DEF RangeKept
  <2> QED
    BY <1>1, <2>1, <2>2 DEF RangeKept, Merging, MergePath
<1> QED
  BY <1>1, <1>3, <1>4, <1>5

\* The range is split.
LEMMA RangeResolve ==
  ASSUME TypeOK, OnPath, RangeKept, Ranged, Resolve
  PROVE  RangeKept'
<1>1. /\ UNCHANGED <<plan, source, target, err, run, range, c, began>>
      /\ pc = "resolve" /\ c = 1 /\ ~err
      /\ pc' = IF chunks' = <<>> THEN "post" ELSE "stage"
  BY DEF Resolve, OnPath, MergePath, dbVars
<1>2. chunks' = SplitRange(range) /\ range \in Range
  BY RangedFacts DEF Resolve, TypeOK
<1>3. /\ range.start \in Nat /\ range.end \in Nat /\ plan.range.start \in Nat
      /\ range.start >= plan.range.start /\ range.end = plan.range.end
      /\ LoadedFrom(plan.range.start, range.start, target.rows, source, began)
  BY RangedFacts DEF RangeKept
<1>4. CASE chunks' = <<>>
  <2>1. range.end <= range.start
    BY <1>2, <1>4, SplitIsChained
  <2>2. \A k \in Keys : source[k] \in Nat
    BY BoundsAssumption DEF TypeOK
  <2>3. LoadedFrom(plan.range.start, plan.range.end, target.rows, source, began)
    BY <1>3, <2>1, <2>2 DEF LoadedFrom
  <2> QED
    BY <1>1, <1>4, <2>3 DEF RangeKept, Merging, MergePath
<1>5. CASE chunks' # <<>>
  <2>1. Len(chunks') >= 1 /\ chunks'[1].lower = range.start /\ Chained(chunks', range.start, range.end)
    BY <1>2, <1>5, SplitIsChained
  <2>2. chunks' \in Seq(Chunk)
    BY <1>2, RangeTypes
  <2>3. Chained(chunks', range.start, plan.range.end)
    BY <1>3, <2>1
  <2> QED
    BY <1>1, <1>3, <1>5, <2>1, <2>3 DEF RangeKept, Merging, MergePath
<1> QED
  BY <1>4, <1>5

\* The statements that stage and insert the rows of a chunk.
LEMMA RangeMerge ==
  ASSUME TypeOK, OnPath, Versions, RangeKept, Ranged, Stage \/ Delete \/ InsertTemp
  PROVE  RangeKept'
<1> DEFINE ch == chunks[c]
           staged == temps[run].rows
           first == plan.range.start
<1>1. /\ pc \in {"stage", "delete", "insertTemp"} /\ Merging
      /\ UNCHANGED <<plan, source, run, chunks, c, began>>
  BY DEF Stage, Delete, InsertTemp, ChunkFails, Rest, runVars, Merging, MergePath
<1>2. /\ plan.mode = "incremental" /\ target \in Relation /\ target.rows \in Rows
      /\ temps \in [1..MaxRuns -> Relation] /\ run \in 1..MaxRuns /\ staged \in Rows
      /\ ch \in Chunk /\ ch.inclusive /\ first \in Nat
      /\ range.start \in Nat /\ range.start <= ch.lower
  <2>1. /\ plan.mode = "incremental" /\ target \in Relation /\ target.rows \in Rows
        /\ temps \in [1..MaxRuns -> Relation] /\ run \in 1..MaxRuns /\ staged \in Rows
        /\ ch \in Chunk /\ ch.inclusive /\ first \in Nat
        /\ range.start \in Nat /\ ch.lower >= range.start
    BY <1>1, RangedFacts
  <2>2. ch.lower \in Nat
    BY <2>1 DEF Chunk
  <2> QED
    BY <2>1, <2>2
<1>3. /\ target.kind = "table" /\ LoadedFrom(first, ch.lower, target.rows, source, began)
      /\ Chained(chunks, range.start, plan.range.end)
  BY <1>1 DEF RangeKept
<1>4. source \in [Keys -> 0..MaxVer] /\ began \in [Keys -> 0..MaxVer]
  BY DEF TypeOK
\* What is loaded before the chunk is loaded before its range.
<1>8. ASSUME NEW rows, LoadedFrom(first, ch.lower, rows, source, began)
      PROVE  LoadedFrom(first, range.start, rows, source, began)
  <2>1. ch.lower \in Nat /\ \A k \in Keys : source[k] \in Nat
    BY <1>2, <1>4, BoundsAssumption DEF Chunk
  <2> QED
    BY <1>2, <1>8, <2>1 DEF LoadedFrom
<1>5. ASSUME ChunkFails, target' = target PROVE RangeKept'
  BY <1>1, <1>3, <1>5, HintSkipsNothing
<1>6. CASE Stage
  <2>1. CASE Answered(target, TableOf(ResultIn(ch)), "delete") /\ Rest
    <3>1. /\ target' = target /\ pc' = "delete" /\ range' = range /\ err' = err
          /\ temps' = [temps EXCEPT ![run] = TableOf(ResultIn(ch))]
      BY <2>1 DEF Answered, Rest, runVars
    <3>2. temps'[run].rows = ResultIn(ch)
      BY <1>2, <3>1 DEF TableOf
    <3>3. StagedFrom(ch, ResultIn(ch), source, began)
      BY ResultIsStaged
    <3>4. StagedFrom(chunks'[c'], temps'[run'].rows, source', began')
      BY <1>1, <3>2, <3>3
    <3> QED
      BY <1>1, <1>3, <3>1, <3>4 DEF RangeKept, Merging, MergePath
  <2>2. CASE ChunkFails /\ UNCHANGED <<dbVars, histVars>>
    BY <1>5, <2>2 DEF dbVars
  <2> QED
    BY <1>2, <1>6, <2>1, <2>2 DEF Stage
<1>7. CASE Delete
  <2>1. pc' = "insertTemp" /\ UNCHANGED <<temps, range>> /\ pc = "delete"
    BY <1>7 DEF Delete, runVars
  <2>2. StagedFrom(ch, staged, source, began)
    BY <2>1 DEF RangeKept
  <2>3. CASE target' = target /\ err' = TRUE
    BY <1>1, <1>3, <2>1, <2>2, <2>3 DEF RangeKept, Merging, MergePath
  <2>4. CASE target' = [target EXCEPT !.rows = WithoutKeys(@, temps[run].rows)] /\ err' = err
    <3>1. target'.kind = "table" /\ target'.rows = WithoutKeys(target.rows, staged)
      BY <1>2, <1>3, <2>4 DEF Relation
    <3>2. /\ LoadedFrom(first, ch.lower, WithoutKeys(target.rows, staged), source, began)
          /\ \A k \in Keys, v, w \in Version : staged[<<k, v>>] > 0 => WithoutKeys(target.rows, staged)[<<k, w>>] = 0
      BY <1>2, <1>3, <1>4, <2>2, ChunkLoads
    <3>3. LoadedFrom(first, range.start, target'.rows, source, began)
      BY <1>8, <3>1, <3>2
    <3> QED
      BY <1>1, <1>3, <2>1, <2>2, <3>1, <3>2, <3>3 DEF RangeKept, Merging, MergePath
  <2> QED
    BY <1>7, <2>3, <2>4 DEF Delete
<1>9. CASE InsertTemp
  <2>1. /\ pc = "insertTemp" /\ StagedFrom(ch, staged, source, began)
        /\ ~err => \A k \in Keys, v, w \in Version : staged[<<k, v>>] > 0 => target.rows[<<k, w>>] = 0
    BY <1>9 DEF InsertTemp, RangeKept
  <2>2. /\ LoadedFrom(first, ch.lower, Plus(target.rows, staged), source, began)
        /\ ~err => LoadedFrom(first, ch.upper, Plus(target.rows, staged), source, began)
    BY <1>2, <1>3, <1>4, <2>1, ChunkLoads
  <2>3. CASE ChunkFails /\ UNCHANGED <<dbVars, histVars>>
    BY <1>5, <2>3 DEF dbVars
  <2>4. CASE /\ target' = [target EXCEPT !.rows = Plus(@, temps[run].rows)]
             /\ IF err THEN ChunkFails
                ELSE pc' = "dropStage" /\ UNCHANGED <<plan, source, clock, err, runVars>>
    <3>1. target'.kind = "table" /\ target'.rows = Plus(target.rows, staged)
      BY <1>2, <1>3, <2>4 DEF Relation
    <3>2. CASE err
      BY <1>1, <2>2, <2>4, <3>1, <3>2, HintSkipsNothing
    <3>3. CASE ~err
      <4>1. pc' = "dropStage" /\ err' = err /\ range' = range
        BY <2>4, <3>3 DEF runVars
      <4>2. LoadedFrom(first, range.start, target'.rows, source, began)
        BY <1>8, <2>2, <3>1
      <4> QED
        BY <1>1, <1>3, <2>2, <3>1, <3>3, <4>1, <4>2 DEF RangeKept, Merging, MergePath
    <3> QED
      BY <3>2, <3>3
  <2> QED
    BY <1>9, <2>3, <2>4 DEF InsertTemp
<1> QED
  BY <1>6, <1>7, <1>9

\* The temporary table of a chunk is dropped, and the next chunk follows, if any.
LEMMA RangeNextChunk ==
  ASSUME TypeOK, OnPath, RangeKept, Ranged, DropStage
  PROVE  RangeKept'
<1>1. /\ pc = "dropStage" /\ pc \in MergePath
      /\ UNCHANGED <<plan, source, target, err, run, range, chunks, began>>
  BY DEF DropStage, MergePath
<1>2. CASE err
  <2>1. pc' = "idle"
    BY <1>2 DEF DropStage
  <2> QED
    BY <1>1, <1>2, <2>1 DEF RangeKept, Merging, MergePath
<1>3. CASE ~err
  <2>1. Merging
    BY <1>1, <1>3 DEF Merging
  <2>2. /\ c \in 1..Len(chunks) /\ Len(chunks) \in Nat
        /\ Chained(chunks, range.start, plan.range.end)
        /\ LoadedFrom(plan.range.start, chunks[c].upper, target.rows, source, began)
    BY <1>1, <1>3, <2>1, RangedFacts DEF RangeKept
  <2>3. CASE c < Len(chunks)
    <3>1. pc' = "stage" /\ c' = c + 1
      BY <1>3, <2>3 DEF DropStage
    <3>2. chunks[c + 1].lower = chunks[c].upper
      BY <2>2, <2>3 DEF Chained
    <3> QED
      BY <1>1, <1>3, <2>2, <3>1, <3>2 DEF RangeKept, Merging, MergePath
  <2>4. CASE ~(c < Len(chunks))
    <3>1. pc' = "post" /\ c' = c
      BY <1>3, <2>4 DEF DropStage
    <3>2. chunks[c].upper = plan.range.end
      <4>1. c = Len(chunks)
        BY <2>2, <2>4
      <4> QED
        BY <2>2, <4>1 DEF Chained
    <3> QED
      BY <1>1, <1>3, <2>2, <3>1, <3>2 DEF RangeKept, Merging, MergePath
  <2> QED
    BY <2>3, <2>4
<1> QED
  BY <1>2, <1>3

\* Every step keeps what is loaded of a range.
LEMMA RangeStep ==
  ASSUME TypeOK, OnPath, Versions, RangeKept, [Next]_vars
  PROVE  RangeKept'
<1> SUFFICES ASSUME Ranged PROVE RangeKept'
  <2>1. plan' = plan
    BY PlanFixed
  <2> QED
    BY <2>1 DEF RangeKept, Ranged
<1>1. ASSUME NEW n \in Keys, Change(n) PROVE RangeKept'
  BY <1>1, RangeChange
<1>2. CASE Begin
  BY <1>2, RangeBegin
<1>3. CASE WholeTable
  BY <1>3, RangeAround
<1>4. CASE Resolve
  BY <1>4, RangeResolve
<1>5. CASE Stage \/ Delete \/ InsertTemp
  BY <1>5, RangeMerge
<1>6. CASE DropStage
  BY <1>6, RangeNextChunk
<1>7. CASE Crash
  <2>1. pc' = "idle" /\ err' /\ UNCHANGED <<plan, source, target, run, range, began>>
    BY <1>7 DEF Crash, dbVars, runVars
  <2> QED
    BY <2>1 DEF RangeKept, Merging, MergePath
<1>8. CASE UNCHANGED vars
  <2>1. UNCHANGED <<plan, source, target, temps, pc, err, run, range, chunks, c, began>>
    BY <1>8 DEF vars, dbVars, runVars
  <2> QED
    BY <2>1 DEF RangeKept, Merging
<1> QED
  BY <1>1, <1>2, <1>3, <1>4, <1>5, <1>6, <1>7, <1>8 DEF Next, WholeTable, Over

\* And nothing is to be loaded at the start.
LEMMA RangeInit == Init => RangeKept
<1> SUFFICES ASSUME Init, Ranged PROVE RangeKept
  BY DEF RangeKept
<1>1. /\ plan.before = "table" /\ target = TableOf(NoRows) /\ pc = "idle" /\ run = 0
      /\ range = plan.range /\ \A k \in Keys : source[k] = 0
  BY DEF Init, Ranged
<1>2. plan.range.start \in Nat
  BY PlansAssumption DEF Init, Plan, Range
<1>3. LoadedFrom(plan.range.start, range.start, target.rows, source, began)
  BY <1>1 DEF LoadedFrom
<1> QED
  BY <1>1, <1>2, <1>3 DEF RangeKept, Merging, MergePath, TableOf

\* A --range that was carried through has loaded every row of the range that has not
\* changed meanwhile, once, however often a chunk failed or the process died and the
\* range was resumed with the hint: splitCLIRange, handleChunkError, formatResumeCommand.
THEOREM RangeCorrect == Spec => []RangeLoaded
<1> DEFINE IInv == StepInv /\ Versions /\ RangeKept
<1>1. Init => IInv
  BY StepInit, FreshInit, RangeInit
<1>2. IInv /\ [Next]_vars => IInv'
  <2>1. StepInv /\ [Next]_vars => StepInv'
    BY TypeStep, PathStep, TempsStep, RowsStep DEF StepInv
  <2>2. StepInv /\ Versions /\ RangeKept /\ [Next]_vars => Versions' /\ RangeKept'
    BY VersionsStep, RangeStep DEF StepInv
  <2> QED
    BY <2>1, <2>2
<1>3. IInv => RangeLoaded
  <2> SUFFICES ASSUME IInv, Succeeded, Ranged PROVE
        \A k \in Keys :
          /\ source[k] > 0 /\ source[k] >= plan.range.start /\ source[k] < plan.range.end
          /\ began[k] = source[k]
          => target.rows[<<k, source[k]>>] = 1
    BY DEF RangeLoaded, Ranged
  <2>1. LoadedFrom(plan.range.start, plan.range.end, target.rows, source, began)
    BY DEF RangeKept, Succeeded
  <2>2. plan.range.start \in Nat /\ \A k \in Keys : source[k] \in Nat
    <3>1. plan.range.start \in Nat
      BY RangedFacts DEF StepInv
    <3> QED
      BY <3>1, BoundsAssumption DEF StepInv, TypeOK
  <2> QED
    BY <2>1, <2>2 DEF LoadedFrom
<1> QED
  BY <1>1, <1>2, <1>3, PTL DEF Spec

=============================================================================
