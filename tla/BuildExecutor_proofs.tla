------------------------ MODULE BuildExecutor_proofs ------------------------
(***************************************************************************)
(* Proofs about the build scheduler for every graph, every selection and   *)
(* every number of threads.                                                *)
(***************************************************************************)
EXTENDS BuildExecutor, FiniteSetTheorems, SequenceTheorems, TLAPS

(***************************************************************************)
(* Facts about the operators.                                              *)
(***************************************************************************)

\* A build names nodes, and lists no selected node twice.
LEMMA BuildFacts ==
  ASSUME build \in Builds
  PROVE  /\ build.selected \in Seq(Node)
         /\ Total \in Nat
         /\ build.deps \in [Node -> SUBSET Node]
         /\ build.seeds \subseteq Node
         /\ build.report \in BOOLEAN /\ build.failFast \in BOOLEAN
         /\ build.noSeeds \in BOOLEAN /\ build.test \in BOOLEAN
         /\ Selected \subseteq Node
         /\ \A n \in Selected : Position(n) \in 1 .. Total
         /\ \A i, j \in 1 .. Total : build.selected[i] = build.selected[j] => i = j
  <1>1. /\ build \in Build
        /\ \A i, j \in 1 .. Len(build.selected) :
             build.selected[i] = build.selected[j] => i = j
    BY BuildsAssumption
  <1>2. build.selected \in Seq(Node) /\ Total \in Nat
    BY <1>1 DEF Build, Total
  <1>3. Selected \subseteq Node
    BY <1>2 DEF Selected
  <1>4. \A n \in Selected : Position(n) \in 1 .. Total
    BY DEF Selected, Position, Total
  <1> QED
    BY <1>1, <1>2, <1>3, <1>4 DEF Build, Total

\* InOrder(S) holds sequences that list exactly S, without repetition.
LEMMA InOrderFacts ==
  ASSUME build \in Builds, NEW S \in SUBSET Selected, NEW q \in InOrder(S)
  PROVE  /\ q \in Seq(S) /\ q \in Seq(Node)
         /\ Len(q) \in Nat
         /\ \A i \in 1 .. Len(q) : q[i] \in S
         /\ \A n \in S : \E i \in 1 .. Len(q) : q[i] = n
         /\ \A i, j \in 1 .. Len(q) : q[i] = q[j] => i = j
  <1>1. IsFiniteSet(S) /\ Cardinality(S) \in Nat
    BY BuildFacts, NodeAssumption, FS_Subset, FS_CardinalityType
  <1>2. q \in [1 .. Cardinality(S) -> S]
    BY DEF InOrder
  <1>3. q \in Seq(S) /\ Len(q) = Cardinality(S)
    BY <1>1, <1>2, LenProperties, IsASeq
  <1>4. q \in Seq(Node)
    BY <1>3, BuildFacts
  <1>5. \A i, j \in 1 .. Cardinality(S) : i < j => q[i] # q[j]
    <2> SUFFICES ASSUME NEW i \in 1 .. Cardinality(S), NEW j \in 1 .. Cardinality(S),
                        i < j, q[i] = q[j]
                 PROVE  FALSE
      OBVIOUS
    <2>1. Position(q[i]) < Position(q[j])
      BY DEF InOrder
    <2>2. q[i] \in Selected
      BY <1>2
    <2>3. Position(q[i]) \in Nat
      BY <2>2, BuildFacts
    <2> QED
      BY <2>1, <2>3
  <1> QED
    BY <1>1, <1>2, <1>3, <1>4, <1>5 DEF InOrder

\* A set of dependencies is finite, and its cardinality a natural number.
LEMMA DepsFinite ==
  ASSUME build \in Builds, NEW n \in Node, NEW T
  PROVE  /\ IsFiniteSet(SelectedDeps(n) \ T)
         /\ Cardinality(SelectedDeps(n) \ T) \in Nat
         /\ Cardinality(SelectedDeps(n) \ T) = 0 <=> SelectedDeps(n) \subseteq T
  <1>1. SelectedDeps(n) \subseteq Node
    BY BuildFacts DEF SelectedDeps
  <1>2. IsFiniteSet(SelectedDeps(n) \ T)
    BY <1>1, NodeAssumption, FS_Subset
  <1> QED
    BY <1>2, FS_CardinalityType, FS_EmptySet

\* The worker goroutines that are spawned are workers, and there is one if
\* there is a node to run.
LEMMA WorkerFacts ==
  /\ IsFiniteSet(Worker)
  /\ IsFiniteSet(Running) /\ Cardinality(Running) \in Nat
  /\ build \in Builds => /\ NWorkers \in Nat
                         /\ 1 .. NWorkers \subseteq Worker
                         /\ Total > 0 => 1 \in 1 .. NWorkers
  <1>1. IsFiniteSet(Worker)
    <2>1. 1 \in Int /\ MaxThreads \in Int
      BY ThreadsAssumption
    <2> QED
      BY <2>1, FS_Interval DEF Worker
  <1>2. IsFiniteSet(Running) /\ Cardinality(Running) \in Nat
    <2>1. Running \in SUBSET Worker
      BY DEF Running
    <2> QED
      BY <1>1, <2>1, FS_Subset, FS_CardinalityType
  <1>3. ASSUME build \in Builds
        PROVE  /\ NWorkers \in Nat
               /\ 1 .. NWorkers \subseteq Worker
               /\ Total > 0 => 1 \in 1 .. NWorkers
    <2>1. build.threads \in 0 .. MaxThreads /\ Total \in Nat
      BY <1>3, BuildFacts, BuildsAssumption DEF Build
    <2> QED
      BY <2>1, ThreadsAssumption DEF NWorkers, Worker
  <1> QED
    BY <1>1, <1>2, <1>3

(***************************************************************************)
(* Init establishes the inductive invariant.                               *)
(***************************************************************************)

\* The state Execute starts from.
LEMMA InitInv == Init => IndInv
  <1> SUFFICES ASSUME Init PROVE IndInv
    OBVIOUS
  <1> USE DEF Init
  <1>1. Finished = {}
    BY DEF Finished
  <1>2. TypeOK
    <2>1. ready \in Seq(Node) /\ Results \in Seq([name : Node, out : Outcome])
      OBVIOUS
    <2> QED
      BY <2>1 DEF TypeOK, Outcome, Status, RunningPc
  <1>3. PoolPhase
    BY DEF PoolPhase
  <1>4. Ownership
    BY DEF Ownership, RunningPc
  <1>5. Counters
    BY DEF Counters
  <1>6. PoolEnd
    BY DEF PoolEnd
  <1>7. ResultsOnce
    BY <1>1 DEF ResultsOnce
  <1>8. Decisions
    BY DEF Decisions
  <1>9. Heartbeats
    BY DEF Heartbeats, Outcome
  <1>10. ResultsAbove
    BY DEF ResultsAbove
  <1> QED
    BY <1>2, <1>3, <1>4, <1>5, <1>6, <1>7, <1>8, <1>9, <1>10 DEF IndInv

(***************************************************************************)
(* Each action preserves it.                                               *)
(***************************************************************************)

\* The build never changes, so neither does what is read from it.
LEMMA SameBuild ==
  ASSUME build' = build
  PROVE  /\ Selected' = Selected /\ Total' = Total /\ NWorkers' = NWorkers
         /\ \A n : SelectedDeps(n)' = SelectedDeps(n)
         /\ \A n : SeedSkipped(n)' = SeedSkipped(n)
  BY DEF Selected, Total, NWorkers, SelectedDeps, SeedSkipped

\* The parts of the invariant that only read the queue and the results.
LEMMA SameResults ==
  ASSUME build' = build, Results' = Results, failedSet' = failedSet,
         main' = "wait" => main = "wait" \/ Results = <<>>
  PROVE  /\ Finished' = Finished
         /\ ResultsOnce => ResultsOnce'
         /\ ResultsAbove => ResultsAbove'
  <1>1. Finished' = Finished
    BY DEF Finished
  <1>2. ResultsOnce => ResultsOnce'
    BY <1>1, SameBuild DEF ResultsOnce, BadResult
  <1>3. ResultsAbove => ResultsAbove'
    BY <1>1, SameBuild DEF ResultsAbove
  <1> QED
    BY <1>1, <1>2, <1>3

\* A step of a worker is taken while the main goroutine waits for the pool.
LEMMA WorkerWaits ==
  ASSUME IndInv, NEW w \in Worker, pc[w] # "exit"
  PROVE  main = "wait"
  BY DEF IndInv, PoolPhase

\* A worker that waits or leaves changes nothing else.
LEMMA WaitStep ==
  ASSUME IndInv, NEW w \in Worker, Wait(w)
  PROVE  IndInv'
  <1> USE DEF Wait, queueVars, resultVars, storeVars
  <1>1. TypeOK'
    BY DEF IndInv, TypeOK
  <1>2. main = "wait"
    BY WorkerWaits
  <1>3. /\ \A v \in Worker : pc'[v] = IF v = w THEN "waiting" ELSE pc[v]
        /\ Finished' = Finished /\ pc[w] = "loop"
    BY SameResults DEF IndInv, TypeOK
  <1>4. PoolPhase'
    BY <1>2, <1>3 DEF IndInv, PoolPhase
  <1>5. Ownership'
    BY <1>3 DEF IndInv, Ownership, Holds, RunningPc
  <1>6. Running' = Running
    BY <1>3 DEF Running, RunningPc
  <1>7. Counters'
    BY <1>3, <1>6, SameBuild DEF IndInv, Counters, TypeOK
  <1>8. PoolEnd'
    BY <1>3, SameBuild DEF IndInv, PoolEnd
  <1>9. ResultsOnce' /\ ResultsAbove'
    BY SameResults DEF IndInv
  <1>10. Decisions'
    BY <1>3, SameBuild DEF IndInv, Decisions, IsDownstreamOfFailed
  <1>11. Heartbeats'
    BY <1>3 DEF IndInv, Heartbeats, Holds
  <1> QED
    BY <1>1, <1>4, <1>5, <1>7, <1>8, <1>9, <1>10, <1>11 DEF IndInv

\* A worker leaves the pool.
LEMMA ExitStep ==
  ASSUME IndInv, NEW w \in Worker, Exit(w)
  PROVE  IndInv'
  <1> USE DEF Exit, queueVars, resultVars, storeVars
  <1>1. TypeOK'
    BY DEF IndInv, TypeOK
  <1>2. main = "wait"
    BY WorkerWaits
  <1>3. /\ \A v \in Worker : pc'[v] = IF v = w THEN "exit" ELSE pc[v]
        /\ Finished' = Finished /\ pc[w] = "loop"
    BY SameResults DEF IndInv, TypeOK
  <1>4. PoolPhase'
    BY <1>2, <1>3 DEF IndInv, PoolPhase
  <1>5. Ownership'
    BY <1>3 DEF IndInv, Ownership, Holds, RunningPc
  <1>6. Running' = Running
    BY <1>3 DEF Running, RunningPc
  <1>7. Counters'
    BY <1>3, <1>6, SameBuild DEF IndInv, Counters, TypeOK
  <1>8. PoolEnd'
    BY <1>2, <1>3, SameBuild DEF IndInv, PoolEnd
  <1>9. ResultsOnce' /\ ResultsAbove'
    BY SameResults DEF IndInv
  <1>10. Decisions'
    BY <1>3, SameBuild DEF IndInv, Decisions, IsDownstreamOfFailed
  <1>11. Heartbeats'
    BY <1>3 DEF IndInv, Heartbeats, Holds
  <1> QED
    BY <1>1, <1>4, <1>5, <1>7, <1>8, <1>9, <1>10, <1>11 DEF IndInv

\* A worker takes the head of the queue.
LEMMA DispatchStep ==
  ASSUME IndInv, NEW w \in Worker, Dispatch(w)
  PROVE  IndInv'
  <1> DEFINE n == Head(ready)
  <1> USE DEF Dispatch, MayDispatch, resultVars, storeVars
  <1>1. main = "wait" /\ build \in Builds
    BY WorkerWaits DEF IndInv, TypeOK
  <1>2. /\ ready \in Seq(Node) /\ ready # <<>>
        /\ n = ready[1] /\ 1 \in 1 .. Len(ready)
        /\ Tail(ready) \in Seq(Node)
        /\ Len(Tail(ready)) = Len(ready) - 1
        /\ \A i \in 1 .. Len(Tail(ready)) : Tail(ready)[i] = ready[i + 1]
    BY HeadTailProperties DEF IndInv, TypeOK
  <1>3. n \in Selected /\ n \in Node /\ remaining[n] = 0
    BY <1>1, <1>2, BuildFacts DEF IndInv, Counters
  <1>4. /\ Finished' = Finished /\ pc[w] = "loop" /\ build' = build /\ main' = main
        /\ \A i \in 1 .. Len(ready') : \E j \in 1 .. Len(ready) : ready'[i] = ready[j]
    BY <1>2, SameResults
  <1>5. CASE n \in started
    <2>1. /\ started' = started /\ inFlight' = inFlight /\ pc' = pc /\ current' = current
          /\ Running' = Running
      BY <1>5 DEF Running
    <2>2. TypeOK'
      BY <2>1, <1>2 DEF IndInv, TypeOK
    <2>3. PoolPhase' /\ Ownership'
      BY <2>1, <1>4 DEF IndInv, PoolPhase, Ownership, Holds
    <2>4. Counters'
      BY <2>1, <1>4, <1>1, SameBuild DEF IndInv, Counters
    <2>5. PoolEnd'
      BY <2>1, <1>4, SameBuild DEF IndInv, PoolEnd
    <2>6. ResultsOnce' /\ ResultsAbove'
      BY SameResults DEF IndInv
    <2>7. Decisions'
      BY <2>1, SameBuild DEF IndInv, Decisions, IsDownstreamOfFailed
    <2>8. Heartbeats'
      BY <2>1, <1>4 DEF IndInv, Heartbeats, Holds
    <2> QED
      BY <2>2, <2>3, <2>4, <2>5, <2>6, <2>7, <2>8 DEF IndInv
  <1>6. CASE n \notin started
    <2>1. /\ started' = started \cup {n} /\ inFlight' = inFlight + 1
          /\ \A v \in Worker : pc'[v] = IF v = w THEN "check" ELSE pc[v]
          /\ \A v \in Worker : current'[v] = IF v = w THEN n ELSE current[v]
      BY <1>6 DEF IndInv, TypeOK
    <2>2. TypeOK'
      <3>1. pc' \in [Worker -> RunningPc \cup {"loop", "waiting", "exit"}]
        BY <1>6 DEF IndInv, TypeOK, RunningPc
      <3>2. current' \in [Worker -> Node \cup {NoNode}]
        BY <1>3, <1>6 DEF IndInv, TypeOK
      <3> QED
        BY <1>2, <1>3, <1>6, <2>1, <3>1, <3>2 DEF IndInv, TypeOK
    <2>3. PoolPhase'
      BY <2>1, <1>1, <1>4 DEF IndInv, PoolPhase
    <2>4. n \notin Finished /\ \A v \in Worker : pc[v] \in RunningPc => current[v] # n
      BY <1>1, <1>6 DEF IndInv, Counters, Ownership
    <2>5. Ownership'
      BY <2>1, <2>4, <1>4 DEF IndInv, Ownership, Holds, RunningPc
    <2>6. Cardinality(started') = Cardinality(started) + 1
      BY <1>6, <2>1, NodeAssumption, FS_Subset, FS_AddElement DEF IndInv, TypeOK
    <2>7. Cardinality(Running') = Cardinality(Running) + 1
      <3>1. Running' = Running \cup {w} /\ w \notin Running
        BY <2>1, <1>4 DEF Running, RunningPc
      <3> QED
        BY <3>1, WorkerFacts, FS_AddElement
    <2>8. Counters'
      <3>1. started' \subseteq Selected' /\ Finished' \subseteq started'
        BY <2>1, <1>1, <1>3, <1>4, SameBuild DEF IndInv, Counters
      <3>2. /\ \A m \in Selected' : remaining'[m] = Cardinality(SelectedDeps(m)' \ Finished')
            /\ \A m \in started' : remaining'[m] = 0
        BY <2>1, <1>1, <1>3, <1>4, SameBuild DEF IndInv, Counters
      <3>3. \A i \in 1 .. Len(ready') : ready'[i] \in Selected' /\ remaining'[ready'[i]] = 0
        BY <1>1, <1>4, SameBuild DEF IndInv, Counters
      <3>4. /\ inFlight' = Cardinality(Running')
            /\ completed' + inFlight' = Cardinality(started')
        BY <2>1, <2>6, <2>7, <1>1 DEF IndInv, Counters, TypeOK
      <3> QED
        BY <3>1, <3>2, <3>3, <3>4 DEF Counters
    <2>9. PoolEnd'
      <3>1. \A v \in 1 .. NWorkers : pc'[v] = "exit" => pc[v] = "exit"
        BY <2>1, <1>1, WorkerFacts
      <3>2. completed' + inFlight' >= completed + inFlight
        BY <2>1 DEF IndInv, TypeOK
      <3>3. completed + inFlight >= Total => completed' + inFlight' >= Total
        BY <3>2, <2>1, <1>1, BuildFacts DEF IndInv, TypeOK
      <3> QED
        BY <3>1, <3>3, <1>1, <1>4, SameBuild DEF IndInv, PoolEnd
    <2>10. ResultsOnce' /\ ResultsAbove'
      BY SameResults DEF IndInv
    <2>11. Decisions'
      BY <2>1, SameBuild DEF IndInv, Decisions, IsDownstreamOfFailed
    <2>12. Heartbeats'
      BY <2>1, <1>4 DEF IndInv, Heartbeats, Holds
    <2> QED
      BY <2>2, <2>3, <2>5, <2>8, <2>9, <2>10, <2>11, <2>12 DEF IndInv
  <1> QED
    BY <1>5, <1>6

\* A held node is a selected one.
LEMMA HeldNode ==
  ASSUME IndInv, NEW w \in Worker, pc[w] \in RunningPc
  PROVE  /\ current[w] \in Selected /\ current[w] \in Node
         /\ SelectedDeps(current[w]) \subseteq Finished
  <1>1. main = "wait" /\ build \in Builds
    BY WorkerWaits DEF RunningPc, IndInv, TypeOK
  <1>2. current[w] \in Selected /\ current[w] \in Node
    BY <1>1, BuildFacts DEF IndInv, Ownership, Counters
  <1>3. Cardinality(SelectedDeps(current[w]) \ Finished) = 0
    BY <1>1, <1>2 DEF IndInv, Ownership, Counters
  <1> QED
    BY <1>1, <1>2, <1>3, DepsFinite

\* runNode decides to skip the node or to execute it.
LEMMA CheckStep ==
  ASSUME IndInv, NEW w \in Worker, Check(w)
  PROVE  IndInv'
  <1> DEFINE n == current[w]
             skipped == IsDownstreamOfFailed(n) \/ SeedSkipped(n)
  <1> USE DEF Check, queueVars, resultVars
  <1>1. /\ main = "wait" /\ build \in Builds /\ n \in Selected /\ n \in Node
        /\ n \in started /\ n \notin Finished
    BY WorkerWaits, HeldNode DEF IndInv, TypeOK, Ownership, RunningPc
  <1>2. /\ \A v \in Worker : pc'[v] = IF v = w THEN IF skipped THEN "record" ELSE "exec"
                                      ELSE pc[v]
        /\ \A v \in Worker : out'[v] = IF v = w THEN IF skipped THEN "skip" ELSE "ok"
                                       ELSE out[v]
        /\ \A v \in Worker : hb'[v] = IF v = w THEN IF skipped THEN "off" ELSE "idle"
                                      ELSE hb[v]
        /\ \A m \in Node : reported'[m] = IF m = n THEN IF skipped THEN "skip" ELSE "running"
                                          ELSE reported[m]
        /\ pc[w] = "check" /\ current' = current /\ build' = build /\ main' = main
        /\ Finished' = Finished /\ failedSet' = failedSet
    BY SameResults DEF IndInv, TypeOK
  <1>3. TypeOK'
    BY DEF IndInv, TypeOK, RunningPc, Outcome, Status
  <1>4. PoolPhase'
    BY <1>1, <1>2 DEF IndInv, PoolPhase
  <1>5. Ownership'
    BY <1>2 DEF IndInv, Ownership, Holds, RunningPc
  <1>6. Running' = Running
    BY <1>2 DEF Running, RunningPc
  <1>7. Counters'
    BY <1>2, <1>6, SameBuild DEF IndInv, Counters
  <1>8. PoolEnd'
    BY <1>2, SameBuild DEF IndInv, PoolEnd
  <1>9. ResultsOnce' /\ ResultsAbove'
    BY SameResults DEF IndInv
  <1>10. Decisions'
    <2>1. ~skipped => SelectedDeps(n) \cap failedSet = {}
      BY DEF IsDownstreamOfFailed, SelectedDeps
    <2>2. \A m : IsDownstreamOfFailed(m)' = IsDownstreamOfFailed(m)
      BY DEF IsDownstreamOfFailed
    <2> QED
      BY <1>2, <2>1, <2>2, SameBuild DEF IndInv, Decisions
  <1>11. Heartbeats'
    <2>1. \A v \in Worker : hb'[v] # "off" => pc'[v] \in {"exec", "stopHB"}
      BY <1>2 DEF IndInv, Heartbeats
    <2>2. ASSUME NEW m \in Node, reported'[m] \in Outcome
          PROVE  m \in Finished' \/ \E v \in Worker : Holds(v, m)' /\ pc'[v] = "record"
      <3>1. CASE m = n
        BY <1>2, <2>2, <3>1 DEF Holds, Outcome, RunningPc
      <3>2. CASE m # n
        <4>1. m \in Finished \/ \E v \in Worker : Holds(v, m) /\ pc[v] = "record"
          BY <1>2, <2>2, <3>2 DEF IndInv, Heartbeats
        <4> QED
          BY <1>2, <4>1 DEF Holds, RunningPc
      <3> QED
        BY <3>1, <3>2
    <2> QED
      BY <2>1, <2>2 DEF Heartbeats
  <1> QED
    BY <1>3, <1>4, <1>5, <1>7, <1>8, <1>9, <1>10, <1>11 DEF IndInv

\* The execution of a node ends, well or not.
LEMMA RunStep ==
  ASSUME IndInv, NEW w \in Worker, NEW o \in {"ok", "err"}, Run(w, o)
  PROVE  IndInv'
  <1> USE DEF Run, queueVars, resultVars, storeVars
  <1>1. main = "wait"
    BY WorkerWaits
  <1>2. /\ \A v \in Worker : pc'[v] = IF v = w THEN "stopHB" ELSE pc[v]
        /\ \A v \in Worker : out'[v] = IF v = w THEN o ELSE out[v]
        /\ pc[w] = "exec" /\ current' = current /\ build' = build /\ main' = main
        /\ Finished' = Finished /\ failedSet' = failedSet
    BY SameResults DEF IndInv, TypeOK
  <1>3. TypeOK'
    BY DEF IndInv, TypeOK, RunningPc, Outcome
  <1>4. PoolPhase'
    BY <1>1, <1>2 DEF IndInv, PoolPhase
  <1>5. Ownership'
    BY <1>2 DEF IndInv, Ownership, Holds, RunningPc
  <1>6. Running' = Running
    BY <1>2 DEF Running, RunningPc
  <1>7. Counters'
    BY <1>2, <1>6, SameBuild DEF IndInv, Counters
  <1>8. PoolEnd'
    BY <1>2, SameBuild DEF IndInv, PoolEnd
  <1>9. ResultsOnce' /\ ResultsAbove'
    BY SameResults DEF IndInv
  <1>10. Decisions'
    <2>1. \A m : IsDownstreamOfFailed(m)' = IsDownstreamOfFailed(m)
      BY DEF IsDownstreamOfFailed
    <2> QED
      BY <1>2, <2>1, SameBuild DEF IndInv, Decisions
  <1>11. Heartbeats'
    BY <1>2 DEF IndInv, Heartbeats, Holds, RunningPc
  <1> QED
    BY <1>3, <1>4, <1>5, <1>7, <1>8, <1>9, <1>10, <1>11 DEF IndInv

\* The node's heartbeat is joined and its final status sent.
LEMMA StopHeartbeatStep ==
  ASSUME IndInv, NEW w \in Worker, StopHeartbeat(w)
  PROVE  IndInv'
  <1> DEFINE n == current[w]
  <1> USE DEF StopHeartbeat, HeartbeatJoined, queueVars, resultVars
  <1>1. main = "wait" /\ n \in Node
    BY WorkerWaits, HeldNode DEF RunningPc
  <1>2. /\ \A v \in Worker : pc'[v] = IF v = w THEN "record" ELSE pc[v]
        /\ \A v \in Worker : hb'[v] = IF v = w THEN "off" ELSE hb[v]
        /\ \A m \in Node : reported'[m] = IF m = n THEN out[w] ELSE reported[m]
        /\ pc[w] = "stopHB" /\ current' = current /\ build' = build /\ main' = main
        /\ Finished' = Finished /\ failedSet' = failedSet /\ out' = out
    BY SameResults DEF IndInv, TypeOK
  <1>3. TypeOK'
    <2>1. out[w] \in Status
      BY DEF IndInv, TypeOK, Outcome, Status
    <2> QED
      BY <2>1 DEF IndInv, TypeOK, RunningPc
  <1>4. PoolPhase'
    BY <1>1, <1>2 DEF IndInv, PoolPhase
  <1>5. Ownership'
    BY <1>2 DEF IndInv, Ownership, Holds, RunningPc
  <1>6. Running' = Running
    BY <1>2 DEF Running, RunningPc
  <1>7. Counters'
    BY <1>2, <1>6, SameBuild DEF IndInv, Counters
  <1>8. PoolEnd'
    BY <1>2, SameBuild DEF IndInv, PoolEnd
  <1>9. ResultsOnce' /\ ResultsAbove'
    BY SameResults DEF IndInv
  <1>10. Decisions'
    <2>1. \A m : IsDownstreamOfFailed(m)' = IsDownstreamOfFailed(m)
      BY DEF IsDownstreamOfFailed
    <2> QED
      BY <1>2, <2>1, SameBuild DEF IndInv, Decisions
  <1>11. Heartbeats'
    <2>1. \A v \in Worker : hb'[v] # "off" => pc'[v] \in {"exec", "stopHB"}
      BY <1>2 DEF IndInv, Heartbeats
    <2>2. ASSUME NEW m \in Node, reported'[m] \in Outcome
          PROVE  m \in Finished' \/ \E v \in Worker : Holds(v, m)' /\ pc'[v] = "record"
      <3>1. CASE m = n
        BY <1>2, <3>1 DEF Holds, RunningPc
      <3>2. CASE m # n
        <4>1. m \in Finished \/ \E v \in Worker : Holds(v, m) /\ pc[v] = "record"
          BY <1>2, <2>2, <3>2 DEF IndInv, Heartbeats
        <4> QED
          BY <1>2, <4>1 DEF Holds, RunningPc
      <3> QED
        BY <3>1, <3>2
    <2> QED
      BY <2>1, <2>2 DEF Heartbeats
  <1> QED
    BY <1>3, <1>4, <1>5, <1>7, <1>8, <1>9, <1>10, <1>11 DEF IndInv

\* A heartbeat goroutine takes its snapshot, or sends it.
LEMMA HeartbeatStep ==
  ASSUME IndInv, NEW w \in Worker, Tick(w) \/ Post(w)
  PROVE  IndInv'
  <1> DEFINE n == current[w]
  <1> USE DEF Tick, Post, queueVars, resultVars, storeVars
  <1>1. pc[w] \in {"exec", "stopHB"}
    BY DEF IndInv, Heartbeats
  <1>2. main = "wait" /\ n \in Node /\ n \notin Finished
    BY <1>1, WorkerWaits, HeldNode DEF RunningPc, IndInv, Ownership
  <1>3. /\ \A v \in Worker : hb'[v] # "off" <=> hb[v] # "off"
        /\ \A m \in Node : reported'[m] = reported[m] \/ (m = n /\ reported'[m] = "running")
        /\ pc' = pc /\ current' = current /\ build' = build /\ main' = main
        /\ Finished' = Finished /\ failedSet' = failedSet /\ out' = out
        /\ Running' = Running
    BY <1>2, SameResults DEF IndInv, TypeOK, Running
  <1>4. TypeOK'
    <2>1. hb' \in [Worker -> {"off", "idle", "posting"}]
      BY DEF IndInv, TypeOK
    <2>2. reported' \in [Node -> Status]
      BY <1>2 DEF IndInv, TypeOK, Status
    <2> QED
      BY <2>1, <2>2 DEF IndInv, TypeOK
  <1>5. PoolPhase' /\ Ownership'
    BY <1>3 DEF IndInv, PoolPhase, Ownership, Holds
  <1>6. Counters' /\ PoolEnd'
    BY <1>3, SameBuild DEF IndInv, Counters, PoolEnd
  <1>7. ResultsOnce' /\ ResultsAbove'
    BY SameResults DEF IndInv
  <1>8. Decisions'
    BY <1>3, SameBuild DEF IndInv, Decisions, IsDownstreamOfFailed
  <1>9. Heartbeats'
    BY <1>3 DEF IndInv, Heartbeats, Holds, Outcome
  <1> QED
    BY <1>4, <1>5, <1>6, <1>7, <1>8, <1>9 DEF IndInv

\* The same for the heartbeat of the build.
LEMMA BuildHeartbeatStep ==
  ASSUME IndInv, BuildTick \/ BuildPost
  PROVE  IndInv'
  <1> USE DEF BuildTick, BuildPost, queueVars, resultVars, workerVars
  <1>1. /\ pc' = pc /\ current' = current /\ build' = build /\ main' = main
        /\ Finished' = Finished /\ failedSet' = failedSet /\ out' = out
        /\ Running' = Running
    BY SameResults DEF Running
  <1>2. TypeOK'
    BY DEF IndInv, TypeOK, Status
  <1>3. PoolPhase' /\ Ownership'
    BY <1>1 DEF IndInv, TypeOK, PoolPhase, Ownership, Holds
  <1>4. Counters' /\ PoolEnd'
    BY <1>1, SameBuild DEF IndInv, Counters, PoolEnd
  <1>5. ResultsOnce' /\ ResultsAbove'
    BY SameResults DEF IndInv
  <1>6. Decisions'
    BY <1>1, SameBuild DEF IndInv, Decisions, IsDownstreamOfFailed
  <1>7. Heartbeats'
    BY <1>1 DEF IndInv, Heartbeats, Holds
  <1> QED
    BY <1>2, <1>3, <1>4, <1>5, <1>6, <1>7 DEF IndInv

\* What Record does to the results and the counters.
LEMMA RecordFacts ==
  ASSUME IndInv, NEW w \in Worker, Record(w)
  PROVE  /\ main = "wait" /\ build \in Builds
         /\ current[w] \in Selected /\ current[w] \in Node
         /\ current[w] \in started /\ current[w] \notin Finished
         /\ Results' \in Seq([name : Node, out : Outcome])
         /\ Len(Results') = Len(Results) + 1 /\ Len(Results) \in Nat
         /\ \A i \in 1 .. Len(Results) : Results'[i] = Results[i]
         /\ Results'[Len(Results) + 1] = [name |-> current[w], out |-> out[w]]
         /\ Finished' = Finished \cup {current[w]}
         /\ \A m \in Selected : remaining'[m] = Cardinality(SelectedDeps(m) \ Finished')
         /\ \A m \in Selected : remaining[m] = 0 => remaining'[m] = 0
         /\ remaining' \in [Node -> Nat]
  <1> DEFINE n == current[w]
             r == [name |-> n, out |-> out[w]]
  <1> USE DEF Record
  <1>1. main = "wait" /\ build \in Builds
    BY WorkerWaits DEF IndInv, TypeOK
  <1>2. n \in Selected /\ n \in Node /\ n \in started /\ n \notin Finished
    BY HeldNode DEF IndInv, Ownership, RunningPc
  <1>3. r \in [name : Node, out : Outcome] /\ Results \in Seq([name : Node, out : Outcome])
    BY <1>2 DEF IndInv, TypeOK
  <1>4. Results' = Append(Results, r)
    OBVIOUS
  <1>5. /\ Results' \in Seq([name : Node, out : Outcome])
        /\ Len(Results') = Len(Results) + 1 /\ Len(Results) \in Nat
        /\ \A i \in 1 .. Len(Results) : Results'[i] = Results[i]
        /\ Results'[Len(Results) + 1] = r
    BY <1>3, <1>4, AppendProperties, LenProperties
  <1>6. Finished' = Finished \cup {n}
    <2>1. 1 .. Len(Results') = 1 .. Len(Results) \cup {Len(Results) + 1}
      BY <1>5
    <2> QED
      BY <1>5, <2>1 DEF Finished
  <1>7. ASSUME NEW m \in Selected
        PROVE  /\ remaining'[m] = Cardinality(SelectedDeps(m) \ Finished')
               /\ remaining'[m] \in Nat
               /\ remaining[m] = 0 => remaining'[m] = 0
    <2> DEFINE D == SelectedDeps(m) \ Finished
    <2>1. m \in Node /\ remaining[m] = Cardinality(D)
      BY <1>1, BuildFacts DEF IndInv, Counters
    <2>2. IsFiniteSet(D) /\ Cardinality(D) \in Nat
      BY <1>1, <2>1, DepsFinite
    <2>3. SelectedDeps(m) \ Finished' = D \ {n}
      BY <1>6
    <2>4. n \in D <=> n \in build.deps[m]
      BY <1>2 DEF SelectedDeps
    <2>5. Cardinality(D \ {n}) = IF n \in D THEN Cardinality(D) - 1 ELSE Cardinality(D)
      BY <2>2, FS_RemoveElement
    <2>6. Cardinality(D \ {n}) \in Nat
      BY <1>1, <2>1, <2>3, DepsFinite
    <2>7. remaining'[m] = IF n \in build.deps[m] THEN remaining[m] - 1 ELSE remaining[m]
      BY <2>1
    <2>8. remaining'[m] = Cardinality(D \ {n})
      BY <2>1, <2>4, <2>5, <2>7
    <2>9. remaining[m] = 0 => D = {}
      BY <2>1, <2>2, FS_EmptySet
    <2> QED
      BY <2>1, <2>3, <2>4, <2>6, <2>7, <2>8, <2>9
  <1>8. remaining' \in [Node -> Nat]
    BY <1>7 DEF IndInv, TypeOK
  <1> QED
    BY <1>1, <1>2, <1>5, <1>6, <1>7, <1>8

\* A worker records the result of its node and releases the dependents.
LEMMA RecordStep ==
  ASSUME IndInv, NEW w \in Worker, Record(w)
  PROVE  IndInv'
  <1> DEFINE n == current[w]
  <1>0. /\ Results' \in Seq([name : Node, out : Outcome])
        /\ Len(Results') = Len(Results) + 1 /\ Len(Results) \in Nat
        /\ \A i \in 1 .. Len(Results) : Results'[i] = Results[i]
        /\ Results'[Len(Results) + 1].name = n /\ Results'[Len(Results) + 1].out = out[w]
        /\ \A m \in Selected : remaining'[m] = Cardinality(SelectedDeps(m) \ Finished')
        /\ \A m \in Selected : remaining[m] = 0 => remaining'[m] = 0
        /\ remaining' \in [Node -> Nat]
    <2>1. Results'[Len(Results) + 1] = [name |-> n, out |-> out[w]]
      BY RecordFacts
    <2>2. Results'[Len(Results) + 1].name = n /\ Results'[Len(Results) + 1].out = out[w]
      BY <2>1
    <2> QED
      BY <2>2, RecordFacts
  <1>1. /\ main = "wait" /\ build \in Builds /\ build' = build /\ main' = main
        /\ n \in Selected /\ n \in Node /\ n \in started /\ n \notin Finished
        /\ Finished' = Finished \cup {n} /\ started' = started /\ current' = current
        /\ out' = out /\ hb' = hb /\ reported' = reported /\ buildHb' = buildHb
        /\ buildReported' = buildReported /\ ret' = ret /\ pc[w] = "record"
        /\ inFlight' = inFlight - 1 /\ completed' = completed + 1
    BY RecordFacts DEF Record, storeVars
  <1>2. \A v \in Worker : pc'[v] = IF v = w \/ pc[v] = "waiting" THEN "loop" ELSE pc[v]
    BY DEF Record, Broadcast
  <1>3. failedSet' = IF CountsAsFailed(w) THEN failedSet \cup {n} ELSE failedSet
    BY DEF Record
  <1>4. stopped' = (stopped \/ FailFastStops(out[w]))
    BY DEF Record
  <1>5. PICK batch \in InOrder({m \in Selected \ started :
                                  n \in build.deps[m] /\ remaining'[m] = 0}) :
          ready' = ready \o batch
    BY DEF Record
  <1>6. /\ batch \in Seq(Node) /\ ready \in Seq(Node)
        /\ \A i \in 1 .. Len(batch) : batch[i] \in Selected /\ remaining'[batch[i]] = 0
    <2> DEFINE S == {m \in Selected \ started : n \in build.deps[m] /\ remaining'[m] = 0}
    <2>1. S \in SUBSET Selected /\ batch \in InOrder(S)
      BY <1>5
    <2> HIDE DEF S
    <2>2. batch \in Seq(Node) /\ \A i \in 1 .. Len(batch) : batch[i] \in S
      BY <1>1, <2>1, InOrderFacts
    <2> QED
      BY <2>2 DEF IndInv, TypeOK, S
  <1>7. /\ ready' \in Seq(Node) /\ Len(ready') = Len(ready) + Len(batch)
        /\ \A i \in 1 .. Len(ready') :
             ready'[i] = IF i <= Len(ready) THEN ready[i] ELSE batch[i - Len(ready)]
    BY <1>5, <1>6, ConcatProperties
  <1>8. Running' = Running \ {w} /\ w \in Running
    BY <1>1, <1>2 DEF Running, RunningPc
  <1>9. Cardinality(Running') = Cardinality(Running) - 1 /\ inFlight - 1 \in Nat
        /\ inFlight = Cardinality(Running)
    <2>1. Cardinality(Running') = Cardinality(Running) - 1
      BY <1>8, WorkerFacts, FS_RemoveElement
    <2>2. Running # {}
      BY <1>8
    <2>3. Cardinality(Running) \in Nat /\ Cardinality(Running) # 0
      BY <2>2, WorkerFacts, FS_EmptySet
    <2>4. inFlight = Cardinality(Running)
      BY <1>1 DEF IndInv, Counters
    <2> QED
      BY <2>1, <2>3, <2>4
  <1>10. TypeOK'
    <2>1. pc' \in [Worker -> RunningPc \cup {"loop", "waiting", "exit"}]
      <3>1. pc' = [v \in Worker |-> pc'[v]]
        BY DEF Record, Broadcast
      <3> QED
        BY <1>2, <3>1 DEF IndInv, TypeOK
    <2>2. remaining' \in [Node -> Nat] /\ Results' \in Seq([name : Node, out : Outcome])
      BY <1>0
    <2>3. inFlight' \in Nat /\ completed' \in Nat
      BY <1>1, <1>9 DEF IndInv, TypeOK
    <2>4. failedSet' \subseteq Node /\ stopped' \in BOOLEAN
      BY <1>1, <1>3, <1>4 DEF IndInv, TypeOK, FailFastStops
    <2> QED
      BY <1>1, <1>7, <2>1, <2>2, <2>3, <2>4 DEF IndInv, TypeOK
  <1>11. PoolPhase'
    BY <1>1 DEF IndInv, PoolPhase
  <1>12. Ownership'
    <2>1. \A v \in Worker : pc'[v] \in RunningPc <=> v # w /\ pc[v] \in RunningPc
      BY <1>2 DEF RunningPc
    <2>2. \A v \in Worker : v # w /\ pc[v] \in RunningPc => current[v] # n
      BY <1>1 DEF IndInv, Ownership, RunningPc
    <2>3. \A m \in started : m \in Finished \/ \E v \in Worker : Holds(v, m)
      BY <1>1 DEF IndInv, Ownership
    <2>4. \A m \in started' : m \in Finished' \/ \E v \in Worker : Holds(v, m)'
      BY <1>1, <2>1, <2>3 DEF Holds
    <2> QED
      BY <1>1, <2>1, <2>2, <2>4 DEF IndInv, Ownership
  <1>13. Counters'
    <2>1. started' \subseteq Selected' /\ Finished' \subseteq started'
      BY <1>1, SameBuild DEF IndInv, Counters
    <2>2. /\ \A m \in Selected' : remaining'[m] = Cardinality(SelectedDeps(m)' \ Finished')
          /\ \A m \in started' : remaining'[m] = 0
      BY <1>1, <1>0, SameBuild DEF IndInv, Counters
    <2>3. \A i \in 1 .. Len(ready') : ready'[i] \in Selected' /\ remaining'[ready'[i]] = 0
      <3> SUFFICES ASSUME NEW i \in 1 .. Len(ready')
                   PROVE  ready'[i] \in Selected /\ remaining'[ready'[i]] = 0
        BY <1>1, SameBuild
      <3>0. Len(ready) \in Nat /\ Len(batch) \in Nat
        BY <1>6, LenProperties
      <3>1. CASE i <= Len(ready)
        <4>1. i \in 1 .. Len(ready) /\ ready'[i] = ready[i]
          BY <1>7, <3>0, <3>1
        <4> QED
          BY <1>1, <4>1, <1>0 DEF IndInv, Counters
      <3>2. CASE ~(i <= Len(ready))
        <4>1. i - Len(ready) \in 1 .. Len(batch) /\ ready'[i] = batch[i - Len(ready)]
          BY <1>7, <3>0, <3>2
        <4> QED
          BY <1>6, <4>1
      <3> QED
        BY <3>1, <3>2
    <2>4. /\ inFlight' = Cardinality(Running')
          /\ completed' + inFlight' = Cardinality(started')
      BY <1>1, <1>9 DEF IndInv, Counters, TypeOK
    <2> QED
      BY <2>1, <2>2, <2>3, <2>4 DEF Counters
  <1>14. PoolEnd'
    <2>1. stopped' => build.failFast /\ \E i \in 1 .. Len(Results') : Results'[i].out = "err"
      <3>1. CASE stopped
        <4>1. build.failFast /\ \E i \in 1 .. Len(Results) : Results[i].out = "err"
          BY <3>1 DEF IndInv, PoolEnd
        <4> QED
          BY <4>1, <1>0
      <3>2. CASE FailFastStops(out[w])
        <4>1. Len(Results) + 1 \in 1 .. Len(Results')
          BY <1>0
        <4> QED
          BY <3>2, <4>1, <1>0 DEF FailFastStops
      <3> QED
        BY <1>4, <3>1, <3>2
    <2>2. \A v \in 1 .. NWorkers : pc'[v] = "exit" => pc[v] = "exit"
      BY <1>1, <1>2, WorkerFacts
    <2>3. completed' + inFlight' = completed + inFlight
      BY <1>1 DEF IndInv, TypeOK
    <2>4. stopped => stopped'
      BY <1>4
    <2> QED
      BY <1>1, <2>1, <2>2, <2>3, <2>4, SameBuild DEF IndInv, PoolEnd
  <1>15. ResultsOnce'
    <2>1. Finished' \subseteq Selected' /\ failedSet' \subseteq Finished'
      BY <1>1, <1>3, SameBuild DEF IndInv, ResultsOnce
    <2>2. \A i \in 1 .. Len(Results) : Results[i].name \in Finished /\ Results[i].name # n
      BY <1>1 DEF Finished
    <2>3. \A i \in 1 .. Len(Results') : i \in 1 .. Len(Results) \/ i = Len(Results) + 1
      BY <1>0
    <2>4. ASSUME NEW i \in 1 .. Len(Results'), NEW j \in 1 .. Len(Results'),
                 Results'[i].name = Results'[j].name
          PROVE  i = j
      BY <2>2, <2>3, <2>4, <1>0 DEF IndInv, ResultsOnce
    <2>5. ASSUME NEW i \in 1 .. Len(Results')
          PROVE  Results'[i].name \in failedSet' <=> BadResult(Results[i])'
      <3>1. CASE i \in 1 .. Len(Results)
        <4>1. Results'[i] = Results[i] /\ Results[i].name # n
          BY <2>2, <3>1, <1>0
        <4>2. Results[i].name \in failedSet <=> BadResult(Results[i])
          BY <1>1, <3>1 DEF IndInv, ResultsOnce
        <4> QED
          BY <1>1, <1>3, <4>1, <4>2 DEF BadResult
      <3>2. CASE i = Len(Results) + 1
        <4>1. Results'[i].name = n /\ Results'[i].out = out[w]
          BY <3>2, <1>0
        <4>2. n \notin failedSet
          BY <1>1 DEF IndInv, ResultsOnce
        <4>3. n \in failedSet' <=> CountsAsFailed(w)
          BY <1>3, <4>2
        <4> QED
          BY <1>1, <4>1, <4>3 DEF BadResult, CountsAsFailed
      <3> QED
        BY <2>3, <3>1, <3>2
    <2> QED
      BY <2>1, <2>4, <2>5 DEF ResultsOnce
  <1>16. \A m \in Finished : m \in failedSet' <=> m \in failedSet
    BY <1>1, <1>3
  <1>17. Decisions'
    <2> SUFFICES ASSUME NEW v \in Worker, v # w, pc'[v] = pc[v], pc[v] \in RunningPc
                 PROVE  /\ pc[v] \in {"exec", "stopHB"} \/ (pc[v] = "record" /\ out[v] # "skip")
                             => SelectedDeps(current[v]) \cap failedSet' = {}
                        /\ pc[v] = "record" /\ out[v] = "skip" =>
                             IsDownstreamOfFailed(current[v])' \/ SeedSkipped(current[v])
                        /\ pc[v] = "stopHB" => out[v] # "skip"
      BY <1>1, <1>2, SameBuild DEF Decisions, RunningPc
    <2>1. SelectedDeps(current[v]) \subseteq Finished
      BY HeldNode
    <2>2. IsDownstreamOfFailed(current[v]) => IsDownstreamOfFailed(current[v])'
      BY <1>1, <1>3 DEF IsDownstreamOfFailed
    <2> QED
      BY <1>16, <2>1, <2>2 DEF IndInv, Decisions
  <1>18. Heartbeats'
    <2>1. \A v \in Worker : hb'[v] # "off" => pc'[v] \in {"exec", "stopHB"}
      BY <1>1, <1>2 DEF IndInv, Heartbeats
    <2>2. ASSUME NEW m \in Node, reported'[m] \in Outcome, m # n
          PROVE  m \in Finished' \/ \E v \in Worker : Holds(v, m)' /\ pc'[v] = "record"
      <3>1. m \in Finished \/ \E v \in Worker : Holds(v, m) /\ pc[v] = "record"
        BY <1>1, <2>2 DEF IndInv, Heartbeats
      <3> QED
        BY <1>1, <1>2, <2>2, <3>1 DEF Holds
    <2> QED
      BY <1>1, <2>1, <2>2 DEF Heartbeats
  <1>19. ResultsAbove'
    <2> SUFFICES ASSUME NEW i \in 1 .. Len(Results'), Results'[i].out # "skip"
                 PROVE  SelectedDeps(Results'[i].name) \subseteq Finished' \ failedSet'
      BY <1>1, SameBuild DEF ResultsAbove
    <2>1. CASE i \in 1 .. Len(Results)
      <3>1. SelectedDeps(Results[i].name) \subseteq Finished \ failedSet
        BY <2>1, <1>0 DEF IndInv, ResultsAbove
      <3> QED
        BY <1>1, <1>16, <2>1, <3>1, <1>0
    <2>2. CASE i = Len(Results) + 1
      <3>1. Results'[i].name = n /\ out[w] # "skip"
        BY <2>2, <1>0
      <3>2. SelectedDeps(n) \subseteq Finished /\ SelectedDeps(n) \cap failedSet = {}
        BY <1>1, <3>1, HeldNode DEF IndInv, Decisions, RunningPc
      <3> QED
        BY <1>1, <1>16, <3>1, <3>2
    <2> QED
      BY <2>1, <2>2, <1>0
  <1> QED
    BY <1>10, <1>11, <1>12, <1>13, <1>14, <1>15, <1>17, <1>18, <1>19 DEF IndInv

\* Connecting to the target.
LEMMA ConnectStep ==
  ASSUME IndInv, NEW ok \in BOOLEAN, Connect(ok)
  PROVE  IndInv'
  <1> USE DEF Connect, Return, queueVars, resultVars, workerVars
  <1>1. /\ pc' = pc /\ current' = current /\ build' = build /\ main = "connect"
        /\ Finished' = Finished /\ failedSet' = failedSet /\ out' = out
        /\ Running' = Running /\ main' \in {"schemas", "done"}
    BY SameResults DEF Running
  <1>2. TypeOK'
    BY DEF IndInv, TypeOK, Status, Outcome
  <1>3. PoolPhase' /\ Ownership'
    BY <1>1 DEF IndInv, TypeOK, PoolPhase, Ownership, Holds
  <1>4. Counters' /\ PoolEnd'
    BY <1>1, SameBuild DEF IndInv, Counters, PoolEnd, PoolPhase
  <1>5. ResultsOnce' /\ ResultsAbove'
    BY SameResults DEF IndInv
  <1>6. Decisions'
    BY <1>1, SameBuild DEF IndInv, Decisions, IsDownstreamOfFailed
  <1>7. Heartbeats'
    BY <1>1 DEF IndInv, Heartbeats, Holds
  <1> QED
    BY <1>2, <1>3, <1>4, <1>5, <1>6, <1>7 DEF IndInv

\* Creating the schemas, and setting up the queue and the pool.
LEMMA LaunchStep ==
  ASSUME IndInv, NEW ok \in BOOLEAN, Launch(ok)
  PROVE  IndInv'
  <1>1. /\ main = "schemas" /\ build \in Builds /\ build' = build
        /\ current' = current /\ out' = out /\ hb' = hb /\ reported' = reported
        /\ started' = started /\ inFlight' = inFlight /\ completed' = completed
        /\ Results' = Results /\ failedSet' = failedSet /\ stopped' = stopped
        /\ Finished' = Finished
    BY DEF Launch, IndInv, TypeOK, resultVars, Finished
  <1>2. /\ Results = <<>> /\ started = {} /\ stopped = FALSE /\ completed = 0 /\ inFlight = 0
        /\ \A w \in Worker : pc[w] = "exit"
        /\ ret = "none" /\ buildHb = "off" /\ buildReported \notin {"ok", "err"}
    BY <1>1 DEF IndInv, TypeOK, PoolPhase
  <1>3. Finished = {}
    BY <1>2 DEF Finished
  <1>4. ResultsOnce' /\ ResultsAbove'
    BY <1>1, <1>2, SameResults DEF IndInv
  <1>5. CASE ~ok \/ Total = 0
    <2> USE DEF Launch, Return
    <2>1. /\ main' = "done" /\ ret' \in {"ok", "err"} /\ ready' = ready
          /\ remaining' = remaining /\ pc' = pc /\ buildHb' = buildHb
          /\ buildReported' \in {ret', buildReported}
      BY <1>5
    <2>2. TypeOK'
      BY <1>1, <2>1 DEF IndInv, TypeOK, Status, Outcome
    <2>3. PoolPhase' /\ Ownership'
      BY <1>1, <1>2, <2>1 DEF IndInv, PoolPhase, Ownership, Holds
    <2>4. Counters' /\ PoolEnd'
      BY <1>1, <1>2, <2>1, SameBuild DEF IndInv, Counters, PoolEnd
    <2>5. Decisions'
      BY <1>1, <1>2, <2>1 DEF Decisions
    <2>6. Heartbeats'
      BY <1>1, <2>1 DEF IndInv, Heartbeats, Holds
    <2> QED
      BY <1>4, <2>2, <2>3, <2>4, <2>5, <2>6 DEF IndInv
  <1>6. CASE ok /\ Total # 0
    <2> DEFINE S == {n \in Selected : remaining'[n] = 0}
    <2>1. /\ main' = "wait" /\ ret' = ret
          /\ buildReported' \in {"running", buildReported} /\ buildHb' \in {"idle", "off"}
          /\ ~build.report => buildHb' = "off"
          /\ remaining' = [n \in Node |-> IF n \in Selected THEN DepCount(n) ELSE 0]
          /\ ready' \in InOrder(S)
          /\ \A w \in Worker : pc'[w] \in {"loop", "exit"}
          /\ \A w \in Worker : w <= NWorkers => pc'[w] = "loop"
          /\ pc' = [w \in Worker |-> IF w <= NWorkers THEN "loop" ELSE "exit"]
      BY <1>6 DEF Launch
    <2>2. /\ Selected \subseteq Node
          /\ \A n \in Selected : /\ remaining'[n] = Cardinality(SelectedDeps(n) \ Finished)
                                 /\ DepCount(n) \in Nat
      <3>1. Selected \subseteq Node
        BY <1>1, BuildFacts
      <3>2. ASSUME NEW n \in Selected
            PROVE  remaining'[n] = Cardinality(SelectedDeps(n) \ Finished) /\ DepCount(n) \in Nat
        <4>1. SelectedDeps(n) \ Finished = SelectedDeps(n)
          BY <1>3
        <4> QED
          BY <1>1, <2>1, <3>1, <4>1, DepsFinite DEF DepCount
      <3> QED
        BY <3>1, <3>2
    <2>3. ready' \in Seq(Node) /\ \A i \in 1 .. Len(ready') : ready'[i] \in S
      <3>1. S \in SUBSET Selected
        OBVIOUS
      <3> HIDE DEF S
      <3> QED
        BY <1>1, <2>1, <3>1, InOrderFacts
    <2>4. TypeOK'
      <3>1. remaining' \in [Node -> Nat]
        BY <2>1, <2>2
      <3>2. pc' \in [Worker -> RunningPc \cup {"loop", "waiting", "exit"}]
        BY <2>1
      <3> QED
        BY <1>1, <2>1, <2>3, <3>1, <3>2 DEF IndInv, TypeOK, Status
    <2>5. PoolPhase' /\ Ownership'
      BY <1>1, <1>2, <2>1 DEF PoolPhase, Ownership, RunningPc
    <2>6. Running' = {} /\ Cardinality({}) = 0
      BY <2>1, FS_EmptySet DEF Running, RunningPc
    <2>7. Counters'
      <3>1. started' \subseteq Selected' /\ Finished' \subseteq started'
        BY <1>1, <1>2, <1>3
      <3>2. \A n \in Selected' : remaining'[n] = Cardinality(SelectedDeps(n)' \ Finished')
        BY <1>1, <2>2, SameBuild
      <3>3. \A i \in 1 .. Len(ready') : ready'[i] \in Selected' /\ remaining'[ready'[i]] = 0
        BY <1>1, <2>3, SameBuild
      <3>4. /\ \A n \in started' : remaining'[n] = 0
            /\ inFlight' = Cardinality(Running')
            /\ completed' + inFlight' = Cardinality(started')
        BY <1>1, <1>2, <2>6
      <3> QED
        BY <3>1, <3>2, <3>3, <3>4 DEF Counters
    <2>8. PoolEnd'
      <3>1. \A w \in 1 .. NWorkers : pc'[w] # "exit"
        BY <1>1, <2>1, WorkerFacts
      <3>2. Total > 0
        BY <1>1, <1>6, BuildFacts
      <3> QED
        BY <1>1, <1>2, <2>1, <3>1, <3>2, SameBuild DEF PoolEnd
    <2>9. Decisions'
      BY <2>1 DEF Decisions
    <2>10. Heartbeats'
      BY <1>1, <1>2, <2>1 DEF IndInv, Heartbeats, Holds
    <2> QED
      BY <1>4, <2>4, <2>5, <2>7, <2>8, <2>9, <2>10 DEF IndInv
  <1> QED
    BY <1>5, <1>6

\* A selected node is listed once, so Total counts them.
LEMMA TotalCounts ==
  ASSUME build \in Builds
  PROVE  IsFiniteSet(Selected) /\ Cardinality(Selected) = Total
  <1> DEFINE f == [i \in 1 .. Total |-> build.selected[i]]
  <1>1. IsFiniteSet(1 .. Total) /\ Cardinality(1 .. Total) = Total
    <2>1. 1 \in Int /\ Total \in Int /\ Total \in Nat
      BY BuildFacts
    <2> QED
      BY <2>1, FS_Interval
  <1>2. f \in Bijection(1 .. Total, Selected)
    BY BuildFacts DEF Bijection, Injection, Surjection, Selected, Total, IsInjective
  <1>3. ExistsBijection(1 .. Total, Selected)
    BY <1>2 DEF ExistsBijection
  <1> QED
    BY <1>1, <1>3, FS_Bijection

\* When the pool is done, fail-fast stopped it or every node was started.
LEMMA PoolDone ==
  ASSUME IndInv, main = "wait", \A w \in Worker : pc[w] = "exit"
  PROVE  /\ started = Finished
         /\ NeverStarted # {} => stopped
  <1>1. build \in Builds /\ started \subseteq Selected /\ Finished \subseteq started
    BY DEF IndInv, TypeOK, Counters
  <1>2. started = Finished
    BY <1>1 DEF IndInv, Ownership, Holds, RunningPc
  <1>3. stopped \/ completed + inFlight >= Total
    <2>1. 1 \in 1 .. NWorkers /\ 1 \in Worker
      BY <1>1, WorkerFacts DEF IndInv, PoolEnd
    <2> QED
      BY <2>1 DEF IndInv, PoolEnd
  <1>4. completed + inFlight = Cardinality(started)
    BY DEF IndInv, Counters
  <1>5. /\ Cardinality(started) <= Cardinality(Selected)
        /\ Cardinality(Selected) = Cardinality(started) => Selected = started
        /\ Cardinality(Selected) = Total /\ Total \in Nat
        /\ Cardinality(started) \in Nat
    BY <1>1, TotalCounts, BuildFacts, FS_Subset, FS_CardinalityType
  <1> QED
    BY <1>2, <1>3, <1>4, <1>5 DEF NeverStarted

\* The nodes the pool never took are recorded as skipped.
LEMMA MarkSkippedStep ==
  ASSUME IndInv, MarkSkipped
  PROVE  IndInv'
  <1>1. /\ main = "wait" /\ main' = "summary" /\ build \in Builds /\ build' = build
        /\ \A w \in Worker : pc[w] = "exit"
        /\ pc' = pc /\ current' = current /\ out' = out /\ hb' = hb
        /\ ready' = ready /\ started' = started /\ inFlight' = inFlight
        /\ completed' = completed /\ remaining' = remaining
        /\ stopped' = stopped /\ ret' = ret /\ buildHb' = buildHb
        /\ buildReported' = buildReported
        /\ failedSet' = failedSet \cup NeverStarted
        /\ reported' = [n \in Node |-> IF n \in NeverStarted THEN "skip" ELSE reported[n]]
    BY DEF MarkSkipped, IndInv, TypeOK, queueVars, workerVars
  <1>2. /\ NeverStarted \in SUBSET Selected /\ Selected \subseteq Node
        /\ started = Finished /\ started \subseteq Selected
        /\ NeverStarted = Selected \ Finished
    BY <1>1, PoolDone, BuildFacts DEF NeverStarted, IndInv, Counters
  <1>3. PICK batch \in InOrder(NeverStarted) :
          Results' = Results \o [i \in DOMAIN batch |-> [name |-> batch[i], out |-> "skip"]]
    BY DEF MarkSkipped
  <1> DEFINE tail == [i \in DOMAIN batch |-> [name |-> batch[i], out |-> "skip"]]
             R == [name : Node, out : Outcome]
             k == Len(Results)
  <1>4. /\ batch \in Seq(Node) /\ Len(batch) \in Nat
        /\ \A i \in 1 .. Len(batch) : batch[i] \in NeverStarted
        /\ \A n \in NeverStarted : \E i \in 1 .. Len(batch) : batch[i] = n
        /\ \A i, j \in 1 .. Len(batch) : batch[i] = batch[j] => i = j
    BY <1>1, <1>2, <1>3, InOrderFacts
  <1>5. /\ tail \in Seq(R) /\ Len(tail) = Len(batch)
        /\ \A i \in 1 .. Len(batch) : tail[i].name = batch[i] /\ tail[i].out = "skip"
    <2>1. DOMAIN batch = 1 .. Len(batch)
      BY <1>4, LenProperties
    <2>2. tail \in [1 .. Len(batch) -> R]
      BY <1>2, <1>4, <2>1 DEF Outcome
    <2> QED
      BY <1>4, <2>1, <2>2, IsASeq, LenProperties
  <1>6. /\ Results' \in Seq(R) /\ k \in Nat /\ Len(Results') = k + Len(batch)
        /\ \A i \in 1 .. k : Results'[i] = Results[i]
        /\ \A i \in 1 .. Len(batch) : Results'[k + i] = tail[i]
        /\ \A i \in 1 .. Len(Results') :
             i \in 1 .. k \/ \E j \in 1 .. Len(batch) : i = k + j
    <2>1. Results \in Seq(R) /\ k \in Nat
      BY LenProperties DEF IndInv, TypeOK
    <2>2. /\ Results' \in Seq(R) /\ Len(Results') = k + Len(batch)
          /\ \A i \in 1 .. Len(Results') :
               Results'[i] = IF i <= k THEN Results[i] ELSE tail[i - k]
      <3>1. Results' = Results \o tail /\ tail \in Seq(R) /\ Len(tail) = Len(batch)
        BY <1>3, <1>5
      <3> HIDE DEF tail, R
      <3>2. /\ Results \o tail \in Seq(R)
            /\ Len(Results \o tail) = Len(Results) + Len(tail)
            /\ \A i \in 1 .. Len(Results) + Len(tail) :
                 (Results \o tail)[i] = IF i <= Len(Results) THEN Results[i]
                                                            ELSE tail[i - Len(Results)]
        BY <2>1, <3>1, ConcatProperties, Zenon
      <3> QED
        BY <3>1, <3>2, Zenon
    <2>3. \A i \in 1 .. k : i \in 1 .. Len(Results') /\ i <= k
      BY <1>4, <2>1, <2>2
    <2>4. \A i \in 1 .. Len(batch) : /\ k + i \in 1 .. Len(Results')
                                     /\ ~(k + i <= k) /\ (k + i) - k = i
      BY <1>4, <2>1, <2>2
    <2>5. ASSUME NEW i \in 1 .. Len(Results'), i \notin 1 .. k
          PROVE  \E j \in 1 .. Len(batch) : i = k + j
      <3>1. i - k \in 1 .. Len(batch) /\ i = k + (i - k)
        BY <1>4, <2>1, <2>2, <2>5
      <3> QED
        BY <3>1
    <2> QED
      BY <2>1, <2>2, <2>3, <2>4, <2>5
  <1> HIDE DEF tail, k, R
  <1>7. Finished' = Selected
    <2>1. ASSUME NEW i \in 1 .. Len(Results') PROVE Results'[i].name \in Selected
      <3>1. CASE i \in 1 .. k
        BY <1>2, <1>6, <3>1 DEF Finished, k
      <3>2. CASE \E j \in 1 .. Len(batch) : i = k + j
        BY <1>2, <1>4, <1>5, <1>6, <3>2
      <3> QED
        BY <1>6, <3>1, <3>2
    <2>2. ASSUME NEW n \in Selected PROVE n \in Finished'
      <3>1. CASE n \in Finished
        <4>1. PICK i \in 1 .. k : Results[i].name = n
          BY <3>1 DEF Finished, k
        <4>2. i \in 1 .. Len(Results') /\ Results'[i].name = n
          BY <1>4, <1>6, <4>1
        <4> QED
          BY <4>2 DEF Finished
      <3>2. CASE n \notin Finished
        <4>1. PICK i \in 1 .. Len(batch) : batch[i] = n
          BY <1>2, <1>4, <3>2
        <4>2. k + i \in 1 .. Len(Results') /\ Results'[k + i].name = n
          BY <1>4, <1>5, <1>6, <4>1
        <4> QED
          BY <4>2 DEF Finished
      <3> QED
        BY <3>1, <3>2
    <2> QED
      BY <2>1, <2>2 DEF Finished
  <1>8. TypeOK'
    <2>1. reported' \in [Node -> Status]
      BY <1>1 DEF IndInv, TypeOK, Status, Outcome
    <2> QED
      BY <1>1, <1>2, <1>6, <2>1 DEF IndInv, TypeOK, R
  <1>9. PoolPhase'
    BY <1>1 DEF IndInv, PoolPhase
  <1>10. Ownership'
    BY <1>1 DEF Ownership, RunningPc
  <1>11. Counters'
    BY <1>1, <1>2, SameBuild DEF Counters
  <1>12. PoolEnd'
    <2>1. stopped => build.failFast /\ \E i \in 1 .. k : Results[i].out = "err"
      BY DEF IndInv, PoolEnd, k
    <2>2. \A i \in 1 .. k : i \in 1 .. Len(Results') /\ Results'[i] = Results[i]
      BY <1>4, <1>6
    <2> QED
      BY <1>1, <1>7, <2>1, <2>2, SameBuild DEF PoolEnd
  <1>13. ResultsOnce'
    <2>1. \A i \in 1 .. k : Results'[i] = Results[i] /\ Results[i].name \in Finished
      BY <1>6 DEF Finished, k
    <2>2. \A i \in 1 .. Len(batch) : /\ Results'[k + i].name = batch[i]
                                     /\ Results'[k + i].out = "skip"
                                     /\ batch[i] \notin Finished
      BY <1>2, <1>4, <1>5, <1>6
    <2>3. ASSUME NEW i \in 1 .. Len(Results'), NEW j \in 1 .. Len(Results'),
                 Results'[i].name = Results'[j].name
          PROVE  i = j
      <3>1. CASE i \in 1 .. k /\ j \in 1 .. k
        BY <2>1, <2>3, <3>1 DEF IndInv, ResultsOnce, k
      <3>2. CASE i \in 1 .. k /\ j \notin 1 .. k
        BY <1>6, <2>1, <2>2, <2>3, <3>2
      <3>3. CASE i \notin 1 .. k /\ j \in 1 .. k
        BY <1>6, <2>1, <2>2, <2>3, <3>3
      <3>4. CASE i \notin 1 .. k /\ j \notin 1 .. k
        <4>1. PICK a \in 1 .. Len(batch) : i = k + a
          BY <1>6, <3>4
        <4>2. PICK b \in 1 .. Len(batch) : j = k + b
          BY <1>6, <3>4
        <4>3. a = b
          BY <1>4, <2>2, <2>3, <4>1, <4>2
        <4> QED
          BY <4>1, <4>2, <4>3
      <3> QED
        BY <3>1, <3>2, <3>3, <3>4
    <2>5. Finished' \subseteq Selected' /\ failedSet' \subseteq Finished'
      BY <1>1, <1>2, <1>7, SameBuild DEF IndInv, ResultsOnce
    <2> QED
      BY <1>1, <2>3, <2>5 DEF ResultsOnce
  <1>14. Decisions'
    BY <1>1 DEF Decisions
  <1>15. Heartbeats'
    <2>1. \A n \in Node : reported'[n] \in Outcome => n \in Finished'
      BY <1>1, <1>2, <1>7 DEF IndInv, Heartbeats, ResultsOnce
    <2> QED
      BY <1>1, <2>1 DEF IndInv, Heartbeats
  <1>16. ResultsAbove'
    <2> SUFFICES ASSUME NEW i \in 1 .. Len(Results'), Results'[i].out # "skip"
                 PROVE  SelectedDeps(Results'[i].name) \subseteq Finished' \ failedSet'
      BY <1>1, SameBuild DEF ResultsAbove
    <2>1. i \in 1 .. k
      BY <1>5, <1>6
    <2>2. SelectedDeps(Results[i].name) \subseteq Finished \ failedSet
      BY <1>6, <2>1 DEF IndInv, ResultsAbove, k
    <2> QED
      BY <1>1, <1>2, <1>6, <1>7, <2>1, <2>2 DEF IndInv, ResultsOnce
  <1> QED
    BY <1>8, <1>9, <1>10, <1>11, <1>12, <1>13, <1>14, <1>15, <1>16 DEF IndInv

\* The last report, and the return of Execute.
LEMMA FinishStep ==
  ASSUME IndInv, Finish
  PROVE  IndInv'
  <1> USE DEF Finish, Return, HeartbeatJoined, queueVars, resultVars, workerVars
  <1>1. /\ pc' = pc /\ current' = current /\ build' = build /\ main = "summary"
        /\ Finished' = Finished /\ failedSet' = failedSet /\ out' = out
        /\ Running' = Running /\ main' = "done" /\ Results' = Results
        /\ ret' \in {"ok", "err"}
    BY SameResults DEF Running
  <1>2. buildHb' = "off"
    BY DEF IndInv, TypeOK, PoolPhase
  <1>3. TypeOK'
    BY <1>2 DEF IndInv, TypeOK, Status, Outcome
  <1>4. PoolPhase' /\ Ownership'
    BY <1>1, <1>2 DEF IndInv, TypeOK, PoolPhase, Ownership, Holds
  <1>5. Counters' /\ PoolEnd'
    BY <1>1, SameBuild DEF IndInv, Counters, PoolEnd
  <1>6. ResultsOnce' /\ ResultsAbove'
    BY SameResults DEF IndInv
  <1>7. Decisions'
    BY <1>1, SameBuild DEF IndInv, Decisions, IsDownstreamOfFailed
  <1>8. Heartbeats'
    BY <1>1 DEF IndInv, Heartbeats, Holds
  <1> QED
    BY <1>3, <1>4, <1>5, <1>6, <1>7, <1>8 DEF IndInv

(***************************************************************************)
(* The inductive invariant holds in every reachable state.                 *)
(***************************************************************************)

\* A step that changes nothing.
LEMMA StutterStep ==
  ASSUME IndInv, UNCHANGED vars
  PROVE  IndInv'
  <1> USE DEF vars, queueVars, resultVars, workerVars, storeVars
  <1>1. /\ pc' = pc /\ current' = current /\ build' = build /\ out' = out /\ hb' = hb
        /\ Finished' = Finished /\ Running' = Running /\ main' = main
        /\ failedSet' = failedSet /\ Results' = Results /\ reported' = reported
    BY SameResults DEF Running
  <1>2. TypeOK' /\ PoolPhase'
    BY DEF IndInv, TypeOK, PoolPhase
  <1>3. Ownership' /\ Heartbeats'
    BY <1>1 DEF IndInv, Ownership, Heartbeats, Holds
  <1>4. Counters' /\ PoolEnd'
    BY <1>1, SameBuild DEF IndInv, Counters, PoolEnd
  <1>5. ResultsOnce' /\ ResultsAbove'
    BY SameResults DEF IndInv
  <1>6. Decisions'
    BY <1>1, SameBuild DEF IndInv, Decisions, IsDownstreamOfFailed
  <1> QED
    BY <1>2, <1>3, <1>4, <1>5, <1>6 DEF IndInv

\* Every step preserves the invariant.
LEMMA NextInv ==
  ASSUME IndInv, [Next]_vars
  PROVE  IndInv'
  <1>1. CASE UNCHANGED vars
    BY <1>1, StutterStep
  <1>2. CASE MainStep
    BY <1>2, ConnectStep, LaunchStep, MarkSkippedStep, FinishStep DEF MainStep
  <1>3. ASSUME NEW w \in Worker, WorkerStep(w)
        PROVE  IndInv'
    BY <1>3, WaitStep, ExitStep, DispatchStep, CheckStep, RunStep, StopHeartbeatStep,
       RecordStep DEF WorkerStep
  <1>4. ASSUME NEW w \in Worker, Tick(w) \/ Post(w)
        PROVE  IndInv'
    BY <1>4, HeartbeatStep
  <1>5. CASE BuildTick \/ BuildPost
    BY <1>5, BuildHeartbeatStep
  <1> QED
    BY <1>1, <1>2, <1>3, <1>4, <1>5 DEF Next, Done

\* In every state Execute reaches, whatever the graph, the selection, the flags
\* and the number of threads, the counters, the queue and the results agree.
THEOREM Invariance == Spec => []IndInv
  <1>1. IndInv /\ [Next]_vars => IndInv'
    BY NextInv
  <1> QED
    BY InitInv, <1>1, PTL DEF Spec

\* The state keeps its type: in particular no counter goes below zero.
THEOREM TypeCorrect == Spec => []TypeOK
  <1>1. IndInv => TypeOK
    BY DEF IndInv
  <1> QED
    BY Invariance, <1>1, PTL

\* No worker is handed a node before its selected dependencies have a result.
THEOREM DependenciesComeFirst == Spec => []DependenciesFirst
  <1>1. IndInv => DependenciesFirst
    BY HeldNode DEF DependenciesFirst
  <1> QED
    BY Invariance, <1>1, PTL

\* No node is executed on top of a dependency that failed or was skipped.
THEOREM NothingRunsBelowFailure == Spec => []NoRunBelowFailure
  <1>1. ASSUME IndInv PROVE NoRunBelowFailure
    <2> SUFFICES ASSUME NEW n \in Selected,
                        \/ \E w \in Worker : Holds(w, n) /\ pc[w] \in {"exec", "stopHB"}
                        \/ \E i \in 1 .. Len(Results) :
                             Results[i].name = n /\ Results[i].out # "skip"
                 PROVE  SelectedDeps(n) \subseteq Finished \ failedSet
      BY DEF NoRunBelowFailure
    <2>1. CASE \E w \in Worker : Holds(w, n) /\ pc[w] \in {"exec", "stopHB"}
      <3>1. PICK w \in Worker : Holds(w, n) /\ pc[w] \in {"exec", "stopHB"}
        BY <2>1
      <3>2. SelectedDeps(n) \subseteq Finished
        BY <3>1, <1>1, HeldNode DEF Holds
      <3> QED
        BY <3>1, <3>2, <1>1 DEF IndInv, Decisions, Holds
    <2>2. CASE \E i \in 1 .. Len(Results) : Results[i].name = n /\ Results[i].out # "skip"
      BY <2>2, <1>1 DEF IndInv, ResultsAbove
    <2> QED
      BY <2>1, <2>2
  <1> QED
    BY Invariance, <1>1, PTL

\* Every selected node has exactly one result when Execute returns.
THEOREM EveryNodeHasOneResult == Spec => []OneResultPerNode
  <1>1. IndInv => OneResultPerNode
    BY DEF IndInv, ResultsOnce, PoolEnd, PoolPhase, OneResultPerNode
  <1> QED
    BY Invariance, <1>1, PTL

\* After a fail-fast failure no further node is handed to a worker.
THEOREM FailFastStopsDispatch == Spec => FailFast
  <1>1. ASSUME IndInv, [Next]_vars, stopped PROVE started' = started
    <2> USE DEF queueVars
    <2>1. CASE UNCHANGED vars
      BY <2>1 DEF vars
    <2>2. CASE MainStep
      BY <2>2 DEF MainStep, Connect, Launch, MarkSkipped, Finish
    <2>3. ASSUME NEW w \in Worker, WorkerStep(w) \/ Tick(w) \/ Post(w)
          PROVE  started' = started
      BY <1>1, <2>3 DEF WorkerStep, Wait, Exit, Dispatch, MayDispatch, Check, Run,
                        StopHeartbeat, Record, Tick, Post
    <2>4. CASE BuildTick \/ BuildPost
      BY <2>4 DEF BuildTick, BuildPost
    <2> QED
      BY <1>1, <2>1, <2>2, <2>3, <2>4 DEF Next, Done
  <1>2. IndInv /\ [Next]_vars => [stopped => started' = started]_vars
    BY <1>1
  <1> QED
    BY Invariance, <1>2, PTL DEF Spec, FailFast

(***************************************************************************)
(* The scheduler keeps its promise: its reports are final, and it          *)
(* implements BuildPromise.                                                *)
(***************************************************************************)

\* A node with a final report is not one that a worker still has to report on.
LEMMA ReportedNode ==
  ASSUME IndInv, NEW w \in Worker, pc[w] \in {"check", "exec", "stopHB"}
  PROVE  reported[current[w]] \notin Outcome
  <1>1. current[w] \in Node /\ current[w] \notin Finished
    BY HeldNode DEF IndInv, Ownership, RunningPc
  <1>2. ASSUME NEW v \in Worker, Holds(v, current[w]), pc[v] = "record"
        PROVE  FALSE
    BY <1>2 DEF IndInv, Ownership, Holds, RunningPc
  <1> QED
    BY <1>1, <1>2 DEF IndInv, Heartbeats

\* Nothing overwrites the final status of a node.
LEMMA NodeReportsFinal ==
  ASSUME IndInv, [Next]_vars, NEW n \in Node, reported[n] \in Outcome
  PROVE  reported'[n] = reported[n]
  <1> USE DEF storeVars
  <1>0. reported \in [Node -> Status]
    BY DEF IndInv, TypeOK
  <1>1. ASSUME NEW w \in Worker, pc[w] \in {"check", "exec", "stopHB"}
        PROVE  n # current[w]
    BY <1>1, ReportedNode
  <1>2. CASE UNCHANGED vars
    BY <1>2 DEF vars
  <1>3. CASE MarkSkipped
    <2>1. n \in Finished /\ Finished \subseteq started
      BY <1>3 DEF MarkSkipped, IndInv, Counters, Heartbeats, Holds, RunningPc
    <2> QED
      BY <1>3, <2>1 DEF MarkSkipped, NeverStarted
  <1>4. CASE (\E ok \in BOOLEAN : Connect(ok) \/ Launch(ok)) \/ Finish
    BY <1>4 DEF Connect, Launch, Finish
  <1>5. ASSUME NEW w \in Worker, WorkerStep(w)
        PROVE  reported'[n] = reported[n]
    <2>1. CASE Wait(w) \/ Exit(w) \/ Dispatch(w) \/ Record(w)
      BY <2>1 DEF Wait, Exit, Dispatch, Record
    <2>2. CASE \E o \in {"ok", "err"} : Run(w, o)
      BY <2>2 DEF Run
    <2>3. CASE Check(w)
      BY <2>3, <1>0, <1>1 DEF Check
    <2>4. CASE StopHeartbeat(w)
      BY <2>4, <1>0, <1>1 DEF StopHeartbeat
    <2> QED
      BY <1>5, <2>1, <2>2, <2>3, <2>4 DEF WorkerStep
  <1>6. ASSUME NEW w \in Worker, Tick(w)
        PROVE  reported'[n] = reported[n]
    BY <1>6 DEF Tick
  <1>7. ASSUME NEW w \in Worker, Post(w)
        PROVE  reported'[n] = reported[n]
    <2>1. pc[w] \in {"exec", "stopHB"}
      BY <1>7 DEF Post, IndInv, Heartbeats
    <2> QED
      BY <2>1, <1>0, <1>1, <1>7 DEF Post
  <1>8. CASE BuildTick \/ BuildPost
    BY <1>8 DEF BuildTick, BuildPost
  <1> QED
    BY <1>2, <1>3, <1>4, <1>5, <1>6, <1>7, <1>8 DEF Next, MainStep, Done, vars

\* Nothing overwrites the final status of the build.
LEMMA BuildReportFinal ==
  ASSUME IndInv, [Next]_vars, buildReported \in {"ok", "err"}
  PROVE  buildReported' = buildReported
  <1> USE DEF storeVars
  <1>1. main = "done" /\ buildHb = "off"
    BY DEF IndInv, PoolPhase
  <1>2. ASSUME NEW w \in Worker, WorkerStep(w) \/ Tick(w) \/ Post(w)
        PROVE  buildReported' = buildReported
    BY <1>2 DEF WorkerStep, Wait, Exit, Dispatch, Check, Run, StopHeartbeat, Record,
                Tick, Post
  <1>3. CASE MainStep
    BY <1>1, <1>3 DEF MainStep, Connect, Launch, MarkSkipped, Finish
  <1>4. CASE BuildTick \/ BuildPost
    BY <1>1, <1>4 DEF BuildTick, BuildPost
  <1> QED
    BY <1>2, <1>3, <1>4 DEF Next, Done, vars

\* No late heartbeat, and nothing else, ever replaces a final status in the
\* store by another one.
THEOREM ReportsStayFinal == Spec => ReportsAreFinal
  <1>1. IndInv /\ [Next]_vars =>
          [/\ \A n \in Node : reported[n] \in Outcome => reported'[n] = reported[n]
           /\ buildReported \in {"ok", "err"} => buildReported' = buildReported]_vars
    BY NodeReportsFinal, BuildReportFinal
  <1> QED
    BY Invariance, <1>1, PTL DEF Spec, ReportsAreFinal

(***************************************************************************)
(* Refinement.                                                             *)
(***************************************************************************)

\* In a list of results without repetition, the outcome of a node is the one
\* its result shows.
LEMMA OutcomeFacts ==
  ASSUME NEW R, NEW i \in 1 .. Len(R),
         \A j, k \in 1 .. Len(R) : R[j].name = R[k].name => j = k
  PROVE  R[CHOOSE j \in 1 .. Len(R) : R[j].name = R[i].name].out = R[i].out
  <1> DEFINE c == CHOOSE j \in 1 .. Len(R) : R[j].name = R[i].name
  <1>1. c \in 1 .. Len(R) /\ R[c].name = R[i].name
    OBVIOUS
  <1>2. c = i
    BY <1>1
  <1> QED
    BY <1>2

\* The outcome seen by the promise.
LEMMA OutcomeBarFacts ==
  ASSUME IndInv
  PROVE  /\ \A n \in Node \ Finished : outcomeBar[n] = "none"
         /\ \A i \in 1 .. Len(Results) : /\ Results[i].name \in Node
                                         /\ Results[i].out \in Outcome
                                         /\ outcomeBar[Results[i].name] = Results[i].out
         /\ DOMAIN outcomeBar = Node
  <1>1. Results \in Seq([name : Node, out : Outcome])
    BY DEF IndInv, TypeOK
  <1>2. \A i \in 1 .. Len(Results) : Results[i] \in [name : Node, out : Outcome]
    BY <1>1, ElementOfSeq
  <1>3. ASSUME NEW i \in 1 .. Len(Results)
        PROVE  OutcomeOf(Results[i].name) = Results[i].out
    <2>1. \A j, k \in 1 .. Len(Results) : Results[j].name = Results[k].name => j = k
      BY DEF IndInv, ResultsOnce
    <2> QED
      BY <2>1, OutcomeFacts, Zenon DEF OutcomeOf
  <1>4. \A i \in 1 .. Len(Results) : Results[i].name \in Finished
    BY DEF Finished
  <1> QED
    BY <1>2, <1>3, <1>4 DEF outcomeBar

\* The promise speaks of the same nodes.
LEMMA PromiseNodes ==
  ASSUME build \in Builds
  PROVE  /\ Promise!Selected = Selected
         /\ \A n : Promise!SelectedDeps(n) = SelectedDeps(n)
         /\ DOMAIN build.deps = Node
  <1>1. DOMAIN build.selected = 1 .. Len(build.selected)
    BY BuildFacts, LenProperties
  <1>2. Promise!Selected = Selected
    BY <1>1 DEF Promise!Selected, Selected
  <1> QED
    BY <1>2, BuildFacts DEF Promise!SelectedDeps, SelectedDeps

\* The nodes pending for the promise are the ones without a result.
LEMMA PromisePending ==
  ASSUME IndInv
  PROVE  /\ Promise!Pending = Selected \ Finished
         /\ Promise!Failed = {Results[i].name : i \in {j \in 1 .. Len(Results) :
                                                       Results[j].out = "err"}}
         /\ Results = <<>> => Promise!Failed = {} /\ Promise!Pending = Selected
  <1>1. build \in Builds
    BY DEF IndInv, TypeOK
  <1>2. Selected \subseteq Node /\ Finished \subseteq Selected
    BY <1>1, BuildFacts DEF IndInv, ResultsOnce
  <1>3. \A n \in Finished : \E i \in 1 .. Len(Results) : Results[i].name = n
    BY DEF Finished
  <1>4. \A i \in 1 .. Len(Results) : Results[i].name \in Finished
    BY DEF Finished
  <1>5. \A i \in 1 .. Len(Results) : Results[i].out \in Outcome /\ Results[i].out # "none"
    BY OutcomeBarFacts DEF Outcome
  <1>6. Promise!Pending = Selected \ Finished
    BY <1>1, <1>2, <1>3, <1>5, PromiseNodes, OutcomeBarFacts DEF Promise!Pending
  <1>7. Promise!Failed = {Results[i].name : i \in {j \in 1 .. Len(Results) :
                                                    Results[j].out = "err"}}
    BY <1>1, <1>2, <1>3, <1>4, PromiseNodes, OutcomeBarFacts DEF Promise!Failed
  <1>8. Results = <<>> => Len(Results) = 0
    OBVIOUS
  <1> QED
    BY <1>6, <1>7, <1>8, <1>3

\* While the pool runs, what the promise may build on is what the scheduler has
\* not put in failedSet.
LEMMA PromiseGood ==
  ASSUME IndInv, main = "wait", NEW d \in Finished
  PROVE  /\ Promise!Good(d) <=> d \notin failedSet
         /\ outcomeBar[d] \in Outcome
  <1>1. PICK i \in 1 .. Len(Results) : Results[i].name = d
    BY DEF Finished
  <1>2. outcomeBar[d] = Results[i].out /\ Results[i].out \in Outcome
    BY <1>1, OutcomeBarFacts
  <1>3. d \in failedSet <=> BadResult(Results[i])
    BY <1>1 DEF IndInv, ResultsOnce
  <1> QED
    BY <1>1, <1>2, <1>3 DEF Promise!Good, BadResult, Outcome

\* The state Execute starts from.
LEMMA InitPromise == Init => Promise!Init
  <1> SUFFICES ASSUME Init PROVE Promise!Init
    OBVIOUS
  <1>1. build \in Builds /\ Finished = {} /\ ret = "none"
    BY DEF Init, Finished
  <1> QED
    BY <1>1, PromiseNodes DEF Promise!Init, outcomeBar

\* A step that leaves the build, the results and the return value alone.
LEMMA QuietStep ==
  ASSUME build' = build, Results' = Results, ret' = ret
  PROVE  UNCHANGED Promise!vars
  BY DEF Promise!vars, outcomeBar, Finished, OutcomeOf

\* The outcome seen by the promise after a step.
LEMMA NextOutcomeBar ==
  ASSUME IndInv'
  PROVE  /\ \A n \in Node \ Finished' : outcomeBar'[n] = "none"
         /\ \A i \in 1 .. Len(Results') : /\ Results'[i].name \in Node
                                          /\ outcomeBar'[Results'[i].name] = Results'[i].out
         /\ outcomeBar' = [n \in Node |-> outcomeBar'[n]]
  <1>1. Results' \in Seq([name : Node, out : Outcome])
    BY DEF IndInv, TypeOK
  <1>2. \A i \in 1 .. Len(Results') : Results'[i] \in [name : Node, out : Outcome]
    BY <1>1, ElementOfSeq
  <1>3. ASSUME NEW i \in 1 .. Len(Results')
        PROVE  Results'[CHOOSE j \in 1 .. Len(Results') :
                          Results'[j].name = Results'[i].name].out = Results'[i].out
    <2>1. \A j, k \in 1 .. Len(Results') : Results'[j].name = Results'[k].name => j = k
      BY DEF IndInv, ResultsOnce
    <2> QED
      BY <2>1, OutcomeFacts, Zenon
  <1>4. \A i \in 1 .. Len(Results') : Results'[i].name \in Finished'
    BY DEF Finished
  <1> QED
    BY <1>2, <1>3, <1>4 DEF outcomeBar, OutcomeOf

\* Recording a result settles its node: executed on good dependencies, or
\* skipped for a reason.
LEMMA RecordPromise ==
  ASSUME IndInv, IndInv', NEW w \in Worker, Record(w)
  PROVE  Promise!Next
  <1> DEFINE n == current[w]
  <1>1. /\ main = "wait" /\ build \in Builds /\ build' = build /\ ret' = ret /\ ret = "none"
        /\ pc[w] = "record"
    BY WorkerWaits DEF Record, IndInv, TypeOK, PoolPhase, storeVars
  <1>2. /\ n \in Selected /\ n \in Node /\ n \notin Finished
        /\ SelectedDeps(n) \subseteq Finished
        /\ n \in Promise!Pending
    BY <1>1, HeldNode, PromisePending DEF IndInv, Ownership, RunningPc
  <1>3. /\ Len(Results') = Len(Results) + 1 /\ Len(Results) \in Nat
        /\ \A i \in 1 .. Len(Results) : Results'[i] = Results[i]
        /\ Results'[Len(Results) + 1].name = n
        /\ Results'[Len(Results) + 1].out = out[w]
    <2>1. Results \in Seq([name : Node, out : Outcome]) /\ out[w] \in Outcome
      BY DEF IndInv, TypeOK
    <2> QED
      BY <1>2, <2>1, AppendProperties DEF Record
  <1>4. /\ Finished' = Finished \cup {n} /\ out[w] \in Outcome
    <2>1. \A i \in 1 .. Len(Results') : i \in 1 .. Len(Results) \/ i = Len(Results) + 1
      BY <1>3
    <2>2. Len(Results) + 1 \in 1 .. Len(Results')
          /\ \A i \in 1 .. Len(Results) : i \in 1 .. Len(Results')
      BY <1>3
    <2>3. Finished' \subseteq Finished \cup {n}
      BY <1>3, <2>1 DEF Finished
    <2>4. Finished \cup {n} \subseteq Finished'
      BY <1>3, <2>2 DEF Finished
    <2> QED
      BY <2>3, <2>4 DEF IndInv, TypeOK
  <1>5. outcomeBar'[n] = out[w]
    <2>1. Len(Results) + 1 \in 1 .. Len(Results')
      BY <1>3
    <2> QED
      BY <1>3, <2>1, NextOutcomeBar
  <1>6. \A m \in Node : m # n => outcomeBar'[m] = outcomeBar[m]
    <2> SUFFICES ASSUME NEW m \in Node, m # n PROVE outcomeBar'[m] = outcomeBar[m]
      OBVIOUS
    <2>1. CASE m \in Finished
      <3>1. PICK i \in 1 .. Len(Results) : Results[i].name = m
        BY <2>1 DEF Finished
      <3>2. i \in 1 .. Len(Results') /\ Results'[i] = Results[i]
        BY <1>3
      <3> QED
        BY <3>1, <3>2, OutcomeBarFacts, NextOutcomeBar
    <2>2. CASE m \notin Finished
      BY <2>2, <1>4, OutcomeBarFacts, NextOutcomeBar
    <2> QED
      BY <2>1, <2>2
  <1>7. CASE out[w] # "skip"
    <2>1. outcomeBar' = [outcomeBar EXCEPT ![n] = out[w]]
      BY <1>2, <1>5, <1>6, NextOutcomeBar DEF outcomeBar
    <2>2. \A d \in SelectedDeps(n) : Promise!Good(d)
      BY <1>1, <1>2, <1>7, PromiseGood DEF IndInv, Decisions
    <2>3. Promise!Execute(n, out[w])
      BY <1>1, <1>2, <2>1, <2>2, PromiseNodes DEF Promise!Execute
    <2>4. out[w] \in {"ok", "err"}
      BY <1>4, <1>7 DEF Outcome
    <2> QED
      BY <1>1, <1>2, <2>3, <2>4, PromiseNodes DEF Promise!Next
  <1>8. CASE out[w] = "skip"
    <2>1. outcomeBar' = [m \in DOMAIN outcomeBar |-> IF m \in {n} THEN "skip" ELSE outcomeBar[m]]
      BY <1>2, <1>5, <1>6, <1>8, NextOutcomeBar, OutcomeBarFacts
    <2>2. Promise!MaySkip(n)
      <3>1. IsDownstreamOfFailed(n) \/ SeedSkipped(n)
        BY <1>1, <1>8 DEF IndInv, Decisions
      <3>2. CASE IsDownstreamOfFailed(n)
        <4>1. PICK d \in build.deps[n] : d \in failedSet
          BY <3>2 DEF IsDownstreamOfFailed
        <4>2. d \in Finished /\ d \in Selected
          BY <4>1 DEF IndInv, ResultsOnce
        <4>3. d \in SelectedDeps(n) /\ ~Promise!Good(d) /\ outcomeBar[d] \in Outcome
          BY <1>1, <4>1, <4>2, PromiseGood DEF SelectedDeps
        <4>4. outcomeBar[d] \in {"err", "skip"}
          BY <4>3 DEF Promise!Good, Outcome
        <4> QED
          BY <1>1, <4>3, <4>4, PromiseNodes DEF Promise!MaySkip
      <3>3. CASE SeedSkipped(n)
        BY <3>3 DEF SeedSkipped, Promise!MaySkip
      <3> QED
        BY <3>1, <3>2, <3>3
    <2>3. Promise!Skip({n})
      BY <1>1, <1>2, <2>1, <2>2 DEF Promise!Skip
    <2> QED
      BY <1>1, <1>2, <2>3, PromiseNodes DEF Promise!Next
  <1> QED
    BY <1>7, <1>8

\* Recording the nodes never started skips what fail-fast kept from running.
LEMMA MarkSkippedPromise ==
  ASSUME IndInv, IndInv', MarkSkipped
  PROVE  Promise!Next
  <1>1. /\ main = "wait" /\ main' = "summary" /\ build \in Builds /\ build' = build
        /\ ret' = ret /\ ret = "none" /\ \A w \in Worker : pc[w] = "exit"
    BY DEF MarkSkipped, IndInv, TypeOK, PoolPhase
  <1>2. /\ started = Finished /\ NeverStarted = Selected \ Finished
        /\ NeverStarted \subseteq Selected /\ Selected \subseteq Node
        /\ NeverStarted # {} => stopped
        /\ NeverStarted \subseteq Promise!Pending
        /\ Finished' = Selected
    BY <1>1, PoolDone, BuildFacts, PromisePending, SameBuild DEF NeverStarted, IndInv, PoolEnd
  <1>3. PICK batch \in InOrder(NeverStarted) :
          Results' = Results \o [i \in DOMAIN batch |-> [name |-> batch[i], out |-> "skip"]]
    BY DEF MarkSkipped
  <1> DEFINE tail == [i \in DOMAIN batch |-> [name |-> batch[i], out |-> "skip"]]
  <1>4. /\ Len(batch) \in Nat /\ DOMAIN batch = 1 .. Len(batch)
        /\ \A m \in NeverStarted : \E i \in 1 .. Len(batch) : batch[i] = m
        /\ \A i \in 1 .. Len(batch) : batch[i] \in NeverStarted
    BY <1>1, <1>2, <1>3, InOrderFacts, LenProperties
  <1>5. /\ tail \in Seq([name : Node, out : Outcome]) /\ Len(tail) = Len(batch)
        /\ \A i \in 1 .. Len(batch) : tail[i].name = batch[i] /\ tail[i].out = "skip"
    <2>1. tail \in [1 .. Len(batch) -> [name : Node, out : Outcome]]
      BY <1>2, <1>4 DEF Outcome
    <2> QED
      BY <1>4, <2>1, IsASeq, LenProperties
  <1>6. Results' = Results \o tail
    BY <1>3
  <1> HIDE DEF tail
  <1>7. /\ Len(Results') = Len(Results) + Len(tail) /\ Len(Results) \in Nat
        /\ \A i \in 1 .. Len(Results) : Results'[i] = Results[i]
        /\ \A i \in 1 .. Len(tail) : Results'[Len(Results) + i] = tail[i]
    <2>1. Results \in Seq([name : Node, out : Outcome]) /\ Len(Results) \in Nat
      BY LenProperties DEF IndInv, TypeOK
    <2>2. /\ Len(Results \o tail) = Len(Results) + Len(tail)
          /\ \A i \in 1 .. Len(Results) + Len(tail) :
               (Results \o tail)[i] = IF i <= Len(Results) THEN Results[i]
                                                          ELSE tail[i - Len(Results)]
      <3> DEFINE R == [name : Node, out : Outcome]
      <3>1. Results \in Seq(R) /\ tail \in Seq(R)
        BY <1>5, <2>1
      <3> HIDE DEF R
      <3> QED
        BY <3>1, ConcatProperties, Zenon
    <2>3. \A i \in 1 .. Len(Results) : i \in 1 .. Len(Results) + Len(tail) /\ i <= Len(Results)
      BY <1>4, <1>5, <2>1
    <2>4. \A i \in 1 .. Len(tail) : /\ Len(Results) + i \in 1 .. Len(Results) + Len(tail)
                                    /\ ~(Len(Results) + i <= Len(Results))
                                    /\ (Len(Results) + i) - Len(Results) = i
      BY <1>4, <1>5, <2>1
    <2> QED
      BY <1>6, <2>1, <2>2, <2>3, <2>4
  <1>8. \A m \in Node : outcomeBar'[m] = IF m \in NeverStarted THEN "skip" ELSE outcomeBar[m]
    <2> SUFFICES ASSUME NEW m \in Node
                 PROVE  outcomeBar'[m] = IF m \in NeverStarted THEN "skip" ELSE outcomeBar[m]
      OBVIOUS
    <2>1. CASE m \in NeverStarted
      <3>1. PICK i \in 1 .. Len(batch) : batch[i] = m
        BY <1>4, <2>1
      <3>2. Len(Results) + i \in 1 .. Len(Results')
        BY <1>4, <1>5, <1>7
      <3>3. Results'[Len(Results) + i].name = m /\ Results'[Len(Results) + i].out = "skip"
        BY <1>5, <1>7, <3>1
      <3> QED
        BY <2>1, <3>2, <3>3, NextOutcomeBar
    <2>2. CASE m \in Finished
      <3>1. PICK i \in 1 .. Len(Results) : Results[i].name = m
        BY <2>2 DEF Finished
      <3>2. i \in 1 .. Len(Results') /\ Results'[i] = Results[i]
        BY <1>4, <1>5, <1>7
      <3> QED
        BY <1>2, <2>2, <3>1, <3>2, OutcomeBarFacts, NextOutcomeBar
    <2>3. CASE m \notin Selected
      <3>1. m \notin Finished /\ m \notin NeverStarted /\ m \notin Finished'
        BY <1>2, <2>3 DEF IndInv, ResultsOnce
      <3> QED
        BY <3>1, OutcomeBarFacts, NextOutcomeBar
    <2> QED
      BY <1>2, <2>1, <2>2, <2>3
  <1>9. \A m \in NeverStarted : Promise!MaySkip(m)
    <2> SUFFICES ASSUME NEW m \in NeverStarted PROVE Promise!MaySkip(m)
      OBVIOUS
    <2>1. build.failFast /\ \E i \in 1 .. Len(Results) : Results[i].out = "err"
      BY <1>2 DEF IndInv, PoolEnd
    <2>2. Promise!Failed # {}
      BY <2>1, PromisePending
    <2> QED
      BY <2>1, <2>2 DEF Promise!MaySkip
  <1>10. outcomeBar' = [m \in DOMAIN outcomeBar |->
                          IF m \in NeverStarted THEN "skip" ELSE outcomeBar[m]]
    BY <1>8, NextOutcomeBar, OutcomeBarFacts
  <1>11. Promise!Skip(NeverStarted)
    BY <1>1, <1>2, <1>9, <1>10 DEF Promise!Skip
  <1> QED
    BY <1>1, <1>2, <1>11, PromiseNodes DEF Promise!Next

\* Execute returns as promised: an error when nothing could be started or when
\* some node ended in one, and success otherwise.
LEMMA ReturnPromise ==
  ASSUME IndInv, (\E ok \in BOOLEAN : Connect(ok) \/ Launch(ok)) \/ Finish
  PROVE  Promise!Next \/ UNCHANGED Promise!vars
  <1>1. build' = build /\ Results' = Results /\ build \in Builds
    BY DEF Connect, Launch, Finish, resultVars, IndInv, TypeOK
  <1>2. outcomeBar' = outcomeBar
    BY <1>1 DEF outcomeBar, Finished, OutcomeOf
  <1>3. CASE \E ok \in BOOLEAN : Connect(ok) \/ Launch(ok)
    <2>1. ret = "none" /\ Results = <<>>
      BY <1>3 DEF Connect, Launch, IndInv, TypeOK, PoolPhase
    <2>2. Promise!Failed = {} /\ Promise!Pending = Selected
      BY <2>1, PromisePending
    <2>3. Total = 0 => Selected = {}
      BY DEF Total, Selected
    <2>4. ret' = ret \/ ret' = "err" \/ (ret' = "ok" /\ Total = 0)
      BY <1>3 DEF Connect, Launch, Return
    <2>5. CASE ret' = ret
      BY <1>1, <2>5, QuietStep
    <2>6. CASE ret' = "err"
      <3>1. Promise!Return("err")
        BY <1>1, <1>2, <2>1, <2>2, <2>6, PromiseNodes DEF Promise!Return
      <3> QED
        BY <3>1 DEF Promise!Next
    <2>7. CASE ret' = "ok" /\ Total = 0
      <3>1. Promise!Return("ok")
        BY <1>1, <1>2, <2>1, <2>2, <2>3, <2>7, PromiseNodes DEF Promise!Return
      <3> QED
        BY <3>1 DEF Promise!Next
    <2> QED
      BY <2>4, <2>5, <2>6, <2>7
  <1>4. CASE Finish
    <2>0. main = "summary" /\ ret = "none" /\ Finished = Selected
      BY <1>4 DEF Finish, IndInv, TypeOK, PoolPhase, PoolEnd
    <2>1. ret = "none" /\ Promise!Pending = {}
      BY <2>0, PromisePending
    <2>2. /\ ret' \in {"ok", "err"}
          /\ ret' = "err" <=> \E i \in 1 .. Len(Results) : Results[i].out = "err"
      BY <1>4 DEF Finish, Return
    <2>3. Promise!Failed # {} <=> \E i \in 1 .. Len(Results) : Results[i].out = "err"
      BY PromisePending
    <2>4. Promise!Return(ret')
      BY <1>1, <1>2, <2>1, <2>2, <2>3 DEF Promise!Return
    <2> QED
      BY <2>2, <2>4 DEF Promise!Next
  <1> QED
    BY <1>3, <1>4

\* Every step of the scheduler is a step of the promise or leaves it alone.
LEMMA NextPromise ==
  ASSUME IndInv, [Next]_vars
  PROVE  [Promise!Next]_(Promise!vars)
  <1>0. IndInv'
    BY NextInv
  <1>1. CASE UNCHANGED vars
    BY <1>1, QuietStep DEF vars, resultVars
  <1>2. CASE MainStep
    BY <1>0, <1>2, MarkSkippedPromise, ReturnPromise DEF MainStep
  <1>3. ASSUME NEW w \in Worker, WorkerStep(w) \/ Tick(w) \/ Post(w)
        PROVE  Promise!Next \/ UNCHANGED Promise!vars
    <2>1. CASE Record(w)
      BY <1>0, <2>1, RecordPromise
    <2>2. CASE ~Record(w)
      <3>1. build' = build /\ Results' = Results /\ ret' = ret
        BY <1>3, <2>2 DEF WorkerStep, Wait, Exit, Dispatch, Check, Run, StopHeartbeat,
                          Tick, Post, resultVars
      <3> QED
        BY <3>1, QuietStep
    <2> QED
      BY <2>1, <2>2
  <1>4. CASE BuildTick \/ BuildPost
    BY <1>4, QuietStep DEF BuildTick, BuildPost, resultVars
  <1> QED
    BY <1>1, <1>2, <1>3, <1>4 DEF Next, Done

\* The scheduler, whatever its workers do and in whatever order, implements the
\* promise of `sling build`.
THEOREM SchedulerKeepsPromise == Spec => KeepsPromise
  <1>1. IndInv /\ [Next]_vars => [Promise!Next]_(Promise!vars)
    BY NextPromise
  <1> QED
    BY InitPromise, Invariance, <1>1, PTL DEF Spec, KeepsPromise, Promise!Spec
=============================================================================
