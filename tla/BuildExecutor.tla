--------------------------- MODULE BuildExecutor ---------------------------
(***************************************************************************)
(* The ready-queue scheduler of `sling build` (core/sling/build/executor.go,*)
(* Executor.Execute and runNode): a pool of worker goroutines that share   *)
(* one mutex and one condition variable, pull nodes of the dependency      *)
(* graph from a queue, run them and release their dependents; a heartbeat  *)
(* goroutine beside every running node and beside the whole build; and the *)
(* main goroutine that waits for the pool and reports the outcome.         *)
(*                                                                         *)
(* A critical section of `mu` is one action: cond.Wait releases the mutex  *)
(* inside Dispatch, cond.Broadcast wakes the waiters inside Record.  What  *)
(* a node does to the database is abstracted to its outcome, "ok" or "err".*)
(***************************************************************************)
EXTENDS Naturals, Sequences, FiniteSets

CONSTANTS
  Node,       \* names of seeds and models (keys of DAG.Nodes)
  MaxThreads, \* largest thread count considered (--threads)
  Builds      \* the compiled builds considered, a set of Build records

(***************************************************************************)
(* A compiled Build as Execute reads it: the selected nodes in DAG order,  *)
(* the dependencies of every node (selected or not), which nodes are       *)
(* seeds, and the options.  `report` is ~IsPipelineRunMode().              *)
(***************************************************************************)
Build == [selected : Seq(Node), deps : [Node -> SUBSET Node], seeds : SUBSET Node,
          threads : 0 .. MaxThreads, singleWriter : BOOLEAN, noSeeds : BOOLEAN,
          test : BOOLEAN, failFast : BOOLEAN, report : BOOLEAN]

ASSUME NodeAssumption == IsFiniteSet(Node)

ASSUME ThreadsAssumption == MaxThreads \in Nat \ {0}

ASSUME BuildsAssumption ==
  /\ Builds \subseteq Build
  /\ \A b \in Builds : \A i, j \in 1 .. Len(b.selected) :
       b.selected[i] = b.selected[j] => i = j

VARIABLES
  build,         \* e.Build: fixed when the executor is made
  main,          \* where the main goroutine is in Execute
  ready,         \* queue of nodes whose selected dependencies completed
  started,       \* nodes handed to a worker
  inFlight,      \* nodes being run
  completed,     \* nodes that have been recorded
  remaining,     \* per node, selected dependencies not yet completed
  failedSet,     \* e.failedSet
  stopped,       \* e.stopped, set by fail-fast
  Results,       \* e.Results, a sequence of [name, out]
  pc,            \* per worker, its place in the worker loop and in runNode
  current,       \* per worker, the node it runs
  out,           \* per worker, the outcome of that node
  hb,            \* per worker, the heartbeat goroutine of its node
  buildHb,       \* heartbeat goroutine of the build
  reported,      \* per node, the last status sent to the store
  buildReported, \* last build status sent to the store
  ret            \* what Execute returned

queueVars  == <<ready, started, inFlight, completed, remaining>>
resultVars == <<failedSet, stopped, Results>>
workerVars == <<pc, current, out, hb>>
storeVars  == <<buildHb, reported, buildReported>>
vars == <<build, main, queueVars, resultVars, workerVars, storeVars, ret>>

Worker   == 1 .. MaxThreads
Outcome  == {"ok", "err", "skip"}
Status   == {"none", "running"} \cup Outcome
NoNode   == "-"

Selected == {build.selected[i] : i \in 1 .. Len(build.selected)}
Total    == Len(build.selected)
Position(n) == CHOOSE i \in 1 .. Total : build.selected[i] = n

\* The dependencies of n the scheduler waits for.
SelectedDeps(n) == build.deps[n] \cap Selected

\* The sequences that list the set S in the order of build.selected: one.
InOrder(S) ==
  {q \in [1 .. Cardinality(S) -> S] :
     /\ \A n \in S : \E i \in 1 .. Cardinality(S) : q[i] = n
     /\ \A i, j \in 1 .. Cardinality(S) : i < j => Position(q[i]) < Position(q[j])}

\* How many worker goroutines are spawned.
NWorkers ==
  LET threads == IF build.threads < 1 \/ build.singleWriter THEN 1 ELSE build.threads
  IN IF threads > Total THEN Total ELSE threads

\* Nodes with a result so far.
Finished == {Results[i].name : i \in 1 .. Len(Results)}

RunningPc == {"check", "exec", "stopHB", "record"}
Running == {w \in Worker : pc[w] \in RunningPc}
Holds(w, n) == pc[w] \in RunningPc /\ current[w] = n

TypeOK ==
  /\ build \in Builds
  /\ main \in {"connect", "schemas", "wait", "summary", "done"}
  /\ ready \in Seq(Node)
  /\ started \subseteq Node
  /\ inFlight \in Nat /\ completed \in Nat
  /\ remaining \in [Node -> Nat]
  /\ failedSet \subseteq Node
  /\ stopped \in BOOLEAN
  /\ Results \in Seq([name : Node, out : Outcome])
  /\ pc \in [Worker -> RunningPc \cup {"loop", "waiting", "exit"}]
  /\ current \in [Worker -> Node \cup {NoNode}]
  /\ out \in [Worker -> Outcome]
  /\ hb \in [Worker -> {"off", "idle", "posting"}]
  /\ buildHb \in {"off", "idle", "posting"}
  /\ reported \in [Node -> Status]
  /\ buildReported \in Status \ {"skip"}
  /\ ret \in {"none", "ok", "err"}

-----------------------------------------------------------------------------
(* Small decisions of the code, each one operator.                         *)

\* Faulty variants used to show that the properties can fail.
NeverDownstream(n) == FALSE
WakesNobody(p) == p
ForgetsSkips(w) == out[w] = "err"
NoWaitForHeartbeat(h) == TRUE
DropsNeverStarted == {}

\* remaining[n] as initialised: count of n's selected dependencies.
DepCount(n) == Cardinality(SelectedDeps(n))

\* isDownstreamOfFailed: some direct dependency of n is in failedSet.
IsDownstreamOfFailed(n) == \E d \in build.deps[n] : d \in failedSet

\* runNode's decision not to load a seed.
SeedSkipped(n) == n \in build.seeds /\ (build.noSeeds \/ build.test)

\* Broadcast: every waiter goes back to re-test its condition.
Broadcast(p) == [w \in Worker |-> IF p[w] = "waiting" THEN "loop" ELSE p[w]]

\* May a worker take a node from the queue?
MayDispatch == ready # <<>> /\ ~stopped

\* Does outcome o make the scheduler stop dispatching?
FailFastStops(o) == o = "err" /\ build.failFast

\* Does the outcome of worker w's node count as a failure downstream?  A seed
\* skipped because of --no-seeds does not.
CountsAsFailed(w) ==
  \/ out[w] = "err"
  \/ out[w] = "skip" /\ ~(build.noSeeds /\ current[w] \in build.seeds)

\* The function returned by startModelHeartbeat/startBuildHeartbeat closes
\* `done` and waits for the goroutine, which ends between two posts.
HeartbeatJoined(h) == h = "idle"

\* Selected nodes the pool never took.
NeverStarted == Selected \ started

-----------------------------------------------------------------------------
Init ==
  /\ build \in Builds
  /\ main = "connect"
  /\ ready = <<>> /\ started = {} /\ inFlight = 0 /\ completed = 0
  /\ remaining = [n \in Node |-> 0]
  /\ failedSet = {} /\ stopped = FALSE /\ Results = <<>>
  /\ pc = [w \in Worker |-> "exit"]
  /\ current = [w \in Worker |-> NoNode]
  /\ out = [w \in Worker |-> "ok"]
  /\ hb = [w \in Worker |-> "off"]
  /\ buildHb = "off"
  /\ reported = [n \in Node |-> "none"]
  /\ buildReported = "none"
  /\ ret = "none"

\* Execute returns: the last build status is sent (unless the build is a step
\* of a pipeline) and the main goroutine is done.
Return(r) ==
  /\ main' = "done"
  /\ ret' = r
  /\ buildReported' = IF build.report THEN r ELSE buildReported

\* Connect to the target.
Connect(ok) ==
  /\ main = "connect"
  /\ IF ok
     THEN main' = "schemas" /\ UNCHANGED <<ret, buildReported>>
     ELSE Return("err")
  /\ UNCHANGED <<build, queueVars, resultVars, workerVars, buildHb, reported>>

\* CreateSchemas, then set up the queue and spawn the workers.
Launch(ok) ==
  /\ main = "schemas"
  /\ IF ~ok \/ Total = 0
     THEN /\ Return(IF ok THEN "ok" ELSE "err")
          /\ UNCHANGED <<ready, remaining, pc, buildHb>>
     ELSE /\ main' = "wait" /\ ret' = ret
          /\ buildReported' = IF build.report THEN "running" ELSE buildReported
          /\ buildHb' = IF build.report THEN "idle" ELSE "off"
          /\ remaining' = [n \in Node |-> IF n \in Selected THEN DepCount(n) ELSE 0]
          /\ ready' \in InOrder({n \in Selected : remaining'[n] = 0})
          /\ pc' = [w \in Worker |-> IF w <= NWorkers THEN "loop" ELSE "exit"]
  /\ UNCHANGED <<build, started, inFlight, completed, resultVars, current, out, hb,
                 reported>>

-----------------------------------------------------------------------------
(* The worker goroutine w.                                                 *)

\* Nothing ready and work of others may still release some: cond.Wait.
Wait(w) ==
  /\ pc[w] = "loop"
  /\ ready = <<>> /\ ~stopped /\ completed + inFlight < Total
  /\ pc' = [pc EXCEPT ![w] = "waiting"]
  /\ UNCHANGED <<build, main, queueVars, resultVars, current, out, hb, storeVars, ret>>

\* Nothing left to do, or fail-fast: the goroutine ends.
Exit(w) ==
  /\ pc[w] = "loop"
  /\ \/ ready = <<>> /\ (stopped \/ completed + inFlight >= Total)
     \/ ready # <<>> /\ stopped
  /\ pc' = [pc EXCEPT ![w] = "exit"]
  /\ UNCHANGED <<build, main, queueVars, resultVars, current, out, hb, storeVars, ret>>

\* Take the head of the queue (a node already started is dropped).
Dispatch(w) ==
  /\ pc[w] = "loop"
  /\ MayDispatch
  /\ ready' = Tail(ready)
  /\ IF Head(ready) \in started
     THEN UNCHANGED <<started, inFlight, pc, current>>
     ELSE /\ started' = started \cup {Head(ready)}
          /\ inFlight' = inFlight + 1
          /\ pc' = [pc EXCEPT ![w] = "check"]
          /\ current' = [current EXCEPT ![w] = Head(ready)]
  /\ UNCHANGED <<build, main, completed, remaining, resultVars, out, hb, storeVars, ret>>

\* runNode up to the execution: skip the node, or report it running and start
\* its heartbeat.
Check(w) ==
  /\ pc[w] = "check"
  /\ LET n == current[w]
         skipped == IsDownstreamOfFailed(n) \/ SeedSkipped(n)
     IN /\ reported' = [reported EXCEPT ![n] = IF skipped THEN "skip" ELSE "running"]
        /\ out' = [out EXCEPT ![w] = IF skipped THEN "skip" ELSE "ok"]
        /\ hb' = [hb EXCEPT ![w] = IF skipped THEN "off" ELSE "idle"]
        /\ pc' = [pc EXCEPT ![w] = IF skipped THEN "record" ELSE "exec"]
  /\ UNCHANGED <<build, main, queueVars, resultVars, current, buildHb, buildReported, ret>>

\* executeSeed, executeModel or executeModelTests ends.
Run(w, o) ==
  /\ pc[w] = "exec"
  /\ out' = [out EXCEPT ![w] = o]
  /\ pc' = [pc EXCEPT ![w] = "stopHB"]
  /\ UNCHANGED <<build, main, queueVars, resultVars, current, hb, storeVars, ret>>

\* stopHB, then the final status of the node.
StopHeartbeat(w) ==
  /\ pc[w] = "stopHB"
  /\ HeartbeatJoined(hb[w])
  /\ hb' = [hb EXCEPT ![w] = IF hb[w] = "idle" THEN "off" ELSE hb[w]]
  /\ reported' = [reported EXCEPT ![current[w]] = out[w]]
  /\ pc' = [pc EXCEPT ![w] = "record"]
  /\ UNCHANGED <<build, main, queueVars, resultVars, current, out, buildHb, buildReported, ret>>

\* The second critical section: record the result, release the dependents,
\* wake the waiters, and go round the loop.
Record(w) ==
  /\ pc[w] = "record"
  /\ LET n == current[w] IN
     /\ Results' = Append(Results, [name |-> n, out |-> out[w]])
     /\ failedSet' = IF CountsAsFailed(w) THEN failedSet \cup {n} ELSE failedSet
     /\ stopped' = (stopped \/ FailFastStops(out[w]))
     /\ remaining' = [m \in Node |-> IF m \in Selected /\ n \in build.deps[m]
                                     THEN remaining[m] - 1 ELSE remaining[m]]
     /\ \E batch \in InOrder({m \in Selected \ started :
                                n \in build.deps[m] /\ remaining'[m] = 0}) :
          ready' = ready \o batch
     /\ inFlight' = inFlight - 1
     /\ completed' = completed + 1
     /\ pc' = [Broadcast(pc) EXCEPT ![w] = "loop"]
  /\ UNCHANGED <<build, main, started, current, out, hb, storeVars, ret>>

\* The ticker fires and the heartbeat goroutine of w's node takes a snapshot...
Tick(w) ==
  /\ hb[w] = "idle"
  /\ hb' = [hb EXCEPT ![w] = "posting"]
  /\ UNCHANGED <<build, main, queueVars, resultVars, pc, current, out, storeVars, ret>>

\* ... and sends it as a "running" status.
Post(w) ==
  /\ hb[w] = "posting"
  /\ hb' = [hb EXCEPT ![w] = "idle"]
  /\ reported' = [reported EXCEPT ![current[w]] = "running"]
  /\ UNCHANGED <<build, main, queueVars, resultVars, pc, current, out, buildHb,
                 buildReported, ret>>

-----------------------------------------------------------------------------
(* The build heartbeat and the end of Execute.                             *)

BuildTick ==
  /\ buildHb = "idle"
  /\ buildHb' = "posting"
  /\ UNCHANGED <<build, main, queueVars, resultVars, workerVars, reported, buildReported, ret>>

BuildPost ==
  /\ buildHb = "posting"
  /\ buildHb' = "idle"
  /\ buildReported' = "running"
  /\ UNCHANGED <<build, main, queueVars, resultVars, workerVars, reported, ret>>

\* wg.Wait returned: the nodes never started are recorded as skipped.
MarkSkipped ==
  /\ main = "wait"
  /\ \A w \in Worker : pc[w] = "exit"
  /\ main' = "summary"
  /\ \E batch \in InOrder(NeverStarted) :
       Results' = Results \o [i \in DOMAIN batch |-> [name |-> batch[i], out |-> "skip"]]
  /\ failedSet' = failedSet \cup NeverStarted
  /\ reported' = [n \in Node |-> IF n \in NeverStarted THEN "skip" ELSE reported[n]]
  /\ UNCHANGED <<build, queueVars, stopped, workerVars, buildHb, buildReported, ret>>

\* Collect the errors, stop the build heartbeat, report and return.
Finish ==
  /\ main = "summary"
  /\ build.report => HeartbeatJoined(buildHb)
  /\ buildHb' = IF buildHb = "idle" THEN "off" ELSE buildHb
  /\ Return(IF \E i \in 1 .. Len(Results) : Results[i].out = "err" THEN "err" ELSE "ok")
  /\ UNCHANGED <<build, queueVars, resultVars, workerVars, reported>>

\* Execute has returned; nothing more happens.
Done ==
  /\ main = "done"
  /\ UNCHANGED vars

WorkerStep(w) ==
  \/ Wait(w) \/ Exit(w) \/ Dispatch(w) \/ Check(w)
  \/ \E o \in {"ok", "err"} : Run(w, o)
  \/ StopHeartbeat(w) \/ Record(w)

MainStep == (\E ok \in BOOLEAN : Connect(ok) \/ Launch(ok)) \/ MarkSkipped \/ Finish

Next ==
  \/ MainStep
  \/ \E w \in Worker : WorkerStep(w) \/ Tick(w) \/ Post(w)
  \/ BuildTick \/ BuildPost
  \/ Done

(***************************************************************************)
(* Fairness: the Go scheduler runs every goroutine that can run, and a node *)
(* being run ends.  The two joins are strongly fair: `select` picks among   *)
(* the ready cases uniformly at random, so a heartbeat goroutine whose      *)
(* `done` is closed does not take the ticker's case for ever.               *)
(***************************************************************************)
Fairness ==
  /\ WF_vars(MainStep) /\ WF_vars(BuildPost)
  /\ SF_vars(Finish)
  /\ \A w \in Worker : /\ WF_vars(WorkerStep(w)) /\ WF_vars(Post(w))
                       /\ SF_vars(StopHeartbeat(w))

Spec == Init /\ [][Next]_vars /\ Fairness

-----------------------------------------------------------------------------
(* Properties.                                                             *)

OutcomeOf(n) == Results[CHOOSE i \in 1 .. Len(Results) : Results[i].name = n].out

\* A worker only holds a node whose selected dependencies all have a result:
\* "A node is dispatched as soon as its selected dependencies complete", and
\* never earlier, whatever the interleaving of the workers.
DependenciesFirst ==
  \A w \in Worker : pc[w] \in RunningPc => SelectedDeps(current[w]) \subseteq Finished

\* A node is only executed on top of good tables: while a worker executes it,
\* and once it has ended "ok" or "err", each selected dependency ended "ok" or
\* is a seed left alone by --no-seeds.
NoRunBelowFailure ==
  LET Executed(n) == \/ \E w \in Worker : Holds(w, n) /\ pc[w] \in {"exec", "stopHB"}
                     \/ \E i \in 1 .. Len(Results) :
                          Results[i].name = n /\ Results[i].out # "skip"
  IN \A n \in Selected : Executed(n) =>
       SelectedDeps(n) \subseteq Finished \ failedSet

\* When Execute returns after running the pool, every selected node has exactly
\* one result, and no worker is left with one in hand.
OneResultPerNode ==
  /\ \A i, j \in 1 .. Len(Results) : Results[i].name = Results[j].name => i = j
  /\ main \in {"summary", "done"} /\ Results # <<>> =>
       Finished = Selected /\ \A w \in Worker : pc[w] = "exit"

\* --fail-fast: "Stop on first failure (in-flight models finish)".  From the
\* moment the failure is recorded no further node is handed to a worker.
FailFast == [][stopped => started' = started]_vars

\* A final status is final: no late heartbeat ever sends "running" over the
\* last status of a node or of the build.
ReportsAreFinal ==
  [][/\ \A n \in Node : reported[n] \in Outcome => reported'[n] = reported[n]
     /\ buildReported \in {"ok", "err"} => buildReported' = buildReported]_vars

\* `sling build test`: "Run declarative data tests only (skip materialization
\* and seeds)".  A test build that returns without an error has run the tests
\* of every selected model.
TestsEveryModel ==
  build.test /\ ret = "ok" =>
    \A i \in 1 .. Len(Results) :
      Results[i].name \notin build.seeds => Results[i].out = "ok"

\* Execute returns: no lost wake-up leaves the pool waiting for ever.
Termination == <>(main = "done")

-----------------------------------------------------------------------------
(* What makes the properties above inductive.                              *)

\* Is the result r one that dependents must not build on?
BadResult(r) ==
  \/ r.out = "err"
  \/ r.out = "skip" /\ ~(build.noSeeds /\ r.name \in build.seeds)

\* Outside the main goroutine's wait there is no worker; before it there is
\* nothing to show.
PoolPhase ==
  /\ main # "wait" => \A w \in Worker : pc[w] = "exit"
  /\ main \in {"connect", "schemas"} => Results = <<>> /\ started = {} /\ stopped = FALSE
                                        /\ completed = 0 /\ inFlight = 0
  /\ main \in {"connect", "schemas", "done"} \/ ~build.report => buildHb = "off"
  /\ ret # "none" <=> main = "done"
  /\ buildReported \in {"ok", "err"} => main = "done"

\* A worker's node is its own, and has no result yet.
Ownership ==
  /\ \A w \in Worker : pc[w] \in RunningPc =>
       current[w] \in started /\ current[w] \notin Finished
  /\ \A v, w \in Worker : /\ pc[v] \in RunningPc /\ pc[w] \in RunningPc
                          /\ current[v] = current[w]
                          => v = w
  /\ main = "wait" => \A n \in started : n \in Finished \/ \E w \in Worker : Holds(w, n)

\* The queue and the counters say what they are meant to say.
Counters ==
  /\ started \subseteq Selected
  /\ main = "wait" =>
       /\ Finished \subseteq started
       /\ \A n \in Selected : remaining[n] = Cardinality(SelectedDeps(n) \ Finished)
       /\ \A i \in 1 .. Len(ready) : ready[i] \in Selected /\ remaining[ready[i]] = 0
       /\ \A n \in started : remaining[n] = 0
       /\ inFlight = Cardinality(Running)
       /\ completed + inFlight = Cardinality(started)

\* Fail-fast has a failure to show, and a worker leaves the pool only when
\* fail-fast stopped it or every selected node has been started.
PoolEnd ==
  /\ stopped => build.failFast /\ \E i \in 1 .. Len(Results) : Results[i].out = "err"
  /\ main = "wait" /\ (\E w \in 1 .. NWorkers : pc[w] = "exit") =>
       stopped \/ completed + inFlight >= Total
  /\ main = "wait" => Total > 0
  /\ main = "summary" \/ (main = "done" /\ Results # <<>>) => Finished = Selected

\* Each result is recorded once, and while the pool runs failedSet is the set
\* of the bad ones.  (Once it is done a seed that --no-seeds would have skipped
\* and fail-fast kept from starting is in failedSet too.)
ResultsOnce ==
  /\ Finished \subseteq Selected
  /\ \A i, j \in 1 .. Len(Results) : Results[i].name = Results[j].name => i = j
  /\ main = "wait" => \A i \in 1 .. Len(Results) :
                        Results[i].name \in failedSet <=> BadResult(Results[i])
  /\ failedSet \subseteq Finished

\* What runNode knew when it decided is still true when the result is recorded.
Decisions ==
  \A w \in Worker :
    /\ pc[w] \in {"exec", "stopHB"} \/ (pc[w] = "record" /\ out[w] # "skip") =>
         SelectedDeps(current[w]) \cap failedSet = {}
    /\ pc[w] = "record" /\ out[w] = "skip" =>
         IsDownstreamOfFailed(current[w]) \/ SeedSkipped(current[w])
    /\ pc[w] \in {"stopHB"} => out[w] # "skip"

\* A heartbeat lives only while its node is being run.
Heartbeats ==
  /\ \A w \in Worker : hb[w] # "off" => pc[w] \in {"exec", "stopHB"}
  /\ \A n \in Node : reported[n] \in Outcome =>
       n \in Finished \/ \E w \in Worker : Holds(w, n) /\ pc[w] = "record"

\* The results stay on good ground.
ResultsAbove ==
  \A i \in 1 .. Len(Results) : Results[i].out # "skip" =>
    SelectedDeps(Results[i].name) \subseteq Finished \ failedSet

IndInv == /\ TypeOK /\ PoolPhase /\ Ownership /\ Counters /\ PoolEnd
          /\ ResultsOnce /\ Decisions /\ Heartbeats /\ ResultsAbove

-----------------------------------------------------------------------------
(* The scheduler keeps the promise of BuildPromise.                        *)

outcomeBar == [n \in Node |-> IF n \in Finished THEN OutcomeOf(n) ELSE "none"]

Promise == INSTANCE BuildPromise WITH outcome <- outcomeBar

\* Every step of the scheduler settles nodes the way BuildPromise allows, or
\* changes nothing that it speaks of.
KeepsPromise == Promise!Spec
============================================================================
