---------------------------- MODULE BuildProject ----------------------------
(***************************************************************************)
(* From a directory to the nodes a build executes: `sling build`            *)
(* (processBuild, cmd/sling/sling_build.go), Build.Compile and              *)
(* Build.Execute (core/sling/build/build.go), with the dependency graph and *)
(* the selectors (selector.go).                                             *)
(*                                                                          *)
(* A directory without a sling_build.yml whose subdirectories have one is a *)
(* set of independent projects, each compiled and executed by a goroutine   *)
(* of its own, as many at a time as a semaphore lets; any other directory   *)
(* is one project.  What the executor does is the subject of module         *)
(* BuildExecutor; here it is a step with a beginning and an end.            *)
(*                                                                          *)
(* Names are numbers, in the order in which sort.Strings puts them.  The    *)
(* references that templates and SQL make are given (DependsOn).            *)
(***************************************************************************)
EXTENDS Naturals, Sequences, FiniteSets

CONSTANTS
  Name,      \* names of models and seeds, of all projects
  Project,   \* the directories of projects, numbers in their order
  Target,    \* the connections a build may have as its target
  NoTarget,  \* no target is given
  Single,    \* the targets that allow one writer only (IsSingleWriterDB)
  Plans      \* the builds considered, a set of records

\* The content of a project.  Disabled models are not executed.
Content == [models : SUBSET Name, seeds : SUBSET Name, disabled : SUBSET Name,
            dependsOn : [Name -> SUBSET Name], target : Target \cup {NoTarget}]

\* A selector.  `of` is an exact name, or what a glob, a tag or a path matches; n is
\* the number of degrees of N+model and model+N; `to` is the end of a slice, which is
\* between two exact names.
Pattern == [kind : {"plain", "up", "down", "both", "upN", "downN", "slice"},
            exact : BOOLEAN, of : SUBSET Name, n : Nat, to : Name]

\* The projects found, and the command with its options; test takes the path of run.
IsPlan(b) ==
  /\ DOMAIN b.projects \subseteq Project /\ b.projects \in [DOMAIN b.projects -> Content]
  /\ b.independent \in BOOLEAN /\ b.command \in {"run", "list", "compile"}
  /\ b.target \in Target \cup {NoTarget} /\ b.threads \in Nat
  /\ b.select \in Seq(Pattern) /\ b.exclude \in Seq(Pattern)

ASSUME NameAssumption == Name \subseteq Nat /\ IsFiniteSet(Name)

ASSUME ProjectAssumption == Project \subseteq Nat /\ IsFiniteSet(Project)

ASSUME PlansAssumption ==
  \A b \in Plans :
    /\ IsPlan(b)
    /\ b.independent \/ Cardinality(DOMAIN b.projects) = 1
    /\ \A p \in DOMAIN b.projects : b.projects[p].models \cap b.projects[p].seeds = {}
    /\ \A pat \in {b.select[i] : i \in DOMAIN b.select} \cup {b.exclude[i] : i \in DOMAIN b.exclude} :
         pat.kind = "slice" => pat.exact

VARIABLES
  plan,       \* what is built
  main,       \* where processBuild is
  pc,         \* where each project is
  inDegree,   \* the locals of TopologicalSort, by project
  queue,
  order,      \* dag.Order
  selected,   \* b.Selected
  err,        \* why a project failed, "none" if it did not
  sem,        \* how many hold the semaphore
  errCh,      \* the projects whose error is in the channel
  subBuilds,  \* b.SubBuilds
  result      \* what processBuild returned

sortVars == <<inDegree, queue, order>>
poolVars == <<sem, errCh, subBuilds>>
vars == <<plan, main, pc, sortVars, selected, err, poolVars, result>>

Projects == DOMAIN plan.projects

-----------------------------------------------------------------------------
(* The dependency graph (BuildDAG).                                         *)

Nodes(p) ==
  LET c == plan.projects[p] IN (c.models \cup c.seeds) \ c.disabled

\* Faulty variants used to show that the properties can fail.
OnlyTheEnds(p, pat) == pat.of \cup {pat.to}
OneError == 1
OnlySuccesses(p) == err[p] = "none"

\* Dependencies: what is not known, like an external table, is dropped, and so is
\* a disabled model.  Seeds have none.
Dependencies(p, n) ==
  IF n \in plan.projects[p].models THEN plan.projects[p].dependsOn[n] \cap Nodes(p) ELSE {}

Dependents(p, n) == {m \in Nodes(p) : n \in Dependencies(p, m)}

\* The sequences that list S as sort.Strings does: one.
Sorted(S) ==
  {q \in [1..Cardinality(S) -> S] :
     /\ \A n \in S : \E i \in 1..Cardinality(S) : q[i] = n
     /\ \A i, j \in 1..Cardinality(S) : i < j => q[i] < q[j]}

Ordered(p) == {order[p][i] : i \in 1..Len(order[p])}

-----------------------------------------------------------------------------
(* Selectors (matchPattern and below).                                      *)

\* What the edges lead to from the nodes S in at most k steps (GetUpstreamN,
\* GetDownstreamN), and in any number (GetUpstream, GetDownstream).
ReachN(edges, S, k) ==
  LET f[j \in Nat] == IF j = 0 THEN {} ELSE f[j - 1] \cup UNION {edges[n] : n \in S \cup f[j - 1]}
  IN f[k]
Reach(edges, S) == ReachN(edges, S, Cardinality(S) + Cardinality(DOMAIN edges))

UpEdges(p) == [n \in Nodes(p) |-> Dependencies(p, n)]
DownEdges(p) == [n \in Nodes(p) |-> Dependents(p, n)]

\* matchSlice.
Slice(p, pat) ==
  pat.of \cup {pat.to}
    \cup (Reach(UpEdges(p), {pat.to}) \cap (Reach(DownEdges(p), pat.of) \cup pat.of))

\* An exact name must be a node; a slice between others is looked up as one name,
\* and not found.
Invalid(p, pat) ==
  pat.exact /\ ~(pat.of \cup (IF pat.kind = "slice" THEN {pat.to} ELSE {}) \subseteq Nodes(p))

MatchPattern(p, pat) ==
  LET of == pat.of \cap Nodes(p) IN
  CASE pat.kind = "plain" -> of
    [] pat.kind = "up"    -> of \cup Reach(UpEdges(p), of)
    [] pat.kind = "down"  -> of \cup Reach(DownEdges(p), of)
    [] pat.kind = "both"  -> of \cup Reach(UpEdges(p), of) \cup Reach(DownEdges(p), of)
    [] pat.kind = "upN"   -> of \cup UNION {ReachN(UpEdges(p), {n}, pat.n) : n \in of}
    [] pat.kind = "downN" -> of \cup UNION {ReachN(DownEdges(p), {n}, pat.n) : n \in of}
    [] pat.kind = "slice" -> Slice(p, pat)

Matched(p, patterns) == UNION {MatchPattern(p, patterns[i]) : i \in DOMAIN patterns}

\* Selector.Apply: the selected names in the order of dag.Order.
Apply(p) ==
  LET included == IF plan.select = <<>> THEN Ordered(p) ELSE Matched(p, plan.select)
      places == {i \in 1..Len(order[p]) : order[p][i] \in included \ Matched(p, plan.exclude)}
  IN {[k \in DOMAIN q |-> order[p][q[k]]] : q \in Sorted(places)}

SelectorFails(p) == \E pat \in {plan.select[i] : i \in DOMAIN plan.select}
                          \cup {plan.exclude[i] : i \in DOMAIN plan.exclude} : Invalid(p, pat)

-----------------------------------------------------------------------------
(* Targets and threads.                                                     *)

\* GetTarget of a project.
TargetOf(p) == IF plan.target # NoTarget THEN plan.target ELSE plan.projects[p].target

\* The semaphore: one at a time if the target allows one writer only.  The root of
\* independent projects has no configuration: its target is that of --target.
Threads ==
  LET threads == IF plan.threads < 1 THEN 1 ELSE plan.threads
  IN IF plan.target \in Single THEN 1 ELSE threads

\* The capacity of errCh.
ErrCap == Cardinality(Projects)

\* Which projects are kept in SubBuilds: a failed one has results to report too.
Collected(p) == TRUE

-----------------------------------------------------------------------------
Label == {"idle", "resolve", "sort", "select", "compiled", "execute", "collect",
          "failed", "release", "done"}
Reason == {"none", "target", "template", "cycle", "selector", "execute"}

TypeOK ==
  /\ plan \in Plans
  /\ main \in {"load", "compile", "single", "pool", "done"}
  /\ pc \in [Projects -> Label] /\ err \in [Projects -> Reason]
  /\ inDegree \in [Projects -> [Name -> Nat]]
  /\ queue \in [Projects -> Seq(Name)] /\ order \in [Projects -> Seq(Name)]
  /\ selected \in [Projects -> Seq(Name)]
  /\ sem \in Nat /\ errCh \subseteq Projects /\ subBuilds \in Seq(Projects)
  /\ result \in {"none", "nil", "err"}

Init ==
  /\ plan \in Plans
  /\ main = "load"
  /\ pc = [p \in Projects |-> "idle"] /\ err = [p \in Projects |-> "none"]
  /\ inDegree = [p \in Projects |-> [n \in Name |-> 0]]
  /\ queue = [p \in Projects |-> <<>>] /\ order = queue /\ selected = queue
  /\ sem = 0 /\ errCh = {} /\ subBuilds = <<>>
  /\ result = "none"

Goto(p, label) == pc' = [pc EXCEPT ![p] = label]
Fail(p, why) == Goto(p, "failed") /\ err' = [err EXCEPT ![p] = why]

-----------------------------------------------------------------------------
(* Build.Compile of a project without sub-projects.                         *)

\* The target is needed by everything but list.
NoTargetGiven(p) ==
  /\ pc[p] = "resolve" /\ TargetOf(p) = NoTarget /\ plan.command # "list"
  /\ Fail(p, "target")
  /\ UNCHANGED <<plan, main, sortVars, selected, poolVars, result>>

\* A template, a reference or a statement cannot be compiled.
TemplateFails(p) ==
  /\ pc[p] = "resolve" /\ Fail(p, "template")
  /\ UNCHANGED <<plan, main, sortVars, selected, poolVars, result>>

\* Templates are compiled, BuildDAG builds the graph and starts to sort it: the
\* nodes without dependencies are in the queue.
BuildDAG(p) ==
  /\ pc[p] = "resolve" /\ (TargetOf(p) # NoTarget \/ plan.command = "list")
  /\ Goto(p, "sort") /\ err' = err
  /\ inDegree' = [inDegree EXCEPT ![p] = [n \in Name |-> Cardinality(Dependencies(p, n))]]
  /\ \E q \in Sorted({n \in Nodes(p) : Dependencies(p, n) = {}}) : queue' = [queue EXCEPT ![p] = q]
  /\ UNCHANGED <<plan, main, order, selected, poolVars, result>>

\* The dependents whose last dependency is `name`; and a faulty variant.
ReleasesEarly(p, name) == Dependents(p, name)
Released(p, name) == {m \in Dependents(p, name) : inDegree[p][m] = 1}

\* One turn of the loop of TopologicalSort.
Pop(p) ==
  LET name == Head(queue[p]) IN
  /\ pc[p] = "sort" /\ queue[p] # <<>>
  /\ order' = [order EXCEPT ![p] = Append(@, name)]
  /\ inDegree' = [inDegree EXCEPT ![p] =
                    [n \in Name |-> IF n \in Dependents(p, name) THEN @[n] - 1 ELSE @[n]]]
  /\ \E q \in Sorted(Released(p, name)) : queue' = [queue EXCEPT ![p] = Tail(@) \o q]
  /\ UNCHANGED <<plan, main, pc, selected, err, poolVars, result>>

\* A node that was not reached is on a cycle or behind one.
SortEnds(p) ==
  /\ pc[p] = "sort" /\ queue[p] = <<>>
  /\ IF Len(order[p]) # Cardinality(Nodes(p)) THEN Fail(p, "cycle")
     ELSE Goto(p, "select") /\ err' = err
  /\ UNCHANGED <<plan, main, sortVars, selected, poolVars, result>>

\* The selectors are applied.  When independent projects are only compiled, Compile
\* keeps each of them for the output.
SelectNodes(p) ==
  /\ pc[p] = "select"
  /\ IF SelectorFails(p) THEN Fail(p, "selector") /\ selected' = selected
     ELSE /\ Goto(p, "compiled") /\ err' = err
          /\ \E names \in Apply(p) : selected' = [selected EXCEPT ![p] = names]
  /\ subBuilds' = IF main = "compile" /\ plan.independent /\ ~SelectorFails(p)
                  THEN Append(subBuilds, p) ELSE subBuilds
  /\ UNCHANGED <<plan, main, sortVars, sem, errCh, result>>

CompileStep(p) ==
  NoTargetGiven(p) \/ TemplateFails(p) \/ BuildDAG(p) \/ Pop(p) \/ SortEnds(p) \/ SelectNodes(p)

-----------------------------------------------------------------------------
(* Executing a compiled project: by its goroutine, or by main.              *)

ExecuteBegins(p) ==
  /\ pc[p] = "compiled" /\ main \in {"pool", "single"}
  /\ Goto(p, "execute")
  /\ UNCHANGED <<plan, main, sortVars, selected, err, poolVars, result>>

\* NewExecutor fails, or Execute returns, with an error or without.
ExecuteEnds(p) ==
  /\ pc[p] = "execute"
  /\ Goto(p, "collect")
  /\ err' \in {err, [err EXCEPT ![p] = "execute"]}
  /\ UNCHANGED <<plan, main, sortVars, selected, poolVars, result>>

\* The goroutine of an independent project: SubBuilds under mu, its error, if it
\* has one, on errCh, and the deferred release.
Collect(p) ==
  /\ pc[p] = "collect" /\ main = "pool"
  /\ subBuilds' = IF Collected(p) THEN Append(subBuilds, p) ELSE subBuilds
  /\ Goto(p, IF err[p] = "none" THEN "release" ELSE "failed")
  /\ UNCHANGED <<plan, main, sortVars, selected, err, sem, errCh, result>>

SendError(p) ==
  /\ pc[p] = "failed" /\ main = "pool"
  /\ Cardinality(errCh) < ErrCap
  /\ errCh' = errCh \cup {p}
  /\ Goto(p, "release")
  /\ UNCHANGED <<plan, main, sortVars, selected, err, sem, subBuilds, result>>

Release(p) ==
  /\ pc[p] = "release"
  /\ sem' = sem - 1
  /\ Goto(p, "done")
  /\ UNCHANGED <<plan, main, sortVars, selected, err, errCh, subBuilds, result>>

ProjectStep(p) ==
  CompileStep(p) \/ ExecuteBegins(p) \/ ExecuteEnds(p) \/ Collect(p) \/ SendError(p) \/ Release(p)

-----------------------------------------------------------------------------
(* processBuild.                                                            *)

Return(r) ==
  /\ main' = "done" /\ result' = r
  /\ UNCHANGED <<plan, pc, sortVars, selected, err, sem, errCh>>

\* NewBuild: loading a project may fail.
LoadFails == main = "load" /\ Return("err") /\ subBuilds' = subBuilds

\* Compile does nothing for independent projects that are to be run.
Load ==
  /\ main = "load"
  /\ main' = IF plan.independent /\ plan.command = "run" THEN "pool" ELSE "compile"
  /\ UNCHANGED <<plan, pc, sortVars, selected, err, poolVars, result>>

\* Otherwise one project is compiled after the other, in any order (they come out
\* of a map); the first error ends it.
CompileNext(p) ==
  /\ main = "compile" /\ pc[p] = "idle"
  /\ \A q \in Projects : pc[q] \in {"idle", "compiled"}
  /\ Goto(p, "resolve")
  /\ UNCHANGED <<plan, main, sortVars, selected, err, poolVars, result>>

CompileFailed ==
  /\ main = "compile" /\ \E p \in Projects : pc[p] = "failed"
  /\ Return("err") /\ subBuilds' = subBuilds

AllCompiled ==
  /\ main = "compile" /\ \A p \in Projects : pc[p] = "compiled"
  /\ IF plan.command = "run"
     THEN main' = "single" /\ UNCHANGED <<plan, pc, sortVars, selected, err, poolVars, result>>
     ELSE Return("nil") /\ subBuilds' = subBuilds

SingleDone ==
  /\ main = "single"
  /\ \E p \in Projects : pc[p] = "collect" /\ Return(IF err[p] = "none" THEN "nil" ELSE "err")
  /\ subBuilds' = subBuilds

\* The loop over the independent projects acquires the semaphore and starts one.
Spawn(p) ==
  /\ main = "pool" /\ pc[p] = "idle" /\ sem < Threads
  /\ sem' = sem + 1
  /\ Goto(p, "resolve")
  /\ UNCHANGED <<plan, main, sortVars, selected, err, errCh, subBuilds, result>>

\* wg.Wait returns; SubBuilds are sorted by directory, and the errors joined.
PoolDone ==
  /\ main = "pool" /\ \A p \in Projects : pc[p] = "done"
  /\ \E q \in Sorted({subBuilds[i] : i \in 1..Len(subBuilds)}) : subBuilds' = q
  /\ Return(IF errCh = {} THEN "nil" ELSE "err")

MainStep ==
  \/ LoadFails \/ Load \/ CompileFailed \/ AllCompiled \/ SingleDone \/ PoolDone
  \/ \E p \in Projects : CompileNext(p) \/ Spawn(p)

Over == main = "done" /\ UNCHANGED vars

Next == MainStep \/ (\E p \in Projects : ProjectStep(p)) \/ Over

\* Every goroutine goes on: databases and templates answer.
Spec == Init /\ [][Next]_vars /\ WF_vars(MainStep) /\ \A p \in Project : WF_vars(p \in Projects /\ ProjectStep(p))

-----------------------------------------------------------------------------
(* Properties.                                                              *)

\* The projects whose graph has been sorted.
SortDone(p) == pc[p] \in {"select", "compiled", "execute", "collect"} \/ err[p] \in {"selector", "execute"}

\* Every node on it waits for another one on it.
Knot(p, S) == S # {} /\ \A n \in S : Dependencies(p, n) \cap S # {}

\* The order of the nodes has each of them once, none before what it depends on,
\* and in the end all of them; a project is refused if and only if it has a cycle:
\* edges to disabled models and unknown tables do not count, a model that names
\* itself does (BuildDAG, TopologicalSort).
OrderIsTopological ==
  \A p \in Projects :
    /\ \A i, j \in 1..Len(order[p]) : order[p][i] = order[p][j] => i = j
    /\ \A i \in 1..Len(order[p]) : \A d \in Dependencies(p, order[p][i]) :
         \E j \in 1..(i - 1) : order[p][j] = d
    /\ SortDone(p) => Ordered(p) = Nodes(p) /\ \A S \in SUBSET Nodes(p) : ~Knot(p, S)
    /\ err[p] = "cycle" => \E S \in SUBSET Nodes(p) : Knot(p, S)

\* What a pattern means, said without walking the graph: upstream of S is the
\* least set with the dependencies of S and of its own members; within n degrees
\* is the end of a path of at most n edges.
UpstreamOf(p, S) ==
  {x \in Nodes(p) : \A T \in SUBSET Nodes(p) :
     (\A n \in S \cup T : Dependencies(p, n) \subseteq T) => x \in T}
PathTo(p, a, b, n) ==
  \E len \in 1..n : \E path \in [0..len -> Nodes(p)] :
    /\ path[0] = a /\ path[len] = b
    /\ \A i \in 1..len : path[i] \in Dependencies(p, path[i - 1])
Means(p, pat, x) ==
  LET of == pat.of \cap Nodes(p)
      above == x \in UpstreamOf(p, of)
      below == \E n \in of : n \in UpstreamOf(p, {x})
  IN \/ x \in of
     \/ pat.kind \in {"up", "both"} /\ above
     \/ pat.kind \in {"down", "both"} /\ below
     \/ pat.kind = "upN" /\ \E n \in of : PathTo(p, n, x, pat.n)
     \/ pat.kind = "downN" /\ \E n \in of : PathTo(p, x, n, pat.n)
     \/ pat.kind = "slice" /\ (x = pat.to \/ (below /\ x \in UpstreamOf(p, {pat.to})))

\* The nodes that are executed are those the selectors ask for, less the excluded
\* ones, in the order of the graph (Selector.Apply).
SelectsAsAsked ==
  \A p \in Projects : pc[p] = "compiled" =>
    LET asked == {x \in Nodes(p) :
                    /\ plan.select = <<>> \/ \E i \in DOMAIN plan.select : Means(p, plan.select[i], x)
                    /\ ~\E i \in DOMAIN plan.exclude : Means(p, plan.exclude[i], x)}
    IN /\ {selected[p][i] : i \in 1..Len(selected[p])} = asked
       /\ \A i, j \in 1..Len(selected[p]) : i < j =>
            \E k, l \in 1..Len(order[p]) :
              k < l /\ order[p][k] = selected[p][i] /\ order[p][l] = selected[p][j]

\* When independent projects were run, each has been tried whatever happened to
\* the others; those that compiled are reported, once and in the order of their
\* directories; and an error is returned if and only if one of them failed.
ProjectsReported ==
  result # "none" /\ plan.independent /\ plan.command = "run"
     /\ (\E p \in Projects : pc[p] # "idle") =>
    /\ \A p \in Projects : pc[p] = "done"
    /\ {subBuilds[i] : i \in 1..Len(subBuilds)} = {p \in Projects : err[p] \in {"none", "execute"}}
    /\ \A i, j \in 1..Len(subBuilds) : i < j => subBuilds[i] < subBuilds[j]
    /\ result = "err" <=> \E p \in Projects : err[p] # "none"

\* Two projects are never executed at once against a target that allows one writer.
\* The code does not keep this when the root has no target (build.go:277), so no run
\* lists it.
OneWriter ==
  \A p, q \in Projects :
    pc[p] = "execute" /\ pc[q] = "execute" /\ TargetOf(p) = TargetOf(q) /\ TargetOf(p) \in Single
      => p = q

\* `sling build` returns: no error is left waiting for room on errCh, and the
\* semaphore is given back on every path.
Returns == <>(result # "none")
=============================================================================
