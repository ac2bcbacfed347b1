---------------------------- MODULE BuildPromise ----------------------------
(***************************************************************************)
(* What `sling build` promises, without workers, queues or counters: every *)
(* selected node settles once, on top of dependencies that settled well, or *)
(* it is skipped for a reason the user can be shown, and the build returns *)
(* an error exactly when some node ended in one.                           *)
(***************************************************************************)
CONSTANT Builds  \* compiled builds, as in BuildExecutor

VARIABLES
  build,    \* the build being run
  outcome,  \* per node "none", then "ok", "err" or "skip"
  ret       \* "none", then what the build returned

vars == <<build, outcome, ret>>

Selected == {build.selected[i] : i \in DOMAIN build.selected}
SelectedDeps(n) == build.deps[n] \cap Selected
Pending == {n \in Selected : outcome[n] = "none"}
Failed  == {n \in Selected : outcome[n] = "err"}

\* A dependency to build on: it ended well, or it is a seed the user asked to
\* leave alone.
Good(d) == \/ outcome[d] = "ok"
           \/ outcome[d] = "skip" /\ build.noSeeds /\ d \in build.seeds

\* Why a node may be skipped.
MaySkip(n) ==
  \/ \E d \in SelectedDeps(n) : outcome[d] \in {"err", "skip"} /\ ~Good(d)
  \/ n \in build.seeds /\ (build.noSeeds \/ build.test)
  \/ build.failFast /\ Failed # {}

Init ==
  /\ build \in Builds
  /\ outcome = [n \in DOMAIN build.deps |-> "none"]
  /\ ret = "none"

Execute(n, o) ==
  /\ ret = "none"
  /\ n \in Pending
  /\ \A d \in SelectedDeps(n) : Good(d)
  /\ outcome' = [outcome EXCEPT ![n] = o]
  /\ UNCHANGED <<build, ret>>

Skip(S) ==
  /\ ret = "none"
  /\ S \subseteq Pending
  /\ \A n \in S : MaySkip(n)
  /\ outcome' = [n \in DOMAIN outcome |-> IF n \in S THEN "skip" ELSE outcome[n]]
  /\ UNCHANGED <<build, ret>>

\* Either nothing could be started, or everything settled.
Return(r) ==
  /\ ret = "none"
  /\ \/ r = "err" /\ Pending = Selected
     \/ Pending = {} /\ (r = "err" <=> Failed # {})
  /\ ret' = r
  /\ UNCHANGED <<build, outcome>>

Next ==
  \/ \E n \in Selected, o \in {"ok", "err"} : Execute(n, o)
  \/ \E S \in SUBSET Selected : Skip(S)
  \/ \E r \in {"ok", "err"} : Return(r)

Spec == Init /\ [][Next]_vars
=============================================================================
