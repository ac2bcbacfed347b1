-------------------------- MODULE MCBuildExecutor --------------------------
(***************************************************************************)
(* Small instances of BuildExecutor for TLC.                               *)
(***************************************************************************)
EXTENDS BuildExecutor, SequencesExt

\* Every graph over a seed and three models in which a model depends on a
\* subset of the nodes before it.
Graphs4 == {("s" :> {}) @@ ("a" :> x) @@ ("b" :> y) @@ ("c" :> z) :
             x \in SUBSET {"s"}, y \in SUBSET {"s", "a"}, z \in SUBSET {"s", "a", "b"}}

Base == [selected |-> <<>>, deps |-> <<>>, seeds |-> {"s"}, threads |-> 2,
         singleWriter |-> FALSE, noSeeds |-> FALSE, test |-> FALSE,
         failFast |-> FALSE, report |-> FALSE]

Order == <<"s", "a", "b", "c">>
AllNodes == ToSet(Order)

\* One seed and three models in every graph; then, on the graphs with an edge
\* out of the seed and one into "c", a failure stopping the build, the seed left
\* alone, and the middle model not selected.
Chained == {d \in Graphs4 : d["a"] = {"s"} /\ "b" \in d["c"]}

FourNodes ==
  {[Base EXCEPT !.selected = Order, !.deps = d] : d \in Graphs4}
  \cup {[Base EXCEPT !.selected = Order, !.deps = d, !.failFast = TRUE] : d \in Chained}
  \cup {[Base EXCEPT !.selected = Order, !.deps = d, !.noSeeds = TRUE] : d \in Chained}
  \cup {[Base EXCEPT !.selected = <<"s", "b", "c">>, !.deps = d] : d \in Chained}

Order3 == <<"s", "a", "b">>
Graphs3 == {("s" :> {}) @@ ("a" :> x) @@ ("b" :> y) @@ ("c" :> {}) :
             x \in SUBSET {"s"}, y \in SUBSET {"s", "a"}}

\* `sling build test` on a model that reads a seed.
TestBuilds ==
  {[Base EXCEPT !.selected = Order3, !.deps = d, !.test = TRUE] : d \in Graphs3}

\* Three nodes, all flags; then a model before the seed, so that fail-fast can
\* keep a seed from starting; then the test builds.
ThreeNodes ==
  {[Base EXCEPT !.selected = sel, !.deps = d, !.noSeeds = ns, !.failFast = ff,
                !.threads = t, !.report = (t = 2)] :
     sel \in {Order3, <<>>}, d \in Graphs3, ns \in BOOLEAN, ff \in BOOLEAN, t \in {0, 2}}
  \cup {[Base EXCEPT !.selected = <<"a", "s", "b">>,
                     !.deps = ("s" :> {}) @@ ("a" :> {}) @@ ("b" :> {"s"}) @@ ("c" :> {}),
                     !.noSeeds = TRUE, !.failFast = TRUE, !.singleWriter = sw] :
          sw \in BOOLEAN}
  \cup TestBuilds

\* Every instance above, for one run.
AllBuilds == FourNodes \cup ThreeNodes
============================================================================
