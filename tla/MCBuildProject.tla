--------------------------- MODULE MCBuildProject ---------------------------
(***************************************************************************)
(* Small instances of BuildProject for TLC.                                *)
(***************************************************************************)
EXTENDS BuildProject, TLC

\* Who depends on whom: given as the pairs <<model, dependency>>.
Graph(pairs) == [n \in Name |-> {m \in Name : <<n, m>> \in pairs}]

Of(models, seeds, disabled, edges, target) ==
  [models |-> models, seeds |-> seeds, disabled |-> disabled, dependsOn |-> edges,
   target |-> target]

One(content) ==
  [projects |-> (1 :> content), independent |-> FALSE, command |-> "run", target |-> NoTarget,
   threads |-> 1, select |-> <<>>, exclude |-> <<>>]

\* One project: every graph of three models, among them one that is disabled or not.
Graphs3 ==
  {One(Of({1, 2, 3}, {}, d, [n \in Name |-> IF n \in {1, 2, 3} THEN g[n] ELSE {}], "pg")) :
     d \in {{}, {2}}, g \in [1..3 -> SUBSET (1..3)]}

Chain == Graph({<<2, 1>>, <<3, 2>>, <<4, 3>>})
Diamond == Graph({<<2, 1>>, <<3, 1>>, <<4, 2>>, <<4, 3>>})
Shortcut == Graph({<<2, 1>>, <<3, 2>>, <<4, 3>>, <<4, 1>>})

Pat(kind, n, k, to) == [kind |-> kind, exact |-> TRUE, of |-> {n}, n |-> k, to |-> to]
Patterns ==
  {Pat(kind, n, 1, 4) : kind \in {"plain", "up", "down", "both", "upN", "downN", "slice"}, n \in {1, 2, 3}}
  \cup {Pat(kind, n, 2, 3) : kind \in {"upN", "downN", "slice"}, n \in {2, 4}}
  \cup {[Pat(kind, 1, 1, 4) EXCEPT !.exact = FALSE, !.of = {2, 3}] :
          kind \in {"plain", "up", "down", "upN"}}

\* Selectors on a seed and three models.
Selections ==
  {[One(Of({2, 3, 4}, {1}, d, g, "pg")) EXCEPT !.select = s, !.exclude = x] :
     d \in {{}, {3}}, g \in {Chain, Diamond, Shortcut},
     s \in {<<>>} \cup {<<pat>> : pat \in Patterns},
     x \in {<<>>, <<Pat("plain", 2, 0, 1)>>, <<Pat("down", 3, 0, 1)>>}}

\* Other commands, and no target.
Commands ==
  {[One(Of({1, 2}, {}, {}, Graph({<<2, 1>>}), t)) EXCEPT !.command = c] :
     t \in {"pg", NoTarget}, c \in {"list", "compile", "run"}}

\* Three independent projects; the third has a cycle, or its own target.
Two(g, t) == Of({1, 2}, {}, {}, g, t)
Independent(ts, c, t, threads) ==
  [projects |-> [p \in 1..3 |-> Two(IF p = 3 THEN Graph({<<1, 2>>, <<2, 1>>}) ELSE Graph({<<2, 1>>}), ts[p])],
   independent |-> TRUE, command |-> c, target |-> t, threads |-> threads,
   select |-> <<>>, exclude |-> <<>>]
Pools ==
  {Independent(<<"pg", "duck", NoTarget>>, c, t, threads) :
     c \in {"run", "compile"}, t \in {NoTarget, "duck", "pg"}, threads \in {0, 2}}
  \cup {Independent(<<"duck", "duck", "duck">>, "run", "duck", 3),
        Independent(<<"duck", "duck", "pg">>, "run", NoTarget, 4)}

AllPlans == Graphs3 \cup Selections \cup Commands \cup Pools
=============================================================================
