----------------------------- MODULE MCApiQueue -----------------------------
(***************************************************************************)
(* Small instances of ApiQueue for TLC.  The streams are 1 to 4.            *)
(***************************************************************************)
EXTENDS ApiQueue

Plan(kinds, process, items, after, keep) ==
  [kind |-> kinds, process |-> process, items |-> items, after |-> after, keep |-> keep]

Nothing == [s \in Stream |-> {}]
Long == TRUE
Short == FALSE

\* A process each: a producer, two readers that tail it and a deferred one.
Threads(items) ==
  Plan(<<"producer", "immediate", "immediate", "deferred">>, <<1, 2, 3, 4>>,
       <<items, <<>>, <<>>, <<>>>>, [Nothing EXCEPT ![4] = {1}], TRUE)

\* One process: producers before and, as the last stream or not, after a deferred
\* consumer.
InOrder(last) ==
  Plan(<<"producer", "deferred", "producer", "deferred">>, <<1, 1, 1, 1>>,
       <<<<Long, Short>>, <<>>, <<Short>>, <<>>>>,
       [Nothing EXCEPT ![2] = {1}, ![3] = IF last THEN {2, 4} ELSE {}, ![4] = {1}], FALSE)

\* A process each: two producers, a reader that tails them and one that waits for them.
TwoWriters(items, others) ==
  Plan(<<"producer", "producer", "immediate", "deferred">>, <<1, 2, 3, 4>>,
       <<items, others, <<>>, <<>>>>, [Nothing EXCEPT ![4] = {1, 2}], TRUE)

AllPlans ==
  {Threads(items) : items \in {<<>>, <<Long>>, <<Short, Long>>}}
  \cup {InOrder(last) : last \in BOOLEAN}
  \cup {TwoWriters(<<>>, <<Long>>), TwoWriters(<<Short>>, <<Long>>)}

OneReader ==
  {Plan(<<"producer", "immediate", "none", "none">>, <<1, 2, 3, 4>>,
        <<<<Short, Long>>, <<>>, <<>>, <<>>>>, Nothing, TRUE)}
=============================================================================
