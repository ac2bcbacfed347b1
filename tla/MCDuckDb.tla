------------------------------ MODULE MCDuckDb ------------------------------
(* Instances of DuckDb for TLC. *)
EXTENDS DuckDb

Exec(does) == [kind |-> "exec", does |-> does]
Describe(does) == [kind |-> "print", does |-> does]
Select(does) == [kind |-> "select", does |-> does]

Session(queries) ==
  [queries |-> queries, setup |-> "ok", cancels |-> {}, stops |-> FALSE, dies |-> FALSE,
   hangs |-> FALSE, scarce |-> FALSE, stall |-> TRUE]

\* A failed query before others: of one statement, of several, and of a SELECT midway.
Failing == {
  Session(<<Exec(<<"err">>), Exec(<<"line", "line">>), Describe(<<"line">>)>>),
  Session(<<Exec(<<"err", "line", "err">>), Exec(<<"line">>), Describe(<<"err">>)>>),
  Session(<<Select(<<"row", "row", "row", "err">>), Select(<<"row", "row", "row">>)>>)}

\* Faults, with queries of every kind before and after.
Mixed == <<Exec(<<"line", "err">>), Select(<<"row", "row">>), Describe(<<"line">>)>>
Two == <<Select(<<"row", "row">>), Exec(<<"line">>)>>
Faulty ==
  {[Session(Mixed) EXCEPT !.dies = TRUE, !.stall = FALSE],
   [Session(Two) EXCEPT !.hangs = TRUE, !.stops = TRUE],
   [Session(Mixed) EXCEPT !.cancels = {1}], [Session(Two) EXCEPT !.cancels = {1, 2}]}

\* A line that the scanner cannot hold, alone and in a query that fails before it was read.
Long == {
  [Session(<<Describe(<<"line", "long", "line">>), Exec(<<"line">>)>>) EXCEPT !.stall = FALSE],
  [Session(<<Exec(<<"err", "long">>), Describe(<<"line">>), Exec(<<"line">>)>>) EXCEPT !.stall = FALSE]}

\* A process or a named pipe cannot be made, at times.
Scarce == {[Session(Two) EXCEPT !.scarce = TRUE, !.dies = d] : d \in BOOLEAN}

\* Sessions that are slow or fail to open.
Opening ==
  {[Session(<<Exec(<<"line">>), Select(<<"row">>)>>) EXCEPT !.setup = s, !.dies = d] :
     s \in {"locked", "fails"}, d \in BOOLEAN}

Sessions == Failing \cup Faulty \cup Long \cup Scarce \cup Opening
=============================================================================
