----------------------------- MODULE MCDataflow -----------------------------
(***************************************************************************)
(* Small instances of Dataflow for TLC.                                    *)
(***************************************************************************)
EXTENDS Dataflow

CONSTANTS s1, s2, col

Two == {s1, s2}
TwoInOrder == <<s1, s2>>
OneColumn == {col}

\* What the two streams have.
Both(x, y) == [s \in Two |-> IF s = s1 THEN x ELSE y]
None == [i \in 1..NRows |-> {}]
At(i) == [None EXCEPT ![i] = {col}]

Quiet == [rows |-> Both(2, 1), init |-> Both({}, {}), add |-> Both(None, None),
          type |-> Both({}, {}), batchLimit |-> 0, fileLimit |-> 0, shapes |-> FALSE,
          addNew |-> TRUE, adjust |-> TRUE, cancels |-> FALSE]

\* One stream or both find a column or a value that does not fit: first the
\* columns; then the types, where the second stream starts with a change to
\* make because of the first, which finds another one; then with a batch_limit,
\* without handlers, and cancelled.
Changing ==
  {[Quiet EXCEPT !.rows = Both(2, 2), !.add = Both(x, At(2))] : x \in {None, At(2)}}
  \cup {[Quiet EXCEPT !.rows = Both(3, 1), !.type = Both({2, 3}, {})]}
  \cup {[Quiet EXCEPT !.add = Both(At(2), None), !.type = Both({}, {}), !.batchLimit = 1]}
  \cup {[Quiet EXCEPT !.add = Both(At(2), None), !.type = Both({2}, {}),
                      !.addNew = FALSE, !.adjust = FALSE]}
  \cup {[Quiet EXCEPT !.rows = Both(1, 1), !.cancels = TRUE]}

\* An importer that closes batches, and one that pauses the stream it reads.
Importers == {[Quiet EXCEPT !.rows = Both(3, 0), !.fileLimit = 2],
              [Quiet EXCEPT !.shapes = TRUE, !.init = Both({col}, {col})]}

\* The second stream starts with a column of its own, or finds it in its first row.
Wider == {[Quiet EXCEPT !.rows = Both(1, 1), !.init = Both({}, {col})],
          [Quiet EXCEPT !.rows = Both(1, 1), !.add = Both(None, At(1))]}

\* The second stream pauses the first while the importer does.
Crossing == {[Quiet EXCEPT !.shapes = TRUE, !.type = Both({}, {1})]}

Runs == Changing \cup Importers \cup Wider \cup Crossing
=============================================================================
