---------------------------- MODULE Dataflow_proofs ----------------------------
(***************************************************************************)
(* Proofs about the dataflow: rows reach the importer once and in a batch   *)
(* that fits, and nobody sends while a handler alters the table, for any    *)
(* number of streams and rows.                                              *)
(***************************************************************************)
EXTENDS Dataflow, Integers, TLAPS
(***************************************************************************)
(* Where the goroutines may be.                                             *)
(***************************************************************************)

\* Inside df.mux, in the loop of Pause or of Unpause; with the dataflow paused; and
\* anywhere on the way.
Looping == {"try", "undo", "undoClear", "release", "releaseClear"}
Holding == {"lock", "ddl", "create", "configure", "unp", "release", "releaseClear"}
Begun   == Looping \cup Holding
Pausing == {"handle", "pause"} \cup (Begun \ {"create", "configure"})

\* The importer before it takes its first stream, and while it has one.
Early == {"start", "pause", "failed"} \cup (Begun \ {"lock", "ddl"})
Importing == {"batch", "rows", "fclose", "shape", "shapePause", "shapeSet", "shapeRelease",
              "shapeClear", "misfit"}

Positions ==
  /\ \A s \in Streams : pc[s] \in {"next", "loop", "push", "send", "wait", "close", "done"} \cup Pausing
  /\ pc[pusher] \in {"merge", "join", "push", "done"} \cup Pausing
  /\ pc[main] \in {"take", "done"} \cup Early \cup Importing

(***************************************************************************)
(* The inductive invariant.                                                 *)
(***************************************************************************)

\* The streams that arrived: those of the dataflow are the first of Order, and the one
\* that joins is the next.
Arrivals ==
  /\ Len(streams) <= Len(Order) /\ \A i \in 1..Len(streams) : streams[i] = Order[i]
  /\ pc[pusher] \in {"join", "push"} \cup Pausing => Len(streams) < Len(Order)
  /\ pc[pusher] \in {"join"} \cup Pausing => streams # <<>>
  /\ dfClosed <=> pc[pusher] = "done"
  /\ \A s \in InFlow : joined[s]
  /\ pc[pusher] = "push" => joined[Arriving]
  /\ \A s \in Streams : joined[s] => s \in InFlow \/ (pc[pusher] = "push" /\ s = Arriving)
  /\ \A s \in Streams : pc[s] \in Pausing => joined[s]
  /\ ready => streams # <<>> \/ Len(Order) = 0
  /\ \A a \in Actors : pc[a] \in Begun => ready

\* How many streams the importer has taken.
Taken == Len(streams) - Len(streamCh)

\* It takes them in order, and each when the one before is closed.
Import ==
  /\ Len(streamCh) <= 1 /\ Len(streamCh) <= Len(streams)
  /\ streamCh # <<>> => Head(streamCh) = streams[Len(streams)]
  /\ pc[main] \in Early => Taken = 0
  /\ pc[main] \in Importing => Taken > 0
  /\ Taken > 0 => cds = streams[Taken]
  /\ \A i \in 1..Taken : i < Taken \/ pc[main] \in {"take", "done"} => closed[streams[i]]
  /\ pc[main] = "done" => streamCh = <<>> /\ dfClosed
  /\ pc[main] \in Importing => cb <= Len(bcols[cds])
  /\ pc[main] \in Importing \ {"batch"} => cb > 0
  /\ pc[main] = "fclose" => plan.fileLimit # 0

\* Where a stream is, or goes on when it is unpaused.
Place(s) == IF pc[s] = "wait" THEN ret[s] ELSE pc[s]

\* What has been read of a stream is what was received, and the row in hand.
InHand(s) ==
  LET n == Len(recv[s]) IN
  /\ \A k \in 1..n : recv[s][k].row = k
  /\ row[s] <= plan.rows[s]
  /\ Place(s) = "next" => \/ repro[s] = 0 /\ row[s] = n
                          \/ repro[s] = n + 1 /\ row[s] = n + 1
  /\ Place(s) \in {"loop", "push", "send"} \cup Pausing => repro[s] = 0 /\ cur[s] = n + 1 /\ row[s] = n + 1
  /\ Place(s) \in {"close", "done"} => cancelled \/ err \/ (row[s] = n /\ n = plan.rows[s])
  /\ closed[s] <=> pc[s] = "done"

InHands == \A s \in Streams : InHand(s)

\* The columns of a stream are those of its open batch, but for queued changes; and a
\* row that is pushed has none before it, unless it is the first.
Last(s) == bcols[s][Len(bcols[s])]
ColsOf(q) == UNION {q[i].cols : i \in 1..Len(q)}
Columns(s) ==
  /\ Len(bcols[s]) > 0
  /\ \A i \in 1..row[s] : plan.add[s][i] \subseteq cols[s]
  /\ open[s] => cols[s] \subseteq Last(s) \cup ColsOf(queue[s])
  /\ pc[s] \in {"push", "send"} => queue[s] = <<>> \/ cur[s] = 1
  /\ ~joined[s] => recv[s] = <<>>
  /\ \A k \in 1..Len(recv[s]) :
       /\ recv[s][k].batch \in 1..Len(bcols[s])
       /\ recv[s][k].row > 1 => plan.add[s][recv[s][k].row] \subseteq bcols[s][recv[s][k].batch]
AllColumns == \A s \in Streams : Columns(s)

\* The locks.
Locks ==
  /\ \A a \in Actors : pc[a] \in Looping <=> mux = a
  /\ \A a \in Actors : pc[a] = "ddl" <=> ddlBy = a
  /\ idx \in Nat \ {0} /\ (mux # NoOne => idx <= Len(streams) + 1)
  /\ \A a \in Actors : pc[a] \in {"undoClear", "releaseClear"} => idx <= Len(streams)

\* The streams an actor found in the dataflow, and those it has still to unpause.
Ahead(s, a) ==
  /\ s \in InFlow /\ s # a
  /\ a \in InFlow => \E i, j \in 1..Len(streams) : i < j /\ streams[i] = s /\ streams[j] = a
Firm(a) == {s \in Streams : Ahead(s, a) /\ ~closed[s]}
Met == {s \in InFlow : s \notin late /\ ~closed[s]}
From(i) == {streams[j] : j \in i..Len(streams)}

\* A stream waits for an actor.
Owns(a, s) ==
  \/ pc[a] = "try" /\ s \in got
  \/ pc[a] = "undo" /\ s \in got /\ s \in From(idx)
  \/ pc[a] = "undoClear" /\ s \in got /\ s \in From(idx + 1)
  \/ pc[a] = "lock" /\ s \in Met \ {a}
  \/ pc[a] \in {"lock", "ddl", "create", "configure", "unp"} /\ s \in Firm(a)
  \/ pc[a] = "release" /\ s \in Firm(a) /\ s \in From(idx)
  \/ pc[a] = "releaseClear" /\ s \in Firm(a) /\ s \in From(idx + 1)

\* It waits for one actor only, and the importer has its own stream wait while it sets
\* a transform.  Two actors hold the dataflow only if nothing in it runs.
ShapeHas(s) == pc[main] \in {"shapeSet", "shapeRelease"} /\ s = cds /\ ~closed[s]
Found(a) == \A i \in 1..(idx - 1) : streams[i] = a \/ closed[streams[i]] \/ streams[i] \in got
Owners ==
  /\ \A a \in Actors, s \in Streams : Owns(a, s) => pc[s] = "wait" /\ ~ShapeHas(s)
  /\ \A a, b \in Actors, s \in Streams : Owns(a, s) /\ Owns(b, s) => a = b
  /\ \A s \in Streams : ShapeHas(s) => pc[s] = "wait"
  /\ \A a \in Actors : pc[a] = "try" /\ ~miss => Found(a)
  /\ \A a, b \in Actors : a # b /\ pc[a] \in Holding /\ pc[b] \in Holding =>
       main \in {a, b} /\ \A s \in InFlow : closed[s]

FlowInv == TypeOK /\ plan \in Plans /\ Positions /\ Arrivals /\ Import /\ InHands /\ AllColumns
           /\ Locks /\ Owners /\ NoSendOnClosed


(***************************************************************************)
(* Types, and what the steps of each goroutine may change.                  *)
(***************************************************************************)

\* The goroutines are distinct.
LEMMA Distinct ==
  /\ main # pusher /\ main \notin Streams /\ pusher \notin Streams /\ NoOne \notin Actors
  /\ Streams \subseteq Actors /\ main \in Actors /\ pusher \in Actors
  BY DataflowAssumption DEF Actors

\* What the type invariant says of the variables of a function or a sequence.
LEMMA Types ==
  ASSUME FlowInv
  PROVE  /\ plan \in Plan
         /\ pc \in [Actors -> Position] /\ ret \in [Streams -> {"loop", "next", "close"}]
         /\ row \in [Streams -> 0..NRows] /\ cur \in [Streams -> 0..NRows] /\ repro \in [Streams -> 0..NRows]
         /\ queue \in [Streams -> Seq(SchemaChg)] /\ cols \in [Streams -> SUBSET Cols]
         /\ bcols \in [Streams -> Seq(SUBSET Cols)] /\ open \in [Streams -> BOOLEAN]
         /\ cnt \in [Streams -> Nat] /\ recv \in [Streams -> Seq([row : 1..NRows, batch : Nat])]
         /\ closed \in [Streams -> BOOLEAN] /\ paused \in [Streams -> BOOLEAN]
         /\ joined \in [Streams -> BOOLEAN] /\ chg \in [Actors -> SchemaChg]
         /\ dfCols \subseteq Cols
         /\ got \subseteq Streams /\ late \subseteq Streams
         /\ cds \in Streams \cup {NoOne} /\ cb \in Nat /\ idx \in Nat \ {0}
  BY DEF FlowInv, TypeOK

\* The streams of the dataflow, and the one a loop has come to.
LEMMA FlowTypes ==
  ASSUME FlowInv
  PROVE  /\ streams \in Seq(Streams) /\ Len(streams) \in Nat
         /\ streamCh \in Seq(Streams) /\ Len(streamCh) \in Nat
         /\ \A i \in 1..Len(streams) : streams[i] \in Streams /\ streams[i] \in InFlow
         /\ InFlow \subseteq Streams
<1>1. streams \in Seq(Streams) /\ streamCh \in Seq(Streams)
  BY DEF FlowInv, TypeOK
<1>2. \A i \in 1..Len(streams) : streams[i] \in Streams
  BY <1>1
<1>3. QED
  BY <1>1, <1>2 DEF InFlow

\* The stream a loop has come to is in the dataflow.
LEMMA TurnType == FlowInv /\ idx <= Len(streams) => Turn \in Streams /\ Turn \in InFlow
<1>1. SUFFICES ASSUME FlowInv, idx <= Len(streams) PROVE Turn \in Streams /\ Turn \in InFlow
  OBVIOUS
<1>2. idx \in 1..Len(streams)
  BY <1>1, Types, FlowTypes
<1>3. QED
  BY <1>1, <1>2, FlowTypes DEF Turn

\* A stream is in the dataflow once.
LEMMA StreamsOnce ==
  ASSUME FlowInv, NEW i \in 1..Len(streams), NEW j \in 1..Len(streams), streams[i] = streams[j]
  PROVE  i = j
<1>1. i \in 1..Len(Order) /\ j \in 1..Len(Order) /\ Order[i] = Order[j]
  BY FlowTypes, DataflowAssumption DEF FlowInv, Arrivals
<1>2. QED
  BY <1>1, DataflowAssumption

\* Where a stream is when it does not pause the others.
Free == {"next", "loop", "push", "send", "wait", "close", "done"}

\* What a step of a stream may change: its own position and data, and, when it sends
\* the row that fills a file, the position of the importer.
LEMMA StreamEffect ==
  ASSUME FlowInv, NEW s \in Streams, StreamStep(s)
  PROVE  /\ pc[s] \in Free \ {"wait", "done"} /\ pc'[s] \in (Free \ {"wait"}) \cup {"handle"}
         /\ pc'[s] = "handle" => joined[s]
         /\ \A a \in Actors \ {s} : pc'[a] = pc[a] \/ (a = main /\ pc[a] = "rows" /\ pc'[a] = "fclose"
                                                        /\ plan.fileLimit # 0)
         /\ pc' \in [Actors -> Position]
         /\ UNCHANGED <<plan, paused, ret, dfCols, cds, cb, flowVars, pauseVars, ddlVars, cancelled>>
         /\ closed' = IF pc'[s] = "done" THEN [closed EXCEPT ![s] = TRUE] ELSE closed
         /\ \A r \in Streams \ {s} : UNCHANGED <<row[r], cur[r], repro[r], queue[r], cols[r], bcols[r],
                                                open[r], recv[r]>>
         /\ \A r \in Streams : Len(bcols'[r]) >= Len(bcols[r])
         /\ err => err'
<1> USE Types, Distinct DEF srcVars, batchVars, flowVars, pauseVars, ddlVars, ctxVars, Free, Position
<1>1. CASE NextReprocess(s)
  BY <1>1 DEF NextReprocess
<1>2. CASE NextRow(s)
  BY <1>2 DEF NextRow
<1>3. CASE NextEnd(s)
  BY <1>3 DEF NextEnd, CloseBatch
<1>4. CASE LoopChange(s)
  BY <1>4 DEF LoopChange, CloseBatch
<1>5. CASE LoopExit(s)
  <2>1. \A r \in Streams : Len(bcols'[r]) >= Len(bcols[r])
    <3>1. bcols[s] \in Seq(SUBSET Cols) /\ cols[s] \in SUBSET Cols
      OBVIOUS
    <3>2. Len(Append(bcols[s], cols[s])) >= Len(bcols[s])
      BY <3>1
    <3>3. \A r \in Streams : bcols'[r] = bcols[r] \/ (r = s /\ bcols'[r] = Append(bcols[s], cols[s]))
      BY <1>5 DEF LoopExit, WithNewBatch
    <3>4. \A r \in Streams : Len(bcols[r]) \in Nat
      OBVIOUS
    <3>5. ASSUME NEW r \in Streams PROVE Len(bcols'[r]) >= Len(bcols[r])
      <4>1. CASE bcols'[r] = bcols[r]
        BY <3>4, <4>1
      <4>2. CASE r = s /\ bcols'[r] = Append(bcols[s], cols[s])
        BY <3>2, <4>2
      <4>3. QED
        BY <3>3, <4>1, <4>2
    <3>6. QED
      BY <3>5
  <2>2. QED
    BY <1>5, <2>1 DEF LoopExit
<1>6. CASE PushCheck(s)
  BY <1>6 DEF PushCheck
<1>7. CASE PushCancelled(s)
  BY <1>7 DEF PushCancelled, CloseBatch
<1>8. CASE SendChange(s)
  BY <1>8 DEF SendChange
<1>9. CASE SendRow(s)
  <2>1. main # s /\ cnt[s] + 1 # 0 /\ pc[main] = "rows" /\ pc[s] = "send"
    BY <1>9 DEF SendRow
  <2>2. \/ pc' = [pc EXCEPT ![s] = "next", ![main] = "fclose"] /\ plan.fileLimit # 0
        \/ pc' = [pc EXCEPT ![s] = "next"]
    BY <1>9, <2>1 DEF SendRow
  <2>3. UNCHANGED <<plan, paused, ret, dfCols, cds, cb, flowVars, pauseVars, ddlVars, cancelled, closed>>
    BY <1>9 DEF SendRow
  <2>4. /\ \A r \in Streams \ {s} : UNCHANGED <<row[r], cur[r], repro[r], queue[r], cols[r], bcols[r],
                                               open[r], recv[r]>>
        /\ bcols' = bcols /\ err' = err
    BY <1>9 DEF SendRow
  <2>5. \A r \in Streams : Len(bcols'[r]) >= Len(bcols[r])
    <3>1. \A r \in Streams : Len(bcols[r]) \in Nat
      OBVIOUS
    <3>2. QED
      BY <2>4, <3>1
  <2>6. pc'[s] = "next" /\ pc' \in [Actors -> Position]
    BY <2>1, <2>2
  <2>7. \A a \in Actors \ {s} :
          pc'[a] = pc[a] \/ (a = main /\ pc[a] = "rows" /\ pc'[a] = "fclose" /\ plan.fileLimit # 0)
    <3>1. CASE pc' = [pc EXCEPT ![s] = "next", ![main] = "fclose"] /\ plan.fileLimit # 0
      <4>1. pc'[main] = "fclose" /\ \A a \in Actors \ {s, main} : pc'[a] = pc[a]
        BY <3>1
      <4>2. QED
        BY <2>1, <3>1, <4>1
    <3>2. CASE pc' = [pc EXCEPT ![s] = "next"]
      BY <3>2
    <3>3. QED
      BY <2>2, <3>1, <3>2
  <2>8. QED
    BY <2>1, <2>3, <2>4, <2>5, <2>6, <2>7
<1>10. CASE SendPanic(s)
  BY <1>10 DEF SendPanic
<1>11. CASE CloseStream(s)
  BY <1>11 DEF CloseStream, CloseBatch
<1>12. QED
  BY <1>1, <1>2, <1>3, <1>4, <1>5, <1>6, <1>7, <1>8, <1>9, <1>10, <1>11 DEF StreamStep

\* A stream that waits is sent on.
LEMMA ReleaseMoves ==
  ASSUME FlowInv, NEW a \in Actors, ReleaseSend(a)
  PROVE  /\ Turn \in Streams /\ Turn \in InFlow /\ Turn # a /\ pc[Turn] = "wait"
         /\ pc'[Turn] = ret[Turn]
         /\ \/ pc[a] = "undo" /\ pc'[a] = "undoClear"
            \/ pc[a] = "release" /\ pc'[a] = "releaseClear"
         /\ \A b \in Actors \ {a, Turn} : pc'[b] = pc[b]
         /\ pc' \in [Actors -> Position]
<1>1. Turn \in Streams /\ Turn \in InFlow
  BY TurnType DEF ReleaseSend
<1>2. pc[Turn] = "wait" /\ pc[a] \in {"undo", "release"}
  BY DEF ReleaseSend
<1>3. Turn # a
  BY <1>2
<1>4. Turn \in Actors /\ ret[Turn] \in {"loop", "next", "close"} /\ pc \in [Actors -> Position]
  BY <1>1, Distinct, Types
<1>5. pc' = [pc EXCEPT ![Turn] = ret[Turn],
                       ![a] = IF pc[a] = "undo" THEN "undoClear" ELSE "releaseClear"]
  BY <1>3, <1>4 DEF ReleaseSend
<1>6. pc'[Turn] = ret[Turn] /\ pc'[a] = IF pc[a] = "undo" THEN "undoClear" ELSE "releaseClear"
  BY <1>3, <1>4, <1>5
<1>7. \A b \in Actors \ {a, Turn} : pc'[b] = pc[b]
  BY <1>4, <1>5
<1>8. pc' \in [Actors -> Position]
  <2>1. ret[Turn] \in Position /\ {"undoClear", "releaseClear"} \subseteq Position
    BY <1>4 DEF Position
  <2>2. QED
    BY <1>3, <1>4, <1>5, <2>1
<1>9. \/ pc[a] = "undo" /\ pc'[a] = "undoClear"
      \/ pc[a] = "release" /\ pc'[a] = "releaseClear"
  BY <1>2, <1>6
<1>10. QED
  BY <1>1, <1>2, <1>3, <1>6, <1>7, <1>8, <1>9

\* What a goroutine does to the stream of another: the row that was to be sent is read again.
PlaceNext(b) == IF pc'[b] = "wait" THEN ret'[b] ELSE pc'[b]
Leaves(b) == /\ \/ pc'[b] = pc[b]
                \/ pc[b] \in {"loop", "send", "close", "wait"} /\ pc'[b] \in {"loop", "next", "close", "wait"}
             /\ \/ PlaceNext(b) = Place(b) /\ repro'[b] = repro[b]
                \/ pc[b] = "send" /\ PlaceNext(b) = "next" /\ repro'[b] = cur[b]

\* What a goroutine that pauses the others does to these.
LEMMA PauseEffect ==
  ASSUME FlowInv, NEW x \in Actors, PauseStep(x)
  PROVE  /\ pc[x] \in Pausing
         /\ pc'[x] \in Pausing \cup (IF x \in Streams THEN {"loop"} ELSE {"create", "take", "failed", "join"})
         /\ x = main => pc'[x] \in {"take"} \cup (Early \ {"start"})
         /\ x = pusher => pc'[x] \in Pausing \cup {"join"}
         /\ pc[x] \in Begun \/ pc'[x] \in Begun => ready
         /\ \A b \in Actors \ (Streams \cup {x}) : pc'[b] = pc[b]
         /\ \A b \in Streams \ {x} : Leaves(b)
         /\ x \in Streams => repro'[x] = repro[x]
         /\ pc' \in [Actors -> Position]
         /\ UNCHANGED <<row, cur, cols, bcols, cnt, recv, closed, flowVars, cds, cb, plan, cancelled>>
         /\ err => err'
<1> USE Types, Distinct DEF srcVars, batchVars, flowVars, pauseVars, ddlVars, ctxVars,
      Pausing, Begun, Looping, Holding, Position, Early
<1>0. /\ pc[x] \in Begun => ready
      /\ x = main => pc[x] \notin {"lock", "ddl", "handle"}
  BY DEF FlowInv, Arrivals, Positions, Importing
<1>1. CASE Handle(x)
  BY <1>0, <1>1 DEF Handle, Leaves, Place, PlaceNext, Actors
<1>2. CASE PauseBegin(x)
  BY <1>0, <1>2 DEF PauseBegin, Leaves, Place, PlaceNext
<1>3. CASE TrySkip(x)
  BY <1>0, <1>3 DEF TrySkip, Leaves, Place, PlaceNext
<1>4. CASE TryOk(x)
  <2>1. Turn \in Streams /\ Turn # x
    BY <1>4, TurnType DEF TryOk
  <2>2. pc' = [pc EXCEPT ![Turn] = "wait"] /\ pc[x] = "try" /\ Listening(Turn) /\ TakesPause(Turn)
    BY <1>4 DEF TryOk
  <2>3. \A b \in Streams : b # Turn => Leaves(b)
    BY <2>1, <2>2 DEF TakesPause, Leaves, Place, PlaceNext
  <2>4. Leaves(Turn)
    <3>1. pc'[Turn] = "wait" /\ pc[Turn] \in {"loop", "send", "close"}
      BY <2>1, <2>2 DEF Listening
    <3>2. ret'[Turn] = IF pc[Turn] = "send" THEN "next" ELSE pc[Turn]
      BY <2>1, <2>2 DEF TakesPause
    <3>3. repro'[Turn] = IF pc[Turn] = "send" THEN cur[Turn] ELSE repro[Turn]
      BY <2>1, <2>2 DEF TakesPause
    <3>4. QED
      BY <3>1, <3>2, <3>3 DEF Leaves, Place, PlaceNext
  <2>5. repro' = repro \/ repro' = [repro EXCEPT ![Turn] = cur[Turn]]
    BY <2>2 DEF TakesPause
  <2>6. UNCHANGED <<row, cur, cols, bcols, cnt, recv, closed, flowVars, cds, cb, plan, cancelled, err>>
    BY <1>4 DEF TryOk
  <2>7. QED
    BY <1>0, <2>1, <2>2, <2>3, <2>4, <2>5, <2>6
<1>5. CASE TryFail(x)
  BY <1>0, <1>5 DEF TryFail, Leaves, Place, PlaceNext
<1>6. CASE TryDone(x)
  BY <1>0, <1>6 DEF TryDone, Leaves, Place, PlaceNext, WhenPaused
<1>7. CASE UnpauseBegin(x)
  BY <1>0, <1>7 DEF UnpauseBegin, Leaves, Place, PlaceNext
<1>8. CASE ReleaseSkip(x)
  BY <1>0, <1>8 DEF ReleaseSkip, Leaves, Place, PlaceNext
<1>9. CASE ReleaseSend(x)
  <2>1. ret[Turn] \in {"loop", "next", "close"}
    BY <1>9, ReleaseMoves
  <2>2. \A b \in Actors \ {x} : b = Turn \/ pc'[b] = pc[b]
    BY <1>9, ReleaseMoves
  <2>3. UNCHANGED <<row, cur, cols, bcols, cnt, recv, closed, flowVars, cds, cb, plan, cancelled, err, ret, repro>>
    BY <1>9 DEF ReleaseSend
  <2>4. \A b \in Streams \ {x} : Leaves(b)
    BY <1>9, <2>1, <2>2, <2>3, ReleaseMoves DEF Leaves, Place, PlaceNext
  <2>5. QED
    BY <1>0, <1>9, <2>1, <2>2, <2>3, <2>4, ReleaseMoves
<1>10. CASE ReleaseClear(x)
  BY <1>0, <1>10 DEF ReleaseClear, Leaves, Place, PlaceNext
<1>11. CASE PauseRetry(x)
  BY <1>0, <1>11 DEF PauseRetry, Leaves, Place, PlaceNext
<1>12. CASE PauseGivesUp(x)
  BY <1>0, <1>12 DEF PauseGivesUp, Leaves, Place, PlaceNext, Actors
<1>13. CASE LockAndCloseBatches(x)
  <2>1. PICK told \in SUBSET {s \in InFlow : pc[s] = "send" /\ open[s]} :
          /\ pc' = [b \in Actors |-> IF b = x THEN "ddl" ELSE IF b \in told THEN "next" ELSE pc[b]]
          /\ repro' = [s \in Streams |-> IF s \in told THEN cur[s] ELSE repro[s]]
    BY <1>13 DEF LockAndCloseBatches
  <2>2. \A s \in told : s \in Streams /\ pc[s] = "send"
    BY FlowTypes
  <2>3. pc[x] = "lock"
    BY <1>13 DEF LockAndCloseBatches
  <2>4. UNCHANGED <<row, cur, cols, bcols, cnt, recv, closed, flowVars, cds, cb, plan, cancelled, err, ret>>
    BY <1>13 DEF LockAndCloseBatches
  <2>5. \A b \in Streams \ {x} : Leaves(b)
    BY <2>1, <2>2, <2>4 DEF Leaves, Place, PlaceNext
  <2>6. x \notin told
    BY <2>2, <2>3
  <2>7. pc' \in [Actors -> Position]
    BY <2>1
  <2>8. QED
    BY <1>0, <2>1, <2>2, <2>3, <2>4, <2>5, <2>6, <2>7
<1>14. CASE RunHandler(x)
  BY <1>0, <1>14 DEF RunHandler, Leaves, Place, PlaceNext, AfterHandler
<1>15. CASE UnpauseEnd(x)
  BY <1>0, <1>15 DEF UnpauseEnd, Leaves, Place, PlaceNext, Actors
<1>16. QED
  BY <1>1, <1>2, <1>3, <1>4, <1>5, <1>6, <1>7, <1>8, <1>9, <1>10, <1>11, <1>12, <1>13, <1>14, <1>15 DEF
     PauseStep

\* The stream being imported is in the dataflow.
LEMMA ImportsTaken ==
  ASSUME FlowInv
  PROVE  /\ Taken \in Nat /\ Taken <= Len(streams)
         /\ pc[main] \in Importing => cds \in Streams /\ cds \in InFlow /\ cds = streams[Taken] /\ Taken > 0
<1>1. Len(streamCh) <= Len(streams) /\ (pc[main] \in Importing => Taken > 0) /\ (Taken > 0 => cds = streams[Taken])
  BY DEF FlowInv, Import
<1>2. Taken \in Nat /\ Taken <= Len(streams)
  BY <1>1, FlowTypes DEF Taken
<1>3. ASSUME pc[main] \in Importing PROVE cds \in Streams /\ cds \in InFlow /\ cds = streams[Taken] /\ Taken > 0
  <2>1. Taken \in 1..Len(streams) /\ cds = streams[Taken]
    BY <1>1, <1>2, <1>3, FlowTypes
  <2>2. QED
    BY <2>1, FlowTypes
<1>4. QED
  BY <1>2, <1>3

\* What the importer does to the streams.
LEMMA MainEffect ==
  ASSUME FlowInv, MainStep
  PROVE  /\ \A b \in Streams : Leaves(b) /\ (pc'[b] = pc[b] \/ b = cds)
         /\ pc'[pusher] = pc[pusher] /\ pc' \in [Actors -> Position]
         /\ pc[main] \notin Pausing /\ pc'[main] \notin Looping
         /\ pc'[main] \in Begun => pc[main] \in Begun
         /\ UNCHANGED <<row, cur, queue, cols, bcols, cnt, recv, closed, joined, streams, dfClosed,
                        ready, late, pauseVars, ddlBy, plan, cancelled>>
         /\ err => err'
<1> USE Types, Distinct DEF srcVars, batchVars, flowVars, pauseVars, ddlVars, ctxVars,
      Pausing, Begun, Looping, Holding, Position
<1>0. pc[main] \in Importing => cds \in Streams
  BY ImportsTaken
<1>1. CASE WaitReady
  BY <1>1 DEF WaitReady, Leaves, Place, PlaceNext
<1>2. CASE CreateTable
  BY <1>2 DEF CreateTable, Leaves, Place, PlaceNext
<1>3. CASE ConfigureColumnHandlers
  BY <1>3 DEF ConfigureColumnHandlers, Leaves, Place, PlaceNext
<1>4. CASE SetUpFails
  BY <1>4 DEF SetUpFails, Leaves, Place, PlaceNext
<1>5. CASE TakeStream
  BY <1>5 DEF TakeStream, Leaves, Place, PlaceNext
<1>6. CASE ImportEnd
  BY <1>6 DEF ImportEnd, Leaves, Place, PlaceNext
<1>7. CASE TakeBatch
  BY <1>7 DEF TakeBatch, Leaves, Place, PlaceNext, Reshaped
<1>8. CASE StreamImported
  BY <1>8 DEF StreamImported, Leaves, Place, PlaceNext
<1>9. CASE BatchImported
  BY <1>9 DEF BatchImported, Leaves, Place, PlaceNext
<1>10. CASE FileFull
  <2>1. cds \in Streams /\ cds # main
    BY <1>0, <1>10 DEF FileFull, Importing
  <2>2. PICK told \in BOOLEAN :
          /\ told => pc[cds] = "send" /\ open[cds]
          /\ repro' = IF told THEN [repro EXCEPT ![cds] = cur[cds]] ELSE repro
          /\ pc' = [pc EXCEPT ![main] = "rows", ![cds] = IF told THEN "next" ELSE pc[cds]]
    BY <1>10, <2>1 DEF FileFull
  <2>3. UNCHANGED <<row, cur, queue, cols, bcols, cnt, recv, closed, flowVars, pauseVars, ddlBy, ret,
                    plan, cancelled, err>>
    BY <1>10 DEF FileFull
  <2>4. pc'[main] = "rows" /\ \A b \in Actors \ {main, cds} : pc'[b] = pc[b]
    BY <2>1, <2>2
  <2>5. /\ pc'[cds] = IF told THEN "next" ELSE pc[cds]
        /\ repro'[cds] = IF told THEN cur[cds] ELSE repro[cds]
    BY <2>1, <2>2
  <2>6. Leaves(cds)
    BY <2>2, <2>3, <2>5 DEF Leaves, Place, PlaceNext
  <2>7. \A b \in Streams \ {cds} : repro'[b] = repro[b]
    BY <2>2
  <2>8. \A b \in Streams \ {cds} : Leaves(b) /\ pc'[b] = pc[b]
    BY <2>3, <2>4, <2>7 DEF Leaves, Place, PlaceNext
  <2>9. pc' \in [Actors -> Position] /\ pc[main] = "fclose"
    BY <1>10, <2>1, <2>2 DEF FileFull
  <2>10. QED
    BY <2>1, <2>3, <2>4, <2>6, <2>8, <2>9
<1>11. CASE ShapeCheck
  BY <1>11 DEF ShapeCheck, Leaves, Place, PlaceNext
<1>12. CASE ShapePause
  BY <1>0, <1>12 DEF ShapePause, Leaves, Place, PlaceNext, Importing, Listening, TakesPause
<1>13. CASE ShapeSet
  BY <1>13 DEF ShapeSet, Leaves, Place, PlaceNext
<1>14. CASE ShapeRelease
  BY <1>0, <1>14 DEF ShapeRelease, Leaves, Place, PlaceNext, Importing
<1>15. CASE ShapeClear
  BY <1>15 DEF ShapeClear, Leaves, Place, PlaceNext
<1>16. QED
  BY <1>1, <1>2, <1>3, <1>4, <1>5, <1>6, <1>7, <1>8, <1>9, <1>10, <1>11, <1>12, <1>13, <1>14, <1>15 DEF
     MainStep

\* What PushStreamChan may change.
LEMMA PusherEffect ==
  ASSUME FlowInv, PusherStep
  PROVE  /\ pc[pusher] \in {"merge", "join", "push"}
         /\ pc'[pusher] \in {"merge", "join", "push", "done", "handle"}
         /\ \A b \in Actors \ {pusher} : pc'[b] = pc[b]
         /\ pc' \in [Actors -> Position]
         /\ UNCHANGED <<paused, ret, cds, cb, row, cur, repro, batchVars, pauseVars, ddlVars, ctxVars>>
<1> USE Types, Distinct DEF srcVars, batchVars, flowVars, pauseVars, ddlVars, ctxVars, Position
<1>1. CASE FirstColumns
  BY <1>1 DEF FirstColumns
<1>2. CASE MergeColumns
  BY <1>2 DEF MergeColumns
<1>3. CASE JoinStream
  BY <1>3 DEF JoinStream
<1>4. CASE PushStream
  BY <1>4 DEF PushStream
<1>5. CASE PushEnd
  BY <1>5 DEF PushEnd
<1>6. QED
  BY <1>1, <1>2, <1>3, <1>4, <1>5 DEF PusherStep


(***************************************************************************)
(* Every part of the invariant is kept by every step.                       *)
(***************************************************************************)

\* Every goroutine stays where its kind may be.
LEMMA PositionsStep == FlowInv /\ [Next]_vars => Positions'
<1> SUFFICES ASSUME FlowInv, [Next]_vars PROVE Positions'
  OBVIOUS
<1> USE Types, Distinct DEF FlowInv, Positions, Pausing, Begun, Looping, Holding, Early, Importing
<1>1. ASSUME NEW s \in Streams, StreamStep(s) PROVE Positions'
  <2>1. pc'[s] \in Free \cup {"handle"}
    BY <1>1, StreamEffect
  <2>2. \A a \in Actors \ {s} : pc'[a] = pc[a] \/ (a = main /\ pc'[a] = "fclose")
    BY <1>1, StreamEffect
  <2>3. \A r \in Streams : r = s \/ pc'[r] = pc[r]
    BY <2>2
  <2>4. pc'[pusher] = pc[pusher] /\ (pc'[main] = pc[main] \/ pc'[main] = "fclose")
    BY <2>2
  <2>5. QED
    BY <2>1, <2>3, <2>4 DEF Free
<1>2. ASSUME NEW x \in Actors, PauseStep(x) PROVE Positions'
  <2>1. ASSUME NEW s \in Streams
        PROVE pc'[s] \in {"next", "loop", "push", "send", "wait", "close", "done"} \cup Pausing
    <3>1. CASE s = x
      BY <1>2, <3>1, PauseEffect
    <3>2. CASE s # x
      BY <1>2, <3>2, PauseEffect DEF Leaves
    <3>3. QED
      BY <3>1, <3>2
  <2>2. pc'[pusher] \in {"merge", "join", "push", "done"} \cup Pausing
    BY <1>2, PauseEffect
  <2>3. pc'[main] \in {"take", "done"} \cup Early \cup Importing
    BY <1>2, PauseEffect
  <2>4. QED
    BY <2>1, <2>2, <2>3
<1>3. CASE PusherStep
  BY <1>3, PusherEffect
<1>4. CASE MainStep
  <2>1. \A s \in Streams : pc'[s] \in {"next", "loop", "push", "send", "wait", "close", "done"} \cup Pausing
    BY <1>4, MainEffect DEF Leaves
  <2>2. pc'[pusher] \in {"merge", "join", "push", "done"} \cup Pausing
    BY <1>4, MainEffect
  <2>3. pc'[main] \in {"take", "done"} \cup Early \cup Importing
    <3>1. CASE WaitReady \/ CreateTable \/ ConfigureColumnHandlers \/ SetUpFails \/ TakeStream \/ ImportEnd
      BY <3>1 DEF WaitReady, CreateTable, ConfigureColumnHandlers, SetUpFails, TakeStream, ImportEnd
    <3>2. CASE TakeBatch \/ StreamImported \/ BatchImported \/ ShapeCheck \/ ShapeSet \/ ShapeClear
      BY <3>2 DEF TakeBatch, StreamImported, BatchImported, ShapeCheck, ShapeSet, ShapeClear
    <3>3. CASE FileFull
      BY <3>3 DEF FileFull
    <3>4. CASE ShapePause
      BY <3>4 DEF ShapePause
    <3>5. CASE ShapeRelease
      BY <3>5 DEF ShapeRelease
    <3>6. QED
      BY <1>4, <3>1, <3>2, <3>3, <3>4, <3>5 DEF MainStep
  <2>4. QED
    BY <2>1, <2>2, <2>3
<1>5. CASE Cancel \/ UNCHANGED vars
  BY <1>5 DEF Cancel, vars
<1>6. QED
  BY <1>1, <1>2, <1>3, <1>4, <1>5 DEF Next, Over

\* A step that brings no stream.
LEMMA ArrivalsKept ==
  ASSUME Arrivals, UNCHANGED <<joined, streams, dfClosed, ready>>,
         \/ pc'[pusher] = pc[pusher]
         \/ pc[pusher] \in Pausing /\ pc'[pusher] \in Pausing \cup {"join"},
         \A r \in Streams : pc'[r] \in Pausing => pc[r] \in Pausing \/ joined[r],
         \A a \in Actors : pc'[a] \in Begun => pc[a] \in Begun \/ ready
  PROVE  Arrivals'
<1>1. InFlow' = InFlow /\ Arriving' = Arriving
  BY DEF InFlow, Arriving
<1>2. /\ "done" \notin Pausing \cup {"join"} /\ "push" \notin Pausing \cup {"join"}
  BY DEF Pausing, Begun, Looping, Holding
<1>3. (dfClosed <=> pc[pusher] = "done")'
  BY <1>2 DEF Arrivals
<1>4. /\ (\A s \in InFlow : joined[s])'
      /\ (pc[pusher] = "push" => joined[Arriving])'
      /\ (\A s \in Streams : joined[s] => s \in InFlow \/ (pc[pusher] = "push" /\ s = Arriving))'
  BY <1>1, <1>2 DEF Arrivals
<1>5. /\ (\A s \in Streams : pc[s] \in Pausing => joined[s])'
      /\ (ready => streams # <<>> \/ Len(Order) = 0)'
      /\ (\A a \in Actors : pc[a] \in Begun => ready)'
  BY DEF Arrivals
<1>6. /\ (pc[pusher] \in {"join", "push"} \cup Pausing => Len(streams) < Len(Order))'
      /\ (pc[pusher] \in {"join"} \cup Pausing => streams # <<>>)'
      /\ (Len(streams) <= Len(Order) /\ \A i \in 1..Len(streams) : streams[i] = Order[i])'
  BY DEF Arrivals
<1>7. QED
  BY <1>3, <1>4, <1>5, <1>6 DEF Arrivals

\* Streams join in the order of arrival, before they are pushed.
LEMMA ArrivalsStep == FlowInv /\ [Next]_vars => Arrivals'
<1> SUFFICES ASSUME FlowInv, [Next]_vars PROVE Arrivals'
  OBVIOUS
<1>0. Arrivals
  BY DEF FlowInv
<1>1. ASSUME NEW s \in Streams, StreamStep(s) PROVE Arrivals'
  <2>1. UNCHANGED <<joined, streams, dfClosed, ready>> /\ pc'[pusher] = pc[pusher]
    BY <1>1, StreamEffect, Distinct DEF flowVars
  <2>2. \A r \in Streams : pc'[r] \in Pausing => pc[r] \in Pausing \/ joined[r]
    BY <1>1, StreamEffect, Distinct DEF Free, Pausing, Begun, Looping, Holding
  <2>3. \A a \in Actors : pc'[a] \in Begun => pc[a] \in Begun
    BY <1>1, StreamEffect, Distinct DEF Free, Begun, Looping, Holding
  <2>4. QED
    BY <1>0, <2>1, <2>2, <2>3, ArrivalsKept
<1>2. ASSUME NEW x \in Actors, PauseStep(x) PROVE Arrivals'
  <2>1. UNCHANGED <<joined, streams, dfClosed, ready>>
    BY <1>2, PauseEffect DEF flowVars
  <2>2. \/ pc'[pusher] = pc[pusher]
        \/ pc[pusher] \in Pausing /\ pc'[pusher] \in Pausing \cup {"join"}
    BY <1>2, PauseEffect, Distinct
  <2>3. \A r \in Streams : pc'[r] \in Pausing => pc[r] \in Pausing
    BY <1>2, PauseEffect, Distinct DEF Leaves, Pausing, Begun, Looping, Holding
  <2>4. \A a \in Actors : pc'[a] \in Begun => pc[a] \in Begun \/ ready
    BY <1>2, PauseEffect, Distinct DEF Leaves, Begun, Looping, Holding
  <2>5. QED
    BY <1>0, <2>1, <2>2, <2>3, <2>4, ArrivalsKept
<1>3. CASE PusherStep
  <2> USE Distinct DEF Pausing, Begun, Looping, Holding
  <2>1. /\ \A a \in Actors \ {pusher} : pc'[a] = pc[a]
        /\ \A a \in Streams : pc'[a] = pc[a]
        /\ \A a \in Actors : pc'[a] \in Begun => pc[a] \in Begun
    BY <1>3, PusherEffect
  <2>2. \A r \in Streams : pc'[r] \in Pausing => pc[r] \in Pausing
    BY <2>1
  <2>3. CASE FirstColumns
    <3>1. /\ pc[pusher] = "merge" /\ pc'[pusher] = "push" /\ UNCHANGED <<streams, dfClosed, ready>>
          /\ Len(Order) > 0 /\ streams = <<>> /\ joined' = [joined EXCEPT ![Arriving] = TRUE]
      BY <2>3, Types DEF FirstColumns
    <3>2. InFlow = {} /\ InFlow' = {} /\ Arriving' = Arriving /\ Len(streams) = 0
      BY <3>1 DEF InFlow, Arriving
    <3>3. Arriving \in Streams
      BY <3>1, <3>2, DataflowAssumption DEF Arriving
    <3>4. /\ \A s \in Streams : joined'[s] <=> joined[s] \/ s = Arriving
      BY <3>1, <3>3, Types
    <3>5. QED
      BY <1>0, <2>1, <2>2, <3>1, <3>2, <3>3, <3>4 DEF Arrivals
  <2>4. CASE MergeColumns
    <3>1. /\ pc[pusher] = "merge" /\ pc'[pusher] \in {"join", "handle"}
          /\ UNCHANGED <<streams, dfClosed, ready, joined>>
          /\ streams # <<>> /\ Len(streams) < Len(Order)
      BY <2>4, Types DEF MergeColumns, flowVars
    <3>2. InFlow' = InFlow /\ Arriving' = Arriving
      BY <3>1 DEF InFlow, Arriving
    <3>3. QED
      BY <1>0, <2>1, <2>2, <3>1, <3>2 DEF Arrivals
  <2>5. CASE JoinStream
    <3>1. /\ pc[pusher] = "join" /\ pc'[pusher] = "push"
          /\ UNCHANGED <<streams, dfClosed, ready>> /\ joined' = [joined EXCEPT ![Arriving] = TRUE]
      BY <2>5, Types DEF JoinStream
    <3>2. InFlow' = InFlow /\ Arriving' = Arriving
      BY <3>1 DEF InFlow, Arriving
    <3>3. Arriving \in Streams
      <4>1. Len(streams) < Len(Order)
        BY <1>0, <3>1 DEF Arrivals
      <4>2. QED
        BY <4>1, FlowTypes, DataflowAssumption DEF Arriving
    <3>4. /\ \A s \in Streams : joined'[s] <=> joined[s] \/ s = Arriving
      BY <3>1, <3>3, Types
    <3>5. InFlow \subseteq Streams
      BY FlowTypes
    <3>6. QED
      BY <1>0, <2>1, <2>2, <3>1, <3>2, <3>3, <3>4, <3>5 DEF Arrivals
  <2>6. CASE PushStream
    <3>1. /\ pc[pusher] = "push" /\ pc'[pusher] = "merge"
          /\ UNCHANGED <<dfClosed, joined>> /\ streams' = Append(streams, Arriving) /\ ready'
      BY <2>6, Types DEF PushStream
    <3>2. Len(streams) < Len(Order) /\ joined[Arriving]
      BY <1>0, <3>1 DEF Arrivals
    <3>3. Arriving \in Streams /\ Arriving = Order[Len(streams) + 1]
      BY <3>2, FlowTypes, DataflowAssumption DEF Arriving
    <3>4. /\ Len(streams') = Len(streams) + 1 /\ streams'[Len(streams) + 1] = Arriving
          /\ \A i \in 1..Len(streams) : streams'[i] = streams[i]
      BY <3>1, <3>3, FlowTypes
    <3>5. streams' # <<>>
      BY <3>1, <3>4, FlowTypes
    <3>6. InFlow' = InFlow \cup {Arriving}
      BY <3>4, FlowTypes DEF InFlow
    <3>7. Len(streams') <= Len(Order) /\ \A i \in 1..Len(streams') : streams'[i] = Order[i]
      BY <1>0, <3>2, <3>3, <3>4, FlowTypes, DataflowAssumption DEF Arrivals
    <3>8. /\ \A s \in InFlow' : joined'[s]
          /\ \A s \in Streams : joined'[s] => s \in InFlow'
      BY <1>0, <3>1, <3>2, <3>6 DEF Arrivals
    <3>9. QED
      BY <1>0, <2>1, <2>2, <3>1, <3>5, <3>7, <3>8 DEF Arrivals
  <2>7. CASE PushEnd
    <3>1. /\ pc[pusher] = "merge" /\ pc'[pusher] = "done" /\ dfClosed'
          /\ UNCHANGED <<streams, joined>> /\ ready' = (ready \/ Len(streams) = Len(Order))
      BY <2>7, Types DEF PushEnd
    <3>2. InFlow' = InFlow
      BY <3>1 DEF InFlow
    <3>3. ready' => streams # <<>> \/ Len(Order) = 0
      BY <1>0, <3>1, FlowTypes DEF Arrivals
    <3>4. QED
      BY <1>0, <2>1, <2>2, <3>1, <3>2, <3>3 DEF Arrivals
  <2>8. QED
    BY <1>3, <2>3, <2>4, <2>5, <2>6, <2>7 DEF PusherStep
<1>4. CASE MainStep
  <2>1. UNCHANGED <<joined, streams, dfClosed, ready, pc[pusher]>>
    BY <1>4, MainEffect
  <2>2. \A r \in Streams : pc'[r] \in Pausing => pc[r] \in Pausing
    BY <1>4, MainEffect DEF Leaves, Pausing, Begun, Looping, Holding
  <2>3. \A a \in Streams : pc'[a] \in Begun => pc[a] \in Begun
    BY <1>4, MainEffect DEF Leaves, Begun, Looping, Holding
  <2>4. \A a \in Actors : pc'[a] \in Begun => pc[a] \in Begun
    BY <1>4, <2>1, <2>3, MainEffect DEF Actors
  <2>5. QED
    BY <1>0, <2>1, <2>2, <2>4, ArrivalsKept
<1>5. CASE Cancel \/ UNCHANGED vars
  <2>1. UNCHANGED <<pc, joined, streams, dfClosed, ready>>
    BY <1>5 DEF Cancel, vars, flowVars
  <2>2. QED
    BY <1>0, <2>1, ArrivalsKept
<1>6. QED
  BY <1>1, <1>2, <1>3, <1>4, <1>5 DEF Next, Over


\* A step that neither brings nor takes a stream.
LEMMA ImportKept ==
  ASSUME FlowInv, UNCHANGED <<streams, streamCh, cds, cb, plan>>, dfClosed => dfClosed',
         \A r \in Streams : closed[r] => closed'[r],
         \A r \in Streams : Len(bcols'[r]) \in Nat /\ Len(bcols'[r]) >= Len(bcols[r]),
         \/ pc'[main] = pc[main]
         \/ pc[main] = "rows" /\ pc'[main] = "fclose" /\ plan.fileLimit # 0
         \/ pc[main] \in Early /\ pc'[main] \in {"take"} \cup Early
  PROVE  Import'
<1>0. Import
  BY DEF FlowInv
<1>1. Taken' = Taken
  BY DEF Taken
<1>2. /\ {"take"} \cup Early \subseteq {"start", "pause", "failed", "try", "undo", "undoClear", "release",
                                        "releaseClear", "create", "configure", "unp", "take"}
      /\ Early \subseteq {"start", "pause", "failed", "try", "undo", "undoClear", "release",
                          "releaseClear", "create", "configure", "unp"}
  BY DEF Early, Begun, Looping, Holding
<1>3. /\ (Len(streamCh) <= 1 /\ Len(streamCh) <= Len(streams))'
      /\ (streamCh # <<>> => Head(streamCh) = streams[Len(streams)])'
      /\ (Taken > 0 => cds = streams[Taken])'
  BY <1>0, <1>1 DEF Import
<1>4. /\ (pc[main] \in Early => Taken = 0)'
      /\ (pc[main] \in Importing => Taken > 0)'
      /\ (pc[main] = "done" => streamCh = <<>> /\ dfClosed)'
      /\ (pc[main] \in Importing \ {"batch"} => cb > 0)'
      /\ (pc[main] = "fclose" => plan.fileLimit # 0)'
  BY <1>0, <1>1, <1>2 DEF Import, Importing
<1>5. (\A i \in 1..Taken : i < Taken \/ pc[main] \in {"take", "done"} => closed[streams[i]])'
  <2>1. ASSUME NEW i \in 1..Taken, i < Taken \/ pc'[main] \in {"take", "done"}
        PROVE  closed'[streams[i]]
    <3>1. streams[i] \in Streams
      BY ImportsTaken, FlowTypes
    <3>2. Taken > 0
      BY ImportsTaken
    <3>3. pc'[main] \in {"take", "done"} => pc[main] \in {"take", "done"}
      BY <1>0, <1>2, <3>2 DEF Import
    <3>4. closed[streams[i]]
      BY <1>0, <2>1, <3>3 DEF Import
    <3>5. QED
      BY <3>1, <3>4
  <2>2. QED
    BY <1>1, <2>1
<1>6. (pc[main] \in Importing => cb <= Len(bcols[cds]))'
  <2>1. SUFFICES ASSUME pc'[main] \in Importing PROVE cb <= Len(bcols'[cds])
    OBVIOUS
  <2>2. pc[main] \in Importing
    BY <1>2, <2>1 DEF Importing
  <2>3. cds \in Streams /\ cb <= Len(bcols[cds])
    BY <1>0, <2>2, ImportsTaken DEF Import
  <2>4. Len(bcols[cds]) \in Nat /\ Len(bcols'[cds]) \in Nat /\ cb \in Nat
    BY <2>3, Types
  <2>5. QED
    BY <2>3, <2>4
<1>7. QED
  BY <1>3, <1>4, <1>5, <1>6 DEF Import

\* The importer takes the streams in order, each when the one before is closed.
LEMMA ImportStep == FlowInv /\ [Next]_vars => Import'
<1> SUFFICES ASSUME FlowInv, [Next]_vars PROVE Import'
  OBVIOUS
<1>0. Import
  BY DEF FlowInv
<1>a. \A r \in Streams : Len(bcols[r]) \in Nat
  BY Types
<1>1. ASSUME NEW s \in Streams, StreamStep(s) PROVE Import'
  <2>1. /\ UNCHANGED <<streams, streamCh, cds, cb, plan, dfClosed>>
        /\ \A r \in Streams : closed[r] => closed'[r]
    <3>1. UNCHANGED <<plan, cds, cb, flowVars>>
      BY <1>1, StreamEffect
    <3>2. closed' = closed \/ closed' = [closed EXCEPT ![s] = TRUE]
      BY <1>1, StreamEffect
    <3>3. QED
      BY <3>1, <3>2, Types DEF flowVars
  <2>2. \A r \in Streams : Len(bcols'[r]) \in Nat /\ Len(bcols'[r]) >= Len(bcols[r])
    <3>1. ASSUME NEW r \in Streams PROVE Len(bcols'[r]) \in Nat
      <4>1. CASE LoopExit(s)
        <5>1. bcols[r] \in Seq(SUBSET Cols) /\ cols[s] \in SUBSET Cols
          BY Types
        <5>2. bcols'[r] = bcols[r] \/ bcols'[r] = Append(bcols[r], cols[s])
          BY <4>1, Types DEF LoopExit, WithNewBatch
        <5>3. Append(bcols[r], cols[s]) \in Seq(SUBSET Cols)
          BY <5>1
        <5>4. QED
          BY <5>1, <5>2, <5>3
      <4>2. CASE ~LoopExit(s)
        <5>1. bcols' = bcols
          BY <1>1, <4>2 DEF StreamStep, NextReprocess, NextRow, NextEnd, LoopChange, PushCheck, PushCancelled,
             SendChange, SendRow, SendPanic, CloseStream, batchVars
        <5>2. QED
          BY <5>1, <1>a
      <4>3. QED
        BY <4>1, <4>2
    <3>2. QED
      BY <1>1, <3>1, StreamEffect
  <2>3. pc'[main] = pc[main] \/ (pc[main] = "rows" /\ pc'[main] = "fclose" /\ plan.fileLimit # 0)
    BY <1>1, StreamEffect, Distinct
  <2>4. QED
    BY <2>1, <2>2, <2>3, ImportKept
<1>2. ASSUME NEW x \in Actors, PauseStep(x) PROVE Import'
  <2>1. UNCHANGED <<streams, streamCh, cds, cb, plan, dfClosed, closed, bcols>>
    BY <1>2, PauseEffect DEF flowVars
  <2>2. pc'[main] = pc[main] \/ (pc[main] \in Early /\ pc'[main] \in {"take"} \cup Early)
    <3>1. CASE x = main
      <4>1. pc[main] \in Early
        BY <1>2, <3>1, PauseEffect DEF FlowInv, Positions, Pausing, Early, Importing, Begun, Looping, Holding
      <4>2. QED
        BY <1>2, <3>1, <4>1, PauseEffect
    <3>2. CASE x # main
      BY <1>2, <3>2, PauseEffect, Distinct
    <3>3. QED
      BY <3>1, <3>2
  <2>3. QED
    BY <1>a, <2>1, <2>2, ImportKept
<1>3. CASE PusherStep
  <2>1. /\ UNCHANGED <<cds, cb, plan, closed, bcols, pc[main]>> /\ (dfClosed => dfClosed')
    <3>1. UNCHANGED <<cds, cb, batchVars, ctxVars>> /\ \A b \in Actors \ {pusher} : pc'[b] = pc[b]
      BY <1>3, PusherEffect
    <3>2. dfClosed => dfClosed'
      BY <1>3 DEF PusherStep, FirstColumns, MergeColumns, JoinStream, PushStream, PushEnd, flowVars
    <3>3. QED
      BY <3>1, <3>2, Distinct DEF batchVars, ctxVars
  <2>2. CASE ~PushStream
    <3>1. UNCHANGED <<streams, streamCh>>
      BY <1>3, <2>2 DEF PusherStep, FirstColumns, MergeColumns, JoinStream, PushEnd, flowVars
    <3>2. QED
      BY <1>a, <2>1, <3>1, ImportKept
  <2>3. CASE PushStream
    <3>1. pc[pusher] = "push" /\ streamCh = <<>> /\ streams' = Append(streams, Arriving) /\ streamCh' = <<Arriving>>
      BY <2>3 DEF PushStream
    <3>2. Arriving \in Streams
      <4>1. Len(streams) < Len(Order)
        BY <3>1 DEF FlowInv, Arrivals
      <4>2. QED
        BY <4>1, FlowTypes, DataflowAssumption DEF Arriving
    <3>3. /\ Len(streams') = Len(streams) + 1 /\ streams'[Len(streams) + 1] = Arriving
          /\ \A i \in 1..Len(streams) : streams'[i] = streams[i]
          /\ Len(streamCh') = 1 /\ streamCh' # <<>> /\ Head(streamCh') = Arriving /\ Len(streamCh) = 0
      BY <3>1, <3>2, FlowTypes
    <3>4. Taken' = Taken /\ Taken = Len(streams)
      BY <3>3, FlowTypes DEF Taken
    <3>5. pc[main] # "done"
      <4>1. ~dfClosed
        BY <3>1 DEF FlowInv, Arrivals
      <4>2. QED
        BY <1>0, <4>1 DEF Import
    <3>6. (Taken > 0 => cds = streams[Taken])'
      BY <1>0, <2>1, <3>3, <3>4, ImportsTaken DEF Import
    <3>7. (\A i \in 1..Taken : i < Taken \/ pc[main] \in {"take", "done"} => closed[streams[i]])'
      BY <1>0, <2>1, <3>3, <3>4, ImportsTaken DEF Import
    <3>8. (Len(streamCh) <= 1 /\ Len(streamCh) <= Len(streams))'
      BY <3>3, FlowTypes
    <3>9. (streamCh # <<>> => Head(streamCh) = streams[Len(streams)])'
      BY <3>3
    <3>10. QED
      BY <1>0, <2>1, <3>4, <3>5, <3>6, <3>7, <3>8, <3>9 DEF Import
  <2>4. QED
    BY <2>2, <2>3
<1>4. CASE MainStep
  <2>1. UNCHANGED <<streams, closed, bcols, plan, dfClosed>>
    BY <1>4, MainEffect
  <2>2. CASE TakeStream
    <3>1. /\ pc[main] = "take" /\ pc'[main] = "batch" /\ streamCh # <<>> /\ cds' = Head(streamCh) /\ cb' = 0
          /\ streamCh' = <<>>
      BY <2>2, Types, Distinct DEF TakeStream
    <3>2. Len(streamCh) = 1 /\ Len(streamCh') = 0 /\ Len(streams) >= 1
      <4>1. Len(streamCh) <= 1 /\ Len(streamCh) <= Len(streams)
        BY <1>0 DEF Import
      <4>2. Len(streamCh) # 0
        BY <3>1, FlowTypes
      <4>3. Len(streamCh) \in Nat /\ Len(streams) \in Nat
        BY FlowTypes
      <4>4. Len(streamCh') = 0
        BY <3>1
      <4>5. Len(streamCh) = 1
        <5>1. \A n \in Nat : n <= 1 /\ n # 0 => n = 1
          OBVIOUS
        <5>2. QED
          BY <4>1, <4>2, <4>3, <5>1, Zenon
      <4>6. Len(streams) >= 1
        BY <4>1, <4>3, <4>5
      <4>7. QED
        BY <4>4, <4>5, <4>6
    <3>3. Taken = Len(streams) - 1 /\ Taken' = Len(streams)
      BY <2>1, <3>2, FlowTypes DEF Taken
    <3>4. cds' = streams[Len(streams)] /\ cds' \in Streams
      BY <1>0, <3>1, <3>2, FlowTypes DEF Import
    <3>5. \A i \in 1..Taken : closed[streams[i]]
      BY <1>0, <3>1 DEF Import
    <3>6. (\A i \in 1..Taken : i < Taken \/ pc[main] \in {"take", "done"} => closed[streams[i]])'
      BY <2>1, <3>1, <3>3, <3>5, FlowTypes
    <3>7. (pc[main] \in Importing => cb <= Len(bcols[cds]))'
      BY <1>a, <2>1, <3>1, <3>4
    <3>8. /\ (pc[main] \in Early => Taken = 0)'
          /\ (pc[main] \in Importing => Taken > 0)'
          /\ (Taken > 0 => cds = streams[Taken])'
          /\ (pc[main] = "done" => streamCh = <<>> /\ dfClosed)'
          /\ (pc[main] \in Importing \ {"batch"} => cb > 0)'
          /\ (pc[main] = "fclose" => plan.fileLimit # 0)'
      BY <2>1, <3>1, <3>2, <3>3, <3>4 DEF Early, Importing, Begun, Looping, Holding
    <3>9. (Len(streamCh) <= 1 /\ Len(streamCh) <= Len(streams) /\ (streamCh # <<>> => Head(streamCh) = streams[Len(streams)]))'
      BY <2>1, <3>1, <3>2
    <3>10. QED
      BY <3>6, <3>7, <3>8, <3>9 DEF Import
  <2>3. CASE ~TakeStream
    <3>1. /\ UNCHANGED <<cds, streamCh, streams, closed, bcols, plan, dfClosed>> /\ Taken' = Taken
      BY <1>4, <2>1, <2>3 DEF MainStep, WaitReady, CreateTable, ConfigureColumnHandlers, SetUpFails,
         ImportEnd, TakeBatch,
         StreamImported, BatchImported, FileFull, ShapeCheck, ShapePause, ShapeSet, ShapeRelease, ShapeClear, flowVars, Taken
    <3>2. /\ \/ pc[main] \in Early /\ pc'[main] \in Early
             \/ pc[main] = "take" /\ pc'[main] = "done" /\ streamCh = <<>> /\ dfClosed
             \/ pc[main] = "batch" /\ pc'[main] = "take" /\ closed[cds]
             \/ pc[main] = "batch" /\ pc'[main] \in {"rows", "shape", "misfit"}
             \/ pc[main] \in Importing \ {"batch"} /\ pc'[main] \in Importing \ {"fclose"}
          /\ cb' = cb \/ (pc[main] = "batch" /\ cb' = cb + 1 /\ cb + 1 <= Len(bcols[cds]))
          /\ pc[main] = "batch" /\ pc'[main] # "take" => cb' = cb + 1
      <4> USE Types, Distinct, ImportsTaken DEF Early, Importing, Begun, Looping, Holding
      <4>1. CASE WaitReady \/ CreateTable \/ ConfigureColumnHandlers \/ SetUpFails
        BY <4>1 DEF WaitReady, CreateTable, ConfigureColumnHandlers, SetUpFails
      <4>2. CASE ImportEnd
        BY <4>2 DEF ImportEnd
      <4>3. CASE StreamImported
        BY <4>3 DEF StreamImported
      <4>4. CASE TakeBatch
        BY <4>4 DEF TakeBatch
      <4>5. CASE BatchImported \/ ShapeCheck \/ ShapeSet \/ ShapeClear
        BY <4>5 DEF BatchImported, ShapeCheck, ShapeSet, ShapeClear
      <4>6. CASE FileFull
        BY <4>6 DEF FileFull
      <4>7. CASE ShapePause
        BY <4>7 DEF ShapePause
      <4>8. CASE ShapeRelease
        BY <4>8 DEF ShapeRelease
      <4>9. QED
        BY <1>4, <2>3, <4>1, <4>2, <4>3, <4>4, <4>5, <4>6, <4>7, <4>8 DEF MainStep
    <3>3. \A i \in 1..Taken : streams[i] \in Streams
      BY ImportsTaken, FlowTypes
    <3>4. (\A i \in 1..Taken : i < Taken \/ pc[main] \in {"take", "done"} => closed[streams[i]])'
      <4>1. CASE pc'[main] \notin {"take", "done"} \/ pc[main] \in {"take", "done"}
        BY <1>0, <3>1, <4>1 DEF Import
      <4>2. CASE pc[main] = "batch" /\ closed[cds]
        <5>1. Taken > 0 => closed[streams[Taken]]
          BY <1>0, <4>2 DEF Import
        <5>2. \A i \in 1..Taken : i < Taken \/ i = Taken
          BY ImportsTaken
        <5>3. QED
          BY <1>0, <3>1, <5>1, <5>2, ImportsTaken DEF Import
      <4>3. QED
        BY <3>2, <4>1, <4>2 DEF Early, Importing, Begun, Looping, Holding
    <3>5. (pc[main] \in Importing => cb <= Len(bcols[cds]))'
      <4>1. SUFFICES ASSUME pc'[main] \in Importing PROVE cb' <= Len(bcols[cds])
        BY <3>1
      <4>2. pc[main] \in Importing
        BY <3>2, <4>1 DEF Early, Importing, Begun, Looping, Holding
      <4>3. QED
        BY <1>0, <3>2, <4>2 DEF Import
    <3>6. /\ (pc[main] \in Early => Taken = 0)'
          /\ (pc[main] \in Importing => Taken > 0)'
          /\ (pc[main] = "done" => streamCh = <<>> /\ dfClosed)'
          /\ (pc[main] = "fclose" => plan.fileLimit # 0)'
      BY <1>0, <3>1, <3>2 DEF Import, Early, Importing, Begun, Looping, Holding
    <3>7. (pc[main] \in Importing \ {"batch"} => cb > 0)'
      BY <1>0, <3>2, Types DEF Import, Early, Importing, Begun, Looping, Holding
    <3>8. /\ (Len(streamCh) <= 1 /\ Len(streamCh) <= Len(streams))'
          /\ (streamCh # <<>> => Head(streamCh) = streams[Len(streams)])'
          /\ (Taken > 0 => cds = streams[Taken])'
      BY <1>0, <3>1 DEF Import
    <3>9. QED
      BY <3>4, <3>5, <3>6, <3>7, <3>8 DEF Import
  <2>4. QED
    BY <2>2, <2>3
<1>5. CASE Cancel \/ UNCHANGED vars
  <2>1. UNCHANGED <<pc, streams, streamCh, cds, cb, plan, dfClosed, closed, bcols>>
    BY <1>5 DEF Cancel, vars, flowVars, batchVars, ctxVars
  <2>2. QED
    BY <1>a, <2>1, ImportKept
<1>6. QED
  BY <1>1, <1>2, <1>3, <1>4, <1>5 DEF Next, Over

\* Who holds df.mux and df.Context is seen from the positions.
LEMMA LocksStep == FlowInv /\ [Next]_vars => Locks'
<1> SUFFICES ASSUME FlowInv, [Next]_vars PROVE Locks'
  OBVIOUS
<1>0. /\ Locks /\ Len(streams) \in Nat /\ idx \in Nat \ {0}
      /\ NoOne \notin Actors /\ Streams \subseteq Actors
  BY FlowTypes, Types, Distinct DEF FlowInv
<1>1. ASSUME NEW s \in Streams, StreamStep(s) PROVE Locks'
  <2>1. UNCHANGED <<mux, idx, ddlBy, streams>>
    BY <1>1, StreamEffect DEF flowVars, pauseVars, ddlVars
  <2>2. \A a \in Actors : pc'[a] = pc[a] \/ {pc[a], pc'[a]} \cap (Looping \cup {"ddl"}) = {}
    BY <1>1, StreamEffect DEF Free, Looping
  <2>3. QED
    BY <1>0, <2>1, <2>2 DEF Locks, Looping
<1>2. ASSUME NEW x \in Actors, PauseStep(x) PROVE Locks'
  <2>1. streams' = streams
    BY <1>2, PauseEffect DEF flowVars
  <2>2. \A a \in Actors \ {x} : pc'[a] = pc[a] \/ {pc[a], pc'[a]} \cap (Looping \cup {"ddl"}) = {}
    BY <1>2, PauseEffect DEF Leaves, Looping
  <2> USE <1>0, <2>1, <2>2 DEF Locks, Looping, pauseVars, ddlVars
  <2>3. CASE Handle(x)
    BY <2>3, Types DEF Handle
  <2>4. CASE PauseBegin(x)
    BY <2>4, Types DEF PauseBegin
  <2>5. CASE TrySkip(x)
    BY <2>5, Types DEF TrySkip
  <2>6. CASE TryOk(x)
    <3>1. Turn \in Streams /\ Turn # x /\ pc[x] = "try"
      BY <2>6, TurnType DEF TryOk
    <3>2. pc'[x] = pc[x]
      BY <2>6, <3>1, Types DEF TryOk
    <3>3. UNCHANGED <<mux, ddlBy>> /\ idx' = idx + 1 /\ idx <= Len(streams)
      BY <2>6 DEF TryOk
    <3>4. mux = x /\ \A a \in Actors \ {x} : pc[a] \notin Looping
      BY <3>1
    <3>5. \A a \in Actors \ {x} : pc'[a] \notin Looping /\ (pc'[a] = "ddl" <=> pc[a] = "ddl")
      BY <3>4
    <3>6. /\ (\A a \in Actors : pc[a] \in Looping <=> mux = a)'
          /\ (\A a \in Actors : pc[a] = "ddl" <=> ddlBy = a)'
      BY <3>1, <3>2, <3>3, <3>4, <3>5
    <3>7. /\ (idx \in Nat \ {0} /\ (mux # NoOne => idx <= Len(streams) + 1))'
          /\ (\A a \in Actors : pc[a] \in {"undoClear", "releaseClear"} => idx <= Len(streams))'
      BY <3>1, <3>2, <3>3, <3>5
    <3>8. QED
      BY <3>6, <3>7
  <2>7. CASE TryFail(x)
    BY <2>7, Types DEF TryFail
  <2>8. CASE TryDone(x)
    BY <2>8, Types DEF TryDone, WhenPaused
  <2>9. CASE UnpauseBegin(x)
    BY <2>9, Types DEF UnpauseBegin
  <2>10. CASE ReleaseSkip(x)
    BY <2>10, Types DEF ReleaseSkip
  <2>11. CASE ReleaseSend(x)
    <3>1. UNCHANGED <<mux, idx, ddlBy>> /\ idx <= Len(streams)
      BY <2>11 DEF ReleaseSend
    <3>2. pc[x] \in {"undo", "release"} /\ pc'[x] \in {"undoClear", "releaseClear"}
      BY <2>11, ReleaseMoves
    <3>3. QED
      BY <3>1, <3>2
  <2>12. CASE ReleaseClear(x)
    BY <2>12, Types DEF ReleaseClear
  <2>13. CASE PauseRetry(x)
    BY <2>13, Types DEF PauseRetry
  <2>14. CASE PauseGivesUp(x)
    BY <2>14, Types DEF PauseGivesUp
  <2>15. CASE LockAndCloseBatches(x)
    <3>1. UNCHANGED <<mux, idx>> /\ ddlBy = NoOne /\ ddlBy' = x /\ pc[x] = "lock" /\ pc'[x] = "ddl"
      BY <2>15 DEF LockAndCloseBatches
    <3>2. QED
      BY <3>1
  <2>16. CASE RunHandler(x)
    BY <2>16, Types DEF RunHandler, AfterHandler
  <2>17. CASE UnpauseEnd(x)
    BY <2>17, Types DEF UnpauseEnd
  <2>18. QED
    BY <1>2, <2>3, <2>4, <2>5, <2>6, <2>7, <2>8, <2>9, <2>10, <2>11, <2>12, <2>13, <2>14, <2>15, <2>16,
       <2>17 DEF PauseStep
<1>3. CASE PusherStep
  <2>1. UNCHANGED <<mux, idx, ddlBy>>
    BY <1>3, PusherEffect DEF pauseVars, ddlVars
  <2>2. \A a \in Actors : pc'[a] = pc[a] \/ {pc[a], pc'[a]} \cap (Looping \cup {"ddl"}) = {}
    BY <1>3, PusherEffect DEF Looping
  <2>3. streams' = streams \/ mux = NoOne
    BY <1>3 DEF PusherStep, FirstColumns, MergeColumns, JoinStream, PushStream, PushEnd, flowVars
  <2>4. QED
    BY <1>0, <2>1, <2>2, <2>3 DEF Locks, Looping
<1>4. CASE MainStep
  <2>1. UNCHANGED <<mux, idx, ddlBy, streams>>
    BY <1>4, MainEffect DEF pauseVars
  <2>2. \A a \in Streams \cup {pusher} : pc'[a] = pc[a] \/ {pc[a], pc'[a]} \cap (Looping \cup {"ddl"}) = {}
    BY <1>4, MainEffect DEF Leaves, Looping
  <2>3. {pc[main], pc'[main]} \cap (Looping \cup {"ddl"}) = {}
    <3>1. pc[main] \notin Looping \cup {"ddl"} /\ pc'[main] \notin Looping
      BY <1>4, MainEffect DEF Pausing, Begun, Holding, Looping
    <3>2. pc'[main] # "ddl"
      BY PositionsStep, Distinct DEF Positions, Early, Importing, Begun, Looping, Holding
    <3>3. QED
      BY <3>1, <3>2 DEF Looping
  <2>4. QED
    BY <1>0, <2>1, <2>2, <2>3 DEF Locks, Looping, Actors
<1>5. CASE Cancel \/ UNCHANGED vars
  <2>1. UNCHANGED <<pc, mux, idx, ddlBy, streams>>
    BY <1>5 DEF Cancel, vars, flowVars, pauseVars, ddlVars
  <2>2. QED
    BY <1>0, <2>1 DEF Locks
<1>6. QED
  BY <1>1, <1>2, <1>3, <1>4, <1>5 DEF Next, Over

\* A stream whose row in hand is left with it, or is to be read again.
LEMMA InHandKept ==
  ASSUME FlowInv, NEW r \in Streams, InHand(r),
         UNCHANGED <<row[r], cur[r], recv[r], closed[r], plan>>, cancelled => cancelled', err => err',
         pc'[r] = "done" <=> pc[r] = "done",
         \/ PlaceNext(r) = Place(r) /\ repro'[r] = repro[r]
         \/ pc[r] = "send" /\ PlaceNext(r) = "next" /\ repro'[r] = cur[r]
         \/ Place(r) \in Pausing /\ PlaceNext(r) \in Pausing \cup {"loop"} /\ repro'[r] = repro[r]
  PROVE  InHand(r)'
<1>1. Place(r)' = PlaceNext(r)
  BY DEF Place, PlaceNext
<1>2. /\ {"next", "close", "done"} \cap (Pausing \cup {"loop"}) = {}
      /\ Place(r) = "send" <=> pc[r] = "send"
  BY Types DEF Place, Pausing, Begun, Looping, Holding
<1>3. QED
  BY <1>1, <1>2 DEF InHand


\* The goroutine of the stream itself.
LEMMA InHandStream == ASSUME FlowInv, NEW s \in Streams, StreamStep(s) PROVE InHand(s)'
<1>0. InHand(s) /\ pc[s] \notin {"wait", "done"} /\ Place(s) = pc[s] /\ plan' = plan
  BY StreamEffect DEF FlowInv, InHands, Place
<1>1. /\ Len(recv[s]) \in Nat /\ row[s] \in Nat /\ cur[s] \in Nat /\ repro[s] \in Nat /\ s # main
      /\ plan.rows[s] \in Nat
  <2>1. plan \in Plan /\ recv[s] \in Seq([row : 1..NRows, batch : Nat])
    BY Types
  <2>2. plan.rows[s] \in 0..NRows
    BY <2>1 DEF Plan
  <2>3. row[s] \in 0..NRows /\ cur[s] \in 0..NRows /\ repro[s] \in 0..NRows
    BY Types
  <2>4. Len(recv[s]) \in Nat
    BY <2>1
  <2>5. QED
    BY <2>2, <2>3, <2>4, DataflowAssumption
<1> USE <1>0, <1>1, Types, Distinct
    DEF InHand, Place, srcVars, batchVars, ctxVars, Pausing, Begun, Looping, Holding
<1>2. CASE NextReprocess(s)
  BY <1>2 DEF NextReprocess
<1>3. CASE NextRow(s)
  <2>1. /\ pc'[s] = "loop" /\ repro[s] = 0 /\ row[s] < plan.rows[s] /\ row'[s] = row[s] + 1
        /\ cur'[s] = row[s] + 1 /\ UNCHANGED <<repro, recv, closed>> /\ pc[s] = "next"
    BY <1>3 DEF NextRow
  <2>2. row[s] = Len(recv[s]) /\ row'[s] <= plan.rows[s] /\ (closed'[s] <=> pc'[s] = "done")
    BY <2>1
  <2>3. (\A k \in 1..Len(recv[s]) : recv[s][k].row = k)'
    BY <2>1
  <2>4. QED
    BY <2>1, <2>2, <2>3
<1>4. CASE NextEnd(s)
  BY <1>4 DEF NextEnd
<1>5. CASE LoopChange(s)
  <2>1. pc'[s] = "handle" /\ UNCHANGED <<row, cur, repro, recv, closed>> /\ pc[s] = "loop"
    BY <1>5 DEF LoopChange
  <2>2. QED
    BY <2>1
<1>6. CASE LoopExit(s)
  <2>1. pc'[s] = "push" /\ UNCHANGED <<row, cur, repro, recv, closed>> /\ pc[s] = "loop"
    BY <1>6 DEF LoopExit
  <2>2. QED
    BY <2>1
<1>7. CASE PushCheck(s)
  BY <1>7 DEF PushCheck
<1>8. CASE PushCancelled(s)
  BY <1>8 DEF PushCancelled
<1>9. CASE SendChange(s)
  BY <1>9 DEF SendChange
<1>10. CASE SendRow(s)
  <2>1. /\ pc'[s] = "next" /\ pc[s] = "send" /\ UNCHANGED <<row, cur, repro, closed, cancelled, err>>
        /\ recv'[s] = Append(recv[s], [row |-> cur[s], batch |-> cb])
    BY <1>10 DEF SendRow
  <2>2. repro[s] = 0 /\ cur[s] = Len(recv[s]) + 1 /\ row[s] = Len(recv[s]) + 1 /\ row[s] <= plan.rows[s]
    BY <2>1
  <2>3. /\ Len(recv'[s]) = Len(recv[s]) + 1
        /\ \A k \in 1..Len(recv[s]) : recv'[s][k] = recv[s][k]
        /\ recv'[s][Len(recv[s]) + 1] = [row |-> cur[s], batch |-> cb]
    <3>1. recv[s] \in Seq([row : 1..NRows, batch : Nat])
      OBVIOUS
    <3>2. QED
      BY <2>1, <3>1
  <2>4. \A k \in 1..Len(recv'[s]) : recv'[s][k].row = k
    <3>1. ASSUME NEW k \in 1..Len(recv'[s]) PROVE recv'[s][k].row = k
      <4>1. CASE k \in 1..Len(recv[s])
        BY <2>3, <4>1
      <4>2. CASE k = Len(recv[s]) + 1
        BY <2>2, <2>3, <4>2
      <4>3. QED
        BY <2>3, <3>1, <4>1, <4>2
    <3>2. QED
      BY <3>1
  <2>5. closed'[s] <=> pc'[s] = "done"
    BY <2>1
  <2>6. QED
    BY <2>1, <2>2, <2>3, <2>4, <2>5
<1>11. CASE SendPanic(s)
  BY <1>11 DEF SendPanic
<1>12. CASE CloseStream(s)
  BY <1>12 DEF CloseStream
<1>13. QED
  BY <1>2, <1>3, <1>4, <1>5, <1>6, <1>7, <1>8, <1>9, <1>10, <1>11, <1>12 DEF StreamStep

\* What a stream has read stays what was received and the row in hand.
LEMMA InHandsStep == FlowInv /\ [Next]_vars => InHands'
<1> SUFFICES ASSUME FlowInv, [Next]_vars, NEW r \in Streams PROVE InHand(r)'
  BY DEF InHands
<1>0. InHand(r)
  BY DEF FlowInv, InHands
<1>1. ASSUME NEW s \in Streams, StreamStep(s) PROVE InHand(r)'
  <2>1. CASE r = s
    BY <1>1, <2>1, InHandStream
  <2>2. CASE r # s
    <3>1. UNCHANGED <<row[r], cur[r], repro[r], recv[r], ret, plan, cancelled, pc[r], closed[r]>> /\ (err => err')
      <4>1. pc'[r] = pc[r]
        BY <1>1, <2>2, StreamEffect, Distinct
      <4>2. closed'[r] = closed[r]
        <5>1. closed' = closed \/ closed' = [closed EXCEPT ![s] = TRUE]
          BY <1>1, StreamEffect
        <5>2. QED
          BY <2>2, <5>1, Types
      <4>3. QED
        BY <1>1, <2>2, <4>1, <4>2, StreamEffect
    <3>2. PlaceNext(r) = Place(r)
      BY <3>1 DEF Place, PlaceNext
    <3>3. QED
      BY <1>0, <3>1, <3>2, InHandKept
  <2>3. QED
    BY <2>1, <2>2
<1>2. ASSUME NEW x \in Actors, PauseStep(x) PROVE InHand(r)'
  <2>1. UNCHANGED <<row, cur, recv, closed, plan, cancelled>> /\ (err => err')
    BY <1>2, PauseEffect
  <2>2. CASE r = x
    <3>1. pc[r] \in Pausing /\ pc'[r] \in Pausing \cup {"loop"} /\ repro'[r] = repro[r]
      BY <1>2, <2>2, PauseEffect
    <3>2. /\ pc[r] # "wait" /\ pc'[r] # "wait" /\ pc[r] # "done" /\ pc'[r] # "done"
      BY <3>1 DEF Pausing, Begun, Looping, Holding
    <3>3. Place(r) = pc[r] /\ PlaceNext(r) = pc'[r]
      BY <3>2 DEF Place, PlaceNext
    <3>4. QED
      BY <1>0, <2>1, <3>1, <3>2, <3>3, InHandKept
  <2>3. CASE r # x
    <3>1. Leaves(r)
      BY <1>2, <2>3, PauseEffect
    <3>2. QED
      BY <1>0, <2>1, <3>1, InHandKept DEF Leaves
  <2>4. QED
    BY <2>2, <2>3
<1>3. CASE PusherStep
  <2>1. UNCHANGED <<row, cur, repro, recv, closed, plan, cancelled, err, ret, pc[r]>>
    BY <1>3, PusherEffect, Distinct DEF batchVars, ctxVars
  <2>2. QED
    BY <1>0, <2>1, InHandKept DEF Place, PlaceNext
<1>4. CASE MainStep
  <2>1. UNCHANGED <<row, cur, recv, closed, plan, cancelled>> /\ (err => err') /\ Leaves(r)
    BY <1>4, MainEffect
  <2>2. QED
    BY <1>0, <2>1, InHandKept DEF Leaves
<1>5. CASE Cancel \/ UNCHANGED vars
  <2>1. UNCHANGED <<row, cur, repro, recv, closed, plan, ret, pc, err>> /\ (cancelled => cancelled')
    BY <1>5 DEF Cancel, vars, srcVars, batchVars, ctxVars
  <2>2. QED
    BY <1>0, <2>1, InHandKept DEF Place, PlaceNext
<1>6. QED
  BY <1>1, <1>2, <1>3, <1>4, <1>5 DEF Next, Over


\* The columns of a queue.
LEMMA ColsOfAppend ==
  ASSUME NEW q \in Seq(SchemaChg), NEW c \in SchemaChg
  PROVE  ColsOf(Append(q, c)) = ColsOf(q) \cup c.cols
<1>1. /\ Len(Append(q, c)) = Len(q) + 1 /\ Append(q, c)[Len(q) + 1] = c /\ Len(q) \in Nat
      /\ \A i \in 1..Len(q) : Append(q, c)[i] = q[i]
  OBVIOUS
<1>2. 1..(Len(q) + 1) = (1..Len(q)) \cup {Len(q) + 1}
  BY <1>1
<1>3. ASSUME NEW x PROVE x \in ColsOf(Append(q, c)) <=> x \in ColsOf(q) \cup c.cols
  <2>1. x \in ColsOf(Append(q, c)) <=> \E i \in 1..(Len(q) + 1) : x \in Append(q, c)[i].cols
    BY <1>1 DEF ColsOf
  <2>2. x \in ColsOf(q) <=> \E i \in 1..Len(q) : x \in q[i].cols
    BY DEF ColsOf
  <2>3. QED
    BY <1>1, <1>2, <2>1, <2>2
<1>4. QED
  BY <1>3

\* The columns of one queued change.
LEMMA ColsOfOne == ASSUME NEW c PROVE ColsOf(<<c>>) = c.cols
<1>1. Len(<<c>>) = 1 /\ <<c>>[1] = c /\ 1..1 = {1}
  OBVIOUS
<1>2. QED
  BY <1>1 DEF ColsOf

\* The columns of two queues in a row.
LEMMA ColsOfConcat ==
  ASSUME NEW q \in Seq(SchemaChg), NEW p \in Seq(SchemaChg)
  PROVE  ColsOf(q) \cup ColsOf(p) \subseteq ColsOf(q \o p)
<1>1. /\ Len(q \o p) = Len(q) + Len(p) /\ Len(q) \in Nat /\ Len(p) \in Nat
      /\ \A i \in 1..Len(q) : (q \o p)[i] = q[i]
      /\ \A i \in 1..Len(p) : (q \o p)[Len(q) + i] = p[i]
  OBVIOUS
<1>2. ASSUME NEW x \in ColsOf(q) PROVE x \in ColsOf(q \o p)
  <2>1. PICK i \in 1..Len(q) : x \in q[i].cols
    BY DEF ColsOf
  <2>2. i \in 1..Len(q \o p) /\ x \in (q \o p)[i].cols
    BY <1>1, <2>1
  <2>3. QED
    BY <2>2 DEF ColsOf
<1>3. ASSUME NEW x \in ColsOf(p) PROVE x \in ColsOf(q \o p)
  <2>1. PICK i \in 1..Len(p) : x \in p[i].cols
    BY DEF ColsOf
  <2>2. Len(q) + i \in 1..Len(q \o p) /\ x \in (q \o p)[Len(q) + i].cols
    BY <1>1, <2>1
  <2>3. QED
    BY <2>2 DEF ColsOf
<1>4. QED
  BY <1>2, <1>3

\* A change put back at the end.
LEMMA ColsOfRotate ==
  ASSUME NEW q \in Seq(SchemaChg), q # <<>>
  PROVE  ColsOf(q) \subseteq ColsOf(Append(Tail(q), Head(q)))
<1>1. /\ Tail(q) \in Seq(SchemaChg) /\ Head(q) \in SchemaChg /\ Head(q) = q[1] /\ Len(q) \in Nat
      /\ Len(Tail(q)) = Len(q) - 1 /\ \A i \in 1..(Len(q) - 1) : Tail(q)[i] = q[i + 1]
  OBVIOUS
<1>2. ColsOf(Append(Tail(q), Head(q))) = ColsOf(Tail(q)) \cup Head(q).cols
  BY <1>1, ColsOfAppend
<1>3. ASSUME NEW x \in ColsOf(q) PROVE x \in ColsOf(Tail(q)) \cup Head(q).cols
  <2>1. PICK i \in 1..Len(q) : x \in q[i].cols
    BY DEF ColsOf
  <2>2. CASE i = 1
    BY <1>1, <2>1, <2>2
  <2>3. CASE i # 1
    <3>1. i - 1 \in 1..Len(Tail(q)) /\ Tail(q)[i - 1] = q[i]
      BY <1>1, <2>3
    <3>2. QED
      BY <2>1, <3>1 DEF ColsOf
  <2>4. QED
    BY <2>2, <2>3
<1>4. QED
  BY <1>2, <1>3

\* A step that gives the stream no column, no batch and no row.
LEMMA ColumnsKept ==
  ASSUME NEW r \in Streams, Columns(r),
         UNCHANGED <<row[r], cur[r], cols[r], bcols[r], recv[r], plan>>,
         joined[r] => joined'[r], open'[r] => open[r], open'[r] => ColsOf(queue[r]) \subseteq ColsOf(queue'[r]),
         pc'[r] \in {"push", "send"} => pc[r] \in {"push", "send"} /\ queue'[r] = queue[r]
  PROVE  Columns(r)'
<1>1. Last(r)' = Last(r)
  BY DEF Last
<1>2. (open[r] => cols[r] \subseteq Last(r) \cup ColsOf(queue[r]))'
  BY <1>1 DEF Columns
<1>3. (pc[r] \in {"push", "send"} => queue[r] = <<>> \/ cur[r] = 1)'
  BY DEF Columns
<1>4. /\ (Len(bcols[r]) > 0)'
      /\ (\A i \in 1..row[r] : plan.add[r][i] \subseteq cols[r])'
      /\ (~joined[r] => recv[r] = <<>>)'
      /\ (\A k \in 1..Len(recv[r]) :
            /\ recv[r][k].batch \in 1..Len(bcols[r])
            /\ recv[r][k].row > 1 => plan.add[r][recv[r][k].row] \subseteq bcols[r][recv[r][k].batch])'
  BY DEF Columns
<1>5. QED
  BY <1>2, <1>3, <1>4 DEF Columns


\* A row of a stream that has not joined is its first.
LEMMA FirstBeforeJoin ==
  FlowInv => \A s \in Streams : ~joined[s] /\ pc[s] \in {"loop", "push", "send"} => cur[s] = 1
<1>1. SUFFICES ASSUME FlowInv, NEW s \in Streams, ~joined[s], pc[s] \in {"loop", "push", "send"}
               PROVE  cur[s] = 1
  OBVIOUS
<1>2. Len(recv[s]) = 0
  BY <1>1 DEF FlowInv, AllColumns, Columns
<1>3. QED
  BY <1>1, <1>2 DEF FlowInv, InHands, InHand, Place

\* The goroutine of the stream itself.
LEMMA ColumnsStream == ASSUME FlowInv, NEW s \in Streams, StreamStep(s) PROVE Columns(s)'
<1>0. /\ Columns(s) /\ s # main
      /\ UNCHANGED <<plan, joined>>
  BY StreamEffect, Distinct DEF FlowInv, AllColumns, flowVars
<1>1. /\ queue[s] \in Seq(SchemaChg) /\ bcols[s] \in Seq(SUBSET Cols) /\ cols[s] \in SUBSET Cols
      /\ recv[s] \in Seq([row : 1..NRows, batch : Nat]) /\ row[s] \in Nat /\ Len(bcols[s]) \in Nat
  <2>1. /\ queue[s] \in Seq(SchemaChg) /\ bcols[s] \in Seq(SUBSET Cols) /\ cols[s] \in SUBSET Cols
        /\ recv[s] \in Seq([row : 1..NRows, batch : Nat]) /\ row[s] \in 0..NRows
    BY Types
  <2>2. row[s] \in Nat
    BY <2>1, DataflowAssumption
  <2>3. QED
    BY <2>1, <2>2
<1> USE Types, Distinct DEF srcVars, batchVars
<1>2. CASE NextReprocess(s)
  <2>1. UNCHANGED <<row, cols, bcols, recv, open, queue>> /\ pc'[s] = "loop"
    BY <1>2 DEF NextReprocess
  <2>2. QED
    BY <1>0, <2>1 DEF Columns, Last
<1>3. CASE NextRow(s)
  <2> DEFINE i == row[s] + 1
             new == plan.add[s][i] \ cols[s]
             adds == IF new = {} THEN <<>> ELSE <<Adding(new)>>
             type == IF i \in plan.type[s] THEN <<Retyping>> ELSE <<>>
  <2>1. /\ row'[s] = i /\ cols'[s] = cols[s] \cup new /\ queue'[s] = queue[s] \o adds \o type /\ pc'[s] = "loop"
        /\ UNCHANGED <<bcols, recv, open>> /\ row[s] < plan.rows[s]
    BY <1>3 DEF NextRow
  <2>2. new \in SUBSET Cols
    <3>1. plan.rows[s] \in 0..NRows /\ plan.add[s] \in [1..NRows -> SUBSET Cols]
      BY DEF Plan
    <3>2. i \in 1..NRows
      <4>1. \A m, n, p \in Nat : m < n /\ n \in 0..p => m + 1 \in 1..p
        OBVIOUS
      <4>2. plan.rows[s] \in Nat /\ NRows \in Nat
        BY <3>1, DataflowAssumption
      <4>3. QED
        BY <1>1, <2>1, <3>1, <4>1, <4>2
    <3>3. QED
      BY <3>1, <3>2
  <2>3. adds \in Seq(SchemaChg) /\ type \in Seq(SchemaChg) /\ new \subseteq ColsOf(adds)
    <3>1. Adding(new) \in SchemaChg /\ Retyping \in SchemaChg /\ Adding(new).cols = new
      BY <2>2 DEF Adding, Retyping, SchemaChg
    <3> HIDE DEF new
    <3>2. <<Adding(new)>> \in Seq(SchemaChg) /\ <<Retyping>> \in Seq(SchemaChg) /\ <<>> \in Seq(SchemaChg)
      BY <3>1
    <3>3. adds = <<Adding(new)>> \/ (new = {} /\ adds = <<>>)
      OBVIOUS
    <3>4. type = <<Retyping>> \/ type = <<>>
      OBVIOUS
    <3> HIDE DEF adds, type
    <3>5. ColsOf(<<Adding(new)>>) = new
      BY <3>1, ColsOfOne
    <3>6. QED
      BY <3>2, <3>3, <3>4, <3>5
  <2>5. ColsOf(queue[s]) \cup new \subseteq ColsOf(queue'[s])
    <3>1. queue[s] \o adds \in Seq(SchemaChg)
      BY <1>1, <2>3
    <3>2. QED
      BY <1>1, <2>1, <2>3, <3>1, ColsOfConcat
  <2>6. plan.add[s][i] \subseteq cols'[s]
    BY <2>1
  <2> HIDE DEF new, adds, type
  <2>7. \A j \in 1..row'[s] : plan.add[s][j] \subseteq cols'[s]
    <3>1. \A j \in 1..row[s] : plan.add[s][j] \subseteq cols[s]
      BY <1>0 DEF Columns
    <3>2. \A j \in 1..i : j = i \/ j \in 1..row[s]
      BY <1>1
    <3>3. QED
      BY <2>1, <2>6, <3>1, <3>2
  <2>8. (open[s] => cols[s] \subseteq Last(s) \cup ColsOf(queue[s]))'
    BY <1>0, <2>1, <2>5 DEF Columns, Last
  <2>9. QED
    BY <1>0, <2>1, <2>7, <2>8 DEF Columns
<1>4. CASE NextEnd(s) \/ PushCancelled(s) \/ SendPanic(s)
  <2>1. /\ UNCHANGED <<row, cur, cols, bcols, recv, queue>> /\ pc'[s] = "close"
        /\ open'[s] => open[s]
    BY <1>4 DEF NextEnd, PushCancelled, SendPanic, CloseBatch
  <2>2. QED
    BY <1>0, <2>1, ColumnsKept
<1>5. CASE LoopChange(s)
  <2>1. /\ UNCHANGED <<row, cur, cols, bcols, recv>> /\ pc'[s] = "handle" /\ ~open'[s]
    BY <1>5 DEF LoopChange, CloseBatch
  <2>2. QED
    BY <1>0, <2>1, ColumnsKept
<1>6. CASE LoopExit(s)
  <2>1. /\ UNCHANGED <<row, cur, cols, recv, queue>> /\ pc'[s] = "push" /\ pc[s] = "loop"
        /\ joined[s] => queue[s] = <<>>
        /\ bcols'[s] = IF open[s] THEN bcols[s] ELSE Append(bcols[s], cols[s])
    BY <1>6 DEF LoopExit, WithNewBatch
  <2>2. (pc[s] \in {"push", "send"} => queue[s] = <<>> \/ cur[s] = 1)'
    BY <2>1, FirstBeforeJoin
  <2>3. CASE open[s]
    BY <1>0, <2>1, <2>2, <2>3 DEF Columns, Last
  <2>4. CASE ~open[s]
    <3>1. /\ Len(bcols'[s]) = Len(bcols[s]) + 1 /\ bcols'[s][Len(bcols[s]) + 1] = cols[s]
          /\ \A k \in 1..Len(bcols[s]) : bcols'[s][k] = bcols[s][k]
      BY <1>1, <2>1, <2>4
    <3>2. Len(bcols'[s]) > 0 /\ Last(s)' = cols[s]
      BY <1>1, <3>1 DEF Last
    <3>3. \A k \in 1..Len(bcols[s]) : k \in 1..Len(bcols'[s])
      BY <1>1, <3>1
    <3>4. \A k \in 1..Len(recv[s]) :
            /\ recv[s][k].batch \in 1..Len(bcols'[s])
            /\ recv[s][k].row > 1 => plan.add[s][recv[s][k].row] \subseteq bcols'[s][recv[s][k].batch]
      BY <1>0, <3>1, <3>3 DEF Columns
    <3>5. QED
      BY <1>0, <2>1, <2>2, <3>2, <3>4 DEF Columns
  <2>5. QED
    BY <2>3, <2>4
<1>7. CASE PushCheck(s)
  <2>1. /\ UNCHANGED <<row, cur, cols, bcols, recv, queue, open>> /\ pc[s] = "push"
    BY <1>7 DEF PushCheck
  <2>2. QED
    BY <1>0, <2>1, ColumnsKept
<1>8. CASE SendChange(s)
  <2>1. /\ UNCHANGED <<row, cur, cols, bcols, recv, open>> /\ pc'[s] = "next"
        /\ queue[s] # <<>> /\ queue'[s] = Append(Tail(queue[s]), Head(queue[s]))
    BY <1>8 DEF SendChange
  <2>2. QED
    BY <1>0, <1>1, <2>1, ColumnsKept, ColsOfRotate
<1>9. CASE SendRow(s)
  <2>1. /\ UNCHANGED <<row, cur, cols, bcols, queue>> /\ pc[s] = "send" /\ pc'[s] = "next" /\ open[s]
        /\ recv'[s] = Append(recv[s], [row |-> cur[s], batch |-> cb]) /\ cb = Len(bcols[s])
        /\ pc[main] = "rows" /\ cds = s
    BY <1>9 DEF SendRow
  <2>2. joined[s]
    BY <2>1, ImportsTaken DEF FlowInv, Arrivals, Importing
  <2>3. cur[s] > 1 => plan.add[s][cur[s]] \subseteq Last(s)
    <3>1. SUFFICES ASSUME cur[s] > 1 PROVE plan.add[s][cur[s]] \subseteq Last(s)
      OBVIOUS
    <3>2. queue[s] = <<>>
      BY <1>0, <2>1, <3>1 DEF Columns
    <3>3. ColsOf(queue[s]) = {}
      BY <3>2 DEF ColsOf
    <3>4. cur[s] \in 1..row[s]
      BY <1>1, <2>1, <3>1 DEF FlowInv, InHands, InHand, Place
    <3>5. QED
      BY <1>0, <2>1, <3>3, <3>4 DEF Columns
  <2>4. /\ Len(recv'[s]) = Len(recv[s]) + 1 /\ Len(recv[s]) \in Nat
        /\ \A k \in 1..Len(recv[s]) : recv'[s][k] = recv[s][k]
        /\ recv'[s][Len(recv[s]) + 1] = [row |-> cur[s], batch |-> cb]
    BY <1>1, <2>1
  <2>5. cb \in 1..Len(bcols[s])
    BY <1>0, <1>1, <2>1 DEF Columns
  <2>6. ASSUME NEW k \in 1..Len(recv'[s])
        PROVE  /\ recv'[s][k].batch \in 1..Len(bcols[s])
               /\ recv'[s][k].row > 1 => plan.add[s][recv'[s][k].row] \subseteq bcols[s][recv'[s][k].batch]
    <3>1. CASE k \in 1..Len(recv[s])
      BY <1>0, <2>4, <3>1 DEF Columns
    <3>2. CASE k = Len(recv[s]) + 1
      BY <2>1, <2>3, <2>4, <2>5, <3>2 DEF Last
    <3>3. \A n \in Nat : \A j \in 1..(n + 1) : j \in 1..n \/ j = n + 1
      OBVIOUS
    <3>4. k \in 1..Len(recv[s]) \/ k = Len(recv[s]) + 1
      BY <2>4, <2>6, <3>3
    <3>5. QED
      BY <3>1, <3>2, <3>4
  <2>7. (open[s] => cols[s] \subseteq Last(s) \cup ColsOf(queue[s]))'
    BY <1>0, <2>1 DEF Columns, Last
  <2>8. QED
    BY <1>0, <2>1, <2>2, <2>6, <2>7 DEF Columns
<1>10. CASE CloseStream(s)
  <2>1. /\ UNCHANGED <<row, cur, cols, bcols, recv>> /\ pc'[s] = "done" /\ ~open'[s]
    BY <1>10 DEF CloseStream, CloseBatch
  <2>2. QED
    BY <1>0, <2>1, ColumnsKept
<1>11. QED
  BY <1>2, <1>3, <1>4, <1>5, <1>6, <1>7, <1>8, <1>9, <1>10 DEF StreamStep

\* The columns of a stream stay those of its open batch and of its queued changes.
LEMMA ColumnsStep == FlowInv /\ [Next]_vars => AllColumns'
<1> SUFFICES ASSUME FlowInv, [Next]_vars, NEW r \in Streams PROVE Columns(r)'
  BY DEF AllColumns
<1>0. Columns(r) /\ r \in Actors
  BY Distinct DEF FlowInv, AllColumns
<1>1. ASSUME NEW s \in Streams, StreamStep(s) PROVE Columns(r)'
  <2>1. CASE r = s
    BY <1>1, <2>1, ColumnsStream
  <2>2. CASE r # s
    <3>1. UNCHANGED <<row[r], cur[r], queue[r], cols[r], bcols[r], open[r], recv[r], plan, joined>>
      BY <1>1, <2>2, StreamEffect DEF flowVars
    <3>2. pc'[r] = pc[r]
      BY <1>0, <1>1, <2>2, StreamEffect, Distinct
    <3>3. QED
      BY <1>0, <3>1, <3>2, ColumnsKept
  <2>3. QED
    BY <2>1, <2>2
<1>2. ASSUME NEW x \in Actors, PauseStep(x) PROVE Columns(r)'
  <2>1. UNCHANGED <<row, cur, cols, bcols, recv, plan, joined>>
    BY <1>2, PauseEffect DEF flowVars
  <2>2. pc'[r] = pc[r] \/ pc'[r] \notin {"push", "send"}
    BY <1>2, PauseEffect DEF Leaves, Pausing, Begun, Looping, Holding
  <2>3. CASE PauseGivesUp(x)
    <3>1. open' = open /\ pc[x] = "undo" /\ queue' = IF x \in Streams THEN [queue EXCEPT ![x] = Append(queue[x], chg[x])] ELSE queue
      BY <2>3 DEF PauseGivesUp, batchVars
    <3>2. queue'[r] = queue[r] \/ (r = x /\ queue'[r] = Append(queue[r], chg[r]))
      BY <3>1, Types
    <3>3. queue[r] \in Seq(SchemaChg) /\ chg[r] \in SchemaChg
      BY <1>0, Types
    <3>4. ColsOf(queue[r]) \subseteq ColsOf(queue'[r])
      BY <3>2, <3>3, ColsOfAppend
    <3>5. pc'[r] \in {"push", "send"} => queue'[r] = queue[r]
      BY <2>2, <3>1, <3>2
    <3>6. QED
      BY <1>0, <2>1, <2>2, <3>1, <3>4, <3>5, ColumnsKept
  <2>4. CASE ~PauseGivesUp(x)
    <3>1. queue' = queue
      BY <1>2, <2>4 DEF PauseStep, Handle, PauseBegin, TrySkip, TryOk, TryFail, TryDone, UnpauseBegin,
         ReleaseSkip,
         ReleaseSend, ReleaseClear, PauseRetry, LockAndCloseBatches, RunHandler, UnpauseEnd, srcVars
    <3>2. open'[r] => open[r]
      <4>1. CASE LockAndCloseBatches(x)
        BY <4>1 DEF LockAndCloseBatches
      <4>2. CASE ~LockAndCloseBatches(x)
        BY <1>2, <2>4, <4>2 DEF PauseStep, Handle, PauseBegin, TrySkip, TryOk, TryFail, TryDone,
           UnpauseBegin, ReleaseSkip,
           ReleaseSend, ReleaseClear, PauseRetry, RunHandler, UnpauseEnd, batchVars
      <4>3. QED
        BY <4>1, <4>2
    <3>3. QED
      BY <1>0, <2>1, <2>2, <3>1, <3>2, ColumnsKept
  <2>5. QED
    BY <2>3, <2>4
<1>3. CASE PusherStep
  <2>1. UNCHANGED <<row, cur, bcols, open, recv, plan, pc[r]>>
    BY <1>0, <1>3, PusherEffect, Distinct DEF batchVars, ctxVars
  <2>2. CASE JoinStream
    <3>1. /\ pc[pusher] = "join" /\ cols' = [cols EXCEPT ![Arriving] = cols[Arriving] \cup dfCols]
          /\ queue' = [queue EXCEPT ![Arriving] = queue[Arriving] \o <<Adding(dfCols \ cols[Arriving])>>
                                                   \o (IF typed THEN <<Retyping>> ELSE <<>>)]
          /\ joined' = [joined EXCEPT ![Arriving] = TRUE]
      BY <2>2 DEF JoinStream
    <3>2. Len(streams) < Len(Order)
      BY <3>1 DEF FlowInv, Arrivals
    <3>3. Arriving \in Streams /\ ~joined[Arriving]
      <4>1. Arriving \in Streams /\ Len(streams) \in Nat /\ Len(streams) + 1 \in 1..Len(Order)
        BY <3>2, FlowTypes, DataflowAssumption DEF Arriving
      <4>2. Arriving \notin InFlow
        <5>1. \A i \in 1..Len(streams) : streams[i] = Order[i] /\ i \in 1..Len(Order) /\ i # Len(streams) + 1
          BY <3>2, <4>1, DataflowAssumption DEF FlowInv, Arrivals
        <5>2. QED
          BY <4>1, <5>1, DataflowAssumption DEF InFlow, Arriving
      <4>3. QED
        BY <3>1, <4>1, <4>2 DEF FlowInv, Arrivals
    <3>4. CASE r = Arriving
      <4>1. /\ cols'[r] = cols[r] \cup dfCols /\ joined'[r]
            /\ queue'[r] = queue[r] \o <<Adding(dfCols \ cols[r])>> \o (IF typed THEN <<Retyping>> ELSE <<>>)
        BY <3>1, <3>3, <3>4, Types
      <4>2. /\ queue[r] \in Seq(SchemaChg) /\ <<Adding(dfCols \ cols[r])>> \in Seq(SchemaChg)
            /\ (IF typed THEN <<Retyping>> ELSE <<>>) \in Seq(SchemaChg)
            /\ queue[r] \o <<Adding(dfCols \ cols[r])>> \in Seq(SchemaChg)
        <5>1. Adding(dfCols \ cols[r]) \in SchemaChg /\ Retyping \in SchemaChg /\ queue[r] \in Seq(SchemaChg)
          BY Types DEF Adding, Retyping, SchemaChg
        <5>2. QED
          BY <5>1
      <4>3. ColsOf(<<Adding(dfCols \ cols[r])>>) = dfCols \ cols[r]
        BY ColsOfOne DEF Adding
      <4>4. ColsOf(queue[r]) \cup (dfCols \ cols[r]) \subseteq ColsOf(queue'[r])
        BY <4>1, <4>2, <4>3, ColsOfConcat
      <4>5. (open[r] => cols[r] \subseteq Last(r) \cup ColsOf(queue[r]))'
        BY <1>0, <2>1, <4>1, <4>4 DEF Columns, Last
      <4>6. (\A i \in 1..row[r] : plan.add[r][i] \subseteq cols[r])'
        BY <1>0, <2>1, <4>1 DEF Columns
      <4>7. (pc[r] \in {"push", "send"} => queue[r] = <<>> \/ cur[r] = 1)'
        BY <2>1, <3>3, <3>4, FirstBeforeJoin
      <4>8. /\ (Len(bcols[r]) > 0)'
            /\ (\A k \in 1..Len(recv[r]) :
                  /\ recv[r][k].batch \in 1..Len(bcols[r])
                  /\ recv[r][k].row > 1 => plan.add[r][recv[r][k].row] \subseteq bcols[r][recv[r][k].batch])'
        BY <1>0, <2>1 DEF Columns
      <4>9. QED
        BY <4>1, <4>5, <4>6, <4>7, <4>8 DEF Columns
    <3>5. CASE r # Arriving
      <4>1. UNCHANGED <<cols[r], queue[r], joined[r]>>
        BY <3>1, <3>5, Types
      <4>2. QED
        BY <1>0, <2>1, <4>1, ColumnsKept
    <3>6. QED
      BY <3>4, <3>5
  <2>3. CASE ~JoinStream
    <3>1. UNCHANGED <<cols, queue>>
      BY <1>3, <2>3 DEF PusherStep, FirstColumns, MergeColumns, PushStream, PushEnd, srcVars
    <3>2. joined[r] => joined'[r]
      BY <1>3, <2>3, Types DEF PusherStep, FirstColumns, MergeColumns, PushStream, PushEnd, flowVars
    <3>3. QED
      BY <1>0, <2>1, <3>1, <3>2, ColumnsKept
  <2>4. QED
    BY <2>2, <2>3
<1>4. CASE MainStep
  <2>1. /\ UNCHANGED <<row, cur, queue, cols, bcols, recv, plan, joined>>
        /\ pc'[r] = pc[r] \/ pc'[r] \notin {"push", "send"}
    BY <1>4, MainEffect DEF Leaves
  <2>2. open'[r] => open[r]
    <3>1. open' = open \/ open' = [open EXCEPT ![cds] = FALSE]
      BY <1>4 DEF MainStep, WaitReady, CreateTable, ConfigureColumnHandlers, SetUpFails, TakeStream,
         ImportEnd, TakeBatch,
         StreamImported, BatchImported, FileFull, ShapeCheck, ShapePause, ShapeSet, ShapeRelease, ShapeClear, batchVars
    <3>2. QED
      BY <3>1, Types
  <2>3. QED
    BY <1>0, <2>1, <2>2, ColumnsKept
<1>5. CASE Cancel \/ UNCHANGED vars
  <2>1. UNCHANGED <<row, cur, queue, cols, bcols, open, recv, plan, joined, pc>>
    BY <1>5 DEF Cancel, vars, srcVars, batchVars, flowVars, ctxVars
  <2>2. QED
    BY <1>0, <2>1, ColumnsKept
<1>6. QED
  BY <1>1, <1>2, <1>3, <1>4, <1>5 DEF Next, Over


(***************************************************************************)
(* Who waits for whom.                                                      *)
(***************************************************************************)

\* The streams an actor has found stay the same when the dataflow does.
LEMMA FirmSame ==
  UNCHANGED <<streams, closed>> => /\ InFlow' = InFlow
                                   /\ \A a : Firm(a)' = Firm(a)
                                   /\ UNCHANGED late => Met' = Met
  BY DEF InFlow, Ahead, Firm, Met

\* Another actor than the one that moves owns what it did.
LEMMA OwnsOther ==
  ASSUME NEW a \in Actors, UNCHANGED <<streams, late, closed>>,
         pc'[a] = pc[a] \/ {pc[a], pc'[a]} \cap Begun = {},
         UNCHANGED <<got, idx>> \/ pc[a] \notin Looping
  PROVE  \A s : Owns(a, s)' => Owns(a, s)
<1>1. Firm(a)' = Firm(a) /\ Met' = Met
  BY FirmSame
<1>2. CASE {pc[a], pc'[a]} \cap Begun = {}
  BY <1>2 DEF Owns, Begun, Looping, Holding
<1>3. CASE pc'[a] = pc[a] /\ UNCHANGED <<got, idx>>
  <2>1. From(idx)' = From(idx) /\ From(idx + 1)' = From(idx + 1)
    BY <1>3 DEF From
  <2>2. QED
    BY <1>1, <1>3, <2>1 DEF Owns
<1>4. CASE pc'[a] = pc[a] /\ pc[a] \notin Looping
  BY <1>1, <1>4 DEF Owns, Looping
<1>5. QED
  BY <1>2, <1>3, <1>4

\* A step that gives no actor a stream.
LEMMA OwnersKept ==
  ASSUME FlowInv,
         \A a \in Actors, s \in Streams : Owns(a, s)' => Owns(a, s) /\ pc'[s] = "wait",
         \A s \in Streams : ShapeHas(s)' => ShapeHas(s) /\ pc'[s] = "wait",
         \A a \in Actors : pc'[a] = "try" /\ ~miss' => Found(a)',
         \A a \in Actors : pc'[a] \in Holding => pc[a] \in Holding,
         (\A s \in InFlow : closed[s]) => \A s \in InFlow' : closed'[s]
  PROVE  Owners'
<1>0. Owners
  BY DEF FlowInv
<1>1. (\A a \in Actors, s \in Streams : Owns(a, s) => pc[s] = "wait" /\ ~ShapeHas(s))'
  BY <1>0 DEF Owners
<1>2. (\A a, b \in Actors, s \in Streams : Owns(a, s) /\ Owns(b, s) => a = b)'
  BY <1>0 DEF Owners
<1>3. (\A s \in Streams : ShapeHas(s) => pc[s] = "wait")'
  OBVIOUS
<1>4. (\A a, b \in Actors : a # b /\ pc[a] \in Holding /\ pc[b] \in Holding =>
         main \in {a, b} /\ \A s \in InFlow : closed[s])'
  BY <1>0 DEF Owners, Holding
<1>5. QED
  BY <1>1, <1>2, <1>3, <1>4 DEF Owners

\* A step that leaves the ones that pause, and the streams that wait, where they are.
LEMMA OwnersSame ==
  ASSUME FlowInv, UNCHANGED <<streams, late, idx, got, miss>>, \A r \in Streams : closed[r] => closed'[r],
         \A a \in Actors : pc'[a] = pc[a] \/ {pc[a], pc'[a]} \cap Begun = {},
         \A r \in Streams : pc[r] = "wait" => pc'[r] = "wait",
         \A r \in Streams : ShapeHas(r)' => ShapeHas(r)
  PROVE  Owners'
<1>0. Owners
  BY DEF FlowInv
<1>1. InFlow' = InFlow
  BY DEF InFlow
<1>2. \A a \in Actors, s \in Streams : s \in Firm(a)' => s \in Firm(a)
  BY <1>1 DEF Firm, Ahead
<1>3. \A s \in Streams : s \in Met' => s \in Met
  BY <1>1, FlowTypes DEF Met
<1>4. From(idx)' = From(idx) /\ From(idx + 1)' = From(idx + 1)
  BY DEF From
<1>5. ASSUME NEW a \in Actors, NEW s \in Streams, Owns(a, s)' PROVE Owns(a, s) /\ pc'[s] = "wait"
  <2>1. pc'[a] \in Begun
    BY <1>5 DEF Owns, Begun, Looping, Holding
  <2>2. pc'[a] = pc[a]
    BY <2>1
  <2>3. Owns(a, s)
    BY <1>2, <1>3, <1>4, <1>5, <2>2 DEF Owns
  <2>4. QED
    BY <1>0, <2>3 DEF Owners
<1>6. \A s \in Streams : ShapeHas(s)' => ShapeHas(s) /\ pc'[s] = "wait"
  BY <1>0 DEF Owners
<1>7. \A a \in Actors : pc'[a] = "try" /\ ~miss' => Found(a)'
  <2>1. ASSUME NEW a \in Actors, pc'[a] = "try", ~miss' PROVE Found(a)'
    <3>1. pc[a] = "try" /\ ~miss
      BY <2>1 DEF Begun, Looping
    <3>2. Found(a) /\ idx <= Len(streams) + 1
      BY <1>0, <3>1, Distinct DEF Owners, FlowInv, Locks, Looping
    <3>3. \A i \in 1..(idx - 1) : streams[i] \in Streams
      BY <3>2, Types, FlowTypes
    <3>4. QED
      BY <3>2, <3>3 DEF Found
  <2>2. QED
    BY <2>1
<1>8. \A a \in Actors : pc'[a] \in Holding => pc[a] \in Holding
  BY DEF Begun
<1>9. (\A s \in InFlow : closed[s]) => \A s \in InFlow' : closed'[s]
  BY <1>1, FlowTypes
<1>10. QED
  BY <1>5, <1>6, <1>7, <1>8, <1>9, OwnersKept


\* Only one is in df.mux; who else has streams wait holds the dataflow.
LEMMA OneLooping ==
  ASSUME FlowInv, NEW x \in Actors, pc[x] \in Looping, NEW a \in Actors \ {x}
  PROVE  /\ pc[a] \notin Looping
         /\ \A s \in Streams : Owns(a, s) => pc[a] \in Holding
<1>1. mux = x
  BY DEF FlowInv, Locks
<1>2. pc[a] \notin Looping
  BY <1>1 DEF FlowInv, Locks
<1>3. QED
  BY <1>2 DEF Owns, Holding, Looping

\* A stream that pauses is not closed.
LEMMA NotClosed == FlowInv => \A s \in Streams : pc[s] # "done" => ~closed[s]
  BY DEF FlowInv, InHands, InHand

\* Of two actors outside the dataflow, one is main.
LEMMA Outside ==
  ASSUME FlowInv, NEW a \in Actors, NEW b \in Actors, a # b, a \notin InFlow, b \notin InFlow,
         pc[a] \in Begun, pc[b] \in Begun
  PROVE  main \in {a, b}
<1>1. \A c \in Streams : c \notin InFlow /\ pc[c] \in Begun => pc[pusher] = "push" /\ c = Arriving
  <2>1. ASSUME NEW c \in Streams, c \notin InFlow, pc[c] \in Begun
        PROVE  pc[pusher] = "push" /\ c = Arriving
    <3>1. pc[c] \in Pausing
      BY <2>1 DEF FlowInv, Positions, Pausing, Begun, Looping, Holding
    <3>2. QED
      BY <2>1, <3>1 DEF FlowInv, Arrivals
  <2>2. QED
    BY <2>1
<1>2. "push" \notin Begun
  BY DEF Begun, Looping, Holding
<1>3. QED
  BY <1>1, <1>2 DEF Actors

\* What Pause has found when its loop is through.
LEMMA AllFound ==
  ASSUME FlowInv, NEW x \in Actors, pc[x] = "try", ~miss, idx > Len(streams)
  PROVE  \A s \in InFlow : s = x \/ closed[s] \/ s \in got
<1>1. Found(x)
  BY DEF FlowInv, Owners
<1>2. \A i \in 1..Len(streams) : i \in 1..(idx - 1)
  BY Types, FlowTypes
<1>3. QED
  BY <1>1, <1>2 DEF Found, InFlow

\* Then nobody else holds the dataflow, unless nothing in it runs.
LEMMA HoldsAlone ==
  ASSUME FlowInv, NEW x \in Actors, pc[x] = "try", ~miss, idx > Len(streams),
         NEW b \in Actors \ {x}, pc[b] \in Holding
  PROVE  main \in {x, b} /\ \A s \in InFlow : closed[s]
<1>1. \A s \in InFlow : s = x \/ closed[s] \/ s \in got
  BY AllFound
<1>2. pc[b] \in {"lock", "ddl", "create", "configure", "unp"}
  BY OneLooping DEF Holding, Looping
<1>3. Owners /\ InFlow \subseteq Streams
  BY FlowTypes DEF FlowInv
<1>4. \A s \in got : pc[s] = "wait" /\ s \in Streams
  BY <1>3, Types DEF Owners, Owns
<1>5. \A s \in Firm(b) : pc[s] = "wait" /\ s \notin got
  <2>1. \A s \in Firm(b) : s \in Streams /\ Owns(b, s)
    BY <1>2 DEF Owns, Firm
  <2>2. QED
    BY <1>3, <2>1 DEF Owners, Owns
<1>6. b \notin InFlow
  <2>1. SUFFICES ASSUME b \in InFlow PROVE FALSE
    OBVIOUS
  <2>2. ~closed[b]
    BY <1>2, <1>3, <2>1, NotClosed
  <2>3. b \in got
    BY <1>1, <2>1, <2>2
  <2>4. QED
    BY <1>2, <1>4, <2>3
<1>7. \A s \in InFlow : ~closed[s] => s \in Firm(b)
  BY <1>3, <1>6 DEF Firm, Ahead
<1>8. \A s \in InFlow : closed[s]
  BY <1>1, <1>5, <1>7
<1>9. x \notin InFlow
  BY <1>3, <1>8, NotClosed
<1>10. main \in {x, b}
  BY <1>2, <1>6, <1>9, Outside DEF Begun, Looping, Holding
<1>11. QED
  BY <1>8, <1>10

\* A stream that Unpause releases waits for nobody else.
LEMMA ReleasedAlone ==
  ASSUME FlowInv, NEW x \in Actors, ReleaseSend(x)
  PROVE  ~ShapeHas(Turn) /\ \A a \in Actors : Owns(a, Turn) => a = x
<1>0. /\ Owners /\ Turn \in Streams /\ Turn \in InFlow /\ Turn # x /\ pc[Turn] = "wait"
      /\ idx \in 1..Len(streams) /\ Turn = streams[idx]
  <2>1. idx <= Len(streams) /\ pc[Turn] = "wait" /\ Owners
    BY DEF ReleaseSend, FlowInv
  <2>2. Turn \in Streams /\ Turn \in InFlow /\ Turn # x
    BY ReleaseMoves
  <2>3. idx \in 1..Len(streams)
    BY <2>1, Types, FlowTypes
  <2>4. QED
    BY <2>1, <2>2, <2>3 DEF Turn
<1>1. pc[x] \in Looping
  BY ReleaseMoves DEF Looping
<1>2. Turn \in From(idx)
  BY <1>0, FlowTypes DEF From
<1>3. CASE Owns(x, Turn)
  BY <1>0, <1>3 DEF Owners
<1>4. CASE ~Owns(x, Turn)
  <2>1. pc[x] = "release"
    BY <1>2, <1>4, ReleaseMoves DEF ReleaseSend, Releases, Owns
  <2>2. Turn \notin Firm(x)
    BY <1>2, <1>4, <2>1 DEF Owns
  <2>3. ~closed[Turn]
    BY <1>0, NotClosed
  <2>4. x \in InFlow /\ ~\E i, j \in 1..Len(streams) : i < j /\ streams[i] = Turn /\ streams[j] = x
    BY <1>0, <2>2, <2>3 DEF Firm, Ahead
  <2>5. ASSUME NEW a \in Actors, Owns(a, Turn), a # x PROVE FALSE
    <3>1. pc[a] \in Holding
      BY <1>0, <1>1, <2>5, OneLooping
    <3>2. \A s \in InFlow : closed[s]
      BY <1>0, <2>1, <2>5, <3>1 DEF Owners, Holding
    <3>3. QED
      BY <1>0, <2>3, <3>2
  <2>6. ASSUME ShapeHas(Turn) PROVE FALSE
    <3>1. pc[main] \in Importing /\ Turn = cds
      BY <2>6 DEF ShapeHas, Importing
    <3>2. Taken \in 1..Len(streams) /\ streams[Taken] = streams[idx] /\ Taken > 0
      BY <1>0, <3>1, ImportsTaken, FlowTypes
    <3>3. Taken = idx
      BY <1>0, <3>2, StreamsOnce
    <3>4. PICK j \in 1..Len(streams) : streams[j] = x
      BY <2>4 DEF InFlow
    <3>5. ~(idx < j) /\ j # idx
      BY <1>0, <2>4, <3>4
    <3>6. j \in 1..Taken /\ j < Taken
      BY <1>0, <3>3, <3>4, <3>5, FlowTypes
    <3>7. closed[x]
      BY <3>4, <3>6 DEF FlowInv, Import
    <3>8. QED
      BY <2>1, <2>4, <3>7, FlowTypes, NotClosed DEF FlowInv, InHands, InHand
  <2>7. QED
    BY <1>4, <2>5, <2>6
<1>5. QED
  BY <1>3, <1>4

\* A step of a stream leaves waiting streams with those who will unpause them.
LEMMA OwnersStream == ASSUME FlowInv, NEW s \in Streams, StreamStep(s) PROVE Owners'
<1>1. UNCHANGED <<streams, late, idx, got, miss, cds>>
  BY StreamEffect DEF flowVars, pauseVars
<1>2. \A r \in Streams : closed[r] => closed'[r]
  <2>1. closed' = closed \/ closed' = [closed EXCEPT ![s] = TRUE]
    BY StreamEffect
  <2>2. QED
    BY <2>1, Types
<1>3. \A a \in Actors : pc'[a] = pc[a] \/ {pc[a], pc'[a]} \cap Begun = {}
  BY StreamEffect DEF Free, Begun, Looping, Holding
<1>4. \A r \in Streams : pc[r] = "wait" => pc'[r] = "wait"
  BY StreamEffect, Distinct
<1>5. \A r \in Streams : ShapeHas(r)' => ShapeHas(r)
  <2>1. pc'[main] = pc[main] \/ pc'[main] = "fclose"
    BY StreamEffect, Distinct
  <2>2. QED
    BY <1>1, <1>2, <2>1 DEF ShapeHas
<1>6. QED
  BY <1>1, <1>2, <1>3, <1>4, <1>5, OwnersSame

\* So does a step of PushStreamChan.
LEMMA OwnersPusher == ASSUME FlowInv, PusherStep PROVE Owners'
<1>1. /\ UNCHANGED <<idx, got, miss, cds, closed>> /\ \A a \in Actors \ {pusher} : pc'[a] = pc[a]
      /\ {pc[pusher], pc'[pusher]} \cap Begun = {}
  BY PusherEffect DEF pauseVars, batchVars, Begun, Looping, Holding
<1>2. /\ \A a \in Actors : pc'[a] = pc[a] \/ {pc[a], pc'[a]} \cap Begun = {}
      /\ \A r \in Streams : pc'[r] = pc[r]
      /\ \A r \in Streams : ShapeHas(r)' => ShapeHas(r)
  BY <1>1, Distinct DEF ShapeHas
<1>3. CASE ~PushStream
  <2>1. UNCHANGED <<streams, late>>
    BY <1>3 DEF PusherStep, FirstColumns, MergeColumns, JoinStream, PushEnd, flowVars
  <2>2. QED
    BY <1>1, <1>2, <2>1, OwnersSame
<1>4. CASE PushStream
  <2>1. /\ pc[pusher] = "push" /\ mux = NoOne /\ streamCh = <<>> /\ streams' = Append(streams, Arriving)
        /\ late' = IF \E a \in Actors : pc[a] = "lock" THEN late \cup {Arriving} ELSE late
    BY <1>4 DEF PushStream
  <2>2. Len(streams) < Len(Order) /\ joined[Arriving]
    BY <2>1 DEF FlowInv, Arrivals
  <2>3. Arriving \in Streams /\ Len(streams) \in Nat
    BY <2>2, FlowTypes, DataflowAssumption DEF Arriving
  <2>4. /\ Len(streams') = Len(streams) + 1 /\ streams'[Len(streams) + 1] = Arriving
        /\ \A i \in 1..Len(streams) : streams'[i] = streams[i]
    BY <2>1, <2>3, FlowTypes
  <2>5. InFlow' = InFlow \cup {Arriving}
    BY <2>3, <2>4 DEF InFlow
  <2>6. Arriving \notin InFlow
    <3>1. \A i \in 1..Len(streams) : streams[i] = Order[i] /\ i \in 1..Len(Order) /\ i # Len(streams) + 1
      BY <2>2, <2>3, DataflowAssumption DEF FlowInv, Arrivals
    <3>2. Len(streams) + 1 \in 1..Len(Order)
      BY <2>2, <2>3, DataflowAssumption
    <3>3. QED
      BY <3>1, <3>2, DataflowAssumption DEF InFlow, Arriving
  <2>7. \A a \in Actors : pc[a] \notin Looping
    BY <2>1, Distinct DEF FlowInv, Locks
  \* The importer has not set up the table: it takes no stream before, and StreamCh is empty.
  <2>8. pc[main] \notin Begun
    <3>1. SUFFICES ASSUME pc[main] \in Begun PROVE FALSE
      OBVIOUS
    <3>2. ready /\ Len(streams) # 0
      <4>1. ready /\ (streams # <<>> \/ Len(Order) = 0)
        BY <3>1, Distinct DEF FlowInv, Arrivals
      <4>2. QED
        BY <2>2, <2>3, <4>1, FlowTypes
    <3>3. Taken = 0
      BY <3>1 DEF FlowInv, Import, Early, Positions, Importing, Begun, Looping, Holding
    <3>4. Taken = Len(streams)
      BY <2>1, <2>3 DEF Taken
    <3>5. QED
      BY <3>2, <3>3, <3>4
  <2>9. \A a \in Actors : pc[a] \in Begun => a \in InFlow'
    <3>1. SUFFICES ASSUME NEW a \in Actors, pc[a] \in Begun PROVE a \in InFlow'
      OBVIOUS
    <3>2. a \in Streams
      BY <1>1, <2>8, <3>1 DEF Actors
    <3>3. pc[a] \in Pausing
      BY <3>1, <3>2 DEF FlowInv, Positions, Pausing, Begun, Looping, Holding
    <3>4. QED
      BY <2>5, <3>2, <3>3 DEF FlowInv, Arrivals
  <2>10. ASSUME NEW a \in Actors, NEW s \in Streams, pc[a] \in Begun, s \in Firm(a)'
         PROVE  s \in Firm(a)
    <3>1. Ahead(s, a)' /\ ~closed[s]
      BY <1>1, <2>10 DEF Firm
    <3>2. s \in InFlow' /\ s # a /\ a \in InFlow'
      BY <2>9, <2>10, <3>1 DEF Ahead
    <3>3. PICK i, j \in 1..(Len(streams) + 1) : i < j /\ streams'[i] = s /\ streams'[j] = a
      BY <2>4, <3>1, <3>2 DEF Ahead
    <3>4. i \in 1..Len(streams) /\ streams[i] = s
      BY <2>3, <2>4, <3>3
    <3>5. s \in InFlow
      BY <3>4 DEF InFlow
    <3>6. CASE j \in 1..Len(streams)
      <4>1. streams[j] = a
        BY <2>4, <3>3, <3>6
      <4>2. QED
        BY <3>1, <3>2, <3>3, <3>4, <3>5, <3>6, <4>1 DEF Firm, Ahead
    <3>7. CASE j = Len(streams) + 1
      <4>1. a = Arriving
        BY <2>4, <3>3, <3>7
      <4>2. a \notin InFlow
        BY <2>6, <4>1
      <4>3. QED
        BY <3>1, <3>2, <3>5, <4>2 DEF Firm, Ahead
    <3>8. QED
      BY <2>3, <3>3, <3>6, <3>7
  <2>11. ASSUME NEW a \in Actors, NEW s \in Streams, Owns(a, s)' PROVE Owns(a, s) /\ pc'[s] = "wait"
    <3>1. pc'[a] \in Begun
      BY <2>11 DEF Owns, Begun, Looping, Holding
    <3>2. pc'[a] = pc[a] /\ pc[a] \in Begun /\ pc[a] \notin Looping
      BY <1>2, <2>7, <3>1
    <3>3. CASE s \in Firm(a)'
      <4>1. s \in Firm(a)
        BY <2>10, <3>2, <3>3
      <4>2. pc[a] \in {"lock", "ddl", "create", "configure", "unp"}
        BY <3>2 DEF Begun, Looping, Holding
      <4>3. QED
        BY <1>2, <4>1, <4>2 DEF Owns, FlowInv, Owners
    <3>4. CASE pc[a] = "lock" /\ s \in Met' /\ s # a
      <4>1. late' = late \cup {Arriving}
        BY <2>1, <3>4
      <4>2. s \in Met
        BY <1>1, <2>5, <3>4, <4>1 DEF Met
      <4>3. QED
        BY <1>2, <3>4, <4>2 DEF Owns, FlowInv, Owners
    <3>5. QED
      BY <2>11, <3>2, <3>3, <3>4 DEF Owns, Looping
  <2>12. /\ \A a \in Actors : pc'[a] = "try" /\ ~miss' => Found(a)'
         /\ \A a \in Actors : pc'[a] \in Holding => pc[a] \in Holding
         /\ \A s \in Streams : ShapeHas(s)' => ShapeHas(s) /\ pc'[s] = "wait"
    BY <1>2, <2>7 DEF Begun, Looping, Holding, FlowInv, Owners
  <2>13. (\A a, b \in Actors : a # b /\ pc[a] \in Holding /\ pc[b] \in Holding =>
            main \in {a, b} /\ \A s \in InFlow : closed[s])'
    <3>1. \A a, b \in Actors : ~(a # b /\ pc[a] \in Holding /\ pc[b] \in Holding)
      BY <2>8 DEF FlowInv, Owners, Begun
    <3>2. QED
      BY <2>12, <3>1
  <2>14. /\ (\A a \in Actors, s \in Streams : Owns(a, s) => pc[s] = "wait" /\ ~ShapeHas(s))'
         /\ (\A a, b \in Actors, s \in Streams : Owns(a, s) /\ Owns(b, s) => a = b)'
         /\ (\A s \in Streams : ShapeHas(s) => pc[s] = "wait")'
    BY <2>11, <2>12 DEF FlowInv, Owners
  <2>15. QED
    BY <2>12, <2>13, <2>14 DEF Owners
<1>5. QED
  BY <1>3, <1>4

\* So does a step of the importer: the stream it pauses itself belongs to nobody else.
LEMMA OwnersMain == ASSUME FlowInv, MainStep PROVE Owners'
<1>0. /\ Owners /\ UNCHANGED <<streams, late, idx, got, miss, closed>>
      /\ pc'[pusher] = pc[pusher] /\ \A r \in Streams : Leaves(r) /\ (pc'[r] = pc[r] \/ r = cds)
      /\ Actors = Streams \cup {main, pusher} /\ main \notin Streams /\ pc \in [Actors -> Position]
  BY MainEffect, Types, Distinct DEF pauseVars, FlowInv, Actors
<1>1. \A a \in Actors \ {main} : pc'[a] = pc[a] \/ {pc[a], pc'[a]} \cap Begun = {}
  BY <1>0 DEF Leaves, Begun, Looping, Holding
<1>2. InFlow' = InFlow /\ \A a : Firm(a)' = Firm(a)
  BY <1>0, FirmSame
<1>3. /\ \A a \in Actors : pc'[a] = "try" /\ ~miss' => Found(a)'
      /\ \A a \in Actors : pc'[a] \in Holding => pc[a] \in Holding
      /\ (\A s \in InFlow : closed[s]) => \A s \in InFlow' : closed'[s]
  <2>1. \A a \in Actors : Found(a)' = Found(a)
    BY <1>0 DEF Found
  <2>2. pc'[main] \notin Looping /\ (pc'[main] \in Begun => pc[main] \in Begun) /\ pc[main] \notin Pausing
    BY MainEffect
  <2>3. \A a \in Actors : pc'[a] = "try" => pc[a] = "try"
    BY <1>1, <2>2 DEF Begun, Looping, Holding
  <2>4. pc'[main] \in Holding => pc[main] \in Holding
    BY <2>2 DEF Begun, Looping, Holding, Pausing
  <2>5. QED
    BY <1>0, <1>1, <1>2, <2>1, <2>3, <2>4 DEF Begun, Owners
<1>4. ASSUME {pc[main], pc'[main]} \cap (Begun \cup {"shapeSet", "shapeRelease"}) = {},
             \A r \in Streams : pc'[r] = pc[r] \/ pc[r] # "wait"
      PROVE  Owners'
  BY <1>0, <1>1, <1>4, OwnersSame DEF ShapeHas
<1>5. CASE WaitReady \/ TakeStream \/ ImportEnd \/ TakeBatch \/ StreamImported \/ BatchImported \/ ShapeClear
  <2>1. \A r \in Streams : pc'[r] = pc[r]
    BY <1>0, <1>5 DEF WaitReady, TakeStream, ImportEnd, TakeBatch, StreamImported, BatchImported, ShapeClear
  <2>2. /\ pc[main] \in {"start", "take", "batch", "rows", "shapeClear"}
        /\ pc'[main] \in {"pause", "batch", "done", "rows", "misfit", "shape", "take"}
    BY <1>0, <1>5 DEF WaitReady, TakeStream, ImportEnd, TakeBatch, StreamImported, BatchImported, ShapeClear
  <2>3. QED
    BY <1>4, <2>1, <2>2 DEF Begun, Looping, Holding
<1>6. CASE CreateTable \/ ConfigureColumnHandlers \/ SetUpFails
  <2>1. \A r \in Actors \ {main} : pc'[r] = pc[r]
    BY <1>0, <1>6 DEF CreateTable, ConfigureColumnHandlers, SetUpFails
  <2>2. \/ pc[main] \in {"create", "configure"} /\ pc'[main] \in {"configure", "unp", "failed"}
        \/ pc[main] = "start" /\ pc'[main] = "failed"
    BY <1>0, <1>6 DEF CreateTable, ConfigureColumnHandlers, SetUpFails
  <2>3. UNCHANGED cds
    BY <1>6 DEF CreateTable, ConfigureColumnHandlers, SetUpFails
  <2>4. ASSUME NEW a \in Actors, NEW s \in Streams, Owns(a, s)' PROVE Owns(a, s) /\ pc'[s] = "wait"
    <3>1. Owns(a, s)
      <4>1. CASE a # main
        BY <1>0, <1>1, <2>4, <4>1, OwnsOther
      <4>2. CASE a = main
        <5>1. pc'[main] \in {"configure", "unp"} /\ s \in Firm(main)' /\ pc[main] \in {"create", "configure"}
          BY <2>2, <2>4, <4>2 DEF Owns
        <5>2. QED
          BY <1>2, <4>2, <5>1 DEF Owns
      <4>3. QED
        BY <4>1, <4>2
    <3>2. QED
      BY <1>0, <2>1, <3>1 DEF Owners
  <2>5. \A s \in Streams : ShapeHas(s)' => ShapeHas(s) /\ pc'[s] = "wait"
    BY <2>2 DEF ShapeHas
  <2>6. QED
    BY <1>3, <2>4, <2>5, OwnersKept
<1>7. CASE FileFull
  <2>1. /\ pc[main] = "fclose" /\ pc'[main] = "rows"
        /\ \A r \in Streams : pc'[r] = pc[r] \/ pc[r] # "wait"
    <3>1. cds \in Streams /\ pc[main] = "fclose" /\ cds # main
      BY <1>0, <1>7, ImportsTaken DEF FileFull, Importing
    <3>2. PICK told \in BOOLEAN :
            /\ told => pc[cds] = "send"
            /\ pc' = [pc EXCEPT ![main] = "rows", ![cds] = IF told THEN "next" ELSE pc[cds]]
      BY <1>0, <1>7, <3>1 DEF FileFull
    <3>3. QED
      BY <1>0, <3>1, <3>2
  <2>2. QED
    BY <1>4, <2>1 DEF Begun, Looping, Holding
<1>8. CASE ShapeCheck
  <2>1. /\ pc[main] = "shape" /\ \A r \in Streams : pc'[r] = pc[r]
        /\ pc'[main] = IF closed[cds] THEN "shapeRelease" ELSE "shapePause"
        /\ UNCHANGED cds
    BY <1>0, <1>8 DEF ShapeCheck
  <2>2. \A r \in Streams : ~ShapeHas(r)'
    BY <1>0, <2>1 DEF ShapeHas
  <2>3. \A a \in Actors : pc'[a] = pc[a] \/ {pc[a], pc'[a]} \cap Begun = {}
    BY <1>1, <2>1 DEF Begun, Looping, Holding
  <2>4. QED
    BY <1>0, <2>1, <2>2, <2>3, OwnersSame
<1>9. CASE ShapePause
  <2>1. /\ pc[main] = "shapePause" /\ Listening(cds) /\ cds \in Streams /\ UNCHANGED cds
    BY <1>9, ImportsTaken DEF ShapePause, Importing
  <2>2. pc' = [pc EXCEPT ![cds] = "wait", ![main] = "shapeSet"]
    BY <1>9 DEF ShapePause
  <2>3. pc'[cds] = "wait" /\ \A r \in Streams \ {cds} : pc'[r] = pc[r]
    BY <1>0, <2>1, <2>2
  <2>4. pc[cds] # "wait" /\ pc'[main] = "shapeSet"
    BY <1>0, <2>1, <2>2 DEF Listening
  <2>5. \A a \in Actors : pc'[a] = pc[a] \/ {pc[a], pc'[a]} \cap Begun = {}
    BY <1>1, <2>1, <2>4 DEF Begun, Looping, Holding
  <2>6. ASSUME NEW a \in Actors, NEW s \in Streams, Owns(a, s)' PROVE Owns(a, s) /\ pc'[s] = "wait" /\ s # cds
    <3>1. Owns(a, s)
      BY <1>0, <2>5, <2>6, OwnsOther
    <3>2. QED
      BY <1>0, <2>3, <2>4, <3>1 DEF Owners
  <2>7. \A s \in Streams : ShapeHas(s)' => s = cds
    BY <2>1 DEF ShapeHas
  <2>8. /\ (\A a \in Actors, s \in Streams : Owns(a, s) => pc[s] = "wait" /\ ~ShapeHas(s))'
        /\ (\A a, b \in Actors, s \in Streams : Owns(a, s) /\ Owns(b, s) => a = b)'
        /\ (\A s \in Streams : ShapeHas(s) => pc[s] = "wait")'
    BY <1>0, <2>3, <2>6, <2>7 DEF Owners
  <2>9. (\A a, b \in Actors : a # b /\ pc[a] \in Holding /\ pc[b] \in Holding =>
           main \in {a, b} /\ \A s \in InFlow : closed[s])'
    BY <1>0, <1>3 DEF Owners
  <2>10. QED
    BY <1>3, <2>8, <2>9 DEF Owners
<1>10. CASE ShapeSet
  <2>1. /\ pc[main] = "shapeSet" /\ \A r \in Streams : pc'[r] = pc[r] /\ UNCHANGED cds
        /\ pc'[main] = "shapeRelease"
    BY <1>0, <1>10 DEF ShapeSet
  <2>2. \A r \in Streams : ShapeHas(r)' => ShapeHas(r)
    <3>1. UNCHANGED cds
      BY <1>10 DEF ShapeSet
    <3>2. QED
      BY <1>0, <2>1, <3>1 DEF ShapeHas
  <2>3. \A a \in Actors : pc'[a] = pc[a] \/ {pc[a], pc'[a]} \cap Begun = {}
    BY <1>1, <2>1 DEF Begun, Looping, Holding
  <2>4. QED
    BY <1>0, <2>1, <2>2, <2>3, OwnersSame
<1>11. CASE ShapeRelease
  <2>1. /\ pc[main] = "shapeRelease" /\ cds \in Streams /\ UNCHANGED cds /\ (paused[cds] => pc[cds] = "wait")
    BY <1>11, ImportsTaken DEF ShapeRelease, Importing
  <2>2. pc' = IF paused[cds] THEN [pc EXCEPT ![cds] = ret[cds], ![main] = "shapeClear"]
                             ELSE [pc EXCEPT ![main] = "rows"]
    BY <1>11 DEF ShapeRelease
  <2>3. /\ pc'[main] \in {"shapeClear", "rows"} /\ \A r \in Streams \ {cds} : pc'[r] = pc[r]
        /\ ~paused[cds] => pc'[cds] = pc[cds]
    BY <1>0, <2>1, <2>2
  <2>4. \A a \in Actors : pc'[a] = pc[a] \/ {pc[a], pc'[a]} \cap Begun = {}
    BY <1>1, <2>1, <2>3 DEF Begun, Looping, Holding
  <2>5. paused[cds] => ShapeHas(cds)
    BY <2>1, NotClosed DEF ShapeHas
  <2>6. ASSUME NEW a \in Actors, NEW s \in Streams, Owns(a, s)' PROVE Owns(a, s) /\ pc'[s] = "wait"
    <3>1. Owns(a, s)
      BY <1>0, <2>4, <2>6, OwnsOther
    <3>2. pc[s] = "wait" /\ ~ShapeHas(s)
      BY <1>0, <3>1 DEF Owners
    <3>3. QED
      BY <2>3, <2>5, <3>1, <3>2
  <2>7. \A s \in Streams : ~ShapeHas(s)'
    BY <2>3 DEF ShapeHas
  <2>8. QED
    BY <1>3, <2>6, <2>7, OwnersKept
<1>12. QED
  BY <1>5, <1>6, <1>7, <1>8, <1>9, <1>10, <1>11 DEF MainStep

\* So do the steps of Pause, of the handler and of Unpause.
LEMMA OwnersPause == ASSUME FlowInv, NEW x \in Actors, PauseStep(x) PROVE Owners'
<1>0. /\ Owners /\ UNCHANGED <<streams, late, closed, cds>>
      /\ \A r \in Streams \ {x} : Leaves(r)
      /\ \A a \in Actors \ (Streams \cup {x}) : pc'[a] = pc[a]
      /\ pc \in [Actors -> Position] /\ idx \in Nat \ {0} /\ Len(streams) \in Nat /\ got \subseteq Streams
  BY PauseEffect, Types, FlowTypes DEF flowVars, FlowInv
<1>1. \A a \in Actors \ {x} : pc'[a] = pc[a] \/ {pc[a], pc'[a]} \cap Begun = {}
  BY <1>0 DEF Leaves, Begun, Looping, Holding
<1>2. /\ InFlow' = InFlow /\ Met' = Met /\ \A a : Firm(a)' = Firm(a)
      /\ (\A s \in InFlow : closed[s]) => \A s \in InFlow' : closed'[s]
  BY <1>0, FirmSame
\* The importer is where it was, or it is x and does not import.
<1>3. \A r \in Streams : ShapeHas(r)' => ShapeHas(r)
  <2>1. pc'[main] = pc[main] \/ pc'[main] \notin {"shapeSet", "shapeRelease"}
    BY <1>0, PauseEffect, Distinct DEF Early, Begun, Looping, Holding
  <2>2. QED
    BY <1>0, <2>1 DEF ShapeHas
\* The others own what they did: x alone is in df.mux, or the loop is left as it was.
<1>4. ASSUME UNCHANGED <<got, idx>> \/ pc[x] \in Looping \/ mux = NoOne
      PROVE  \A a \in Actors \ {x}, s \in Streams : Owns(a, s)' => Owns(a, s)
  <2>1. ASSUME NEW a \in Actors \ {x} PROVE \A s : Owns(a, s)' => Owns(a, s)
    <3>1. UNCHANGED <<got, idx>> \/ pc[a] \notin Looping
      BY <1>4, OneLooping, Distinct DEF FlowInv, Locks
    <3>2. QED
      BY <1>0, <1>1, <3>1, OwnsOther
  <2>2. QED
    BY <2>1
\* Steps that leave the streams that wait.
<1>5. ASSUME UNCHANGED <<got, idx, miss>> \/ pc[x] \in Looping \/ mux = NoOne,
             \A s \in Streams : Owns(x, s)' => Owns(x, s),
             \A s \in Streams : pc[s] = "wait" => pc'[s] = "wait",
             pc'[x] = "try" /\ ~miss' => Found(x)',
             pc'[x] \in Holding => pc[x] \in Holding
      PROVE  Owners'
  <2>1. \A a \in Actors, s \in Streams : Owns(a, s)' => Owns(a, s) /\ pc'[s] = "wait"
    BY <1>0, <1>4, <1>5 DEF Owners
  <2>2. \A s \in Streams : ShapeHas(s)' => ShapeHas(s) /\ pc'[s] = "wait"
    BY <1>0, <1>3, <1>5 DEF Owners
  <2>3. \A a \in Actors : pc'[a] = "try" /\ ~miss' => Found(a)'
    <3>1. SUFFICES ASSUME NEW a \in Actors, pc'[a] = "try", ~miss', a # x PROVE Found(a)'
      BY <1>5
    <3>2. pc[a] = "try" /\ pc[a] \in Looping
      BY <1>1, <3>1 DEF Begun, Looping
    <3>3. mux = a /\ pc[x] \notin Looping
      BY <3>1, <3>2, Distinct DEF FlowInv, Locks
    <3>4. UNCHANGED <<got, idx, miss>>
      BY <1>5, <3>3, Distinct
    <3>5. Found(a)
      BY <1>0, <3>1, <3>2, <3>4 DEF Owners
    <3>6. QED
      BY <1>0, <3>4, <3>5 DEF Found
  <2>4. \A a \in Actors : pc'[a] \in Holding => pc[a] \in Holding
    BY <1>1, <1>5 DEF Begun
  <2>5. QED
    BY <1>2, <2>1, <2>2, <2>3, <2>4, OwnersKept
<1>6. \A i \in Nat \ {0} : From(i + 1) \subseteq From(i)
  BY <1>0 DEF From
<1>7. CASE Handle(x)
  <2>1. UNCHANGED <<got, idx, miss>> /\ pc[x] = "handle" /\ pc'[x] \in {"pause", "loop", "join"}
        /\ \A s \in Streams : pc[s] = "wait" => pc'[s] = "wait"
    BY <1>0, <1>7 DEF Handle, pauseVars
  <2>2. \A s \in Streams : ~Owns(x, s)'
    BY <2>1 DEF Owns
  <2>3. QED
    BY <1>5, <2>1, <2>2 DEF Holding
<1>8. CASE PauseBegin(x)
  <2>1. /\ pc[x] = "pause" /\ pc'[x] = "try" /\ mux = NoOne /\ got' = {} /\ idx' = 1
        /\ \A s \in Streams : pc[s] = "wait" => pc'[s] = "wait"
    BY <1>0, <1>8 DEF PauseBegin
  <2>2. /\ \A s \in Streams : ~Owns(x, s)'
        /\ Found(x)'
    BY <2>1 DEF Owns, Found
  <2>3. QED
    BY <1>5, <2>1, <2>2 DEF Holding
<1>9. CASE TrySkip(x) \/ TryFail(x)
  <2>1. /\ pc[x] = "try" /\ pc' = pc /\ idx' = idx + 1 /\ idx <= Len(streams) /\ got' = got
        /\ miss' \/ (miss' = miss /\ (Turn = x \/ closed[Turn]))
    BY <1>9 DEF TrySkip, TryFail
  <2>2. \A s \in Streams : Owns(x, s)' => Owns(x, s)
    BY <2>1 DEF Owns
  <2>3. ~miss' => Found(x)'
    <3>1. SUFFICES ASSUME ~miss' PROVE Found(x)'
      OBVIOUS
    <3>2. Found(x) /\ (Turn = x \/ closed[Turn])
      BY <1>0, <2>1, <3>1 DEF Owners
    <3>3. \A i \in 1..idx : i \in 1..(idx - 1) \/ streams[i] = Turn
      BY <1>0 DEF Turn
    <3>4. idx' - 1 = idx
      BY <1>0, <2>1
    <3>5. QED
      BY <1>0, <2>1, <3>2, <3>3, <3>4 DEF Found
  <2>4. QED
    BY <1>5, <2>1, <2>2, <2>3 DEF Looping
<1>10. CASE TryDone(x) /\ miss
  <2>1. /\ pc[x] = "try" /\ pc'[x] = "undo" /\ got' = got
        /\ \A s \in Streams : pc[s] = "wait" => pc'[s] = "wait"
    BY <1>0, <1>10 DEF TryDone, AllPaused
  <2>2. \A s \in Streams : Owns(x, s)' => Owns(x, s)
    BY <2>1 DEF Owns
  <2>3. QED
    BY <1>5, <2>1, <2>2 DEF Looping, Holding
<1>11. CASE UnpauseBegin(x)
  <2>1. /\ pc[x] = "unp" /\ pc'[x] = "release" /\ mux = NoOne
        /\ \A s \in Streams : pc[s] = "wait" => pc'[s] = "wait"
    BY <1>0, <1>11 DEF UnpauseBegin
  <2>2. \A s \in Streams : Owns(x, s)' => Owns(x, s)
    BY <1>2, <2>1 DEF Owns
  <2>3. QED
    BY <1>5, <2>1, <2>2 DEF Holding
<1>12. CASE ReleaseSkip(x)
  <2>1. pc[x] \in {"undo", "release"} /\ pc' = pc /\ idx' = idx + 1 /\ got' = got
    BY <1>12 DEF ReleaseSkip
  <2>2. \A s \in Streams : s \in From(idx)' => s \in From(idx)
    BY <1>0, <1>6, <2>1 DEF From
  <2>3. \A s \in Streams : Owns(x, s)' => Owns(x, s)
    BY <1>2, <2>1, <2>2 DEF Owns
  <2>4. QED
    BY <1>5, <2>1, <2>3 DEF Looping
<1>13. CASE ReleaseClear(x)
  <2>1. /\ \/ pc[x] = "undoClear" /\ pc'[x] = "undo"
           \/ pc[x] = "releaseClear" /\ pc'[x] = "release"
        /\ idx' = idx + 1 /\ got' = got
        /\ \A s \in Streams : pc[s] = "wait" => pc'[s] = "wait"
    BY <1>0, <1>13 DEF ReleaseClear
  <2>2. \A s \in Streams : s \in From(idx)' => s \in From(idx + 1)
    BY <1>0, <2>1 DEF From
  <2>3. \A s \in Streams : Owns(x, s)' => Owns(x, s)
    BY <1>2, <2>1, <2>2 DEF Owns
  <2>4. QED
    BY <1>5, <2>1, <2>3 DEF Looping, Holding
<1>14. CASE PauseRetry(x) \/ PauseGivesUp(x) \/ UnpauseEnd(x)
  <2>1. /\ pc[x] \in {"undo", "release"} /\ pc'[x] \in {"pause", "loop", "failed", "take", "join"}
        /\ \A s \in Streams : pc[s] = "wait" => pc'[s] = "wait"
    <3>1. CASE PauseRetry(x)
      BY <1>0, <3>1 DEF PauseRetry
    <3>2. CASE PauseGivesUp(x)
      BY <1>0, <3>2 DEF PauseGivesUp
    <3>3. CASE UnpauseEnd(x)
      BY <1>0, <3>3 DEF UnpauseEnd
    <3>4. QED
      BY <1>14, <3>1, <3>2, <3>3
  <2>2. \A s \in Streams : ~Owns(x, s)'
    BY <2>1 DEF Owns
  <2>3. QED
    BY <1>5, <2>1, <2>2 DEF Looping, Holding
<1>15. CASE LockAndCloseBatches(x)
  <2>1. PICK told \in SUBSET {s \in InFlow : pc[s] = "send" /\ open[s]} :
          pc' = [b \in Actors |-> IF b = x THEN "ddl" ELSE IF b \in told THEN "next" ELSE pc[b]]
    BY <1>15 DEF LockAndCloseBatches
  <2>2. UNCHANGED <<got, idx, miss>> /\ pc[x] = "lock"
    BY <1>15 DEF LockAndCloseBatches, pauseVars
  <2>3. pc'[x] = "ddl" /\ \A s \in Streams : pc[s] = "wait" => pc'[s] = "wait"
    BY <2>1, <2>2, Distinct
  <2>4. \A s \in Streams : Owns(x, s)' => Owns(x, s)
    BY <1>2, <2>2, <2>3 DEF Owns
  <2>5. QED
    BY <1>5, <2>2, <2>3, <2>4 DEF Holding
<1>16. CASE RunHandler(x)
  <2>1. /\ pc[x] = "ddl" /\ pc'[x] = "unp" /\ UNCHANGED <<got, idx, miss>>
        /\ \A s \in Streams : pc[s] = "wait" => pc'[s] = "wait"
    BY <1>0, <1>16 DEF RunHandler, AfterHandler, pauseVars
  <2>2. \A s \in Streams : Owns(x, s)' => Owns(x, s)
    BY <1>2, <2>1 DEF Owns
  <2>3. QED
    BY <1>5, <2>1, <2>2 DEF Holding
\* A stream is paused: it did not wait before.
<1>17. CASE TryOk(x)
  <2>1. /\ Turn \in Streams /\ Turn # x /\ pc[x] = "try" /\ Listening(Turn)
        /\ pc' = [pc EXCEPT ![Turn] = "wait"] /\ got' = got \cup {Turn} /\ idx' = idx + 1
        /\ miss' = miss /\ idx <= Len(streams)
    BY <1>17, TurnType DEF TryOk
  <2>2. /\ pc[Turn] \notin {"wait"} \cup Begun /\ pc'[Turn] = "wait"
        /\ \A a \in Actors : a # Turn => pc'[a] = pc[a]
    BY <1>0, <2>1, Distinct DEF Listening, Begun, Looping, Holding
  <2>3. ASSUME NEW a \in Actors, NEW s \in Streams, Owns(a, s)'
        PROVE  Owns(a, s) \/ (a = x /\ s = Turn)
    BY <1>4, <2>1, <2>2, <2>3 DEF Looping, Owns
  <2>4. \A a \in Actors, s \in Streams : Owns(a, s) => s # Turn
    BY <1>0, <2>2 DEF Owners
  <2>5. \A s \in Streams : ShapeHas(s)' => ShapeHas(s) /\ s # Turn
    BY <1>0, <1>3, <2>2 DEF Owners
  <2>6. \A s \in Streams : pc[s] = "wait" => pc'[s] = "wait"
    BY <2>2, Distinct
  <2>7. /\ (\A a \in Actors, s \in Streams : Owns(a, s) => pc[s] = "wait" /\ ~ShapeHas(s))'
        /\ (\A s \in Streams : ShapeHas(s) => pc[s] = "wait")'
    BY <1>0, <2>2, <2>3, <2>5, <2>6 DEF Owners
  <2>8. (\A a, b \in Actors, s \in Streams : Owns(a, s) /\ Owns(b, s) => a = b)'
    <3>1. ASSUME NEW a \in Actors, NEW b \in Actors, NEW s \in Streams, Owns(a, s)', Owns(b, s)'
          PROVE  a = b
      <4>1. CASE s = Turn
        BY <2>3, <2>4, <3>1, <4>1
      <4>2. CASE s # Turn
        BY <1>0, <2>3, <3>1, <4>2 DEF Owners
      <4>3. QED
        BY <4>1, <4>2
    <3>2. QED
      BY <3>1
  <2>9. (\A a \in Actors : pc[a] = "try" /\ ~miss => Found(a))'
    <3>1. SUFFICES ASSUME NEW a \in Actors, pc'[a] = "try", ~miss' PROVE Found(a)'
      OBVIOUS
    <3>2. pc[a] = "try" /\ a # Turn
      BY <2>2, <3>1
    <3>3. a = x
      BY <2>1, <3>2, OneLooping DEF Looping
    <3>4. Found(x)
      BY <1>0, <2>1, <3>1 DEF Owners
    <3>5. \A i \in 1..idx : i \in 1..(idx - 1) \/ streams[i] = Turn
      BY <1>0 DEF Turn
    <3>6. idx' - 1 = idx
      BY <1>0, <2>1
    <3>7. QED
      BY <1>0, <2>1, <3>3, <3>4, <3>5, <3>6 DEF Found
  <2>10. (\A a, b \in Actors : a # b /\ pc[a] \in Holding /\ pc[b] \in Holding =>
            main \in {a, b} /\ \A s \in InFlow : closed[s])'
    <3>1. \A a \in Actors : pc'[a] \in Holding => pc[a] \in Holding
      BY <2>2 DEF Holding
    <3>2. QED
      BY <1>0, <1>2, <3>1 DEF Owners
  <2>11. QED
    BY <2>7, <2>8, <2>9, <2>10 DEF Owners
\* All streams are paused.
<1>18. CASE TryDone(x) /\ ~miss
  <2>1. /\ pc[x] = "try" /\ pc'[x] \in {"create", "lock"} /\ UNCHANGED <<got, miss>> /\ idx > Len(streams)
        /\ \A a \in Actors : a # x => pc'[a] = pc[a]
    BY <1>0, <1>18 DEF TryDone, AllPaused, WhenPaused
  <2>2. \A s \in Streams : pc[s] = "wait" => pc'[s] = "wait"
    BY <2>1, Distinct
  <2>3. \A s \in Streams : s \in Firm(x) \/ s \in Met \ {x} => s \in got
    BY <1>18, <2>1, AllFound DEF Firm, Ahead, Met
  <2>4. ASSUME NEW a \in Actors, NEW s \in Streams, Owns(a, s)' PROVE Owns(a, s) /\ pc'[s] = "wait"
    <3>1. CASE a = x
      <4>1. s \in Firm(x) \/ s \in Met \ {x}
        BY <1>2, <2>1, <2>4, <3>1 DEF Owns
      <4>2. Owns(x, s)
        BY <2>1, <2>3, <4>1 DEF Owns
      <4>3. QED
        BY <1>0, <2>2, <3>1, <4>2 DEF Owners
    <3>2. CASE a # x
      BY <1>0, <1>4, <2>1, <2>2, <2>4, <3>2 DEF Looping, Owners
    <3>3. QED
      BY <3>1, <3>2
  <2>5. \A s \in Streams : ShapeHas(s)' => ShapeHas(s) /\ pc'[s] = "wait"
    BY <1>0, <1>3, <2>2 DEF Owners
  <2>6. (\A a \in Actors : pc[a] = "try" /\ ~miss => Found(a))'
    BY <2>1, OneLooping DEF Looping
  <2>7. (\A a, b \in Actors : a # b /\ pc[a] \in Holding /\ pc[b] \in Holding =>
           main \in {a, b} /\ \A s \in InFlow : closed[s])'
    <3>1. SUFFICES ASSUME NEW a \in Actors, NEW b \in Actors, a # b, pc'[a] \in Holding, pc'[b] \in Holding
                   PROVE  main \in {a, b} /\ \A s \in InFlow : closed[s]
      BY <1>0, <1>2
    <3>2. \A c \in Actors \ {x} : pc'[c] \in Holding => main \in {x, c} /\ \A s \in InFlow : closed[s]
      BY <1>18, <2>1, HoldsAlone
    <3>3. CASE a = x \/ b = x
      BY <3>1, <3>2, <3>3
    <3>4. CASE a # x /\ b # x
      BY <1>0, <2>1, <3>1, <3>4 DEF Owners
    <3>5. QED
      BY <3>3, <3>4
  <2>8. /\ (\A a \in Actors, s \in Streams : Owns(a, s) => pc[s] = "wait" /\ ~ShapeHas(s))'
        /\ (\A a, b \in Actors, s \in Streams : Owns(a, s) /\ Owns(b, s) => a = b)'
        /\ (\A s \in Streams : ShapeHas(s) => pc[s] = "wait")'
    BY <1>0, <2>4, <2>5 DEF Owners
  <2>9. QED
    BY <2>6, <2>7, <2>8 DEF Owners
\* A stream goes on that waited for x, or for nobody.
<1>19. CASE ReleaseSend(x)
  <2>1. /\ Turn \in Streams /\ Turn # x /\ UNCHANGED <<got, idx, miss>> /\ Turn = streams[idx] /\ idx <= Len(streams)
        /\ \/ pc[x] = "undo" /\ pc'[x] = "undoClear"
           \/ pc[x] = "release" /\ pc'[x] = "releaseClear"
        /\ \A b \in Actors \ {x, Turn} : pc'[b] = pc[b]
    BY <1>19, ReleaseMoves DEF ReleaseSend, pauseVars, Turn
  <2>2. \A s \in Streams : s # Turn /\ pc[s] = "wait" => pc'[s] = "wait"
    BY <2>1, Distinct DEF Looping
  <2>3. Turn \notin From(idx + 1) /\ From(idx + 1)' = From(idx + 1)
    <3>1. \A j \in (idx + 1)..Len(streams) : streams[j] # streams[idx]
      <4>1. SUFFICES ASSUME NEW j \in (idx + 1)..Len(streams), streams[j] = streams[idx] PROVE FALSE
        OBVIOUS
      <4>2. j \in 1..Len(streams) /\ idx \in 1..Len(streams) /\ j # idx
        BY <1>0, <2>1
      <4>3. QED
        BY <4>1, <4>2, StreamsOnce
    <3>2. QED
      BY <1>0, <2>1, <3>1 DEF From
  <2>4. ASSUME NEW a \in Actors, NEW s \in Streams, Owns(a, s)' PROVE Owns(a, s) /\ pc'[s] = "wait"
    <3>1. CASE a = x
      <4>1. s # Turn
        BY <1>2, <2>1, <2>3, <2>4, <3>1 DEF Owns
      <4>2. s \in From(idx)
        BY <1>0, <1>6, <2>1, <2>3, <2>4, <3>1 DEF Owns
      <4>3. Owns(x, s)
        BY <1>2, <2>1, <2>4, <3>1, <4>2 DEF Owns
      <4>4. QED
        BY <1>0, <2>2, <3>1, <4>1, <4>3 DEF Owners
    <3>2. CASE a # x
      <4>1. Owns(a, s)
        BY <1>4, <2>1, <2>4, <3>2
      <4>2. s # Turn
        BY <1>19, <3>2, <4>1, ReleasedAlone
      <4>3. QED
        BY <1>0, <2>2, <4>1, <4>2 DEF Owners
    <3>3. QED
      BY <3>1, <3>2
  <2>5. \A s \in Streams : ShapeHas(s)' => ShapeHas(s) /\ pc'[s] = "wait"
    BY <1>0, <1>3, <1>19, <2>2, ReleasedAlone DEF Owners
  <2>6. \A a \in Actors : pc'[a] = "try" /\ ~miss' => Found(a)'
    BY <1>1, <2>1, OneLooping DEF Looping, Begun
  <2>7. \A a \in Actors : pc'[a] \in Holding => pc[a] \in Holding
    BY <1>1, <2>1 DEF Holding, Begun
  <2>8. QED
    BY <1>2, <2>4, <2>5, <2>6, <2>7, OwnersKept
<1>20. QED
  BY <1>7, <1>8, <1>9, <1>10, <1>11, <1>12, <1>13, <1>14, <1>15, <1>16, <1>17, <1>18, <1>19 DEF PauseStep

\* A stream that is paused waits for one goroutine only.
LEMMA OwnersStep == FlowInv /\ [Next]_vars => Owners'
<1> SUFFICES ASSUME FlowInv, [Next]_vars PROVE Owners'
  OBVIOUS
<1>1. CASE Cancel \/ UNCHANGED vars
  <2>1. UNCHANGED <<streams, late, idx, got, miss, cds, closed, pc>>
    BY <1>1 DEF Cancel, vars, flowVars, pauseVars, batchVars
  <2>2. QED
    BY <2>1, OwnersSame DEF ShapeHas
<1>2. QED
  BY <1>1, OwnersStream, OwnersPause, OwnersPusher, OwnersMain DEF Next, Over

\* A batch is closed by its own stream, by the importer, or with the stream waiting.
LEMMA SendStep == FlowInv /\ [Next]_vars => NoSendOnClosed'
<1> SUFFICES ASSUME FlowInv, [Next]_vars, plan'.fileLimit = 0,
                    NEW r \in Streams \ late', pc'[r] = "send"
             PROVE  open'[r]
  BY DEF NoSendOnClosed
<1>0. /\ NoSendOnClosed /\ Owners /\ r \in Streams /\ r # main /\ r # pusher
      /\ "send" \notin Pausing \cup {"loop"}
  BY Distinct DEF FlowInv, Pausing, Begun, Looping, Holding
<1>a. ASSUME plan' = plan, late \subseteq late', pc[r] = "send", open'[r] = open[r] PROVE open'[r]
  BY <1>0, <1>a DEF NoSendOnClosed
<1>1. ASSUME NEW s \in Streams, StreamStep(s) PROVE open'[r]
  <2>1. plan' = plan /\ late' = late
    BY <1>1, StreamEffect DEF flowVars
  <2>2. CASE r # s
    <3>1. pc'[r] = pc[r] /\ open'[r] = open[r]
      BY <1>0, <1>1, <2>2, StreamEffect, Distinct
    <3>2. QED
      BY <1>a, <2>1, <3>1
  <2>3. CASE r = s
    <3>1. PushCheck(s)
      BY <1>1, <2>3, Types, Distinct DEF StreamStep, NextReprocess, NextRow, NextEnd, LoopChange,
         LoopExit, PushCancelled,
         SendChange, SendRow, SendPanic, CloseStream
    <3>2. open' = open /\ open[s]
      BY <2>3, <3>1, Types, Distinct DEF PushCheck, batchVars
    <3>3. QED
      BY <2>3, <3>2
  <2>4. QED
    BY <2>2, <2>3
<1>2. ASSUME NEW x \in Actors, PauseStep(x) PROVE open'[r]
  <2>1. plan' = plan /\ late' = late
    BY <1>2, PauseEffect DEF flowVars
  <2>2. r # x
    BY <1>0, <1>2, PauseEffect
  <2>3. pc[r] = "send"
    BY <1>2, <2>2, PauseEffect DEF Leaves
  <2>4. CASE LockAndCloseBatches(x)
    <3>1. pc[x] = "lock" /\ open' = [s \in Streams |-> open[s] /\ s \notin InFlow]
      BY <2>4 DEF LockAndCloseBatches
    <3>2. r \notin InFlow
      <4>1. SUFFICES ASSUME r \in InFlow PROVE FALSE
        OBVIOUS
      <4>2. r \in Met \ {x}
        BY <2>1, <2>2, <2>3, <4>1, NotClosed DEF Met
      <4>3. Owns(x, r)
        BY <3>1, <4>2 DEF Owns
      <4>4. QED
        BY <1>0, <2>3, <4>3 DEF Owners
    <3>3. open'[r] = open[r]
      BY <3>1, <3>2, Types
    <3>4. QED
      BY <1>a, <2>1, <2>3, <3>3
  <2>5. CASE ~LockAndCloseBatches(x)
    <3>1. open' = open
      BY <1>2, <2>5 DEF PauseStep, Handle, PauseBegin, TrySkip, TryOk, TryFail, TryDone, UnpauseBegin,
         ReleaseSkip,
         ReleaseSend, ReleaseClear, PauseRetry, PauseGivesUp, RunHandler, UnpauseEnd, batchVars
    <3>2. QED
      BY <1>a, <2>1, <2>3, <3>1
  <2>6. QED
    BY <2>4, <2>5
<1>3. CASE PusherStep
  <2>1. pc'[r] = pc[r] /\ UNCHANGED <<open, plan>>
    BY <1>0, <1>3, PusherEffect, Distinct DEF batchVars, ctxVars
  <2>2. late \subseteq late'
    BY <1>3 DEF PusherStep, FirstColumns, MergeColumns, JoinStream, PushStream, PushEnd, flowVars
  <2>3. QED
    BY <1>a, <2>1, <2>2
<1>4. CASE MainStep
  <2>1. UNCHANGED <<plan, late>> /\ pc[r] = "send"
    BY <1>4, MainEffect DEF Leaves
  <2>2. pc[main] # "fclose"
    BY <2>1 DEF FlowInv, Import
  <2>3. open' = open
    BY <1>4, <2>2 DEF MainStep, WaitReady, CreateTable, ConfigureColumnHandlers, SetUpFails, TakeStream,
       ImportEnd,
       TakeBatch, StreamImported, BatchImported, FileFull, ShapeCheck, ShapePause, ShapeSet, ShapeRelease, ShapeClear, batchVars
  <2>4. QED
    BY <1>a, <2>1, <2>3
<1>5. CASE Cancel \/ UNCHANGED vars
  <2>1. UNCHANGED <<pc, open, plan, late>>
    BY <1>5 DEF Cancel, vars, batchVars, flowVars, ctxVars
  <2>2. QED
    BY <1>a, <2>1
<1>6. QED
  BY <1>1, <1>2, <1>3, <1>4, <1>5 DEF Next, Over

\* A run does not change what it is about.
LEMMA PlanStep == FlowInv /\ [Next]_vars => plan' \in Plans
<1>1. FlowInv /\ [Next]_vars => plan' = plan
  BY StreamEffect, PauseEffect, PusherEffect, MainEffect DEF Next, Over, Cancel, vars, ctxVars
<1>2. QED
  BY <1>1 DEF FlowInv


(***************************************************************************)
(* The variables keep their types.                                          *)
(***************************************************************************)

\* The type invariant, and the length of df.Streams.
LEMMA Typed == FlowInv => TypeOK /\ Len(streams) \in Nat
  BY FlowTypes DEF FlowInv

\* Append keeps the type of a sequence.
LEMMA AppendType == ASSUME NEW S, NEW q \in Seq(S), NEW e \in S PROVE Append(q, e) \in Seq(S)
  OBVIOUS

\* Concatenation keeps the type of sequences.
LEMMA ConcatType ==
  ASSUME NEW S, NEW q \in Seq(S), NEW p \in Seq(S), NEW r \in Seq(S)
  PROVE  q \o p \o r \in Seq(S)
  OBVIOUS

\* The steps of a stream keep the types.
LEMMA TypeStream == ASSUME FlowInv, NEW s \in Streams, StreamStep(s) PROVE TypeOK'
<1>0. /\ TypeOK /\ pc' \in [Actors -> Position]
      /\ UNCHANGED <<plan, paused, ret, dfCols, cds, cb, flowVars, pauseVars, ddlVars, cancelled>>
      /\ closed' = closed \/ closed' = [closed EXCEPT ![s] = TRUE]
  BY StreamEffect, Typed
<1>1. /\ row \in [Streams -> 0..NRows] /\ cur \in [Streams -> 0..NRows] /\ repro \in [Streams -> 0..NRows]
      /\ queue \in [Streams -> Seq(SchemaChg)] /\ cols \in [Streams -> SUBSET Cols]
      /\ bcols \in [Streams -> Seq(SUBSET Cols)] /\ open \in [Streams -> BOOLEAN]
      /\ cnt \in [Streams -> Nat] /\ recv \in [Streams -> Seq([row : 1..NRows, batch : Nat])]
      /\ closed \in [Streams -> BOOLEAN] /\ chg \in [Actors -> SchemaChg] /\ NRows \in Nat
  BY Types, DataflowAssumption
<1>2. /\ row' \in [Streams -> 0..NRows] /\ cur' \in [Streams -> 0..NRows] /\ repro' \in [Streams -> 0..NRows]
      /\ cols' \in [Streams -> SUBSET Cols] /\ queue' \in [Streams -> Seq(SchemaChg)]
      /\ chg' \in [Actors -> SchemaChg]
  <2>1. CASE NextRow(s)
    <3>1. plan.rows[s] \in 0..NRows /\ plan.add[s] \in [1..NRows -> SUBSET Cols]
      BY Types DEF Plan
    <3>2. row[s] + 1 \in 1..NRows
      <4>1. \A m, n, p \in Nat : m < n /\ n \in 0..p => m + 1 \in 1..p
        OBVIOUS
      <4>2. row[s] \in Nat /\ plan.rows[s] \in Nat /\ row[s] < plan.rows[s]
        BY <1>1, <2>1, <3>1 DEF NextRow
      <4>3. QED
        BY <1>1, <3>1, <4>1, <4>2
    <3> DEFINE new == plan.add[s][row[s] + 1] \ cols[s]
               adds == IF new = {} THEN <<>> ELSE <<Adding(new)>>
               type == IF row[s] + 1 \in plan.type[s] THEN <<Retyping>> ELSE <<>>
    <3>3. /\ row' = [row EXCEPT ![s] = row[s] + 1] /\ cur' = [cur EXCEPT ![s] = row[s] + 1]
          /\ cols' = [cols EXCEPT ![s] = cols[s] \cup new] /\ UNCHANGED <<repro, chg>>
          /\ queue' = [queue EXCEPT ![s] = queue[s] \o adds \o type]
      BY <2>1 DEF NextRow
    <3>4. new \in SUBSET Cols
      BY <3>1, <3>2
    <3>5. Adding(new) \in SchemaChg /\ Retyping \in SchemaChg
      BY <3>4 DEF Adding, Retyping, SchemaChg
    <3> HIDE DEF new
    <3>6. adds \in Seq(SchemaChg) /\ type \in Seq(SchemaChg)
      BY <3>5
    <3> HIDE DEF adds, type
    <3>7. queue[s] \o adds \o type \in Seq(SchemaChg)
      BY <1>1, <3>6
    <3>8. queue' \in [Streams -> Seq(SchemaChg)]
      BY <1>1, <3>3, <3>7
    <3>9. row[s] + 1 \in 0..NRows
      BY <3>2
    <3>10. QED
      BY <1>1, <3>3, <3>4, <3>8, <3>9
  <2>2. CASE LoopChange(s)
    <3>1. /\ queue[s] # <<>> /\ queue' = [queue EXCEPT ![s] = Tail(queue[s])] /\ chg' = [chg EXCEPT ![s] = Head(queue[s])]
          /\ UNCHANGED <<row, cur, repro, cols>>
      BY <2>2 DEF LoopChange
    <3>2. Tail(queue[s]) \in Seq(SchemaChg) /\ Head(queue[s]) \in SchemaChg
      BY <1>1, <3>1
    <3>3. QED
      BY <1>1, <3>1, <3>2
  <2>3. CASE SendChange(s)
    <3>1. /\ queue[s] # <<>> /\ queue' = [queue EXCEPT ![s] = Append(Tail(queue[s]), Head(queue[s]))]
          /\ UNCHANGED <<row, cur, cols, chg>> /\ repro' = [repro EXCEPT ![s] = cur[s]]
      BY <2>3 DEF SendChange, ctxVars
    <3>2. Append(Tail(queue[s]), Head(queue[s])) \in Seq(SchemaChg)
      BY <1>1, <3>1
    <3>3. QED
      BY <1>1, <3>1, <3>2
  <2>4. CASE NextReprocess(s)
    BY <1>1, <2>4 DEF NextReprocess
  <2>5. CASE NextEnd(s) \/ LoopExit(s) \/ PushCancelled(s) \/ SendRow(s) \/ SendPanic(s)
    BY <1>1, <2>5 DEF NextEnd, LoopExit, PushCancelled, SendRow, SendPanic, srcVars
  <2>6. CASE PushCheck(s)
    BY <1>1, <2>6 DEF PushCheck
  <2>7. CASE CloseStream(s)
    BY <1>1, <2>7 DEF CloseStream
  <2>8. QED
    BY <2>1, <2>2, <2>3, <2>4, <2>5, <2>6, <2>7 DEF StreamStep
<1>3. /\ bcols' \in [Streams -> Seq(SUBSET Cols)] /\ open' \in [Streams -> BOOLEAN]
      /\ cnt' \in [Streams -> Nat] /\ recv' \in [Streams -> Seq([row : 1..NRows, batch : Nat])]
      /\ closed' \in [Streams -> BOOLEAN]
  <2>0. closed' \in [Streams -> BOOLEAN]
    BY <1>0, <1>1
  <2>1. CASE NextReprocess(s) \/ NextRow(s) \/ PushCheck(s) \/ SendChange(s) \/ SendPanic(s)
    BY <1>1, <2>1 DEF NextReprocess, NextRow, PushCheck, SendChange, SendPanic, batchVars
  <2>2. CASE NextEnd(s) \/ LoopChange(s) \/ PushCancelled(s) \/ CloseStream(s)
    BY <1>1, <2>0, <2>2 DEF NextEnd, LoopChange, PushCancelled, CloseStream, CloseBatch
  <2>3. CASE LoopExit(s)
    <3>1. /\ open' = [open EXCEPT ![s] = TRUE] /\ UNCHANGED <<recv, closed>>
          /\ cnt' = cnt \/ cnt' = [cnt EXCEPT ![s] = 0]
          /\ bcols' = bcols \/ bcols' = [bcols EXCEPT ![s] = Append(bcols[s], cols[s])]
      BY <2>3 DEF LoopExit, WithNewBatch
    <3>2. Append(bcols[s], cols[s]) \in Seq(SUBSET Cols)
      BY <1>1
    <3>3. bcols' \in [Streams -> Seq(SUBSET Cols)]
      BY <1>1, <3>1, <3>2
    <3>4. cnt' \in [Streams -> Nat]
      <4>1. cnt \in [Streams -> Nat] /\ [cnt EXCEPT ![s] = 0] \in [Streams -> Nat]
        BY <1>1
      <4>2. QED
        BY <3>1, <4>1
    <3>5. open' \in [Streams -> BOOLEAN]
      BY <1>1, <3>1
    <3>6. QED
      BY <1>1, <3>1, <3>3, <3>4, <3>5
  <2>4. CASE SendRow(s)
    <3>1. /\ recv' = [recv EXCEPT ![s] = Append(recv[s], [row |-> cur[s], batch |-> cb])]
          /\ cnt' = [cnt EXCEPT ![s] = cnt[s] + 1] /\ open' = [open EXCEPT ![s] = cnt[s] + 1 # plan.batchLimit]
          /\ UNCHANGED <<bcols, closed>> /\ pc[s] = "send"
      BY <2>4 DEF SendRow
    <3>2. cur[s] \in 1..NRows
      <4>1. cur[s] \in 0..NRows /\ cur[s] = Len(recv[s]) + 1 /\ Len(recv[s]) \in Nat
        BY <1>1, <3>1 DEF FlowInv, InHands, InHand, Place
      <4>2. QED
        BY <1>1, <4>1
    <3>3. [row |-> cur[s], batch |-> cb] \in [row : 1..NRows, batch : Nat]
      BY <3>2, Types
    <3>4. Append(recv[s], [row |-> cur[s], batch |-> cb]) \in Seq([row : 1..NRows, batch : Nat])
      BY <1>1, <3>3, AppendType
    <3>5. recv' \in [Streams -> Seq([row : 1..NRows, batch : Nat])]
      BY <1>1, <3>1, <3>4
    <3>6. cnt' \in [Streams -> Nat] /\ open' \in [Streams -> BOOLEAN]
      BY <1>1, <3>1
    <3>7. QED
      BY <1>1, <3>1, <3>5, <3>6
  <2>5. QED
    BY <2>1, <2>2, <2>3, <2>4 DEF StreamStep
<1>4. err' \in BOOLEAN
  <2>1. err' = err \/ err' = TRUE
    BY DEF StreamStep, NextReprocess, NextRow, NextEnd, LoopChange, LoopExit, PushCheck, PushCancelled,
       SendChange,
       SendRow, SendPanic, CloseStream, ctxVars
  <2>2. QED
    BY <1>0, <2>1 DEF TypeOK
<1>5. QED
  BY <1>0, <1>2, <1>3, <1>4 DEF TypeOK, flowVars, pauseVars, ddlVars

\* The steps of Pause, of the handler and of Unpause keep the types.
LEMMA TypePause == ASSUME FlowInv, NEW x \in Actors, PauseStep(x) PROVE TypeOK'
<1>0. /\ TypeOK /\ pc' \in [Actors -> Position]
      /\ UNCHANGED <<row, cur, cols, bcols, cnt, recv, closed, flowVars, cds, cb, plan, cancelled>>
  BY PauseEffect, Typed
<1>1. /\ cur \in [Streams -> 0..NRows] /\ repro \in [Streams -> 0..NRows]
      /\ queue \in [Streams -> Seq(SchemaChg)] /\ open \in [Streams -> BOOLEAN] /\ paused \in [Streams -> BOOLEAN]
      /\ ret \in [Streams -> {"loop", "next", "close"}] /\ chg \in [Actors -> SchemaChg]
      /\ got \subseteq Streams /\ idx \in Nat \ {0} /\ dfCols \subseteq Cols /\ Len(streams) \in Nat
  BY Types, FlowTypes
<1>2. /\ tbl \subseteq Cols /\ {typed, miss, handlers, err} \subseteq BOOLEAN
      /\ mux \in Actors \cup {NoOne} /\ ddlBy \in Actors \cup {NoOne}
      /\ chg[x] \in SchemaChg /\ chg[x].cols \subseteq Cols
  BY <1>0, <1>1 DEF TypeOK, SchemaChg
\* What no action but the named ones changes.
<1>3. /\ paused' \in [Streams -> BOOLEAN] /\ ret' \in [Streams -> {"loop", "next", "close"}]
      /\ repro' \in [Streams -> 0..NRows] /\ open' \in [Streams -> BOOLEAN]
  <2>1. CASE TryOk(x)
    <3>1. /\ Turn \in Streams /\ Listening(Turn) /\ TakesPause(Turn) /\ paused' = [paused EXCEPT ![Turn] = TRUE]
          /\ open' = open
      BY <2>1, TurnType DEF TryOk, batchVars
    <3>2. /\ ret' = [ret EXCEPT ![Turn] = IF pc[Turn] = "send" THEN "next" ELSE pc[Turn]]
          /\ pc[Turn] \in {"loop", "send", "close"}
          /\ repro' = repro \/ repro' = [repro EXCEPT ![Turn] = cur[Turn]]
      BY <3>1 DEF TakesPause, Listening
    <3>3. (IF pc[Turn] = "send" THEN "next" ELSE pc[Turn]) \in {"loop", "next", "close"}
      BY <3>2
    <3>4. ret' \in [Streams -> {"loop", "next", "close"}]
      BY <1>1, <3>2, <3>3
    <3>5. repro' \in [Streams -> 0..NRows]
      BY <1>1, <3>1, <3>2
    <3>6. QED
      BY <1>1, <3>1, <3>4, <3>5
  <2>2. CASE ReleaseClear(x)
    BY <1>1, <2>2 DEF ReleaseClear, srcVars, batchVars
  <2>3. CASE LockAndCloseBatches(x)
    <3>1. /\ UNCHANGED <<paused, ret>> /\ open' = [s \in Streams |-> open[s] /\ s \notin InFlow]
          /\ \E told : repro' = [s \in Streams |-> IF s \in told THEN cur[s] ELSE repro[s]]
      BY <2>3 DEF LockAndCloseBatches
    <3>2. repro' \in [Streams -> 0..NRows]
      BY <1>1, <3>1
    <3>3. QED
      BY <1>1, <3>1, <3>2
  <2>4. CASE ~(TryOk(x) \/ ReleaseClear(x) \/ LockAndCloseBatches(x))
    <3>1. UNCHANGED <<paused, ret, repro, open>>
      BY <2>4 DEF PauseStep, Handle, PauseBegin, TrySkip, TryFail, TryDone, UnpauseBegin, ReleaseSkip,
         ReleaseSend, PauseRetry, PauseGivesUp, RunHandler, UnpauseEnd, srcVars, batchVars
    <3>2. QED
      BY <1>1, <3>1
  <2>5. QED
    BY <2>1, <2>2, <2>3, <2>4
<1>4. queue' \in [Streams -> Seq(SchemaChg)] /\ chg' \in [Actors -> SchemaChg] /\ dfCols' \subseteq Cols
  <2>1. CASE PauseGivesUp(x)
    <3>1. /\ UNCHANGED <<chg, dfCols>>
          /\ queue' = IF x \in Streams THEN [queue EXCEPT ![x] = Append(queue[x], chg[x])] ELSE queue
      BY <2>1 DEF PauseGivesUp
    <3>2. x \in Streams => Append(queue[x], chg[x]) \in Seq(SchemaChg)
      BY <1>1, <1>2
    <3>3. QED
      BY <1>1, <3>1, <3>2
  <2>2. CASE Handle(x)
    <3>1. /\ queue' = queue /\ dfCols' = dfCols \cup chg[x].cols
          /\ chg' = [chg EXCEPT ![x] = [chg[x] EXCEPT !.cols = chg[x].cols \ dfCols]]
      BY <2>2 DEF Handle, srcVars
    <3>2. [chg[x] EXCEPT !.cols = chg[x].cols \ dfCols] \in SchemaChg
      BY <1>2 DEF SchemaChg
    <3>3. QED
      BY <1>1, <1>2, <3>1, <3>2
  <2>3. CASE ~(PauseGivesUp(x) \/ Handle(x))
    <3>1. UNCHANGED <<queue, chg, dfCols>>
      BY <2>3 DEF PauseStep, PauseBegin, TrySkip, TryOk, TryFail, TryDone, UnpauseBegin, ReleaseSkip,
         ReleaseSend, ReleaseClear, PauseRetry, LockAndCloseBatches, RunHandler, UnpauseEnd, srcVars
    <3>2. QED
      BY <1>1, <3>1
  <2>4. QED
    BY <2>1, <2>2, <2>3
<1>5. /\ mux' \in Actors \cup {NoOne} /\ idx' \in Nat \ {0} /\ got' \subseteq Streams /\ miss' \in BOOLEAN
  <2>1. CASE TryOk(x)
    <3>1. Turn \in Streams
      BY <2>1, TurnType DEF TryOk
    <3>2. QED
      BY <1>1, <1>2, <2>1, <3>1 DEF TryOk
  <2>2. CASE PauseBegin(x) \/ TrySkip(x) \/ TryFail(x) \/ TryDone(x)
    <3>1. CASE PauseBegin(x)
      <4>1. mux' = x /\ idx' = 1 /\ got' = {}
        BY <3>1 DEF PauseBegin
      <4>2. miss' \in BOOLEAN
        BY <3>1, Zenon DEF PauseBegin
      <4>3. got' \subseteq Streams
        BY <4>1
      <4>4. mux' \in Actors \cup {NoOne} /\ idx' \in Nat \ {0}
        BY <4>1
      <4>5. QED
        BY <4>2, <4>3, <4>4
    <3>2. CASE TrySkip(x)
      <4>1. mux' = mux /\ idx' = idx + 1 /\ got' = got /\ miss' = miss
        BY <3>2 DEF TrySkip
      <4>2. QED
        BY <1>1, <1>2, <4>1
    <3>3. CASE TryFail(x)
      <4>1. mux' = mux /\ idx' = idx + 1 /\ got' = got /\ miss' = TRUE
        BY <3>3 DEF TryFail
      <4>2. QED
        BY <1>1, <1>2, <4>1
    <3>4. CASE TryDone(x)
      <4>1. mux' \in {mux, x, NoOne} /\ idx' \in {idx, 1} /\ got' = got /\ miss' = miss
        BY <3>4 DEF TryDone
      <4>2. QED
        BY <1>1, <1>2, <4>1
    <3>5. QED
      BY <2>2, <3>1, <3>2, <3>3, <3>4
  <2>3. CASE UnpauseBegin(x) \/ ReleaseSkip(x) \/ ReleaseClear(x) \/ PauseRetry(x) \/ PauseGivesUp(x) \/ UnpauseEnd(x)
    BY <1>1, <1>2, <2>3 DEF UnpauseBegin, ReleaseSkip, ReleaseClear, PauseRetry, PauseGivesUp, UnpauseEnd
  <2>4. CASE Handle(x) \/ ReleaseSend(x) \/ LockAndCloseBatches(x) \/ RunHandler(x)
    BY <1>1, <1>2, <2>4 DEF Handle, ReleaseSend, LockAndCloseBatches, RunHandler, pauseVars
  <2>5. QED
    BY <2>1, <2>2, <2>3, <2>4 DEF PauseStep
<1>6. /\ ddlBy' \in Actors \cup {NoOne} /\ tbl' \subseteq Cols /\ {typed', handlers', err'} \subseteq BOOLEAN
  <2>1. CASE LockAndCloseBatches(x)
    BY <1>2, <2>1 DEF LockAndCloseBatches, ctxVars
  <2>2. CASE RunHandler(x)
    <3>1. /\ ddlBy' = NoOne /\ handlers' = handlers /\ (tbl' = tbl \/ tbl' = tbl \cup chg[x].cols)
          /\ \E fails \in BOOLEAN : err' = (err \/ fails) /\ typed' = (typed \/ (chg[x].kind = "type" /\ ~fails))
      BY <2>2 DEF RunHandler
    <3>2. QED
      BY <1>2, <3>1
  <2>3. CASE PauseGivesUp(x)
    BY <1>2, <2>3 DEF PauseGivesUp, ddlVars
  <2>4. CASE ~(LockAndCloseBatches(x) \/ RunHandler(x) \/ PauseGivesUp(x))
    <3>1. UNCHANGED <<ddlBy, tbl, typed, handlers, err>>
      BY <2>4 DEF PauseStep, Handle, PauseBegin, TrySkip, TryOk, TryFail, TryDone, UnpauseBegin, ReleaseSkip,
         ReleaseSend, ReleaseClear, PauseRetry, UnpauseEnd, ddlVars, ctxVars
    <3>2. QED
      BY <1>2, <3>1
  <2>5. QED
    BY <2>1, <2>2, <2>3, <2>4
<1>7. QED
  BY <1>0, <1>3, <1>4, <1>5, <1>6 DEF TypeOK, flowVars

\* The steps of PushStreamChan keep the types.
LEMMA TypePusher == ASSUME FlowInv, PusherStep PROVE TypeOK'
<1>0. /\ TypeOK /\ pc' \in [Actors -> Position]
      /\ UNCHANGED <<paused, ret, cds, cb, row, cur, repro, batchVars, pauseVars, ddlVars, ctxVars>>
  BY PusherEffect, Typed
<1>1. /\ cols \in [Streams -> SUBSET Cols] /\ queue \in [Streams -> Seq(SchemaChg)] /\ dfCols \subseteq Cols
      /\ chg \in [Actors -> SchemaChg] /\ joined \in [Streams -> BOOLEAN] /\ streams \in Seq(Streams)
      /\ streamCh \in Seq(Streams) /\ late \subseteq Streams /\ {dfClosed, ready} \subseteq BOOLEAN
  BY <1>0 DEF TypeOK
<1>2. pc[pusher] # "merge" \/ Len(streams) < Len(Order) => Arriving \in Streams
  <2>1. SUFFICES ASSUME pc[pusher] # "merge" \/ Len(streams) < Len(Order) PROVE Arriving \in Streams
    OBVIOUS
  <2>2. Len(streams) < Len(Order)
    BY <2>1, PusherEffect DEF FlowInv, Arrivals
  <2>3. QED
    BY <2>2, FlowTypes, DataflowAssumption DEF Arriving
<1>3. /\ cols' \in [Streams -> SUBSET Cols] /\ queue' \in [Streams -> Seq(SchemaChg)] /\ dfCols' \subseteq Cols
      /\ chg' \in [Actors -> SchemaChg]
  <2>1. CASE FirstColumns
    <3>1. Len(streams) < Len(Order)
      BY <2>1, FlowTypes, DataflowAssumption DEF FirstColumns
    <3>2. QED
      BY <1>1, <1>2, <2>1, <3>1 DEF FirstColumns, srcVars
  <2>2. CASE MergeColumns
    <3>1. /\ UNCHANGED <<cols, queue>> /\ dfCols' = dfCols \cup cols[Arriving] /\ Arriving \in Streams
          /\ chg' = [chg EXCEPT ![pusher] = Adding(cols[Arriving] \ dfCols)]
      BY <1>2, <2>2 DEF MergeColumns, srcVars
    <3>2. Adding(cols[Arriving] \ dfCols) \in SchemaChg
      BY <1>1, <3>1 DEF Adding, SchemaChg
    <3>3. QED
      BY <1>1, <3>1, <3>2
  <2>3. CASE JoinStream
    <3>1. /\ Arriving \in Streams /\ UNCHANGED <<chg, dfCols>>
          /\ cols' = [cols EXCEPT ![Arriving] = cols[Arriving] \cup dfCols]
          /\ queue' = [queue EXCEPT ![Arriving] = queue[Arriving] \o <<Adding(dfCols \ cols[Arriving])>>
                                                   \o (IF typed THEN <<Retyping>> ELSE <<>>)]
      BY <1>2, <2>3 DEF JoinStream
    <3>2. Adding(dfCols \ cols[Arriving]) \in SchemaChg /\ Retyping \in SchemaChg
      BY <1>1 DEF Adding, Retyping, SchemaChg
    <3>3. /\ <<Adding(dfCols \ cols[Arriving])>> \in Seq(SchemaChg)
          /\ (IF typed THEN <<Retyping>> ELSE <<>>) \in Seq(SchemaChg)
      BY <3>2
    <3>4. queue[Arriving] \o <<Adding(dfCols \ cols[Arriving])>> \o (IF typed THEN <<Retyping>> ELSE <<>>) \in Seq(SchemaChg)
      <4>1. queue[Arriving] \in Seq(SchemaChg)
        BY <1>1, <3>1
      <4>2. QED
        BY <3>3, <4>1, ConcatType
    <3>5. queue' \in [Streams -> Seq(SchemaChg)]
      BY <1>1, <3>1, <3>4
    <3>6. QED
      BY <1>1, <3>1, <3>5
  <2>4. CASE PushStream \/ PushEnd
    BY <1>1, <2>4 DEF PushStream, PushEnd, srcVars
  <2>5. QED
    BY <2>1, <2>2, <2>3, <2>4 DEF PusherStep
<1>4. /\ joined' \in [Streams -> BOOLEAN] /\ streams' \in Seq(Streams)
      /\ streamCh' \in Seq(Streams) /\ late' \subseteq Streams /\ {dfClosed', ready'} \subseteq BOOLEAN
  <2>1. CASE FirstColumns \/ JoinStream
    BY <1>1, <2>1 DEF FirstColumns, JoinStream
  <2>2. CASE MergeColumns
    BY <1>1, <2>2 DEF MergeColumns, flowVars
  <2>3. CASE PushStream
    <3>1. /\ Arriving \in Streams /\ streams' = Append(streams, Arriving) /\ streamCh' = <<Arriving>>
          /\ UNCHANGED <<joined, dfClosed>> /\ ready' = TRUE /\ (late' = late \/ late' = late \cup {Arriving})
      BY <1>2, <2>3 DEF PushStream
    <3>2. Append(streams, Arriving) \in Seq(Streams) /\ <<Arriving>> \in Seq(Streams)
      BY <1>1, <3>1
    <3>3. QED
      BY <1>1, <3>1, <3>2
  <2>4. CASE PushEnd
    BY <1>1, <2>4 DEF PushEnd
  <2>5. QED
    BY <2>1, <2>2, <2>3, <2>4 DEF PusherStep
<1>5. QED
  BY <1>0, <1>3, <1>4 DEF TypeOK, batchVars, pauseVars, ddlVars, ctxVars

\* The steps of the importer keep the types.
LEMMA TypeMain == ASSUME FlowInv, MainStep PROVE TypeOK'
<1>0. /\ TypeOK /\ pc' \in [Actors -> Position]
      /\ UNCHANGED <<row, cur, queue, cols, bcols, cnt, recv, closed, joined, streams, dfClosed,
                     ready, late, pauseVars, ddlBy, plan, cancelled>>
  BY MainEffect, Typed
<1>1. /\ cur \in [Streams -> 0..NRows] /\ repro \in [Streams -> 0..NRows]
      /\ open \in [Streams -> BOOLEAN] /\ paused \in [Streams -> BOOLEAN]
      /\ ret \in [Streams -> {"loop", "next", "close"}] /\ chg \in [Actors -> SchemaChg]
      /\ dfCols \subseteq Cols /\ tbl \subseteq Cols /\ {typed, handlers, err} \subseteq BOOLEAN
      /\ cds \in Streams \cup {NoOne} /\ cb \in Nat /\ streamCh \in Seq(Streams)
  BY <1>0 DEF TypeOK
<1>2. UNCHANGED <<chg, dfCols, typed>>
  BY DEF MainStep, WaitReady, CreateTable, ConfigureColumnHandlers, SetUpFails, TakeStream, ImportEnd,
     TakeBatch,
     StreamImported, BatchImported, FileFull, ShapeCheck, ShapePause, ShapeSet, ShapeRelease, ShapeClear, ddlVars
<1>3. /\ repro' \in [Streams -> 0..NRows] /\ open' \in [Streams -> BOOLEAN] /\ paused' \in [Streams -> BOOLEAN]
      /\ ret' \in [Streams -> {"loop", "next", "close"}]
  <2>1. CASE FileFull
    BY <1>1, <2>1 DEF FileFull
  <2>2. CASE ShapePause
    <3>1. /\ Listening(cds) /\ TakesPause(cds) /\ UNCHANGED <<paused, open>>
      BY <2>2 DEF ShapePause, batchVars
    <3>2. /\ ret' = [ret EXCEPT ![cds] = IF pc[cds] = "send" THEN "next" ELSE pc[cds]]
          /\ pc[cds] \in {"loop", "send", "close"}
          /\ repro' = repro \/ repro' = [repro EXCEPT ![cds] = cur[cds]]
      BY <3>1 DEF TakesPause, Listening
    <3>3. (IF pc[cds] = "send" THEN "next" ELSE pc[cds]) \in {"loop", "next", "close"}
      BY <3>2
    <3>4. ret' \in [Streams -> {"loop", "next", "close"}]
      BY <1>1, <3>2, <3>3
    <3>5. repro' \in [Streams -> 0..NRows]
      BY <1>1, <3>2
    <3>6. QED
      BY <1>1, <3>1, <3>4, <3>5
  <2>3. CASE ShapeSet \/ ShapeClear
    BY <1>1, <2>3 DEF ShapeSet, ShapeClear, srcVars, batchVars
  <2>4. CASE ~(FileFull \/ ShapePause \/ ShapeSet \/ ShapeClear)
    <3>1. UNCHANGED <<repro, open, paused, ret>>
      BY <2>4 DEF MainStep, WaitReady, CreateTable, ConfigureColumnHandlers, SetUpFails, TakeStream,
         ImportEnd, TakeBatch,
         StreamImported, BatchImported, ShapeCheck, ShapeRelease, srcVars, batchVars
    <3>2. QED
      BY <1>1, <3>1
  <2>5. QED
    BY <2>1, <2>2, <2>3, <2>4
<1>4. /\ cds' \in Streams \cup {NoOne} /\ cb' \in Nat /\ streamCh' \in Seq(Streams)
      /\ tbl' \subseteq Cols /\ {handlers', err'} \subseteq BOOLEAN
  <2>1. CASE TakeStream
    <3>1. /\ streamCh # <<>> /\ cds' = Head(streamCh) /\ cb' = 0 /\ streamCh' = <<>> /\ UNCHANGED <<tbl, handlers, err>>
      BY <2>1 DEF TakeStream, ddlVars, ctxVars
    <3>2. Head(streamCh) \in Streams /\ <<>> \in Seq(Streams)
      BY <1>1, <3>1
    <3>3. QED
      BY <1>1, <3>1, <3>2
  <2>2. CASE TakeBatch
    BY <1>1, <2>2 DEF TakeBatch, flowVars, ddlVars, ctxVars
  <2>3. CASE CreateTable \/ ConfigureColumnHandlers \/ SetUpFails
    BY <1>1, <2>3 DEF CreateTable, ConfigureColumnHandlers, SetUpFails, flowVars, ddlVars, ctxVars
  <2>4. CASE ~(TakeStream \/ TakeBatch \/ CreateTable \/ ConfigureColumnHandlers \/ SetUpFails)
    <3>1. UNCHANGED <<cds, cb, streamCh, tbl, handlers, err>>
      BY <2>4 DEF MainStep, WaitReady, ImportEnd, StreamImported, BatchImported, FileFull, ShapeCheck,
         ShapePause,
         ShapeSet, ShapeRelease, ShapeClear, flowVars, ddlVars, ctxVars
    <3>2. QED
      BY <1>1, <3>1
  <2>5. QED
    BY <2>1, <2>2, <2>3, <2>4
<1>5. QED
  BY <1>0, <1>2, <1>3, <1>4 DEF TypeOK, pauseVars

\* The type invariant is kept.
LEMMA TypeStep == FlowInv /\ [Next]_vars => TypeOK'
<1> SUFFICES ASSUME FlowInv, [Next]_vars PROVE TypeOK'
  OBVIOUS
<1>1. CASE Cancel \/ UNCHANGED vars
  <2>1. UNCHANGED <<pc, paused, ret, chg, dfCols, cds, cb, srcVars, batchVars, flowVars, pauseVars, ddlVars, plan, err>>
        /\ (cancelled' = TRUE \/ cancelled' = cancelled)
    BY <1>1 DEF Cancel, vars, ctxVars
  <2>2. cancelled' \in BOOLEAN
    BY <2>1, Typed DEF TypeOK
  <2>3. QED
    BY <2>1, <2>2, Typed DEF TypeOK, srcVars, batchVars, flowVars, pauseVars, ddlVars
<1>2. QED
  BY <1>1, TypeStream, TypePause, TypePusher, TypeMain DEF Next, Over


(***************************************************************************)
(* The invariant, and the properties that follow from it.                   *)
(***************************************************************************)

\* The inductive invariant holds at first.
LEMMA FlowInit == Init => FlowInv
<1> SUFFICES ASSUME Init PROVE FlowInv
  OBVIOUS
<1>1. /\ plan \in Plans /\ plan \in Plan
      /\ pc = [a \in Actors |-> IF a = main THEN "start" ELSE IF a = pusher THEN "merge" ELSE "next"]
      /\ streams = <<>> /\ streamCh = <<>> /\ dfClosed = FALSE /\ ready = FALSE
      /\ mux = NoOne /\ idx = 1 /\ ddlBy = NoOne /\ cb = 0
  BY DataflowAssumption DEF Init
<1>2. /\ row = [s \in Streams |-> 0] /\ cur = row /\ repro = row /\ cnt = row
      /\ queue = [s \in Streams |-> <<>>] /\ recv = queue
      /\ cols = plan.init /\ bcols = [s \in Streams |-> <<plan.init[s]>>] /\ open = [s \in Streams |-> TRUE]
      /\ closed = [s \in Streams |-> FALSE] /\ paused = closed /\ joined = closed
  BY DEF Init
<1>3. /\ plan.rows \in [Streams -> 0..NRows] /\ plan.init \in [Streams -> SUBSET Cols] /\ NRows \in Nat
      /\ Len(Order) \in Nat
  BY <1>1, DataflowAssumption DEF Plan
<1>4. /\ pc[main] = "start" /\ pc[pusher] = "merge" /\ \A s \in Streams : pc[s] = "next"
      /\ \A a \in Actors : pc[a] \in {"start", "merge", "next"}
      /\ InFlow = {} /\ Len(streams) = 0 /\ Len(streamCh) = 0
  BY <1>1, Distinct DEF InFlow
<1>5. TypeOK
  <2>1. pc \in [Actors -> Position]
    BY <1>1 DEF Position
  <2>2. /\ row \in [Streams -> 0..NRows] /\ cnt \in [Streams -> Nat]
        /\ closed \in [Streams -> BOOLEAN] /\ open \in [Streams -> BOOLEAN]
    BY <1>2, <1>3
  <2>3. /\ queue \in [Streams -> Seq(SchemaChg)] /\ recv \in [Streams -> Seq([row : 1..NRows, batch : Nat])]
        /\ bcols \in [Streams -> Seq(SUBSET Cols)]
    BY <1>2, <1>3
  <2>4. chg \in [Actors -> SchemaChg]
    BY DEF Init, Retyping, SchemaChg
  <2>5. ret \in [Streams -> {"loop", "next", "close"}]
    BY DEF Init
  <2>6. /\ streams \in Seq(Streams) /\ streamCh \in Seq(Streams) /\ late \subseteq Streams /\ got \subseteq Streams
    BY DEF Init
  <2>7. dfClosed = FALSE /\ ready = FALSE /\ typed = FALSE /\ miss = FALSE /\ handlers = FALSE /\ cancelled = FALSE /\ err = FALSE
    BY DEF Init
  <2>8. {dfClosed, ready, typed, miss, handlers, cancelled, err} \subseteq BOOLEAN
    BY <2>7
  <2>9. dfCols \subseteq Cols /\ tbl \subseteq Cols
    BY DEF Init
  <2>10. /\ mux \in Actors \cup {NoOne} /\ ddlBy \in Actors \cup {NoOne}
         /\ idx \in Nat \ {0} /\ cds \in Streams \cup {NoOne} /\ cb \in Nat
    BY DEF Init
  <2>11. cols \in [Streams -> SUBSET Cols] /\ repro \in [Streams -> 0..NRows] /\ cur \in [Streams -> 0..NRows]
    BY <1>2, <1>3
  <2>12. paused \in [Streams -> BOOLEAN] /\ joined \in [Streams -> BOOLEAN]
    BY <1>2, <2>2
  <2>13. QED
    BY <1>1, <2>1, <2>2, <2>3, <2>4, <2>5, <2>6, <2>8, <2>9, <2>10, <2>11, <2>12 DEF TypeOK
<1>6. Positions
  BY <1>4 DEF Positions, Early
<1>7. Arrivals
  <2>1. /\ \A i \in 1..Len(streams) : streams[i] = Order[i]
        /\ \A s \in InFlow : joined[s]
    BY <1>4
  <2>2. \A s \in Streams : ~joined[s]
    BY <1>2
  <2>3. "start" \notin Begun \cup Pausing /\ "merge" \notin Begun \cup Pausing /\ "next" \notin Begun \cup Pausing
    BY DEF Pausing, Begun, Looping, Holding
  <2>4. \A a \in Actors : pc[a] \notin Begun
    BY <1>4, <2>3
  <2>5. QED
    BY <1>1, <1>3, <1>4, <2>1, <2>2, <2>3, <2>4 DEF Arrivals
<1>8. Import
  BY <1>1, <1>4 DEF Import, Taken, Early, Importing, Begun, Looping, Holding
<1>9. InHands
  <2>1. SUFFICES ASSUME NEW s \in Streams PROVE InHand(s)
    BY DEF InHands
  <2>2. /\ pc[s] = "next" /\ recv[s] = <<>> /\ row[s] = 0 /\ repro[s] = 0 /\ ~closed[s]
    BY <1>2, <1>4
  <2>3. Place(s) = "next" /\ Len(recv[s]) = 0 /\ "next" \notin Pausing
    BY <2>2 DEF Place, Pausing, Begun, Looping, Holding
  <2>4. plan.rows[s] \in Nat
    BY <1>3
  <2>5. QED
    BY <2>2, <2>3, <2>4 DEF InHand
<1>10. AllColumns
  <2>1. SUFFICES ASSUME NEW s \in Streams PROVE Columns(s)
    BY DEF AllColumns
  <2>2. /\ bcols[s] = <<plan.init[s]>> /\ cols[s] = plan.init[s] /\ row[s] = 0 /\ recv[s] = <<>>
        /\ pc[s] = "next"
    BY <1>2, <1>4
  <2>3. Len(bcols[s]) = 1 /\ bcols[s][1] = plan.init[s] /\ Len(recv[s]) = 0
    BY <2>2
  <2>4. cols[s] \subseteq Last(s)
    BY <2>2, <2>3 DEF Last
  <2>5. QED
    BY <2>2, <2>3, <2>4 DEF Columns
<1>11. Locks
  BY <1>1, <1>4, Distinct DEF Locks, Looping
<1>12. Owners
  BY <1>4 DEF Owners, Owns, ShapeHas, Holding
<1>13. NoSendOnClosed
  BY <1>2 DEF NoSendOnClosed
<1>14. QED
  BY <1>1, <1>5, <1>6, <1>7, <1>8, <1>9, <1>10, <1>11, <1>12, <1>13 DEF FlowInv

\* Every step keeps it.
LEMMA FlowStep == FlowInv /\ [Next]_vars => FlowInv'
  BY TypeStep, PlanStep, PositionsStep, ArrivalsStep, ImportStep, InHandsStep, ColumnsStep, LocksStep,
     OwnersStep, SendStep DEF FlowInv

\* The inductive invariant holds in every state of every run.
THEOREM FlowCorrect == Spec => []FlowInv
  BY FlowInit, FlowStep, PTL DEF Spec, Safety

\* The variables of the dataflow, its streams, its batches and its importer keep their
\* types: the positions of the goroutines, the queues of schema changes, the batches.
THEOREM TypeCorrect == Spec => []TypeOK
<1>1. FlowInv => TypeOK
  BY DEF FlowInv
<1>2. QED
  BY FlowCorrect, <1>1, PTL

\* Every stream that was taken by the importer, and has been closed without an error,
\* has delivered its rows once and in order, and all of them: for any number of streams
\* and rows, wherever pauses, closed batches and schema changes have sent them back.
THEOREM RowsOnce == Spec => []EveryRowOnce
<1>1. ASSUME FlowInv PROVE EveryRowOnce
  <2>1. \A s \in Streams : InHand(s)
    BY <1>1 DEF FlowInv, InHands
  <2>2. \A s \in Streams : \A k \in 1..Len(recv[s]) : recv[s][k].row = k
    BY <2>1 DEF InHand
  <2>3. ASSUME pc[main] = "done", ~err, ~cancelled, NEW s \in InFlow PROVE Len(recv[s]) = plan.rows[s]
    <3>1. streamCh = <<>> /\ \A i \in 1..Taken : closed[streams[i]]
      BY <1>1, <2>3 DEF FlowInv, Import
    <3>2. Taken = Len(streams)
      BY <1>1, <3>1, FlowTypes DEF Taken
    <3>3. s \in Streams /\ closed[s]
      BY <1>1, <3>1, <3>2, FlowTypes DEF InFlow
    <3>4. pc[s] = "done"
      BY <2>1, <3>3 DEF InHand
    <3>5. Place(s) = "done"
      BY <3>4 DEF Place
    <3>6. QED
      BY <2>1, <2>3, <3>3, <3>5 DEF InHand
  <2>4. QED
    BY <2>2, <2>3 DEF EveryRowOnce
<1>2. QED
  BY FlowCorrect, <1>1, PTL

\* A row after the first of its stream is received in a batch that has the columns it
\* has shown: the change it queued has closed the batch before it was pushed.
THEOREM RowsFit == Spec => []RowInItsBatch
<1>1. FlowInv => RowInItsBatch
  BY DEF FlowInv, AllColumns, Columns, RowInItsBatch
<1>2. QED
  BY FlowCorrect, <1>1, PTL

\* No goroutine sends on the channel of a batch that has been closed since it looked,
\* in a stream that was in the dataflow when it was paused; where only the dataflow
\* closes batches.
THEOREM NoSendCorrect == Spec => []NoSendOnClosed
<1>1. FlowInv => NoSendOnClosed
  BY DEF FlowInv
<1>2. QED
  BY FlowCorrect, <1>1, PTL

\* The stream being imported is not in the select of Push while a goroutine holds
\* df.Context: it waits for that one, which found it ahead, or is behind it.
LEMMA NotSending ==
  ASSUME FlowInv, NEW s \in Streams, SendRow(s)
  PROVE  ddlBy = NoOne
<1>1. /\ pc[s] = "send" /\ pc[main] = "rows" /\ cds = s
  BY DEF SendRow
<1>2. /\ s \in InFlow /\ Taken \in 1..Len(streams) /\ s = streams[Taken]
  BY <1>1, ImportsTaken, FlowTypes DEF Importing
<1>3. ~closed[s]
  BY <1>1, NotClosed
<1>4. SUFFICES ASSUME NEW a \in Actors, ddlBy = a PROVE FALSE
  BY Typed DEF TypeOK
<1>5. pc[a] = "ddl" /\ a # s /\ a # main
  BY <1>1, <1>4 DEF FlowInv, Locks
<1>6. s \notin Firm(a)
  <2>1. Owns(a, s) => pc[s] = "wait"
    BY DEF FlowInv, Owners
  <2>2. QED
    BY <1>1, <1>5, <2>1 DEF Owns
<1>7. /\ a \in InFlow
      /\ ~ \E i, j \in 1..Len(streams) : i < j /\ streams[i] = s /\ streams[j] = a
  BY <1>2, <1>3, <1>5, <1>6 DEF Firm, Ahead
<1>8. PICK i \in 1..Len(streams) : streams[i] = a
  BY <1>7 DEF InFlow
<1>9. i < Taken
  BY <1>2, <1>5, <1>7, <1>8, FlowTypes
<1>10. closed[a] /\ a \in Streams
  <2>1. i \in 1..Taken
    BY <1>2, <1>9, FlowTypes
  <2>2. QED
    BY <1>8, <1>9, <2>1, FlowTypes DEF FlowInv, Import
<1>11. QED
  BY <1>5, <1>10, NotClosed

\* No row reaches the importer while a handler alters the table, whichever goroutine has
\* paused the dataflow, and however many streams there are.
THEOREM HandlerAlone == Spec => NoRowDuringHandler
<1>1. ASSUME FlowInv, [Next]_vars, ddlBy # NoOne PROVE recv' = recv
  <2>1. ASSUME NEW s \in Streams, StreamStep(s) PROVE recv' = recv
    <3>1. ~SendRow(s)
      BY <1>1, NotSending
    <3>2. QED
      BY <2>1, <3>1 DEF StreamStep, NextReprocess, NextRow, NextEnd, LoopChange, LoopExit, PushCheck,
         PushCancelled,
         SendChange, SendPanic, CloseStream, batchVars
  <2>2. CASE Cancel \/ UNCHANGED vars
    BY <2>2 DEF Cancel, vars, batchVars
  <2>3. ASSUME NEW a \in Actors, PauseStep(a) PROVE recv' = recv
    BY <1>1, <2>3, PauseEffect
  <2>4. ASSUME PusherStep PROVE recv' = recv
    BY <1>1, <2>4, PusherEffect DEF batchVars
  <2>5. ASSUME MainStep PROVE recv' = recv
    BY <1>1, <2>5, MainEffect
  <2>6. QED
    BY <1>1, <2>1, <2>2, <2>3, <2>4, <2>5 DEF Next, Over
<1>2. FlowInv /\ [Next]_vars => [ddlBy # NoOne => recv' = recv]_vars
  BY <1>1
<1>3. QED
  BY FlowCorrect, <1>2, PTL DEF Spec, Safety, NoRowDuringHandler
=============================================================================
