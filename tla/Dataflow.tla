------------------------------ MODULE Dataflow ------------------------------
(***************************************************************************)
(* The rows between a source and a target table: Dataflow (core/dbio/iop/   *)
(* dataflow.go), its Datastreams (datastream.go), their Batches             *)
(* (datastream_batch.go), and the goroutine that writes the table           *)
(* (WriteToDb, core/sling/task_run_write.go; BulkImportFlow and             *)
(* BulkImportStream, core/dbio/database).                                   *)
(*                                                                          *)
(* Every stream has a goroutine that reads rows, groups them in batches of  *)
(* fixed columns and hands them over one by one on unbuffered channels.  A  *)
(* row may show a column the table does not have, or a value its column     *)
(* cannot hold: the stream then pauses all other streams, closes their      *)
(* batches, lets a handler alter the table and unpauses them.  `pusher` is  *)
(* the goroutine of PushStreamChan, which brings streams into the dataflow  *)
(* one after the other; `main` pauses the dataflow to create the table, and *)
(* then imports the streams one after the other.                            *)
(*                                                                          *)
(* Abstracted: the values and the types of columns (a type change is an     *)
(* event that needs the handler; streams start with the same types), the    *)
(* 10 ms and 4 ms timers (they may run out at any time), the deadline of    *)
(* Pause (it may pass at any retry).                                        *)
(***************************************************************************)
EXTENDS Naturals, Sequences

CONSTANTS
  Streams,     \* the streams of the source
  Order,       \* the order in which they arrive on dsCh
  Cols,        \* the columns that only some rows have
  NRows,       \* the most rows of a stream (a bound)
  Plans,       \* the runs considered, a set of Plan records
  main, pusher, NoOne

\* What a run is about.  Of the source: the rows of every stream, the columns it
\* starts with, the columns each row adds, and the rows whose values do not fit the type of their
\* column.  Of the target: batch_limit (0 for none); the rows after which the
\* importer itself closes a batch (0 for never); whether it pauses the stream to
\* set the transform of a batch; add_new_columns and adjust_column_type.  Last,
\* whether the context of the task may be cancelled.
Plan == [rows : [Streams -> 0..NRows],
         init : [Streams -> SUBSET Cols],
         add  : [Streams -> [1..NRows -> SUBSET Cols]],
         type : [Streams -> SUBSET (1..NRows)],
         batchLimit : Nat, fileLimit : Nat, shapes : BOOLEAN,
         addNew : BOOLEAN, adjust : BOOLEAN, cancels : BOOLEAN]

ASSUME DataflowAssumption ==
  /\ NRows \in Nat
  /\ Order \in Seq(Streams)
  /\ \A i, j \in 1..Len(Order) : Order[i] = Order[j] => i = j
  /\ Plans \subseteq Plan
  /\ main # pusher /\ NoOne \notin Streams \cup {main, pusher}
  /\ main \notin Streams /\ pusher \notin Streams

Actors == Streams \cup {main, pusher}

\* A schema change on schemaChgChan.
Adding(c)  == [kind |-> "add", cols |-> c]
Retyping   == [kind |-> "type", cols |-> {}]
SchemaChg  == [kind : {"add", "type"}, cols : SUBSET Cols]

VARIABLES
  plan,      \* what the run is about
  pc,        \* where every goroutine is
  row,       \* the last row read from the source, by stream
  cur,       \* the row in hand
  repro,     \* it.Reprocess, 0 when empty
  queue,     \* ds.schemaChgChan
  cols,      \* ds.Columns, those of Cols
  bcols,     \* the Columns of every batch of ds.Batches, all sent on BatchChan
  open,      \* the latest batch is not closed
  cnt,       \* the Count of the latest batch
  recv,      \* what the importer received: rows with their batch
  closed,    \* ds.closed
  paused,    \* ds.paused
  ret,       \* where a stream that waits for unpauseChan goes on
  chg,       \* the schema change an actor works on
  joined,    \* ds.df is set
  streams,   \* df.Streams
  streamCh,  \* df.StreamCh
  dfClosed,  \* StreamCh is closed
  ready,     \* df.Ready
  dfCols,    \* df.Columns, those of Cols
  typed,     \* a type of df.Columns has been changed
  mux,       \* who holds df.mux over several steps
  idx,       \* the position in df.Streams of the holder's loop
  got,       \* the streams paused by its loop (pauseMap)
  miss,      \* a stream could not be paused
  ddlBy,     \* who holds df.Context to run a handler
  handlers,  \* configureColumnHandlers has run
  tbl,       \* the columns of the table, those of Cols
  late,      \* history: the streams pushed between a Pause and its handler
  cds, cb,   \* the stream and the batch being imported
  cancelled, \* the context is done
  err        \* an error has been captured

srcVars   == <<row, cur, repro, queue, cols>>
batchVars == <<bcols, open, cnt, recv, closed>>
flowVars  == <<joined, streams, streamCh, dfClosed, ready, late>>
pauseVars == <<mux, idx, got, miss>>
ddlVars   == <<ddlBy, handlers, tbl, typed>>
ctxVars   == <<plan, cancelled, err>>
vars == <<pc, paused, ret, chg, dfCols, cds, cb, srcVars, batchVars, flowVars,
          pauseVars, ddlVars, ctxVars>>

InFlow == {streams[i] : i \in 1..Len(streams)}

Init ==
  /\ plan \in Plans
  /\ pc = [a \in Actors |-> IF a = main THEN "start"
                            ELSE IF a = pusher THEN "merge" ELSE "next"]
  /\ row = [s \in Streams |-> 0] /\ cur = row /\ repro = row /\ cnt = row
  /\ queue = [s \in Streams |-> <<>>] /\ recv = queue
  /\ cols = plan.init
  /\ bcols = [s \in Streams |-> <<plan.init[s]>>]
  /\ open = [s \in Streams |-> TRUE]
  /\ closed = [s \in Streams |-> FALSE] /\ paused = closed /\ joined = closed
  /\ ret = [s \in Streams |-> "loop"]
  /\ chg = [a \in Actors |-> Retyping]
  /\ streams = <<>> /\ streamCh = <<>> /\ dfClosed = FALSE /\ ready = FALSE /\ late = {}
  /\ dfCols = {} /\ typed = FALSE
  /\ mux = NoOne /\ idx = 1 /\ got = {} /\ miss = FALSE
  /\ ddlBy = NoOne /\ handlers = FALSE /\ tbl = {}
  /\ cds = NoOne /\ cb = 0
  /\ cancelled = FALSE /\ err = FALSE

(***************************************************************************)
(* The goroutine of a stream (Datastream.Start).                            *)
(***************************************************************************)

\* Batch.Close of the latest batch.
CloseBatch(s) == [open EXCEPT ![s] = FALSE]

\* it.next: a row to be processed again comes first.
NextReprocess(s) ==
  /\ pc[s] = "next" /\ repro[s] # 0
  /\ cur' = [cur EXCEPT ![s] = repro[s]]
  /\ repro' = [repro EXCEPT ![s] = 0]
  /\ pc' = [pc EXCEPT ![s] = "loop"]
  /\ UNCHANGED <<paused, ret, chg, dfCols, cds, cb, row, queue, cols, batchVars,
                 flowVars, pauseVars, ddlVars, ctxVars>>

\* it.next: nextFunc reads the next row, and adds the columns it shows
\* (ds.AddColumns); its cast may change a type (ds.ChangeColumn).
NextRow(s) ==
  LET i    == row[s] + 1
      new  == plan.add[s][i] \ cols[s]
      adds == IF new = {} THEN <<>> ELSE <<Adding(new)>>
      type == IF i \in plan.type[s] THEN <<Retyping>> ELSE <<>>
  IN /\ pc[s] = "next" /\ repro[s] = 0 /\ row[s] < plan.rows[s] /\ ~cancelled
     /\ row' = [row EXCEPT ![s] = i]
     /\ cur' = [cur EXCEPT ![s] = i]
     /\ cols' = [cols EXCEPT ![s] = @ \cup new]
     /\ queue' = [queue EXCEPT ![s] = @ \o adds \o type]
     /\ pc' = [pc EXCEPT ![s] = "loop"]
     /\ UNCHANGED <<paused, ret, chg, dfCols, cds, cb, repro, batchVars, flowVars,
                    pauseVars, ddlVars, ctxVars>>

\* it.next returns false: no more rows, or the context is done.  The loop ends
\* and closes its batch.
NextEnd(s) ==
  /\ pc[s] = "next"
  /\ cancelled \/ (repro[s] = 0 /\ row[s] = plan.rows[s])
  /\ open' = CloseBatch(s)
  /\ pc' = [pc EXCEPT ![s] = "close"]
  /\ UNCHANGED <<paused, ret, chg, dfCols, cds, cb, srcVars, bcols, cnt, recv,
                 closed, flowVars, pauseVars, ddlVars, ctxVars>>

\* schemaChgLoop takes a schema change: the batch is closed first.
LoopChange(s) ==
  /\ pc[s] = "loop" /\ joined[s] /\ queue[s] # <<>>
  /\ open' = CloseBatch(s)
  /\ chg' = [chg EXCEPT ![s] = Head(queue[s])]
  /\ queue' = [queue EXCEPT ![s] = Tail(@)]
  /\ pc' = [pc EXCEPT ![s] = "handle"]
  /\ UNCHANGED <<paused, ret, dfCols, cds, cb, row, cur, repro, cols, bcols, cnt,
                 recv, closed, flowVars, pauseVars, ddlVars, ctxVars>>

\* The batches with a new one of the columns the stream has now (NewBatch).
RepeatsColumns(s) == Append(bcols[s], bcols[s][Len(bcols[s])])
WithNewBatch(s) == Append(bcols[s], cols[s])

\* schemaChgLoop ends: a closed batch is followed by a new one.
LoopExit(s) ==
  /\ pc[s] = "loop"
  /\ joined[s] => queue[s] = <<>>
  /\ open' = [open EXCEPT ![s] = TRUE]
  /\ bcols' = IF open[s] THEN bcols ELSE [bcols EXCEPT ![s] = WithNewBatch(s)]
  /\ cnt' = IF open[s] THEN cnt ELSE [cnt EXCEPT ![s] = 0]
  /\ pc' = [pc EXCEPT ![s] = "push"]
  /\ UNCHANGED <<paused, ret, chg, dfCols, cds, cb, srcVars, recv, closed,
                 flowVars, pauseVars, ddlVars, ctxVars>>

\* Batch.Push up to its unlock: the batch is seen open or closed.  The lock is
\* taken while the importer closes the batch.
PushCheck(s) ==
  /\ pc[s] = "push" /\ ~cancelled
  /\ ~(pc[main] = "fclose" /\ cds = s)
  /\ repro' = IF open[s] THEN repro ELSE [repro EXCEPT ![s] = cur[s]]
  /\ pc' = [pc EXCEPT ![s] = IF open[s] THEN "send" ELSE "next"]
  /\ UNCHANGED <<paused, ret, chg, dfCols, cds, cb, row, cur, queue, cols,
                 batchVars, flowVars, pauseVars, ddlVars, ctxVars>>

\* The context is done before or in the select of Push: the stream ends.
PushCancelled(s) ==
  /\ pc[s] \in {"push", "send"} /\ cancelled
  /\ open' = CloseBatch(s)
  /\ pc' = [pc EXCEPT ![s] = "close"]
  /\ UNCHANGED <<paused, ret, chg, dfCols, cds, cb, srcVars, bcols, cnt, recv,
                 closed, flowVars, pauseVars, ddlVars, ctxVars>>

\* The select of Push takes a schema change and puts it back.
SendChange(s) ==
  /\ pc[s] = "send" /\ queue[s] # <<>>
  /\ queue' = [queue EXCEPT ![s] = Append(Tail(@), Head(@))]
  /\ repro' = [repro EXCEPT ![s] = cur[s]]
  /\ pc' = [pc EXCEPT ![s] = "next"]
  /\ UNCHANGED <<paused, ret, chg, dfCols, cds, cb, row, cur, cols, batchVars,
                 flowVars, pauseVars, ddlVars, ctxVars>>

\* The select of Push hands the row to the importer, which must be reading the
\* same batch; the batch is closed when it is full.
SendRow(s) ==
  LET n == cnt[s] + 1 IN
  /\ pc[s] = "send" /\ open[s]
  /\ pc[main] = "rows" /\ cds = s /\ cb = Len(bcols[s])
  /\ recv' = [recv EXCEPT ![s] = Append(@, [row |-> cur[s], batch |-> cb])]
  /\ cnt' = [cnt EXCEPT ![s] = n]
  /\ open' = [open EXCEPT ![s] = n # plan.batchLimit]
  /\ pc' = [pc EXCEPT ![s] = "next",
                      ![main] = IF n = plan.fileLimit /\ n # plan.batchLimit THEN "fclose" ELSE @]
  /\ UNCHANGED <<paused, ret, chg, dfCols, cds, cb, srcVars, bcols, closed,
                 flowVars, pauseVars, ddlVars, ctxVars>>

\* The select of Push picks the send on a channel that was closed after the
\* check: the panic is recovered and captured, and the stream is closed.
SendPanic(s) ==
  /\ pc[s] = "send" /\ ~open[s]
  /\ err' = TRUE
  /\ pc' = [pc EXCEPT ![s] = "close"]
  /\ UNCHANGED <<paused, ret, chg, dfCols, cds, cb, srcVars, batchVars, flowVars,
                 pauseVars, ddlVars, plan, cancelled>>

\* Datastream.Close, after its channels are drained.
CloseStream(s) ==
  /\ pc[s] = "close"
  /\ closed' = [closed EXCEPT ![s] = TRUE]
  /\ open' = CloseBatch(s)
  /\ queue' = [queue EXCEPT ![s] = <<>>]
  /\ pc' = [pc EXCEPT ![s] = "done"]
  /\ UNCHANGED <<paused, ret, chg, dfCols, cds, cb, row, cur, repro, cols, bcols,
                 cnt, recv, flowVars, pauseVars, ddlVars, ctxVars>>

StreamStep(s) ==
  \/ NextReprocess(s) \/ NextRow(s) \/ NextEnd(s) \/ LoopChange(s) \/ LoopExit(s)
  \/ PushCheck(s) \/ PushCancelled(s) \/ SendChange(s) \/ SendRow(s) \/ SendPanic(s)
  \/ CloseStream(s)

(***************************************************************************)
(* Pausing the dataflow (Dataflow.Pause, Dataflow.Unpause): a stream does   *)
(* so for a schema change it has met, and is itself excepted; pusher for    *)
(* those of a new stream; main to create the table.                         *)
(***************************************************************************)

\* Where a stream receives from pauseChan: both selects of schemaChgLoop, the
\* select of Push, the drain of Close.
Listening(s) == pc[s] \in {"loop", "send", "close"}

\* The stream takes the pause and waits for unpauseChan; a row it was about to
\* send is processed again afterwards.
LosesRow(s) ==
  /\ ret' = [ret EXCEPT ![s] = IF pc[s] = "send" THEN "next" ELSE pc[s]]
  /\ UNCHANGED repro
TakesPause(s) ==
  /\ ret' = [ret EXCEPT ![s] = IF pc[s] = "send" THEN "next" ELSE pc[s]]
  /\ repro' = IF pc[s] = "send" THEN [repro EXCEPT ![s] = cur[s]] ELSE repro

\* Dataflow.AddColumns: the new columns are merged into df.Columns under df.mux;
\* only those that df.Columns did not have go on.  Dataflow.ChangeColumn: without
\* a handler nothing is done.
Handle(a) ==
  LET added == chg[a].cols \ dfCols
      goes  == IF chg[a].kind = "add" THEN added # {} ELSE handlers /\ plan.adjust
  IN /\ pc[a] = "handle" /\ mux = NoOne
     /\ dfCols' = dfCols \cup chg[a].cols
     /\ chg' = [chg EXCEPT ![a] = [@ EXCEPT !.cols = added]]
     /\ pc' = [pc EXCEPT ![a] = IF goes THEN "pause"
                                ELSE IF a \in Streams THEN "loop" ELSE "join"]
     /\ UNCHANGED <<paused, ret, cds, cb, srcVars, batchVars, flowVars, pauseVars,
                    ddlVars, ctxVars>>

\* Where an actor goes with the dataflow paused.
WhenPaused(a) == IF a = main THEN "create" ELSE "lock"

\* Pause takes df.mux.  It returns at once when the dataflow is not ready, which
\* does not happen here: main waits for it, and a change needs a row that has
\* been imported or a second stream.
PauseBegin(a) ==
  /\ pc[a] = "pause" /\ ready /\ mux = NoOne
  /\ mux' = a /\ idx' = 1 /\ got' = {} /\ miss' = FALSE
  /\ pc' = [pc EXCEPT ![a] = "try"]
  /\ UNCHANGED <<paused, ret, chg, dfCols, cds, cb, srcVars, batchVars, flowVars,
                 ddlVars, ctxVars>>

\* The stream the loop of Pause or Unpause has come to.
Turn == streams[idx]

\* TryPause is not called for a stream that is closed or excepted.
TrySkip(a) ==
  /\ pc[a] = "try" /\ idx <= Len(streams)
  /\ Turn = a \/ closed[Turn]
  /\ idx' = idx + 1
  /\ UNCHANGED <<pc, paused, ret, chg, dfCols, cds, cb, srcVars, batchVars,
                 flowVars, mux, got, miss, ddlVars, ctxVars>>

\* TryPause: the stream receives from pauseChan in time.
TryOk(a) ==
  /\ pc[a] = "try" /\ idx <= Len(streams)
  /\ Turn # a /\ ~closed[Turn] /\ ~paused[Turn]
  /\ Listening(Turn)
  /\ TakesPause(Turn)
  /\ paused' = [paused EXCEPT ![Turn] = TRUE]
  /\ pc' = [pc EXCEPT ![Turn] = "wait"]
  /\ got' = got \cup {Turn}
  /\ idx' = idx + 1
  /\ UNCHANGED <<chg, dfCols, cds, cb, row, cur, queue, cols, batchVars, flowVars,
                 mux, miss, ddlVars, ctxVars>>

\* TryPause: the stream is paused already, or does not receive in time.
TryFail(a) ==
  /\ pc[a] = "try" /\ idx <= Len(streams)
  /\ Turn # a /\ ~closed[Turn]
  /\ miss' = TRUE
  /\ idx' = idx + 1
  /\ UNCHANGED <<pc, paused, ret, chg, dfCols, cds, cb, srcVars, batchVars,
                 flowVars, mux, got, ddlVars, ctxVars>>

\* The exit test of Pause's loop.
NeverMissed == TRUE
AllPaused == ~miss

\* All streams are paused, or those that are will be unpaused again.
TryDone(a) ==
  /\ pc[a] = "try" /\ idx > Len(streams)
  /\ mux' = IF AllPaused THEN NoOne ELSE a
  /\ idx' = 1
  /\ pc' = [pc EXCEPT ![a] = IF AllPaused THEN WhenPaused(a) ELSE "undo"]
  /\ UNCHANGED <<paused, ret, chg, dfCols, cds, cb, srcVars, batchVars, flowVars,
                 got, miss, ddlVars, ctxVars>>

\* Dataflow.Unpause takes df.mux for its loop; it does nothing when not ready.
UnpauseBegin(a) ==
  /\ pc[a] = "unp" /\ mux = NoOne
  /\ mux' = a /\ idx' = IF ready THEN 1 ELSE Len(streams) + 1
  /\ pc' = [pc EXCEPT ![a] = "release"]
  /\ UNCHANGED <<paused, ret, chg, dfCols, cds, cb, srcVars, batchVars, flowVars,
                 got, miss, ddlVars, ctxVars>>

\* The loop is to call Datastream.Unpause for the stream it has come to, and
\* that finds it paused: those just paused in Pause, all but the excepted one
\* in Unpause.
OnlyExcepted(a) == paused[Turn] /\ Turn = a
Releases(a) == paused[Turn] /\ (IF pc[a] = "undo" THEN Turn \in got ELSE Turn # a)

ReleaseSkip(a) ==
  /\ pc[a] \in {"undo", "release"} /\ idx <= Len(streams) /\ ~Releases(a)
  /\ idx' = idx + 1
  /\ UNCHANGED <<pc, paused, ret, chg, dfCols, cds, cb, srcVars, batchVars,
                 flowVars, mux, got, miss, ddlVars, ctxVars>>

\* Datastream.Unpause sends on unpauseChan, and then clears ds.paused.
ReleaseSend(a) ==
  /\ pc[a] \in {"undo", "release"} /\ idx <= Len(streams) /\ Releases(a)
  /\ pc[Turn] = "wait"
  /\ pc' = [pc EXCEPT ![Turn] = ret[Turn],
                      ![a] = IF @ = "undo" THEN "undoClear" ELSE "releaseClear"]
  /\ UNCHANGED <<paused, ret, chg, dfCols, cds, cb, srcVars, batchVars, flowVars,
                 pauseVars, ddlVars, ctxVars>>

ReleaseClear(a) ==
  /\ pc[a] \in {"undoClear", "releaseClear"}
  /\ paused' = [paused EXCEPT ![Turn] = FALSE]
  /\ idx' = idx + 1
  /\ pc' = [pc EXCEPT ![a] = IF @ = "undoClear" THEN "undo" ELSE "release"]
  /\ UNCHANGED <<ret, chg, dfCols, cds, cb, srcVars, batchVars, flowVars, mux, got,
                 miss, ddlVars, ctxVars>>

\* Not all streams could be paused: Pause tries again after a while.
PauseRetry(a) ==
  /\ pc[a] = "undo" /\ idx > Len(streams)
  /\ mux' = NoOne
  /\ pc' = [pc EXCEPT ![a] = "pause"]
  /\ UNCHANGED <<paused, ret, chg, dfCols, cds, cb, srcVars, batchVars, flowVars,
                 idx, got, miss, ddlVars, ctxVars>>

\* The deadline has passed or the context is done, and Pause returns false: a
\* stream puts its change back in the queue, pusher goes on without, main fails.
PauseGivesUp(a) ==
  /\ pc[a] = "undo" /\ idx > Len(streams)
  /\ mux' = NoOne
  /\ queue' = IF a \in Streams THEN [queue EXCEPT ![a] = Append(@, chg[a])] ELSE queue
  /\ err' = (err \/ a = main)
  /\ pc' = [pc EXCEPT ![a] = IF a \in Streams THEN "loop"
                             ELSE IF a = main THEN "failed" ELSE "join"]
  /\ UNCHANGED <<paused, ret, chg, dfCols, cds, cb, row, cur, repro, cols,
                 batchVars, flowVars, idx, got, miss, ddlVars, plan, cancelled>>

\* AddColumns and ChangeColumn lock df.Context and close the batches of all
\* streams (CloseCurrentBatches): a stream in the select of Push may be told
\* through closeChan (told), or Close does not wait for it any longer.
LockAndCloseBatches(a) ==
  /\ pc[a] = "lock" /\ ddlBy = NoOne
  /\ ~(pc[main] = "fclose" /\ cds \in InFlow)
  /\ ddlBy' = a
  /\ open' = [s \in Streams |-> open[s] /\ s \notin InFlow]
  /\ \E told \in SUBSET {s \in InFlow : pc[s] = "send" /\ open[s]} :
       /\ pc' = [b \in Actors |-> IF b = a THEN "ddl" ELSE IF b \in told THEN "next" ELSE pc[b]]
       /\ repro' = [s \in Streams |-> IF s \in told THEN cur[s] ELSE repro[s]]
  /\ UNCHANGED <<paused, ret, chg, dfCols, cds, cb, row, cur, queue, cols, bcols,
                 cnt, recv, closed, flowVars, pauseVars, handlers, tbl, typed, ctxVars>>

\* Whatever the handler returned, the dataflow is unpaused.
RetriesOnError(fails) == IF fails THEN "pause" ELSE "unp"
AfterHandler(fails) == "unp"

\* The handler alters the table (OnColumnAdded, a no-op until the handlers are
\* configured; OnColumnChanged), and incrementVersion hands the types to the
\* streams.  An error of the handler is captured.
RunHandler(a) ==
  /\ pc[a] = "ddl" /\ mux = NoOne
  /\ ddlBy' = NoOne
  /\ \E fails \in BOOLEAN :
       /\ fails => handlers
       /\ err' = (err \/ fails)
       /\ tbl' = IF handlers /\ plan.addNew /\ ~fails THEN tbl \cup chg[a].cols ELSE tbl
       /\ typed' = (typed \/ (chg[a].kind = "type" /\ ~fails))
       /\ pc' = [pc EXCEPT ![a] = AfterHandler(fails)]
  /\ UNCHANGED <<paused, ret, chg, dfCols, cds, cb, srcVars, batchVars, flowVars,
                 pauseVars, handlers, plan, cancelled>>

\* All streams are unpaused.
UnpauseEnd(a) ==
  /\ pc[a] = "release" /\ idx > Len(streams)
  /\ mux' = NoOne
  /\ pc' = [pc EXCEPT ![a] = IF a \in Streams THEN "loop"
                             ELSE IF a = main THEN "take" ELSE "join"]
  /\ UNCHANGED <<paused, ret, chg, dfCols, cds, cb, srcVars, batchVars, flowVars,
                 idx, got, miss, ddlVars, ctxVars>>

PauseStep(a) ==
  \/ Handle(a) \/ PauseBegin(a) \/ TrySkip(a) \/ TryOk(a)
  \/ TryFail(a) \/ TryDone(a) \/ UnpauseBegin(a) \/ ReleaseSkip(a) \/ ReleaseSend(a)
  \/ ReleaseClear(a) \/ PauseRetry(a) \/ PauseGivesUp(a) \/ LockAndCloseBatches(a)
  \/ RunHandler(a) \/ UnpauseEnd(a)

(***************************************************************************)
(* PushStreamChan.                                                          *)
(***************************************************************************)

Arriving == Order[Len(streams) + 1]

\* The first stream gives the dataflow its columns.
FirstColumns ==
  /\ pc[pusher] = "merge" /\ Len(Order) > 0 /\ streams = <<>> /\ ~cancelled
  /\ dfCols' = cols[Arriving]
  /\ joined' = [joined EXCEPT ![Arriving] = TRUE]
  /\ pc' = [pc EXCEPT ![pusher] = "push"]
  /\ UNCHANGED <<paused, ret, chg, cds, cb, srcVars, batchVars, streams, streamCh,
                 dfClosed, ready, late, pauseVars, ddlVars, ctxVars>>

\* MergeColumns: the columns of a later stream are merged into df.Columns, and
\* those that were new are handed to AddColumns.
MergeColumns ==
  /\ pc[pusher] = "merge" /\ streams # <<>> /\ Len(streams) < Len(Order)
  /\ mux = NoOne /\ ~cancelled
  /\ dfCols' = dfCols \cup cols[Arriving]
  /\ chg' = [chg EXCEPT ![pusher] = Adding(cols[Arriving] \ dfCols)]
  /\ pc' = [pc EXCEPT ![pusher] = IF cols[Arriving] \subseteq dfCols THEN "join" ELSE "handle"]
  /\ UNCHANGED <<paused, ret, cds, cb, srcVars, batchVars, flowVars, pauseVars,
                 ddlVars, ctxVars>>

\* ds.AddColumns(df.Columns): the stream gets the columns of the dataflow, and
\* the changes on its queue, the empty one too; then ds.df is set.
JoinStream ==
  /\ pc[pusher] = "join" /\ mux = NoOne
  /\ cols' = [cols EXCEPT ![Arriving] = @ \cup dfCols]
  /\ queue' = [queue EXCEPT ![Arriving] =
                 @ \o <<Adding(dfCols \ cols[Arriving])>> \o (IF typed THEN <<Retyping>> ELSE <<>>)]
  /\ joined' = [joined EXCEPT ![Arriving] = TRUE]
  /\ pc' = [pc EXCEPT ![pusher] = "push"]
  /\ UNCHANGED <<paused, ret, chg, dfCols, cds, cb, row, cur, repro, batchVars,
                 streams, streamCh, dfClosed, ready, late, pauseVars, ddlVars, ctxVars>>

\* tryPush succeeds when StreamCh has room; it is full then, which makes the
\* dataflow ready.
PushStream ==
  /\ pc[pusher] = "push" /\ mux = NoOne /\ streamCh = <<>>
  /\ streams' = Append(streams, Arriving)
  /\ streamCh' = <<Arriving>>
  /\ ready' = TRUE
  /\ late' = IF \E a \in Actors : pc[a] = "lock" THEN late \cup {Arriving} ELSE late
  /\ pc' = [pc EXCEPT ![pusher] = "merge"]
  /\ UNCHANGED <<paused, ret, chg, dfCols, cds, cb, srcVars, batchVars, joined,
                 dfClosed, pauseVars, ddlVars, ctxVars>>

\* dsCh is drained, or the context is done: the deferred df.Close.
PushEnd ==
  /\ pc[pusher] = "merge"
  /\ Len(streams) = Len(Order) \/ cancelled
  /\ dfClosed' = TRUE
  /\ ready' = (ready \/ Len(streams) = Len(Order))
  /\ pc' = [pc EXCEPT ![pusher] = "done"]
  /\ UNCHANGED <<paused, ret, chg, dfCols, cds, cb, srcVars, batchVars, joined,
                 streams, streamCh, late, pauseVars, ddlVars, ctxVars>>

PusherStep == FirstColumns \/ MergeColumns \/ JoinStream \/ PushStream \/ PushEnd

(***************************************************************************)
(* The writer of the table (WriteToDb), which then imports the streams one  *)
(* after the other (BulkImportFlow, BulkImportStream).                      *)
(***************************************************************************)

\* WaitReady returns; the dataflow is paused to set up the table.
WaitReady ==
  /\ pc[main] = "start" /\ ready
  /\ pc' = [pc EXCEPT ![main] = "pause"]
  /\ UNCHANGED <<paused, ret, chg, dfCols, cds, cb, srcVars, batchVars, flowVars,
                 pauseVars, ddlVars, ctxVars>>

\* The table is created with the columns the dataflow has.
CreateTable ==
  /\ pc[main] = "create"
  /\ tbl' = dfCols
  /\ pc' = [pc EXCEPT ![main] = "configure"]
  /\ UNCHANGED <<paused, ret, chg, dfCols, cds, cb, srcVars, batchVars, flowVars,
                 pauseVars, ddlBy, handlers, typed, ctxVars>>

\* configureColumnHandlers; df.Unpause comes next.
ConfigureColumnHandlers ==
  /\ pc[main] = "configure"
  /\ handlers' = TRUE
  /\ pc' = [pc EXCEPT ![main] = "unp"]
  /\ UNCHANGED <<paused, ret, chg, dfCols, cds, cb, srcVars, batchVars, flowVars,
                 pauseVars, ddlBy, tbl, typed, ctxVars>>

\* An error before the dataflow is unpaused, or while waiting for it: WriteToDb
\* returns at once, and the streams are left as they are.
SetUpFails ==
  /\ pc[main] \in {"create", "configure"} \/ (pc[main] = "start" /\ cancelled)
  /\ err' = TRUE
  /\ pc' = [pc EXCEPT ![main] = "failed"]
  /\ UNCHANGED <<paused, ret, chg, dfCols, cds, cb, srcVars, batchVars, flowVars,
                 pauseVars, ddlVars, plan, cancelled>>

\* BulkImportFlow takes the next stream from StreamCh, or ends.
TakeStream ==
  /\ pc[main] = "take" /\ streamCh # <<>>
  /\ cds' = Head(streamCh) /\ cb' = 0
  /\ streamCh' = <<>>
  /\ pc' = [pc EXCEPT ![main] = "batch"]
  /\ UNCHANGED <<paused, ret, chg, dfCols, srcVars, batchVars, joined, streams,
                 dfClosed, ready, late, pauseVars, ddlVars, ctxVars>>

ImportEnd ==
  /\ pc[main] = "take" /\ streamCh = <<>> /\ dfClosed
  /\ pc' = [pc EXCEPT ![main] = "done"]
  /\ UNCHANGED <<paused, ret, chg, dfCols, cds, cb, srcVars, batchVars, flowVars,
                 pauseVars, ddlVars, ctxVars>>

\* The next batch of the stream, when its columns are not those of the batch
\* before, is matched with the columns of the table: one that the table does not
\* have is an error (Shape: "column ... not found in target columns").
Reshaped(s, b) == b = 1 \/ bcols[s][b] # bcols[s][b - 1]

TakeBatch ==
  LET b == cb + 1 IN
  /\ pc[main] = "batch" /\ b <= Len(bcols[cds])
  /\ cb' = b
  /\ pc' = [pc EXCEPT ![main] =
              IF ~Reshaped(cds, b) THEN "rows"
              ELSE IF ~(bcols[cds][b] \subseteq tbl) THEN "misfit"
              ELSE IF plan.shapes THEN "shape" ELSE "rows"]
  /\ UNCHANGED <<paused, ret, chg, dfCols, cds, srcVars, batchVars, flowVars,
                 pauseVars, ddlVars, ctxVars>>

\* BatchChan is closed and drained.
StreamImported ==
  /\ pc[main] = "batch" /\ cb = Len(bcols[cds]) /\ closed[cds]
  /\ pc' = [pc EXCEPT ![main] = "take"]
  /\ UNCHANGED <<paused, ret, chg, dfCols, cds, cb, srcVars, batchVars, flowVars,
                 pauseVars, ddlVars, ctxVars>>

\* batch.Rows is closed and drained.
BatchImported ==
  /\ pc[main] = "rows"
  /\ cb < Len(bcols[cds]) \/ ~open[cds]
  /\ pc' = [pc EXCEPT ![main] = "batch"]
  /\ UNCHANGED <<paused, ret, chg, dfCols, cds, cb, srcVars, batchVars, flowVars,
                 pauseVars, ddlVars, ctxVars>>

\* The importer closes the batch itself (a file is full): the stream is told
\* through closeChan, or Close does not wait for it any longer.
FileFull ==
  /\ pc[main] = "fclose"
  /\ open' = [open EXCEPT ![cds] = FALSE]
  /\ \E told \in BOOLEAN :
       /\ told => pc[cds] = "send" /\ open[cds]
       /\ repro' = IF told THEN [repro EXCEPT ![cds] = cur[cds]] ELSE repro
       /\ pc' = [pc EXCEPT ![main] = "rows", ![cds] = IF told THEN "next" ELSE @]
  /\ UNCHANGED <<paused, ret, chg, dfCols, cds, cb, row, cur, queue, cols, bcols,
                 cnt, recv, closed, flowVars, pauseVars, ddlVars, ctxVars>>

\* Batch.Shape with Datastream.Pause and Unpause, which do not take df.mux: the
\* stream is seen not closed, the pause is sent, ds.paused is set, the transform
\* is added, the unpause is sent if ds.paused, ds.paused is cleared.
ShapeCheck ==
  /\ pc[main] = "shape"
  /\ pc' = [pc EXCEPT ![main] = IF closed[cds] THEN "shapeRelease" ELSE "shapePause"]
  /\ UNCHANGED <<paused, ret, chg, dfCols, cds, cb, srcVars, batchVars, flowVars,
                 pauseVars, ddlVars, ctxVars>>

ShapePause ==
  /\ pc[main] = "shapePause" /\ Listening(cds)
  /\ TakesPause(cds)
  /\ pc' = [pc EXCEPT ![cds] = "wait", ![main] = "shapeSet"]
  /\ UNCHANGED <<paused, chg, dfCols, cds, cb, row, cur, queue, cols, batchVars,
                 flowVars, pauseVars, ddlVars, ctxVars>>

ShapeSet ==
  /\ pc[main] = "shapeSet"
  /\ paused' = [paused EXCEPT ![cds] = TRUE]
  /\ pc' = [pc EXCEPT ![main] = "shapeRelease"]
  /\ UNCHANGED <<ret, chg, dfCols, cds, cb, srcVars, batchVars, flowVars, pauseVars,
                 ddlVars, ctxVars>>

ShapeRelease ==
  /\ pc[main] = "shapeRelease"
  /\ paused[cds] => pc[cds] = "wait"
  /\ pc' = IF paused[cds] THEN [pc EXCEPT ![cds] = ret[cds], ![main] = "shapeClear"]
                          ELSE [pc EXCEPT ![main] = "rows"]
  /\ UNCHANGED <<paused, ret, chg, dfCols, cds, cb, srcVars, batchVars, flowVars,
                 pauseVars, ddlVars, ctxVars>>

ShapeClear ==
  /\ pc[main] = "shapeClear"
  /\ paused' = [paused EXCEPT ![cds] = FALSE]
  /\ pc' = [pc EXCEPT ![main] = "rows"]
  /\ UNCHANGED <<ret, chg, dfCols, cds, cb, srcVars, batchVars, flowVars, pauseVars,
                 ddlVars, ctxVars>>

MainStep ==
  \/ WaitReady \/ CreateTable \/ ConfigureColumnHandlers \/ SetUpFails \/ TakeStream
  \/ ImportEnd \/ TakeBatch \/ StreamImported \/ BatchImported \/ FileFull
  \/ ShapeCheck \/ ShapePause \/ ShapeSet \/ ShapeRelease \/ ShapeClear

\* The context of the task is cancelled: an interrupt or a timeout.
Cancel ==
  /\ plan.cancels /\ ~cancelled
  /\ cancelled' = TRUE
  /\ UNCHANGED <<pc, paused, ret, chg, dfCols, cds, cb, srcVars, batchVars, flowVars,
                 pauseVars, ddlVars, plan, err>>

\* A stream waits for unpauseChan, and nobody will send: two goroutines have paused
\* and unpaused it at once, and ds.paused was cleared by the one after it was set by the
\* other (Datastream.Unpause clears it after it has sent).
Lost(s) == pc[s] = "wait" /\ ~paused[s] /\ pc[main] # "shapeSet"

\* WriteToDb has returned; streams that nobody reads are left where they are.  Or it
\* waits for a lost stream.
Over == /\ pc[main] \in {"done", "failed", "misfit"} \/ \E s \in Streams : Lost(s)
        /\ UNCHANGED vars

Next ==
  \/ \E s \in Streams : StreamStep(s)
  \/ \E a \in Actors : PauseStep(a)
  \/ PusherStep \/ MainStep \/ Cancel \/ Over

Safety == Init /\ [][Next]_vars

(***************************************************************************)
(* Fairness: every goroutine that can run does; one that waits for df.mux   *)
(* with the streams paused gets it in the end, although others take it in   *)
(* between (sync.Mutex does not starve a waiter).                           *)
(***************************************************************************)
Fairness ==
  /\ \A s \in Streams : WF_vars(StreamStep(s))
  /\ \A a \in Actors : WF_vars(PauseStep(a))
  /\ \A a \in Actors : SF_vars(RunHandler(a) \/ UnpauseBegin(a))
  /\ WF_vars(PusherStep) /\ WF_vars(MainStep)

Spec == Safety /\ Fairness

(***************************************************************************)
(* Properties.                                                              *)
(***************************************************************************)

Position == {"next", "loop", "handle", "push", "send", "wait", "close", "done",
             "pause", "try", "undo", "undoClear", "lock", "ddl", "unp", "release",
             "releaseClear", "merge", "join", "start", "create", "configure", "take",
             "batch", "rows", "fclose", "shape", "shapePause", "shapeSet", "shapeRelease",
             "shapeClear", "misfit", "failed"}

\* The variables have their types.
TypeOK ==
  /\ plan \in Plan /\ pc \in [Actors -> Position]
  /\ row \in [Streams -> 0..NRows] /\ cur \in [Streams -> 0..NRows]
  /\ repro \in [Streams -> 0..NRows]
  /\ queue \in [Streams -> Seq(SchemaChg)] /\ cols \in [Streams -> SUBSET Cols]
  /\ bcols \in [Streams -> Seq(SUBSET Cols)] /\ open \in [Streams -> BOOLEAN]
  /\ cnt \in [Streams -> Nat]
  /\ recv \in [Streams -> Seq([row : 1..NRows, batch : Nat])]
  /\ closed \in [Streams -> BOOLEAN] /\ paused \in [Streams -> BOOLEAN]
  /\ ret \in [Streams -> {"loop", "next", "close"}]
  /\ chg \in [Actors -> SchemaChg] /\ joined \in [Streams -> BOOLEAN]
  /\ streams \in Seq(Streams) /\ streamCh \in Seq(Streams)
  /\ {dfClosed, ready, typed, miss, handlers, cancelled, err} \subseteq BOOLEAN
  /\ dfCols \subseteq Cols /\ tbl \subseteq Cols
  /\ mux \in Actors \cup {NoOne} /\ ddlBy \in Actors \cup {NoOne}
  /\ idx \in Nat \ {0} /\ got \subseteq Streams /\ late \subseteq Streams
  /\ cds \in Streams \cup {NoOne} /\ cb \in Nat

\* The importer receives the rows of a stream in order, none twice and none left
\* out, whatever pauses, closed batches and schema changes send back to
\* it.Reprocess; and all of them when it ends without an error.
EveryRowOnce ==
  /\ \A s \in Streams : \A k \in 1..Len(recv[s]) : recv[s][k].row = k
  /\ pc[main] = "done" /\ ~err /\ ~cancelled
       => \A s \in InFlow : Len(recv[s]) = plan.rows[s]

\* A row is received in a batch that has the columns the row has shown: the
\* change it put on schemaChgChan has closed the batch before.  Except the first row of
\* a stream from which nothing was sampled (SampleSize 0, or columns: {"*": ...}): it may
\* be in the select of Push before its stream joins the dataflow, and is then sent in
\* the batch it found.
RowInItsBatch ==
  \A s \in Streams : \A k \in 1..Len(recv[s]) :
    recv[s][k].row > 1 => plan.add[s][recv[s][k].row] \subseteq bcols[s][recv[s][k].batch]

\* A stream that has seen its batch open in Push still finds it open in the
\* select, where the send would panic: whoever closes it has paused the stream
\* before.  Except a stream that came into the dataflow between the pause and the
\* closing, and one whose batches the importer closes.
NoSendOnClosed ==
  plan.fileLimit = 0 => \A s \in Streams \ late : pc[s] = "send" => open[s]

\* No row reaches the importer while a handler alters the table.
NoRowDuringHandler == [][ddlBy # NoOne => recv' = recv]_vars

\* A stream that waits for unpauseChan goes on, however the handler ends; unless
\* WriteToDb has returned with an error while it had the dataflow paused, or the importer
\* has paused it too (Lost).
PausedResumes ==
  \A s \in Streams : pc[s] = "wait" ~> (pc[s] # "wait" \/ Lost(s) \/ pc[main] = "failed")
=============================================================================
