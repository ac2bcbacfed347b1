----------------------------- MODULE StagedLoad -----------------------------
(***************************************************************************)
(* Files between a dataflow and its target.  WriteDataflowReady             *)
(* (core/dbio/filesys/fs.go) turns every stream into files of at most       *)
(* FileMaxRows rows and announces each of them on fileReadyChn; a bulk      *)
(* loader takes the files from there into a table (core/dbio/database), and *)
(* WriteToDb (core/sling/task_run_write.go) compares the counts before it   *)
(* merges the table into the target.  plan.driver says who loads:           *)
(*   duckdb     inserts the files one after the other (importViaTempCSVs)    *)
(*   bigquery   a load job for every file (importViaLocalStorage)           *)
(*   starrocks  an HTTP request for every file (StreamLoad)                 *)
(*   stage      files are put on a stage, then one COPY (CopyViaStage,      *)
(*              CopyViaVolume)                                              *)
(*   bucket     the dataflow is written whole, then one COPY (Redshift,     *)
(*              CopyViaAWS): WriteDataflow                                  *)
(*   file       the files are the target: WriteToFile                       *)
(*                                                                          *)
(* Per stream there are an encoder (NewCsvReaderChnl), whose rows go        *)
(* through a pipe per file, a goroutine that takes the pipes (processStream)*)
(* and one goroutine per file that writes it (writePart).  The encoders     *)
(* share the mutex of df.Context, and hold it while a row is flushed.       *)
(*                                                                          *)
(* Abstracted: what rows and columns are (a file is the number of its       *)
(* rows); limits by bytes, compression and the formats other than CSV; the  *)
(* pausing of streams around a column change (module Dataflow).  CaptureErr *)
(* is not in the repository: whether it also cancels the context is left    *)
(* open, so after an error a stream may stop or go on (Stop), and a         *)
(* transaction on that context may or may not begin (Merge).                *)
(***************************************************************************)
EXTENDS Naturals, Sequences, FiniteSets

CONSTANTS
  Streams,      \* the streams of the dataflow
  First,        \* the one that came first: df.Buffer, the sample, is its
  MaxRows,      \* the most rows of a stream (a bound)
  MaxFiles,     \* the most files of a stream (follows from MaxRows)
  Concurrency,  \* of WriteDataflowReady: the slots for the files of a stream
  Room,         \* the capacity of fileReadyChn (3 or 10 in the code)
  Loads,        \* loads at once: the size of the Wg.Write
  Plans,        \* the loads considered, a set of Plan records
  NoOne, handler

Drivers == {"duckdb", "bigquery", "starrocks", "stage", "bucket", "file"}

\* What may go wrong: the file system client, the folder (prepare), creating a file, writing it, the source,
\* taking a file into the table or onto the stage (load), the COPY, and the merge.
Faults == {"client", "prepare", "create", "write", "source", "load", "copy", "merge"}

\* A load: its driver, its streams and their rows, FileMaxRows, the faults that may
\* occur, the stream whose columns change and after which of its rows (or {}), and
\* whether all goes to a single file: then the stream is the one of MergeDataflow.
Plan == [driver : Drivers, streams : SUBSET Streams, rows : [Streams -> 0..MaxRows],
         max : 1..(MaxRows + 1),
         faults : SUBSET Faults, change : SUBSET (Streams \X (0..MaxRows)), single : BOOLEAN]

ASSUME StagedLoadAssumption ==
  /\ IsFiniteSet(Streams)
  /\ First \in Streams /\ NoOne \notin Streams /\ handler \notin Streams /\ handler # NoOne
  /\ MaxRows \in Nat /\ MaxFiles \in Nat /\ MaxFiles >= MaxRows + 2
  /\ Concurrency \in Nat \ {0} /\ Room \in Nat \ {0} /\ Loads \in Nat \ {0}
  /\ Plans \subseteq Plan
  /\ \A p \in Plans : /\ \A s \in Streams \ p.streams : p.rows[s] = 0
                      /\ p.single => p.driver = "file" /\ \E s \in Streams : p.streams = {s}

VARIABLES
  plan,     \* the load
  count,    \* ds.Count, the rows each stream has handed over
  enc,      \* where the encoder of each stream is
  file,     \* the number of the file it writes to
  inFile,   \* br.Counter, the rows of that file
  fresh,    \* the next batch of the stream has other columns
  srcErr,   \* the streams whose source has failed
  mux,      \* who holds df.Context.Mux
  proc,     \* where the goroutine of each stream is (processStream)
  taken,    \* the readers it has taken from readerChn
  w,        \* where the goroutine of each file is (writePart)
  bad,      \* how its Write went wrong: "no", "short" or "absent"
  disk,     \* the rows in the file
  gone,     \* the files that have been removed
  ready,    \* fileReadyChn
  wd,       \* where WriteDataflowReady is
  err,      \* df.Err() is not nil
  pc,       \* where the caller is: the import, then WriteToDb
  cur,      \* the file it has received
  ld,       \* where the load of each file is
  staged,   \* the rows of each file on the stage
  table,    \* the rows of each file in the temporary table
  tally,    \* loadedRows of StreamLoad
  seen,     \* what a load has read of it
  alter,    \* where the handler of a column change is
  cnt,      \* the count that BulkImportFlow returned
  merged,   \* the temporary table was merged into the target
  result    \* what the task reports

encVars  == <<count, enc, file, inFile, fresh, srcErr>>
partVars == <<proc, taken, w, bad, disk>>
loadVars == <<ld, staged, table, tally, seen>>
mainVars == <<gone, pc, cur, loadVars, cnt, merged, result>>
vars == <<plan, encVars, mux, partVars, ready, wd, err, alter, mainVars>>

Files == Streams \X (1..MaxFiles)
Of(s) == {f \in Files : f[1] = s}
Rows(content, S) == Cardinality(UNION {{x} \X (1..content[x]) : x \in S})
Total == Rows(count, Streams)       \* df.Count()
Is(drivers) == plan.driver \in drivers
MayFail(fault) == fault \in plan.faults

\* A file whose pipe has been closed by the encoder: nextPipe has opened another, or
\* the stream has ended.
Eof(f) == file[f[1]] > f[2] \/ enc[f[1]] = "done"

Init ==
  /\ plan \in Plans
  /\ count = [s \in Streams |-> 0] /\ file = count /\ inFile = count /\ taken = count
  /\ enc = [s \in Streams |-> "idle"] /\ proc = enc
  /\ fresh = [s \in Streams |-> FALSE] /\ srcErr = {}
  /\ mux = NoOne
  /\ w = [f \in Files |-> "none"] /\ bad = [f \in Files |-> "no"] /\ ld = w
  /\ disk = [f \in Files |-> 0] /\ staged = disk /\ table = disk /\ seen = disk
  /\ gone = {} /\ ready = <<>> /\ wd = "prepare" /\ err = FALSE
  /\ pc = CASE Is({"file", "bucket"}) -> "write" [] Is({"stage"}) -> "stage" [] OTHER -> "recv"
  /\ cur = <<First, 1>> /\ tally = 0 /\ alter = "no"
  /\ cnt = 0 /\ merged = FALSE /\ result = "none"

\* WriteToFile has nothing to write when the first stream has no rows.
EmptyBuffer == Is({"file"}) /\ plan.rows[First] = 0

(***************************************************************************)
(* WriteDataflowReady: the folder, then a goroutine for every stream.       *)
(***************************************************************************)
Prepare ==
  /\ wd = "prepare" /\ ~EmptyBuffer
  /\ wd' = "streams"
  /\ proc' = [s \in Streams |-> IF s \in plan.streams THEN "range" ELSE "done"]
  /\ enc' = [s \in Streams |-> IF s \in plan.streams THEN "row" ELSE "done"]
  /\ file' = [s \in Streams |-> IF s \in plan.streams THEN 1 ELSE 0]
  /\ UNCHANGED <<plan, count, inFile, fresh, srcErr, mux, taken, w, bad, disk,
                 ready, err, alter, mainVars>>

\* The deferred close(fileReadyChn) comes first, the error is captured by the caller later.
PrepareFails ==
  /\ wd = "prepare" /\ ~EmptyBuffer /\ MayFail("prepare")
  /\ wd' = "failed"
  /\ UNCHANGED <<plan, encVars, mux, partVars, ready, err, alter, mainVars>>

\* The goroutine that should call WriteDataflowReady gets no file system client: it
\* captures the error and nobody closes the channel.  The others make the client before.
ClientFails ==
  /\ wd = "prepare" /\ Is({"duckdb", "stage"}) /\ MayFail("client")
  /\ wd' = "lost" /\ err' = TRUE
  /\ UNCHANGED <<plan, encVars, mux, partVars, ready, alter, mainVars>>

ErrorCaptured ==
  /\ wd = "failed"
  /\ wd' = "closed" /\ err' = TRUE
  /\ UNCHANGED <<plan, encVars, mux, partVars, ready, alter, mainVars>>

\* Wg.Read.Wait() and the return, which closes the channel.
WriteDataflowReturns ==
  /\ wd = "streams" /\ \A s \in Streams : proc[s] = "done"
  /\ wd' = "closed"
  /\ UNCHANGED <<plan, encVars, mux, partVars, ready, err, alter, mainVars>>

ChnClosed == wd \in {"failed", "closed"}

(***************************************************************************)
(* The encoder of a stream.                                                 *)
(***************************************************************************)
\* nextPipe closes the pipe of the last file and sends another on readerChn.
NextPipe(s) ==
  /\ file' = [file EXCEPT ![s] = @ + 1]
  /\ inFile' = [inFile EXCEPT ![s] = 0]

Paused == alter \in {"locked", "waiting", "altering"}

\* A new batch with other columns begins a new file.
ColumnsChanged(s) ==
  /\ enc[s] = "row" /\ fresh[s] /\ count[s] < plan.rows[s] /\ ~Paused
  /\ fresh' = [fresh EXCEPT ![s] = FALSE]
  /\ NextPipe(s)
  /\ UNCHANGED <<plan, count, enc, srcErr, mux, partVars, ready, wd, err, alter, mainVars>>

TakeRow(s) ==
  /\ enc[s] = "row" /\ ~fresh[s] /\ count[s] < plan.rows[s] /\ ~Paused
  /\ count' = [count EXCEPT ![s] = @ + 1]
  /\ enc' = [enc EXCEPT ![s] = "lock"]
  /\ UNCHANGED <<plan, file, inFile, fresh, srcErr, mux, partVars, ready, wd, err, alter,
                 mainVars>>

Lock(s) ==
  /\ enc[s] = "lock" /\ mux = NoOne
  /\ mux' = s /\ enc' = [enc EXCEPT ![s] = "flush"]
  /\ UNCHANGED <<plan, count, file, inFile, fresh, srcErr, partVars, ready, wd, err,
                 alter, mainVars>>

\* Somebody reads the pipe of f: Write, or who throws the rest away after it failed
\* (when no file could be created, Write itself leaves a goroutine that does).
Flushes(f) == w[f] \in {"writing", "drain"} \/ bad[f] = "absent"

FileIsFull(n) == n >= plan.max

\* The row goes through the pipe, and is lost if the io.Copy of Write fails on it or has
\* failed before.  With FileMaxRows reached the next file is begun at once.
Flush(s) ==
  LET f == <<s, file[s]>> IN
  /\ enc[s] = "flush" /\ Flushes(f)
  /\ \/ disk' = [disk EXCEPT ![f] = IF w[f] = "writing" THEN @ + 1 ELSE @] /\ UNCHANGED <<w, bad>>
     \/ /\ w[f] = "writing" /\ MayFail("write")
        /\ w' = [w EXCEPT ![f] = "send"] /\ bad' = [bad EXCEPT ![f] = "short"] /\ UNCHANGED disk
  /\ IF FileIsFull(inFile[s] + 1) THEN NextPipe(s)
     ELSE inFile' = [inFile EXCEPT ![s] = @ + 1] /\ UNCHANGED file
  /\ enc' = [enc EXCEPT ![s] = "row"]
  /\ mux' = NoOne
  /\ UNCHANGED <<plan, count, fresh, srcErr, proc, taken, ready, wd, err, alter, mainVars>>

\* BatchChan is closed: the stream is at its end, its source has failed, or it was
\* cancelled after an error.
Stop(s) ==
  /\ enc[s] = "row" /\ ~Paused
  /\ \/ count[s] = plan.rows[s] /\ UNCHANGED <<srcErr, err>>
     \/ MayFail("source") /\ srcErr' = srcErr \cup {s} /\ err' = TRUE
     \/ err /\ UNCHANGED <<srcErr, err>>
  /\ enc' = [enc EXCEPT ![s] = "done"]
  /\ UNCHANGED <<plan, count, file, inFile, fresh, mux, partVars, ready, wd, alter,
                 mainVars>>

(***************************************************************************)
(* processStream: it takes the readers and starts writePart for each.       *)
(***************************************************************************)
ProcessReader(s) ==
  /\ proc[s] = "range" /\ taken[s] < file[s]
  /\ taken' = [taken EXCEPT ![s] = @ + 1]
  /\ w' = [w EXCEPT ![<<s, taken[s] + 1>>] = "create"]
  /\ proc' = [proc EXCEPT ![s] = "add"]
  /\ UNCHANGED <<plan, encVars, mux, bad, disk, ready, wd, err, alter, mainVars>>

\* Mutant: the parts are not counted in the wait group.
NotWaitedFor(s) == {}

Unfinished(s) == {f \in Of(s) : w[f] \notin {"none", "done"}}

\* Wg.Read.Add() comes after `go writePart`; a slot was added before the loop.  After an
\* error the loop is left, whatever the encoder still sends.
Added(s) ==
  /\ proc[s] = "add" /\ Cardinality(Unfinished(s)) < Concurrency
  /\ proc' = [proc EXCEPT ![s] = IF err THEN "leave" ELSE "range"]
  /\ UNCHANGED <<plan, encVars, mux, taken, w, bad, disk, ready, wd, err, alter, mainVars>>

\* readerChn is closed or was left: the goroutine waits for its parts.
StreamDone(s) ==
  /\ \/ proc[s] = "leave"
     \/ proc[s] = "range" /\ taken[s] = file[s] /\ enc[s] = "done"
  /\ Unfinished(s) = {}
  /\ proc' = [proc EXCEPT ![s] = "done"]
  /\ UNCHANGED <<plan, encVars, mux, taken, w, bad, disk, ready, wd, err, alter, mainVars>>

(***************************************************************************)
(* writePart.                                                               *)
(***************************************************************************)
\* os.Create in the Write of the file system.  A single file has one name: it is
\* truncated when the columns have changed.
Create(f) ==
  /\ w[f] = "create"
  /\ w' = [w EXCEPT ![f] = "writing"]
  /\ disk' = [e \in Files |-> IF plan.single THEN 0 ELSE disk[e]]
  /\ UNCHANGED <<plan, encVars, mux, proc, taken, bad, ready, wd, err, alter, mainVars>>

CreateFails(f) ==
  /\ w[f] = "create" /\ MayFail("create")
  /\ w' = [w EXCEPT ![f] = "send"] /\ bad' = [bad EXCEPT ![f] = "absent"]
  /\ UNCHANGED <<plan, encVars, mux, proc, taken, disk, ready, wd, err, alter, mainVars>>

HasRoom == Is({"stage", "bucket", "file"}) \/ Len(ready) < Room

\* The file is announced, even if its Write has failed.
Announce(f) ==
  /\ w[f] = "send" \/ (w[f] = "writing" /\ Eof(f))
  /\ HasRoom
  /\ ready' = Append(ready, f)
  /\ w' = [w EXCEPT ![f] = IF bad[f] = "no" THEN "done" ELSE "fail"]
  /\ UNCHANGED <<plan, encVars, mux, proc, taken, bad, disk, wd, err, alter, mainVars>>

\* Mutant: the part returns on an error and leaves its pipe unread.
ReturnsUnread == "done"

AfterError == "drain"

PartFails(f) ==
  /\ w[f] = "fail"
  /\ err' = TRUE
  /\ w' = [w EXCEPT ![f] = AfterError]
  /\ UNCHANGED <<plan, encVars, mux, proc, taken, bad, disk, ready, wd, alter, mainVars>>

Drained(f) ==
  /\ w[f] = "drain" /\ Eof(f)
  /\ w' = [w EXCEPT ![f] = "done"]
  /\ UNCHANGED <<plan, encVars, mux, proc, taken, bad, disk, ready, wd, err, alter,
                 mainVars>>

(***************************************************************************)
(* A column change.  BigQuery wraps OnColumnChanged: under conn.Mux, which  *)
(* keeps new loads out, it waits for the running ones.  For a file target   *)
(* nothing is altered, the stream goes on with a batch of other columns.    *)
(***************************************************************************)
Running == {f \in Files : ld[f] \in {"running", "adding"}}

ChangeColumn(s) ==
  /\ alter = "no" /\ <<s, count[s]>> \in plan.change
  /\ enc[s] = "row" /\ count[s] < plan.rows[s]
  /\ IF Is({"bigquery"})
     THEN /\ mux = NoOne /\ mux' = handler /\ alter' = "locked" /\ UNCHANGED fresh
     ELSE /\ alter' = "done" /\ fresh' = [fresh EXCEPT ![s] = TRUE] /\ UNCHANGED mux
  /\ UNCHANGED <<plan, count, enc, file, inFile, srcErr, partVars, ready, wd, err,
                 mainVars>>

\* Mutant: the handler does not wait for the load jobs.
NoWait == TRUE

WritersDone == Running = {}

HandlerWaits ==
  /\ alter = "locked"
  /\ alter' = "waiting"
  /\ UNCHANGED <<plan, encVars, mux, partVars, ready, wd, err, mainVars>>

HandlerAlters ==
  /\ alter = "waiting" /\ WritersDone
  /\ alter' = "altering"
  /\ UNCHANGED <<plan, encVars, mux, partVars, ready, wd, err, mainVars>>

\* All streams were closed to their batches and go on with the changed type.
HandlerReturns ==
  /\ alter = "altering"
  /\ alter' = "done" /\ mux' = NoOne
  /\ fresh' = [s \in Streams |-> TRUE]
  /\ UNCHANGED <<plan, count, enc, file, inFile, srcErr, partVars, ready, wd, err,
                 mainVars>>

(***************************************************************************)
(* The import: what the drivers do with the files.                          *)
(***************************************************************************)
\* Mutant: the staged files are not removed.
NothingCleaned == {}

\* BulkImportFlow returns: df.CleanUp() removes the folder of those who left it to df.Defer.
Cleaned == IF Is({"bigquery", "stage", "bucket"})
           THEN {f \in Files : w[f] \notin {"none", "create"}} ELSE {}

Leave(next, n) ==
  /\ pc' = next /\ cnt' = n
  /\ gone' = gone \cup Cleaned
  /\ result' = IF next = "end" THEN "failed" ELSE result

\* Snowflake's stage is emptied before the files are taken, while they are being written.
Stage ==
  /\ pc = "stage"
  /\ \/ pc' = "recv" /\ UNCHANGED <<cnt, gone, result>>
     \/ MayFail("copy") /\ Leave("end", 0)
  /\ UNCHANGED <<plan, encVars, mux, partVars, ready, wd, err, alter, cur, loadVars, merged>>

LooksFirst == Is({"bigquery", "stage"})

\* The next file of fileReadyChn.  BigQuery and the stages leave the loop after an error.
Receive ==
  /\ pc = "recv" /\ ready # <<>>
  /\ cur' = Head(ready) /\ ready' = Tail(ready)
  /\ pc' = IF LooksFirst /\ err THEN "wait" ELSE "start"
  /\ UNCHANGED <<plan, encVars, mux, partVars, wd, err, alter, gone, loadVars, cnt, merged,
                 result>>

\* doInsert of importViaTempCSVs; the file is removed either way.
Insert ==
  /\ pc = "start" /\ Is({"duckdb"})
  /\ gone' = gone \cup {cur}
  /\ \/ /\ bad[cur] # "absent"
        /\ table' = [table EXCEPT ![cur] = disk[cur]]
        /\ pc' = "recv" /\ UNCHANGED <<cnt, result>>
     \/ /\ MayFail("load") \/ bad[cur] # "no"
        /\ pc' = "end" /\ cnt' = 0 /\ result' = "failed" /\ UNCHANGED table
  /\ UNCHANGED <<plan, encVars, mux, partVars, ready, wd, err, alter, cur, ld, staged, tally,
                 seen, merged>>

ConnMuxFree == ~Is({"bigquery"}) \/ alter \notin {"waiting", "altering"}

\* Wg.Write.Add() and `go`.  StreamLoad then returns if there was an error, and leaves
\* the loads it has started behind.
Start ==
  /\ pc = "start" /\ Is({"bigquery", "stage", "starrocks"})
  /\ ConnMuxFree /\ Cardinality(Running) < Loads
  /\ ld' = [ld EXCEPT ![cur] = "running"]
  /\ IF Is({"starrocks"}) /\ err THEN Leave("end", Total)
     ELSE pc' = "recv" /\ UNCHANGED <<cnt, gone, result>>
  /\ UNCHANGED <<plan, encVars, mux, partVars, ready, wd, err, alter, cur, staged, table, tally,
                 seen, merged>>

\* copyFromLocal, loadFromLocal or doPut has come back.  StreamLoad has yet to add to
\* loadedRows, without a lock: it has read the sum, and writes it in AddLoaded.
LoadEnds(f) ==
  /\ ld[f] = "running"
  /\ \/ /\ bad[f] # "absent" /\ f \notin gone
        /\ IF Is({"stage"}) THEN staged' = [staged EXCEPT ![f] = disk[f]] /\ UNCHANGED table
           ELSE table' = [table EXCEPT ![f] = disk[f]] /\ UNCHANGED staged
        /\ IF Is({"starrocks"})
           THEN ld' = [ld EXCEPT ![f] = "adding"] /\ seen' = [seen EXCEPT ![f] = tally]
                /\ UNCHANGED gone
           ELSE ld' = [ld EXCEPT ![f] = "ended"] /\ gone' = gone \cup {f} /\ UNCHANGED seen
        /\ UNCHANGED err
     \/ /\ MayFail("load") \/ bad[f] # "no" \/ f \in gone
        /\ ld' = [ld EXCEPT ![f] = "ended"] /\ gone' = gone \cup {f}
        /\ err' = TRUE /\ UNCHANGED <<staged, table, seen>>
  /\ UNCHANGED <<plan, encVars, mux, partVars, ready, wd, alter, pc, cur, tally, cnt, merged,
                 result>>

AddLoaded(f) ==
  /\ ld[f] = "adding"
  /\ tally' = seen[f] + table[f]
  /\ ld' = [ld EXCEPT ![f] = "ended"] /\ gone' = gone \cup {f}
  /\ UNCHANGED <<plan, encVars, mux, partVars, ready, wd, err, alter, pc, cur, staged, table,
                 seen,
                 cnt, merged, result>>

\* The channel is closed and empty.  importViaTempCSVs returns df.Count() without a look
\* at df.Err(); the others wait for what they have started.
LastFile ==
  /\ pc = "recv" /\ ready = <<>> /\ ChnClosed
  /\ IF Is({"duckdb"}) THEN Leave("returned", Total)
     ELSE pc' = "wait" /\ UNCHANGED <<cnt, gone, result>>
  /\ UNCHANGED <<plan, encVars, mux, partVars, ready, wd, err, alter, cur, loadVars, merged>>

RowsMatch == tally = Total

LoadsDone ==
  /\ pc = "wait" /\ Running = {}
  /\ CASE err -> Leave("end", 0)
       [] ~err /\ Is({"stage"}) -> pc' = "copy" /\ UNCHANGED <<cnt, gone, result>>
       [] ~err /\ Is({"starrocks"}) /\ ~RowsMatch -> Leave("end", 0)
       [] OTHER -> Leave("returned", Total)
  /\ UNCHANGED <<plan, encVars, mux, partVars, ready, wd, err, alter, cur, loadVars, merged>>

\* The goroutine of WriteDataflow that empties fileReadyChn.
Drain ==
  /\ Is({"file", "bucket"}) /\ ready # <<>>
  /\ ready' = Tail(ready)
  /\ UNCHANGED <<plan, encVars, mux, partVars, wd, err, alter, mainVars>>

NothingToWrite ==
  /\ pc = "write" /\ EmptyBuffer
  /\ pc' = "end" /\ result' = "empty"
  /\ UNCHANGED <<plan, encVars, mux, partVars, ready, wd, err, alter, gone, cur, loadVars, cnt,
                 merged>>

\* WriteDataflow returns.  For WriteToFile that is all.
WriteDataflow ==
  /\ pc = "write" /\ ChnClosed
  /\ IF err \/ wd = "failed" THEN Leave("end", 0) /\ UNCHANGED merged
     ELSE IF Is({"bucket"}) THEN pc' = "copy" /\ UNCHANGED <<cnt, gone, result, merged>>
     ELSE pc' = "end" /\ cnt' = Total /\ merged' = TRUE /\ result' = "success" /\ UNCHANGED gone
  /\ UNCHANGED <<plan, encVars, mux, partVars, ready, wd, err, alter, cur, loadVars>>

\* One COPY of the stage or the bucket, all or nothing.
Copy ==
  /\ pc = "copy"
  /\ \/ /\ table' = IF Is({"stage"}) THEN staged ELSE disk
        /\ Leave("returned", Total)
     \/ /\ MayFail("copy")
        /\ Leave("end", 0) /\ UNCHANGED table
  /\ UNCHANGED <<plan, encVars, mux, partVars, ready, wd, err, alter, cur, ld, staged, tally,
                 seen, merged>>

(***************************************************************************)
(* WriteToDb after BulkImportFlow: the counts, then the merge.              *)
(***************************************************************************)
\* Mutant: the counts are not compared.
NotCompared == FALSE

CountsDiffer == cnt # Rows(table, Files) /\ ~Is({"starrocks"})
LoadedNone == Rows(table, Files) = 0 /\ cnt = 0 /\ plan.rows[First] > 0

Validate ==
  /\ pc = "returned"
  /\ IF CountsDiffer \/ LoadedNone THEN pc' = "end" /\ result' = "failed"
     ELSE IF cnt = 0 THEN pc' = "end" /\ result' = "empty"
     ELSE pc' = "merge" /\ UNCHANGED result
  /\ UNCHANGED <<plan, encVars, mux, partVars, ready, wd, err, alter, gone, cur, loadVars,
                 cnt, merged>>

\* The transaction begins on df.Context.Ctx; df.Err() is looked at after its commit.
Merge ==
  /\ pc = "merge" /\ pc' = "end"
  /\ \/ merged' = TRUE /\ result' = IF err THEN "failed" ELSE "success"
     \/ (MayFail("merge") \/ err) /\ result' = "failed" /\ UNCHANGED merged
  /\ UNCHANGED <<plan, encVars, mux, partVars, ready, wd, err, alter, gone, cur, loadVars, cnt>>

Next ==
  \/ Prepare \/ PrepareFails \/ ClientFails \/ ErrorCaptured \/ WriteDataflowReturns
  \/ \E s \in plan.streams :
       \/ ColumnsChanged(s) \/ TakeRow(s) \/ Lock(s) \/ Flush(s) \/ Stop(s)
       \/ ProcessReader(s) \/ Added(s) \/ StreamDone(s) \/ ChangeColumn(s)
  \/ \E f \in Files :
       \/ Create(f) \/ CreateFails(f) \/ Announce(f)
       \/ PartFails(f) \/ Drained(f) \/ LoadEnds(f) \/ AddLoaded(f)
  \/ HandlerWaits \/ HandlerAlters \/ HandlerReturns
  \/ Stage \/ Receive \/ Insert \/ Start \/ LastFile \/ LoadsDone
  \/ Drain \/ NothingToWrite \/ WriteDataflow \/ Copy
  \/ Validate \/ Merge

\* Goroutines that can run do, and calls to the file system and the database return: some
\* step is taken as long as there is one.  No behaviour repeats a state.
Spec == Init /\ [][Next]_vars /\ WF_vars(Next)

(***************************************************************************)
(* Properties.                                                              *)
(***************************************************************************)
TypeOK ==
  /\ plan \in Plans
  /\ count \in [Streams -> Nat] /\ file \in [Streams -> Nat] /\ inFile \in [Streams -> Nat]
  /\ taken \in [Streams -> Nat] /\ fresh \in [Streams -> BOOLEAN] /\ srcErr \subseteq Streams
  /\ enc \in [Streams -> {"idle", "row", "lock", "flush", "done"}]
  /\ proc \in [Streams -> {"idle", "range", "add", "leave", "done"}]
  /\ mux \in Streams \cup {NoOne, handler}
  /\ w \in [Files -> {"none", "create", "writing", "send", "fail", "drain", "done"}]
  /\ bad \in [Files -> {"no", "short", "absent"}]
  /\ ld \in [Files -> {"none", "running", "adding", "ended"}]
  /\ disk \in [Files -> Nat] /\ staged \in [Files -> Nat] /\ table \in [Files -> Nat]
  /\ seen \in [Files -> Nat] /\ tally \in Nat /\ cnt \in Nat
  /\ gone \subseteq Files /\ ready \in Seq(Files) /\ cur \in Files
  /\ wd \in {"prepare", "streams", "failed", "lost", "closed"}
  /\ alter \in {"no", "locked", "waiting", "altering", "done"}
  /\ pc \in {"write", "stage", "recv", "start", "wait", "copy", "returned", "merge", "end"}
  /\ err \in BOOLEAN /\ merged \in BOOLEAN
  /\ result \in {"none", "failed", "empty", "success"}

Whole == \A s \in Streams :
           Rows(IF Is({"file"}) THEN disk ELSE table, Of(s)) = plan.rows[s]

\* The columns of a stream have changed in a single file: its first part is overwritten.
Overwritten == plan.single /\ \E s \in Streams : file[s] > 1

\* A target that was merged into, or a file target that was reported as written, got
\* every row of every stream, although files are announced before their errors are known
\* and the channel may be closed before the error is: the counts and the sample catch
\* it.  A load is taken for empty only if there was nothing to load.  Not so: a single
\* file whose columns change; importViaTempCSVs, which does not look at df.Err(), after
\* the source has failed (the task then fails, after the commit); and, when the first
\* stream, the only one in the sample, is empty, a file target, a folder that could not
\* be made, or importViaTempCSVs after the source of another stream has failed: with no
\* rows WriteToDb returns before it looks at df.Err().
MergedIsWhole ==
  /\ merged => \/ Whole \/ Overwritten
               \/ Is({"duckdb"}) /\ srcErr # {} /\ result = "failed"
  /\ result = "empty" => \/ \A s \in Streams : plan.rows[s] = 0
                         \/ /\ plan.rows[First] = 0
                            /\ MayFail("prepare") \/ Is({"file"}) \/ (Is({"duckdb"}) /\ srcErr # {})

\* Without a fault the load succeeds: no comparison of counts fails by itself.  StreamLoad
\* adds up loadedRows in several goroutines without a lock; when an addition is lost it
\* reports a mismatch although every row was loaded.
NoFalseAlarm ==
  plan.faults = {} /\ result = "failed" => Is({"starrocks"}) /\ tally # Total /\ Whole

\* A staged file is there as long as it is loaded, however the import ends, and none is
\* left after a success.
StagedFilesLast ==
  /\ \A f \in Files : ld[f] = "running" => f \notin gone
  /\ result = "success" /\ ~Is({"file"}) => \A f \in Files : w[f] # "none" => f \in gone

\* BigQuery's table is not altered while a load job writes to it.
NoLoadDuringAlter == alter = "altering" => Running = {}

\* An encoder holds df.Context.Mux and waits for the reader of a file that processStream,
\* which left its loop after an error, will not take.
Stranded(s) == enc[s] = "flush" /\ taken[s] < file[s] /\ proc[s] \in {"leave", "done"}

\* The import ends and the task reports something, whatever fails: pipes, slots, the
\* channel of files, the shared mutex and the column handler never wait for each other.
\* The exceptions: a stranded encoder (the encoders of the other streams wait for its
\* mutex, and the channel of files is never closed), and a client that could not be made.
ImportReturns ==
  <>(result # "none") \/ <>[](wd = "lost" \/ \E s \in Streams : Stranded(s))
=============================================================================
