------------------------------ MODULE ApiQueue ------------------------------
(***************************************************************************)
(* A queue between the endpoints of an API source: a file that a producer   *)
(* appends lines to and that consumers read (core/dbio/iop/queue.go), with  *)
(* the part of APIConnection.ReadDataflow that registers, flushes and marks *)
(* it (core/dbio/api/api.go).                                               *)
(*                                                                          *)
(* An endpoint is a stream of a replication.  Streams of one process run    *)
(* one after the other and share the process's Queue; with SLING_THREADS    *)
(* every stream is a process with a Queue of its own on the same file.  A   *)
(* consumer is deferred, and reads the file when what it depends on has     *)
(* ended, or immediate, and tails the file while it is written.             *)
(*                                                                          *)
(* An item is <<stream, number>>.  Its line is one cell of the file, or two *)
(* if it is so long that a reader may see a part of it.  All cells are of   *)
(* one size and readers see what is written at once: when two processes     *)
(* write over each other, what is left of their lines is approximate.  What *)
(* a consumer makes of an item, and the parent that starts and cancels the  *)
(* processes, are external.                                                 *)
(***************************************************************************)
EXTENDS Naturals, Sequences, FiniteSets

CONSTANTS
  Stream,   \* the endpoints
  Process,  \* the processes
  Plans     \* the sets of streams considered, see IsPlan

\* What the streams do: `items` says of each item a producer appends whether its
\* line is long; `after` is what a stream depends on (DependsOn).
IsPlan(b) ==
  /\ b.kind \in [Stream -> {"producer", "deferred", "immediate", "none"}]
  /\ b.process \in [Stream -> Process]
  /\ b.items \in [Stream -> Seq(BOOLEAN)]
  /\ b.after \in [Stream -> SUBSET Stream]
  /\ b.keep \in BOOLEAN

\* A producer is a queue_only endpoint: the others never write the sentinel.  A
\* deferred consumer of another process depends on the producers (HasUpstreams).  A
\* file that is not kept is a temporary file of one process.
ASSUME PlansAssumption ==
  \A b \in Plans :
    /\ IsPlan(b)
    /\ ~b.keep => \A s, t \in Stream : b.process[s] = b.process[t]
    /\ \A p, c \in Stream :
         b.kind[p] = "producer" /\ b.kind[c] = "deferred" /\ b.process[p] # b.process[c]
           => p \in b.after[c]

VARIABLES
  plan,
  file,      \* the cells of the queue file
  done,      \* the producers that have written the sentinel file
  mode,      \* of each process's Queue: not registered, writing, reading, closed
  rpos,      \* how far each Queue has been read
  wpos,      \* how far each Queue has been written: where it writes next
  pc,        \* where each stream is
  count,     \* the items a producer has appended
  pos,       \* how far a tailing reader has read
  line,      \* how many cells of an unfinished line it has read
  got,       \* the records a consumer has been given
  cancelled, \* the context of the streams is cancelled
  late       \* the readers that the sentinel misleads: it was written between their
             \* look at the file and their look for it, or not by every producer

vars == <<plan, file, wpos, done, mode, rpos, pc, count, pos, line, got, cancelled, late>>

Of(kind) == {s \in Stream : plan.kind[s] = kind}
Consumers == Of("deferred") \cup Of("immediate")
Streams == Of("producer") \cup Consumers

Ended == {"ok", "failed", "cancelled"}
HasEnded(s) == pc[s] \in Ended

Cell(s, k, start, end) == [item |-> <<s, k>>, start |-> start, end |-> end]
Record(item, whole) == [item |-> item, whole |-> whole]

TypeOK ==
  LET item == Stream \X Nat IN
  /\ plan \in Plans
  /\ file \in Seq([item : item, start : BOOLEAN, end : BOOLEAN])
  /\ done \subseteq Stream /\ cancelled \in BOOLEAN
  /\ wpos \in [Process -> Nat]
  /\ mode \in [Process -> {"none", "writing", "reading", "closed"}]
  /\ rpos \in [Process -> Nat] /\ count \in [Stream -> Nat]
  /\ pc \in [Stream -> {"idle", "append", "half", "mark", "teardown", "reset", "next", "read", "eof",
                       "wait"} \cup Ended]
  /\ pos \in [Stream -> Nat] /\ line \in [Stream -> Nat]
  /\ got \in [Stream -> Seq([item : item, whole : BOOLEAN])]
  /\ late \subseteq Stream

Init ==
  /\ plan \in Plans
  /\ file = <<>> /\ done = {}
  /\ mode = [p \in Process |-> "none"]
  /\ rpos = [p \in Process |-> 0] /\ wpos = rpos
  /\ pc = [s \in Stream |-> "idle"] /\ count = [s \in Stream |-> 0]
  /\ pos = count /\ line = count /\ got = [s \in Stream |-> <<>>]
  /\ cancelled = FALSE /\ late = {}

Goto(s, label) == pc' = [pc EXCEPT ![s] = label]
Give(s, record) == got' = [got EXCEPT ![s] = Append(@, record)]

-----------------------------------------------------------------------------
(* A stream begins: its process registers the queue (RegisterQueue, NewQueue). *)

Begin(s) ==
  LET p == plan.process[s] IN
  /\ pc[s] = "idle" /\ s \in Streams
  /\ \A t \in plan.after[s] : HasEnded(t)
  /\ \A t \in Streams \ {s} : plan.process[t] = p => pc[t] = "idle" \/ HasEnded(t)
  /\ mode[p] # "closed"
  /\ mode' = [mode EXCEPT ![p] = IF @ = "none" THEN "writing" ELSE @]
  /\ Goto(s, CASE plan.kind[s] = "producer" -> "append"
               [] plan.kind[s] = "deferred" -> "reset"
               [] OTHER -> "read")
  /\ UNCHANGED <<plan, file, wpos, done, rpos, count, pos, line, got, cancelled, late>>

\* A request fails, or another part of the stream.
Fails(s) ==
  /\ pc[s] \in {"append", "mark", "teardown", "reset", "next", "read"}
  /\ Goto(s, "failed")
  /\ UNCHANGED <<plan, file, wpos, done, mode, rpos, count, pos, line, got, cancelled, late>>

-----------------------------------------------------------------------------
(* The producer (Append, and the end of ReadDataflow for queue_only).        *)

\* Append refuses when the queue is being read; and a faulty variant.
AlwaysAppends(s) == TRUE
MayAppend(s) == mode[plan.process[s]] # "reading"

Remaining(s) == count[s] < Len(plan.items[s])

AppendRefused(s) ==
  /\ pc[s] = "append" /\ Remaining(s) /\ ~MayAppend(s)
  /\ Goto(s, "failed")
  /\ UNCHANGED <<plan, file, wpos, done, mode, rpos, count, pos, line, got, cancelled, late>>

\* NewQueue opened the file at its beginning, without O_APPEND: a process writes where
\* its own last write ended, over what another process may have written there.
Put(p, cell) ==
  /\ file' = IF wpos[p] < Len(file) THEN [file EXCEPT ![wpos[p] + 1] = cell]
                                    ELSE Append(file, cell)
  /\ wpos' = [wpos EXCEPT ![p] = @ + 1]

\* A short line is written and flushed at once, a long one in two parts.
WriteItem(s) ==
  LET k == count[s] + 1 IN
  /\ pc[s] = "append" /\ Remaining(s) /\ MayAppend(s)
  /\ IF plan.items[s][k]
     THEN Put(plan.process[s], Cell(s, k, TRUE, FALSE)) /\ Goto(s, "half") /\ count' = count
     ELSE /\ Put(plan.process[s], Cell(s, k, TRUE, TRUE)) /\ pc' = pc
          /\ count' = [count EXCEPT ![s] = k]
  /\ UNCHANGED <<plan, done, mode, rpos, pos, line, got, cancelled, late>>

WriteRest(s) ==
  LET k == count[s] + 1 IN
  /\ pc[s] = "half"
  /\ Put(plan.process[s], Cell(s, k, FALSE, TRUE))
  /\ count' = [count EXCEPT ![s] = k]
  /\ Goto(s, "append")
  /\ UNCHANGED <<plan, done, mode, rpos, pos, line, got, cancelled, late>>

\* The stream is drained, and the queue flushed.
Drained(s) == pc[s] = "append" /\ ~Remaining(s)

Flush(s) ==
  /\ Drained(s) /\ Goto(s, "mark")
  /\ UNCHANGED <<plan, file, wpos, done, mode, rpos, count, pos, line, got, cancelled, late>>

\* The sentinel is the queue's: the first producer that comes here makes it.
MarkDone(s) ==
  /\ pc[s] = "mark"
  /\ done' = done \cup {s}
  /\ late' = late \cup {r \in Stream : pc[r] = "eof"}
  /\ Goto(s, "teardown")
  /\ UNCHANGED <<plan, file, wpos, mode, rpos, count, pos, line, got, cancelled>>

\* The calls of the teardown; if one fails, so does the stream, its queue marked.
Teardown(s) ==
  /\ pc[s] = "teardown" /\ Goto(s, "ok")
  /\ UNCHANGED <<plan, file, wpos, done, mode, rpos, count, pos, line, got, cancelled, late>>

-----------------------------------------------------------------------------
(* A deferred consumer: Reset, then Next until there is no more.  Its        *)
(* producers have ended, or share its Queue: the last line is complete.      *)

Reset(s) ==
  LET p == plan.process[s] IN
  /\ pc[s] = "reset"
  /\ mode' = [mode EXCEPT ![p] = "reading"]
  /\ rpos' = [rpos EXCEPT ![p] = 0]
  /\ Goto(s, "next")
  /\ UNCHANGED <<plan, file, wpos, done, count, pos, line, got, cancelled, late>>

\* Where the line that begins after cell n ends: 0 if its newline is not there.
LineEnd(n) ==
  LET ends == {k \in (n + 1)..Len(file) : file[k].end}
  IN IF ends = {} THEN 0 ELSE CHOOSE k \in ends : \A j \in ends : k <= j

NextLine(s) ==
  LET p == plan.process[s]
      k == LineEnd(rpos[p])
  IN /\ pc[s] = "next" /\ k # 0
     /\ Give(s, Record(file[k].item, file[rpos[p] + 1].start))
     /\ rpos' = [rpos EXCEPT ![p] = k]
     /\ UNCHANGED <<plan, file, wpos, done, mode, pc, count, pos, line, cancelled, late>>

NextEnd(s) ==
  /\ pc[s] = "next" /\ rpos[plan.process[s]] = Len(file)
  /\ Goto(s, "ok")
  /\ UNCHANGED <<plan, file, wpos, done, mode, rpos, count, pos, line, got, cancelled, late>>

-----------------------------------------------------------------------------
(* A tailing reader (QueueReader.Next, called until it has no more).         *)

\* ReadString finds a line.
ReadLine(s) ==
  LET k == LineEnd(pos[s]) IN
  /\ pc[s] = "read" /\ k # 0
  /\ Give(s, Record(file[k].item, file[pos[s] + 1].start))
  /\ pos' = [pos EXCEPT ![s] = k]
  /\ UNCHANGED <<plan, file, wpos, done, mode, rpos, pc, count, line, cancelled, late>>

\* It comes to the end of the file, with a part of a line or without.
ReadEOF(s) ==
  /\ pc[s] = "read" /\ LineEnd(pos[s]) = 0
  /\ pos' = [pos EXCEPT ![s] = Len(file)]
  /\ line' = [line EXCEPT ![s] = Len(file) - pos[s]]
  /\ Goto(s, "eof")
  /\ UNCHANGED <<plan, file, wpos, done, mode, rpos, count, got, cancelled, late>>

\* The sentinel is there: a part of a line is given as it is, else this is the end.
IsDone(s) ==
  /\ pc[s] = "eof" /\ done # {}
  /\ IF line[s] > 0
     THEN Give(s, Record(file[pos[s]].item, FALSE)) /\ Goto(s, "read")
     ELSE Goto(s, "ok") /\ got' = got
  /\ line' = [line EXCEPT ![s] = 0]
  /\ late' = late \cup {r \in {s} : ~(Of("producer") \subseteq done)}
  /\ UNCHANGED <<plan, file, wpos, done, mode, rpos, count, pos, cancelled>>

\* Where the reader goes on after it came to the end; and a faulty variant.
KeepsPlace(s) == pos[s]
Rewound(s) == pos[s] - line[s]

NotDone(s) ==
  /\ pc[s] = "eof" /\ done = {}
  /\ pos' = [pos EXCEPT ![s] = Rewound(s)]
  /\ line' = [line EXCEPT ![s] = 0]
  /\ Goto(s, "wait")
  /\ UNCHANGED <<plan, file, wpos, done, mode, rpos, count, got, cancelled, late>>

Poll(s) ==
  /\ pc[s] = "wait" /\ Goto(s, "read")
  /\ UNCHANGED <<plan, file, wpos, done, mode, rpos, count, pos, line, got, cancelled, late>>

\* The wait ends with the context; and a faulty variant.
NeverWakes(s) == FALSE
Wakes(s) == cancelled

ContextDone(s) ==
  /\ pc[s] = "wait" /\ Wakes(s) /\ Goto(s, "cancelled")
  /\ UNCHANGED <<plan, file, wpos, done, mode, rpos, count, pos, line, got, cancelled, late>>

-----------------------------------------------------------------------------
\* An interrupt, or the parent after a stream has failed.
Cancel ==
  /\ ~cancelled /\ cancelled' = TRUE
  /\ UNCHANGED <<plan, file, wpos, done, mode, rpos, pc, count, pos, line, got, late>>

\* A process closes its Queue when its streams have ended; one that does not keep
\* the file for other processes removes it.
Close(p) ==
  /\ mode[p] \notin {"none", "closed"}
  /\ \A s \in Streams : plan.process[s] = p => HasEnded(s)
  /\ mode' = [mode EXCEPT ![p] = "closed"]
  /\ IF plan.keep THEN UNCHANGED <<file, done>> ELSE file' = <<>> /\ done' = {}
  /\ UNCHANGED <<plan, rpos, wpos, pc, count, pos, line, got, cancelled, late>>

StreamStep(s) ==
  \/ Begin(s) \/ AppendRefused(s) \/ WriteItem(s) \/ WriteRest(s) \/ Flush(s) \/ MarkDone(s)
  \/ Teardown(s) \/ Reset(s) \/ NextLine(s) \/ NextEnd(s)
  \/ ReadLine(s) \/ ReadEOF(s) \/ IsDone(s) \/ NotDone(s) \/ Poll(s)

Over == (\A s \in Streams : HasEnded(s)) /\ UNCHANGED vars

Next ==
  \/ \E s \in Stream : StreamStep(s) \/ ContextDone(s) \/ Fails(s)
  \/ \E p \in Process : Close(p)
  \/ Cancel \/ Over

\* Streams go on.  The context's channel is ready from its cancellation on, and a
\* select takes a ready case sooner or later.  A failed stream ends its group.
Fairness ==
  /\ \A s \in Stream : WF_vars(StreamStep(s)) /\ SF_vars(ContextDone(s))
  /\ WF_vars((\E s \in Streams : pc[s] = "failed") /\ Cancel)

Spec == Init /\ [][Next]_vars /\ Fairness

-----------------------------------------------------------------------------
(* Properties.                                                              *)

\* How many lines end in the first n cells.
LinesIn(cells, n) == Cardinality({k \in 1..n : cells[k].end})

\* The lines of the queue, as records.
LinesOf(cells) ==
  [i \in 1..LinesIn(cells, Len(cells)) |->
     LET k == CHOOSE k \in 1..Len(cells) : cells[k].end /\ LinesIn(cells, k) = i
     IN Record(cells[k].item, TRUE)]
Lines == LinesOf(file)

Closed == \E p \in Process : mode[p] = "closed" /\ ~plan.keep

\* One process has written the file, or none.  Two write over each other's lines.
Apart == \A p, q \in Process : wpos[p] > 0 /\ wpos[q] > 0 => p = q

\* The lines of the queue are those that were appended.
Intact == ~Closed /\ Apart

\* Every consumer is given the lines from the first one on, whole, in their order,
\* none twice, however it comes upon a line that is being written - except one
\* that the sentinel misleads: it looked for it just after it was written, for a file
\* it had looked at before, or before every producer had written it (NewReader: "all
\* consumers see every record").
Broadcast ==
  Intact => \A c \in Consumers \ late :
    /\ Len(got[c]) <= Len(Lines)
    /\ \A i \in 1..Len(got[c]) : got[c][i] = Lines[i]

\* A consumer that ended normally has been given every line, and none can follow: a
\* deferred one, because who appends after it has begun to read is refused, and
\* fails; a reader, because its producers are done, with the exceptions above.
ReadIsComplete ==
  Intact => \A c \in Consumers \ late : pc[c] = "ok" => got[c] = Lines

\* Every stream ends: a reader does not wait for a producer that is done, that has
\* failed, or that was cancelled.
StreamsEnd == <>(\A s \in Streams : HasEnded(s))

\* "Returns hasMore=false when done and drained, or when ctx is cancelled": a reader
\* that ends otherwise has been given every line.
DoneAndDrained ==
  Intact => \A c \in Of("immediate") : pc[c] = "ok" => got[c] = Lines
=============================================================================
