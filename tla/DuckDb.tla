------------------------------- MODULE DuckDb -------------------------------
(***************************************************************************)
(* A DuckDB session: the process that DuckDb (core/dbio/iop/duckdb.go)      *)
(* starts, writes statements to and reads results from.                     *)
(*                                                                          *)
(* Every query is sent between two markers.  The process prints markers and *)
(* lines to stdout, errors to stderr, and the rows of a SELECT to a named   *)
(* pipe.  Nothing but the markers says where the output of a query begins   *)
(* and ends, and nothing orders the two outputs: a scanner reads both, and  *)
(* two timers decide when a result or an error is complete.  A watcher      *)
(* beside every query kills the process when it died, fell silent or the    *)
(* query was cancelled; the next query then opens another one.              *)
(*                                                                          *)
(* One goroutine makes the queries, one after the other: duck.Context keeps *)
(* others out while one runs.  Query 0 is the "select 1" of openOnce, with  *)
(* which the session's set-up statements are sent.                          *)
(*                                                                          *)
(* Timing that the code relies on and the model assumes: what was printed   *)
(* is scanned within the 25 ms of the timers (InTime); what a killed        *)
(* process had printed is scanned before another process has started, and   *)
(* no process starts between the two statements of kill (Open).             *)
(***************************************************************************)
EXTENDS Naturals, Sequences

CONSTANTS
  MaxQ,         \* bound: queries of a session
  MaxAttempts,  \* processes that Open tries (5 in the code)
  Pipe,         \* rows that fit in the named pipe
  Sample,       \* rows a datastream reads before StreamContext returns (900 in the code)
  Plans         \* the sessions considered, a set of Plan records

Query == 0..MaxQ
None == MaxQ + 1

\* exec: ExecContext; print: StreamContext of a DESCRIBE or PRAGMA, read from
\* stdout; select: StreamContext of a SELECT, read from the named pipe.
\* does: what its statements print, in order; a long line is one that the buffer of
\* the scanner cannot hold.
Statement == [kind : {"exec", "print", "select"}, does : Seq({"line", "long", "row", "err"})]

\* Of a session: whether the set-up succeeds, fails, or may find the file locked;
\* which queries may be cancelled, whether the reader of a SELECT may stop before its
\* end, the process die or hang, and a process or a named pipe fail to be made;
\* SLING_DUCKDB_STALL_TIMEOUT is not 0.
Plan == [queries : Seq(Statement), setup : {"ok", "fails", "locked"}, cancels : SUBSET Nat,
         stops : BOOLEAN, dies : BOOLEAN, hangs : BOOLEAN, scarce : BOOLEAN, stall : BOOLEAN]

ASSUME DuckDbAssumption ==
  /\ MaxQ \in Nat /\ {MaxAttempts, Pipe, Sample} \subseteq Nat \ {0}
  /\ \A p \in Plans : p \in Plan /\ Len(p.queries) <= MaxQ /\ (p.hangs => p.stall)

VARIABLES
  plan,
  \* the process
  proc,      \* none, alive, hung, dead of itself, or killed by the session
  stdin,     \* what it has still to do
  stdout, stderr,
  ran,       \* what it has done of each query
  \* DuckDb and its caller
  connected, attempts,
  query,     \* duck.query
  pc, want,  \* where the caller is, and which query it makes
  result,    \* what each query returned
  read,      \* rows taken from the named pipe
  got,       \* whose lines have been read from the pipe of each query
  left,      \* a datastream that nobody closes; it holds the lock of duck.Context
  \* the fields of each duckDbQuery
  started, done, err, writer, cancelled, watcher,
  \* the scanner
  broken,    \* the scanner of stdout has stopped (GetScanErr)
  out,       \* stdOutWriter, as its query
  writing,   \* the line in stdOutWriter.Write, with mu held
  errString, errTimer, eofTimer,
  \* kept for the properties only:
  hurt,      \* queries that met a fault: a process that died, hung, was no longer read
             \* or could not be started, or a named pipe that could not be made
  early,     \* queries sent while an earlier one was unfinished, or to a process opened
             \* while an earlier one could still be aborted
  seen       \* the error of each query when waitForResult last looked

procVars == <<proc, stdin, stdout, stderr, ran>>
callVars == <<attempts, pc, want, result, read, got, left>>
fieldVars == <<query, started, done, err, writer, cancelled, watcher>>
scanVars == <<broken, out, writing, errString, errTimer, eofTimer>>
histVars == <<hurt, early, seen>>
vars == <<plan, procVars, connected, callVars, fieldVars, scanVars, histVars>>

All(x) == [q \in Query |-> x]
Line(q, what) == [of |-> q, what |-> what]
NoLine == Line(None, "line")

TypeOK ==
  LET line == [of : Query \cup {None}, what : {"sof", "line", "long", "row", "err", "eof"}] IN
  /\ plan \in Plans
  /\ proc \in {"none", "alive", "hung", "dead", "killed"} /\ connected \in BOOLEAN
  /\ {stdin, stdout, stderr} \subseteq Seq(line) /\ writing \in line
  /\ ran \in [Query -> Seq({"sof", "line", "long", "row", "err", "eof"})]
  /\ read \in [Query -> Nat] /\ attempts \in 0..MaxAttempts
  /\ {query, left, out, errTimer, eofTimer} \subseteq Query \cup {None}
  /\ errString \subseteq Query /\ broken \in BOOLEAN
  /\ pc \in {"idle", "submit", "check", "checkDone", "readLine", "output", "sample", "rows", "drain",
            "kill", "close", "end"}
  /\ want \in 1..(MaxQ + 1) /\ result \in [Query -> {"none", "ok", "err", "stopped"}]
  /\ got \in [Query -> Seq(Query)]
  /\ {started, done, cancelled} \subseteq [Query -> BOOLEAN]
  /\ {err, seen} \subseteq [Query -> {"none", "own", "foreign", "abort", "pipe"}]
  /\ writer \in [Query -> {"open", "eof", "error"}]
  /\ watcher \in [Query -> {"off", "on", "decided", "closing", "killing"}]
  /\ {hurt, early} \subseteq SUBSET Query

Init ==
  /\ plan \in Plans
  /\ proc = "none" /\ stdin = <<>> /\ stdout = <<>> /\ stderr = <<>> /\ ran = All(<<>>)
  /\ connected = FALSE /\ attempts = 0 /\ pc = "idle" /\ want = 1 /\ result = All("none")
  /\ read = All(0) /\ got = All(<<>>) /\ left = None /\ broken = FALSE /\ seen = All("none")
  /\ query = None /\ started = All(FALSE) /\ done = All(FALSE) /\ err = All("none")
  /\ writer = All("open") /\ cancelled = All(FALSE) /\ watcher = All("off")
  /\ out = None /\ writing = NoLine /\ errString = {} /\ errTimer = None /\ eofTimer = None
  /\ hurt = {} /\ early = {}

-----------------------------------------------------------------------------
(* What the steps below have in common.                                     *)

\* setErr keeps the first error.
SetErr(q, e) == err' = [err EXCEPT ![q] = IF @ = "none" THEN e ELSE @]

\* CloseWithError: the first one counts.
CloseWriter(q, how) == writer' = [writer EXCEPT ![q] = IF @ = "open" THEN how ELSE @]

\* resetWriter.
ResetWriter(q, how) ==
  /\ done' = [done EXCEPT ![q] = TRUE]
  /\ CloseWriter(q, how)
  /\ out' = IF out = q THEN None ELSE out

\* What kill leaves of the connection; and a faulty variant.
StillConnected == connected
AfterKill == FALSE

\* kill: first the next query has to open another process, then this one ends.
Disconnect == connected' = AfterKill
Kill ==
  /\ proc' = IF proc \in {"alive", "hung"} THEN "killed" ELSE proc
  /\ stdin' = <<>>

\* Proc.Exited.
Exited == proc \in {"dead", "killed"}

StatementOf(q) == IF q = 0 THEN [kind |-> "exec", does |-> <<"line">>] ELSE plan.queries[q]

\* What SubmitSQL writes: the set-up, then the statements between the markers.
Sent(q, setup) ==
  LET whole == setup \o <<"sof">> \o StatementOf(q).does \o <<"eof">>
  IN [i \in 1..Len(whole) |-> Line(q, whole[i])]

Has(lines, q, what) == \E i \in 1..Len(lines) : lines[i] = Line(q, what)
Rows(log) == Len(SelectSeq(log, LAMBDA w : w = "row"))

\* Nothing that a timer should have waited for is left.
InTime(lines, q, what) == ~Has(lines, q, what)

Unlocked == writing = NoLine

\* Watchers that will still kill the process.
Aborting == {q \in Query : watcher[q] \in {"decided", "closing", "killing"}}

-----------------------------------------------------------------------------
(* The process.  It goes on with the next statement after an error.  A row  *)
(* waits for room in the named pipe; the COPY fails once that is closed.    *)

PipeClosed(q) == result[q] # "none" /\ left # q

Works ==
  /\ proc = "alive" /\ stdin # <<>>
  /\ LET l == Head(stdin)
         fails == l.what = "row" /\ PipeClosed(l.of)
         what == IF fails THEN "err" ELSE l.what
         Goes(m) == m.of # l.of \/ m.what \notin {"row", "err"}
     IN
     /\ what = "row" => Rows(ran[l.of]) - read[l.of] < Pipe
     /\ stdout' = IF what \in {"sof", "line", "long", "eof"} THEN Append(stdout, l) ELSE stdout
     /\ stderr' = IF what = "err" THEN Append(stderr, Line(l.of, what)) ELSE stderr
     /\ ran' = [ran EXCEPT ![l.of] = Append(@, what)]
     /\ stdin' = IF fails THEN SelectSeq(Tail(stdin), Goes) ELSE Tail(stdin)
  /\ UNCHANGED <<plan, proc, connected, callVars, fieldVars, scanVars, histVars>>

\* Bound: under one query of a session.
Dies(how) ==
  /\ proc = "alive" /\ pc \notin {"kill", "close", "end"} /\ hurt \subseteq {want}
  /\ \/ how = "dead" /\ plan.dies
     \/ how = "hung" /\ plan.hangs
  /\ proc' = how
  /\ stdin' = IF how = "dead" THEN <<>> ELSE stdin
  /\ hurt' = hurt \cup {want}
  /\ UNCHANGED <<plan, stdout, stderr, ran, connected, callVars, fieldVars, scanVars, early, seen>>

-----------------------------------------------------------------------------
(* The scanner and its timers, initScanner.  mu is held for the whole of a  *)
(* line, a blocked Write included.                                          *)

\* A line for a query that is over is dropped; one for a cancelled query ends it.
Drops == query = None \/ done[query]
Ends ==
  /\ cancelled[query]
  /\ ResetWriter(query, "error")
  /\ UNCHANGED <<query, started, err, cancelled, watcher, broken, writing, errString, errTimer,
                 eofTimer>>

\* The end marker counts once the start marker was seen; and a faulty variant.
AnyMarker(q) == TRUE
OwnMarker(q) == started[q]

ScanMarker(l) ==
  /\ IF l.what = "sof"
     THEN /\ out' = query /\ started' = [started EXCEPT ![query] = TRUE]
          /\ UNCHANGED eofTimer
     ELSE /\ eofTimer' = IF OwnMarker(query) /\ errString = {} THEN query ELSE eofTimer
          /\ UNCHANGED <<out, started>>
  /\ UNCHANGED <<query, done, err, writer, cancelled, watcher, broken, writing, errString, errTimer>>

ScanOut ==
  /\ stdout # <<>> /\ Unlocked /\ ~broken /\ Head(stdout).what # "long"
  /\ stdout' = Tail(stdout)
  /\ LET l == Head(stdout) IN
     \/ Drops /\ UNCHANGED <<fieldVars, scanVars>>
     \/ ~Drops /\ Ends
     \/ /\ ~Drops /\ ~cancelled[query] /\ l.what \in {"sof", "eof"}
        /\ ScanMarker(l)
     \/ /\ ~Drops /\ ~cancelled[query] /\ l.what = "line"
        /\ writing' = IF out = None THEN NoLine ELSE l
        /\ UNCHANGED <<fieldVars, broken, out, errString, errTimer, eofTimer>>
  /\ UNCHANGED <<plan, proc, stdin, stderr, ran, connected, callVars, histVars>>

\* bufio.ErrTooLong: nothing that the process prints to stdout is read any more.
ScanStops ==
  /\ stdout # <<>> /\ Unlocked /\ ~broken /\ Head(stdout).what = "long"
  /\ broken' = TRUE /\ hurt' = hurt \cup {want}
  /\ UNCHANGED <<plan, procVars, connected, callVars, fieldVars, out, writing, errString, errTimer,
                 eofTimer, early, seen>>

\* The pipe was closed before its reader took the line.
WriteFails ==
  /\ ~Unlocked /\ writer[out] # "open"
  /\ SetErr(query, "pipe") /\ ResetWriter(query, "eof")
  /\ writing' = NoLine
  /\ UNCHANGED <<plan, procVars, connected, callVars, query, started, cancelled, watcher, broken,
                 errString, errTimer, eofTimer, histVars>>

ScanErr ==
  /\ stderr # <<>> /\ Unlocked
  /\ stderr' = Tail(stderr)
  /\ \/ Drops /\ UNCHANGED <<fieldVars, scanVars>>
     \/ ~Drops /\ Ends
     \/ /\ ~Drops /\ ~cancelled[query]
        /\ errString' = errString \cup {Head(stderr).of}
        /\ errTimer' = query /\ eofTimer' = None
        /\ UNCHANGED <<fieldVars, broken, out, writing>>
  /\ UNCHANGED <<plan, proc, stdin, stdout, ran, connected, callVars, histVars>>

ErrFires ==
  /\ errTimer # None /\ Unlocked
  /\ broken \/ InTime(stdout, errTimer, "sof")
  /\ InTime(stderr, errTimer, "err")
  /\ SetErr(errTimer, IF errString \subseteq {errTimer} THEN "own" ELSE "foreign")
  /\ ResetWriter(errTimer, "error")
  /\ errString' = {} /\ errTimer' = None
  /\ UNCHANGED <<plan, procVars, connected, callVars, query, started, cancelled, watcher, broken,
                 writing, eofTimer, histVars>>

EofFires ==
  /\ eofTimer # None /\ Unlocked /\ InTime(stderr, eofTimer, "err")
  /\ ResetWriter(eofTimer, "eof")
  /\ eofTimer' = None
  /\ UNCHANGED <<plan, procVars, connected, callVars, query, started, err, cancelled, watcher, broken,
                 writing, errString, errTimer, histVars>>

-----------------------------------------------------------------------------
(* The watcher of a query, newQuery; finish stops it unless it has decided. *)

Cancel ==
  /\ query \in plan.cancels /\ result[query] = "none" /\ ~cancelled[query]
  /\ cancelled' = [cancelled EXCEPT ![query] = TRUE]
  /\ UNCHANGED <<plan, procVars, connected, callVars, query, started, done, err, writer, watcher,
                 scanVars, histVars>>

\* Nothing printed for the whole stall timeout: the process hangs, or has nothing to do.
Stalled ==
  /\ plan.stall
  /\ proc = "hung" \/ (stdin = <<>> /\ (stdout = <<>> \/ broken) /\ stderr = <<>> /\ Unlocked
                        /\ errTimer = None /\ eofTimer = None)

\* What makes a watcher abort its query; and a faulty variant.
SilentOnly(q) == cancelled[q] \/ (~done[q] /\ Stalled)
Abortable(q) == cancelled[q] \/ (~done[q] /\ (Stalled \/ Exited \/ broken))

WatcherDecides(q) ==
  /\ watcher[q] = "on" /\ Abortable(q)
  /\ watcher' = [watcher EXCEPT ![q] = "decided"]
  /\ UNCHANGED <<plan, procVars, connected, callVars, query, started, done, err, writer, cancelled,
                 scanVars, histVars>>

\* abortQuery: the caller may see the error, and that the session is not connected,
\* before the process is killed.
WatcherAborts(q) ==
  \/ /\ watcher[q] = "decided" /\ SetErr(q, "abort")
     /\ watcher' = [watcher EXCEPT ![q] = "closing"]
     /\ UNCHANGED <<plan, procVars, connected, callVars, query, started, done, writer, cancelled,
                    scanVars, histVars>>
  \/ /\ watcher[q] = "closing" /\ CloseWriter(q, "error") /\ Disconnect
     /\ watcher' = [watcher EXCEPT ![q] = "killing"]
     /\ UNCHANGED <<plan, procVars, callVars, query, started, done, err, cancelled, scanVars, histVars>>
  \/ /\ watcher[q] = "killing" /\ Kill
     /\ watcher' = [watcher EXCEPT ![q] = "off"]
     /\ UNCHANGED <<plan, stdout, stderr, ran, connected, callVars, query, started, done, err, writer,
                    cancelled, scanVars, histVars>>

-----------------------------------------------------------------------------
(* The caller.                                                              *)

\* The fields of a new duckDbQuery.
NewQuery(q) ==
  /\ query' = q
  /\ started' = [started EXCEPT ![q] = FALSE] /\ done' = [done EXCEPT ![q] = FALSE]
  /\ err' = [err EXCEPT ![q] = "none"] /\ writer' = [writer EXCEPT ![q] = "open"]
  /\ UNCHANGED cancelled

Finish(q) == watcher' = [watcher EXCEPT ![q] = IF @ = "on" THEN "off" ELSE @]

\* The caller goes on to the next query, and closes the session after the last.
GoOn == IF want = Len(plan.queries) THEN "close" ELSE "idle"
Answer(how) ==
  /\ result' = [result EXCEPT ![want] = how]
  /\ want' = want + 1 /\ pc' = GoOn /\ attempts' = 0

\* The scanner of the old process is through, has stopped, or stays behind in a Write
\* that nobody reads.
OldScannerGone ==
  IF Unlocked THEN (stdout = <<>> \/ broken) /\ stderr = <<>> ELSE writer[out] = "open"

\* openOnce: a new process, with a scanner of its own, runs query 0.  A watcher of
\* an earlier query that is late kills the new process, and the session stays connected
\* to it (early).
Open ==
  /\ pc = "idle" /\ ~connected /\ left = None
  /\ OldScannerGone /\ proc \notin {"alive", "hung"} /\ 0 \notin Aborting
  /\ \E setup \in CASE plan.setup = "ok" -> {<<>>} [] plan.setup = "fails" -> {<<"err">>}
                    [] plan.setup = "locked" -> {<<>>, <<"err">>} :
       stdin' = Sent(0, setup)
  /\ proc' = "alive" /\ stdout' = <<>> /\ stderr' = <<>>
  /\ connected' = TRUE /\ attempts' = attempts + 1
  /\ NewQuery(0) /\ watcher' = [watcher EXCEPT ![0] = "on"]
  /\ ran' = [ran EXCEPT ![0] = <<>>] /\ got' = [got EXCEPT ![0] = <<>>] /\ broken' = FALSE
  /\ out' = None /\ writing' = NoLine /\ errString' = {} /\ errTimer' = None /\ eofTimer' = None
  /\ pc' = "check"
  /\ early' = IF Aborting # {} THEN early \cup (want..MaxQ) ELSE early
  /\ UNCHANGED <<plan, want, result, read, left, hurt, seen>>

\* No binary or no process: openOnce fails before anything is sent.
OpenFails ==
  /\ pc = "idle" /\ ~connected /\ plan.scarce
  /\ Answer("err") /\ hurt' = hurt \cup {want}
  /\ UNCHANGED <<plan, procVars, connected, read, got, left, fieldVars, scanVars, early, seen>>

\* "Conflicting lock", and attempts are left.
MayRetry == plan.setup = "locked" /\ err[0] = "own" /\ attempts < MaxAttempts

\* A query returns: query 0 to Open, which tries again or gives up, others to the
\* caller.  aborted: it is not done, and its process is killed (Kills).
Return(how, aborted) ==
  LET opened == query = 0 /\ how = "ok"
      again == query = 0 /\ how = "err" /\ MayRetry
      answered == ~opened /\ ~again
  IN
  /\ result' = IF answered THEN [result EXCEPT ![query] = how, ![want] = how]
                           ELSE [result EXCEPT ![0] = how]
  /\ want' = IF answered THEN want + 1 ELSE want
  /\ attempts' = IF again THEN attempts ELSE 0
  /\ pc' = IF again \/ aborted THEN "kill" ELSE IF opened THEN "submit" ELSE GoOn
  /\ IF again \/ aborted THEN Disconnect ELSE UNCHANGED connected
  /\ IF aborted THEN UNCHANGED watcher ELSE Finish(query)
  /\ UNCHANGED <<plan, procVars, read, left, query, started, done, cancelled, broken, errString,
                 errTimer, eofTimer, histVars>>

\* The rest of kill, and what follows it.
Kills ==
  /\ pc = "kill" /\ Kill /\ Finish(query)
  /\ pc' = IF want > Len(plan.queries) THEN "close" ELSE "idle"
  /\ UNCHANGED <<plan, stdout, stderr, ran, connected, attempts, want, result, read, got, left, query,
                 started, done, err, writer, cancelled, scanVars, histVars>>

\* An earlier query can still be aborted, its start marker be taken for this one's,
\* or its error keep this one's end marker from counting.
Unfinished ==
  \/ Aborting # {}
  \/ \E q \in Query : Has(stdin, q, "sof") \/ Has(stdout, q, "sof")
  \/ errString # {}

\* newQuery, the named pipe and SubmitSQL, which fails once the process has exited;
\* connected is not looked at again after Open.
Submit ==
  /\ pc = "submit" \/ (pc = "idle" /\ connected)
  /\ left = None
  /\ NewQuery(want)
  /\ early' = IF Unfinished THEN early \cup {want} ELSE early
  /\ \/ /\ plan.queries[want].kind = "select" /\ plan.scarce
        /\ Answer("err") /\ hurt' = hurt \cup {want}
        /\ UNCHANGED <<stdin, watcher>>
     \/ /\ Exited
        /\ Answer("err")
        /\ UNCHANGED <<stdin, watcher, hurt>>
     \/ /\ ~Exited
        /\ stdin' = stdin \o Sent(want, <<>>)
        /\ watcher' = [watcher EXCEPT ![want] = "on"]
        /\ pc' = CASE plan.queries[want].kind = "exec" -> "check"
                   [] plan.queries[want].kind = "print" -> "sample"
                   [] plan.queries[want].kind = "select" -> "output"
        /\ hurt' = IF proc = "hung" \/ broken THEN hurt \cup {want} ELSE hurt
        /\ UNCHANGED <<result, want, attempts>>
  /\ UNCHANGED <<plan, proc, stdout, stderr, ran, connected, read, got, left, scanVars, seen>>

\* waitForResult looks at the error and then, in another step, at done; and a faulty
\* variant.
LooksAtDone ==
  /\ pc' = "checkDone" /\ seen' = [seen EXCEPT ![query] = err[query]]
  /\ UNCHANGED <<plan, procVars, connected, attempts, want, result, read, got, left, fieldVars,
                 scanVars, hurt, early>>
DoneOnly == pc = "check" /\ LooksAtDone
Check ==
  /\ pc = "check"
  /\ \/ /\ err[query] # "none"
        /\ Return("err", FALSE)
        /\ UNCHANGED <<got, err, writer, out, writing>>
     \/ /\ err[query] = "none"
        /\ LooksAtDone

CheckDone ==
  /\ pc = "checkDone"
  /\ \/ /\ done[query]
        /\ Return("ok", FALSE)
        /\ UNCHANGED <<got, err, writer, out, writing>>
     \/ /\ ~done[query]
        /\ pc' = IF started[query] THEN "readLine" ELSE "check"
        /\ UNCHANGED <<plan, procVars, connected, attempts, want, result, read, got, left, fieldVars,
                       scanVars, histVars>>

\* The reader of the stdout pipe: the caller of an exec or a print, or what
\* waits for the end of a select.
TakeLine ==
  /\ ~Unlocked /\ out = query /\ writer[out] = "open"
  /\ pc \in {"readLine", "sample", "rows", "drain"}
  /\ got' = [got EXCEPT ![out] = Append(@, writing.of)]
  /\ writing' = NoLine
  /\ UNCHANGED <<plan, procVars, connected, attempts, pc, want, result, read, left, fieldVars, broken,
                 out, errString, errTimer, eofTimer, histVars>>

\* The caller goes on in another place, with nothing else changed.
GoesTo(place) ==
  /\ pc' = place
  /\ UNCHANGED <<plan, procVars, connected, attempts, want, result, read, got, left, fieldVars,
                 scanVars, histVars>>

\* The pipe of stdout was closed.  The datastream of a print that is not done is
\* aborted when it closes.
LinesEnd ==
  /\ pc = "readLine" \/ (pc = "sample" /\ StatementOf(query).kind = "print")
  /\ writer[query] # "open"
  /\ IF writer[query] = "eof" /\ StatementOf(query).kind = "exec"
     THEN GoesTo("check")
     ELSE /\ Return(IF writer[query] = "eof" /\ err[query] = "none" THEN "ok" ELSE "err",
                    StatementOf(query).kind = "print" /\ ~done[query])
          /\ UNCHANGED <<got, err, writer, out, writing>>

\* StreamContext looks for an error that came while the output was opened; the query
\* is given up as it is.
OutputOpens ==
  /\ pc = "output"
  /\ IF err[query] = "none"
     THEN GoesTo("sample")
     ELSE Return("err", FALSE) /\ UNCHANGED <<got, err, writer, out, writing>>

ReadRow ==
  /\ pc \in {"sample", "rows", "drain"} /\ read[query] < Rows(ran[query])
  /\ read' = [read EXCEPT ![query] = @ + 1]
  /\ UNCHANGED <<plan, procVars, connected, attempts, pc, want, result, got, left, fieldVars, scanVars,
                 histVars>>

\* The datastream has its sample, and StreamContext looks at the error once more: it
\* then returns the error, with a datastream that nobody reads and nobody closes.
\* Only a cancelled one closes itself.
Sampled ==
  /\ pc = "sample" /\ read[query] + Len(got[query]) >= Sample
  /\ \/ /\ err[query] = "none"
        /\ GoesTo(IF StatementOf(query).kind = "print" THEN "readLine" ELSE "rows")
     \/ /\ err[query] # "none" /\ cancelled[query]
        /\ Return("err", ~done[query])
        /\ UNCHANGED <<got, err, writer, out, writing>>
     \/ /\ err[query] # "none" /\ ~cancelled[query]
        /\ Answer("err") /\ left' = query
        /\ UNCHANGED <<plan, procVars, connected, read, got, fieldVars, scanVars, histVars>>

\* EOF of the named pipe: no row is left, the COPY has ended or its process is
\* gone, and the spare write end was closed after the pipe of stdout.
AtEOF(q) ==
  /\ read[q] = Rows(ran[q]) /\ writer[q] # "open"
  /\ Exited \/ ~\E w \in {"sof", "row", "err"} : Has(stdin, q, w)

\* duckOutputReader gives the query's error at the end, within the sample or after
\* it, and the datastream closes.
RowsEnd ==
  /\ pc \in {"sample", "rows"} /\ StatementOf(query).kind = "select" /\ AtEOF(query)
  /\ Return(IF err[query] = "none" THEN "ok" ELSE "err", ~done[query])
  /\ UNCHANGED <<got, err, writer, out, writing>>

\* The consumer closes the datastream before the end.
StopReading ==
  /\ pc = "rows" /\ plan.stops
  /\ GoesTo("drain")

\* The rest was read, or 2 s are over: what is not done is aborted.
DrainEnds ==
  /\ pc = "drain"
  /\ IF done[query]
     THEN UNCHANGED <<err, writer>>
     ELSE SetErr(query, "abort") /\ CloseWriter(query, "error")
  /\ Return("stopped", ~done[query])
  /\ UNCHANGED <<got, out, writing>>

\* Close: a process that hangs is waited for without a limit.
Close ==
  /\ pc = "close" /\ proc # "hung"
  /\ pc' = "end"
  /\ IF proc = "none" \/ Exited
     THEN UNCHANGED <<connected, proc, stdin>>
     ELSE connected' = FALSE /\ proc' = "killed" /\ stdin' = <<>>
  /\ UNCHANGED <<plan, stdout, stderr, ran, attempts, want, result, read, got, left, fieldVars,
                 scanVars, histVars>>

-----------------------------------------------------------------------------
Caller == \/ Open \/ OpenFails \/ Kills \/ Submit \/ Check \/ CheckDone \/ TakeLine \/ LinesEnd
          \/ OutputOpens \/ ReadRow \/ Sampled \/ RowsEnd \/ DrainEnds \/ Close
Scanner == ScanOut \/ ScanStops \/ ScanErr \/ WriteFails
Watcher(q) == WatcherDecides(q) \/ WatcherAborts(q)

Next ==
  \/ Works
  \/ Dies("dead")
  \/ Dies("hung")
  \/ ScanOut
  \/ ScanStops
  \/ ScanErr
  \/ WriteFails
  \/ ErrFires
  \/ EofFires
  \/ Cancel
  \/ \E q \in Query : WatcherDecides(q)
  \/ \E q \in Query : WatcherAborts(q)
  \/ Open
  \/ OpenFails
  \/ Kills
  \/ Submit
  \/ Check
  \/ CheckDone
  \/ TakeLine
  \/ LinesEnd
  \/ OutputOpens
  \/ ReadRow
  \/ Sampled
  \/ RowsEnd
  \/ StopReading
  \/ DrainEnds
  \/ Close

\* The process goes on with what it was given, goroutines run and timers fire;
\* nobody has to cancel, to stop reading, to die or to hang.
Fairness ==
  /\ WF_vars(Works) /\ WF_vars(Scanner) /\ WF_vars(ErrFires) /\ WF_vars(EofFires)
  /\ WF_vars(Caller) /\ \A q \in Query : WF_vars(Watcher(q))

Spec == Init /\ [][Next]_vars /\ Fairness

-----------------------------------------------------------------------------
(* Properties                                                               *)

\* The set-up of the running session had no error.
OpenedWell == err[0] = "none"

Body(q) == <<"sof">> \o StatementOf(q).does \o <<"eof">>

\* The error of an exec was set after waitForResult had looked for it and before it
\* looked at done.
ErrorMissed(q) == StatementOf(q).kind = "exec" /\ seen[q] = "none" /\ err[q] # "none"

\* The scanner ended a cancelled query, which gets its error from the watcher, later.
EndedByCancel(q) == cancelled[q] /\ writer[q] = "error" /\ err[q] = "none"

\* What waitForResult and duckOutputReader promise ("a query that fails mid-stream is
\* an error and not a short result"): a query that returns without an error has run
\* whole, none of its statements failed, and the reader of a SELECT has every row.
\* The code does not keep this for ErrorMissed and EndedByCancel, for a query sent while
\* an earlier one was unfinished, and for a session whose opening failed and that is used
\* all the same.
SuccessMeansExecuted ==
  [][\A q \in Query \ (early \cup {0}) :
       result[q] = "none" /\ result'[q] = "ok" /\ OpenedWell
         /\ ~ErrorMissed(q) /\ ~EndedByCancel(q) =>
         /\ ran[q] = Body(q)
         /\ \A i \in 1..Len(ran[q]) : ran[q][i] # "err"
         /\ StatementOf(q).kind = "select" => read[q] = Rows(ran[q])]_vars

\* A query that may fail again after its caller has the first error, or gave up.
RunsOn(q) ==
  \/ cancelled[q]
  \/ \E i, j \in 1..Len(StatementOf(q).does) :
       i < j /\ StatementOf(q).does[i] = "err" /\ StatementOf(q).does[j] = "err"

\* The queries of a session do not disturb each other: the lines a query reads are
\* its own, and it fails only for a reason of its own: a statement of it failed, it
\* was cancelled, or the process died, hung or was no longer
\* read under it, or it or the named pipe could not be made.  What killed an earlier query
\* must not reach the next one, which opens a new process (kill).  The one error of
\* another query that may reach it is that of a statement list which ran on after the
\* caller had its answer.  Not promised to a query sent while an earlier one was
\* unfinished, or after the opening failed.
OwnOutcome ==
  [][\A q \in Query \ (early' \cup {0}) : OpenedWell =>
       /\ Len(got'[q]) > Len(got[q]) => got'[q] = Append(got[q], q)
       /\ result[q] = "none" /\ result'[q] = "err" =>
            \/ \E i \in 1..Len(StatementOf(q).does) : StatementOf(q).does[i] = "err"
            \/ cancelled[q] \/ q \in hurt' \/ proc = "dead"
            \/ err[q] = "foreign" /\ \E p \in 1..(q - 1) : RunsOn(p)]_vars

\* Every query returns: the comment of newQuery's watcher, "Otherwise
\* ConsumeCsvReader blocks forever".  A process that died or fell silent, a scanner
\* that stopped, a full pipe that nobody reads and a line that nobody takes do not hold
\* the session.  A datastream that is returned with an error and never closed does.
QueriesReturn == <>(pc \in {"close", "end"} \/ left # None)
=============================================================================
