--------------------------- MODULE ApiQueue_proofs ---------------------------
(***************************************************************************)
(* Proofs about ApiQueue, for any streams, processes, items and             *)
(* dependencies: while one process writes the queue, what a consumer has    *)
(* been given are its lines.                                                *)
(***************************************************************************)
EXTENDS ApiQueue, FiniteSetTheorems, SequenceTheorems, TLAPS

-----------------------------------------------------------------------------
(* The inductive invariant.                                                 *)

\* A line ends at cell n, or nothing precedes.
Boundary(cells, n) == n \in 0..Len(cells) /\ (n = 0 \/ cells[n].end)

\* The records are the lines of the first n cells.
Through(cells, records, n) ==
  /\ Len(records) = LinesIn(cells, n)
  /\ \A k \in 1..n : cells[k].end => records[LinesIn(cells, k)] = Record(cells[k].item, TRUE)

Active(s) == pc[s] # "idle" /\ ~HasEnded(s)

\* Where a stream of each kind may be.
Places ==
  /\ \A s \in Stream : pc[s] # "idle" => s \in Streams
  /\ \A s \in Of("producer") : pc[s] \in {"idle", "append", "half", "mark", "teardown", "ok", "failed"}
  /\ \A s \in Of("deferred") : pc[s] \in {"idle", "reset", "next", "ok", "failed"}
  /\ \A s \in Of("immediate") : pc[s] \in {"idle", "read", "eof", "wait"} \cup Ended

\* The streams of a process take turns, and have its Queue.
Turns ==
  /\ \A s, t \in Streams : plan.process[s] = plan.process[t] /\ Active(s) /\ Active(t) => s = t
  /\ \A s \in Streams : Active(s) => mode[plan.process[s]] \in {"writing", "reading"}
  /\ \A s \in Streams : pc[s] = "next" => mode[plan.process[s]] = "reading"
  /\ \A s \in Streams : mode[plan.process[s]] = "closed" => HasEnded(s)
  /\ \A p \in Process : mode[p] # "none" => \E s \in Streams : plan.process[s] = p

\* Lines are written one after the other; the last one is unfinished while its producer
\* is between its two parts.
FileOk ==
  Intact =>
    /\ \A k \in 1..Len(file) : file[k].start <=> Boundary(file, k - 1)
    /\ Boundary(file, Len(file)) <=> ~\E s \in Streams : pc[s] = "half"

\* Who is in the middle of a line has written; and while no two processes have, the one
\* that has writes at the end of the file.
Written ==
  /\ \A s \in Streams : pc[s] = "half" => wpos[plan.process[s]] > 0
  /\ Intact => /\ \A p \in Process : wpos[p] \in {0, Len(file)}
               /\ Len(file) > 0 => \E p \in Process : wpos[p] > 0

\* No producer appends any more, whatever it still has.
NoneAppends(c) ==
  \A s \in Of("producer") :
    \/ HasEnded(s)
    \/ /\ plan.process[s] = plan.process[c] /\ pc[s] # "half"
       /\ mode[plan.process[s]] \in {"reading", "closed"}

\* How far a tailing reader may have read.
InFile ==
  ~Closed => \A c \in Of("immediate") :
    ~HasEnded(c) => pos[c] \in 0..Len(file) /\ line[c] \in 0..pos[c]

\* Every producer has written the sentinel.
AllDone == Of("producer") \subseteq done

\* What a consumer has been given, and where it goes on.
GivenTo(c) ==
  /\ \E n \in 0..Len(file) : Through(file, got[c], n) /\ (pc[c] = "ok" => n = Len(file))
  /\ pc[c] \in {"idle", "reset"} => got[c] = <<>>
  /\ pc[c] = "next" => LET n == rpos[plan.process[c]]
                       IN Boundary(file, n) /\ Through(file, got[c], n)
  /\ pc[c] = "idle" => pos[c] = 0
  /\ pc[c] \in {"idle", "read", "wait"} => line[c] = 0
  /\ pc[c] \in {"read", "wait", "eof"} =>
       Boundary(file, pos[c] - line[c]) /\ Through(file, got[c], pos[c] - line[c])
  /\ pc[c] = "eof" /\ AllDone => line[c] = 0 /\ pos[c] = Len(file)

Given == Intact => \A c \in Consumers \ late : GivenTo(c)

\* When it is at its end, nothing follows.
Finished ==
  ~Closed =>
    /\ \A c \in Of("deferred") : pc[c] \in {"next", "ok"} => NoneAppends(c)
    /\ \A c \in Of("deferred"), s \in Of("producer") :
         plan.process[s] # plan.process[c] /\ pc[c] # "idle" => HasEnded(s)
    /\ \A c \in Of("immediate") \ late : pc[c] = "ok" => AllDone
    /\ \A s \in done : pc[s] \in {"teardown", "ok", "failed"}

\* Every process has ended its streams when the file is removed.
AllOver == Closed => \A s \in Streams : HasEnded(s)

QueueInv ==
  TypeOK /\ Places /\ Turns /\ AllOver /\ Written /\ FileOk /\ InFile /\ Finished /\ Given

-----------------------------------------------------------------------------
(* Lines.                                                                   *)

LineCell == [item : Stream \X Nat, start : BOOLEAN, end : BOOLEAN]

\* A set of naturals that is not empty has a least element.
LEMMA LeastNat ==
  ASSUME NEW S \in SUBSET Nat, S # {}
  PROVE  \E n \in S : \A m \in S : n <= m
<1>1. IsWellFoundedOn({p \in Nat \X Nat : p[1] < p[2]}, Nat)
  BY NatLessThanWellFounded DEF OpToRel
<1>2. PICK n \in S : \A m \in S : <<m, n>> \notin {p \in Nat \X Nat : p[1] < p[2]}
  BY <1>1, WFMin, Zenon
<1>3. n \in Nat
  OBVIOUS
<1>4. ASSUME NEW m \in S PROVE n <= m
  <2>1. m \in Nat /\ <<m, n>> \in Nat \X Nat
    BY <1>3
  <2>2. ~(m < n)
    BY <1>2, <2>1
  <2> QED
    BY <1>3, <2>1, <2>2
<1> QED
  BY <1>4

\* How the number of lines grows from cell to cell.
LEMMA LinesInStep ==
  ASSUME NEW cells, NEW n \in Nat
  PROVE  /\ IsFiniteSet({k \in 1..n : cells[k].end})
         /\ LinesIn(cells, n) \in Nat /\ LinesIn(cells, 0) = 0
         /\ LinesIn(cells, n + 1) = IF cells[n + 1].end THEN LinesIn(cells, n) + 1 ELSE LinesIn(cells, n)
<1> DEFINE S == {k \in 1..n : cells[k].end}
<1>1. IsFiniteSet(S)
  <2>1. IsFiniteSet(1..n)
    BY FS_Interval
  <2> QED
    BY <2>1, FS_Subset
<1>2. LinesIn(cells, n) = Cardinality(S) /\ Cardinality(S) \in Nat
  BY <1>1, FS_CardinalityType DEF LinesIn
<1>3. LinesIn(cells, 0) = 0
  <2>1. {k \in 1..0 : cells[k].end} = {}
    OBVIOUS
  <2> QED
    BY <2>1, FS_EmptySet DEF LinesIn
<1>4. LinesIn(cells, n + 1) = IF cells[n + 1].end THEN LinesIn(cells, n) + 1 ELSE LinesIn(cells, n)
  <2>1. LinesIn(cells, n + 1) = Cardinality({k \in 1..(n + 1) : cells[k].end})
    BY DEF LinesIn
  <2>2. CASE cells[n + 1].end
    <3>1. {k \in 1..(n + 1) : cells[k].end} = S \cup {n + 1}
      BY <2>2
    <3>2. n + 1 \notin S
      OBVIOUS
    <3>3. Cardinality(S \cup {n + 1}) = Cardinality(S) + 1
      BY <1>1, <3>2, FS_AddElement
    <3> QED
      BY <1>2, <2>1, <2>2, <3>1, <3>3
  <2>3. CASE ~cells[n + 1].end
    <3>1. {k \in 1..(n + 1) : cells[k].end} = S
      BY <2>3
    <3> QED
      BY <1>2, <2>1, <2>3, <3>1
  <2> QED
    BY <2>2, <2>3
<1> QED
  BY <1>1, <1>2, <1>3, <1>4

\* It never falls, rises at the end of a line and is the same up to the next one.
LEMMA LinesInOrder ==
  ASSUME NEW cells, NEW m \in Nat, NEW n \in Nat, m <= n
  PROVE  /\ LinesIn(cells, m) <= LinesIn(cells, n)
         /\ m < n /\ cells[n].end => LinesIn(cells, m) < LinesIn(cells, n)
         /\ (\A k \in (m + 1)..n : ~cells[k].end) => LinesIn(cells, m) = LinesIn(cells, n)
<1>1. ASSUME NEW i \in Nat, m <= i PROVE LinesIn(cells, m) <= LinesIn(cells, i)
  <2>1. {k \in 1..m : cells[k].end} \in SUBSET {k \in 1..i : cells[k].end}
    BY <1>1
  <2>2. IsFiniteSet({k \in 1..i : cells[k].end})
    BY LinesInStep
  <2> QED
    BY <2>1, <2>2, FS_Subset DEF LinesIn
<1>2. ASSUME m < n, cells[n].end PROVE LinesIn(cells, m) < LinesIn(cells, n)
  <2>1. n - 1 \in Nat /\ m <= n - 1 /\ (n - 1) + 1 = n
    BY <1>2
  <2>2. LinesIn(cells, m) <= LinesIn(cells, n - 1)
    BY <1>1, <2>1
  <2>3. LinesIn(cells, (n - 1) + 1) = LinesIn(cells, n - 1) + 1 /\ LinesIn(cells, n - 1) \in Nat
    BY <1>2, <2>1, LinesInStep
  <2>4. LinesIn(cells, m) \in Nat
    BY LinesInStep
  <2> QED
    BY <2>1, <2>2, <2>3, <2>4
<1>3. ASSUME \A k \in (m + 1)..n : ~cells[k].end PROVE LinesIn(cells, m) = LinesIn(cells, n)
  <2>1. {k \in 1..m : cells[k].end} = {k \in 1..n : cells[k].end}
    BY <1>3
  <2> QED
    BY <2>1 DEF LinesIn
<1> QED
  BY <1>1, <1>2, <1>3

\* The i-th line ends somewhere.
LEMMA LineEndsAt ==
  ASSUME NEW cells, NEW n \in Nat, NEW i \in 1..LinesIn(cells, n)
  PROVE  \E k \in 1..n : cells[k].end /\ LinesIn(cells, k) = i
<1> DEFINE S == {k \in 0..n : LinesIn(cells, k) >= i}
<1>1. LinesIn(cells, n) \in Nat /\ n \in S
  <2>1. LinesIn(cells, n) \in Nat
    BY LinesInStep
  <2> QED
    BY <2>1
<1>2. PICK k \in S : \A m \in S : k <= m
  <2>1. S \in SUBSET Nat /\ S # {}
    BY <1>1
  <2> QED
    BY <2>1, LeastNat
<1>3. k # 0
  <2>1. LinesIn(cells, 0) = 0
    BY LinesInStep
  <2> QED
    BY <1>1, <1>2, <2>1
<1>4. k - 1 \in Nat /\ k - 1 \in 0..n /\ (k - 1) + 1 = k
  BY <1>2, <1>3
<1>5. LinesIn(cells, k - 1) \in Nat /\ LinesIn(cells, k - 1) < i
  <2>1. LinesIn(cells, k - 1) \in Nat
    BY <1>4, LinesInStep
  <2>2. k - 1 \notin S
    BY <1>2, <1>4
  <2> QED
    BY <1>1, <1>4, <2>1, <2>2
<1>6. LinesIn(cells, (k - 1) + 1) =
        IF cells[(k - 1) + 1].end THEN LinesIn(cells, k - 1) + 1 ELSE LinesIn(cells, k - 1)
  BY <1>4, LinesInStep
<1> QED
  BY <1>1, <1>2, <1>3, <1>4, <1>5, <1>6

\* A cell that is appended leaves the lines before it.
LEMMA AppendKeepsLines ==
  ASSUME NEW cells \in Seq(LineCell), NEW x, NEW n \in 0..Len(cells), NEW records
  PROVE  /\ LinesIn(Append(cells, x), n) = LinesIn(cells, n)
         /\ Boundary(Append(cells, x), n) <=> Boundary(cells, n)
         /\ Through(cells, records, n) => Through(Append(cells, x), records, n)
<1>1. /\ \A k \in 1..Len(cells) : Append(cells, x)[k] = cells[k]
      /\ Len(cells) \in Nat /\ Len(Append(cells, x)) = Len(cells) + 1
  OBVIOUS
<1> DEFINE more == Append(cells, x)
<1> HIDE DEF more
<1>2. \A k \in 1..Len(cells) : more[k] = cells[k]
  BY <1>1 DEF more
<1>3. ASSUME NEW i \in 0..Len(cells) PROVE LinesIn(more, i) = LinesIn(cells, i)
  <2>1. {k \in 1..i : more[k].end} = {k \in 1..i : cells[k].end}
    BY <1>1, <1>2
  <2> QED
    BY <2>1 DEF LinesIn
<1>4. Boundary(more, n) <=> Boundary(cells, n)
  BY <1>1, <1>2 DEF Boundary, more
<1>5. Through(cells, records, n) => Through(more, records, n)
  <2> SUFFICES ASSUME Through(cells, records, n) PROVE Through(more, records, n)
    OBVIOUS
  <2>1. ASSUME NEW k \in 1..n, more[k].end
        PROVE  records[LinesIn(more, k)] = Record(more[k].item, TRUE)
    <3>1. k \in 0..Len(cells) /\ more[k] = cells[k]
      BY <1>1, <1>2
    <3> QED
      BY <1>3, <2>1, <3>1 DEF Through
  <2> QED
    BY <1>3, <2>1 DEF Through
<1> QED
  BY <1>3, <1>4, <1>5 DEF more

\* What is where in a sequence that something was appended to.
LEMMA AppendAt ==
  ASSUME NEW S, NEW q \in Seq(S), NEW x
  PROVE  /\ Append(q, x)[Len(q) + 1] = x /\ Len(Append(q, x)) = Len(q) + 1
         /\ \A j \in 1..Len(q) : Append(q, x)[j] = q[j]
OBVIOUS

\* The next line's record goes behind those of the lines before it.
LEMMA ThroughNext ==
  ASSUME NEW cells \in Seq(LineCell), NEW S, NEW records \in Seq(S),
         NEW n \in Nat, NEW k \in (n + 1)..Len(cells), Through(cells, records, n),
         cells[k].end, \A j \in (n + 1)..(k - 1) : ~cells[j].end,
         NEW record, record = Record(cells[k].item, TRUE)
  PROVE  Through(cells, Append(records, record), k)
<1>1. k \in Nat /\ k - 1 \in Nat /\ n <= k - 1 /\ (k - 1) + 1 = k
  OBVIOUS
<1>2. /\ LinesIn(cells, k - 1) = LinesIn(cells, n)
      /\ LinesIn(cells, (k - 1) + 1) = LinesIn(cells, k - 1) + 1
  BY <1>1, LinesInOrder, LinesInStep
<1>3. LinesIn(cells, n) \in Nat /\ Len(records) = LinesIn(cells, n)
  BY LinesInStep DEF Through
<1>4. Len(Append(records, record)) = LinesIn(cells, k)
  BY <1>1, <1>2, <1>3
<1>5. ASSUME NEW i \in 1..k, cells[i].end
      PROVE  Append(records, record)[LinesIn(cells, i)] = Record(cells[i].item, TRUE)
  <2> DEFINE more == Append(records, record)
  <2>0. /\ more[Len(records) + 1] = record
        /\ \A j \in 1..Len(records) : more[j] = records[j]
    <3>1. records \in Seq(S)
      OBVIOUS
    <3>2. more[Len(records) + 1] = record
      BY <3>1, AppendAt
    <3>3. \A j \in 1..Len(records) : more[j] = records[j]
      BY <3>1, AppendAt
    <3> QED
      BY <3>2, <3>3
  <2>1. CASE i = k
    BY <1>1, <1>2, <1>3, <2>0, <2>1
  <2>2. CASE i # k
    <3>1. i \in 1..n
      BY <1>5, <2>2
    <3>2. LinesIn(cells, i) \in 1..Len(records)
      <4>1. LinesIn(cells, i) <= LinesIn(cells, n) /\ LinesIn(cells, 0) < LinesIn(cells, i)
        BY <1>5, <3>1, LinesInOrder
      <4>2. i \in Nat
        BY <3>1
      <4>3. LinesIn(cells, 0) = 0 /\ LinesIn(cells, i) \in Nat
        BY <4>2, LinesInStep
      <4> QED
        BY <1>3, <4>1, <4>3
    <3>3. records[LinesIn(cells, i)] = Record(cells[i].item, TRUE)
      BY <1>5, <3>1 DEF Through
    <3> QED
      BY <2>0, <3>2, <3>3
  <2> QED
    BY <2>1, <2>2
<1> QED
  BY <1>4, <1>5 DEF Through

\* Records of the lines of the first cells are the first lines, and all lines if no cell
\* is left.
LEMMA ThroughIsPrefix ==
  ASSUME NEW cells \in Seq(LineCell), NEW S, NEW records \in Seq(S),
         NEW n \in 0..Len(cells), Through(cells, records, n)
  PROVE  /\ Len(records) <= Len(LinesOf(cells))
         /\ \A i \in 1..Len(records) : records[i] = LinesOf(cells)[i]
         /\ n = Len(cells) => records = LinesOf(cells)
<1> DEFINE all == LinesIn(cells, Len(cells))
<1>1. n \in Nat /\ Len(cells) \in Nat /\ all \in Nat /\ Len(records) \in Nat
  <2>1. Len(cells) \in Nat /\ n \in Nat /\ Len(records) \in Nat
    OBVIOUS
  <2> QED
    BY <2>1, LinesInStep
<1>2. Len(records) = LinesIn(cells, n) /\ Len(records) <= all
  BY <1>1, LinesInOrder DEF Through
<1>3. /\ DOMAIN LinesOf(cells) = 1..all
      /\ \A i \in 1..all : LinesOf(cells)[i] =
           Record(cells[CHOOSE k \in 1..Len(cells) : cells[k].end /\ LinesIn(cells, k) = i].item, TRUE)
  BY DEF LinesOf
<1>4. Len(LinesOf(cells)) = all
  BY <1>1, <1>3
<1>5. ASSUME NEW i \in 1..Len(records) PROVE records[i] = LinesOf(cells)[i]
  <2> DEFINE k == CHOOSE k \in 1..Len(cells) : cells[k].end /\ LinesIn(cells, k) = i
  <2>1. \E j \in 1..Len(cells) : cells[j].end /\ LinesIn(cells, j) = i
    BY <1>1, <1>2, LineEndsAt
  <2>2. k \in 1..Len(cells) /\ cells[k].end /\ LinesIn(cells, k) = i
    BY <2>1
  <2> HIDE DEF k
  <2>3. k <= n
    <3>1. ASSUME n < k PROVE FALSE
      <4>1. LinesIn(cells, n) < LinesIn(cells, k)
        BY <1>1, <2>2, <3>1, LinesInOrder
      <4> QED
        BY <1>1, <1>2, <2>2, <4>1
    <3> QED
      BY <1>1, <2>2, <3>1
  <2>4. records[i] = Record(cells[k].item, TRUE)
    <3>1. k \in 1..n
      BY <1>1, <2>2, <2>3
    <3> QED
      BY <2>2, <3>1 DEF Through
  <2>5. LinesOf(cells)[i] = Record(cells[k].item, TRUE)
    <3>1. i \in 1..all
      BY <1>1, <1>2
    <3> QED
      BY <1>3, <3>1 DEF k
  <2> QED
    BY <2>4, <2>5
<1>6. n = Len(cells) => records = LinesOf(cells)
  <2> SUFFICES ASSUME n = Len(cells) PROVE records = LinesOf(cells)
    OBVIOUS
  <2>1. Len(records) = all
    BY <1>2
  <2>2. records = [i \in 1..all |-> records[i]]
    BY <2>1
  <2>3. LinesOf(cells) = [i \in 1..all |-> LinesOf(cells)[i]]
    BY <1>3 DEF LinesOf
  <2>4. \A i \in 1..all : records[i] = LinesOf(cells)[i]
    BY <1>5, <2>1
  <2>5. [i \in 1..all |-> records[i]] = [i \in 1..all |-> LinesOf(cells)[i]]
    BY <2>4
  <2> QED
    BY <2>2, <2>3, <2>5
<1> QED
  BY <1>2, <1>4, <1>5, <1>6

-----------------------------------------------------------------------------
(* Plans, types and turns.                                                  *)

\* What the plans considered have in common.
LEMMA PlanFacts ==
  ASSUME TypeOK
  PROVE  /\ plan.process \in [Stream -> Process] /\ plan.items \in [Stream -> Seq(BOOLEAN)]
         /\ plan.kind \in [Stream -> {"producer", "deferred", "immediate", "none"}]
         /\ \A p \in Of("producer"), c \in Of("deferred") :
              plan.process[p] # plan.process[c] => p \in plan.after[c]
         /\ ~plan.keep => \A s, t \in Stream : plan.process[s] = plan.process[t]
<1>1. plan \in Plans
  BY DEF TypeOK
<1>2. IsPlan(plan)
  BY <1>1, PlansAssumption
<1>4. \A p \in Of("producer"), c \in Of("deferred") :
        plan.process[p] # plan.process[c] => p \in plan.after[c]
  BY <1>1, PlansAssumption DEF Of
<1>5. ~plan.keep => \A s, t \in Stream : plan.process[s] = plan.process[t]
  BY <1>1, PlansAssumption
<1> QED
  BY <1>2, <1>4, <1>5 DEF IsPlan

\* The end of the line that begins behind cell n.
LEMMA LineEndIs ==
  ASSUME TypeOK, NEW n \in Nat
  PROVE  /\ LineEnd(n) # 0 => /\ LineEnd(n) \in (n + 1)..Len(file) /\ file[LineEnd(n)].end
                              /\ \A j \in (n + 1)..(LineEnd(n) - 1) : ~file[j].end
         /\ LineEnd(n) = 0 => \A j \in (n + 1)..Len(file) : ~file[j].end
<1> DEFINE ends == {k \in (n + 1)..Len(file) : file[k].end}
<1>1. ends \in SUBSET Nat
  BY DEF TypeOK
<1>2. CASE ends = {}
  BY <1>2 DEF LineEnd
<1>3. CASE ends # {}
  <2>1. \E k \in ends : \A j \in ends : k <= j
    BY <1>1, <1>3, LeastNat
  <2>2. LineEnd(n) = CHOOSE k \in ends : \A j \in ends : k <= j
    BY <1>3 DEF LineEnd
  <2>3. LineEnd(n) \in ends /\ \A j \in ends : LineEnd(n) <= j
    <3> HIDE DEF ends
    <3> QED
      BY <2>1, <2>2
  <2>4. LineEnd(n) \in (n + 1)..Len(file) /\ file[LineEnd(n)].end
    BY <2>3
  <2>5. ASSUME NEW j \in (n + 1)..(LineEnd(n) - 1) PROVE ~file[j].end
    BY <1>1, <2>3, <2>4
  <2> QED
    BY <2>4, <2>5
<1> QED
  BY <1>2, <1>3

\* The steps of the producers, and those of the consumers.
ProducerStep(s) ==
  AppendRefused(s) \/ WriteItem(s) \/ WriteRest(s) \/ Flush(s) \/ MarkDone(s) \/ Teardown(s)
ConsumerStep(s) ==
  \/ Reset(s) \/ NextLine(s) \/ NextEnd(s)
  \/ ReadLine(s) \/ ReadEOF(s) \/ IsDone(s) \/ NotDone(s) \/ Poll(s) \/ ContextDone(s)

\* The types, with names for their sets.
GivenRecord == [item : Stream \X Nat, whole : BOOLEAN]
Place == {"idle", "append", "half", "mark", "teardown", "reset", "next", "read", "eof", "wait",
          "ok", "failed", "cancelled"}

Typed ==
  /\ plan \in Plans /\ file \in Seq(LineCell) /\ done \subseteq Stream /\ cancelled \in BOOLEAN
  /\ wpos \in [Process -> Nat]
  /\ mode \in [Process -> {"none", "writing", "reading", "closed"}]
  /\ rpos \in [Process -> Nat] /\ count \in [Stream -> Nat] /\ pc \in [Stream -> Place]
  /\ pos \in [Stream -> Nat] /\ line \in [Stream -> Nat]
  /\ got \in [Stream -> Seq(GivenRecord)] /\ late \subseteq Stream

\* They are those of TypeOK.
LEMMA TypedIsTypeOK == (TypeOK <=> Typed) /\ (TypeOK' <=> Typed')
<1>1. {"idle", "append", "half", "mark", "teardown", "reset", "next", "read", "eof",
       "wait"} \cup Ended = Place
  BY DEF Ended, Place
<1>2. TypeOK <=> Typed
  BY <1>1 DEF TypeOK, Typed, LineCell, GivenRecord
<1>3. TypeOK' <=> Typed'
  BY <1>1 DEF TypeOK, Typed, LineCell, GivenRecord
<1> QED
  BY <1>2, <1>3

\* What a stream is given is a record of a cell of the file.
LEMMA CellTypes ==
  ASSUME Typed, NEW k \in 1..Len(file), NEW whole \in BOOLEAN, NEW s \in Stream
  PROVE  /\ file[k] \in LineCell /\ file[k].start \in BOOLEAN /\ file[k].end \in BOOLEAN
         /\ Record(file[k].item, whole) \in GivenRecord
         /\ [got EXCEPT ![s] = Append(@, Record(file[k].item, whole))] \in [Stream -> Seq(GivenRecord)]
<1>0. file \in Seq(LineCell)
  BY DEF Typed
<1>1. file[k] \in LineCell
  BY <1>0
<1>2. Record(file[k].item, whole) \in GivenRecord
  BY <1>1 DEF LineCell, Record, GivenRecord
<1>3. got \in [Stream -> Seq(GivenRecord)]
  BY DEF Typed
<1>4. Append(got[s], Record(file[k].item, whole)) \in Seq(GivenRecord)
  BY <1>2, <1>3
<1>5. file[k].start \in BOOLEAN /\ file[k].end \in BOOLEAN
  BY <1>1 DEF LineCell
<1> QED
  BY <1>1, <1>2, <1>3, <1>4, <1>5

\* A cell that a producer writes.
LEMMA PutTypes ==
  ASSUME Typed, NEW p \in Process, NEW s \in Stream, NEW k \in Nat,
         NEW start \in BOOLEAN, NEW end \in BOOLEAN, Put(p, Cell(s, k, start, end))
  PROVE  /\ file' \in Seq(LineCell) /\ wpos' \in [Process -> Nat]
         /\ Len(file) \in Nat /\ Len(file') \in Nat /\ Len(file) <= Len(file')
         /\ wpos'[p] = wpos[p] + 1 /\ \A q \in Process \ {p} : wpos'[q] = wpos[q]
         /\ wpos[p] >= Len(file) => file' = Append(file, Cell(s, k, start, end))
<1> DEFINE x == Cell(s, k, start, end)
<1>1. x \in LineCell
  BY DEF Cell, LineCell
<1>2. file \in Seq(LineCell) /\ Len(file) \in Nat /\ wpos \in [Process -> Nat]
  BY DEF Typed
<1>3. /\ file' = IF wpos[p] < Len(file) THEN [file EXCEPT ![wpos[p] + 1] = x] ELSE Append(file, x)
      /\ wpos' = [wpos EXCEPT ![p] = @ + 1]
  BY DEF Put
<1> HIDE DEF x
<1>4. /\ wpos' \in [Process -> Nat] /\ wpos'[p] = wpos[p] + 1
      /\ \A q \in Process \ {p} : wpos'[q] = wpos[q]
  BY <1>2, <1>3
<1>5. CASE wpos[p] < Len(file)
  <2>1. wpos[p] + 1 \in 1..Len(file)
    BY <1>2, <1>5
  <2>2. [file EXCEPT ![wpos[p] + 1] = x] \in Seq(LineCell) /\ Len([file EXCEPT ![wpos[p] + 1] = x]) = Len(file)
    BY <1>1, <1>2, <2>1, ExceptSeq
  <2>3. file' = [file EXCEPT ![wpos[p] + 1] = x] /\ wpos[p] \in Nat
    BY <1>2, <1>3, <1>5
  <2>4. file' \in Seq(LineCell) /\ Len(file') = Len(file)
    BY <2>2, <2>3
  <2>5. Len(file') \in Nat /\ Len(file) <= Len(file')
    BY <1>2, <2>4
  <2>6. ~(wpos[p] >= Len(file))
    BY <1>2, <1>5, <2>3
  <2> QED
    BY <1>2, <1>4, <2>4, <2>5, <2>6
<1>6. CASE ~(wpos[p] < Len(file))
  <2>1. file' = Append(file, x)
    BY <1>3, <1>6
  <2>2. file' \in Seq(LineCell) /\ Len(file') = Len(file) + 1
    BY <1>1, <1>2, <2>1
  <2> QED
    BY <1>2, <1>4, <2>1, <2>2 DEF x
<1> QED
  BY <1>5, <1>6

\* What a producer's step writes is a cell of its stream.
LEMMA WritesCell ==
  ASSUME Typed, NEW s \in Stream, WriteItem(s) \/ WriteRest(s)
  PROVE  \E k \in Nat, end \in BOOLEAN :
           /\ Put(plan.process[s], Cell(s, k, pc[s] = "append", end))
           /\ pc[s] = IF WriteItem(s) THEN "append" ELSE "half"
           /\ pc'[s] = "half" <=> ~end
           /\ \A t \in Stream \ {s} : pc'[t] = pc[t]
<1>1. count[s] + 1 \in Nat /\ pc \in [Stream -> Place]
  BY DEF Typed
<1> DEFINE k == count[s] + 1
           p == plan.process[s]
<1>2. CASE WriteItem(s) /\ plan.items[s][k]
  <2>1. /\ Put(p, Cell(s, k, TRUE, FALSE)) /\ pc[s] = "append"
        /\ pc' = [pc EXCEPT ![s] = "half"]
    BY <1>2 DEF WriteItem, Goto
  <2>2. pc'[s] = "half" /\ \A t \in Stream \ {s} : pc'[t] = pc[t]
    BY <1>1, <2>1
  <2>3. (pc[s] = "append") = TRUE
    BY <2>1
  <2> QED
    BY <1>1, <1>2, <2>1, <2>2, <2>3
<1>3. CASE WriteItem(s) /\ ~plan.items[s][k]
  <2>1. /\ Put(p, Cell(s, k, TRUE, TRUE)) /\ pc[s] = "append"
        /\ pc' = pc
    BY <1>3 DEF WriteItem
  <2>2. pc'[s] # "half" /\ \A t \in Stream \ {s} : pc'[t] = pc[t]
    BY <1>1, <2>1
  <2>3. (pc[s] = "append") = TRUE
    BY <2>1
  <2> QED
    BY <1>1, <1>3, <2>1, <2>2, <2>3
<1>4. CASE WriteRest(s)
  <2>1. /\ Put(p, Cell(s, k, FALSE, TRUE)) /\ pc[s] = "half"
        /\ pc' = [pc EXCEPT ![s] = "append"]
    BY <1>4 DEF WriteRest, Goto
  <2>2. pc'[s] = "append" /\ \A t \in Stream \ {s} : pc'[t] = pc[t]
    BY <1>1, <2>1
  <2>3. (pc[s] = "append") = FALSE /\ ~WriteItem(s)
    BY <2>1 DEF WriteItem
  <2> QED
    BY <1>1, <2>1, <2>2, <2>3
<1> QED
  BY <1>2, <1>3, <1>4

\* A tailing reader that is reading has a place in the file.
LEMMA ReaderInFile ==
  ASSUME TypeOK, Places, AllOver, InFile, NEW s \in Stream, pc[s] \in {"read", "eof", "wait"}
  PROVE  /\ s \in Of("immediate") /\ ~HasEnded(s) /\ ~Closed
         /\ pos[s] \in 0..Len(file) /\ line[s] \in 0..pos[s]
<1>1. s \in Streams
  BY DEF Places
<1>2. s \in Of("immediate")
  BY <1>1 DEF Places, Streams, Consumers
<1>3. ~HasEnded(s)
  BY DEF HasEnded, Ended
<1>4. ~Closed
  BY <1>1, <1>3 DEF AllOver
<1> QED
  BY <1>2, <1>3, <1>4 DEF InFile

\* What a producer's write makes of the file, whatever others have written.
LEMMA WriteTypes ==
  ASSUME TypeOK, NEW s \in Stream, WriteItem(s) \/ WriteRest(s)
  PROVE  /\ file' \in Seq(LineCell) /\ wpos' \in [Process -> Nat]
         /\ Len(file) \in Nat /\ Len(file') \in Nat /\ Len(file) <= Len(file')
         /\ wpos'[plan.process[s]] = wpos[plan.process[s]] + 1
         /\ \A q \in Process \ {plan.process[s]} : wpos'[q] = wpos[q]
<1>1. Typed /\ plan.process[s] \in Process
  BY TypedIsTypeOK, PlanFacts
<1>2. PICK k \in Nat, end \in BOOLEAN : Put(plan.process[s], Cell(s, k, pc[s] = "append", end))
  BY <1>1, WritesCell
<1>3. (pc[s] = "append") \in BOOLEAN
  OBVIOUS
<1> QED
  BY <1>1, <1>2, <1>3, PutTypes

\* Every step keeps the types.
LEMMA TypeStep ==
  ASSUME TypeOK, Places, AllOver, InFile, [Next]_vars
  PROVE  TypeOK'
<1>0. Typed
  BY TypedIsTypeOK
<1> SUFFICES Typed'
  BY TypedIsTypeOK
<1> USE DEF Place
<1>1. ASSUME NEW s \in Stream, Begin(s) PROVE Typed'
  <2>1. plan.process[s] \in Process
    BY PlanFacts
  <2>2. mode' \in [Process -> {"none", "writing", "reading", "closed"}]
    BY <1>0, <1>1, <2>1 DEF Begin, Typed
  <2>3. pc' \in [Stream -> Place]
    BY <1>0, <1>1 DEF Begin, Goto, Typed
  <2> QED
    BY <1>0, <1>1, <2>2, <2>3 DEF Begin, Typed
<1>2. ASSUME NEW s \in Stream, Fails(s) PROVE Typed'
  BY <1>0, <1>2 DEF Fails, Goto, Typed
<1>3. ASSUME NEW s \in Stream, ProducerStep(s) PROVE Typed'
  <2>0. count[s] + 1 \in Nat
    BY <1>0 DEF Typed
  <2>2. CASE AppendRefused(s) \/ Flush(s) \/ Teardown(s)
    BY <1>0, <2>2 DEF AppendRefused, Flush, Teardown, Goto, Typed
  <2>3. CASE WriteItem(s)
    <3>1. file' \in Seq(LineCell) /\ wpos' \in [Process -> Nat]
      BY <2>3, WriteTypes
    <3>2. count' \in [Stream -> Nat]
      BY <1>0, <2>0, <2>3 DEF WriteItem, Typed
    <3>3. pc' \in [Stream -> Place]
      BY <1>0, <2>3 DEF WriteItem, Goto, Typed
    <3> QED
      BY <1>0, <2>3, <3>1, <3>2, <3>3 DEF WriteItem, Typed
  <2>4. CASE WriteRest(s)
    <3>1. file' \in Seq(LineCell) /\ wpos' \in [Process -> Nat]
      BY <2>4, WriteTypes
    <3>2. count' \in [Stream -> Nat] /\ pc' \in [Stream -> Place]
      BY <1>0, <2>0, <2>4 DEF WriteRest, Goto, Typed
    <3> QED
      BY <1>0, <2>4, <3>1, <3>2 DEF WriteRest, Typed
  <2>5. CASE MarkDone(s)
    BY <1>0, <2>5 DEF MarkDone, Goto, Typed
  <2> QED
    BY <1>3, <2>2, <2>3, <2>4, <2>5 DEF ProducerStep
<1>4. ASSUME NEW s \in Stream, ConsumerStep(s) PROVE Typed'
  <2> DEFINE p == plan.process[s]
  <2>0. p \in Process
    BY PlanFacts
  <2>1. rpos[p] \in Nat /\ pos[s] \in Nat /\ line[s] \in Nat /\ Len(file) \in Nat
    BY <1>0, <2>0 DEF Typed
  <2>2. CASE Reset(s)
    <3>1. mode' \in [Process -> {"none", "writing", "reading", "closed"}]
      BY <1>0, <2>2 DEF Reset, Typed
    <3>2. rpos' \in [Process -> Nat] /\ pc' \in [Stream -> Place]
      BY <1>0, <2>2 DEF Reset, Goto, Typed
    <3> QED
      BY <1>0, <2>2, <3>1, <3>2 DEF Reset, Typed
  <2>3. CASE NextEnd(s) \/ Poll(s) \/ ContextDone(s)
    BY <1>0, <2>3 DEF NextEnd, Poll, ContextDone, Goto, Typed
  <2>4. CASE NextLine(s)
    <3>1. LineEnd(rpos[p]) \in (rpos[p] + 1)..Len(file)
      <4>1. LineEnd(rpos[p]) # 0
        BY <2>4 DEF NextLine
      <4> QED
        BY <2>1, <4>1, LineEndIs
    <3>2. LineEnd(rpos[p]) \in 1..Len(file) /\ rpos[p] + 1 \in 1..Len(file)
      BY <2>1, <3>1
    <3>3. file[rpos[p] + 1].start \in BOOLEAN
      BY <1>0, <3>2, CellTypes
    <3>4. got' = [got EXCEPT ![s] = Append(@, Record(file[LineEnd(rpos[p])].item, file[rpos[p] + 1].start))]
      BY <2>4 DEF NextLine, Give
    <3>5. got' \in [Stream -> Seq(GivenRecord)]
      BY <1>0, <3>2, <3>3, <3>4, CellTypes
    <3>6. rpos' \in [Process -> Nat]
      <4>1. LineEnd(rpos[p]) \in Nat
        BY <3>2
      <4>2. rpos' = [rpos EXCEPT ![p] = LineEnd(rpos[p])]
        BY <2>4 DEF NextLine
      <4> QED
        BY <1>0, <4>1, <4>2 DEF Typed
    <3> QED
      BY <1>0, <2>4, <3>5, <3>6 DEF NextLine, Typed
  <2>5. CASE ReadLine(s)
    <3>1. LineEnd(pos[s]) \in (pos[s] + 1)..Len(file)
      <4>1. LineEnd(pos[s]) # 0
        BY <2>5 DEF ReadLine
      <4> QED
        BY <2>1, <4>1, LineEndIs
    <3>2. LineEnd(pos[s]) \in 1..Len(file) /\ pos[s] + 1 \in 1..Len(file)
      BY <2>1, <3>1
    <3>3. file[pos[s] + 1].start \in BOOLEAN
      BY <1>0, <3>2, CellTypes
    <3>4. got' = [got EXCEPT ![s] = Append(@, Record(file[LineEnd(pos[s])].item, file[pos[s] + 1].start))]
      BY <2>5 DEF ReadLine, Give
    <3>5. got' \in [Stream -> Seq(GivenRecord)]
      BY <1>0, <3>2, <3>3, <3>4, CellTypes
    <3>6. pos' \in [Stream -> Nat]
      <4>1. LineEnd(pos[s]) \in Nat
        BY <3>2
      <4>2. pos' = [pos EXCEPT ![s] = LineEnd(pos[s])]
        BY <2>5 DEF ReadLine
      <4> QED
        BY <1>0, <4>1, <4>2 DEF Typed
    <3> QED
      BY <1>0, <2>5, <3>5, <3>6 DEF ReadLine, Typed
  <2>6. ASSUME pc[s] \in {"read", "eof"} PROVE pos[s] \in 0..Len(file) /\ line[s] \in 0..pos[s]
    BY <2>6, ReaderInFile
  <2>7. CASE ReadEOF(s)
    <3>1. Len(file) - pos[s] \in Nat
      BY <2>1, <2>6, <2>7 DEF ReadEOF
    <3>2. pos' \in [Stream -> Nat] /\ line' \in [Stream -> Nat] /\ pc' \in [Stream -> Place]
      BY <1>0, <2>1, <2>7, <3>1 DEF ReadEOF, Goto, Typed
    <3> QED
      BY <1>0, <2>7, <3>2 DEF ReadEOF, Typed
  <2>8. CASE IsDone(s)
    <3>1. CASE line[s] > 0
      <4>1. pos[s] \in 1..Len(file)
        BY <2>1, <2>6, <2>8, <3>1 DEF IsDone
      <4>2. got' = [got EXCEPT ![s] = Append(@, Record(file[pos[s]].item, FALSE))]
        BY <2>8, <3>1 DEF IsDone, Give
      <4>3. got' \in [Stream -> Seq(GivenRecord)]
        BY <1>0, <4>1, <4>2, CellTypes
      <4>4. line' \in [Stream -> Nat] /\ pc' \in [Stream -> Place]
        BY <1>0, <2>8, <3>1 DEF IsDone, Goto, Typed
      <4> QED
        BY <1>0, <2>8, <4>3, <4>4 DEF IsDone, Typed
    <3>2. CASE ~(line[s] > 0)
      BY <1>0, <2>8, <3>2 DEF IsDone, Goto, Typed
    <3> QED
      BY <3>1, <3>2
  <2>9. CASE NotDone(s)
    <3>1. Rewound(s) \in Nat
      BY <2>1, <2>6, <2>9 DEF NotDone, Rewound
    <3>2. pos' \in [Stream -> Nat] /\ line' \in [Stream -> Nat] /\ pc' \in [Stream -> Place]
      BY <1>0, <2>9, <3>1 DEF NotDone, Goto, Typed
    <3> QED
      BY <1>0, <2>9, <3>2 DEF NotDone, Typed
  <2> QED
    BY <1>4, <2>2, <2>3, <2>4, <2>5, <2>7, <2>8, <2>9 DEF ConsumerStep
<1>5. ASSUME NEW p \in Process, Close(p) PROVE Typed'
  <2>1. file' \in Seq(LineCell) /\ done' \subseteq Stream
    <3>1. CASE plan.keep
      BY <1>0, <1>5, <3>1 DEF Close, Typed
    <3>2. CASE ~plan.keep
      <4>1. file' = <<>> /\ done' = {}
        BY <1>5, <3>2 DEF Close
      <4>2. <<>> \in Seq(LineCell)
        OBVIOUS
      <4> QED
        BY <4>1, <4>2
    <3> QED
      BY <3>1, <3>2
  <2>2. mode' \in [Process -> {"none", "writing", "reading", "closed"}]
    BY <1>0, <1>5 DEF Close, Typed
  <2> QED
    BY <1>0, <1>5, <2>1, <2>2 DEF Close, Typed
<1>6. CASE Cancel
  BY <1>0, <1>6 DEF Cancel, Typed
<1>7. CASE UNCHANGED vars
  BY <1>0, <1>7 DEF vars, Typed
<1> QED
  BY <1>1, <1>2, <1>3, <1>4, <1>5, <1>6, <1>7 DEF Next, StreamStep, ProducerStep, ConsumerStep, Over

\* A stream comes to read its queue by resetting it, and to its end as its kind does.
LEMMA ToNext ==
  ASSUME TypeOK, [Next]_vars, NEW t \in Stream
  PROVE  /\ pc'[t] = "next" => pc[t] = "next" \/ Reset(t)
         /\ pc'[t] = "ok" => \/ pc[t] = "ok" \/ Teardown(t) \/ NextEnd(t)
                             \/ IsDone(t) /\ line[t] <= 0
<1>0. Typed
  BY TypedIsTypeOK
<1> DEFINE Goal == /\ pc'[t] = "next" => pc[t] = "next" \/ Reset(t)
                   /\ pc'[t] = "ok" => \/ pc[t] = "ok" \/ Teardown(t) \/ NextEnd(t)
                                       \/ IsDone(t) /\ line[t] <= 0
<1>1. CASE pc'[t] = pc[t]
  BY <1>1
<1>2. ASSUME NEW s \in Stream, StreamStep(s) \/ ContextDone(s) \/ Fails(s) PROVE Goal
  <2>1. CASE Begin(s) \/ AppendRefused(s) \/ Flush(s) \/ MarkDone(s) \/ Teardown(s) \/ WriteRest(s)
    BY <1>0, <2>1 DEF Begin, AppendRefused, Flush, Drained, MarkDone, Teardown, WriteRest, Goto, Typed
  <2>2. CASE WriteItem(s)
    BY <1>0, <2>2 DEF WriteItem, Goto, Typed
  <2>3. CASE Reset(s) \/ NextLine(s) \/ NextEnd(s)
    BY <1>0, <2>3 DEF Reset, NextLine, NextEnd, Goto, Typed
  <2>4. CASE ReadLine(s) \/ ReadEOF(s)
    BY <1>0, <2>4 DEF ReadLine, ReadEOF, Goto, Typed
  <2>5. CASE IsDone(s)
    <3>1. line[s] \in Nat
      BY <1>0 DEF Typed
    <3>2. pc \in [Stream -> Place]
      BY <1>0 DEF Typed
    <3>3. CASE line[s] > 0
      BY <2>5, <3>2, <3>3 DEF IsDone, Goto
    <3>4. CASE line[s] <= 0
      <4>0. ~(line[s] > 0)
        BY <3>1, <3>4
      <4>1. pc' = [pc EXCEPT ![s] = "ok"]
        BY <2>5, <4>0 DEF IsDone, Goto
      <4> QED
        BY <2>5, <3>2, <3>4, <4>1
    <3> QED
      BY <3>1, <3>3, <3>4
  <2>6. CASE NotDone(s) \/ Poll(s) \/ ContextDone(s) \/ Fails(s)
    BY <1>0, <2>6 DEF NotDone, Poll, ContextDone, Fails, Goto, Typed
  <2> QED
    BY <1>2, <2>1, <2>2, <2>3, <2>4, <2>5, <2>6 DEF StreamStep
<1>3. ASSUME (\E p \in Process : Close(p)) \/ Cancel \/ UNCHANGED vars PROVE pc' = pc
  BY <1>3 DEF Close, Cancel, vars
<1> QED
  BY <1>1, <1>2, <1>3 DEF Next, Over

\* What every step leaves: the plan, the ends of streams; and what it may begin.
LEMMA Moves ==
  ASSUME TypeOK, [Next]_vars
  PROVE  /\ plan' = plan /\ late \subseteq late'
         /\ \A t \in Stream : HasEnded(t) => pc'[t] = pc[t]
         /\ \A t \in Stream : Active(t)' => Active(t) \/ Begin(t)
         /\ \A t \in Stream : pc'[t] = "half" => pc[t] = "half" \/ WriteItem(t)
         /\ \A t \in Stream : pc[t] = "half" => pc'[t] = "half" \/ WriteRest(t)
         /\ \A t \in Stream : pc[t] = "idle" => pc'[t] = "idle" \/ Begin(t)
         /\ \A t \in Stream : pc[t] = "teardown" => pc'[t] \in {"teardown", "ok", "failed"}
<1> DEFINE Goal(t) == /\ HasEnded(t) => pc'[t] = pc[t]
                      /\ Active(t)' => Active(t) \/ Begin(t)
                      /\ pc'[t] = "half" => pc[t] = "half" \/ WriteItem(t)
                      /\ pc[t] = "half" => pc'[t] = "half" \/ WriteRest(t)
                      /\ pc[t] = "idle" => pc'[t] = "idle" \/ Begin(t)
                      /\ pc[t] = "teardown" => pc'[t] \in {"teardown", "ok", "failed"}
<1>0. Typed
  BY TypedIsTypeOK
<1> USE DEF HasEnded, Ended, Active
<1>1. ASSUME pc' = pc, NEW t \in Stream PROVE Goal(t)
  BY <1>1
<1>2. ASSUME NEW s \in Stream, NEW t \in Stream, StreamStep(s) \/ ContextDone(s) \/ Fails(s)
      PROVE  plan' = plan /\ late \subseteq late' /\ Goal(t)
  <2>1. CASE Begin(s)
    BY <1>0, <2>1 DEF Begin, Goto, Typed
  <2>2. CASE AppendRefused(s) \/ Flush(s) \/ MarkDone(s) \/ Teardown(s) \/ WriteRest(s)
    BY <1>0, <2>2 DEF AppendRefused, Flush, Drained, MarkDone, Teardown, WriteRest, Goto, Typed
  <2>3. CASE WriteItem(s)
    BY <1>0, <2>3 DEF WriteItem, Goto, Typed
  <2>4. CASE Reset(s) \/ NextLine(s) \/ NextEnd(s)
    BY <1>0, <2>4 DEF Reset, NextLine, NextEnd, Goto, Typed
  <2>5. CASE ReadLine(s) \/ ReadEOF(s) \/ IsDone(s)
    BY <1>0, <2>5 DEF ReadLine, ReadEOF, IsDone, Goto, Typed
  <2>6. CASE NotDone(s) \/ Poll(s) \/ ContextDone(s) \/ Fails(s)
    BY <1>0, <2>6 DEF NotDone, Poll, ContextDone, Fails, Goto, Typed
  <2> QED
    BY <1>2, <2>1, <2>2, <2>3, <2>4, <2>5, <2>6 DEF StreamStep
<1>3. ASSUME (\E p \in Process : Close(p)) \/ Cancel \/ UNCHANGED vars
      PROVE  plan' = plan /\ late \subseteq late' /\ pc' = pc
  BY <1>3 DEF Close, Cancel, vars
<1>4. CASE \E s \in Stream : StreamStep(s) \/ ContextDone(s) \/ Fails(s)
  <2>1. PICK s \in Stream : StreamStep(s) \/ ContextDone(s) \/ Fails(s)
    BY <1>4
  <2>2. \A t \in Stream : plan' = plan /\ late \subseteq late' /\ Goal(t)
    BY <1>2, <2>1
  <2> QED
    BY <2>2
<1>5. CASE (\E p \in Process : Close(p)) \/ Cancel \/ UNCHANGED vars
  BY <1>1, <1>3, <1>5
<1> QED
  BY <1>4, <1>5 DEF Next, Over

\* The kinds of the streams stay, and so do their ends.
LEMMA KindsStay ==
  ASSUME TypeOK, [Next]_vars
  PROVE  /\ plan' = plan /\ Streams' = Streams /\ Consumers' = Consumers
         /\ Of("producer")' = Of("producer") /\ Of("deferred")' = Of("deferred")
         /\ Of("immediate")' = Of("immediate")
         /\ \A t \in Stream : HasEnded(t) => HasEnded(t)'
         /\ Streams \subseteq Stream /\ Consumers \subseteq Streams
<1>1. plan' = plan
  BY Moves
<1>2. \A t \in Stream : HasEnded(t) => HasEnded(t)'
  BY Moves DEF HasEnded
<1> QED
  BY <1>1, <1>2 DEF Of, Streams, Consumers

\* The streams of each kind go from place to place as they may.
LEMMA PlacesStep ==
  ASSUME TypeOK, Places, [Next]_vars
  PROVE  Places'
<1>0. Typed
  BY TypedIsTypeOK
<1> DEFINE Kind == {"producer", "deferred", "immediate"}
           Right(t, at) ==
             /\ at # "idle" => t \in Streams
             /\ plan.kind[t] = "producer" => at \in {"idle", "append", "half", "mark", "teardown", "ok", "failed"}
             /\ plan.kind[t] = "deferred" => at \in {"idle", "reset", "next", "ok", "failed"}
             /\ plan.kind[t] = "immediate" => at \in {"idle", "read", "eof", "wait"} \cup Ended
<1>1. plan' = plan
  BY KindsStay
<1>2. \A t \in Stream : Right(t, pc[t])
  BY DEF Places, Of
<1>3. (\A t \in Stream : Right(t, pc'[t])) => Places'
  BY <1>1 DEF Places, Of, Streams, Consumers
<1> SUFFICES ASSUME NEW t \in Stream PROVE Right(t, pc'[t])
  BY <1>3
<1> USE DEF Ended, Streams, Consumers, Of
<1>4. CASE pc'[t] = pc[t]
  BY <1>2, <1>4
<1>5. ASSUME NEW s \in Stream, StreamStep(s) \/ ContextDone(s) \/ Fails(s) PROVE Right(t, pc'[t])
  <2>1. Right(t, pc[t])
    BY <1>2
  <2>2. CASE Begin(s)
    BY <1>0, <2>1, <2>2 DEF Begin, Goto, Typed
  <2>3. CASE AppendRefused(s) \/ Flush(s) \/ MarkDone(s) \/ Teardown(s) \/ WriteRest(s)
    BY <1>0, <2>1, <2>3 DEF AppendRefused, Flush, Drained, MarkDone, Teardown, WriteRest, Goto, Typed
  <2>4. CASE WriteItem(s)
    BY <1>0, <2>1, <2>4 DEF WriteItem, Goto, Typed
  <2>5. CASE Reset(s) \/ NextLine(s) \/ NextEnd(s)
    BY <1>0, <2>1, <2>5 DEF Reset, NextLine, NextEnd, Goto, Typed
  <2>6. CASE ReadLine(s) \/ ReadEOF(s) \/ IsDone(s)
    BY <1>0, <2>1, <2>6 DEF ReadLine, ReadEOF, IsDone, Goto, Typed
  <2>7. CASE NotDone(s) \/ Poll(s) \/ ContextDone(s) \/ Fails(s)
    BY <1>0, <2>1, <2>7 DEF NotDone, Poll, ContextDone, Fails, Goto, Typed
  <2> QED
    BY <1>5, <2>2, <2>3, <2>4, <2>5, <2>6, <2>7 DEF StreamStep
<1>6. ASSUME (\E p \in Process : Close(p)) \/ Cancel \/ UNCHANGED vars PROVE pc' = pc
  BY <1>6 DEF Close, Cancel, vars
<1> QED
  BY <1>4, <1>5, <1>6 DEF Next, Over

\* A producer that appends is the only stream of its process that does something.
LEMMA OneAppends ==
  ASSUME TypeOK, Places, Turns, NEW s \in Stream, pc[s] \in {"append", "half", "mark", "teardown"}
  PROVE  /\ s \in Of("producer") /\ s \in Streams /\ Active(s)
         /\ mode[plan.process[s]] \in {"writing", "reading"}
         /\ \A t \in Stream : pc[t] \in {"append", "half", "mark", "teardown"}
                             /\ plan.process[t] = plan.process[s] => t = s
<1>1. ASSUME NEW t \in Stream, pc[t] \in {"append", "half", "mark", "teardown"}
      PROVE  t \in Of("producer") /\ t \in Streams /\ Active(t)
  BY <1>1 DEF Places, Streams, Consumers, Active, HasEnded, Ended
<1>2. \A t \in Stream : pc[t] \in {"append", "half", "mark", "teardown"}
                      /\ plan.process[t] = plan.process[s] => t = s
  BY <1>1 DEF Turns
<1>3. s \in Of("producer") /\ s \in Streams /\ Active(s)
  BY <1>1
<1> QED
  BY <1>2, <1>3 DEF Turns

\* How the modes of the Queues change: never back to writing, and not from closed.
LEMMA ModesStep ==
  ASSUME TypeOK, Places, Turns, [Next]_vars, NEW p \in Process
  PROVE  /\ mode'[p] \in {"none", "writing", "reading", "closed"}
         /\ mode[p] = "reading" => mode'[p] \in {"reading", "closed"}
         /\ mode[p] = "closed" => mode'[p] = "closed"
         /\ mode[p] = "writing" => mode'[p] # "none"
         /\ mode'[p] # "none" /\ mode[p] = "none" => \E s \in Stream : Begin(s) /\ plan.process[s] = p
         /\ mode'[p] = "closed" /\ mode[p] # "closed" => Close(p)
<1>0. Typed
  BY TypedIsTypeOK
<1>2. mode[p] \in {"none", "writing", "reading", "closed"}
  BY <1>0 DEF Typed
<1>3. ASSUME NEW s \in Stream, StreamStep(s) \/ ContextDone(s) \/ Fails(s)
      PROVE  \/ mode'[p] = mode[p]
             \/ Begin(s) /\ plan.process[s] = p /\ mode[p] = "none" /\ mode'[p] = "writing"
             \/ mode[p] \in {"writing", "reading"} /\ mode'[p] = "reading"
  <2>1. CASE Begin(s)
    BY <1>0, <2>1 DEF Begin, Typed
  <2>2. CASE Reset(s)
    <3>1. s \in Streams /\ Active(s)
      BY <2>2 DEF Reset, Places, Active, HasEnded, Ended
    <3>2. mode[plan.process[s]] \in {"writing", "reading"}
      BY <3>1 DEF Turns
    <3> QED
      BY <1>0, <2>2, <3>2 DEF Reset, Typed
  <2>3. CASE AppendRefused(s) \/ Flush(s) \/ MarkDone(s) \/ Teardown(s) \/ WriteRest(s) \/ WriteItem(s)
    BY <2>3 DEF AppendRefused, Flush, MarkDone, Teardown, WriteRest, WriteItem
  <2>4. CASE NextLine(s) \/ NextEnd(s) \/ ReadLine(s) \/ ReadEOF(s) \/ IsDone(s)
    BY <2>4 DEF NextLine, NextEnd, ReadLine, ReadEOF, IsDone
  <2>5. CASE NotDone(s) \/ Poll(s) \/ ContextDone(s) \/ Fails(s)
    BY <2>5 DEF NotDone, Poll, ContextDone, Fails
  <2> QED
    BY <1>3, <2>1, <2>2, <2>3, <2>4, <2>5 DEF StreamStep
<1>4. ASSUME NEW q \in Process, Close(q)
      PROVE  mode'[p] = mode[p] \/ (q = p /\ mode[p] # "none" /\ mode'[p] = "closed")
  BY <1>0, <1>4 DEF Close, Typed
<1>5. CASE Cancel \/ UNCHANGED vars
  <2>1. mode'[p] = mode[p]
    BY <1>5 DEF Cancel, vars
  <2> QED
    BY <1>2, <2>1
<1> QED
  BY <1>2, <1>3, <1>4, <1>5 DEF Next, Over

\* The streams of a process go on taking turns.
LEMMA TurnsStep ==
  ASSUME TypeOK, Places, Turns, [Next]_vars
  PROVE  Turns'
<1>0. Typed
  BY TypedIsTypeOK
<1>1. /\ plan' = plan /\ Streams' = Streams /\ Streams \subseteq Stream
      /\ \A t \in Stream : HasEnded(t) => HasEnded(t)'
      /\ \A t \in Stream : Active(t)' => Active(t) \/ Begin(t)
      /\ plan.process \in [Stream -> Process]
  BY KindsStay, Moves, PlanFacts
<1>2. ASSUME NEW s \in Streams, NEW t \in Streams, plan.process[s] = plan.process[t],
             Active(s)', Active(t)'
      PROVE  s = t
  <2>1. CASE Active(s) /\ Active(t)
    BY <1>2, <2>1 DEF Turns
  <2>2. ASSUME NEW u \in Streams, NEW v \in Streams, Begin(u), Active(v) \/ Begin(v),
               plan.process[u] = plan.process[v]
        PROVE  u = v
    <3>1. CASE Active(v)
      BY <2>2, <3>1 DEF Begin, Active
    <3>2. CASE Begin(v) /\ u # v
      <4>1. pc' = [pc EXCEPT ![u] = pc'[u]] /\ pc' = [pc EXCEPT ![v] = pc'[v]]
        BY <1>0, <1>1, <2>2, <3>2 DEF Begin, Goto, Typed
      <4>2. pc'[v] = pc[v]
        BY <1>0, <1>1, <3>2, <4>1 DEF Typed
      <4>3. pc'[v] # "idle" /\ pc[v] = "idle"
        BY <1>0, <1>1, <3>2 DEF Begin, Goto, Typed
      <4> QED
        BY <4>2, <4>3
    <3> QED
      BY <2>2, <3>1, <3>2
  <2> QED
    BY <1>1, <1>2, <2>1, <2>2
<1>3. ASSUME NEW s \in Streams, Active(s)' PROVE mode'[plan.process[s]] \in {"writing", "reading"}
  <2> DEFINE p == plan.process[s]
  <2>1. p \in Process /\ mode'[p] \in {"none", "writing", "reading", "closed"}
    BY <1>1, ModesStep
  <2>2. CASE Begin(s)
    BY <1>0, <2>1, <2>2 DEF Begin, Typed
  <2>3. CASE Active(s)
    <3>1. mode[p] \in {"writing", "reading"}
      BY <2>3 DEF Turns
    <3>2. ASSUME Close(p) PROVE FALSE
      BY <2>3, <3>2 DEF Close, Active
    <3> QED
      BY <2>1, <3>1, <3>2, ModesStep
  <2> QED
    BY <1>1, <1>3, <2>2, <2>3
<1>4. ASSUME NEW s \in Streams, pc'[s] = "next" PROVE mode'[plan.process[s]] = "reading"
  <2> DEFINE p == plan.process[s]
  <2>1. mode'[p] \in {"writing", "reading"} /\ p \in Process /\ mode[p] \in {"none", "writing", "reading", "closed"}
    <3>1. Active(s)'
      BY <1>4 DEF Active, HasEnded, Ended
    <3> QED
      BY <1>0, <1>1, <1>3, <3>1 DEF Typed
  <2>2. CASE pc[s] = "next"
    <3>1. mode[p] = "reading"
      BY <2>2 DEF Turns
    <3>2. mode'[p] \in {"reading", "closed"}
      BY <2>1, <3>1, ModesStep
    <3> QED
      BY <2>1, <3>2
  <2>3. CASE Reset(s)
    BY <1>0, <2>1, <2>3 DEF Reset, Typed
  <2> QED
    BY <1>1, <1>4, <2>2, <2>3, ToNext
<1>5. ASSUME NEW s \in Streams, mode'[plan.process[s]] = "closed" PROVE HasEnded(s)'
  <2> DEFINE p == plan.process[s]
  <2>1. p \in Process
    BY <1>1
  <2>2. CASE mode[p] = "closed"
    <3>1. HasEnded(s)
      BY <2>2 DEF Turns
    <3> QED
      BY <1>1, <3>1
  <2>3. CASE mode[p] # "closed"
    <3>1. Close(p)
      BY <1>5, <2>1, <2>3, ModesStep
    <3>2. HasEnded(s)
      BY <3>1 DEF Close
    <3> QED
      BY <1>1, <3>2
  <2> QED
    BY <2>2, <2>3
<1>6. ASSUME NEW p \in Process, mode'[p] # "none" PROVE \E s \in Streams : plan.process[s] = p
  <2>1. CASE mode[p] # "none"
    BY <2>1 DEF Turns
  <2>2. CASE mode[p] = "none"
    <3>1. PICK s \in Stream : Begin(s) /\ plan.process[s] = p
      BY <1>6, <2>2, ModesStep
    <3> QED
      BY <3>1 DEF Begin
  <2> QED
    BY <2>1, <2>2
<1> QED
  BY <1>1, <1>2, <1>3, <1>4, <1>5, <1>6 DEF Turns

\* When a Queue that is not kept is closed every stream has ended, and it stays so.
LEMMA ClosedStays ==
  ASSUME TypeOK, Places, Turns, [Next]_vars
  PROVE  Closed => Closed'
<1> SUFFICES ASSUME NEW p \in Process, mode[p] = "closed", ~plan.keep PROVE Closed'
  BY DEF Closed
<1>1. mode'[p] = "closed" /\ plan' = plan
  BY ModesStep, KindsStay
<1> QED
  BY <1>1 DEF Closed

LEMMA AllOverStep ==
  ASSUME TypeOK, Places, Turns, AllOver, [Next]_vars
  PROVE  AllOver'
<1> SUFFICES ASSUME Closed', NEW s \in Streams' PROVE HasEnded(s)'
  BY DEF AllOver
<1>1. /\ plan' = plan /\ s \in Streams /\ s \in Stream /\ (HasEnded(s) => HasEnded(s)')
      /\ plan.process \in [Stream -> Process]
  BY KindsStay, PlanFacts
<1>2. CASE Closed
  BY <1>1, <1>2 DEF AllOver
<1>3. CASE ~Closed
  <2>1. PICK p \in Process : mode'[p] = "closed" /\ ~plan.keep
    BY <1>1 DEF Closed
  <2>2. mode[p] # "closed"
    BY <1>3, <2>1 DEF Closed
  <2>3. Close(p)
    BY <2>1, <2>2, ModesStep
  <2>4. PICK t \in Streams : plan.process[t] = p
    BY <2>3 DEF Close, Turns
  <2>5. t \in Stream
    BY KindsStay
  <2>6. plan.process[s] = p
    BY <1>1, <2>1, <2>4, <2>5, PlanFacts
  <2> QED
    BY <1>1, <2>3, <2>6 DEF Close
<1> QED
  BY <1>2, <1>3

\* Only a producer's steps, and the end of the Queue, change the file.
LEMMA FileChanges ==
  ASSUME TypeOK, [Next]_vars, ~Closed', file' # file
  PROVE  \E s \in Stream : WriteItem(s) \/ WriteRest(s)
<1>1. ASSUME NEW s \in Stream, StreamStep(s) \/ ContextDone(s) \/ Fails(s), file' # file
      PROVE  WriteItem(s) \/ WriteRest(s)
  <2>1. CASE Begin(s) \/ AppendRefused(s) \/ Flush(s) \/ MarkDone(s) \/ Teardown(s) \/ Reset(s)
    BY <1>1, <2>1 DEF Begin, AppendRefused, Flush, MarkDone, Teardown, Reset
  <2>2. CASE NextLine(s) \/ NextEnd(s) \/ ReadLine(s) \/ ReadEOF(s) \/ IsDone(s)
    BY <1>1, <2>2 DEF NextLine, NextEnd, ReadLine, ReadEOF, IsDone
  <2>3. CASE NotDone(s) \/ Poll(s) \/ ContextDone(s) \/ Fails(s)
    BY <1>1, <2>3 DEF NotDone, Poll, ContextDone, Fails
  <2> QED
    BY <1>1, <2>1, <2>2, <2>3 DEF StreamStep
<1>2. ASSUME NEW p \in Process, Close(p) PROVE file' = file
  <2>1. CASE plan.keep
    BY <1>2, <2>1 DEF Close
  <2>2. CASE ~plan.keep
    <3>1. mode' = [mode EXCEPT ![p] = "closed"] /\ plan' = plan
      BY <1>2 DEF Close
    <3>2. mode'[p] = "closed"
      BY <3>1 DEF TypeOK
    <3> QED
      BY <2>2, <3>1, <3>2 DEF Closed
  <2> QED
    BY <2>1, <2>2
<1>3. ASSUME Cancel \/ UNCHANGED vars PROVE file' = file
  BY <1>3 DEF Cancel, vars
<1> QED
  BY <1>1, <1>2, <1>3 DEF Next, Over

\* Only their writes move where a Queue writes.
LEMMA Unwritten ==
  ASSUME [Next]_vars, wpos' # wpos
  PROVE  \E s \in Stream : WriteItem(s) \/ WriteRest(s)
<1>1. ASSUME NEW s \in Stream, StreamStep(s) \/ ContextDone(s) \/ Fails(s)
      PROVE  WriteItem(s) \/ WriteRest(s)
  <2>1. CASE Begin(s) \/ AppendRefused(s) \/ Flush(s) \/ MarkDone(s) \/ Teardown(s) \/ Reset(s)
    BY <2>1 DEF Begin, AppendRefused, Flush, MarkDone, Teardown, Reset
  <2>2. CASE NextLine(s) \/ NextEnd(s) \/ ReadLine(s) \/ ReadEOF(s) \/ IsDone(s)
    BY <2>2 DEF NextLine, NextEnd, ReadLine, ReadEOF, IsDone
  <2>3. CASE NotDone(s) \/ Poll(s) \/ ContextDone(s) \/ Fails(s)
    BY <2>3 DEF NotDone, Poll, ContextDone, Fails
  <2> QED
    BY <1>1, <2>1, <2>2, <2>3 DEF StreamStep
<1>2. ASSUME (\E p \in Process : Close(p)) \/ Cancel \/ UNCHANGED vars PROVE FALSE
  BY <1>2 DEF Close, Cancel, vars
<1> QED
  BY <1>1, <1>2 DEF Next, Over

\* A Queue that has written has written for good; two that have leave no lines intact.
LEMMA IntactStays ==
  ASSUME TypeOK, Places, Turns, [Next]_vars
  PROVE  /\ \A p \in Process : wpos[p] > 0 => wpos'[p] > 0
         /\ Intact' => Intact /\ ~Closed /\ ~Closed'
<1>1. ASSUME NEW p \in Process, wpos[p] > 0 PROVE wpos'[p] > 0
  <2>1. wpos[p] \in Nat
    BY TypedIsTypeOK DEF Typed
  <2>2. CASE wpos' = wpos
    BY <1>1, <2>2
  <2>3. CASE wpos' # wpos
    <3>1. PICK s \in Stream : WriteItem(s) \/ WriteRest(s)
      BY <2>3, Unwritten
    <3>2. wpos'[p] = wpos[p] \/ wpos'[p] = wpos[p] + 1
      BY <3>1, WriteTypes
    <3> QED
      BY <1>1, <2>1, <3>2
  <2> QED
    BY <2>2, <2>3
<1>2. Apart' => Apart
  BY <1>1 DEF Apart
<1> QED
  BY <1>1, <1>2, ClosedStays DEF Intact

\* While the lines are intact, what a producer writes goes to the end of the file, and
\* nobody else is in the middle of a line.
LEMMA Writes ==
  ASSUME TypeOK, Places, Turns, Written, [Next]_vars, Intact',
         NEW s \in Stream, WriteItem(s) \/ WriteRest(s)
  PROVE  /\ \E k \in Nat, end \in BOOLEAN :
              /\ file' = Append(file, Cell(s, k, pc[s] = "append", end))
              /\ pc[s] = IF WriteItem(s) THEN "append" ELSE "half"
              /\ pc'[s] = "half" <=> ~end
              /\ \A t \in Stream \ {s} : pc'[t] = pc[t]
         /\ \A t \in Streams : pc[t] = "half" => t = s
         /\ wpos'[plan.process[s]] = Len(file) + 1
         /\ \A q \in Process \ {plan.process[s]} : wpos'[q] = 0
<1> DEFINE p == plan.process[s]
<1>0. /\ Typed /\ p \in Process /\ Intact /\ Len(file) \in Nat /\ plan' = plan
      /\ wpos \in [Process -> Nat] /\ Streams \subseteq Stream
      /\ plan.process \in [Stream -> Process]
  BY TypedIsTypeOK, PlanFacts, IntactStays, WriteTypes, KindsStay DEF Typed
<1>1. PICK k \in Nat, end \in BOOLEAN :
        /\ Put(p, Cell(s, k, pc[s] = "append", end))
        /\ pc[s] = IF WriteItem(s) THEN "append" ELSE "half"
        /\ pc'[s] = "half" <=> ~end
        /\ \A t \in Stream \ {s} : pc'[t] = pc[t]
  BY <1>0, WritesCell
<1>2. wpos'[p] = wpos[p] + 1 /\ \A q \in Process \ {p} : wpos'[q] = wpos[q]
  BY WriteTypes
<1>3. \A q \in Process \ {p} : wpos[q] = 0
  <2> SUFFICES ASSUME NEW q \in Process, q # p PROVE wpos[q] = 0
    OBVIOUS
  <2>1. wpos'[p] > 0 /\ wpos'[q] = wpos[q] /\ wpos[q] \in Nat /\ wpos[p] \in Nat
    BY <1>0, <1>2
  <2>2. wpos'[q] > 0 => q = p
    BY <1>0, <2>1 DEF Intact, Apart
  <2> QED
    BY <2>1, <2>2
<1>4. wpos[p] = Len(file)
  <2>1. wpos[p] \in {0, Len(file)} /\ (Len(file) > 0 => \E q \in Process : wpos[q] > 0)
    BY <1>0 DEF Written
  <2>2. wpos[p] = 0 => ~(Len(file) > 0)
    BY <1>3, <2>1
  <2> QED
    BY <1>0, <2>1, <2>2
<1>5. file' = Append(file, Cell(s, k, pc[s] = "append", end))
  <2>1. (pc[s] = "append") \in BOOLEAN
    OBVIOUS
  <2>2. wpos[p] >= Len(file)
    BY <1>0, <1>4
  <2> QED
    BY <1>0, <1>1, <2>1, <2>2, PutTypes
<1>6. ASSUME NEW t \in Streams, pc[t] = "half" PROVE t = s
  <2>1. wpos[plan.process[t]] > 0 /\ plan.process[t] \in Process
    BY <1>0, <1>6 DEF Written
  <2>2. plan.process[t] = p
    BY <1>3, <2>1
  <2>3. pc[s] \in {"append", "half"}
    BY <1>1
  <2> QED
    BY <1>0, <1>6, <2>2, <2>3, OneAppends
<1>7. wpos'[p] = Len(file) + 1 /\ \A q \in Process \ {p} : wpos'[q] = 0
  BY <1>2, <1>3, <1>4
<1> QED
  BY <1>1, <1>5, <1>6, <1>7

\* Where the Queues write stays right.
LEMMA WrittenStep ==
  ASSUME TypeOK, Places, Turns, Written, [Next]_vars
  PROVE  Written'
<1>0. /\ Typed /\ plan' = plan /\ Streams' = Streams /\ Streams \subseteq Stream
      /\ plan.process \in [Stream -> Process] /\ wpos \in [Process -> Nat]
  BY TypedIsTypeOK, KindsStay, PlanFacts DEF Typed
<1>1. ASSUME NEW s \in Streams, pc'[s] = "half" PROVE wpos'[plan.process[s]] > 0
  <2>1. CASE pc[s] = "half"
    BY <1>0, <2>1, IntactStays DEF Written
  <2>2. CASE WriteItem(s)
    <3>1. wpos'[plan.process[s]] = wpos[plan.process[s]] + 1
      BY <1>0, <2>2, WriteTypes
    <3> QED
      BY <1>0, <3>1
  <2> QED
    BY <1>0, <1>1, <2>1, <2>2, Moves
<1>2. ASSUME Intact'
      PROVE  /\ \A p \in Process : wpos'[p] \in {0, Len(file')}
             /\ Len(file') > 0 => \E p \in Process : wpos'[p] > 0
  <2>1. Intact /\ ~Closed'
    BY <1>2, IntactStays
  <2>2. CASE \E s \in Stream : WriteItem(s) \/ WriteRest(s)
    <3>1. PICK s \in Stream : WriteItem(s) \/ WriteRest(s)
      BY <2>2
    <3>2. /\ wpos'[plan.process[s]] = Len(file) + 1
          /\ \A q \in Process \ {plan.process[s]} : wpos'[q] = 0
          /\ \E x : file' = Append(file, x)
      BY <1>2, <3>1, Writes
    <3>3. Len(file') = Len(file) + 1 /\ Len(file) \in Nat
      BY <1>0, <3>2 DEF Typed
    <3> QED
      BY <1>0, <3>2, <3>3
  <2>3. CASE ~\E s \in Stream : WriteItem(s) \/ WriteRest(s)
    <3>1. file' = file /\ wpos' = wpos
      BY <2>1, <2>3, FileChanges, Unwritten
    <3> QED
      BY <2>1, <3>1 DEF Written
  <2> QED
    BY <2>2, <2>3
<1> QED
  BY <1>0, <1>1, <1>2 DEF Written

\* The lines follow each other.
LEMMA FileStep ==
  ASSUME TypeOK, Places, Turns, Written, FileOk, [Next]_vars
  PROVE  FileOk'
<1>0. Typed
  BY TypedIsTypeOK
<1> SUFFICES ASSUME Intact'
             PROVE  /\ \A k \in 1..Len(file') : file'[k].start <=> Boundary(file', k - 1)
                    /\ Boundary(file', Len(file')) <=> ~\E s \in Streams' : pc'[s] = "half"
  BY DEF FileOk
<1>1. /\ Intact /\ ~Closed' /\ plan' = plan /\ Streams' = Streams /\ Streams \subseteq Stream
  BY IntactStays, KindsStay
<1>2. /\ \A k \in 1..Len(file) : file[k].start <=> Boundary(file, k - 1)
      /\ Boundary(file, Len(file)) <=> ~\E s \in Streams : pc[s] = "half"
  BY <1>1 DEF FileOk
<1>3. CASE \E s \in Stream : WriteItem(s) \/ WriteRest(s)
  <2>1. PICK s \in Stream : WriteItem(s) \/ WriteRest(s)
    BY <1>3
  <2>2. PICK n \in Nat, end \in BOOLEAN :
           /\ file' = Append(file, Cell(s, n, pc[s] = "append", end))
           /\ pc[s] = IF WriteItem(s) THEN "append" ELSE "half"
           /\ pc'[s] = "half" <=> ~end
           /\ \A t \in Stream \ {s} : pc'[t] = pc[t]
    BY <2>1, Writes
  <2> DEFINE x == Cell(s, n, pc[s] = "append", end)
  <2>3. /\ pc[s] \in {"append", "half"} /\ s \in Streams
        /\ \A t \in Streams : pc[t] = "half" => t = s
    BY <2>1, <2>2, OneAppends, Writes
  <2>4. Boundary(file, Len(file)) <=> pc[s] = "append"
    BY <1>1, <1>2, <2>3
  <2>5. file \in Seq(LineCell) /\ Len(file) \in Nat
    BY <1>0 DEF Typed
  <2>6. x.start = (pc[s] = "append") /\ x.end = end
    BY DEF Cell
  <2> HIDE DEF x
  <2>7. /\ file'[Len(file) + 1] = x /\ Len(file') = Len(file) + 1
        /\ \A j \in 1..Len(file) : file'[j] = file[j]
    BY <2>2, <2>5, AppendAt DEF x
  <2>8. \A j \in 0..Len(file) : Boundary(file', j) <=> Boundary(file, j)
    <3> SUFFICES ASSUME NEW j \in 0..Len(file) PROVE Boundary(file', j) <=> Boundary(file, j)
      OBVIOUS
    <3>1. Boundary(Append(file, x), j) <=> Boundary(file, j)
      BY <2>5, AppendKeepsLines
    <3> QED
      BY <2>2, <3>1 DEF x
  <2>9. ASSUME NEW k \in 1..Len(file') PROVE file'[k].start <=> Boundary(file', k - 1)
    <3>1. CASE k = Len(file) + 1
      <4>1. Len(file) \in 0..Len(file) /\ k - 1 = Len(file)
        BY <2>5, <3>1
      <4>2. Boundary(file', k - 1) <=> Boundary(file, Len(file))
        BY <2>8, <4>1
      <4>3. file'[k].start <=> pc[s] = "append"
        BY <2>6, <2>7, <3>1
      <4> QED
        BY <2>4, <4>2, <4>3
    <3>2. CASE k # Len(file) + 1
      <4>1. k \in 1..Len(file) /\ k - 1 \in 0..Len(file)
        BY <2>5, <2>7, <3>2
      <4>2. file'[k] = file[k]
        BY <2>7, <4>1
      <4> QED
        BY <1>2, <2>8, <4>1, <4>2
    <3> QED
      BY <3>1, <3>2
  <2>10. Boundary(file', Len(file')) <=> end
    BY <2>5, <2>6, <2>7 DEF Boundary
  <2>11. (\E t \in Streams : pc'[t] = "half") <=> ~end
    BY <1>1, <2>2, <2>3
  <2> QED
    BY <1>1, <2>9, <2>10, <2>11
<1>4. CASE ~\E s \in Stream : WriteItem(s) \/ WriteRest(s)
  <2>1. file' = file
    BY <1>1, <1>4, FileChanges
  <2>2. \A t \in Stream : pc'[t] = "half" <=> pc[t] = "half"
    <3> SUFFICES ASSUME NEW t \in Stream PROVE pc'[t] = "half" <=> pc[t] = "half"
      OBVIOUS
    <3>1. pc'[t] = "half" => pc[t] = "half"
      BY <1>4, Moves
    <3>2. pc[t] = "half" => pc'[t] = "half"
      BY <1>4, Moves
    <3> QED
      BY <3>1, <3>2
  <2> QED
    BY <1>1, <1>2, <2>1, <2>2
<1> QED
  BY <1>3, <1>4

\* The file grows at its end while it is there.
LEMMA FileGrows ==
  ASSUME TypeOK, [Next]_vars, ~Closed'
  PROVE  Len(file') \in Nat /\ Len(file) \in Nat /\ Len(file) <= Len(file')
<1>0. Typed
  BY TypedIsTypeOK
<1>1. file \in Seq(LineCell) /\ Len(file) \in Nat
  BY <1>0 DEF Typed
<1>2. CASE file' = file
  BY <1>1, <1>2
<1>3. CASE file' # file
  <2>1. PICK s \in Stream : WriteItem(s) \/ WriteRest(s)
    BY <1>3, FileChanges
  <2> QED
    BY <2>1, WriteTypes
<1> QED
  BY <1>2, <1>3

\* Where a tailing reader stands changes by its own steps only.
LEMMA ReaderMoves ==
  ASSUME TypeOK, [Next]_vars, NEW c \in Stream
  PROVE  \/ ReadLine(c) \/ ReadEOF(c) \/ IsDone(c) \/ NotDone(c)
         \/ pos'[c] = pos[c] /\ line'[c] = line[c]
<1>0. Typed
  BY TypedIsTypeOK
<1> DEFINE Still == pos'[c] = pos[c] /\ line'[c] = line[c]
<1>1. ASSUME NEW s \in Stream, StreamStep(s) \/ ContextDone(s) \/ Fails(s)
      PROVE  \/ s = c /\ (ReadLine(s) \/ ReadEOF(s) \/ IsDone(s) \/ NotDone(s))
             \/ Still
  <2>1. CASE ProducerStep(s) \/ Begin(s)
    BY <2>1 DEF Begin, ProducerStep, AppendRefused, Flush, MarkDone, Teardown, WriteItem, WriteRest
  <2>2. CASE Reset(s) \/ NextLine(s) \/ NextEnd(s) \/ Poll(s) \/ ContextDone(s) \/ Fails(s)
    BY <2>2 DEF Reset, NextLine, NextEnd, Poll, ContextDone, Fails
  <2>3. CASE ReadLine(s) \/ ReadEOF(s) \/ IsDone(s) \/ NotDone(s)
    BY <1>0, <2>3 DEF ReadLine, ReadEOF, IsDone, NotDone, Typed
  <2> QED
    BY <1>1, <2>1, <2>2, <2>3 DEF StreamStep, ProducerStep
<1>2. ASSUME (\E p \in Process : Close(p)) \/ Cancel \/ UNCHANGED vars PROVE Still
  BY <1>2 DEF Close, Cancel, vars
<1> QED
  BY <1>1, <1>2 DEF Next, Over

\* A tailing reader stays inside the file.
LEMMA InFileStep ==
  ASSUME TypeOK, Places, Turns, AllOver, InFile, [Next]_vars
  PROVE  InFile'
<1>0. Typed
  BY TypedIsTypeOK
<1> SUFFICES ASSUME ~Closed', NEW c \in Of("immediate")', ~HasEnded(c)'
             PROVE  pos'[c] \in 0..Len(file') /\ line'[c] \in 0..pos'[c]
  BY DEF InFile
<1>1. c \in Of("immediate") /\ c \in Stream /\ ~HasEnded(c) /\ ~Closed
  BY KindsStay, ClosedStays DEF Of
<1>2. /\ pos[c] \in 0..Len(file) /\ line[c] \in 0..pos[c]
      /\ Len(file) \in Nat /\ Len(file') \in Nat /\ Len(file) <= Len(file')
      /\ pos \in [Stream -> Nat] /\ line \in [Stream -> Nat]
  BY <1>0, <1>1, FileGrows DEF InFile, Typed
<1>3. CASE ReadLine(c)
  <2>1. LineEnd(pos[c]) \in (pos[c] + 1)..Len(file)
    <3>1. LineEnd(pos[c]) # 0 /\ pos[c] \in Nat
      BY <1>2, <1>3 DEF ReadLine
    <3> QED
      BY <3>1, LineEndIs
  <2>2. pos'[c] = LineEnd(pos[c]) /\ line'[c] = line[c]
    BY <1>1, <1>2, <1>3 DEF ReadLine
  <2> QED
    BY <1>2, <2>1, <2>2
<1>4. CASE ReadEOF(c)
  <2>1. pos'[c] = Len(file) /\ line'[c] = Len(file) - pos[c]
    BY <1>1, <1>2, <1>4 DEF ReadEOF
  <2> QED
    BY <1>2, <2>1
<1>5. CASE IsDone(c)
  <2>1. pos'[c] = pos[c] /\ line'[c] = 0
    BY <1>1, <1>2, <1>5 DEF IsDone
  <2> QED
    BY <1>2, <2>1
<1>6. CASE NotDone(c)
  <2>1. pos'[c] = pos[c] - line[c] /\ line'[c] = 0
    BY <1>1, <1>2, <1>6 DEF NotDone, Rewound
  <2> QED
    BY <1>2, <2>1
<1>7. CASE pos'[c] = pos[c] /\ line'[c] = line[c]
  BY <1>2, <1>7
<1> QED
  BY <1>1, <1>3, <1>4, <1>5, <1>6, <1>7, ReaderMoves

\* The sentinel is written by the producers, and stays.
LEMMA DoneChanges ==
  ASSUME TypeOK, [Next]_vars, ~Closed'
  PROVE  /\ done \subseteq done'
         /\ \A s \in done' \ done : MarkDone(s)
<1> DEFINE Goal == done' = done \/ \E s \in Stream : MarkDone(s) /\ done' = done \cup {s}
<1>1. ASSUME NEW s \in Stream, StreamStep(s) \/ ContextDone(s) \/ Fails(s)
      PROVE  Goal
  <2>1. CASE Begin(s) \/ AppendRefused(s) \/ Flush(s) \/ Teardown(s) \/ Reset(s) \/ WriteItem(s) \/ WriteRest(s)
    BY <2>1 DEF Begin, AppendRefused, Flush, Teardown, Reset, WriteItem, WriteRest
  <2>2. CASE NextLine(s) \/ NextEnd(s) \/ ReadLine(s) \/ ReadEOF(s) \/ IsDone(s)
    BY <2>2 DEF NextLine, NextEnd, ReadLine, ReadEOF, IsDone
  <2>3. CASE NotDone(s) \/ Poll(s) \/ ContextDone(s) \/ Fails(s)
    BY <2>3 DEF NotDone, Poll, ContextDone, Fails
  <2>4. CASE MarkDone(s)
    BY <2>4 DEF MarkDone
  <2> QED
    BY <1>1, <2>1, <2>2, <2>3, <2>4 DEF StreamStep
<1>2. ASSUME NEW p \in Process, Close(p) PROVE done' = done
  <2>1. CASE plan.keep
    BY <1>2, <2>1 DEF Close
  <2>2. CASE ~plan.keep
    <3>1. mode' = [mode EXCEPT ![p] = "closed"] /\ plan' = plan
      BY <1>2 DEF Close
    <3>2. mode'[p] = "closed"
      BY <3>1 DEF TypeOK
    <3> QED
      BY <2>2, <3>1, <3>2 DEF Closed
  <2> QED
    BY <2>1, <2>2
<1>3. ASSUME Cancel \/ UNCHANGED vars PROVE done' = done
  BY <1>3 DEF Cancel, vars
<1>4. Goal
  BY <1>1, <1>2, <1>3 DEF Next, Over
<1> QED
  BY <1>4

\* A consumer that is at its end stays there: nobody appends any more.
LEMMA FinishedStep ==
  ASSUME TypeOK, Places, Turns, AllOver, InFile, Finished, [Next]_vars
  PROVE  Finished'
<1>0. Typed
  BY TypedIsTypeOK
<1> SUFFICES ASSUME ~Closed'
             PROVE  /\ \A c \in Of("deferred")' : pc'[c] \in {"next", "ok"} => NoneAppends(c)'
                    /\ \A c \in Of("deferred")', s \in Of("producer")' :
                         plan'.process[s] # plan'.process[c] /\ pc'[c] # "idle" => HasEnded(s)'
                    /\ \A c \in Of("immediate")' \ late' : pc'[c] = "ok" => AllDone'
                    /\ \A s \in done' : pc'[s] \in {"teardown", "ok", "failed"}
  BY DEF Finished
<1>1. /\ ~Closed /\ plan' = plan
      /\ Of("producer")' = Of("producer") /\ Of("deferred")' = Of("deferred")
      /\ Of("immediate")' = Of("immediate")
      /\ \A t \in Stream : HasEnded(t) => HasEnded(t)'
      /\ \A k : Of(k) \subseteq Stream
      /\ done \subseteq done' /\ late \subseteq late' /\ done \subseteq Stream
  BY <1>0, ClosedStays, KindsStay, DoneChanges, Moves DEF Of, Typed
<1>2. /\ \A c \in Of("deferred") : pc[c] \in {"next", "ok"} => NoneAppends(c)
      /\ \A c \in Of("deferred"), s \in Of("producer") :
           plan.process[s] # plan.process[c] /\ pc[c] # "idle" => HasEnded(s)
      /\ \A c \in Of("immediate") \ late : pc[c] = "ok" => AllDone
      /\ \A s \in done : pc[s] \in {"teardown", "ok", "failed"}
  BY <1>1 DEF Finished
<1>3. ASSUME NEW c \in Of("deferred"), NEW s \in Of("producer"),
             plan.process[s] # plan.process[c], pc'[c] # "idle"
      PROVE  HasEnded(s)'
  <2>1. c \in Stream /\ s \in Stream
    BY <1>1
  <2>2. CASE pc[c] # "idle"
    BY <1>1, <1>2, <1>3, <2>1, <2>2
  <2>3. CASE pc[c] = "idle"
    <3>2. Begin(c)
      BY <1>3, <2>1, <2>3, Moves
    <3>3. s \in plan.after[c]
      BY <1>3, PlanFacts
    <3>4. HasEnded(s)
      BY <3>2, <3>3 DEF Begin
    <3> QED
      BY <1>1, <2>1, <3>4
  <2> QED
    BY <2>2, <2>3
<1>4. ASSUME NEW c \in Of("deferred"), pc'[c] \in {"next", "ok"} PROVE NoneAppends(c)'
  <2>0. c \in Stream /\ c \in Streams /\ plan.kind[c] = "deferred" /\ plan.process[c] \in Process
    BY <1>1, PlanFacts DEF Of, Streams, Consumers
  <2> DEFINE Idle(s) == \/ HasEnded(s)
                        \/ /\ plan.process[s] = plan.process[c] /\ pc[s] # "half"
                           /\ mode[plan.process[s]] \in {"reading", "closed"}
  <2>1. ASSUME NEW s \in Of("producer"), Idle(s) PROVE Idle(s)'
    <3>1. s \in Stream /\ plan.process[s] \in Process
      BY <1>1, PlanFacts
    <3>2. CASE HasEnded(s)
      BY <1>1, <3>1, <3>2
    <3>3. CASE ~HasEnded(s)
      <4>1. /\ plan.process[s] = plan.process[c] /\ pc[s] # "half"
            /\ mode[plan.process[s]] \in {"reading", "closed"}
        BY <2>1, <3>3
      <4>2. mode'[plan.process[s]] \in {"reading", "closed"}
        BY <3>1, <4>1, ModesStep
      <4>3. ASSUME WriteItem(s) PROVE FALSE
        <5>1. pc[s] = "append" /\ mode[plan.process[s]] # "reading"
          BY <4>3 DEF WriteItem, MayAppend
        <5>2. mode[plan.process[s]] \in {"writing", "reading"}
          BY <3>1, <5>1, OneAppends
        <5> QED
          BY <4>1, <5>1, <5>2
      <4>4. pc'[s] # "half"
        BY <3>1, <4>1, <4>3, Moves
      <4> QED
        BY <1>1, <4>1, <4>2, <4>4
    <3> QED
      BY <3>2, <3>3
  <2>2. CASE pc[c] \in {"next", "ok"}
    <3>1. \A s \in Of("producer") : Idle(s)
      BY <1>2, <2>2 DEF NoneAppends
    <3>2. \A s \in Of("producer") : Idle(s)'
      BY <2>1, <3>1
    <3> QED
      BY <1>1, <3>2 DEF NoneAppends
  <2>3. CASE pc[c] \notin {"next", "ok"}
    <3>1. Reset(c)
      <4>1. ASSUME Teardown(c) PROVE FALSE
        <5>1. c \in Of("producer")
          BY <2>0, <4>1, OneAppends DEF Teardown
        <5> QED
          BY <2>0, <5>1 DEF Of
      <4>2. ASSUME IsDone(c) PROVE FALSE
        BY <4>2 DEF IsDone, Places
      <4>3. ~NextEnd(c)
        BY <2>3 DEF NextEnd
      <4> QED
        BY <1>4, <2>0, <2>3, <4>1, <4>2, <4>3, ToNext
    <3>2. Active(c) /\ mode' = [mode EXCEPT ![plan.process[c]] = "reading"] /\ pc[c] = "reset"
          /\ pc' = [pc EXCEPT ![c] = "next"]
      BY <3>1 DEF Reset, Active, HasEnded, Ended, Goto
    <3>3. ASSUME NEW s \in Of("producer") PROVE Idle(s)'
      <4>1. s \in Stream /\ s \in Streams /\ s # c
        BY <1>1, <2>0 DEF Of, Streams
      <4>2. CASE plan.process[s] # plan.process[c]
        <5>1. HasEnded(s)
          BY <1>2, <3>2, <4>2
        <5> QED
          BY <1>1, <4>1, <5>1
      <4>3. CASE plan.process[s] = plan.process[c]
        <5>1. ~Active(s)
          BY <2>0, <3>2, <4>1, <4>3 DEF Turns
        <5>2. pc'[s] = pc[s] /\ pc[s] # "half"
          BY <1>0, <2>0, <3>2, <4>1, <5>1 DEF Typed, Active, HasEnded, Ended
        <5>3. mode'[plan.process[s]] = "reading"
          BY <1>0, <2>0, <3>2, <4>3 DEF Typed
        <5> QED
          BY <1>1, <4>3, <5>2, <5>3
      <4> QED
        BY <4>2, <4>3
    <3> QED
      BY <1>1, <3>3 DEF NoneAppends
  <2> QED
    BY <2>2, <2>3
<1>5. ASSUME NEW c \in Of("immediate") \ late', pc'[c] = "ok" PROVE AllDone'
  <2>1. c \in Stream /\ plan.kind[c] = "immediate" /\ c \notin late
    BY <1>1 DEF Of
  <2>0. AllDone => AllDone'
    BY <1>1 DEF AllDone
  <2>2. CASE pc[c] = "ok"
    BY <1>2, <2>0, <2>1, <2>2
  <2>3. CASE IsDone(c)
    <3>1. late' = late \cup {r \in {c} : ~(Of("producer") \subseteq done)}
      BY <2>3 DEF IsDone
    <3> QED
      BY <2>0, <3>1 DEF AllDone
  <2>4. ASSUME Teardown(c) PROVE FALSE
    <3>1. c \in Of("producer")
      BY <2>1, <2>4, OneAppends DEF Teardown
    <3> QED
      BY <2>1, <3>1 DEF Of
  <2>5. ASSUME NextEnd(c) PROVE FALSE
    BY <2>5 DEF NextEnd, Places, Ended
  <2> QED
    BY <1>5, <2>1, <2>2, <2>3, <2>4, <2>5, ToNext
<1>6. ASSUME NEW s \in done' PROVE pc'[s] \in {"teardown", "ok", "failed"}
  <2>1. CASE s \in done
    <3>1. s \in Stream /\ pc[s] \in {"teardown", "ok", "failed"}
      BY <1>1, <1>2, <2>1
    <3>2. CASE pc[s] = "teardown"
      BY <3>1, <3>2, Moves
    <3>3. CASE pc[s] # "teardown"
      <4>1. HasEnded(s)
        BY <3>1, <3>3 DEF HasEnded, Ended
      <4>2. pc'[s] = pc[s]
        BY <3>1, <4>1, Moves
      <4> QED
        BY <3>1, <4>2
    <3> QED
      BY <3>2, <3>3
  <2>2. CASE s \notin done
    <3>1. MarkDone(s)
      BY <2>2, DoneChanges
    <3>2. pc[s] = "mark" /\ pc' = [pc EXCEPT ![s] = "teardown"]
      BY <3>1 DEF MarkDone, Goto
    <3>4. s \in Stream
      <4>1. TypeOK'
        BY TypeStep
      <4> QED
        BY <4>1 DEF TypeOK
    <3> QED
      BY <1>0, <3>2, <3>4 DEF Typed
  <2> QED
    BY <2>1, <2>2
<1> QED
  BY <1>1, <1>3, <1>4, <1>5, <1>6

\* What a consumer has been given stays so when its step is another's.
LEMMA GivenStays ==
  ASSUME NEW c \in Stream, GivenTo(c), plan' = plan, file' = file, got'[c] = got[c],
         pc'[c] = pc[c], pos'[c] = pos[c], line'[c] = line[c],
         pc[c] = "next" => rpos'[plan.process[c]] = rpos[plan.process[c]],
         pc[c] = "eof" /\ AllDone' => AllDone
  PROVE  GivenTo(c)'
BY DEF GivenTo

\* It stays so too when the file grows, unless the consumer is at its end.
LEMMA GivenGrows ==
  ASSUME TypeOK, NEW c \in Stream, GivenTo(c), NEW x, file' = Append(file, x),
         UNCHANGED <<plan, done, mode, rpos, pos, line, got>>, pc'[c] = pc[c],
         pc[c] # "ok", ~(pc[c] = "eof" /\ AllDone)
  PROVE  GivenTo(c)'
<1>1. file \in Seq(LineCell) /\ Len(file) \in Nat
  BY TypedIsTypeOK DEF Typed
<1>2. Len(file') = Len(file) + 1
  BY <1>1
<1>3. ASSUME NEW n \in 0..Len(file)
      PROVE  /\ Boundary(file, n) => Boundary(file', n)
             /\ Through(file, got[c], n) => Through(file', got[c], n)
  <2>1. /\ Boundary(Append(file, x), n) <=> Boundary(file, n)
        /\ Through(file, got[c], n) => Through(Append(file, x), got[c], n)
    BY <1>1, AppendKeepsLines
  <2> QED
    BY <2>1
<1>4. PICK n \in 0..Len(file) : Through(file, got[c], n)
  BY DEF GivenTo
<1>5. \E m \in 0..Len(file') : Through(file', got[c], m)
  BY <1>1, <1>2, <1>3, <1>4
<1>6. ASSUME NEW m, Boundary(file, m), Through(file, got[c], m)
      PROVE  Boundary(file', m) /\ Through(file', got[c], m)
  <2>1. m \in 0..Len(file)
    BY <1>6 DEF Boundary
  <2> QED
    BY <1>3, <1>6, <2>1
<1> QED
  BY <1>5, <1>6 DEF GivenTo, AllDone, Of

\* A step that only takes the consumer to another place.
LEMMA GivenAtEnd ==
  ASSUME NEW c \in Stream, GivenTo(c), file' = file, got'[c] = got[c],
         \/ pc'[c] \in {"failed", "cancelled"}
         \/ pc'[c] = "ok" /\ Through(file, got[c], Len(file)) /\ Len(file) \in Nat
  PROVE  GivenTo(c)'
<1>1. CASE pc'[c] \in {"failed", "cancelled"}
  BY <1>1 DEF GivenTo
<1>2. CASE pc'[c] = "ok" /\ Through(file, got[c], Len(file)) /\ Len(file) \in Nat
  <2>1. Len(file) \in 0..Len(file)
    BY <1>2
  <2> QED
    BY <1>2, <2>1 DEF GivenTo
<1> QED
  BY <1>1, <1>2

\* At the beginning of the file nothing has been given.
LEMMA NothingYet ==
  ASSUME TypeOK
  PROVE  Boundary(file, 0) /\ Through(file, <<>>, 0) /\ 0 \in 0..Len(file)
<1>1. Len(file) \in Nat
  BY TypedIsTypeOK DEF Typed
<1>2. LinesIn(file, 0) = 0
  BY LinesInStep
<1> QED
  BY <1>1, <1>2 DEF Boundary, Through

\* A consumer that reads the next line is given it.
LEMMA GivenNext ==
  ASSUME TypeOK, NEW c \in Stream, NEW n \in Nat, Boundary(file, n), Through(file, got[c], n),
         LineEnd(n) # 0, \A k \in 1..Len(file) : file[k].start <=> Boundary(file, k - 1),
         got' = [got EXCEPT ![c] = Append(@, Record(file[LineEnd(n)].item, file[n + 1].start))]
  PROVE  /\ LineEnd(n) \in 0..Len(file) /\ Boundary(file, LineEnd(n))
         /\ Through(file, got'[c], LineEnd(n))
<1>0. Typed
  BY TypedIsTypeOK
<1> DEFINE k == LineEnd(n)
<1>1. k \in (n + 1)..Len(file) /\ file[k].end /\ \A j \in (n + 1)..(k - 1) : ~file[j].end
  BY LineEndIs
<1> HIDE DEF k
<1>2. Len(file) \in Nat /\ n + 1 \in 1..Len(file) /\ (n + 1) - 1 = n /\ k \in 1..Len(file)
  BY <1>0, <1>1 DEF Typed
<1>3. file[n + 1].start
  BY <1>2
<1>4. file[n + 1].start = TRUE
  <2>1. file[n + 1].start \in BOOLEAN
    BY <1>0, <1>2, CellTypes
  <2> QED
    BY <1>3, <2>1
<1> DEFINE r == Record(file[k].item, TRUE)
<1>5. got'[c] = Append(got[c], r)
  BY <1>0, <1>4 DEF Typed, k
<1>6. got[c] \in Seq(GivenRecord) /\ file \in Seq(LineCell)
  BY <1>0 DEF Typed
<1>7. Through(file, Append(got[c], r), k)
  <2>1. r = Record(file[k].item, TRUE)
    OBVIOUS
  <2> HIDE DEF r
  <2> QED
    BY <1>1, <1>6, <2>1, ThroughNext
<1>8. Boundary(file, k) /\ k \in 0..Len(file)
  BY <1>1, <1>2 DEF Boundary
<1> QED
  BY <1>5, <1>7, <1>8 DEF k

\* A deferred consumer's steps.
LEMMA DeferredGiven ==
  ASSUME TypeOK, Places, Turns, AllOver, FileOk, Finished, Intact, [Next]_vars,
         NEW s \in Stream, Reset(s) \/ NextLine(s) \/ NextEnd(s),
         NEW c \in Consumers, GivenTo(c)
  PROVE  GivenTo(c)'
<1>0. Typed
  BY TypedIsTypeOK
<1>1. /\ s \in Streams /\ Active(s) /\ c \in Stream /\ c \in Streams
      /\ plan.process[s] \in Process /\ plan.process[c] \in Process
      /\ pc \in [Stream -> Place] /\ got \in [Stream -> Seq(GivenRecord)] /\ rpos \in [Process -> Nat]
  BY <1>0, KindsStay, PlanFacts
     DEF Reset, NextLine, NextEnd, Places, Active, HasEnded, Ended, Typed
<1>2. CASE c # s
  <2>1. pc[c] = "next" => plan.process[c] # plan.process[s]
    <3> SUFFICES ASSUME pc[c] = "next", plan.process[c] = plan.process[s] PROVE FALSE
      OBVIOUS
    <3>1. Active(c)
      BY DEF Active, HasEnded, Ended
    <3> QED
      BY <1>1, <1>2, <3>1 DEF Turns
  <2>2. pc[c] = "next" => rpos'[plan.process[c]] = rpos[plan.process[c]]
    <3>1. CASE Reset(s)
      BY <1>1, <2>1, <3>1 DEF Reset
    <3>2. CASE NextLine(s)
      BY <1>1, <2>1, <3>2 DEF NextLine
    <3>3. CASE NextEnd(s)
      BY <3>3 DEF NextEnd
    <3> QED
      BY <3>1, <3>2, <3>3
  <2>3. /\ plan' = plan /\ file' = file /\ got'[c] = got[c] /\ pc'[c] = pc[c]
        /\ pos' = pos /\ line' = line /\ done' = done
    BY <1>1, <1>2 DEF Reset, NextLine, NextEnd, Give, Goto
  <2>4. AllDone' => AllDone
    BY <2>3 DEF AllDone, Of
  <2> QED
    BY <1>1, <2>2, <2>3, <2>4, GivenStays
<1>3. CASE c = s /\ Reset(s)
  <2>1. got[c] = <<>> /\ got'[c] = <<>>
    BY <1>3 DEF GivenTo, Reset
  <2>2. rpos'[plan.process[c]] = 0 /\ pc'[c] = "next" /\ file' = file /\ plan' = plan
    BY <1>1, <1>3 DEF Reset, Goto
  <2> QED
    BY <2>1, <2>2, NothingYet DEF GivenTo
<1>4. CASE c = s /\ NextLine(s)
  <2> DEFINE p == plan.process[c]
             n == rpos[p]
             k == LineEnd(n)
  <2>1. /\ pc[c] = "next" /\ k # 0 /\ n \in Nat
        /\ got' = [got EXCEPT ![c] = Append(@, Record(file[k].item, file[n + 1].start))]
        /\ rpos' = [rpos EXCEPT ![p] = k]
        /\ plan' = plan /\ file' = file /\ pc' = pc
    BY <1>1, <1>4 DEF NextLine, Give
  <2>2. Boundary(file, n) /\ Through(file, got[c], n)
    BY <2>1 DEF GivenTo
  <2>3. \A j \in 1..Len(file) : file[j].start <=> Boundary(file, j - 1)
    BY DEF FileOk
  <2>4. k \in 0..Len(file) /\ Boundary(file, k) /\ Through(file, got'[c], k)
    <3> HIDE DEF n
    <3> QED
      BY <1>1, <2>1, <2>2, <2>3, GivenNext
  <2>5. rpos'[p] = k /\ pc'[c] = "next"
    BY <1>1, <2>1
  <2> HIDE DEF k
  <2> QED
    BY <2>1, <2>4, <2>5 DEF GivenTo
<1>5. CASE c = s /\ NextEnd(s)
  <2>1. /\ pc[c] = "next" /\ rpos[plan.process[c]] = Len(file) /\ pc'[c] = "ok"
        /\ file' = file /\ got' = got
    BY <1>1, <1>5 DEF NextEnd, Goto
  <2>2. Through(file, got[c], Len(file)) /\ Len(file) \in Nat
    BY <1>0, <2>1 DEF GivenTo, Typed
  <2> QED
    BY <1>1, <2>1, <2>2, GivenAtEnd
<1> QED
  BY <1>2, <1>3, <1>4, <1>5

\* A tailing reader's steps.
LEMMA ReaderGiven ==
  ASSUME TypeOK, Places, Turns, AllOver, FileOk, InFile, Finished, Intact, [Next]_vars,
         NEW s \in Stream, ReadLine(s) \/ ReadEOF(s) \/ IsDone(s) \/ NotDone(s) \/ Poll(s),
         NEW c \in Consumers \ late', GivenTo(c)
  PROVE  GivenTo(c)'
<1>0. Typed
  BY TypedIsTypeOK
<1>1. /\ c \in Stream /\ pc \in [Stream -> Place] /\ got \in [Stream -> Seq(GivenRecord)]
      /\ pos \in [Stream -> Nat] /\ line \in [Stream -> Nat] /\ Len(file) \in Nat
  BY <1>0, KindsStay DEF Typed
<1>2. CASE c # s
  <2>1. /\ plan' = plan /\ file' = file /\ got'[c] = got[c] /\ pc'[c] = pc[c]
        /\ pos'[c] = pos[c] /\ line'[c] = line[c] /\ done' = done /\ rpos' = rpos
    <3>1. CASE ReadLine(s)
      BY <1>1, <1>2, <3>1 DEF ReadLine, Give
    <3>2. CASE ReadEOF(s)
      BY <1>1, <1>2, <3>2 DEF ReadEOF, Goto
    <3>3. CASE IsDone(s) /\ line[s] > 0
      BY <1>1, <1>2, <3>3 DEF IsDone, Goto, Give
    <3>4. CASE IsDone(s) /\ ~(line[s] > 0)
      BY <1>1, <1>2, <3>4 DEF IsDone, Goto
    <3>5. CASE NotDone(s) \/ Poll(s)
      BY <1>1, <1>2, <3>5 DEF NotDone, Poll, Goto
    <3> QED
      BY <3>1, <3>2, <3>3, <3>4, <3>5
  <2>2. AllDone' => AllDone
    BY <2>1 DEF AllDone, Of
  <2> QED
    BY <1>1, <2>1, <2>2, GivenStays
<1>3. CASE c = s /\ ReadLine(s)
  <2> DEFINE n == pos[c]
             k == LineEnd(n)
  <2>1. /\ pc[c] = "read" /\ k # 0 /\ n \in Nat
        /\ got' = [got EXCEPT ![c] = Append(@, Record(file[k].item, file[n + 1].start))]
        /\ pos' = [pos EXCEPT ![c] = k]
        /\ plan' = plan /\ file' = file /\ pc' = pc /\ line' = line
    BY <1>1, <1>3 DEF ReadLine, Give
  <2>2. line[c] = 0 /\ n - 0 = n
    BY <2>1 DEF GivenTo
  <2>3. Boundary(file, n) /\ Through(file, got[c], n)
    BY <2>1, <2>2 DEF GivenTo
  <2>4. \A j \in 1..Len(file) : file[j].start <=> Boundary(file, j - 1)
    BY DEF FileOk
  <2>5. k \in 0..Len(file) /\ Boundary(file, k) /\ Through(file, got'[c], k)
    <3> HIDE DEF n
    <3> QED
      BY <1>1, <2>1, <2>3, <2>4, GivenNext
  <2>6. pos'[c] = k /\ pc'[c] = "read" /\ line'[c] = 0 /\ k - 0 = k
    BY <1>1, <2>1, <2>2, <2>5
  <2> HIDE DEF k
  <2> QED
    BY <2>1, <2>5, <2>6 DEF GivenTo
<1>4. CASE c = s /\ ReadEOF(s)
  <2>1. /\ pc[c] = "read" /\ LineEnd(pos[c]) = 0
        /\ pos'[c] = Len(file) /\ line'[c] = Len(file) - pos[c] /\ pc'[c] = "eof"
        /\ plan' = plan /\ file' = file /\ got' = got /\ done' = done
    BY <1>1, <1>4 DEF ReadEOF, Goto
  <2>2. line[c] = 0 /\ pos[c] - 0 = pos[c] /\ pos[c] \in Nat
    BY <1>1, <2>1 DEF GivenTo
  <2>3. Boundary(file, pos[c]) /\ Through(file, got[c], pos[c])
    BY <2>1, <2>2 DEF GivenTo
  <2>4. pos'[c] - line'[c] = pos[c]
    BY <1>1, <2>1, <2>2
  <2>5. ASSUME AllDone PROVE pos[c] = Len(file)
    <3>2. \A t \in Of("producer") : pc[t] # "half"
      BY <2>5 DEF Finished, Intact, AllDone
    <3>3. ~\E t \in Streams : pc[t] = "half"
      <4> SUFFICES ASSUME NEW t \in Streams, pc[t] = "half" PROVE FALSE
        OBVIOUS
      <4>1. t \in Of("producer")
        BY KindsStay, OneAppends
      <4> QED
        BY <3>2, <4>1
    <3>4. Boundary(file, Len(file))
      BY <3>3 DEF FileOk
    <3>5. \A j \in (pos[c] + 1)..Len(file) : ~file[j].end
      BY <2>1, <2>2, LineEndIs
    <3>6. pos[c] \in 0..Len(file)
      BY <2>3 DEF Boundary
    <3>7. Len(file) = 0 \/ file[Len(file)].end
      BY <3>4 DEF Boundary
    <3>8. pos[c] < Len(file) => Len(file) \in (pos[c] + 1)..Len(file)
      BY <1>1, <2>2
    <3>9. ~(pos[c] < Len(file))
      BY <1>1, <2>2, <3>5, <3>7, <3>8
    <3> QED
      BY <1>1, <3>6, <3>9
  <2>6. AllDone' => pos'[c] = Len(file) /\ line'[c] = 0
    <3>1. AllDone' => AllDone
      BY <2>1 DEF AllDone, Of
    <3> QED
      BY <1>1, <2>1, <2>5, <3>1
  <2>7. pos[c] \in 0..Len(file)
    BY <2>3 DEF Boundary
  <2> QED
    BY <2>1, <2>3, <2>4, <2>6, <2>7 DEF GivenTo
<1>5. CASE c = s /\ IsDone(s)
  <2>1. pc[c] = "eof" /\ AllDone /\ file' = file
    BY <1>5 DEF IsDone, AllDone
  <2>2. line[c] = 0 /\ pos[c] = Len(file) /\ ~(line[c] > 0) /\ Len(file) - 0 = Len(file)
    BY <1>1, <2>1 DEF GivenTo
  <2>3. pc'[c] = "ok" /\ got' = got
    BY <1>1, <1>5, <2>2 DEF IsDone, Goto
  <2>4. Through(file, got[c], Len(file))
    BY <2>1, <2>2 DEF GivenTo
  <2> QED
    BY <1>1, <2>1, <2>3, <2>4, GivenAtEnd
<1>6. CASE c = s /\ NotDone(s)
  <2>1. /\ pc[c] = "eof" /\ pos'[c] = pos[c] - line[c] /\ line'[c] = 0 /\ pc'[c] = "wait"
        /\ file' = file /\ got' = got
    BY <1>1, <1>6 DEF NotDone, Goto, Rewound
  <2>2. Boundary(file, pos[c] - line[c]) /\ Through(file, got[c], pos[c] - line[c])
    BY <2>1 DEF GivenTo
  <2>3. pos[c] - line[c] \in 0..Len(file)
    BY <2>2 DEF Boundary
  <2>4. pos'[c] - line'[c] = pos[c] - line[c]
    BY <1>1, <2>1, <2>3
  <2> QED
    BY <2>1, <2>2, <2>3, <2>4 DEF GivenTo
<1>7. CASE c = s /\ Poll(s)
  <2>1. /\ pc[c] = "wait" /\ pc'[c] = "read" /\ file' = file /\ got' = got
        /\ pos' = pos /\ line' = line
    BY <1>1, <1>7 DEF Poll, Goto
  <2> QED
    BY <2>1 DEF GivenTo
<1> QED
  BY <1>2, <1>3, <1>4, <1>5, <1>6, <1>7

\* A producer's steps: what it appends comes behind what a consumer has been given,
\* and nobody that is at its end is left out.
LEMMA ProducerGiven ==
  ASSUME TypeOK, Places, Turns, Written, Finished, Intact', [Next]_vars,
         NEW s \in Stream, ProducerStep(s), NEW c \in Consumers \ late', GivenTo(c)
  PROVE  GivenTo(c)'
<1>0. Typed
  BY TypedIsTypeOK
<1>1. /\ s \in Of("producer") /\ c \in Stream /\ s # c
      /\ pc \in [Stream -> Place] /\ ~Closed
  <2>1. pc[s] \in {"append", "half", "mark", "teardown"}
    BY DEF ProducerStep, AppendRefused, WriteItem, WriteRest, Flush, Drained, MarkDone, Teardown
  <2>2. s \in Of("producer")
    BY <2>1, OneAppends
  <2> QED
    BY <1>0, <2>1, <2>2, KindsStay, IntactStays DEF Typed, Consumers, Of
<1>2. CASE AppendRefused(s) \/ Flush(s) \/ Teardown(s)
  <2>1. /\ UNCHANGED <<plan, file, done, rpos, pos, line, got>> /\ pc'[c] = pc[c]
    BY <1>1, <1>2 DEF AppendRefused, Flush, Teardown, Goto
  <2>2. AllDone' => AllDone
    BY <2>1 DEF AllDone, Of
  <2> QED
    BY <1>1, <2>1, <2>2, GivenStays
<1>3. CASE MarkDone(s)
  <2>1. UNCHANGED <<plan, file, rpos, pos, line, got>> /\ pc'[c] = pc[c] /\ pc[c] # "eof"
    BY <1>1, <1>3 DEF MarkDone, Goto
  <2> QED
    BY <1>1, <2>1, GivenStays
<1>4. CASE WriteItem(s) \/ WriteRest(s)
  <2>0. pc[s] \in {"append", "half"}
    BY <1>4 DEF WriteItem, WriteRest
  <2>1. ~HasEnded(s) /\ ~AllDone
    BY <1>1, <2>0 DEF HasEnded, Ended, AllDone, Finished
  <2>2. c \in Of("deferred") \/ c \in Of("immediate")
    BY DEF Consumers
  <2>3. ASSUME pc[c] = "ok" PROVE FALSE
    <3>1. CASE c \in Of("immediate")
      <4>1. c \notin late
        BY Moves
      <4> QED
        BY <1>1, <2>1, <2>3, <3>1, <4>1 DEF Finished
    <3>2. CASE c \in Of("deferred")
      <4>1. NoneAppends(c)
        BY <1>1, <2>3, <3>2 DEF Finished
      <4>2. mode[plan.process[s]] \in {"reading", "closed"} /\ pc[s] # "half"
        BY <1>1, <2>1, <4>1 DEF NoneAppends
      <4>3. mode[plan.process[s]] \in {"writing", "reading"}
        BY <1>1, <2>0, OneAppends
      <4>4. mode[plan.process[s]] # "reading"
        BY <1>4, <4>2 DEF WriteItem, WriteRest, MayAppend
      <4> QED
        BY <4>2, <4>3, <4>4
    <3> QED
      BY <2>2, <3>1, <3>2
  <2>5. pc'[c] = pc[c]
    BY <1>1, <1>4 DEF WriteItem, WriteRest, Goto
  <2>6. UNCHANGED <<plan, done, mode, rpos, pos, line, got>>
    BY <1>4 DEF WriteItem, WriteRest
  <2>7. PICK x : file' = Append(file, x)
    BY <1>4, Writes
  <2> QED
    BY <1>1, <2>1, <2>3, <2>5, <2>6, <2>7, GivenGrows
<1> QED
  BY <1>2, <1>3, <1>4 DEF ProducerStep

\* What consumers have been given goes on being the lines.
LEMMA GivenStep ==
  ASSUME TypeOK, Places, Turns, AllOver, Written, FileOk, InFile, Finished, Given, [Next]_vars
  PROVE  Given'
<1>0. Typed
  BY TypedIsTypeOK
<1> SUFFICES ASSUME Intact', NEW c \in Consumers' \ late' PROVE GivenTo(c)'
  BY DEF Given
<1>1. /\ Intact /\ ~Closed' /\ plan' = plan /\ c \in Consumers \ late /\ c \in Stream
      /\ c \in Consumers \ late'
      /\ done' = done => (AllDone' => AllDone)
  BY IntactStays, KindsStay, Moves DEF AllDone
<1>2. GivenTo(c) /\ pc \in [Stream -> Place]
  BY <1>0, <1>1 DEF Given, Typed
<1>3. ASSUME NEW s \in Stream, Begin(s) PROVE GivenTo(c)'
  <2>1. UNCHANGED <<plan, file, done, rpos, pos, line, got>>
    BY <1>3 DEF Begin
  <2>2. CASE s # c
    <3>1. pc'[c] = pc[c]
      BY <1>1, <1>2, <1>3, <2>2 DEF Begin, Goto
    <3> QED
      BY <1>1, <1>2, <2>1, <3>1, GivenStays
  <2>3. CASE s = c
    <3>1. pc[c] = "idle" /\ pc'[c] \in {"reset", "read"}
      BY <1>1, <1>2, <1>3, <2>3 DEF Begin, Goto, Consumers, Of
    <3>2. got[c] = <<>> /\ pos[c] = 0 /\ line[c] = 0 /\ 0 - 0 = 0
      BY <1>2, <3>1 DEF GivenTo
    <3>3. got'[c] = <<>> /\ pos'[c] = 0 /\ line'[c] = 0 /\ file' = file
      BY <2>1, <3>2
    <3> QED
      BY <3>1, <3>2, <3>3, NothingYet DEF GivenTo
  <2> QED
    BY <2>2, <2>3
<1>4. ASSUME NEW s \in Stream, Fails(s) \/ ContextDone(s) PROVE GivenTo(c)'
  <2>1. UNCHANGED <<plan, file, done, rpos, pos, line, got>>
    BY <1>4 DEF Fails, ContextDone
  <2>2. pc'[c] = pc[c] \/ pc'[c] \in {"failed", "cancelled"}
    BY <1>1, <1>2, <1>4 DEF Fails, ContextDone, Goto
  <2> QED
    BY <1>1, <1>2, <2>1, <2>2, GivenStays, GivenAtEnd
<1>5. ASSUME NEW s \in Stream, ProducerStep(s) PROVE GivenTo(c)'
  BY <1>1, <1>2, <1>5, ProducerGiven
<1>6. ASSUME NEW s \in Stream, Reset(s) \/ NextLine(s) \/ NextEnd(s) PROVE GivenTo(c)'
  BY <1>1, <1>2, <1>6, DeferredGiven
<1>7. ASSUME NEW s \in Stream, ReadLine(s) \/ ReadEOF(s) \/ IsDone(s) \/ NotDone(s) \/ Poll(s)
      PROVE  GivenTo(c)'
  BY <1>1, <1>2, <1>7, ReaderGiven
<1>8. ASSUME NEW p \in Process, Close(p) PROVE GivenTo(c)'
  <2>1. plan.keep
    <3> SUFFICES ASSUME ~plan.keep PROVE FALSE
      OBVIOUS
    <3>1. mode'[p] = "closed"
      BY <1>0, <1>8 DEF Close, Typed
    <3> QED
      BY <1>1, <3>1 DEF Closed
  <2>2. UNCHANGED <<plan, file, done, rpos, pc, pos, line, got>>
    BY <1>8, <2>1 DEF Close
  <2> QED
    BY <1>1, <1>2, <2>2, GivenStays
<1>9. CASE Cancel \/ UNCHANGED vars
  <2>1. UNCHANGED <<plan, file, done, rpos, pc, pos, line, got>>
    BY <1>9 DEF Cancel, vars
  <2> QED
    BY <1>1, <1>2, <2>1, GivenStays
<1> QED
  BY <1>3, <1>4, <1>5, <1>6, <1>7, <1>8, <1>9 DEF Next, StreamStep, ProducerStep, Over

-----------------------------------------------------------------------------
(* The theorems.                                                            *)

\* Nothing has been written or read at first.
LEMMA QueueInit ==
  ASSUME Init
  PROVE  QueueInv
<1>1. TypeOK
  <2>1. <<>> \in Seq(LineCell) /\ <<>> \in Seq(GivenRecord)
    OBVIOUS
  <2>2. cancelled \in BOOLEAN
    BY Zenon DEF Init
  <2>3. Typed
    BY <2>1, <2>2 DEF Init, Typed, Place
  <2> QED
    BY <2>3, TypedIsTypeOK
<1>2. Places /\ Turns
  <2>1. \A s \in Streams : plan.process[s] \in Process /\ s \in Stream
    BY <1>1, PlanFacts DEF Streams, Consumers, Of
  <2> QED
    BY <2>1 DEF Init, Places, Turns, Active, HasEnded, Ended, Streams, Consumers, Of
<1>3. AllOver /\ ~Closed
  BY DEF Init, AllOver, Closed
<1>4. FileOk
  <2>1. Len(file) = 0
    BY DEF Init
  <2>2. Boundary(file, 0)
    BY <1>1, NothingYet
  <2>3. ~\E s \in Streams : pc[s] = "half"
    BY DEF Init, Streams, Consumers, Of
  <2> QED
    BY <2>1, <2>2, <2>3 DEF FileOk
<1>5. InFile
  <2>1. \A c \in Of("immediate") : pos[c] = 0 /\ line[c] = 0 /\ c \in Stream
    BY DEF Init, Of
  <2>2. 0 \in 0..Len(file)
    BY <1>1, NothingYet
  <2> QED
    BY <2>1, <2>2 DEF InFile
<1>8. Written
  <2>1. Len(file) = 0 /\ wpos = [p \in Process |-> 0]
    BY DEF Init
  <2>2. \A s \in Streams : pc[s] # "half"
    BY DEF Init, Streams, Consumers, Of
  <2> QED
    BY <2>1, <2>2 DEF Written
<1>6. Finished
  BY DEF Init, Finished, Of
<1>7. Given
  <2> SUFFICES ASSUME NEW c \in Consumers PROVE GivenTo(c)
    BY DEF Given
  <2>1. /\ c \in Stream /\ pc[c] = "idle" /\ pos[c] = 0 /\ line[c] = 0 /\ got[c] = <<>>
    BY DEF Init, Consumers, Of
  <2> QED
    BY <1>1, <2>1, NothingYet DEF GivenTo
<1> QED
  BY <1>1, <1>2, <1>3, <1>4, <1>5, <1>6, <1>7, <1>8 DEF QueueInv

\* The invariant is inductive: no step of a producer, of a consumer or of the parent
\* leaves it (queue.go, and the queues in APIConnection.ReadDataflow).
THEOREM QueueCorrect == Spec => []QueueInv
<1>1. Init => QueueInv
  BY QueueInit
<1>2. QueueInv /\ [Next]_vars => QueueInv'
  <2> SUFFICES ASSUME QueueInv, [Next]_vars PROVE QueueInv'
    OBVIOUS
  <2>1. TypeOK /\ Places /\ Turns /\ AllOver /\ Written /\ FileOk /\ InFile /\ Finished /\ Given
    BY DEF QueueInv
  <2>2. TypeOK'
    BY <2>1, TypeStep
  <2>3. Places'
    BY <2>1, PlacesStep
  <2>4. Turns'
    BY <2>1, TurnsStep
  <2>5. AllOver'
    BY <2>1, AllOverStep
  <2>6. FileOk'
    BY <2>1, FileStep
  <2>7. InFile'
    BY <2>1, InFileStep
  <2>8. Finished'
    BY <2>1, FinishedStep
  <2>9. Given'
    BY <2>1, GivenStep
  <2>10. Written'
    BY <2>1, WrittenStep
  <2> QED
    BY <2>2, <2>3, <2>4, <2>5, <2>6, <2>7, <2>8, <2>9, <2>10 DEF QueueInv
<1> QED
  BY <1>1, <1>2, PTL DEF Spec

\* Every variable keeps its type.
THEOREM TypeCorrect == Spec => []TypeOK
<1>1. QueueInv => TypeOK
  BY DEF QueueInv
<1> QED
  BY <1>1, QueueCorrect, PTL

\* As long as one process has written the file at most, every consumer is given its lines
\* from the first on, whole, in order and none twice, however many streams of that process
\* append and however many streams and processes read - unless the sentinel misled it
\* (Queue.Next, QueueReader.Next).
THEOREM BroadcastCorrect == Spec => []Broadcast
<1>1. QueueInv => Broadcast
  <2> SUFFICES ASSUME QueueInv, Intact, NEW c \in Consumers \ late
               PROVE  /\ Len(got[c]) <= Len(Lines)
                      /\ \A i \in 1..Len(got[c]) : got[c][i] = Lines[i]
    BY DEF Broadcast
  <2>1. Typed /\ GivenTo(c) /\ c \in Stream
    BY TypedIsTypeOK DEF QueueInv, Given, Consumers, Of
  <2>2. PICK n \in 0..Len(file) : Through(file, got[c], n)
    BY <2>1 DEF GivenTo
  <2>3. file \in Seq(LineCell) /\ got[c] \in Seq(GivenRecord)
    BY <2>1 DEF Typed
  <2> QED
    BY <2>2, <2>3, ThroughIsPrefix DEF Lines
<1> QED
  BY <1>1, QueueCorrect, PTL

\* A consumer that ended normally has been given every line of the queue, and no line
\* follows, with the same two exceptions (Append refuses, MarkDone).
THEOREM ReadsComplete == Spec => []ReadIsComplete
<1>1. QueueInv => ReadIsComplete
  <2> SUFFICES ASSUME QueueInv, Intact, NEW c \in Consumers \ late, pc[c] = "ok"
               PROVE  got[c] = Lines
    BY DEF ReadIsComplete
  <2>1. Typed /\ GivenTo(c) /\ c \in Stream
    BY TypedIsTypeOK DEF QueueInv, Given, Consumers, Of
  <2>2. PICK n \in 0..Len(file) : Through(file, got[c], n) /\ n = Len(file)
    BY <2>1 DEF GivenTo
  <2>3. file \in Seq(LineCell) /\ got[c] \in Seq(GivenRecord)
    BY <2>1 DEF Typed
  <2> QED
    BY <2>2, <2>3, ThroughIsPrefix DEF Lines
<1> QED
  BY <1>1, QueueCorrect, PTL

=============================================================================
