-------------------------- MODULE StagedLoad_proofs --------------------------
(***************************************************************************)
(* Proofs about StagedLoad: the four safety invariants of its run, for any  *)
(* streams, rows, limits and faults.                                        *)
(*                                                                          *)
(* None of them is inductive.  LoadInv adds what ties the counts to the     *)
(* files: a stream's count is the rows in its files plus the row in the     *)
(* encoder's hand, less if a write failed (Accounts); a file that was       *)
(* announced is in the channel, with the importer, or loaded (Passage);     *)
(* and what is known when the import has returned (After).                  *)
(***************************************************************************)
EXTENDS StagedLoad, FiniteSetTheorems, TLAPS

(***************************************************************************)
(* The inductive invariant.                                                 *)
(***************************************************************************)
\* The row an encoder has taken and not yet flushed.
Hand(s) == IF enc[s] \in {"lock", "flush"} THEN 1 ELSE 0
\* The file that a changed column has begun.
Extra(s) == IF alter = "done" /\ ~fresh[s] THEN 1 ELSE 0

Over == {"fail", "drain", "done"}         \* the file has been announced
Queued == {ready[i] : i \in 1..Len(ready)}

Untouched ==
  /\ \A s \in Streams : enc[s] = "idle" /\ proc[s] = "idle" /\ count[s] = 0 /\ file[s] = 0
  /\ \A f \in Files : w[f] = "none"
Begun == \A s \in Streams : enc[s] # "idle" /\ proc[s] # "idle"

Folder ==
  /\ wd \in {"prepare", "failed", "lost"} => Untouched
  /\ wd = "streams" => Begun
  /\ wd = "closed" => \/ Untouched /\ err /\ MayFail("prepare")
                      \/ Begun /\ \A s \in Streams : proc[s] = "done"
  /\ wd = "prepare" => ~err
  /\ wd = "failed" => MayFail("prepare")
  /\ wd = "lost" => MayFail("client")

Encoders ==
  /\ srcErr # {} => err
  /\ \A s \in Streams :
       /\ Hand(s) <= count[s] /\ count[s] <= plan.rows[s]
       /\ file[s] <= 1 + (count[s] - Hand(s)) + Extra(s)
       /\ enc[s] \in {"row", "lock", "flush"} => s \in plan.streams
       /\ s \in plan.streams /\ enc[s] # "idle" => file[s] >= 1
       /\ s \notin plan.streams => file[s] = 0
       /\ fresh[s] => alter = "done"
       /\ enc[s] = "done" => count[s] = plan.rows[s] \/ err

Takers ==
  \A s \in Streams :
    /\ taken[s] <= file[s]
    /\ \A i \in 1..MaxFiles : w[<<s, i>>] # "none" <=> i <= taken[s]
    /\ proc[s] = "leave" => err
    /\ proc[s] = "done" => /\ Unfinished(s) = {}
                           /\ err \/ (enc[s] = "done" /\ taken[s] = file[s])

Parts ==
  \A f \in Files :
    /\ w[f] \in {"none", "create"} => disk[f] = 0
    /\ bad[f] = "no" => w[f] \in {"none", "create", "writing", "done"}
    /\ w[f] \in {"none", "create", "writing"} => bad[f] = "no"
    /\ bad[f] # "no" /\ w[f] \in {"drain", "done"} => err

\* A single file that is begun again loses its rows.
Accounts ==
  \A s \in Streams : ~(plan.single /\ file[s] > 1) =>
    /\ Rows(disk, Of(s)) + Hand(s) <= count[s]
    /\ (\A f \in Of(s) : bad[f] = "no") => Rows(disk, Of(s)) + Hand(s) = count[s]
    /\ (\E f \in Of(s) : bad[f] = "short") => Rows(disk, Of(s)) + Hand(s) < count[s]

Once ==
  /\ \A i, j \in 1..Len(ready) : ready[i] = ready[j] => i = j
  /\ \A f \in Queued : w[f] \in Over
  /\ \A f \in Files : ld[f] # "none" => w[f] \in Over /\ f \notin Queued
  /\ pc = "start" => w[cur] \in Over /\ cur \notin Queued /\ ld[cur] = "none"

Places ==
  /\ pc \in {"recv", "start"} => Is({"duckdb", "bigquery", "stage", "starrocks"})
  /\ pc = "wait" => Is({"bigquery", "stage", "starrocks"})
  /\ pc = "copy" => Is({"stage", "bucket"})
  /\ pc = "write" => Is({"file", "bucket"})
  /\ pc = "stage" => Is({"stage"})
  /\ pc \in {"returned", "merge"} => ~Is({"file"})
  /\ Is({"duckdb", "file", "bucket"}) \/ pc = "stage" => \A f \in Files : ld[f] = "none"
  /\ pc \in {"copy", "returned", "merge"} => Running = {}
  /\ pc = "end" <=> result # "none"
  /\ merged => pc = "end" /\ Running = {}
  /\ result = "success" => merged
  /\ alter \in {"locked", "waiting", "altering"} => Is({"bigquery"})
  /\ \A f \in Files : ld[f] = "adding" => Is({"starrocks"})

\* A file is removed when its load has ended, or when all have.
Removed ==
  /\ \A f \in Files : ld[f] = "running" => f \notin gone
  /\ \A f \in Files : ld[f] = "ended" => f \in gone
  /\ Is({"bigquery", "stage", "starrocks"}) /\ pc \in {"stage", "recv", "start", "wait"}
       => \A f \in gone : ld[f] = "ended"
  /\ Is({"duckdb"}) /\ pc \in {"recv", "start"}
       => /\ \A f \in gone : w[f] \in Over /\ f \notin Queued /\ bad[f] # "absent"
                             /\ table[f] = disk[f]
          /\ pc = "start" => cur \notin gone

\* Where the announced files are.
Passage ==
  /\ Is({"duckdb"}) /\ pc \in {"recv", "start"} => \A f \in Files :
       /\ w[f] \in Over => f \in Queued \/ f \in gone \/ (pc = "start" /\ f = cur)
       /\ f \notin gone => table[f] = 0
  /\ Is({"bigquery", "stage", "starrocks"}) /\ pc \in {"stage", "recv", "start", "wait"} /\ ~err
       => \A f \in Files :
          /\ w[f] \in Over => f \in Queued \/ ld[f] # "none" \/ (pc = "start" /\ f = cur)
          /\ ld[f] = "ended" /\ Is({"stage"}) => staged[f] = disk[f]
          /\ ld[f] \in {"adding", "ended"} /\ ~Is({"stage"}) => table[f] = disk[f]
  /\ \A f \in Files : ld[f] \in {"none", "running"} =>
       /\ Is({"stage"}) => staged[f] = 0
       /\ Is({"bigquery", "starrocks"}) => table[f] = 0
  /\ pc = "wait" /\ ~err => Queued = {} /\ ChnClosed

\* A failed part or a failed source is behind every error of a duckdb load that has begun.
Causes ==
  Is({"duckdb"}) /\ err /\ srcErr = {} /\ Begun => \E f \in Files : bad[f] # "no"

\* The folder could not be made; all is written and loaded; duckdb has not seen an error.
NothingDone == Untouched /\ wd \in {"failed", "closed"} /\ MayFail("prepare")
               /\ cnt = 0 /\ table = [f \in Files |-> 0]
AllDone == /\ wd = "closed" /\ ~err /\ table = disk /\ cnt = Total
           /\ \A f \in Files : w[f] # "none" => f \in gone
Unread == Is({"duckdb"}) /\ err /\ wd = "closed" /\ (srcErr # {} \/ cnt > Rows(table, Files))

After ==
  /\ pc = "copy" => \/ Untouched /\ wd \in {"failed", "closed"} /\ MayFail("prepare")
                       /\ staged = [f \in Files |-> 0] /\ Is({"stage"})
                    \/ wd = "closed" /\ ~err /\ (Is({"stage"}) => staged = disk)
  /\ pc = "returned" => NothingDone \/ AllDone \/ Unread
  /\ pc = "merge" => AllDone \/ (Unread /\ srcErr # {})
  /\ merged => \/ wd = "closed" /\ ~err /\ (Is({"file"}) \/ table = disk)
               \/ Is({"duckdb"}) /\ srcErr # {} /\ result = "failed"
  /\ result = "success" =>
       wd = "closed" /\ ~err /\ (Is({"file"}) \/ \A f \in Files : w[f] # "none" => f \in gone)
  /\ result = "empty" => \/ \A s \in Streams : plan.rows[s] = 0
                         \/ /\ plan.rows[First] = 0
                            /\ MayFail("prepare") \/ Is({"file"}) \/ (Is({"duckdb"}) /\ srcErr # {})

\* Without faults nothing goes wrong but the sum of StreamLoad.
Clean ==
  plan.faults = {} =>
    /\ ~err /\ srcErr = {} /\ wd \notin {"failed", "lost"} /\ \A f \in Files : bad[f] = "no"
    /\ result = "failed" => /\ Is({"starrocks"}) /\ tally # Total
                            /\ wd = "closed" /\ table = disk /\ Running = {}

LoadInv == /\ TypeOK /\ Folder /\ Encoders /\ Takers /\ Parts /\ Accounts
           /\ Once /\ Places /\ Removed /\ Passage /\ Causes /\ After /\ Clean
           /\ NoLoadDuringAlter

(***************************************************************************)
(* Finite sets in classes.                                                  *)
(***************************************************************************)
\* There is an injection into a finite set that is not smaller.
LEMMA InjectionExists ==
  ASSUME NEW S, NEW T, IsFiniteSet(S), IsFiniteSet(T), Cardinality(S) <= Cardinality(T)
  PROVE  \E f : f \in Injection(S, T)
<1> DEFINE m == Cardinality(S)
           n == Cardinality(T)
<1>1. m \in Nat /\ n \in Nat /\ m <= n
  BY FS_CardinalityType
<1>2. PICK b : b \in Bijection(1..m, S)
  BY FS_CardinalityType DEF ExistsBijection
<1>3. PICK c : c \in Bijection(1..n, T)
  BY FS_CardinalityType DEF ExistsBijection
<1> HIDE DEF m, n
<1> DEFINE at(x) == CHOOSE k \in 1..m : b[k] = x
           f == [x \in S |-> c[at(x)]]
<1>4. \A x \in S : at(x) \in 1..m /\ b[at(x)] = x
  BY <1>2 DEF Bijection, Surjection
<1>5. \A x \in S : at(x) \in 1..n
  BY <1>1, <1>4
<1> HIDE DEF at
<1>6. f \in [S -> T]
  BY <1>3, <1>5 DEF Bijection, Injection, IsInjective
<1>7. \A x, y \in S : f[x] = f[y] => x = y
  BY <1>3, <1>4, <1>5 DEF Bijection, Injection, IsInjective
<1>8. QED
  BY <1>6, <1>7 DEF Injection, IsInjective

\* The elements of S that p puts into the class d.
Class(S, p, d) == {x \in S : p[x] = d}

\* Two finite sets whose elements are divided into the same classes: the one that has no
\* more elements in any class has no more in all, and has fewer if it has in some class.
LEMMA ByClasses ==
  ASSUME NEW X, NEW Y, IsFiniteSet(X), IsFiniteSet(Y), NEW D,
         NEW p \in [X -> D], NEW q \in [Y -> D],
         \A d \in D : Cardinality(Class(X, p, d)) <= Cardinality(Class(Y, q, d))
  PROVE  /\ Cardinality(X) <= Cardinality(Y)
         /\ Cardinality(X) = Cardinality(Y) => \A d \in D :
              Cardinality(Class(X, p, d)) = Cardinality(Class(Y, q, d))
<1> DEFINE XX(d) == Class(X, p, d)
           YY(d) == Class(Y, q, d)
           i == [d \in D |-> CHOOSE f : f \in Injection(XX(d), YY(d))]
           G == [x \in X |-> i[p[x]][x]]
<1>1. \A d \in D : IsFiniteSet(XX(d)) /\ IsFiniteSet(YY(d))
  <2>1. SUFFICES ASSUME NEW d \in D PROVE IsFiniteSet(XX(d)) /\ IsFiniteSet(YY(d))
    OBVIOUS
  <2>2. XX(d) \in SUBSET X /\ YY(d) \in SUBSET Y
    BY DEF Class
  <2> HIDE DEF XX, YY
  <2>3. IsFiniteSet(XX(d))
    BY <2>2, FS_Subset
  <2>4. IsFiniteSet(YY(d))
    BY <2>2, FS_Subset
  <2>5. QED
    BY <2>3, <2>4
<1>2. \A d \in D : i[d] \in Injection(XX(d), YY(d))
  <2>1. SUFFICES ASSUME NEW d \in D PROVE i[d] \in Injection(XX(d), YY(d))
    OBVIOUS
  <2>2. Cardinality(XX(d)) <= Cardinality(YY(d))
    OBVIOUS
  <2> HIDE DEF XX, YY
  <2>3. \E f : f \in Injection(XX(d), YY(d))
    BY <1>1, <2>2, InjectionExists
  <2>4. QED
    BY <2>3
<1> HIDE DEF i
<1>3. \A x \in X : G[x] \in Y /\ q[G[x]] = p[x]
  <2>1. SUFFICES ASSUME NEW x \in X PROVE G[x] \in Y /\ q[G[x]] = p[x]
    OBVIOUS
  <2>2. i[p[x]] \in [XX(p[x]) -> YY(p[x])]
    BY <1>2 DEF Injection, IsInjective
  <2>3. x \in XX(p[x])
    BY DEF Class
  <2>4. G[x] \in YY(p[x])
    BY <2>2, <2>3
  <2>5. QED
    BY <2>4 DEF Class
<1>4. G \in Injection(X, Y)
  <2>1. G \in [X -> Y]
    BY <1>3
  <2>2. ASSUME NEW x \in X, NEW y \in X, G[x] = G[y] PROVE x = y
    <3>1. p[x] = p[y]
      BY <1>3, <2>2
    <3>2. x \in XX(p[x]) /\ y \in XX(p[x])
      BY <3>1 DEF Class
    <3>3. i[p[x]][x] = i[p[x]][y]
      BY <2>2, <3>1
    <3>4. i[p[x]] \in Injection(XX(p[x]), YY(p[x]))
      BY <1>2
    <3>5. QED
      BY <3>2, <3>3, <3>4 DEF Injection, IsInjective
  <2>3. QED
    BY <2>1, <2>2 DEF Injection, IsInjective
<1> DEFINE same == Cardinality(X) = Cardinality(Y)
<1>5. Cardinality(X) <= Cardinality(Y) /\ (same <=> G \in Surjection(X, Y))
  <2> HIDE DEF G
  <2>1. Cardinality(X) <= Cardinality(Y)
    BY <1>4, FS_Injection
  <2>2. same <=> G \in Surjection(X, Y)
    BY <1>4, FS_Injection
  <2>3. QED
    BY <2>1, <2>2
<1>6. ASSUME same, NEW d \in D PROVE Cardinality(XX(d)) = Cardinality(YY(d))
  <2>1. \A y \in Y : \E x \in X : G[x] = y
    BY <1>5, <1>6 DEF Surjection
  <2>2. \A y \in YY(d) : \E x \in XX(d) : i[d][x] = y
    <3>1. SUFFICES ASSUME NEW y \in YY(d) PROVE \E x \in XX(d) : i[d][x] = y
      OBVIOUS
    <3>2. PICK x \in X : G[x] = y
      BY <2>1 DEF Class
    <3>3. p[x] = d
      BY <1>3, <3>2 DEF Class
    <3>4. QED
      BY <3>2, <3>3 DEF Class
  <2>3. i[d] \in Injection(XX(d), YY(d))
    BY <1>2
  <2> HIDE DEF XX, YY
  <2>4. i[d] \in Surjection(XX(d), YY(d))
    BY <2>2, <2>3 DEF Injection, IsInjective, Surjection
  <2>5. QED
    BY <1>1, <2>3, <2>4, FS_Injection
<1>7. QED
  BY <1>5, <1>6

(***************************************************************************)
(* Rows.                                                                    *)
(***************************************************************************)
Cells(content, S) == UNION {{x} \X (1..content[x]) : x \in S}

LEMMA RowsOfCells == \A content, S : Rows(content, S) = Cardinality(Cells(content, S))
  BY DEF Rows, Cells

LEMMA InCells ==
  \A content, S, c : c \in Cells(content, S) <=> \E x \in S : \E k \in 1..content[x] : c = <<x, k>>
  BY DEF Cells

LEMMA CellsFinite ==
  ASSUME NEW S, IsFiniteSet(S), NEW content, \A x \in S : content[x] \in Nat
  PROVE  IsFiniteSet(Cells(content, S)) /\ Rows(content, S) \in Nat
<1> DEFINE T == {{x} \X (1..content[x]) : x \in S}
           f == [x \in S |-> {x} \X (1..content[x])]
<1>1. f \in Surjection(S, T)
  BY DEF Surjection
<1>2. \A t \in T : IsFiniteSet(t)
  <2>1. SUFFICES ASSUME NEW x \in S PROVE IsFiniteSet({x} \X (1..content[x]))
    OBVIOUS
  <2>2. IsFiniteSet({x})
    BY FS_Singleton
  <2>3. content[x] \in Int
    OBVIOUS
  <2>4. IsFiniteSet(1..content[x])
    BY <2>3, FS_Interval
  <2>5. QED
    BY <2>2, <2>4, FS_Product
<1>3. Cells(content, S) = UNION T
  BY DEF Cells
<1> HIDE DEF T, f
<1>4. IsFiniteSet(T)
  BY <1>1, FS_Surjection
<1>5. IsFiniteSet(Cells(content, S))
  BY <1>2, <1>3, <1>4, FS_UNION
<1>6. QED
  BY <1>5, FS_CardinalityType, RowsOfCells

\* Only what is in S counts.
LEMMA RowsSame ==
  \A S, content, other : (\A x \in S : content[x] = other[x]) => Rows(content, S) = Rows(other, S)
<1>1. SUFFICES ASSUME NEW S, NEW content, NEW other, \A x \in S : content[x] = other[x]
               PROVE  Rows(content, S) = Rows(other, S)
  OBVIOUS
<1>2. \A c : c \in Cells(content, S) <=> c \in Cells(other, S)
  <2>1. ASSUME NEW c, c \in Cells(content, S) PROVE c \in Cells(other, S)
    <3>1. PICK x \in S : \E k \in 1..content[x] : c = <<x, k>>
      BY <2>1, InCells
    <3>2. content[x] = other[x]
      BY <1>1
    <3>3. QED
      BY <3>1, <3>2, InCells
  <2>2. ASSUME NEW c, c \in Cells(other, S) PROVE c \in Cells(content, S)
    <3>1. PICK x \in S : \E k \in 1..other[x] : c = <<x, k>>
      BY <2>2, InCells
    <3>2. content[x] = other[x]
      BY <1>1
    <3>3. QED
      BY <3>1, <3>2, InCells
  <2>3. QED
    BY <2>1, <2>2
<1>3. Cells(content, S) = Cells(other, S)
  BY <1>2
<1>4. QED
  BY <1>3, RowsOfCells

LEMMA RowsZero ==
  ASSUME NEW S, IsFiniteSet(S), NEW content, \A x \in S : content[x] \in Nat
  PROVE  Rows(content, S) = 0 <=> \A x \in S : content[x] = 0
<1>1. IsFiniteSet(Cells(content, S))
  BY CellsFinite
<1>2. Rows(content, S) = 0 <=> Cells(content, S) = {}
  BY <1>1, FS_EmptySet, RowsOfCells
<1>3. ASSUME Cells(content, S) = {}, NEW x \in S PROVE content[x] = 0
  <2>1. <<x, 1>> \notin Cells(content, S)
    BY <1>3
  <2>2. 1 \notin 1..content[x]
    BY <2>1, InCells
  <2>3. QED
    BY <2>2
<1>4. ASSUME \A x \in S : content[x] = 0 PROVE Cells(content, S) = {}
  BY <1>4, InCells
<1>5. QED
  BY <1>2, <1>3, <1>4

\* A row more in one place is one row more.
LEMMA RowsAdd ==
  ASSUME NEW S, IsFiniteSet(S), NEW content, \A x \in S : content[x] \in Nat, NEW other,
         NEW x \in S, other[x] = content[x] + 1, \A y \in S \ {x} : other[y] = content[y]
  PROVE  Rows(other, S) = Rows(content, S) + 1
<1> DEFINE C == Cells(content, S)
           new == <<x, content[x] + 1>>
<1>1. IsFiniteSet(C)
  BY CellsFinite
<1>2. new \notin C
  BY InCells
<1>3. Cells(other, S) = C \cup {new}
  <2>1. ASSUME NEW c \in Cells(other, S) PROVE c \in C \cup {new}
    <3>1. PICK y \in S : \E k \in 1..other[y] : c = <<y, k>>
      BY InCells
    <3>0. PICK k \in 1..other[y] : c = <<y, k>>
      BY <3>1
    <3>2. CASE y = x
      <4>1. k \in 1..content[x] \/ k = content[x] + 1
        BY <3>2
      <4>2. QED
        BY <3>0, <3>2, <4>1, InCells
    <3>3. CASE y # x
      BY <3>0, <3>3, InCells
    <3>4. QED
      BY <3>2, <3>3
  <2>2. ASSUME NEW c \in C PROVE c \in Cells(other, S)
    <3>1. PICK y \in S : \E k \in 1..content[y] : c = <<y, k>>
      BY InCells
    <3>0. PICK k \in 1..content[y] : c = <<y, k>>
      BY <3>1
    <3>2. k \in 1..other[y]
      <4>1. CASE y = x
        BY <4>1
      <4>2. CASE y # x
        BY <4>2
      <4>3. QED
        BY <4>1, <4>2
    <3>3. QED
      BY <3>0, <3>2, InCells
  <2>3. new \in Cells(other, S)
    <3>1. content[x] + 1 \in 1..other[x]
      OBVIOUS
    <3>2. QED
      BY <3>1, InCells
  <2>4. QED
    BY <2>1, <2>2, <2>3
<1> HIDE DEF C, new
<1>4. Cardinality(C \cup {new}) = Cardinality(C) + 1
  BY <1>1, <1>2, FS_AddElement
<1>5. QED
  BY <1>3, <1>4, RowsOfCells DEF C

LEMMA FilesFinite == IsFiniteSet(Files) /\ \A s \in Streams : IsFiniteSet(Of(s))
<1>1. IsFiniteSet(1..MaxFiles)
  BY FS_Interval, StagedLoadAssumption
<1>2. IsFiniteSet(Files)
  BY <1>1, FS_Product, StagedLoadAssumption DEF Files
<1>3. ASSUME NEW s \in Streams PROVE IsFiniteSet(Of(s))
  <2>1. Of(s) \in SUBSET Files
    BY DEF Of
  <2>2. QED
    BY <1>2, <2>1, FS_Subset
<1>4. QED
  BY <1>2, <1>3

FileCells(content) == Cells(content, Files)
FileCellsOf(content, s) == {c \in FileCells(content) : c[1][1] = s}
StreamCells(number) == Cells(number, Streams)
StreamCellsOf(number, s) == {c \in StreamCells(number) : c[1] = s}

LEMMA FileCellsByStream ==
  \A content, s : Cardinality(FileCellsOf(content, s)) = Rows(content, Of(s))
<1>1. SUFFICES ASSUME NEW content, NEW s
               PROVE  Cardinality(FileCellsOf(content, s)) = Rows(content, Of(s))
  OBVIOUS
<1>2. ASSUME NEW c \in FileCellsOf(content, s) PROVE c \in Cells(content, Of(s))
  <2>1. c \in Cells(content, Files) /\ c[1][1] = s
    BY DEF FileCellsOf, FileCells
  <2>2. PICK f \in Files : \E k \in 1..content[f] : c = <<f, k>>
    BY <2>1, InCells
  <2>3. f \in Of(s)
    BY <2>1, <2>2 DEF Of
  <2>4. QED
    BY <2>2, <2>3, InCells
<1>3. ASSUME NEW c \in Cells(content, Of(s)) PROVE c \in FileCellsOf(content, s)
  <2>1. PICK f \in Of(s) : \E k \in 1..content[f] : c = <<f, k>>
    BY InCells
  <2>2. f \in Files /\ f[1] = s
    BY DEF Of
  <2>3. c \in Cells(content, Files)
    BY <2>1, <2>2, InCells
  <2>4. c[1][1] = s
    BY <2>1, <2>2
  <2>5. QED
    BY <2>3, <2>4 DEF FileCellsOf, FileCells
<1>4. FileCellsOf(content, s) = Cells(content, Of(s))
  BY <1>2, <1>3
<1>5. QED
  BY <1>4, RowsOfCells

LEMMA StreamCellsByStream ==
  ASSUME NEW number \in [Streams -> Nat], NEW s \in Streams
  PROVE  Cardinality(StreamCellsOf(number, s)) = number[s]
<1>1. ASSUME NEW c \in StreamCellsOf(number, s) PROVE c \in {s} \X (1..number[s])
  <2>1. c \in Cells(number, Streams) /\ c[1] = s
    BY DEF StreamCellsOf, StreamCells
  <2>2. PICK t \in Streams : \E k \in 1..number[t] : c = <<t, k>>
    BY <2>1, InCells
  <2>3. QED
    BY <2>1, <2>2
<1>2. ASSUME NEW c \in {s} \X (1..number[s]) PROVE c \in StreamCellsOf(number, s)
  <2>1. PICK k \in 1..number[s] : c = <<s, k>>
    OBVIOUS
  <2>2. c \in Cells(number, Streams)
    BY <2>1, InCells
  <2>3. QED
    BY <2>1, <2>2 DEF StreamCellsOf, StreamCells
<1>3. StreamCellsOf(number, s) = {s} \X (1..number[s])
  BY <1>1, <1>2
<1> DEFINE n == number[s]
<1>4. n \in Nat
  OBVIOUS
<1> HIDE DEF n
<1>5. IsFiniteSet({s}) /\ Cardinality({s}) = 1
  BY FS_Singleton
<1>6. IsFiniteSet(1..n) /\ Cardinality(1..n) = n
  <2>1. n \in Int
    BY <1>4
  <2>2. IsFiniteSet(1..n)
    BY <2>1, FS_Interval
  <2>3. Cardinality(1..n) = IF 1 > n THEN 0 ELSE n - 1 + 1
    BY <2>1, FS_Interval
  <2>4. QED
    BY <1>4, <2>2, <2>3
<1>7. Cardinality({s} \X (1..n)) = 1 * n
  BY <1>5, <1>6, FS_Product
<1>8. QED
  BY <1>3, <1>4, <1>7 DEF n

FileOwner(content) == [c \in FileCells(content) |-> c[1][1]]
StreamOwner(number) == [c \in StreamCells(number) |-> c[1]]

LEMMA CellClasses ==
  ASSUME NEW content \in [Files -> Nat], NEW number \in [Streams -> Nat]
  PROVE  /\ IsFiniteSet(FileCells(content)) /\ IsFiniteSet(StreamCells(number))
         /\ FileOwner(content) \in [FileCells(content) -> Streams]
         /\ StreamOwner(number) \in [StreamCells(number) -> Streams]
         /\ \A s \in Streams :
              /\ Cardinality(Class(FileCells(content), FileOwner(content), s)) = Rows(content, Of(s))
              /\ Cardinality(Class(StreamCells(number), StreamOwner(number), s)) = number[s]
         /\ Rows(content, Files) = Cardinality(FileCells(content))
         /\ Rows(number, Streams) = Cardinality(StreamCells(number))
         /\ Rows(content, Files) \in Nat /\ Rows(number, Streams) \in Nat
<1>1. IsFiniteSet(FileCells(content)) /\ Rows(content, Files) \in Nat
  BY FilesFinite, CellsFinite DEF FileCells
<1>2. IsFiniteSet(StreamCells(number)) /\ Rows(number, Streams) \in Nat
  BY CellsFinite, StagedLoadAssumption DEF StreamCells
<1>3. FileOwner(content) \in [FileCells(content) -> Streams]
  <2>1. SUFFICES ASSUME NEW c \in FileCells(content) PROVE c[1][1] \in Streams
    BY DEF FileOwner
  <2>2. PICK f \in Files : \E k \in 1..content[f] : c = <<f, k>>
    BY InCells DEF FileCells
  <2>3. QED
    BY <2>2 DEF Files
<1>4. StreamOwner(number) \in [StreamCells(number) -> Streams]
  <2>1. SUFFICES ASSUME NEW c \in StreamCells(number) PROVE c[1] \in Streams
    BY DEF StreamOwner
  <2>2. PICK s \in Streams : \E k \in 1..number[s] : c = <<s, k>>
    BY InCells DEF StreamCells
  <2>3. QED
    BY <2>2
<1>5. ASSUME NEW s \in Streams
      PROVE  /\ Cardinality(Class(FileCells(content), FileOwner(content), s)) = Rows(content, Of(s))
             /\ Cardinality(Class(StreamCells(number), StreamOwner(number), s)) = number[s]
  <2>1. Class(FileCells(content), FileOwner(content), s) = FileCellsOf(content, s)
    BY DEF FileCellsOf, Class, FileOwner
  <2>2. Class(StreamCells(number), StreamOwner(number), s) = StreamCellsOf(number, s)
    BY DEF StreamCellsOf, Class, StreamOwner
  <2>3. QED
    BY <2>1, <2>2, FileCellsByStream, StreamCellsByStream
<1>6. Rows(content, Files) = Cardinality(FileCells(content))
      /\ Rows(number, Streams) = Cardinality(StreamCells(number))
  BY RowsOfCells DEF FileCells, StreamCells
<1>7. QED
  BY <1>1, <1>2, <1>3, <1>4, <1>5, <1>6

\* The rows of all files are at most those of all streams if it is so for each stream,
\* and then the totals are the same only if the rows of every stream are.
LEMMA RowsByStream ==
  ASSUME NEW content \in [Files -> Nat], NEW number \in [Streams -> Nat],
         \A s \in Streams : Rows(content, Of(s)) <= number[s]
  PROVE  /\ Rows(content, Files) <= Rows(number, Streams)
         /\ Rows(content, Files) = Rows(number, Streams) =>
              \A s \in Streams : Rows(content, Of(s)) = number[s]
<1> DEFINE X == FileCells(content)
           Y == StreamCells(number)
           p == FileOwner(content)
           q == StreamOwner(number)
<1>1. IsFiniteSet(X) /\ IsFiniteSet(Y) /\ p \in [X -> Streams] /\ q \in [Y -> Streams]
  BY CellClasses
<1>2. \A s \in Streams : /\ Cardinality(Class(X, p, s)) = Rows(content, Of(s))
                         /\ Cardinality(Class(Y, q, s)) = number[s]
  BY CellClasses
<1>3. Rows(content, Files) = Cardinality(X) /\ Rows(number, Streams) = Cardinality(Y)
  BY CellClasses
<1> HIDE DEF X, Y, p, q
<1>4. \A s \in Streams : Cardinality(Class(X, p, s)) <= Cardinality(Class(Y, q, s))
  BY <1>2
<1>5. Cardinality(X) <= Cardinality(Y)
  BY <1>1, <1>4, ByClasses
<1>6. Cardinality(X) = Cardinality(Y) => \A s \in Streams :
        Cardinality(Class(X, p, s)) = Cardinality(Class(Y, q, s))
  BY <1>1, <1>4, ByClasses
<1>7. QED
  BY <1>2, <1>3, <1>5, <1>6

\* If the rows of every stream's files are the stream's, so are those of all files.
LEMMA RowsWhole ==
  ASSUME NEW content \in [Files -> Nat], NEW number \in [Streams -> Nat],
         \A s \in Streams : Rows(content, Of(s)) = number[s]
  PROVE  Rows(content, Files) = Rows(number, Streams)
<1> DEFINE X == FileCells(content)
           Y == StreamCells(number)
           p == FileOwner(content)
           q == StreamOwner(number)
<1>1. IsFiniteSet(X) /\ IsFiniteSet(Y) /\ p \in [X -> Streams] /\ q \in [Y -> Streams]
  BY CellClasses
<1>2. \A s \in Streams : /\ Cardinality(Class(X, p, s)) = Rows(content, Of(s))
                         /\ Cardinality(Class(Y, q, s)) = number[s]
  BY CellClasses
<1>3. Rows(content, Files) = Cardinality(X) /\ Rows(number, Streams) = Cardinality(Y)
      /\ Rows(content, Files) \in Nat /\ Rows(number, Streams) \in Nat
  BY CellClasses
<1> HIDE DEF X, Y, p, q
<1>4. \A s \in Streams : /\ Cardinality(Class(X, p, s)) <= Cardinality(Class(Y, q, s))
                         /\ Cardinality(Class(Y, q, s)) <= Cardinality(Class(X, p, s))
  <2>1. \A s \in Streams : /\ Cardinality(Class(X, p, s)) = number[s]
                           /\ Cardinality(Class(Y, q, s)) = number[s]
                           /\ number[s] \in Nat
    BY <1>2
  <2>2. QED
    BY <2>1
<1>5. Cardinality(X) <= Cardinality(Y)
  BY <1>1, <1>4, ByClasses
<1>6. Cardinality(Y) <= Cardinality(X)
  BY <1>1, <1>4, ByClasses
<1>7. QED
  BY <1>3, <1>5, <1>6

(***************************************************************************)
(* The steps by who takes them, and what each leaves alone.                 *)
(***************************************************************************)
FolderStep == Prepare \/ PrepareFails \/ ClientFails \/ ErrorCaptured \/ WriteDataflowReturns
EncoderStep(s) == ColumnsChanged(s) \/ TakeRow(s) \/ Lock(s) \/ Flush(s) \/ Stop(s)
TakerStep(s) == ProcessReader(s) \/ Added(s) \/ StreamDone(s)
PartStep(f) == Create(f) \/ CreateFails(f) \/ Announce(f) \/ PartFails(f) \/ Drained(f)
ColumnStep == \/ \E s \in plan.streams : ChangeColumn(s)
              \/ HandlerWaits \/ HandlerAlters \/ HandlerReturns
LoadStep(f) == LoadEnds(f) \/ AddLoaded(f)
ImportStep == \/ Stage \/ Receive \/ Insert \/ Start \/ LastFile \/ LoadsDone
              \/ Drain \/ NothingToWrite \/ WriteDataflow \/ Copy
TaskStep == Validate \/ Merge

LEMMA StepsOfNext ==
  Next <=> \/ FolderStep \/ ColumnStep \/ ImportStep \/ TaskStep
           \/ \E s \in plan.streams : EncoderStep(s) \/ TakerStep(s)
           \/ \E f \in Files : PartStep(f) \/ LoadStep(f)
  BY DEF Next, FolderStep, EncoderStep, TakerStep, PartStep, ColumnStep, LoadStep, ImportStep, TaskStep

LEMMA FolderFrame ==
  FolderStep => UNCHANGED <<plan, count, inFile, fresh, srcErr, mux, taken, w, bad, disk,
                            ready, alter, mainVars>> /\ (err => err')
<1>1. CASE Prepare
  BY <1>1 DEF Prepare
<1>2. CASE PrepareFails
  BY <1>2 DEF PrepareFails, encVars, partVars
<1>3. CASE ClientFails
  BY <1>3 DEF ClientFails, encVars, partVars
<1>4. CASE ErrorCaptured
  BY <1>4 DEF ErrorCaptured, encVars, partVars
<1>5. CASE WriteDataflowReturns
  BY <1>5 DEF WriteDataflowReturns, encVars, partVars
<1>6. QED
  BY <1>1, <1>2, <1>3, <1>4, <1>5 DEF FolderStep

LEMMA EncoderFrame ==
  ASSUME NEW s, EncoderStep(s)
  PROVE  UNCHANGED <<plan, proc, taken, ready, wd, alter, mainVars>> /\ (err => err')
<1>1. CASE ColumnsChanged(s)
  BY <1>1 DEF ColumnsChanged, partVars
<1>2. CASE TakeRow(s)
  BY <1>2 DEF TakeRow, partVars
<1>3. CASE Lock(s)
  BY <1>3 DEF Lock, partVars
<1>4. CASE Flush(s)
  BY <1>4 DEF Flush
<1>5. CASE Stop(s)
  BY <1>5 DEF Stop, partVars
<1>6. QED
  BY <1>1, <1>2, <1>3, <1>4, <1>5 DEF EncoderStep

LEMMA TakerFrame ==
  ASSUME NEW s, TakerStep(s)
  PROVE  UNCHANGED <<plan, encVars, mux, bad, disk, ready, wd, err, alter, mainVars>>
  BY DEF TakerStep, ProcessReader, Added, StreamDone

LEMMA PartFrame ==
  ASSUME NEW f, PartStep(f)
  PROVE  UNCHANGED <<plan, encVars, mux, proc, taken, wd, alter, mainVars>> /\ (err => err')
<1>1. CASE Create(f)
  BY <1>1 DEF Create
<1>2. CASE CreateFails(f)
  BY <1>2 DEF CreateFails
<1>3. CASE Announce(f)
  BY <1>3 DEF Announce
<1>4. CASE PartFails(f)
  BY <1>4 DEF PartFails
<1>5. CASE Drained(f)
  BY <1>5 DEF Drained
<1>6. QED
  BY <1>1, <1>2, <1>3, <1>4, <1>5 DEF PartStep

LEMMA ColumnFrame ==
  ColumnStep => UNCHANGED <<plan, count, enc, file, inFile, srcErr, partVars, ready, wd, err,
                            mainVars>>
<1>1. ASSUME NEW s, ChangeColumn(s)
      PROVE  UNCHANGED <<plan, count, enc, file, inFile, srcErr, partVars, ready, wd, err, mainVars>>
  BY <1>1 DEF ChangeColumn
<1>2. QED
  BY <1>1 DEF ColumnStep, HandlerWaits, HandlerAlters, HandlerReturns, encVars

LEMMA LoadFrame ==
  ASSUME NEW f, LoadStep(f)
  PROVE  UNCHANGED <<plan, encVars, mux, partVars, ready, wd, alter, pc, cur, cnt, merged, result>>
         /\ (err => err')
<1>1. CASE LoadEnds(f)
  BY <1>1 DEF LoadEnds
<1>2. CASE AddLoaded(f)
  BY <1>2 DEF AddLoaded
<1>3. QED
  BY <1>1, <1>2 DEF LoadStep

LEMMA ImportFrame ==
  ImportStep => UNCHANGED <<plan, encVars, mux, partVars, wd, err, alter, staged, tally, seen>>
  BY DEF ImportStep, Stage, Receive, Insert, Start, LastFile, LoadsDone, Drain, NothingToWrite,
         WriteDataflow, Copy, loadVars, mainVars

LEMMA TaskFrame ==
  TaskStep => UNCHANGED <<plan, encVars, mux, partVars, ready, wd, err, alter, gone, cur,
                          loadVars, cnt>>
  BY DEF TaskStep, Validate, Merge

\* Nobody changes the plan, and an error stays.
LEMMA PlanStays == [Next]_vars => plan' = plan /\ (err => err')
<1>1. CASE UNCHANGED vars
  BY <1>1 DEF vars
<1>2. CASE Next
  BY <1>2, StepsOfNext, FolderFrame, EncoderFrame, TakerFrame, PartFrame, ColumnFrame, LoadFrame,
     ImportFrame, TaskFrame
<1>3. QED
  BY <1>1, <1>2

(***************************************************************************)
(* Types.                                                                   *)
(***************************************************************************)
LEMMA PlanType ==
  ASSUME plan \in Plans
  PROVE  /\ plan.driver \in Drivers /\ plan.streams \subseteq Streams
         /\ plan.rows \in [Streams -> Nat] /\ \A s \in Streams : plan.rows[s] <= MaxRows
         /\ plan.max \in Nat /\ plan.max >= 1 /\ plan.single \in BOOLEAN
         /\ \A s \in Streams \ plan.streams : plan.rows[s] = 0
         /\ plan.single => plan.driver = "file" /\ \E s \in Streams : plan.streams = {s}
<1>1. plan \in Plan
  BY StagedLoadAssumption
<1>2. MaxRows \in Nat
  BY StagedLoadAssumption
<1>3. /\ plan.driver \in Drivers /\ plan.streams \subseteq Streams
      /\ plan.rows \in [Streams -> 0..MaxRows] /\ plan.max \in 1..(MaxRows + 1)
      /\ plan.single \in BOOLEAN
  BY <1>1 DEF Plan
<1>4. plan.rows \in [Streams -> Nat] /\ \A s \in Streams : plan.rows[s] <= MaxRows
  BY <1>2, <1>3
<1>5. plan.max \in Nat /\ plan.max >= 1
  BY <1>2, <1>3
<1>6. /\ \A s \in Streams \ plan.streams : plan.rows[s] = 0
      /\ plan.single => plan.driver = "file" /\ \E s \in Streams : plan.streams = {s}
  BY StagedLoadAssumption
<1>7. QED
  BY <1>3, <1>4, <1>5, <1>6

LEMMA ConstantTypes ==
  /\ MaxRows \in Nat /\ MaxFiles \in Nat /\ MaxFiles >= MaxRows + 2 /\ MaxFiles >= 1
  /\ First \in Streams /\ <<First, 1>> \in Files
<1>1. MaxRows \in Nat /\ MaxFiles \in Nat /\ MaxFiles >= MaxRows + 2 /\ First \in Streams
  BY StagedLoadAssumption
<1>2. MaxFiles >= 1 /\ 1 \in 1..MaxFiles
  BY <1>1
<1>3. QED
  BY <1>1, <1>2 DEF Files

LEMMA TailType == \A S : \A q \in Seq(S) : q # <<>> => Tail(q) \in Seq(S) /\ Head(q) \in S
  OBVIOUS

LEMMA TotalType == count \in [Streams -> Nat] => Total \in Nat
  BY CellsFinite, StagedLoadAssumption DEF Total

EncoderTypes ==
  /\ count \in [Streams -> Nat] /\ file \in [Streams -> Nat] /\ inFile \in [Streams -> Nat]
  /\ fresh \in [Streams -> BOOLEAN] /\ srcErr \subseteq Streams
  /\ enc \in [Streams -> {"idle", "row", "lock", "flush", "done"}]
  /\ mux \in Streams \cup {NoOne, handler} /\ err \in BOOLEAN
FileTypes ==
  /\ taken \in [Streams -> Nat]
  /\ proc \in [Streams -> {"idle", "range", "add", "leave", "done"}]
  /\ w \in [Files -> {"none", "create", "writing", "send", "fail", "drain", "done"}]
  /\ bad \in [Files -> {"no", "short", "absent"}]
  /\ disk \in [Files -> Nat] /\ ready \in Seq(Files)
LoadTypes ==
  /\ ld \in [Files -> {"none", "running", "adding", "ended"}]
  /\ staged \in [Files -> Nat] /\ table \in [Files -> Nat] /\ seen \in [Files -> Nat]
  /\ tally \in Nat /\ gone \subseteq Files
CallerTypes ==
  /\ cnt \in Nat /\ cur \in Files
  /\ wd \in {"prepare", "streams", "failed", "lost", "closed"}
  /\ alter \in {"no", "locked", "waiting", "altering", "done"}
  /\ pc \in {"write", "stage", "recv", "start", "wait", "copy", "returned", "merge", "end"}
  /\ merged \in BOOLEAN /\ result \in {"none", "failed", "empty", "success"}

LEMMA TypeInit == Init => TypeOK
<1> SUFFICES ASSUME Init PROVE TypeOK
  OBVIOUS
<1>1. <<First, 1>> \in Files
  BY ConstantTypes
<1>2. pc \in {"write", "stage", "recv"}
  BY DEF Init
<1>3. QED
  <2>1. plan \in Plans /\ pc \in {"write", "stage", "recv"} /\ cur \in Files
    BY <1>1, <1>2 DEF Init
  <2>2. /\ count \in [Streams -> Nat] /\ file \in [Streams -> Nat] /\ inFile \in [Streams -> Nat]
        /\ taken \in [Streams -> Nat] /\ fresh \in [Streams -> BOOLEAN] /\ srcErr \subseteq Streams
        /\ enc \in [Streams -> {"idle", "row", "lock", "flush", "done"}]
        /\ proc \in [Streams -> {"idle", "range", "add", "leave", "done"}]
        /\ mux \in Streams \cup {NoOne, handler}
    BY DEF Init
  <2>3. /\ w \in [Files -> {"none", "create", "writing", "send", "fail", "drain", "done"}]
        /\ bad \in [Files -> {"no", "short", "absent"}]
        /\ ld \in [Files -> {"none", "running", "adding", "ended"}]
        /\ disk \in [Files -> Nat] /\ staged \in [Files -> Nat] /\ table \in [Files -> Nat]
        /\ seen \in [Files -> Nat]
    BY DEF Init
  <2>4. /\ tally \in Nat /\ cnt \in Nat /\ gone \subseteq Files /\ ready \in Seq(Files)
        /\ wd = "prepare" /\ err = FALSE /\ alter = "no" /\ merged = FALSE /\ result = "none"
    BY DEF Init
  <2>5. QED
    BY <2>1, <2>2, <2>3, <2>4 DEF TypeOK

LEMMA TypeStep == TypeOK /\ [Next]_vars => TypeOK'
<1> SUFFICES ASSUME TypeOK, [Next]_vars PROVE TypeOK'
  OBVIOUS
<1>0. EncoderTypes /\ FileTypes /\ LoadTypes /\ CallerTypes
  BY DEF TypeOK, EncoderTypes, FileTypes, LoadTypes, CallerTypes
<1> DEFINE ws == {"none", "create", "writing", "send", "fail", "drain", "done"}
           bads == {"no", "short", "absent"}
           lds == {"none", "running", "adding", "ended"}
<1>w. w \in [Files -> ws] /\ bad \in [Files -> bads]
  BY <1>0 DEF FileTypes
<1>d. disk \in [Files -> Nat] /\ tally \in Nat /\ ready \in Seq(Files)
  BY <1>0 DEF FileTypes, LoadTypes
<1>p. taken \in [Streams -> Nat] /\ proc \in [Streams -> {"idle", "range", "add", "leave", "done"}]
  BY <1>0 DEF FileTypes
<1>l. ld \in [Files -> lds] /\ gone \subseteq Files
  BY <1>0 DEF LoadTypes
<1>t. staged \in [Files -> Nat] /\ table \in [Files -> Nat] /\ seen \in [Files -> Nat]
  BY <1>0 DEF LoadTypes
<1>1. EncoderTypes'
  <2>1. CASE UNCHANGED vars
    BY <1>0, <2>1 DEF EncoderTypes, vars, encVars
  <2>2. CASE FolderStep
    <3>1. UNCHANGED <<count, inFile, fresh, srcErr, mux>>
      BY <2>2, FolderFrame
    <3>2. /\ enc' \in [Streams -> {"idle", "row", "lock", "flush", "done"}]
          /\ file' \in [Streams -> Nat] /\ err' \in BOOLEAN
      <4>1. CASE Prepare
        BY <1>0, <4>1 DEF Prepare, EncoderTypes
      <4>2. CASE PrepareFails \/ ClientFails \/ ErrorCaptured \/ WriteDataflowReturns
        BY <1>0, <4>2 DEF PrepareFails, ClientFails, ErrorCaptured, WriteDataflowReturns,
           EncoderTypes, encVars
      <4>3. QED
        BY <2>2, <4>1, <4>2 DEF FolderStep
    <3>3. QED
      BY <1>0, <3>1, <3>2 DEF EncoderTypes
  <2>3. ASSUME NEW s \in plan.streams, EncoderStep(s) PROVE EncoderTypes'
    <3>1. s \in Streams
      BY PlanType DEF TypeOK
    <3>2. CASE ColumnsChanged(s)
      BY <1>0, <3>1, <3>2 DEF ColumnsChanged, NextPipe, EncoderTypes
    <3>3. CASE TakeRow(s)
      BY <1>0, <3>1, <3>3 DEF TakeRow, EncoderTypes
    <3>4. CASE Lock(s)
      BY <1>0, <3>1, <3>4 DEF Lock, EncoderTypes
    <3>5. CASE Flush(s)
      <4>1. /\ count' = count /\ fresh' = fresh /\ srcErr' = srcErr /\ err' = err
            /\ mux' = NoOne /\ enc' = [enc EXCEPT ![s] = "row"]
        BY <3>5 DEF Flush
      <4>2. \/ file' = [file EXCEPT ![s] = @ + 1] /\ inFile' = [inFile EXCEPT ![s] = 0]
            \/ file' = file /\ inFile' = [inFile EXCEPT ![s] = @ + 1]
        BY <3>5 DEF Flush, NextPipe
      <4>3. QED
        BY <1>0, <3>1, <4>1, <4>2 DEF EncoderTypes
    <3>6. CASE Stop(s)
      BY <1>0, <3>1, <3>6 DEF Stop, EncoderTypes
    <3>7. QED
      BY <2>3, <3>2, <3>3, <3>4, <3>5, <3>6 DEF EncoderStep
  <2>4. ASSUME NEW s, TakerStep(s) PROVE EncoderTypes'
    BY <1>0, <2>4, TakerFrame DEF EncoderTypes, encVars
  <2>5. ASSUME NEW f, PartStep(f) PROVE EncoderTypes'
    <3>1. UNCHANGED <<encVars, mux>>
      BY <2>5, PartFrame
    <3>2. err' = err \/ err' = TRUE
      BY <2>5 DEF PartStep, Create, CreateFails, Announce, PartFails, Drained
    <3>3. QED
      BY <1>0, <3>1, <3>2 DEF EncoderTypes, encVars
  <2>6. CASE ColumnStep
    <3>1. UNCHANGED <<count, enc, file, inFile, srcErr, err>>
      BY <2>6, ColumnFrame
    <3>2. fresh' \in [Streams -> BOOLEAN] /\ mux' \in Streams \cup {NoOne, handler}
      <4>1. ASSUME NEW s, ChangeColumn(s)
            PROVE  fresh' \in [Streams -> BOOLEAN] /\ mux' \in Streams \cup {NoOne, handler}
        BY <1>0, <4>1 DEF ChangeColumn, EncoderTypes
      <4>2. CASE HandlerWaits \/ HandlerAlters \/ HandlerReturns
        BY <1>0, <4>2 DEF HandlerWaits, HandlerAlters, HandlerReturns, EncoderTypes, encVars
      <4>3. QED
        BY <2>6, <4>1, <4>2 DEF ColumnStep
    <3>3. QED
      BY <1>0, <3>1, <3>2 DEF EncoderTypes
  <2>7. ASSUME NEW f, LoadStep(f) PROVE EncoderTypes'
    <3>1. UNCHANGED <<encVars, mux>>
      BY <2>7, LoadFrame
    <3>2. err' = err \/ err' = TRUE
      BY <2>7 DEF LoadStep, LoadEnds, AddLoaded
    <3>3. QED
      BY <1>0, <3>1, <3>2 DEF EncoderTypes, encVars
  <2>8. CASE ImportStep
    BY <1>0, <2>8, ImportFrame DEF EncoderTypes, encVars
  <2>9. CASE TaskStep
    BY <1>0, <2>9, TaskFrame DEF EncoderTypes, encVars
  <2>10. QED
    BY <2>1, <2>2, <2>3, <2>4, <2>5, <2>6, <2>7, <2>8, <2>9, StepsOfNext
<1>2. FileTypes'
  <2>1. CASE UNCHANGED vars
    BY <1>0, <2>1 DEF FileTypes, vars, partVars
  <2>2. CASE FolderStep
    <3>1. UNCHANGED <<taken, w, bad, disk, ready>>
      BY <2>2, FolderFrame
    <3>2. proc' \in [Streams -> {"idle", "range", "add", "leave", "done"}]
      BY <1>0, <2>2 DEF FolderStep, Prepare, PrepareFails, ClientFails, ErrorCaptured,
         WriteDataflowReturns, FileTypes, partVars
    <3>3. QED
      BY <1>0, <3>1, <3>2 DEF FileTypes
  <2>3. ASSUME NEW s, EncoderStep(s) PROVE FileTypes'
    <3>1. CASE Flush(s)
      <4> DEFINE f == <<s, file[s]>>
      <4>1. /\ \/ w' = w \/ w' = [w EXCEPT ![f] = "send"]
            /\ \/ bad' = bad \/ bad' = [bad EXCEPT ![f] = "short"]
            /\ \/ disk' = disk \/ disk' = [disk EXCEPT ![f] = @ + 1]
                \/ disk' = [disk EXCEPT ![f] = @]
            /\ UNCHANGED <<proc, taken, ready>>
        BY <3>1 DEF Flush
      <4> HIDE DEF f
      <4>2. w' \in [Files -> ws] /\ bad' \in [Files -> bads]
        BY <1>w, <4>1
      <4>3. disk' \in [Files -> Nat]
        BY <1>d, <4>1
      <4>4. QED
        BY <1>0, <4>1, <4>2, <4>3 DEF FileTypes
    <3>2. CASE ~Flush(s)
      BY <1>0, <3>2, <2>3 DEF EncoderStep, ColumnsChanged, TakeRow, Lock, Stop, partVars, FileTypes
    <3>3. QED
      BY <3>1, <3>2
  <2>4. ASSUME NEW s \in plan.streams, TakerStep(s) PROVE FileTypes'
    <3>0. s \in Streams
      BY PlanType DEF TypeOK
    <3>1. CASE ProcessReader(s)
      <4> DEFINE f == <<s, taken[s] + 1>>
      <4>1. /\ taken' = [taken EXCEPT ![s] = @ + 1] /\ proc' = [proc EXCEPT ![s] = "add"]
            /\ w' = [w EXCEPT ![f] = "create"] /\ UNCHANGED <<bad, disk, ready>>
        BY <3>1 DEF ProcessReader
      <4> HIDE DEF f
      <4>2. w' \in [Files -> ws]
        BY <1>w, <4>1
      <4>3. taken' \in [Streams -> Nat]
        BY <1>p, <3>0, <4>1
      <4>4. proc' \in [Streams -> {"idle", "range", "add", "leave", "done"}]
        BY <1>p, <4>1
      <4>5. QED
        BY <1>0, <4>1, <4>2, <4>3, <4>4 DEF FileTypes
    <3>2. CASE Added(s) \/ StreamDone(s)
      BY <1>0, <3>2 DEF Added, StreamDone, FileTypes
    <3>3. QED
      BY <2>4, <3>1, <3>2 DEF TakerStep
  <2>5. ASSUME NEW f \in Files, PartStep(f) PROVE FileTypes'
    <3>1. CASE Create(f)
      BY <1>0, <3>1 DEF Create, FileTypes
    <3>2. CASE CreateFails(f)
      BY <1>0, <3>2 DEF CreateFails, FileTypes
    <3>3. CASE Announce(f)
      <4>1. ready' \in Seq(Files)
        BY <1>0, <3>3 DEF Announce, FileTypes
      <4>2. UNCHANGED <<proc, taken, bad, disk>> /\ w' \in [Files -> ws]
        BY <1>0, <3>3 DEF Announce, FileTypes
      <4>3. QED
        BY <1>0, <4>1, <4>2 DEF FileTypes
    <3>4. CASE PartFails(f)
      BY <1>0, <3>4 DEF PartFails, AfterError, FileTypes
    <3>5. CASE Drained(f)
      BY <1>0, <3>5 DEF Drained, FileTypes
    <3>6. QED
      BY <2>5, <3>1, <3>2, <3>3, <3>4, <3>5 DEF PartStep
  <2>6. CASE ColumnStep
    BY <1>0, <2>6, ColumnFrame DEF FileTypes, partVars
  <2>7. ASSUME NEW f, LoadStep(f) PROVE FileTypes'
    BY <1>0, <2>7, LoadFrame DEF FileTypes, partVars
  <2>8. CASE ImportStep
    <3>1. UNCHANGED <<proc, taken, w, bad, disk>>
      BY <2>8, ImportFrame DEF partVars
    <3>2. ready' = ready \/ (ready # <<>> /\ ready' = Tail(ready))
      BY <2>8 DEF ImportStep, Stage, Receive, Insert, Start, LastFile, LoadsDone, Drain,
         NothingToWrite, WriteDataflow, Copy
    <3>3. ready' \in Seq(Files)
      BY <1>d, <3>2, TailType
    <3>4. QED
      BY <1>0, <3>1, <3>3 DEF FileTypes
  <2>9. CASE TaskStep
    BY <1>0, <2>9, TaskFrame DEF FileTypes, partVars
  <2>10. QED
    BY <2>1, <2>2, <2>3, <2>4, <2>5, <2>6, <2>7, <2>8, <2>9, StepsOfNext
<1>3. LoadTypes'
  <2>1. CASE UNCHANGED vars
    BY <1>0, <2>1 DEF LoadTypes, vars, mainVars, loadVars
  <2>2. CASE FolderStep
    BY <1>0, <2>2, FolderFrame DEF LoadTypes, mainVars, loadVars
  <2>3. ASSUME NEW s, EncoderStep(s) PROVE LoadTypes'
    BY <1>0, <2>3, EncoderFrame DEF LoadTypes, mainVars, loadVars
  <2>4. ASSUME NEW s, TakerStep(s) PROVE LoadTypes'
    BY <1>0, <2>4, TakerFrame DEF LoadTypes, mainVars, loadVars
  <2>5. ASSUME NEW f, PartStep(f) PROVE LoadTypes'
    BY <1>0, <2>5, PartFrame DEF LoadTypes, mainVars, loadVars
  <2>6. CASE ColumnStep
    BY <1>0, <2>6, ColumnFrame DEF LoadTypes, mainVars, loadVars
  <2>7. ASSUME NEW f \in Files, LoadStep(f) PROVE LoadTypes'
    <3>1. CASE LoadEnds(f)
      <4>1. /\ tally' = tally
            /\ (staged' = staged \/ staged' = [staged EXCEPT ![f] = disk[f]])
            /\ (table' = table \/ table' = [table EXCEPT ![f] = disk[f]])
            /\ (seen' = seen \/ seen' = [seen EXCEPT ![f] = tally])
            /\ (gone' = gone \/ gone' = gone \cup {f})
            /\ (ld' = [ld EXCEPT ![f] = "adding"] \/ ld' = [ld EXCEPT ![f] = "ended"])
        BY <3>1 DEF LoadEnds
      <4>2. staged' \in [Files -> Nat] /\ table' \in [Files -> Nat] /\ seen' \in [Files -> Nat]
        BY <1>d, <1>t, <4>1
      <4>3. ld' \in [Files -> lds] /\ gone' \subseteq Files
        BY <1>l, <4>1
      <4>4. QED
        BY <1>d, <4>1, <4>2, <4>3 DEF LoadTypes
    <3>2. CASE AddLoaded(f)
      BY <1>0, <3>2 DEF AddLoaded, LoadTypes
    <3>3. QED
      BY <2>7, <3>1, <3>2 DEF LoadStep
  <2>8. CASE ImportStep
    <3>1. UNCHANGED <<staged, tally, seen>>
      BY <2>8, ImportFrame
    <3>2. Cleaned \subseteq Files
      BY DEF Cleaned
    <3>3. gone' = gone \/ gone' = gone \cup Cleaned \/ gone' = gone \cup {cur}
      BY <2>8 DEF ImportStep, Stage, Receive, Insert, Start, LastFile, LoadsDone, Drain,
         NothingToWrite, WriteDataflow, Copy, Leave, mainVars
    <3>4. ld' = ld \/ ld' = [ld EXCEPT ![cur] = "running"]
      BY <2>8 DEF ImportStep, Stage, Receive, Insert, Start, LastFile, LoadsDone, Drain,
         NothingToWrite, WriteDataflow, Copy, Leave, mainVars, loadVars
    <3>5. table' = table \/ table' = [table EXCEPT ![cur] = disk[cur]] \/ table' = staged
          \/ table' = disk
      BY <2>8 DEF ImportStep, Stage, Receive, Insert, Start, LastFile, LoadsDone, Drain,
         NothingToWrite, WriteDataflow, Copy, Leave, mainVars, loadVars
    <3>6. QED
      BY <1>0, <3>1, <3>2, <3>3, <3>4, <3>5 DEF LoadTypes, FileTypes, CallerTypes
  <2>9. CASE TaskStep
    BY <1>0, <2>9, TaskFrame DEF LoadTypes, loadVars
  <2>10. QED
    BY <2>1, <2>2, <2>3, <2>4, <2>5, <2>6, <2>7, <2>8, <2>9, StepsOfNext
<1>4. CallerTypes'
  <2>1. CASE UNCHANGED vars
    BY <1>0, <2>1 DEF CallerTypes, vars, mainVars
  <2>2. CASE FolderStep
    <3>1. UNCHANGED <<alter, pc, cur, cnt, merged, result>>
      BY <2>2, FolderFrame DEF mainVars
    <3>2. wd' \in {"prepare", "streams", "failed", "lost", "closed"}
      BY <2>2 DEF FolderStep, Prepare, PrepareFails, ClientFails, ErrorCaptured, WriteDataflowReturns
    <3>3. QED
      BY <1>0, <3>1, <3>2 DEF CallerTypes
  <2>3. ASSUME NEW s, EncoderStep(s) PROVE CallerTypes'
    BY <1>0, <2>3, EncoderFrame DEF CallerTypes, mainVars
  <2>4. ASSUME NEW s, TakerStep(s) PROVE CallerTypes'
    BY <1>0, <2>4, TakerFrame DEF CallerTypes, mainVars
  <2>5. ASSUME NEW f, PartStep(f) PROVE CallerTypes'
    BY <1>0, <2>5, PartFrame DEF CallerTypes, mainVars
  <2>6. CASE ColumnStep
    <3>1. UNCHANGED <<wd, pc, cur, cnt, merged, result>>
      BY <2>6, ColumnFrame DEF mainVars
    <3>2. alter' \in {"no", "locked", "waiting", "altering", "done"}
      BY <2>6 DEF ColumnStep, ChangeColumn, HandlerWaits, HandlerAlters, HandlerReturns
    <3>3. QED
      BY <1>0, <3>1, <3>2 DEF CallerTypes
  <2>7. ASSUME NEW f, LoadStep(f) PROVE CallerTypes'
    BY <1>0, <2>7, LoadFrame DEF CallerTypes
  <2>8. CASE ImportStep
    <3>1. UNCHANGED <<wd, alter>>
      BY <2>8, ImportFrame
    <3>2. pc' \in {"write", "stage", "recv", "start", "wait", "copy", "returned", "merge", "end"}
      BY <1>0, <2>8 DEF ImportStep, Stage, Receive, Insert, Start, LastFile, LoadsDone, Drain,
         NothingToWrite, WriteDataflow, Copy, Leave, mainVars, CallerTypes
    <3>3. cnt' = cnt \/ cnt' = 0 \/ cnt' = Total
      BY <2>8 DEF ImportStep, Stage, Receive, Insert, Start, LastFile, LoadsDone, Drain,
         NothingToWrite, WriteDataflow, Copy, Leave, mainVars
    <3>4. result' \in {"none", "failed", "empty", "success"}
      BY <1>0, <2>8 DEF ImportStep, Stage, Receive, Insert, Start, LastFile, LoadsDone, Drain,
         NothingToWrite, WriteDataflow, Copy, Leave, mainVars, CallerTypes
    <3>5. merged' = merged \/ merged' = TRUE
      BY <2>8 DEF ImportStep, Stage, Receive, Insert, Start, LastFile, LoadsDone, Drain,
         NothingToWrite, WriteDataflow, Copy, Leave, mainVars
    <3>6. cur' = cur \/ (ready # <<>> /\ cur' = Head(ready))
      BY <2>8 DEF ImportStep, Stage, Receive, Insert, Start, LastFile, LoadsDone, Drain,
         NothingToWrite, WriteDataflow, Copy, Leave, mainVars
    <3>7. cur' \in Files
      BY <1>0, <3>6 DEF FileTypes, CallerTypes
    <3>8. cnt' \in Nat
      BY <1>0, <3>3, TotalType DEF CallerTypes, EncoderTypes
    <3>9. merged' \in BOOLEAN
      BY <1>0, <3>5 DEF CallerTypes
    <3>10. QED
      BY <1>0, <3>1, <3>2, <3>4, <3>7, <3>8, <3>9 DEF CallerTypes
  <2>9. CASE TaskStep
    <3>1. UNCHANGED <<wd, alter, cur, cnt>>
      BY <2>9, TaskFrame
    <3>2. /\ pc' \in {"write", "stage", "recv", "start", "wait", "copy", "returned", "merge", "end"}
          /\ result' \in {"none", "failed", "empty", "success"} /\ merged' \in BOOLEAN
      BY <1>0, <2>9 DEF TaskStep, Validate, Merge, CallerTypes
    <3>3. QED
      BY <1>0, <3>1, <3>2 DEF CallerTypes
  <2>10. QED
    BY <2>1, <2>2, <2>3, <2>4, <2>5, <2>6, <2>7, <2>8, <2>9, StepsOfNext
<1>5. plan' \in Plans
  BY PlanStays DEF TypeOK
<1>6. QED
  BY <1>1, <1>2, <1>3, <1>4, <1>5 DEF TypeOK, EncoderTypes, FileTypes, LoadTypes, CallerTypes

(***************************************************************************)
(* What the invariant says of a load that has not begun or is written.      *)
(***************************************************************************)
LEMMA InvTypes == LoadInv => TypeOK /\ EncoderTypes /\ FileTypes /\ LoadTypes /\ CallerTypes
  BY DEF LoadInv, TypeOK, EncoderTypes, FileTypes, LoadTypes, CallerTypes

\* Whoever takes a step knows that WriteDataflowReady has begun.
LEMMA BegunBy ==
  ASSUME LoadInv
  PROVE  /\ (\E s \in Streams : enc[s] \notin {"idle"} \/ proc[s] # "idle") => Begun
         /\ (\E f \in Files : w[f] # "none" \/ ld[f] # "none") => Begun
         /\ Begun => ~Untouched /\ wd \in {"streams", "closed"}
<1>1. Folder /\ Once /\ FileTypes /\ CallerTypes
  BY InvTypes DEF LoadInv
<1>2. Untouched \/ Begun
  BY <1>1 DEF Folder, CallerTypes
<1>3. First \in Streams
  BY ConstantTypes
<1>4. Begun => ~Untouched /\ wd \in {"streams", "closed"}
  BY <1>1, <1>3 DEF Folder, Begun, Untouched, CallerTypes
<1>5. \A f \in Files : ld[f] # "none" => w[f] # "none"
  BY <1>1 DEF Once, Over
<1>6. QED
  BY <1>2, <1>4, <1>5 DEF Untouched

LEMMA FolderInv == LoadInv /\ [Next]_vars => Folder'
<1> SUFFICES ASSUME LoadInv, [Next]_vars PROVE Folder'
  OBVIOUS
<1>0. Folder /\ EncoderTypes /\ FileTypes /\ LoadTypes /\ CallerTypes
  BY InvTypes DEF LoadInv
<1>1. CASE UNCHANGED vars
  BY <1>0, <1>1 DEF Folder, Untouched, Begun, MayFail, vars, encVars, partVars
<1>2. CASE FolderStep
  <2>1. UNCHANGED <<plan, count, w>>
    BY <1>2, FolderFrame
  <2>2. CASE Prepare
    <3>1. Begun' /\ wd' = "streams"
      BY <2>2 DEF Prepare, Begun
    <3>2. QED
      BY <3>1 DEF Folder
  <2>3. CASE ~Prepare
    <3>1. UNCHANGED <<enc, file, proc>>
      BY <1>2, <2>3 DEF FolderStep, PrepareFails, ClientFails, ErrorCaptured, WriteDataflowReturns,
         encVars, partVars
    <3>2. (Untouched <=> Untouched') /\ (Begun <=> Begun')
      BY <2>1, <3>1 DEF Untouched, Begun
    <3>3. CASE PrepareFails
      BY <1>0, <2>1, <3>2, <3>3 DEF PrepareFails, Folder, MayFail
    <3>4. CASE ClientFails
      BY <1>0, <2>1, <3>2, <3>4 DEF ClientFails, Folder, MayFail
    <3>5. CASE ErrorCaptured
      BY <1>0, <2>1, <3>2, <3>5 DEF ErrorCaptured, Folder, MayFail
    <3>6. CASE WriteDataflowReturns
      BY <1>0, <2>1, <3>1, <3>2, <3>6 DEF WriteDataflowReturns, Folder, MayFail
    <3>7. QED
      BY <1>2, <2>3, <3>3, <3>4, <3>5, <3>6 DEF FolderStep
  <2>4. QED
    BY <2>2, <2>3
<1>3. ASSUME NEW s \in plan.streams, EncoderStep(s) PROVE Folder'
  <2>1. UNCHANGED <<plan, proc, wd>> /\ s \in Streams
    BY <1>3, EncoderFrame, PlanType DEF LoadInv, TypeOK
  <2>2. enc[s] \in {"row", "lock", "flush"}
    BY <1>3 DEF EncoderStep, ColumnsChanged, TakeRow, Lock, Flush, Stop
  <2>3. Begun /\ wd \in {"streams", "closed"} /\ ~Untouched
    BY <2>1, <2>2, BegunBy
  <2>4. enc' = enc \/ \E v \in {"row", "lock", "flush", "done"} : enc' = [enc EXCEPT ![s] = v]
    BY <1>3 DEF EncoderStep, ColumnsChanged, TakeRow, Lock, Flush, Stop
  <2>5. Begun'
    BY <1>0, <2>1, <2>3, <2>4 DEF Begun, EncoderTypes
  <2>6. QED
    BY <1>0, <2>1, <2>3, <2>5 DEF Folder
<1>4. ASSUME NEW s \in plan.streams, TakerStep(s) PROVE Folder'
  <2>1. UNCHANGED <<plan, enc, wd>> /\ s \in Streams
    BY <1>4, TakerFrame, PlanType DEF LoadInv, TypeOK, encVars
  <2>2. proc[s] \in {"range", "add", "leave"}
    BY <1>4 DEF TakerStep, ProcessReader, Added, StreamDone
  <2>3. Begun /\ wd = "streams"
    BY <1>0, <2>1, <2>2, BegunBy DEF Folder
  <2>4. \E v \in {"range", "add", "leave", "done"} : proc' = [proc EXCEPT ![s] = v]
    BY <1>4 DEF TakerStep, ProcessReader, Added, StreamDone
  <2>5. Begun'
    BY <1>0, <2>1, <2>3, <2>4 DEF Begun, FileTypes
  <2>6. QED
    BY <2>1, <2>3, <2>5 DEF Folder
<1>5. ASSUME NEW f \in Files, PartStep(f) PROVE Folder'
  <2>1. UNCHANGED <<plan, enc, proc, wd>>
    BY <1>5, PartFrame DEF encVars
  <2>2. w[f] # "none"
    BY <1>5 DEF PartStep, Create, CreateFails, Announce, PartFails, Drained
  <2>3. Begun /\ wd \in {"streams", "closed"} /\ ~Untouched
    BY <2>2, BegunBy
  <2>4. Begun'
    BY <2>1, <2>3 DEF Begun
  <2>5. QED
    BY <1>0, <2>1, <2>3, <2>4 DEF Folder
<1>6. CASE ColumnStep
  BY <1>0, <1>6, ColumnFrame DEF Folder, Untouched, Begun, MayFail, partVars
<1>7. ASSUME NEW f \in Files, LoadStep(f) PROVE Folder'
  <2>1. UNCHANGED <<plan, enc, proc, wd>>
    BY <1>7, LoadFrame DEF encVars, partVars
  <2>2. ld[f] # "none"
    BY <1>7 DEF LoadStep, LoadEnds, AddLoaded
  <2>3. Begun /\ wd \in {"streams", "closed"} /\ ~Untouched
    BY <2>2, BegunBy
  <2>4. Begun'
    BY <2>1, <2>3 DEF Begun
  <2>5. QED
    BY <1>0, <2>1, <2>3, <2>4 DEF Folder
<1>8. CASE ImportStep
  BY <1>0, <1>8, ImportFrame DEF Folder, Untouched, Begun, MayFail, encVars, partVars
<1>9. CASE TaskStep
  BY <1>0, <1>9, TaskFrame DEF Folder, Untouched, Begun, MayFail, encVars, partVars
<1>10. QED
  BY <1>1, <1>2, <1>3, <1>4, <1>5, <1>6, <1>7, <1>8, <1>9, StepsOfNext

(***************************************************************************)
(* The encoders.                                                            *)
(***************************************************************************)
LEMMA EncodersInv == LoadInv /\ [Next]_vars => Encoders'
<1> SUFFICES ASSUME LoadInv, [Next]_vars PROVE Encoders'
  OBVIOUS
<1>0. Encoders /\ Folder /\ EncoderTypes /\ CallerTypes
  BY InvTypes DEF LoadInv
<1>p. plan' = plan /\ (err => err') /\ plan \in Plans
  BY PlanStays DEF LoadInv, TypeOK
<1>q. /\ plan.streams \subseteq Streams /\ plan.rows \in [Streams -> Nat] /\ plan.max \in Nat
      /\ plan.max >= 1 /\ \A s \in Streams \ plan.streams : plan.rows[s] = 0
  BY <1>p, PlanType
<1>1. ASSUME UNCHANGED <<count, enc, file, fresh, srcErr, alter>> PROVE Encoders'
  BY <1>0, <1>1, <1>p DEF Encoders, Hand, Extra
<1>2. CASE FolderStep
  <2>1. CASE Prepare
    <3>1. UNCHANGED <<count, fresh, srcErr, alter>>
      BY <1>2, FolderFrame
    <3>2. Untouched
      BY <1>0, <2>1 DEF Prepare, Folder
    <3>3. /\ enc' = [s \in Streams |-> IF s \in plan.streams THEN "row" ELSE "done"]
          /\ file' = [s \in Streams |-> IF s \in plan.streams THEN 1 ELSE 0]
      BY <2>1 DEF Prepare
    <3>4. QED
      BY <1>0, <1>p, <1>q, <3>1, <3>2, <3>3 DEF Encoders, Hand, Extra, Untouched
  <2>2. CASE ~Prepare
    <3>1. UNCHANGED <<enc, file>>
      BY <1>2, <2>2 DEF FolderStep, PrepareFails, ClientFails, ErrorCaptured, WriteDataflowReturns,
         encVars, partVars
    <3>2. QED
      BY <1>1, <1>2, <3>1, FolderFrame
  <2>3. QED
    BY <2>1, <2>2
<1>3. ASSUME NEW s \in plan.streams, EncoderStep(s) PROVE Encoders'
  <2>0. s \in Streams /\ alter' = alter
    BY <1>3, <1>q, EncoderFrame
  <2>1. srcErr' # {} => err'
    BY <1>0, <1>3, <1>p DEF EncoderStep, ColumnsChanged, TakeRow, Lock, Flush, Stop, Encoders
  <2>2. ASSUME NEW t \in Streams, t # s
        PROVE  enc'[t] = enc[t] /\ count'[t] = count[t] /\ file'[t] = file[t] /\ fresh'[t] = fresh[t]
    <3>1. /\ count' = count \/ count' = [count EXCEPT ![s] = @ + 1]
          /\ enc' = enc \/ \E v \in {"row", "lock", "flush", "done"} : enc' = [enc EXCEPT ![s] = v]
          /\ file' = file \/ file' = [file EXCEPT ![s] = @ + 1]
          /\ fresh' = fresh \/ fresh' = [fresh EXCEPT ![s] = FALSE]
      BY <1>3 DEF EncoderStep, ColumnsChanged, TakeRow, Lock, Flush, Stop, NextPipe
    <3>2. QED
      BY <1>0, <2>2, <3>1 DEF EncoderTypes
  <2> DEFINE Ok(t) ==
       /\ Hand(t) <= count[t] /\ count[t] <= plan.rows[t]
       /\ file[t] <= 1 + (count[t] - Hand(t)) + Extra(t)
       /\ enc[t] \in {"row", "lock", "flush"} => t \in plan.streams
       /\ t \in plan.streams /\ enc[t] # "idle" => file[t] >= 1
       /\ t \notin plan.streams => file[t] = 0
       /\ fresh[t] => alter = "done"
       /\ enc[t] = "done" => count[t] = plan.rows[t] \/ err
  <2>3. \A t \in Streams : Ok(t)
    BY <1>0 DEF Encoders
  <2>4. ASSUME NEW t \in Streams, t # s PROVE Ok(t)'
    BY <1>p, <2>0, <2>2, <2>3, <2>4 DEF Hand, Extra
  <2>5. Ok(s)'
    <3>t. /\ count[s] \in Nat /\ file[s] \in Nat /\ plan.rows[s] \in Nat
          /\ enc[s] \in {"idle", "row", "lock", "flush", "done"} /\ fresh[s] \in BOOLEAN
      BY <1>0, <1>q, <2>0 DEF EncoderTypes
    <3>1. CASE ColumnsChanged(s)
      <4>1. /\ enc[s] = "row" /\ fresh[s] /\ enc' = enc /\ count' = count
            /\ fresh'[s] = FALSE /\ file'[s] = file[s] + 1
        BY <1>0, <2>0, <3>1 DEF ColumnsChanged, NextPipe, EncoderTypes
      <4>2. alter = "done" /\ Hand(s) = 0 /\ Extra(s) = 0 /\ Hand(s)' = 0 /\ Extra(s)' = 1
        BY <2>0, <2>3, <4>1 DEF Hand, Extra
      <4>3. QED
        BY <1>p, <2>0, <2>3, <3>t, <4>1, <4>2
    <3>2. CASE TakeRow(s)
      <4>1. /\ enc[s] = "row" /\ count[s] < plan.rows[s] /\ enc'[s] = "lock" /\ fresh' = fresh
            /\ count'[s] = count[s] + 1 /\ file' = file
        BY <1>0, <2>0, <3>2 DEF TakeRow, EncoderTypes
      <4>2. Hand(s) = 0 /\ Hand(s)' = 1 /\ Extra(s)' = Extra(s) /\ Extra(s) \in {0, 1}
        BY <2>0, <4>1 DEF Hand, Extra
      <4>3. QED
        BY <1>p, <2>0, <2>3, <3>t, <4>1, <4>2
    <3>3. CASE Lock(s)
      <4>1. /\ enc[s] = "lock" /\ enc'[s] = "flush" /\ fresh' = fresh
            /\ count' = count /\ file' = file
        BY <1>0, <2>0, <3>3 DEF Lock, EncoderTypes
      <4>2. Hand(s) = 1 /\ Hand(s)' = 1 /\ Extra(s)' = Extra(s) /\ Extra(s) \in {0, 1}
        BY <2>0, <4>1 DEF Hand, Extra
      <4>3. QED
        BY <1>p, <2>0, <2>3, <3>t, <4>1, <4>2
    <3>4. CASE Flush(s)
      <4>1. /\ enc[s] = "flush" /\ enc'[s] = "row" /\ fresh' = fresh /\ count' = count
            /\ file'[s] = file[s] \/ file'[s] = file[s] + 1
        BY <1>0, <2>0, <3>4 DEF Flush, NextPipe, EncoderTypes
      <4>2. Hand(s) = 1 /\ Hand(s)' = 0 /\ Extra(s)' = Extra(s) /\ Extra(s) \in {0, 1}
        BY <2>0, <4>1 DEF Hand, Extra
      <4>3. file'[s] \in Nat
        BY <3>t, <4>1
      <4>4. QED
        BY <1>p, <2>0, <2>3, <3>t, <4>1, <4>2, <4>3
    <3>5. CASE Stop(s)
      <4>1. /\ enc[s] = "row" /\ enc'[s] = "done" /\ fresh' = fresh /\ count' = count /\ file' = file
            /\ count[s] = plan.rows[s] \/ err'
        BY <1>0, <2>0, <3>5 DEF Stop, EncoderTypes
      <4>2. Hand(s) = 0 /\ Hand(s)' = 0 /\ Extra(s)' = Extra(s) /\ Extra(s) \in {0, 1}
        BY <2>0, <4>1 DEF Hand, Extra
      <4>3. QED
        BY <1>p, <2>0, <2>3, <3>t, <4>1, <4>2
    <3>6. QED
      BY <1>3, <3>1, <3>2, <3>3, <3>4, <3>5 DEF EncoderStep
  <2>6. \A t \in Streams : Ok(t)'
    BY <2>4, <2>5
  <2>7. QED
    BY <2>1, <2>6 DEF Encoders
<1>4. ASSUME NEW s \in plan.streams, TakerStep(s) PROVE Encoders'
  BY <1>1, <1>4, TakerFrame DEF encVars
<1>5. ASSUME NEW f \in Files, PartStep(f) PROVE Encoders'
  BY <1>1, <1>5, PartFrame DEF encVars
<1>6. CASE ColumnStep
  <2>1. UNCHANGED <<count, enc, file, srcErr, err>>
    BY <1>6, ColumnFrame
  <2>2. \/ alter' # "done" /\ alter # "done" /\ fresh' = fresh
        \/ alter' = "done" /\ alter # "done" /\ \A s \in Streams : fresh[s] => fresh'[s]
    <3>1. ASSUME NEW s \in plan.streams, ChangeColumn(s)
          PROVE  \/ alter' # "done" /\ alter # "done" /\ fresh' = fresh
                 \/ alter' = "done" /\ alter # "done" /\ \A t \in Streams : fresh[t] => fresh'[t]
      <4>1. CASE Is({"bigquery"})
        BY <3>1, <4>1 DEF ChangeColumn
      <4>2. CASE ~Is({"bigquery"})
        <5>1. alter = "no" /\ alter' = "done" /\ fresh' = [fresh EXCEPT ![s] = TRUE]
          BY <3>1, <4>2 DEF ChangeColumn
        <5>2. QED
          BY <1>0, <5>1 DEF EncoderTypes
      <4>3. QED
        BY <4>1, <4>2
    <3>2. CASE HandlerWaits \/ HandlerAlters
      BY <3>2 DEF HandlerWaits, HandlerAlters, encVars
    <3>3. CASE HandlerReturns
      BY <3>3 DEF HandlerReturns
    <3>4. QED
      BY <1>6, <3>1, <3>2, <3>3 DEF ColumnStep
  <2>3. \A s \in Streams : Hand(s)' = Hand(s) /\ Extra(s) <= Extra(s)' /\ Extra(s) \in {0, 1}
                           /\ Extra(s)' \in {0, 1}
    BY <2>1, <2>2 DEF Hand, Extra
  <2>4. \A s \in Streams : fresh'[s] => alter' = "done"
    <3>1. SUFFICES ASSUME NEW s \in Streams, alter' # "done" PROVE ~fresh'[s]
      OBVIOUS
    <3>2. fresh' = fresh /\ alter # "done"
      BY <2>2, <3>1
    <3>3. ~fresh[s]
      BY <1>0, <3>2 DEF Encoders
    <3>4. QED
      BY <3>2, <3>3
  <2>5. \A s \in Streams : /\ Hand(s)' <= count'[s] /\ count'[s] <= plan'.rows[s]
                           /\ file'[s] <= 1 + (count'[s] - Hand(s)') + Extra(s)'
    <3>1. SUFFICES ASSUME NEW s \in Streams
          PROVE /\ Hand(s)' <= count'[s] /\ count'[s] <= plan'.rows[s]
                /\ file'[s] <= 1 + (count'[s] - Hand(s)') + Extra(s)'
      OBVIOUS
    <3>2. /\ Hand(s) <= count[s] /\ count[s] <= plan.rows[s]
          /\ file[s] <= 1 + (count[s] - Hand(s)) + Extra(s)
      BY <1>0 DEF Encoders
    <3>3. count[s] \in Nat /\ file[s] \in Nat /\ Hand(s) \in {0, 1}
      BY <1>0 DEF EncoderTypes, Hand
    <3>4. QED
      BY <1>p, <2>1, <2>3, <3>2, <3>3
  <2>6. QED
    BY <1>0, <1>p, <2>1, <2>4, <2>5 DEF Encoders
<1>7. ASSUME NEW f \in Files, LoadStep(f) PROVE Encoders'
  BY <1>1, <1>7, LoadFrame DEF encVars
<1>8. CASE ImportStep
  BY <1>1, <1>8, ImportFrame DEF encVars
<1>9. CASE TaskStep
  BY <1>1, <1>9, TaskFrame DEF encVars
<1>10. CASE UNCHANGED vars
  BY <1>1, <1>10 DEF vars, encVars
<1>11. QED
  BY <1>2, <1>3, <1>4, <1>5, <1>6, <1>7, <1>8, <1>9, <1>10, StepsOfNext

(***************************************************************************)
(* The goroutines that take the files.                                      *)
(***************************************************************************)
\* The bound on the files of a stream follows from the rows.
LEMMA FileBound ==
  ASSUME LoadInv, NEW s \in Streams
  PROVE  /\ file[s] <= MaxFiles
         /\ \A i \in Nat \ {0} : i <= file[s] => i \in 1..MaxFiles /\ <<s, i>> \in Files
<1>1. /\ Hand(s) <= count[s] /\ count[s] <= plan.rows[s]
      /\ file[s] <= 1 + (count[s] - Hand(s)) + Extra(s)
  BY DEF LoadInv, Encoders
<1>2. count[s] \in Nat /\ file[s] \in Nat /\ Hand(s) \in {0, 1} /\ Extra(s) \in {0, 1}
  BY InvTypes DEF EncoderTypes, Hand, Extra
<1>3. plan.rows[s] \in Nat /\ plan.rows[s] <= MaxRows
  BY PlanType DEF LoadInv, TypeOK
<1>4. file[s] <= MaxFiles
  BY <1>1, <1>2, <1>3, ConstantTypes
<1>5. QED
  BY <1>2, <1>4, ConstantTypes DEF Files

LEMMA TakersInv == LoadInv /\ [Next]_vars => Takers'
<1> SUFFICES ASSUME LoadInv, [Next]_vars PROVE Takers'
  OBVIOUS
<1>0. Takers /\ Encoders /\ Folder /\ EncoderTypes /\ FileTypes /\ CallerTypes
  BY InvTypes DEF LoadInv
<1>p. plan' = plan /\ (err => err') /\ plan \in Plans /\ plan.streams \subseteq Streams
  BY PlanStays, PlanType DEF LoadInv, TypeOK
<1>1. ASSUME UNCHANGED <<enc, file, proc, taken, w>> PROVE Takers'
  BY <1>0, <1>1, <1>p DEF Takers, Unfinished
<1> DEFINE Ok(t) ==
      /\ taken[t] <= file[t]
      /\ \A i \in 1..MaxFiles : w[<<t, i>>] # "none" <=> i <= taken[t]
      /\ proc[t] = "leave" => err
      /\ proc[t] = "done" => /\ \A f \in Files : f[1] = t => w[f] \in {"none", "done"}
                             /\ err \/ (enc[t] = "done" /\ taken[t] = file[t])
<1>a. \A t \in Streams : Ok(t)
  BY <1>0 DEF Takers, Unfinished, Of
<1>b. ASSUME \A t \in Streams : Ok(t)' PROVE Takers'
  BY <1>b DEF Takers, Unfinished, Of
<1> HIDE DEF Ok
<1>2. CASE FolderStep
  <2>1. UNCHANGED <<taken, w>>
    BY <1>2, FolderFrame
  <2>2. CASE Prepare
    <3>1. Untouched
      BY <1>0, <2>2 DEF Prepare, Folder
    <3>2. ASSUME NEW t \in Streams PROVE Ok(t)'
      <4>1. taken[t] = 0 /\ file[t] = 0
        BY <1>0, <1>a, <3>1 DEF Untouched, FileTypes, Ok
      <4>2. /\ proc'[t] = IF t \in plan.streams THEN "range" ELSE "done"
            /\ enc'[t] = IF t \in plan.streams THEN "row" ELSE "done"
            /\ file'[t] = IF t \in plan.streams THEN 1 ELSE 0
        BY <2>2 DEF Prepare
      <4>3. \A f \in Files : w[f] = "none"
        BY <3>1 DEF Untouched
      <4>4. \A i \in 1..MaxFiles : w[<<t, i>>] # "none" <=> i <= taken[t]
        BY <1>a DEF Ok
      <4>5. QED
        BY <2>1, <4>1, <4>2, <4>3, <4>4 DEF Ok
    <3>3. QED
      BY <1>b, <3>2
  <2>3. CASE ~Prepare
    <3>1. UNCHANGED <<enc, file, proc>>
      BY <1>2, <2>3 DEF FolderStep, PrepareFails, ClientFails, ErrorCaptured, WriteDataflowReturns,
         encVars, partVars
    <3>2. QED
      BY <1>1, <2>1, <3>1
  <2>4. QED
    BY <2>2, <2>3
<1>3. ASSUME NEW s \in plan.streams, EncoderStep(s) PROVE Takers'
  <2>0. s \in Streams /\ UNCHANGED <<proc, taken>>
    BY <1>3, <1>p, EncoderFrame
  <2>1. /\ enc[s] # "done" /\ file[s] <= file'[s]
        /\ \A t \in Streams : t # s => enc'[t] = enc[t] /\ file'[t] = file[t]
    <3>1. /\ enc[s] \in {"row", "lock", "flush"}
          /\ enc' = enc \/ \E v \in {"row", "lock", "flush", "done"} : enc' = [enc EXCEPT ![s] = v]
          /\ file' = file \/ file' = [file EXCEPT ![s] = @ + 1]
      BY <1>3 DEF EncoderStep, ColumnsChanged, TakeRow, Lock, Flush, Stop, NextPipe
    <3>2. QED
      BY <1>0, <2>0, <3>1 DEF EncoderTypes
  <2>2. w' = w \/ (w[<<s, file[s]>>] = "writing" /\ w' = [w EXCEPT ![<<s, file[s]>>] = "send"])
    BY <1>3 DEF EncoderStep, ColumnsChanged, TakeRow, Lock, Flush, Stop, partVars
  <2>3. ASSUME NEW t \in Streams PROVE Ok(t)'
    <3>1. Ok(t)
      BY <1>a
    <3>2. \A f \in Files : w'[f] = w[f] \/ (w[f] = "writing" /\ w'[f] = "send")
      BY <1>0, <2>2 DEF FileTypes
    <3>3. \A i \in 1..MaxFiles : <<t, i>> \in Files
      BY DEF Files
    <3>4. \A i \in 1..MaxFiles : w'[<<t, i>>] # "none" <=> i <= taken'[t]
      BY <2>0, <3>1, <3>2, <3>3 DEF Ok
    <3>5. taken[t] \in Nat /\ file[t] \in Nat /\ file'[t] \in Nat
      BY <1>0, TypeStep DEF FileTypes, EncoderTypes, LoadInv, TypeOK
    <3>6. taken'[t] <= file'[t]
      BY <2>0, <2>1, <3>1, <3>5 DEF Ok
    <3>7. proc'[t] = "done" => /\ \A f \in Files : f[1] = t => w'[f] \in {"none", "done"}
                               /\ err' \/ (enc'[t] = "done" /\ taken'[t] = file'[t])
      BY <1>p, <2>0, <2>1, <3>1, <3>2 DEF Ok
    <3>8. proc'[t] = "leave" => err'
      BY <1>p, <2>0, <3>1 DEF Ok
    <3>9. QED
      BY <3>4, <3>6, <3>7, <3>8 DEF Ok
  <2>4. QED
    BY <1>b, <2>3
<1>4. ASSUME NEW s \in plan.streams, TakerStep(s) PROVE Takers'
  <2>0. s \in Streams /\ UNCHANGED <<enc, file, err>>
    BY <1>4, <1>p, TakerFrame DEF encVars
  <2>1. CASE ProcessReader(s)
    <3>1. /\ taken[s] < file[s] /\ proc[s] = "range"
          /\ taken' = [taken EXCEPT ![s] = @ + 1]
          /\ w' = [w EXCEPT ![<<s, taken[s] + 1>>] = "create"]
          /\ proc' = [proc EXCEPT ![s] = "add"]
      BY <2>1 DEF ProcessReader
    <3>2. taken[s] \in Nat /\ file[s] \in Nat
      BY <1>0, <2>0 DEF FileTypes, EncoderTypes
    <3>3. <<s, taken[s] + 1>> \in Files /\ taken[s] + 1 \in 1..MaxFiles
      <4>1. taken[s] + 1 \in Nat \ {0} /\ taken[s] + 1 <= file[s]
        BY <3>1, <3>2
      <4>2. QED
        BY <2>0, <4>1, FileBound
    <3>4. ASSUME NEW t \in Streams PROVE Ok(t)'
      <4>1. Ok(t)
        BY <1>a
      <4>2. CASE t = s
        <5>1. taken'[t] = taken[s] + 1 /\ proc'[t] = "add"
          BY <1>0, <2>0, <3>1, <4>2 DEF FileTypes
        <5>2. ASSUME NEW i \in 1..MaxFiles PROVE w'[<<t, i>>] # "none" <=> i <= taken'[t]
          <6>1. <<t, i>> \in Files
            BY DEF Files
          <6>2. w[<<t, i>>] # "none" <=> i <= taken[t]
            BY <4>1 DEF Ok
          <6>3. CASE i = taken[s] + 1
            BY <1>0, <3>1, <3>2, <3>3, <4>2, <5>1, <6>3 DEF FileTypes
          <6>4. CASE i # taken[s] + 1
            <7>1. w'[<<t, i>>] = w[<<t, i>>]
              BY <1>0, <3>1, <6>1, <6>4 DEF FileTypes
            <7>2. i \in Nat /\ taken[t] = taken[s]
              BY <4>2, ConstantTypes
            <7>3. QED
              BY <3>2, <5>1, <6>2, <6>4, <7>1, <7>2
          <6>5. QED
            BY <6>3, <6>4
        <5>3. taken'[t] <= file'[t]
          BY <2>0, <3>1, <3>2, <4>2, <5>1
        <5>4. QED
          BY <5>1, <5>2, <5>3 DEF Ok
      <4>3. CASE t # s
        <5>1. taken'[t] = taken[t] /\ proc'[t] = proc[t]
          BY <1>0, <2>0, <3>1, <4>3 DEF FileTypes
        <5>2. \A f \in Files : f[1] = t => w'[f] = w[f]
          BY <1>0, <3>1, <4>3 DEF FileTypes
        <5>3. \A i \in 1..MaxFiles : <<t, i>> \in Files /\ <<t, i>>[1] = t
          BY DEF Files
        <5>4. \A i \in 1..MaxFiles : w'[<<t, i>>] # "none" <=> i <= taken'[t]
          BY <4>1, <5>1, <5>2, <5>3 DEF Ok
        <5>5. QED
          BY <2>0, <4>1, <5>1, <5>2, <5>4 DEF Ok
      <4>4. QED
        BY <4>2, <4>3
    <3>5. QED
      BY <1>b, <3>4
  <2>2. CASE Added(s)
    <3>1. /\ proc[s] = "add" /\ UNCHANGED <<taken, w>>
          /\ proc' = [proc EXCEPT ![s] = IF err THEN "leave" ELSE "range"]
      BY <2>2 DEF Added
    <3>2. ASSUME NEW t \in Streams PROVE Ok(t)'
      <4>1. \/ t = s /\ proc'[t] = IF err THEN "leave" ELSE "range"
            \/ proc'[t] = proc[t]
        BY <1>0, <2>0, <3>1 DEF FileTypes
      <4>2. Ok(t)
        BY <1>a
      <4>3. QED
        BY <2>0, <3>1, <4>1, <4>2 DEF Ok
    <3>3. QED
      BY <1>b, <3>2
  <2>3. CASE StreamDone(s)
    <3>1. /\ proc[s] = "leave" \/ (taken[s] = file[s] /\ enc[s] = "done")
          /\ Unfinished(s) = {} /\ UNCHANGED <<taken, w>>
          /\ proc' = [proc EXCEPT ![s] = "done"]
      BY <2>3 DEF StreamDone
    <3>2. ASSUME NEW t \in Streams PROVE Ok(t)'
      <4>1. \/ t = s /\ proc'[t] = "done"
            \/ proc'[t] = proc[t]
        BY <1>0, <2>0, <3>1 DEF FileTypes
      <4>2. Ok(t)
        BY <1>a
      <4>3. t = s => \A f \in Files : f[1] = t => w[f] \in {"none", "done"}
        BY <3>1 DEF Unfinished, Of
      <4>4. QED
        BY <2>0, <3>1, <4>1, <4>2, <4>3 DEF Ok
    <3>3. QED
      BY <1>b, <3>2
  <2>4. QED
    BY <1>4, <2>1, <2>2, <2>3 DEF TakerStep
<1>5. ASSUME NEW f \in Files, PartStep(f) PROVE Takers'
  <2>0. UNCHANGED <<enc, file, proc, taken>>
    BY <1>5, PartFrame DEF encVars
  <2>1. /\ w[f] \notin {"none", "done"}
        /\ \E v \in {"writing", "send", "fail", "drain", "done"} : w' = [w EXCEPT ![f] = v]
    BY <1>5 DEF PartStep, Create, CreateFails, Announce, PartFails, Drained, AfterError
  <2>2. /\ w'[f] # "none" /\ \A e \in Files : e # f => w'[e] = w[e]
    BY <1>0, <2>1 DEF FileTypes
  <2>3. ASSUME NEW t \in Streams PROVE Ok(t)'
    <3>1. Ok(t)
      BY <1>a
    <3>2. \A i \in 1..MaxFiles : <<t, i>> \in Files
      BY DEF Files
    <3>3. \A i \in 1..MaxFiles : w'[<<t, i>>] # "none" <=> i <= taken'[t]
      BY <2>0, <2>1, <2>2, <3>1, <3>2 DEF Ok
    <3>4. proc[t] = "done" => \A e \in Files : e[1] = t => w'[e] \in {"none", "done"}
      BY <2>1, <2>2, <3>1 DEF Ok
    <3>5. QED
      BY <1>p, <2>0, <3>1, <3>3, <3>4 DEF Ok
  <2>4. QED
    BY <1>b, <2>3
<1>6. CASE ColumnStep
  BY <1>1, <1>6, ColumnFrame DEF partVars
<1>7. ASSUME NEW f \in Files, LoadStep(f) PROVE Takers'
  BY <1>1, <1>7, LoadFrame DEF encVars, partVars
<1>8. CASE ImportStep
  BY <1>1, <1>8, ImportFrame DEF encVars, partVars
<1>9. CASE TaskStep
  BY <1>1, <1>9, TaskFrame DEF encVars, partVars
<1>10. CASE UNCHANGED vars
  BY <1>1, <1>10 DEF vars, encVars, partVars
<1>11. QED
  BY <1>2, <1>3, <1>4, <1>5, <1>6, <1>7, <1>8, <1>9, <1>10, StepsOfNext

(***************************************************************************)
(* The files.                                                               *)
(***************************************************************************)
\* What an encoder's step does to the file it writes to.
LEMMA FlushedFile ==
  ASSUME LoadInv, NEW s \in plan.streams, Flush(s)
  PROVE  LET f == <<s, file[s]>> IN
         /\ s \in Streams /\ f \in Files /\ enc[s] = "flush"
         /\ \/ w[f] = "writing" /\ disk' = [disk EXCEPT ![f] = @ + 1] /\ UNCHANGED <<w, bad>>
            \/ w[f] # "writing" /\ bad[f] # "no" /\ UNCHANGED <<disk, w, bad>>
            \/ /\ w[f] = "writing" /\ MayFail("write") /\ disk' = disk
               /\ w' = [w EXCEPT ![f] = "send"] /\ bad' = [bad EXCEPT ![f] = "short"]
<1> DEFINE f == <<s, file[s]>>
<1>1. s \in Streams
  BY PlanType DEF LoadInv, TypeOK
<1>2. enc[s] = "flush"
  BY DEF Flush
<1>3. file[s] \in Nat /\ file[s] >= 1
  BY <1>1, <1>2, InvTypes DEF EncoderTypes, LoadInv, Encoders
<1>4. f \in Files
  BY <1>1, <1>3, FileBound
<1>5. /\ Flushes(f)
      /\ \/ disk' = [disk EXCEPT ![f] = IF w[f] = "writing" THEN @ + 1 ELSE @] /\ UNCHANGED <<w, bad>>
         \/ /\ w[f] = "writing" /\ MayFail("write")
            /\ w' = [w EXCEPT ![f] = "send"] /\ bad' = [bad EXCEPT ![f] = "short"] /\ UNCHANGED disk
  BY DEF Flush
<1>6. Parts /\ FileTypes
  BY InvTypes DEF LoadInv
<1>7. w[f] # "writing" => bad[f] # "no"
  BY <1>4, <1>5, <1>6 DEF Flushes, Parts
<1>8. w[f] # "writing" => [disk EXCEPT ![f] = IF w[f] = "writing" THEN @ + 1 ELSE @] = disk
  BY <1>4, <1>6 DEF FileTypes
<1>9. QED
  BY <1>1, <1>2, <1>4, <1>5, <1>7, <1>8

\* An encoder's step that is no flush leaves the files alone.
LEMMA NoFlush ==
  ASSUME NEW s, EncoderStep(s), ~Flush(s)
  PROVE  UNCHANGED <<proc, taken, w, bad, disk>>
BY DEF EncoderStep, ColumnsChanged, TakeRow, Lock, Stop, partVars

LEMMA PartsInv == LoadInv /\ [Next]_vars => Parts'
<1> SUFFICES ASSUME LoadInv, [Next]_vars PROVE Parts'
  OBVIOUS
<1>0. Parts /\ Takers /\ FileTypes /\ EncoderTypes
  BY InvTypes DEF LoadInv
<1>p. err => err'
  BY PlanStays
<1>1. ASSUME UNCHANGED <<w, bad, disk>> PROVE Parts'
  BY <1>0, <1>1, <1>p DEF Parts
<1> DEFINE Ok(e) ==
      /\ w[e] \in {"none", "create"} => disk[e] = 0
      /\ bad[e] = "no" => w[e] \in {"none", "create", "writing", "done"}
      /\ w[e] \in {"none", "create", "writing"} => bad[e] = "no"
      /\ bad[e] # "no" /\ w[e] \in {"drain", "done"} => err
<1>a. \A e \in Files : Ok(e)
  BY <1>0 DEF Parts
<1>b. ASSUME \A e \in Files : Ok(e)' PROVE Parts'
  BY <1>b DEF Parts
<1>2. CASE FolderStep
  BY <1>1, <1>2, FolderFrame
<1>3. ASSUME NEW s \in plan.streams, EncoderStep(s) PROVE Parts'
  <2>1. CASE Flush(s)
    <3> DEFINE f == <<s, file[s]>>
    <3>1. /\ f \in Files
          /\ \/ w[f] = "writing" /\ disk' = [disk EXCEPT ![f] = @ + 1] /\ UNCHANGED <<w, bad>>
             \/ w[f] # "writing" /\ bad[f] # "no" /\ UNCHANGED <<disk, w, bad>>
             \/ /\ w[f] = "writing" /\ MayFail("write") /\ disk' = disk
                /\ w' = [w EXCEPT ![f] = "send"] /\ bad' = [bad EXCEPT ![f] = "short"]
      BY <2>1, FlushedFile
    <3> HIDE DEF f
    <3>2. CASE w[f] = "writing" /\ disk' = [disk EXCEPT ![f] = @ + 1] /\ UNCHANGED <<w, bad>>
      <4>1. \A e \in Files : e # f => disk'[e] = disk[e]
        BY <1>0, <3>2 DEF FileTypes
      <4>2. QED
        BY <1>a, <1>b, <1>p, <3>2, <4>1
    <3>3. CASE UNCHANGED <<disk, w, bad>>
      BY <1>1, <3>3
    <3>4. CASE /\ w[f] = "writing" /\ disk' = disk
               /\ w' = [w EXCEPT ![f] = "send"] /\ bad' = [bad EXCEPT ![f] = "short"]
      <4>1. /\ w'[f] = "send" /\ bad'[f] = "short"
            /\ \A e \in Files : e # f => w'[e] = w[e] /\ bad'[e] = bad[e]
        BY <1>0, <3>1, <3>4 DEF FileTypes
      <4>2. QED
        BY <1>a, <1>b, <1>p, <3>4, <4>1
    <3>5. QED
      BY <3>1, <3>2, <3>3, <3>4
  <2>2. CASE ~Flush(s)
    BY <1>1, <1>3, <2>2, NoFlush
  <2>3. QED
    BY <2>1, <2>2
<1>4. ASSUME NEW s \in plan.streams, TakerStep(s) PROVE Parts'
  <2>1. UNCHANGED <<bad, disk>>
    BY <1>4, TakerFrame
  <2>2. CASE ProcessReader(s)
    <3> DEFINE f == <<s, taken[s] + 1>>
    <3>1. w' = [w EXCEPT ![f] = "create"] /\ taken[s] < file[s]
      BY <2>2 DEF ProcessReader
    <3>2. s \in Streams
      BY PlanType DEF LoadInv, TypeOK
    <3>3. taken[s] \in Nat /\ file[s] \in Nat
      BY <1>0, <3>2 DEF FileTypes, EncoderTypes
    <3>4. f \in Files /\ taken[s] + 1 \in 1..MaxFiles
      <4>1. taken[s] + 1 \in Nat \ {0} /\ taken[s] + 1 <= file[s]
        BY <3>1, <3>3
      <4>2. QED
        BY <3>2, <4>1, FileBound
    <3>5. w[f] = "none"
      BY <1>0, <3>2, <3>3, <3>4 DEF Takers
    <3> HIDE DEF f
    <3>6. w'[f] = "create" /\ \A e \in Files : e # f => w'[e] = w[e]
      BY <1>0, <3>1, <3>4 DEF FileTypes
    <3>7. QED
      BY <1>a, <1>b, <1>p, <2>1, <3>4, <3>5, <3>6
  <2>3. CASE Added(s) \/ StreamDone(s)
    BY <1>1, <2>1, <2>3 DEF Added, StreamDone
  <2>4. QED
    BY <1>4, <2>2, <2>3 DEF TakerStep
<1>5. ASSUME NEW f \in Files, PartStep(f) PROVE Parts'
  <2>1. CASE Create(f)
    <3>1. /\ w[f] = "create" /\ w' = [w EXCEPT ![f] = "writing"] /\ bad' = bad
          /\ disk' = [e \in Files |-> IF plan.single THEN 0 ELSE disk[e]]
      BY <2>1 DEF Create
    <3>2. /\ w'[f] = "writing" /\ \A e \in Files : e # f => w'[e] = w[e]
          /\ \A e \in Files : disk'[e] = 0 \/ disk'[e] = disk[e]
      BY <1>0, <3>1 DEF FileTypes
    <3>3. QED
      BY <1>a, <1>b, <1>p, <3>1, <3>2
  <2>2. CASE CreateFails(f)
    <3>1. /\ w' = [w EXCEPT ![f] = "send"] /\ bad' = [bad EXCEPT ![f] = "absent"] /\ disk' = disk
      BY <2>2 DEF CreateFails
    <3>2. /\ w'[f] = "send" /\ bad'[f] = "absent"
          /\ \A e \in Files : e # f => w'[e] = w[e] /\ bad'[e] = bad[e]
      BY <1>0, <3>1 DEF FileTypes
    <3>3. QED
      BY <1>a, <1>b, <1>p, <3>1, <3>2
  <2>3. CASE Announce(f)
    <3>1. /\ w[f] \in {"send", "writing"} /\ UNCHANGED <<bad, disk>>
          /\ w' = [w EXCEPT ![f] = IF bad[f] = "no" THEN "done" ELSE "fail"]
      BY <2>3 DEF Announce
    <3>2. /\ w'[f] = IF bad[f] = "no" THEN "done" ELSE "fail"
          /\ \A e \in Files : e # f => w'[e] = w[e]
      BY <1>0, <3>1 DEF FileTypes
    <3>3. QED
      BY <1>a, <1>b, <1>p, <3>1, <3>2
  <2>4. CASE PartFails(f)
    <3>1. w[f] = "fail" /\ err' = TRUE /\ w' = [w EXCEPT ![f] = "drain"] /\ UNCHANGED <<bad, disk>>
      BY <2>4 DEF PartFails, AfterError
    <3>2. w'[f] = "drain" /\ \A e \in Files : e # f => w'[e] = w[e]
      BY <1>0, <3>1 DEF FileTypes
    <3>3. bad[f] # "no"
      BY <1>a, <3>1
    <3>4. QED
      BY <1>a, <1>b, <1>p, <3>1, <3>2, <3>3
  <2>5. CASE Drained(f)
    <3>1. w[f] = "drain" /\ w' = [w EXCEPT ![f] = "done"] /\ UNCHANGED <<bad, disk>>
      BY <2>5 DEF Drained
    <3>2. w'[f] = "done" /\ \A e \in Files : e # f => w'[e] = w[e]
      BY <1>0, <3>1 DEF FileTypes
    <3>3. QED
      BY <1>a, <1>b, <1>p, <3>1, <3>2
  <2>6. QED
    BY <1>5, <2>1, <2>2, <2>3, <2>4, <2>5 DEF PartStep
<1>6. CASE ColumnStep
  BY <1>1, <1>6, ColumnFrame DEF partVars
<1>7. ASSUME NEW f \in Files, LoadStep(f) PROVE Parts'
  BY <1>1, <1>7, LoadFrame DEF partVars
<1>8. CASE ImportStep
  BY <1>1, <1>8, ImportFrame DEF partVars
<1>9. CASE TaskStep
  BY <1>1, <1>9, TaskFrame DEF partVars
<1>10. CASE UNCHANGED vars
  BY <1>1, <1>10 DEF vars, partVars
<1>11. QED
  BY <1>2, <1>3, <1>4, <1>5, <1>6, <1>7, <1>8, <1>9, <1>10, StepsOfNext

(***************************************************************************)
(* Counts and files.                                                        *)
(***************************************************************************)
LEMMA RowsOfType ==
  \A content \in [Files -> Nat], s \in Streams : Rows(content, Of(s)) \in Nat
<1>1. SUFFICES ASSUME NEW content \in [Files -> Nat], NEW s \in Streams
               PROVE  Rows(content, Of(s)) \in Nat
  OBVIOUS
<1>2. \A x \in Of(s) : content[x] \in Nat
  BY DEF Of
<1>3. IsFiniteSet(Of(s))
  BY FilesFinite
<1>4. QED
  BY <1>2, <1>3, CellsFinite

LEMMA AccountsInv == LoadInv /\ [Next]_vars => Accounts'
<1> SUFFICES ASSUME LoadInv, [Next]_vars PROVE Accounts'
  OBVIOUS
<1>0. Accounts /\ Parts /\ Takers /\ Encoders /\ Folder /\ FileTypes /\ EncoderTypes
  BY InvTypes DEF LoadInv
<1>p. plan' = plan /\ plan \in Plans /\ plan.streams \subseteq Streams
  BY PlanStays, PlanType DEF LoadInv, TypeOK
<1> DEFINE Ok(t) == ~(plan.single /\ file[t] > 1) =>
      /\ Rows(disk, Of(t)) + Hand(t) <= count[t]
      /\ (\A f \in Of(t) : bad[f] = "no") => Rows(disk, Of(t)) + Hand(t) = count[t]
      /\ (\E f \in Of(t) : bad[f] = "short") => Rows(disk, Of(t)) + Hand(t) < count[t]
<1>a. \A t \in Streams : Ok(t)
  BY <1>0 DEF Accounts
<1>b. ASSUME \A t \in Streams : Ok(t)' PROVE Accounts'
  BY <1>b DEF Accounts
<1>t. \A t \in Streams : /\ Rows(disk, Of(t)) \in Nat /\ count[t] \in Nat /\ file[t] \in Nat
                         /\ Hand(t) \in {0, 1}
  BY <1>0, RowsOfType DEF FileTypes, EncoderTypes, Hand
<1>c. ASSUME NEW t \in Streams, UNCHANGED <<disk, bad>>, Hand(t)' = Hand(t), count'[t] = count[t],
             file'[t] = file[t] \/ file'[t] = file[t] + 1
      PROVE  Ok(t)'
  <2>1. Ok(t)
    BY <1>a
  <2>2. QED
    BY <1>c, <1>p, <1>t, <2>1
<1>2. CASE FolderStep
  <2>1. UNCHANGED <<count, disk, bad>>
    BY <1>2, FolderFrame
  <2>2. CASE Prepare
    <3>1. Untouched
      BY <1>0, <2>2 DEF Prepare, Folder
    <3>2. ASSUME NEW t \in Streams PROVE Ok(t)'
      <4>1. enc[t] = "idle" /\ file[t] = 0 /\ enc'[t] \in {"row", "done"} /\ file'[t] \in {0, 1}
        BY <2>2, <3>1 DEF Prepare, Untouched
      <4>2. Hand(t)' = Hand(t)
        BY <4>1 DEF Hand
      <4>3. QED
        BY <1>c, <2>1, <4>1, <4>2
    <3>3. QED
      BY <1>b, <3>2
  <2>3. CASE ~Prepare
    <3>1. UNCHANGED <<enc, file>>
      BY <1>2, <2>3 DEF FolderStep, PrepareFails, ClientFails, ErrorCaptured, WriteDataflowReturns,
         encVars, partVars
    <3>2. \A t \in Streams : Ok(t)'
      BY <1>c, <2>1, <3>1 DEF Hand
    <3>3. QED
      BY <1>b, <3>2
  <2>4. QED
    BY <2>2, <2>3
<1>3. ASSUME NEW s \in plan.streams, EncoderStep(s) PROVE Accounts'
  <2>0. s \in Streams
    BY <1>p
  <2>1. ASSUME NEW t \in Streams, t # s
        PROVE  enc'[t] = enc[t] /\ count'[t] = count[t] /\ file'[t] = file[t]
    <3>1. /\ count' = count \/ count' = [count EXCEPT ![s] = @ + 1]
          /\ enc' = enc \/ \E v \in {"row", "lock", "flush", "done"} : enc' = [enc EXCEPT ![s] = v]
          /\ file' = file \/ file' = [file EXCEPT ![s] = @ + 1]
      BY <1>3 DEF EncoderStep, ColumnsChanged, TakeRow, Lock, Flush, Stop, NextPipe
    <3>2. QED
      BY <1>0, <2>1, <3>1 DEF EncoderTypes
  <2>2. CASE ~Flush(s)
    <3>0. UNCHANGED <<disk, bad>>
      BY <1>3, <2>2, NoFlush
    <3>1. ASSUME NEW t \in Streams, t # s PROVE Ok(t)'
      <4>1. Hand(t)' = Hand(t)
        BY <2>1, <3>1 DEF Hand
      <4>2. QED
        BY <1>c, <2>1, <3>0, <3>1, <4>1
    <3>2. Ok(s)'
      <4>1. CASE TakeRow(s)
        <5>1. enc[s] = "row" /\ enc'[s] = "lock" /\ count'[s] = count[s] + 1 /\ file' = file
          BY <1>0, <2>0, <4>1 DEF TakeRow, EncoderTypes
        <5>2. Hand(s) = 0 /\ Hand(s)' = 1
          BY <5>1 DEF Hand
        <5>3. Ok(s)
          BY <1>a, <2>0
        <5>4. QED
          BY <1>p, <1>t, <2>0, <3>0, <5>1, <5>2, <5>3
      <4>2. CASE ~TakeRow(s)
        <5>1. /\ count' = count /\ (file'[s] = file[s] \/ file'[s] = file[s] + 1)
              /\ \/ enc' = enc
                 \/ enc[s] = "lock" /\ enc'[s] = "flush"
                 \/ enc[s] = "row" /\ enc'[s] = "done"
          BY <1>0, <1>3, <2>0, <2>2, <4>2 DEF EncoderStep, ColumnsChanged, Lock, Stop, NextPipe,
             EncoderTypes
        <5>2. Hand(s)' = Hand(s)
          BY <5>1 DEF Hand
        <5>3. QED
          BY <1>c, <2>0, <3>0, <5>1, <5>2
      <4>3. QED
        BY <4>1, <4>2
    <3>3. QED
      BY <1>b, <3>1, <3>2
  <2>3. CASE Flush(s)
    <3> DEFINE f == <<s, file[s]>>
    <3>1. /\ f \in Files /\ enc[s] = "flush"
          /\ \/ w[f] = "writing" /\ disk' = [disk EXCEPT ![f] = @ + 1] /\ UNCHANGED <<w, bad>>
             \/ w[f] # "writing" /\ bad[f] # "no" /\ UNCHANGED <<disk, w, bad>>
             \/ /\ w[f] = "writing" /\ MayFail("write") /\ disk' = disk
               /\ w' = [w EXCEPT ![f] = "send"] /\ bad' = [bad EXCEPT ![f] = "short"]
      BY <2>3, FlushedFile
    <3>2. /\ count' = count /\ enc'[s] = "row"
          /\ file'[s] = file[s] \/ file'[s] = file[s] + 1
      BY <1>0, <2>0, <2>3 DEF Flush, NextPipe, EncoderTypes
    <3>3. Hand(s) = 1 /\ Hand(s)' = 0
      BY <3>1, <3>2 DEF Hand
    <3>4. f \in Of(s) /\ \A t \in Streams : t # s => f \notin Of(t)
      BY <3>1 DEF Of
    <3> HIDE DEF f
    <3>5. ASSUME NEW t \in Streams, t # s PROVE Ok(t)'
      <4>1. \A e \in Of(t) : disk'[e] = disk[e] /\ bad'[e] = bad[e]
        BY <1>0, <3>1, <3>4, <3>5 DEF Of, FileTypes
      <4>2. Rows(disk', Of(t)) = Rows(disk, Of(t))
        BY <4>1, RowsSame
      <4>3. Hand(t)' = Hand(t)
        BY <2>1, <3>5 DEF Hand
      <4>4. Ok(t)
        BY <1>a
      <4>5. QED
        BY <1>p, <2>1, <3>5, <4>1, <4>2, <4>3, <4>4
    <3>6. Ok(s)'
      <4>1. ~(plan.single /\ file'[s] > 1) => ~(plan.single /\ file[s] > 1)
        BY <1>t, <2>0, <3>2
      <4>2. Ok(s)
        BY <1>a, <2>0
      <4>3. CASE w[f] = "writing" /\ disk' = [disk EXCEPT ![f] = @ + 1] /\ UNCHANGED <<w, bad>>
        <5>1. /\ IsFiniteSet(Of(s)) /\ \A e \in Of(s) : disk[e] \in Nat
              /\ disk'[f] = disk[f] + 1 /\ \A e \in Of(s) \ {f} : disk'[e] = disk[e]
          BY <1>0, <2>0, <3>4, <4>3, FilesFinite DEF Of, FileTypes
        <5>2. Rows(disk', Of(s)) = Rows(disk, Of(s)) + 1
          BY <3>4, <5>1, RowsAdd
        <5>3. QED
          BY <1>p, <1>t, <2>0, <3>2, <3>3, <4>1, <4>2, <4>3, <5>2
      <4>4. CASE bad[f] # "no" /\ UNCHANGED <<disk, w, bad>>
        BY <1>p, <1>t, <2>0, <3>2, <3>3, <3>4, <4>1, <4>2, <4>4
      <4>5. CASE disk' = disk /\ bad' = [bad EXCEPT ![f] = "short"]
        <5>1. bad'[f] = "short"
          BY <1>0, <3>1, <4>5 DEF FileTypes
        <5>2. QED
          BY <1>p, <1>t, <2>0, <3>2, <3>3, <3>4, <4>1, <4>2, <4>5, <5>1
      <4>6. QED
        BY <3>1, <4>3, <4>4, <4>5
    <3>7. QED
      BY <1>b, <3>5, <3>6
  <2>4. QED
    BY <2>2, <2>3
<1>4. ASSUME NEW s \in plan.streams, TakerStep(s) PROVE Accounts'
  <2>1. UNCHANGED <<disk, bad, count, enc, file>>
    BY <1>4, TakerFrame DEF encVars
  <2>2. QED
    BY <1>b, <1>c, <2>1 DEF Hand
<1>5. ASSUME NEW f \in Files, PartStep(f) PROVE Accounts'
  <2>0. UNCHANGED <<count, enc, file>>
    BY <1>5, PartFrame DEF encVars
  <2>h. \A t \in Streams : Hand(t)' = Hand(t)
    BY <2>0 DEF Hand
  <2>1. CASE Create(f)
    <3>1. w[f] = "create" /\ bad' = bad /\ disk' = [e \in Files |-> IF plan.single THEN 0 ELSE disk[e]]
      BY <2>1 DEF Create
    <3>2. ASSUME NEW t \in Streams, ~(plan.single /\ file[t] > 1), NEW e \in Of(t)
          PROVE  disk'[e] = disk[e]
      <4>0. e \in Files /\ e[1] = t
        BY DEF Of
      <4>1. CASE ~plan.single
        BY <3>1, <4>0, <4>1
      <4>2. CASE plan.single
        <5>1. PICK r \in Streams : plan.streams = {r}
          BY <1>p, <4>2, PlanType
        <5>2. PICK i \in 1..MaxFiles : e = <<t, i>>
          BY <4>0 DEF Files
        <5>3. PICK fs \in Streams : \E j \in 1..MaxFiles : f = <<fs, j>>
          BY DEF Files
        <5>4. PICK j \in 1..MaxFiles : f = <<fs, j>>
          BY <5>3
        <5>5. \A q \in Streams : \A k \in 1..MaxFiles :
                w[<<q, k>>] # "none" => k <= taken[q] /\ taken[q] <= file[q]
          BY <1>0 DEF Takers
        <5>6. \A q \in Streams : taken[q] \in Nat /\ file[q] \in Nat /\ (q # r => file[q] = 0)
          BY <1>0, <5>1 DEF FileTypes, EncoderTypes, Encoders
        <5>7. \A k \in 1..MaxFiles : k \in Nat /\ k >= 1
          BY ConstantTypes
        <5>8. j <= taken[fs] /\ taken[fs] <= file[fs]
          BY <3>1, <5>4, <5>5
        <5>9. fs = r
          BY <5>6, <5>7, <5>8
        <5>10. CASE w[e] = "none"
          BY <1>0, <3>1, <4>0, <4>2, <5>10 DEF Parts
        <5>11. CASE w[e] # "none"
          <6>1. i <= taken[t] /\ taken[t] <= file[t]
            BY <5>2, <5>5, <5>11
          <6>2. t = r
            BY <5>6, <5>7, <6>1
          <6>3. i = 1 /\ j = 1
            BY <3>2, <4>2, <5>6, <5>7, <5>8, <5>9, <6>1, <6>2
          <6>4. e = f
            BY <5>2, <5>4, <5>9, <6>2, <6>3
          <6>5. disk[e] = 0
            BY <1>0, <3>1, <6>4 DEF Parts
          <6>6. QED
            BY <3>1, <4>0, <4>2, <6>5
        <5>12. QED
          BY <5>10, <5>11
      <4>3. QED
        BY <1>p, <4>1, <4>2
    <3>3. ASSUME NEW t \in Streams PROVE Ok(t)'
      <4>1. Ok(t)
        BY <1>a
      <4>2. ~(plan.single /\ file[t] > 1) => Rows(disk', Of(t)) = Rows(disk, Of(t))
        BY <3>2, RowsSame
      <4>3. QED
        BY <1>p, <2>0, <2>h, <3>1, <4>1, <4>2
    <3>4. QED
      BY <1>b, <3>3
  <2>2. CASE CreateFails(f)
    <3>1. w[f] = "create" /\ bad' = [bad EXCEPT ![f] = "absent"] /\ disk' = disk
      BY <2>2 DEF CreateFails
    <3>2. bad[f] = "no" /\ bad'[f] = "absent" /\ \A e \in Files : e # f => bad'[e] = bad[e]
      BY <1>0, <3>1 DEF Parts, FileTypes
    <3>3. ASSUME NEW t \in Streams PROVE Ok(t)'
      <4>1. Ok(t)
        BY <1>a
      <4>2. /\ (\A e \in Of(t) : bad'[e] = "no") => \A e \in Of(t) : bad[e] = "no"
            /\ (\E e \in Of(t) : bad'[e] = "short") => \E e \in Of(t) : bad[e] = "short"
        BY <3>2 DEF Of
      <4>3. QED
        BY <1>p, <2>0, <2>h, <3>1, <4>1, <4>2
    <3>4. QED
      BY <1>b, <3>3
  <2>3. CASE Announce(f) \/ PartFails(f) \/ Drained(f)
    <3>1. UNCHANGED <<disk, bad>>
      BY <2>3 DEF Announce, PartFails, Drained
    <3>2. QED
      BY <1>b, <1>c, <2>0, <2>h, <3>1
  <2>4. QED
    BY <1>5, <2>1, <2>2, <2>3 DEF PartStep
<1>6. CASE ColumnStep \/ ImportStep \/ TaskStep \/ (\E f \in Files : LoadStep(f)) \/ UNCHANGED vars
  <2>1. UNCHANGED <<disk, bad, count, enc, file>>
    <3>1. CASE ColumnStep
      BY <3>1, ColumnFrame DEF partVars
    <3>2. CASE ImportStep
      BY <3>2, ImportFrame DEF partVars, encVars
    <3>3. CASE TaskStep
      BY <3>3, TaskFrame DEF partVars, encVars
    <3>4. CASE \E f \in Files : LoadStep(f)
      BY <3>4, LoadFrame DEF partVars, encVars
    <3>5. CASE UNCHANGED vars
      BY <3>5 DEF vars, partVars, encVars
    <3>6. QED
      BY <1>6, <3>1, <3>2, <3>3, <3>4, <3>5
  <2>2. QED
    BY <1>b, <1>c, <2>1 DEF Hand
<1>7. QED
  BY <1>2, <1>3, <1>4, <1>5, <1>6, StepsOfNext

(***************************************************************************)
(* The channel of files.                                                    *)
(***************************************************************************)
Items(q) == {q[i] : i \in 1..Len(q)}
Distinct(q) == \A i, j \in 1..Len(q) : q[i] = q[j] => i = j

LEMMA AppendItems ==
  ASSUME NEW S, NEW q \in Seq(S), NEW x \in S
  PROVE  /\ Items(Append(q, x)) = Items(q) \cup {x}
         /\ Distinct(q) /\ x \notin Items(q) => Distinct(Append(q, x))
<1> DEFINE r == Append(q, x)
<1>1. Len(q) \in Nat
  OBVIOUS
<1>2. /\ Len(r) = Len(q) + 1 /\ r[Len(q) + 1] = x
      /\ \A i \in 1..Len(q) : r[i] = q[i]
  OBVIOUS
<1> HIDE DEF r
<1>3. 1..Len(r) = (1..Len(q)) \cup {Len(q) + 1}
  BY <1>1, <1>2
<1>4. Items(r) = Items(q) \cup {x}
  BY <1>2, <1>3 DEF Items
<1>5. ASSUME Distinct(q), x \notin Items(q) PROVE Distinct(r)
  <2>1. \A i \in 1..Len(q) : q[i] # x
    BY <1>5 DEF Items
  <2>2. QED
    BY <1>2, <1>3, <1>5, <2>1 DEF Distinct
<1>6. QED
  BY <1>4, <1>5 DEF r

LEMMA TailItems ==
  ASSUME NEW S, NEW q \in Seq(S), q # <<>>
  PROVE  /\ Items(Tail(q)) \subseteq Items(q) /\ Head(q) \in Items(q)
         /\ Items(q) = Items(Tail(q)) \cup {Head(q)}
         /\ Distinct(q) => Distinct(Tail(q)) /\ Head(q) \notin Items(Tail(q))
<1> DEFINE r == Tail(q)
           h == Head(q)
<1>1. Len(q) \in Nat /\ Len(q) >= 1
  OBVIOUS
<1>2. /\ Len(r) = Len(q) - 1 /\ q[1] = h
      /\ \A i \in 1..Len(r) : r[i] = q[i + 1]
  OBVIOUS
<1> HIDE DEF r, h
<1>3. /\ \A i \in 1..Len(r) : i + 1 \in 1..Len(q) /\ i + 1 # 1
      /\ \A i \in 1..Len(q) : i # 1 => i - 1 \in 1..Len(r) /\ (i - 1) + 1 = i
      /\ 1 \in 1..Len(q)
  BY <1>1, <1>2
<1>4. Items(r) \subseteq Items(q) /\ h \in Items(q)
  BY <1>2, <1>3 DEF Items
<1>5. Items(q) \subseteq Items(r) \cup {h}
  <2>1. SUFFICES ASSUME NEW i \in 1..Len(q) PROVE q[i] \in Items(r) \cup {h}
    BY DEF Items
  <2>2. CASE i = 1
    BY <1>2, <2>2
  <2>3. CASE i # 1
    <3>1. i - 1 \in 1..Len(r) /\ r[i - 1] = q[i]
      BY <1>2, <1>3, <2>3
    <3>2. QED
      BY <3>1 DEF Items
  <2>4. QED
    BY <2>2, <2>3
<1>6. ASSUME Distinct(q) PROVE Distinct(r) /\ h \notin Items(r)
  <2>1. Distinct(r)
    <3>1. SUFFICES ASSUME NEW i \in 1..Len(r), NEW j \in 1..Len(r), r[i] = r[j] PROVE i = j
      BY DEF Distinct
    <3>2. q[i + 1] = q[j + 1]
      BY <1>2, <3>1
    <3>3. i + 1 = j + 1
      BY <1>3, <1>6, <3>2 DEF Distinct
    <3>4. i \in Int /\ j \in Int
      OBVIOUS
    <3>5. QED
      BY <3>3, <3>4
  <2>2. h \notin Items(r)
    <3>1. SUFFICES ASSUME NEW i \in 1..Len(r), r[i] = h PROVE FALSE
      BY DEF Items
    <3>2. q[i + 1] = q[1]
      BY <1>2, <3>1
    <3>3. QED
      BY <1>3, <1>6, <3>2 DEF Distinct
  <2>3. QED
    BY <2>1, <2>2
<1>7. QED
  BY <1>4, <1>5, <1>6 DEF r, h

\* Announced files: they stay what they are, and a file becomes one by Announce.
LEMMA OverStays ==
  ASSUME LoadInv, [Next]_vars, NEW f \in Files
  PROVE  /\ w[f] \in Over => w'[f] \in Over /\ bad'[f] = bad[f] /\ (~plan.single => disk'[f] = disk[f])
         /\ w'[f] \in Over /\ w[f] \notin Over => Announce(f)
         /\ w[f] # "none" => w'[f] # "none"
         /\ bad[f] # "no" => bad'[f] # "no"
<1>0. FileTypes /\ EncoderTypes /\ Takers /\ Parts
  BY InvTypes DEF LoadInv
<1>1. CASE UNCHANGED <<w, bad, disk>>
  BY <1>1
<1>2. ASSUME NEW s \in plan.streams, EncoderStep(s), ~UNCHANGED <<w, bad, disk>>
      PROVE  /\ w[f] \in Over => w'[f] \in Over /\ bad'[f] = bad[f] /\ disk'[f] = disk[f]
             /\ w'[f] \in Over => w[f] \in Over
             /\ w[f] # "none" => w'[f] # "none"
             /\ bad[f] # "no" => bad'[f] # "no"
  <2> DEFINE g == <<s, file[s]>>
  <2>1. Flush(s)
    BY <1>2, NoFlush
  <2>2. /\ g \in Files
        /\ \/ w[g] = "writing" /\ disk' = [disk EXCEPT ![g] = @ + 1] /\ UNCHANGED <<w, bad>>
           \/ w[g] # "writing" /\ bad[g] # "no" /\ UNCHANGED <<disk, w, bad>>
           \/ /\ w[g] = "writing" /\ MayFail("write") /\ disk' = disk
              /\ w' = [w EXCEPT ![g] = "send"] /\ bad' = [bad EXCEPT ![g] = "short"]
    BY <2>1, FlushedFile
  <2> HIDE DEF g
  <2>3. QED
    BY <1>0, <1>2, <2>2 DEF FileTypes, Over
<1>3. ASSUME NEW s \in plan.streams, TakerStep(s), ~UNCHANGED <<w, bad, disk>>
      PROVE  /\ w[f] \in Over => w'[f] \in Over /\ bad'[f] = bad[f] /\ disk'[f] = disk[f]
             /\ w'[f] \in Over => w[f] \in Over
             /\ w[f] # "none" => w'[f] # "none"
             /\ bad[f] # "no" => bad'[f] # "no"
  <2> DEFINE g == <<s, taken[s] + 1>>
  <2>1. UNCHANGED <<bad, disk>>
    BY <1>3, TakerFrame
  <2>2. ProcessReader(s)
    BY <1>3, <2>1 DEF TakerStep, Added, StreamDone
  <2>3. w' = [w EXCEPT ![g] = "create"] /\ taken[s] < file[s]
    BY <2>2 DEF ProcessReader
  <2>4. s \in Streams
    BY PlanType DEF LoadInv, TypeOK
  <2>5. taken[s] \in Nat /\ file[s] \in Nat
    BY <1>0, <2>4 DEF FileTypes, EncoderTypes
  <2>6. g \in Files /\ taken[s] + 1 \in 1..MaxFiles
    <3>1. taken[s] + 1 \in Nat \ {0} /\ taken[s] + 1 <= file[s]
      BY <2>3, <2>5
    <3>2. QED
      BY <2>4, <3>1, FileBound
  <2>7. w[g] = "none"
    BY <1>0, <2>4, <2>5, <2>6 DEF Takers
  <2> HIDE DEF g
  <2>8. QED
    BY <1>0, <2>1, <2>3, <2>7 DEF FileTypes, Over
<1>4. ASSUME NEW g \in Files, PartStep(g)
      PROVE  /\ w[f] \in Over => w'[f] \in Over /\ bad'[f] = bad[f] /\ (~plan.single => disk'[f] = disk[f])
             /\ w'[f] \in Over /\ w[f] \notin Over => Announce(f)
             /\ w[f] # "none" => w'[f] # "none"
             /\ bad[f] # "no" => bad'[f] # "no"
  <2>1. CASE Create(g) \/ CreateFails(g)
    BY <1>0, <2>1 DEF Create, CreateFails, FileTypes, Over
  <2>2. CASE Announce(g)
    <3>1. /\ w[g] \in {"send", "writing"} /\ UNCHANGED <<bad, disk>>
          /\ w' = [w EXCEPT ![g] = IF bad[g] = "no" THEN "done" ELSE "fail"]
      BY <2>2 DEF Announce
    <3>2. f # g => w'[f] = w[f]
      BY <1>0, <3>1 DEF FileTypes
    <3>3. w'[g] \in Over
      BY <1>0, <3>1 DEF FileTypes, Over
    <3>4. CASE f = g
      BY <2>2, <3>1, <3>3, <3>4 DEF Over
    <3>5. CASE f # g
      BY <3>1, <3>2, <3>5
    <3>6. QED
      BY <3>4, <3>5
  <2>3. CASE PartFails(g) \/ Drained(g)
    BY <1>0, <2>3 DEF PartFails, Drained, AfterError, FileTypes, Over
  <2>4. QED
    BY <1>4, <2>1, <2>2, <2>3 DEF PartStep
<1>5. CASE FolderStep \/ ColumnStep \/ ImportStep \/ TaskStep \/ (\E g \in Files : LoadStep(g))
           \/ UNCHANGED vars
  <2>1. UNCHANGED <<w, bad, disk>>
    <3>1. CASE FolderStep
      BY <3>1, FolderFrame
    <3>2. CASE ColumnStep
      BY <3>2, ColumnFrame DEF partVars
    <3>3. CASE ImportStep
      BY <3>3, ImportFrame DEF partVars
    <3>4. CASE TaskStep
      BY <3>4, TaskFrame DEF partVars
    <3>5. CASE \E g \in Files : LoadStep(g)
      BY <3>5, LoadFrame DEF partVars
    <3>6. CASE UNCHANGED vars
      BY <3>6 DEF vars, partVars
    <3>7. QED
      BY <1>5, <3>1, <3>2, <3>3, <3>4, <3>5, <3>6
  <2>2. QED
    BY <1>1, <2>1
<1>6. QED
  BY <1>1, <1>2, <1>3, <1>4, <1>5, StepsOfNext

(***************************************************************************)
(* Where the import is, driver by driver.                                   *)
(***************************************************************************)
LEMMA PlacesInv == LoadInv /\ [Next]_vars => Places'
<1> SUFFICES ASSUME LoadInv, [Next]_vars PROVE Places'
  OBVIOUS
<1>0. Places /\ CallerTypes /\ LoadTypes
  BY InvTypes DEF LoadInv
<1>p. plan' = plan /\ plan.driver \in Drivers
  BY PlanStays, PlanType DEF LoadInv, TypeOK
<1>1. ASSUME UNCHANGED <<pc, ld, alter, result, merged>> PROVE Places'
  BY <1>0, <1>1, <1>p DEF Places, Is, Running
<1>2. CASE FolderStep
  BY <1>1, <1>2, FolderFrame DEF mainVars, loadVars
<1>3. ASSUME NEW s \in plan.streams, EncoderStep(s) PROVE Places'
  BY <1>1, <1>3, EncoderFrame DEF mainVars, loadVars
<1>4. ASSUME NEW s \in plan.streams, TakerStep(s) PROVE Places'
  BY <1>1, <1>4, TakerFrame DEF mainVars, loadVars
<1>5. ASSUME NEW f \in Files, PartStep(f) PROVE Places'
  BY <1>1, <1>5, PartFrame DEF mainVars, loadVars
<1>6. CASE ColumnStep
  <2>1. UNCHANGED <<pc, ld, result, merged>>
    BY <1>6, ColumnFrame DEF mainVars, loadVars
  <2>2. alter' \in {"locked", "waiting", "altering"} => Is({"bigquery"})
    <3>1. ASSUME NEW s \in plan.streams, ChangeColumn(s)
          PROVE  alter' \in {"locked", "waiting", "altering"} => Is({"bigquery"})
      BY <3>1 DEF ChangeColumn
    <3>2. CASE HandlerWaits \/ HandlerAlters \/ HandlerReturns
      BY <1>0, <3>2 DEF HandlerWaits, HandlerAlters, HandlerReturns, Places
    <3>3. QED
      BY <1>6, <3>1, <3>2 DEF ColumnStep
  <2>3. QED
    BY <1>0, <1>p, <2>1, <2>2 DEF Places, Is, Running
<1>7. ASSUME NEW f \in Files, LoadStep(f) PROVE Places'
  <2>1. UNCHANGED <<pc, alter, result, merged>>
    BY <1>7, LoadFrame
  <2>2. ld[f] \in {"running", "adding"}
    BY <1>7 DEF LoadStep, LoadEnds, AddLoaded
  <2>3. Running # {} /\ ld[f] # "none"
    BY <2>2 DEF Running
  <2>4. ld' = [ld EXCEPT ![f] = "ended"] \/ (ld' = [ld EXCEPT ![f] = "adding"] /\ Is({"starrocks"}))
    BY <1>7 DEF LoadStep, LoadEnds, AddLoaded
  <2>5. \A e \in Files : ld'[e] = "adding" => Is({"starrocks"})
    BY <1>0, <2>4 DEF Places, LoadTypes
  <2>6. pc \notin {"copy", "returned", "merge", "stage"} /\ ~merged
        /\ ~Is({"duckdb", "file", "bucket"})
    BY <1>0, <2>3 DEF Places
  <2>7. QED
    BY <1>0, <1>p, <2>1, <2>5, <2>6 DEF Places, Is
<1>8. CASE ImportStep
  <2>1. alter' = alter
    BY <1>8, ImportFrame
  <2>2. CASE Stage
    BY <1>0, <1>p, <2>1, <2>2 DEF Stage, Leave, Places, Is, Running, CallerTypes, loadVars
  <2>3. CASE Receive
    BY <1>0, <1>p, <2>1, <2>3 DEF Receive, LooksFirst, Places, Is, Running, CallerTypes, loadVars, Drivers
  <2>4. CASE Insert
    BY <1>0, <1>p, <2>1, <2>4 DEF Insert, Places, Is, Running, CallerTypes
  <2>5. CASE Start
    <3>1. /\ pc = "start" /\ Is({"bigquery", "stage", "starrocks"}) /\ merged' = merged
          /\ ld' = [ld EXCEPT ![cur] = "running"]
          /\ \/ pc' = "recv" /\ result' = result
             \/ pc' = "end" /\ result' = "failed"
      BY <2>5 DEF Start, Leave
    <3>2. /\ ~merged /\ result = "none" /\ ~Is({"duckdb", "file", "bucket"})
          /\ \A e \in Files : ld'[e] = "adding" => Is({"starrocks"})
      BY <1>0, <3>1 DEF Places, LoadTypes, CallerTypes, Is
    <3>3. QED
      BY <1>0, <1>p, <2>1, <3>1, <3>2 DEF Places, Is
  <2>6. CASE LastFile
    BY <1>0, <1>p, <2>1, <2>6 DEF LastFile, Leave, Places, Is, Running, CallerTypes, loadVars, Drivers
  <2>7. CASE LoadsDone
    <3>1. /\ pc = "wait" /\ Running = {} /\ UNCHANGED <<ld, merged>>
          /\ \/ pc' = "end" /\ result' = "failed"
             \/ pc' = "copy" /\ result' = result /\ Is({"stage"})
             \/ pc' = "returned" /\ result' = result
      BY <2>7 DEF LoadsDone, Leave, loadVars
    <3>2. Running' = {}
      BY <3>1 DEF Running
    <3>3. QED
      BY <1>0, <1>p, <2>1, <3>1, <3>2 DEF Places, Is, CallerTypes
  <2>8. CASE Drain
    BY <1>1, <2>1, <2>8 DEF Drain, mainVars, loadVars
  <2>9. CASE NothingToWrite
    BY <1>0, <1>p, <2>1, <2>9 DEF NothingToWrite, Places, Is, Running, CallerTypes, loadVars
  <2>10. CASE WriteDataflow
    <3>1. /\ pc = "write" /\ ld' = ld
          /\ \/ pc' = "end" /\ result' = "failed" /\ merged' = merged
             \/ pc' = "copy" /\ result' = result /\ merged' = merged /\ Is({"bucket"})
             \/ pc' = "end" /\ result' = "success" /\ merged' = TRUE
      BY <2>10 DEF WriteDataflow, Leave, loadVars
    <3>2. Is({"file", "bucket"}) /\ \A f \in Files : ld[f] = "none"
      BY <1>0, <3>1 DEF Places, Is
    <3>3. Running' = {}
      BY <3>1, <3>2 DEF Running
    <3>4. QED
      BY <1>0, <1>p, <2>1, <3>1, <3>2, <3>3 DEF Places, Is, CallerTypes
  <2>11. CASE Copy
    <3>1. /\ pc = "copy" /\ ld' = ld /\ merged' = merged
          /\ \/ pc' = "end" /\ result' = "failed"
             \/ pc' = "returned" /\ result' = result
      BY <2>11 DEF Copy, Leave
    <3>2. Running' = {} /\ Is({"stage", "bucket"})
      BY <1>0, <3>1 DEF Places, Running
    <3>3. QED
      BY <1>0, <1>p, <2>1, <3>1, <3>2 DEF Places, Is, CallerTypes
  <2>12. QED
    BY <1>8, <2>2, <2>3, <2>4, <2>5, <2>6, <2>7, <2>8, <2>9, <2>10, <2>11 DEF ImportStep
<1>9. CASE TaskStep
  <2>1. UNCHANGED <<alter, ld>>
    BY <1>9, TaskFrame DEF loadVars
  <2>2. /\ pc \in {"returned", "merge"}
        /\ \/ pc' = "end" /\ result' \in {"failed", "empty"} /\ merged' = merged
           \/ pc' = "merge" /\ result' = result /\ merged' = merged
           \/ pc' = "end" /\ result' \in {"failed", "success"} /\ merged' = TRUE
    BY <1>9 DEF TaskStep, Validate, Merge
  <2>3. Running = {} /\ Running' = {}
    BY <1>0, <2>1, <2>2 DEF Places, Running
  <2>4. QED
    BY <1>0, <1>p, <2>1, <2>2, <2>3 DEF Places, Is, CallerTypes
<1>10. CASE UNCHANGED vars
  BY <1>1, <1>10 DEF vars, mainVars, loadVars
<1>11. QED
  BY <1>2, <1>3, <1>4, <1>5, <1>6, <1>7, <1>8, <1>9, <1>10, StepsOfNext

\* BigQuery's table is not altered under a load job.
LEMMA NoLoadInv == LoadInv /\ [Next]_vars => NoLoadDuringAlter'
<1> SUFFICES ASSUME LoadInv, [Next]_vars PROVE NoLoadDuringAlter'
  OBVIOUS
<1>0. Places /\ NoLoadDuringAlter /\ LoadTypes /\ CallerTypes
  BY InvTypes DEF LoadInv
<1>1. ASSUME UNCHANGED <<ld, alter>> PROVE NoLoadDuringAlter'
  BY <1>0, <1>1 DEF NoLoadDuringAlter, Running
<1>2. CASE FolderStep \/ TaskStep \/ UNCHANGED vars
  BY <1>1, <1>2, FolderFrame, TaskFrame DEF vars, mainVars, loadVars
<1>3. ASSUME NEW s \in plan.streams, EncoderStep(s) \/ TakerStep(s) PROVE NoLoadDuringAlter'
  BY <1>1, <1>3, EncoderFrame, TakerFrame DEF mainVars, loadVars
<1>4. ASSUME NEW f \in Files, PartStep(f) PROVE NoLoadDuringAlter'
  BY <1>1, <1>4, PartFrame DEF mainVars, loadVars
<1>5. CASE ColumnStep
  <2>1. ld' = ld
    BY <1>5, ColumnFrame DEF mainVars, loadVars
  <2>2. alter' = "altering" => Running = {}
    BY <1>5 DEF ColumnStep, ChangeColumn, HandlerWaits, HandlerAlters, HandlerReturns, WritersDone
  <2>3. QED
    BY <2>1, <2>2 DEF NoLoadDuringAlter, Running
<1>6. ASSUME NEW f \in Files, LoadStep(f) PROVE NoLoadDuringAlter'
  <2>1. alter' = alter
    BY <1>6, LoadFrame
  <2>2. Running # {}
    BY <1>6 DEF LoadStep, LoadEnds, AddLoaded, Running
  <2>3. QED
    BY <1>0, <2>1, <2>2 DEF NoLoadDuringAlter
<1>7. CASE ImportStep
  <2>1. alter' = alter
    BY <1>7, ImportFrame
  <2>2. CASE Start
    <3>1. alter # "altering"
      BY <1>0, <2>2 DEF Start, ConnMuxFree, Places
    <3>2. QED
      BY <2>1, <3>1 DEF NoLoadDuringAlter
  <2>3. CASE ~Start
    <3>1. ld' = ld
      BY <1>7, <2>3 DEF ImportStep, Stage, Receive, Insert, LastFile, LoadsDone, Drain,
         NothingToWrite, WriteDataflow, Copy, loadVars, mainVars
    <3>2. QED
      BY <1>1, <2>1, <3>1
  <2>4. QED
    BY <2>2, <2>3
<1>8. QED
  BY <1>2, <1>3, <1>4, <1>5, <1>6, <1>7, StepsOfNext

LEMMA OnceInv == LoadInv /\ [Next]_vars => Once'
<1> SUFFICES ASSUME LoadInv, [Next]_vars PROVE Once'
  OBVIOUS
<1>0. Once /\ CallerTypes /\ LoadTypes /\ FileTypes
  BY InvTypes DEF LoadInv
<1>a. /\ Distinct(ready) /\ \A f \in Items(ready) : f \in Files /\ w[f] \in Over
      /\ \A f \in Files : ld[f] # "none" => w[f] \in Over /\ f \notin Items(ready)
      /\ pc = "start" => w[cur] \in Over /\ cur \notin Items(ready) /\ ld[cur] = "none"
  <2>1. \A f \in Items(ready) : f \in Files
    BY <1>0 DEF Items, FileTypes
  <2>2. QED
    BY <1>0, <2>1 DEF Once, Distinct, Items, Queued
<1>b. ASSUME /\ Distinct(ready') /\ \A f \in Items(ready') : w'[f] \in Over
             /\ \A f \in Files : ld'[f] # "none" => w'[f] \in Over /\ f \notin Items(ready')
             /\ pc' = "start" => w'[cur'] \in Over /\ cur' \notin Items(ready') /\ ld'[cur'] = "none"
      PROVE  Once'
  BY <1>b DEF Once, Distinct, Items, Queued
<1>o. \A f \in Files : w[f] \in Over => w'[f] \in Over
  BY OverStays
<1>c. cur \in Files /\ ready \in Seq(Files)
  BY <1>0 DEF CallerTypes, FileTypes
<1>1. ASSUME UNCHANGED <<ready, ld, cur>>, pc' = "start" => pc = "start" PROVE Once'
  BY <1>1, <1>a, <1>b, <1>c, <1>o
<1>2. CASE FolderStep \/ ColumnStep \/ TaskStep \/ UNCHANGED vars
  <2>1. CASE FolderStep
    BY <1>1, <2>1, FolderFrame DEF mainVars, loadVars
  <2>2. CASE ColumnStep
    BY <1>1, <2>2, ColumnFrame DEF mainVars, loadVars
  <2>3. CASE TaskStep
    <3>1. pc' # "start"
      BY <2>3 DEF TaskStep, Validate, Merge
    <3>2. QED
      BY <1>1, <2>3, <3>1, TaskFrame DEF loadVars
  <2>4. CASE UNCHANGED vars
    BY <1>1, <2>4 DEF vars, mainVars, loadVars
  <2>5. QED
    BY <1>2, <2>1, <2>2, <2>3, <2>4
<1>3. ASSUME NEW s \in plan.streams, EncoderStep(s) \/ TakerStep(s) PROVE Once'
  BY <1>1, <1>3, EncoderFrame, TakerFrame DEF mainVars, loadVars
<1>4. ASSUME NEW f \in Files, PartStep(f) PROVE Once'
  <2>1. UNCHANGED <<ld, cur, pc>>
    BY <1>4, PartFrame DEF mainVars, loadVars
  <2>2. CASE Announce(f)
    <3>1. /\ w[f] \in {"send", "writing"} /\ ready' = Append(ready, f)
          /\ w' = [w EXCEPT ![f] = IF bad[f] = "no" THEN "done" ELSE "fail"]
      BY <2>2 DEF Announce
    <3>2. w'[f] \in Over /\ w[f] \notin Over
      BY <1>0, <3>1 DEF FileTypes, Over
    <3>3. f \notin Items(ready) /\ ld[f] = "none" /\ (pc = "start" => cur # f)
      BY <1>a, <3>2
    <3>4. Items(ready') = Items(ready) \cup {f} /\ Distinct(ready')
      <4>1. Items(ready') = Items(ready) \cup {f}
        BY <1>c, <3>1, AppendItems
      <4>2. Distinct(ready')
        BY <1>a, <1>c, <3>1, <3>3, AppendItems
      <4>3. QED
        BY <4>1, <4>2
    <3>5. QED
      BY <1>a, <1>b, <1>c, <1>o, <2>1, <3>2, <3>3, <3>4
  <2>3. CASE ~Announce(f)
    BY <1>1, <1>4, <2>1, <2>3 DEF PartStep, Create, CreateFails, PartFails, Drained
  <2>4. QED
    BY <2>2, <2>3
<1>5. ASSUME NEW f \in Files, LoadStep(f) PROVE Once'
  <2>1. UNCHANGED <<ready, cur, pc>>
    BY <1>5, LoadFrame
  <2>2. /\ ld[f] # "none"
        /\ ld' = [ld EXCEPT ![f] = "ended"] \/ ld' = [ld EXCEPT ![f] = "adding"]
    BY <1>5 DEF LoadStep, LoadEnds, AddLoaded
  <2>3. \A e \in Files : (ld'[e] # "none" => ld[e] # "none") /\ (ld[e] = "none" => ld'[e] = "none")
    BY <1>0, <2>2 DEF LoadTypes
  <2>4. QED
    BY <1>a, <1>b, <1>c, <1>o, <2>1, <2>3
<1>6. CASE ImportStep
  <2>1. CASE Receive \/ Drain
    <3>1. /\ ready # <<>> /\ ready' = Tail(ready) /\ ld' = ld
          /\ \/ cur' = Head(ready)
             \/ cur' = cur /\ pc' = pc
      BY <2>1 DEF Receive, Drain, mainVars, loadVars
    <3>2. Items(ready') \subseteq Items(ready) /\ Head(ready) \in Items(ready)
      <4>1. Items(ready') \subseteq Items(ready)
        BY <1>c, <3>1, TailItems
      <4>2. Head(ready) \in Items(ready)
        BY <1>c, <3>1, TailItems
      <4>3. QED
        BY <4>1, <4>2
    <3>3. Distinct(ready') /\ Head(ready) \notin Items(ready')
      <4>1. Distinct(ready')
        BY <1>a, <1>c, <3>1, TailItems
      <4>2. Head(ready) \notin Items(ready')
        BY <1>a, <1>c, <3>1, TailItems
      <4>3. QED
        BY <4>1, <4>2
    <3>4. \A f \in Items(ready') : w'[f] \in Over
      BY <1>a, <1>o, <3>2
    <3>5. \A f \in Files : ld'[f] # "none" => w'[f] \in Over /\ f \notin Items(ready')
      BY <1>a, <1>o, <3>1, <3>2
    <3>6. pc' = "start" => w'[cur'] \in Over /\ cur' \notin Items(ready') /\ ld'[cur'] = "none"
      <4>1. CASE cur' = Head(ready)
        BY <1>a, <1>o, <3>1, <3>2, <3>3, <4>1
      <4>2. CASE cur' = cur /\ pc' = pc
        BY <1>a, <1>c, <1>o, <3>1, <3>2, <4>2
      <4>3. QED
        BY <3>1, <4>1, <4>2
    <3>7. QED
      BY <1>b, <3>3, <3>4, <3>5, <3>6
  <2>2. CASE Start
    <3>1. /\ pc = "start" /\ UNCHANGED <<ready, cur>>
          /\ ld' = [ld EXCEPT ![cur] = "running"] /\ pc' # "start"
      BY <2>2 DEF Start, Leave
    <3>2. \A f \in Files : f # cur => ld'[f] = ld[f]
      BY <1>0, <3>1 DEF LoadTypes
    <3>3. QED
      BY <1>a, <1>b, <1>c, <1>o, <3>1, <3>2
  <2>3. CASE Stage \/ Insert \/ LastFile \/ LoadsDone \/ NothingToWrite \/ WriteDataflow \/ Copy
    <3>1. UNCHANGED <<ready, ld, cur>> /\ pc' # "start"
      BY <2>3 DEF Stage, Insert, LastFile, LoadsDone, NothingToWrite, WriteDataflow, Copy, Leave,
         loadVars
    <3>2. QED
      BY <1>1, <3>1
  <2>4. QED
    BY <1>6, <2>1, <2>2, <2>3 DEF ImportStep
<1>7. QED
  BY <1>2, <1>3, <1>4, <1>5, <1>6, StepsOfNext

(***************************************************************************)
(* The files that have been removed.                                        *)
(***************************************************************************)
LEMMA NotSingle == LoadInv /\ ~Is({"file"}) => ~plan.single
  BY PlanType DEF LoadInv, TypeOK, Is

LEMMA RemovedInv == LoadInv /\ [Next]_vars => Removed'
<1> SUFFICES ASSUME LoadInv, [Next]_vars PROVE Removed'
  OBVIOUS
<1>0. Removed /\ Once /\ Places /\ CallerTypes /\ LoadTypes /\ FileTypes
  BY InvTypes DEF LoadInv
<1>p. plan' = plan /\ plan.driver \in Drivers
  BY PlanStays, PlanType DEF LoadInv, TypeOK
<1>q. Queued = Items(ready) /\ Queued' = Items(ready')
  BY DEF Queued, Items
<1>c. cur \in Files /\ ready \in Seq(Files) /\ gone \subseteq Files
  BY <1>0 DEF CallerTypes, FileTypes, LoadTypes
<1> DEFINE Inserted(e) == w[e] \in Over /\ e \notin Queued /\ bad[e] # "absent" /\ table[e] = disk[e]
           Running1 == \A f \in Files : ld[f] = "running" => f \notin gone
           Off == \A f \in Files : ld[f] = "ended" => f \in gone
           Ended == Is({"bigquery", "stage", "starrocks"}) /\ pc \in {"stage", "recv", "start", "wait"}
                      => \A f \in gone : ld[f] = "ended"
           Duck == Is({"duckdb"}) /\ pc \in {"recv", "start"}
                      => (\A f \in gone : Inserted(f)) /\ (pc = "start" => cur \notin gone)
<1>a. Running1 /\ Off /\ Ended /\ Duck
  BY <1>0 DEF Removed
<1>b. ASSUME Running1', Off', Ended', Duck' PROVE Removed'
  BY <1>b DEF Removed
<1>i. Is({"duckdb"}) => ~plan.single /\ \A f \in Files : ld[f] = "none"
  BY <1>0, NotSingle DEF Is, Places
<1>d. \A x : Is(x)' <=> Is(x)
  BY <1>p DEF Is
<1> HIDE DEF Inserted
<1>e. ASSUME Is({"duckdb"}), NEW f \in gone, Inserted(f), table'[f] = table[f], f \notin Queued'
      PROVE  Inserted(f)'
  <2>1. f \in Files
    BY <1>c
  <2>2. w'[f] \in Over /\ bad'[f] = bad[f] /\ disk'[f] = disk[f]
    BY <1>e, <1>i, <2>1, OverStays DEF Inserted
  <2>3. QED
    BY <1>e, <2>2 DEF Inserted
<1>1. ASSUME UNCHANGED <<gone, ld, pc, cur, table>>,
             \A f \in Files : w[f] \in Over /\ f \notin Queued => f \notin Queued'
      PROVE  Removed'
  <2>1. Running1' /\ Off' /\ Ended'
    BY <1>a, <1>1, <1>d
  <2>2. Duck'
    <3>1. SUFFICES ASSUME Is({"duckdb"}), pc \in {"recv", "start"}
                   PROVE  (\A f \in gone : Inserted(f)') /\ (pc = "start" => cur \notin gone)
      BY <1>1, <1>d
    <3>2. (\A f \in gone : Inserted(f)) /\ (pc = "start" => cur \notin gone)
      BY <1>a, <3>1
    <3>3. ASSUME NEW f \in gone PROVE Inserted(f)'
      BY <1>1, <1>c, <1>e, <3>1, <3>2 DEF Inserted
    <3>4. QED
      BY <3>2, <3>3
  <2>3. QED
    BY <1>b, <2>1, <2>2
<1>2. CASE FolderStep \/ ColumnStep \/ UNCHANGED vars
  <2>1. UNCHANGED <<gone, ld, pc, cur, table, ready>>
    BY <1>2, FolderFrame, ColumnFrame DEF mainVars, loadVars, vars
  <2>2. QED
    BY <1>1, <1>q, <2>1
<1>3. ASSUME NEW s \in plan.streams, EncoderStep(s) \/ TakerStep(s) PROVE Removed'
  <2>1. UNCHANGED <<gone, ld, pc, cur, table, ready>>
    BY <1>3, EncoderFrame, TakerFrame DEF mainVars, loadVars
  <2>2. QED
    BY <1>1, <1>q, <2>1
<1>4. ASSUME NEW g \in Files, PartStep(g) PROVE Removed'
  <2>1. UNCHANGED <<gone, ld, pc, cur, table>>
    BY <1>4, PartFrame DEF mainVars, loadVars
  <2>2. ready' = ready \/ (ready' = Append(ready, g) /\ w[g] \notin Over)
    BY <1>4 DEF PartStep, Create, CreateFails, Announce, PartFails, Drained, Over
  <2>3. ASSUME NEW f \in Files, w[f] \in Over, f \notin Queued PROVE f \notin Queued'
    <3>1. CASE ready' = ready
      BY <1>q, <2>3, <3>1
    <3>2. CASE ready' = Append(ready, g) /\ w[g] \notin Over
      <4>1. Items(ready') = Items(ready) \cup {g}
        BY <1>c, <3>2, AppendItems
      <4>2. QED
        BY <1>q, <2>3, <3>2, <4>1
    <3>3. QED
      BY <2>2, <3>1, <3>2
  <2>4. QED
    BY <1>1, <2>1, <2>3
<1>5. ASSUME NEW f \in Files, LoadStep(f) PROVE Removed'
  <2>1. UNCHANGED <<ready, cur, pc>>
    BY <1>5, LoadFrame
  <2>2. /\ ld[f] \in {"running", "adding"}
        /\ \/ ld' = [ld EXCEPT ![f] = "ended"] /\ gone' = gone \cup {f}
           \/ ld' = [ld EXCEPT ![f] = "adding"] /\ gone' = gone /\ f \notin gone
    BY <1>5 DEF LoadStep, LoadEnds, AddLoaded
  <2>3. ~Is({"duckdb"})
    BY <1>i, <2>2
  <2>4. \A e \in Files : e # f => ld'[e] = ld[e]
    BY <1>0, <2>2 DEF LoadTypes
  <2>5. ld'[f] = "ended" \/ (ld'[f] = "adding" /\ f \notin gone')
    BY <1>0, <2>2 DEF LoadTypes
  <2>6. Running1'
    BY <1>a, <2>2, <2>4, <2>5
  <2>7. Ended'
    BY <1>a, <1>c, <1>d, <2>1, <2>2, <2>4, <2>5
  <2>8. Off'
    BY <1>a, <1>0, <2>2, <2>4, <2>5 DEF LoadTypes
  <2>9. QED
    BY <1>b, <1>d, <2>3, <2>6, <2>7, <2>8
<1>6. CASE ImportStep
  <2>1. CASE Receive \/ Drain
    <3>1. /\ ready # <<>> /\ ready' = Tail(ready) /\ UNCHANGED <<ld, gone, table>>
          /\ \/ pc = "recv" /\ cur' = Head(ready)
                /\ (pc' = "start" \/ (pc' = "wait" /\ ~Is({"duckdb"})))
             \/ cur' = cur /\ pc' = pc
      <4>1. CASE Receive
        <5>1. /\ ready # <<>> /\ ready' = Tail(ready) /\ UNCHANGED <<ld, gone, table>>
              /\ pc = "recv" /\ cur' = Head(ready)
              /\ pc' = IF LooksFirst /\ err THEN "wait" ELSE "start"
          BY <4>1 DEF Receive, loadVars
        <5>2. LooksFirst => ~Is({"duckdb"})
          BY DEF LooksFirst, Is
        <5>3. QED
          BY <5>1, <5>2
      <4>2. CASE Drain
        BY <4>2 DEF Drain, mainVars, loadVars
      <4>3. QED
        BY <2>1, <4>1, <4>2
    <3>2. Queued' \subseteq Queued /\ Head(ready) \in Queued
      <4>1. Items(ready') \subseteq Items(ready)
        BY <1>c, <3>1, TailItems
      <4>2. Head(ready) \in Items(ready)
        BY <1>c, <3>1, TailItems
      <4>3. QED
        BY <1>q, <4>1, <4>2
    <3>3. Running1' /\ Off' /\ Ended'
      BY <1>a, <1>d, <3>1
    <3>4. Duck'
      <4>1. SUFFICES ASSUME Is({"duckdb"}), pc' \in {"recv", "start"}
                     PROVE  (\A f \in gone' : Inserted(f)') /\ (pc' = "start" => cur' \notin gone')
        BY <1>d
      <4>2. (\A f \in gone : Inserted(f)) /\ (pc = "start" => cur \notin gone)
        BY <1>a, <3>1, <4>1
      <4>3. ASSUME NEW f \in gone PROVE Inserted(f)'
        BY <1>e, <3>1, <3>2, <4>1, <4>2 DEF Inserted
      <4>4. cur' = Head(ready) => cur' \notin gone
        BY <3>2, <4>2 DEF Inserted
      <4>5. QED
        BY <3>1, <4>2, <4>3, <4>4
    <3>5. QED
      BY <1>b, <3>3, <3>4
  <2>2. CASE Insert
    <3>1. /\ pc = "start" /\ Is({"duckdb"}) /\ gone' = gone \cup {cur} /\ UNCHANGED <<ld, ready>>
          /\ \/ bad[cur] # "absent" /\ table' = [table EXCEPT ![cur] = disk[cur]]
             \/ pc' = "end"
      BY <2>2 DEF Insert
    <3>2. Running1' /\ Off' /\ Ended'
      BY <1>d, <1>i, <3>1 DEF Is
    <3>3. Duck'
      <4>1. SUFFICES ASSUME pc' # "end" PROVE (\A f \in gone' : Inserted(f)') /\ pc' # "start"
        BY <1>d
      <4>2. pc' = "recv"
        BY <2>2, <4>1 DEF Insert
      <4>3. (\A f \in gone : Inserted(f)) /\ cur \notin gone
        BY <1>a, <3>1
      <4>4. table'[cur] = disk[cur] /\ \A f \in Files : f # cur => table'[f] = table[f]
        BY <1>0, <1>c, <3>1, <4>1 DEF LoadTypes
      <4>5. ASSUME NEW f \in gone PROVE Inserted(f)'
        BY <1>c, <1>e, <1>q, <3>1, <4>3, <4>4 DEF Inserted
      <4>6. w[cur] \in Over /\ cur \notin Queued
        BY <1>0, <3>1 DEF Once
      <4>7. UNCHANGED <<w, bad, disk>>
        BY <1>6, ImportFrame DEF partVars
      <4>8. Queued' = Queued /\ cur' = cur /\ bad[cur] # "absent"
        BY <1>q, <2>2, <3>1, <4>1 DEF Insert
      <4>9. Inserted(cur)'
        BY <4>4, <4>6, <4>7, <4>8 DEF Inserted
      <4>10. ASSUME NEW f \in gone' PROVE Inserted(f)'
        <5>1. CASE f = cur
          BY <4>8, <4>9, <5>1
        <5>2. CASE f \in gone
          BY <4>5, <5>2
        <5>3. QED
          BY <3>1, <5>1, <5>2
      <4>11. QED
        BY <4>2, <4>10
    <3>4. QED
      BY <1>b, <3>2, <3>3
  <2>3. CASE Start
    <3>1. /\ pc = "start" /\ Is({"bigquery", "stage", "starrocks"})
          /\ ld' = [ld EXCEPT ![cur] = "running"]
          /\ \/ gone' = gone
             \/ gone' = gone \cup Cleaned /\ Is({"starrocks"}) /\ pc' = "end"
      BY <2>3 DEF Start, Leave
    <3>2. gone' = gone
      BY <3>1 DEF Cleaned, Is
    <3>3. ld[cur] = "none"
      BY <1>0, <3>1 DEF Once
    <3>4. \A f \in gone : ld[f] = "ended"
      BY <1>a, <3>1
    <3>5. \A f \in Files : f # cur => ld'[f] = ld[f]
      BY <1>0, <3>1 DEF LoadTypes
    <3>6. \A f \in gone : ld'[f] = "ended"
      BY <1>c, <3>3, <3>4, <3>5
    <3>7. ~Is({"duckdb"})
      BY <3>1 DEF Is
    <3>8. Running1'
      BY <1>a, <3>2, <3>6
    <3>9. Ended'
      BY <3>2, <3>6
    <3>10. Off'
      <4>1. ld'[cur] # "ended"
        BY <1>0, <1>c, <3>1 DEF LoadTypes
      <4>2. QED
        BY <1>a, <3>2, <3>5, <4>1
    <3>11. QED
      BY <1>b, <1>d, <3>7, <3>8, <3>9, <3>10
  <2>4. CASE LoadsDone /\ Is({"duckdb"})
    BY <1>0, <2>4 DEF LoadsDone, Places, Is
  <2>5. CASE (LoadsDone /\ ~Is({"duckdb"})) \/ Stage \/ LastFile \/ NothingToWrite \/ WriteDataflow \/ Copy
    <3>1. /\ ld' = ld
          /\ \/ gone' = gone
             \/ Running = {}
          /\ \/ gone' = gone
             \/ pc' \notin {"stage", "recv", "start", "wait"}
          /\ pc' \in {"recv", "start"} => Stage
      <4>1. CASE LoadsDone
        BY <4>1 DEF LoadsDone, Leave, loadVars
      <4>2. CASE Stage
        <5>1. Running = {}
          BY <1>0, <4>2 DEF Stage, Places, Running
        <5>2. QED
          BY <4>2, <5>1 DEF Stage, Leave, loadVars
      <4>3. CASE LastFile
        <5>1. Is({"duckdb"}) => Running = {}
          BY <1>i DEF Running
        <5>2. QED
          BY <4>3, <5>1 DEF LastFile, Leave, loadVars
      <4>4. CASE NothingToWrite
        BY <4>4 DEF NothingToWrite, loadVars
      <4>5. CASE WriteDataflow
        <5>1. Running = {}
          BY <1>0, <4>5 DEF WriteDataflow, Places, Running, Is
        <5>2. QED
          BY <4>5, <5>1 DEF WriteDataflow, Leave, loadVars
      <4>6. CASE Copy
        <5>1. Running = {}
          BY <1>0, <4>6 DEF Copy, Places
        <5>2. QED
          BY <4>6, <5>1 DEF Copy, Leave
      <4>7. QED
        BY <2>5, <4>1, <4>2, <4>3, <4>4, <4>5, <4>6
    <3>2. Running1'
      BY <1>a, <3>1 DEF Running
    <3>3. pc' \in {"stage", "recv", "start", "wait"} =>
            gone' = gone /\ (pc \in {"stage", "recv", "start", "wait"})
      BY <2>5, <3>1 DEF LoadsDone, Stage, LastFile, NothingToWrite, WriteDataflow, Copy, Leave
    <3>4. Ended'
      BY <1>a, <1>d, <3>1, <3>3
    <3>5. Duck'
      BY <1>0, <1>d, <3>1 DEF Stage, Places, Is
    <3>6. Off'
      <4>1. gone \subseteq gone'
        BY <2>5 DEF LoadsDone, Stage, LastFile, NothingToWrite, WriteDataflow, Copy, Leave
      <4>2. QED
        BY <1>a, <3>1, <4>1
    <3>7. QED
      BY <1>b, <3>2, <3>4, <3>5, <3>6
  <2>6. QED
    BY <1>6, <2>1, <2>2, <2>3, <2>4, <2>5 DEF ImportStep
<1>7. CASE TaskStep
  <2>1. UNCHANGED <<gone, ld>> /\ pc' \notin {"stage", "recv", "start", "wait"}
    BY <1>7, TaskFrame DEF loadVars, TaskStep, Validate, Merge
  <2>2. QED
    BY <1>a, <1>b, <2>1
<1>8. QED
  BY <1>2, <1>3, <1>4, <1>5, <1>6, <1>7, StepsOfNext

(***************************************************************************)
(* When the channel of files has been closed.                               *)
(***************************************************************************)
\* The folder was never made: nothing has been written, announced or loaded.
LEMMA Undone ==
  ASSUME LoadInv, Untouched
  PROVE  /\ \A f \in Files : w[f] = "none" /\ disk[f] = 0 /\ ld[f] = "none" /\ bad[f] = "no"
         /\ Queued = {} /\ Running = {} /\ Total = 0 /\ \A s \in Streams : taken[s] = 0
<1>0. Parts /\ Once /\ Takers /\ FileTypes /\ EncoderTypes
  BY InvTypes DEF LoadInv
<1>1. \A f \in Files : w[f] = "none" /\ disk[f] = 0 /\ bad[f] = "no"
  BY <1>0 DEF Untouched, Parts
<1>2. \A f \in Files : ld[f] = "none"
  BY <1>0, <1>1 DEF Once, Over
<1>3. Queued = {}
  <2>1. Queued \subseteq Files
    BY <1>0 DEF Queued, FileTypes
  <2>2. QED
    BY <1>0, <1>1, <2>1 DEF Once, Over
<1>4. Running = {}
  BY <1>2 DEF Running
<1>5. Total = 0
  BY RowsZero, StagedLoadAssumption DEF Untouched, Total
<1>6. ASSUME NEW s \in Streams PROVE taken[s] = 0
  <2>1. 1 \in 1..MaxFiles /\ <<s, 1>> \in Files
    BY ConstantTypes DEF Files
  <2>2. ~(1 <= taken[s])
    BY <1>0, <1>1, <2>1 DEF Takers
  <2>3. QED
    BY <1>0, <2>2 DEF FileTypes
<1>7. QED
  BY <1>1, <1>2, <1>3, <1>4, <1>5, <1>6

\* No part is still being written.
LEMMA Quiet ==
  ASSUME LoadInv, ChnClosed
  PROVE  /\ \A f \in Files : w[f] \in {"none", "done"}
         /\ \A s \in Streams : proc[s] \in {"idle", "done"}
         /\ Untouched \/ (Begun /\ wd = "closed")
<1>0. Folder /\ Takers /\ FileTypes
  BY InvTypes DEF LoadInv
<1>1. Untouched \/ (Begun /\ wd = "closed" /\ \A s \in Streams : proc[s] = "done")
  BY <1>0 DEF ChnClosed, Folder
<1>2. ASSUME NEW f \in Files, \A s \in Streams : proc[s] = "done" PROVE w[f] \in {"none", "done"}
  <2>1. f[1] \in Streams /\ f \in Of(f[1])
    BY DEF Files, Of
  <2>2. Unfinished(f[1]) = {}
    BY <1>0, <1>2, <2>1 DEF Takers
  <2>3. QED
    BY <2>1, <2>2 DEF Unfinished
<1>3. QED
  BY <1>1, <1>2 DEF Untouched

\* Without an error every stream has been written whole.
LEMMA Settled ==
  ASSUME LoadInv, wd = "closed", ~err
  PROVE  /\ Begun /\ srcErr = {}
         /\ \A s \in Streams : enc[s] = "done" /\ proc[s] = "done" /\ count[s] = plan.rows[s]
         /\ \A f \in Files : w[f] \in {"none", "done"} /\ bad[f] = "no"
                             /\ (w[f] = "none" => disk[f] = 0)
         /\ \A s \in Streams : ~(plan.single /\ file[s] > 1) => Rows(disk, Of(s)) = plan.rows[s]
<1>0. /\ Folder /\ Takers /\ Parts /\ Encoders /\ Accounts /\ FileTypes /\ EncoderTypes
  BY InvTypes DEF LoadInv
<1>1. Begun /\ \A s \in Streams : proc[s] = "done"
  BY <1>0 DEF Folder
<1>2. \A s \in Streams : enc[s] = "done"
  BY <1>0, <1>1 DEF Takers
<1>3. \A s \in Streams : count[s] = plan.rows[s]
  BY <1>0, <1>2 DEF Encoders
<1>4. \A f \in Files : w[f] \in {"none", "done"}
  BY Quiet DEF ChnClosed
<1>5. \A f \in Files : bad[f] = "no" /\ (w[f] = "none" => disk[f] = 0)
  BY <1>0, <1>4 DEF Parts
<1>6. ASSUME NEW s \in Streams, ~(plan.single /\ file[s] > 1)
      PROVE  Rows(disk, Of(s)) = plan.rows[s]
  <2>1. \A f \in Of(s) : bad[f] = "no"
    BY <1>5 DEF Of
  <2>2. Rows(disk, Of(s)) + Hand(s) = count[s]
    BY <1>0, <1>6, <2>1 DEF Accounts
  <2>3. Hand(s) = 0
    BY <1>2 DEF Hand
  <2>4. disk \in [Files -> Nat]
    BY <1>0 DEF FileTypes
  <2>5. Rows(disk, Of(s)) \in Nat
    BY <2>4, RowsOfType
  <2>6. QED
    BY <1>3, <2>2, <2>3, <2>5
<1>7. srcErr = {}
  BY <1>0 DEF Encoders
<1>8. QED
  BY <1>1, <1>2, <1>3, <1>4, <1>5, <1>6, <1>7

\* Then the rows of the files are those of the streams.
LEMMA SettledTotal ==
  ASSUME LoadInv, wd = "closed", ~err, ~Is({"file"})
  PROVE  Total = Rows(disk, Files)
<1>0. FileTypes /\ EncoderTypes
  BY InvTypes
<1>1. disk \in [Files -> Nat] /\ count \in [Streams -> Nat]
  BY <1>0 DEF FileTypes, EncoderTypes
<1>2. ~plan.single
  BY NotSingle
<1>3. \A s \in Streams : Rows(disk, Of(s)) = count[s]
  BY <1>2, Settled
<1>4. QED
  BY <1>1, <1>3, RowsWhole DEF Total

\* From then on nobody writes.
LEMMA Still ==
  ASSUME LoadInv, [Next]_vars, ChnClosed, Untouched \/ ~err
  PROVE  /\ UNCHANGED <<count, enc, file, inFile, srcErr, proc, taken, w, bad, disk>>
         /\ ChnClosed' /\ (wd = "closed" => wd' = "closed") /\ (Untouched => Untouched')
<1>1. \A s \in Streams : enc[s] \in {"idle", "done"} /\ proc[s] \in {"idle", "done"}
  <2>1. CASE Untouched
    BY <2>1 DEF Untouched
  <2>2. CASE ~Untouched
    BY <2>2, Quiet, Settled
  <2>3. QED
    BY <2>1, <2>2
<1>2. \A f \in Files : w[f] \in {"none", "done"}
  BY Quiet
<1> DEFINE Kept == UNCHANGED <<count, enc, file, inFile, srcErr, proc, taken, w, bad, disk>>
<1>3. ASSUME Kept, UNCHANGED wd
      PROVE  /\ Kept
             /\ ChnClosed' /\ (wd = "closed" => wd' = "closed") /\ (Untouched => Untouched')
  BY <1>3 DEF ChnClosed, Untouched
<1>4. CASE FolderStep
  <2>1. ErrorCaptured
    BY <1>4 DEF FolderStep, Prepare, PrepareFails, ClientFails, WriteDataflowReturns, ChnClosed
  <2>2. QED
    BY <2>1 DEF ErrorCaptured, ChnClosed, Untouched, encVars, partVars
<1>5. ASSUME NEW s \in plan.streams, EncoderStep(s) \/ TakerStep(s) PROVE FALSE
  <2>1. s \in Streams
    BY PlanType DEF LoadInv, TypeOK
  <2>2. enc[s] \in {"idle", "done"} /\ proc[s] \in {"idle", "done"}
    BY <1>1, <2>1
  <2>3. ~EncoderStep(s)
    BY <2>2 DEF EncoderStep, ColumnsChanged, TakeRow, Lock, Flush, Stop
  <2>4. ~TakerStep(s)
    BY <2>2 DEF TakerStep, ProcessReader, Added, StreamDone
  <2>5. QED
    BY <1>5, <2>3, <2>4
<1>6. ASSUME NEW f \in Files, PartStep(f) PROVE FALSE
  BY <1>2, <1>6 DEF PartStep, Create, CreateFails, Announce, PartFails, Drained
<1>7. ASSUME NEW f \in Files, LoadStep(f) PROVE Kept /\ UNCHANGED wd
  BY <1>7, LoadFrame DEF encVars, partVars
<1>8. CASE ColumnStep
  BY <1>3, <1>8, ColumnFrame DEF partVars
<1>9. CASE ImportStep
  BY <1>3, <1>9, ImportFrame DEF encVars, partVars
<1>10. CASE TaskStep
  BY <1>3, <1>10, TaskFrame DEF encVars, partVars
<1>11. CASE UNCHANGED vars
  BY <1>3, <1>11 DEF vars, encVars, partVars
<1>12. QED
  BY <1>3, <1>4, <1>5, <1>6, <1>7, <1>8, <1>9, <1>10, <1>11, StepsOfNext

(***************************************************************************)
(* Where the announced files are.                                           *)
(***************************************************************************)
LEMMA ChnStays ==
  LoadInv /\ [Next]_vars /\ ChnClosed => ChnClosed' /\ (wd = "closed" => wd' = "closed")
<1>1. CASE FolderStep
  BY <1>1 DEF FolderStep, Prepare, PrepareFails, ClientFails, ErrorCaptured,
     WriteDataflowReturns, ChnClosed
<1>2. CASE Next /\ ~FolderStep
  <2>1. wd' = wd
    BY <1>2, StepsOfNext, EncoderFrame, TakerFrame, PartFrame, ColumnFrame, LoadFrame,
       ImportFrame, TaskFrame
  <2>2. QED
    BY <2>1 DEF ChnClosed
<1>3. CASE UNCHANGED vars
  BY <1>3 DEF vars, ChnClosed
<1>4. QED
  BY <1>1, <1>2, <1>3

LEMMA PassageInv == LoadInv /\ [Next]_vars => Passage'
<1> SUFFICES ASSUME LoadInv, [Next]_vars PROVE Passage'
  OBVIOUS
<1>0. Passage /\ Once /\ Places /\ CallerTypes /\ LoadTypes /\ FileTypes
  BY InvTypes DEF LoadInv
<1>p. plan' = plan /\ plan.driver \in Drivers /\ (err => err')
  BY PlanStays, PlanType DEF LoadInv, TypeOK
<1>q. Queued = Items(ready) /\ Queued' = Items(ready')
  BY DEF Queued, Items
<1>c. cur \in Files /\ ready \in Seq(Files) /\ gone \subseteq Files
  BY <1>0 DEF CallerTypes, FileTypes, LoadTypes
<1>d. \A x : Is(x)' <=> Is(x)
  BY <1>p DEF Is
<1> DEFINE Loading == Is({"bigquery", "stage", "starrocks"})
           Tables == Is({"bigquery", "starrocks"})
           Duck == Is({"duckdb"})
           Stg == Is({"stage"})
           Kept(f) == /\ w[f] \in Over => f \in Queued \/ f \in gone \/ (pc = "start" /\ f = cur)
                      /\ f \notin gone => table[f] = 0
           Taken(f) == /\ w[f] \in Over => f \in Queued \/ ld[f] # "none" \/ (pc = "start" /\ f = cur)
                       /\ ld[f] = "ended" /\ Stg => staged[f] = disk[f]
                       /\ ld[f] \in {"adding", "ended"} /\ ~Stg => table[f] = disk[f]
           Empty(f) == ld[f] \in {"none", "running"} =>
                         (Stg => staged[f] = 0) /\ (Tables => table[f] = 0)
           P1 == Duck /\ pc \in {"recv", "start"} => \A f \in Files : Kept(f)
           P2 == Loading /\ pc \in {"stage", "recv", "start", "wait"} /\ ~err
                   => \A f \in Files : Taken(f)
           P3 == \A f \in Files : Empty(f)
           P4 == pc = "wait" /\ ~err => Queued = {} /\ ChnClosed
<1>a. P1 /\ P2 /\ P3 /\ P4
  BY <1>0 DEF Passage
<1>b. ASSUME P1', P2', P3', P4' PROVE Passage'
  BY <1>b DEF Passage
<1>e. /\ (Loading' <=> Loading) /\ (Tables' <=> Tables) /\ (Duck' <=> Duck) /\ (Stg' <=> Stg)
      /\ ~(Duck /\ Loading) /\ (Loading => ~plan.single)
  BY <1>d, NotSingle DEF Is
<1> HIDE DEF Loading, Tables, Duck, Stg
<1>o. ASSUME NEW f \in Files, ld[f] # "none", Loading PROVE disk'[f] = disk[f]
  <2>1. w[f] \in Over
    BY <1>0, <1>o DEF Once
  <2>2. QED
    BY <1>e, <1>o, <2>1, OverStays
<1>1. ASSUME UNCHANGED <<gone, ld, pc, cur, table, staged>>, Queued \subseteq Queued',
             \A f \in Files : w'[f] \in Over => w[f] \in Over \/ f \in Queued',
             pc = "wait" /\ ~err => Queued' = Queued
      PROVE  Passage'
  <2>1. P1'
    <3>1. SUFFICES ASSUME Duck, pc \in {"recv", "start"}, NEW f \in Files PROVE Kept(f)'
      BY <1>1, <1>e
    <3>2. Kept(f)
      BY <1>a, <3>1
    <3>3. QED
      BY <1>1, <3>2
  <2>2. P2'
    <3>1. SUFFICES ASSUME Loading, pc \in {"stage", "recv", "start", "wait"}, ~err', NEW f \in Files
                   PROVE  Taken(f)'
      BY <1>1, <1>e
    <3>2. Taken(f)
      BY <1>a, <1>p, <3>1
    <3>3. ld[f] # "none" => disk'[f] = disk[f]
      BY <1>o, <3>1
    <3>4. QED
      BY <1>1, <1>e, <3>2, <3>3
  <2>3. P3'
    BY <1>1, <1>a, <1>e
  <2>4. P4'
    BY <1>1, <1>a, <1>p, ChnStays
  <2>5. QED
    BY <1>b, <2>1, <2>2, <2>3, <2>4
<1>2. CASE FolderStep \/ ColumnStep \/ UNCHANGED vars
  <2>1. UNCHANGED <<gone, ld, pc, cur, table, staged, ready, w>>
    BY <1>2, FolderFrame, ColumnFrame DEF mainVars, loadVars, partVars, vars
  <2>2. QED
    BY <1>1, <1>q, <2>1
<1>3. ASSUME NEW s \in plan.streams, EncoderStep(s) \/ TakerStep(s) PROVE Passage'
  <2>1. UNCHANGED <<gone, ld, pc, cur, table, staged, ready>>
    BY <1>3, EncoderFrame, TakerFrame DEF mainVars, loadVars
  <2>2. \A f \in Files : w'[f] \in Over => w[f] \in Over
    <3>1. SUFFICES ASSUME NEW f \in Files, w'[f] \in Over, w[f] \notin Over PROVE FALSE
      OBVIOUS
    <3>2. Announce(f)
      BY <3>1, OverStays
    <3>3. ready' # ready
      <4>1. ready' = Append(ready, f)
        BY <3>2 DEF Announce
      <4>2. Len(ready') = Len(ready) + 1 /\ Len(ready) \in Nat
        BY <1>c, <4>1
      <4>3. QED
        BY <4>2
    <3>4. QED
      BY <2>1, <3>3
  <2>3. QED
    BY <1>1, <1>q, <2>1, <2>2
<1>4. ASSUME NEW g \in Files, PartStep(g) PROVE Passage'
  <2>1. UNCHANGED <<gone, ld, pc, cur, table, staged, wd>>
    BY <1>4, PartFrame DEF mainVars, loadVars
  <2>2. CASE Announce(g)
    <3>1. Queued' = Queued \cup {g}
      <4>1. ready' = Append(ready, g)
        BY <2>2 DEF Announce
      <4>2. Items(Append(ready, g)) = Items(ready) \cup {g}
        BY <1>c, AppendItems
      <4>3. QED
        BY <1>q, <4>1, <4>2
    <3>2. \A f \in Files : f # g => w'[f] = w[f]
      BY <1>0, <2>2 DEF Announce, FileTypes
    <3>3. ~ChnClosed
      <4>1. w[g] \in {"send", "writing"}
        BY <2>2 DEF Announce
      <4>2. QED
        BY <4>1, Quiet
    <3>4. ~(pc = "wait" /\ ~err)
      BY <1>a, <3>3
    <3>5. QED
      BY <1>1, <2>1, <3>1, <3>2, <3>4
  <2>3. CASE ~Announce(g)
    <3>1. ready' = ready
      BY <1>4, <2>3 DEF PartStep, Create, CreateFails, PartFails, Drained
    <3>2. \A f \in Files : w'[f] \in Over => w[f] \in Over
      BY <1>0, <1>4, <2>3 DEF PartStep, Create, CreateFails, PartFails, Drained, AfterError,
         FileTypes, Over
    <3>3. QED
      BY <1>1, <1>q, <2>1, <3>1, <3>2
  <2>4. QED
    BY <2>2, <2>3
<1>5. ASSUME NEW f \in Files, LoadStep(f) PROVE Passage'
  <2>1. UNCHANGED <<ready, cur, pc, w, disk, wd>>
    BY <1>5, LoadFrame DEF partVars
  <2>2. ld[f] \in {"running", "adding"} /\ ~Duck
    <3>1. ld[f] \in {"running", "adding"}
      BY <1>5 DEF LoadStep, LoadEnds, AddLoaded
    <3>2. QED
      BY <1>0, <3>1 DEF Places, Is, Duck
  <2>3. \A e \in Files : e # f => ld'[e] = ld[e] /\ staged'[e] = staged[e] /\ table'[e] = table[e]
    <3>1. CASE LoadEnds(f)
      BY <1>0, <3>1 DEF LoadEnds, LoadTypes
    <3>2. CASE AddLoaded(f)
      BY <1>0, <3>2 DEF AddLoaded, LoadTypes
    <3>3. QED
      BY <1>5, <3>1, <3>2 DEF LoadStep
  <2>4. ld'[f] \in {"adding", "ended"}
    BY <1>0, <1>5 DEF LoadStep, LoadEnds, AddLoaded, LoadTypes
  <2>5. ASSUME ~err', Loading, pc \in {"stage", "recv", "start", "wait"}
        PROVE  (Stg => staged'[f] = disk[f]) /\ (~Stg => table'[f] = disk[f])
    <3>1. CASE LoadEnds(f)
      <4>1. IF Is({"stage"}) THEN staged' = [staged EXCEPT ![f] = disk[f]] /\ UNCHANGED table
            ELSE table' = [table EXCEPT ![f] = disk[f]] /\ UNCHANGED staged
        BY <2>5, <3>1 DEF LoadEnds
      <4>2. QED
        BY <1>0, <4>1 DEF LoadTypes, Stg
    <3>2. CASE AddLoaded(f)
      <4>1. ld[f] = "adding" /\ table' = table
        BY <3>2 DEF AddLoaded
      <4>2. ~Stg
        BY <1>0, <4>1 DEF Places, Is, Stg
      <4>3. Taken(f)
        BY <1>a, <1>p, <2>5
      <4>4. QED
        BY <4>1, <4>2, <4>3
    <3>3. QED
      BY <1>5, <3>1, <3>2 DEF LoadStep
  <2>6. Queued' = Queued
    BY <1>q, <2>1
  <2>7. P1'
    BY <1>e, <2>2
  <2>8. P2'
    <3>1. SUFFICES ASSUME Loading, pc \in {"stage", "recv", "start", "wait"}, ~err', NEW e \in Files
                   PROVE  Taken(e)'
      BY <1>e, <2>1
    <3>2. Taken(e)
      BY <1>a, <1>p, <3>1
    <3>3. CASE e = f
      BY <1>e, <2>1, <2>4, <2>5, <3>1, <3>3
    <3>4. CASE e # f
      BY <1>e, <2>1, <2>3, <2>6, <3>2, <3>4
    <3>5. QED
      BY <3>3, <3>4
  <2>9. P3'
    <3>1. SUFFICES ASSUME NEW e \in Files PROVE Empty(e)'
      OBVIOUS
    <3>2. CASE e = f
      BY <2>4, <3>2
    <3>3. CASE e # f
      BY <1>a, <1>e, <2>3, <3>3
    <3>4. QED
      BY <3>2, <3>3
  <2>10. P4'
    BY <1>a, <1>p, <2>1, <2>6, ChnStays
  <2>11. QED
    BY <1>b, <2>7, <2>8, <2>9, <2>10
<1>6. CASE ImportStep
  <2>0. UNCHANGED <<w, disk, err, wd, staged>>
    BY <1>6, ImportFrame DEF partVars
  <2>1. CASE Receive
    <3>1. /\ pc = "recv" /\ ready # <<>> /\ ready' = Tail(ready) /\ cur' = Head(ready)
          /\ UNCHANGED <<ld, gone, table>>
          /\ pc' = IF LooksFirst /\ err THEN "wait" ELSE "start"
      BY <2>1 DEF Receive, loadVars
    <3>2. Queued = Queued' \cup {cur'}
      <4>1. Items(ready) = Items(Tail(ready)) \cup {Head(ready)}
        BY <1>c, <3>1, TailItems
      <4>2. QED
        BY <1>q, <3>1, <4>1
    <3>3. Duck => pc' = "start"
      BY <3>1 DEF LooksFirst, Is, Duck
    <3>4. P1'
      <4>1. SUFFICES ASSUME Duck, NEW f \in Files PROVE Kept(f)'
        BY <1>e
      <4>2. Kept(f)
        BY <1>a, <3>1, <4>1
      <4>3. QED
        BY <2>0, <3>1, <3>2, <3>3, <4>1, <4>2
    <3>5. P2'
      <4>1. SUFFICES ASSUME Loading, ~err, NEW f \in Files PROVE Taken(f)'
        BY <1>e, <2>0
      <4>2. Taken(f)
        BY <1>a, <3>1, <4>1
      <4>3. pc' = "start"
        BY <3>1, <4>1
      <4>4. QED
        BY <1>e, <2>0, <3>1, <3>2, <4>2, <4>3
    <3>6. P3'
      BY <1>a, <1>e, <2>0, <3>1
    <3>7. P4'
      BY <2>0, <3>1
    <3>8. QED
      BY <1>b, <3>4, <3>5, <3>6, <3>7
  <2>2. CASE Insert
    <3>1. /\ pc = "start" /\ Is({"duckdb"}) /\ gone' = gone \cup {cur} /\ UNCHANGED <<ld, ready, cur>>
          /\ \/ table' = [table EXCEPT ![cur] = disk[cur]] /\ pc' = "recv"
             \/ pc' = "end"
      BY <2>2 DEF Insert
    <3>2. Duck /\ ~Loading /\ ~Stg /\ ~Tables
      BY <3>1 DEF Duck, Loading, Stg, Tables, Is
    <3>3. P1'
      <4>1. SUFFICES ASSUME pc' # "end", NEW f \in Files PROVE Kept(f)'
        OBVIOUS
      <4>2. Kept(f)
        BY <1>a, <3>1, <3>2
      <4>3. f # cur => table'[f] = table[f]
        BY <1>0, <3>1, <4>1 DEF LoadTypes
      <4>4. Queued' = Queued
        BY <1>q, <3>1
      <4>5. QED
        BY <2>0, <3>1, <4>2, <4>3, <4>4
    <3>4. P2' /\ P3' /\ P4'
      BY <1>e, <3>1, <3>2
    <3>5. QED
      BY <1>b, <3>3, <3>4
  <2>3. CASE Start
    <3>1. /\ pc = "start" /\ Is({"bigquery", "stage", "starrocks"})
          /\ ld' = [ld EXCEPT ![cur] = "running"] /\ UNCHANGED <<ready, cur, table>>
          /\ pc' \in {"recv", "end"}
      BY <2>3 DEF Start, Leave
    <3>2. Loading /\ ~Duck
      BY <3>1 DEF Loading, Duck, Is
    <3>3. ld[cur] = "none" /\ Queued' = Queued
      BY <1>0, <1>q, <3>1 DEF Once
    <3>4. \A f \in Files : f # cur => ld'[f] = ld[f]
      BY <1>0, <3>1 DEF LoadTypes
    <3>5. ld'[cur] = "running"
      BY <1>0, <1>c, <3>1 DEF LoadTypes
    <3>6. P2'
      <4>1. SUFFICES ASSUME ~err, NEW f \in Files PROVE Taken(f)'
        BY <2>0
      <4>2. Taken(f)
        BY <1>a, <3>1, <3>2, <4>1
      <4>3. CASE f = cur
        BY <3>5, <4>3
      <4>4. CASE f # cur
        BY <1>e, <2>0, <3>1, <3>3, <3>4, <4>2, <4>4
      <4>5. QED
        BY <4>3, <4>4
    <3>7. P3'
      <4>1. SUFFICES ASSUME NEW f \in Files PROVE Empty(f)'
        OBVIOUS
      <4>2. Empty(f)
        BY <1>a
      <4>3. ld'[f] \in {"none", "running"} => ld[f] \in {"none", "running"}
        BY <3>3, <3>4
      <4>4. QED
        BY <1>e, <2>0, <3>1, <4>2, <4>3
    <3>8. P1' /\ P4'
      BY <1>e, <3>1, <3>2
    <3>9. QED
      BY <1>b, <3>6, <3>7, <3>8
  <2>4. CASE LastFile /\ ~Is({"duckdb"})
    <3>1. /\ pc = "recv" /\ ready = <<>> /\ ChnClosed /\ pc' = "wait"
          /\ UNCHANGED <<ready, cur, gone, ld, table>>
      BY <2>4 DEF LastFile, loadVars
    <3>2. Queued = {} /\ Queued' = Queued
      <4>1. Len(ready) = 0
        BY <3>1
      <4>2. QED
        BY <3>1, <4>1 DEF Queued
    <3>3. P2'
      <4>1. SUFFICES ASSUME Loading, ~err, NEW f \in Files PROVE Taken(f)'
        BY <1>e, <2>0
      <4>2. Taken(f)
        BY <1>a, <3>1, <4>1
      <4>3. QED
        BY <1>e, <2>0, <3>1, <3>2, <4>2
    <3>4. P1' /\ P3'
      BY <1>a, <1>e, <2>0, <3>1
    <3>5. P4'
      BY <3>1, <3>2, ChnStays
    <3>6. QED
      BY <1>b, <3>3, <3>4, <3>5
  <2>5. CASE Stage
    <3>1. /\ pc = "stage" /\ pc' \in {"recv", "end"}
          /\ UNCHANGED <<ready, cur, ld, table>> /\ (pc' = "recv" => gone' = gone)
      BY <2>5 DEF Stage, Leave, loadVars
    <3>2. ~Duck /\ Queued' = Queued
      BY <1>0, <1>q, <3>1 DEF Places, Is, Duck
    <3>3. P2'
      <4>1. SUFFICES ASSUME Loading, ~err, pc' # "end", NEW f \in Files PROVE Taken(f)'
        BY <1>e, <2>0
      <4>2. Taken(f)
        BY <1>a, <3>1, <4>1
      <4>3. QED
        BY <1>e, <2>0, <3>1, <3>2, <4>2
    <3>4. P1' /\ P4'
      BY <1>e, <3>1, <3>2
    <3>5. P3'
      BY <1>a, <1>e, <2>0, <3>1
    <3>6. QED
      BY <1>b, <3>3, <3>4, <3>5
  <2>6. CASE Drain
    <3>1. Is({"file", "bucket"}) /\ UNCHANGED <<pc, ld, table>>
      BY <2>6 DEF Drain, mainVars, loadVars
    <3>2. ~Duck /\ ~Loading /\ pc # "wait"
      BY <1>0, <3>1 DEF Places, Is, Duck, Loading
    <3>3. P1' /\ P2' /\ P4'
      BY <1>e, <3>1, <3>2
    <3>4. P3'
      BY <1>a, <1>e, <2>0, <3>1
    <3>5. QED
      BY <1>b, <3>3, <3>4
  <2>7. CASE LoadsDone \/ NothingToWrite \/ WriteDataflow \/ Copy \/ (LastFile /\ Is({"duckdb"}))
    <3>1. pc' \notin {"stage", "recv", "start", "wait"} /\ ld' = ld
      BY <2>7 DEF LoadsDone, NothingToWrite, WriteDataflow, Copy, LastFile, Leave, loadVars
    <3>2. table' = table \/ ~Tables
      <4>1. CASE Copy
        BY <1>0, <4>1 DEF Copy, Places, Is, Tables
      <4>2. CASE ~Copy
        BY <2>7, <4>2 DEF LoadsDone, NothingToWrite, WriteDataflow, LastFile, loadVars
      <4>3. QED
        BY <4>1, <4>2
    <3>3. P1' /\ P2' /\ P4'
      BY <3>1
    <3>4. P3'
      BY <1>a, <1>e, <2>0, <3>1, <3>2
    <3>5. QED
      BY <1>b, <3>3, <3>4
  <2>8. QED
    BY <1>6, <2>1, <2>2, <2>3, <2>4, <2>5, <2>6, <2>7 DEF ImportStep
<1>7. CASE TaskStep
  <2>1. UNCHANGED <<ld, table, staged>> /\ pc' \notin {"stage", "recv", "start", "wait"}
    BY <1>7, TaskFrame DEF loadVars, TaskStep, Validate, Merge
  <2>2. P1' /\ P2' /\ P4'
    BY <2>1
  <2>3. P3'
    BY <1>a, <1>e, <2>1
  <2>4. QED
    BY <1>b, <2>2, <2>3
<1>8. QED
  BY <1>2, <1>3, <1>4, <1>5, <1>6, <1>7, StepsOfNext

(***************************************************************************)
(* Where an error of a duckdb load comes from.                              *)
(***************************************************************************)
\* WriteDataflowReady begins only in Prepare.
LEMMA Begins == LoadInv /\ [Next]_vars /\ Begun' => Begun \/ Prepare
<1> SUFFICES ASSUME LoadInv, [Next]_vars, ~Begun, ~Prepare PROVE ~Begun'
  OBVIOUS
<1>1. Untouched
  BY InvTypes DEF LoadInv, Folder, CallerTypes
<1>2. ASSUME UNCHANGED <<enc, proc>> PROVE ~Begun'
  BY <1>2 DEF Begun
<1>3. ASSUME NEW s \in plan.streams, EncoderStep(s) \/ TakerStep(s) PROVE FALSE
  <2>1. s \in Streams
    BY PlanType DEF LoadInv, TypeOK
  <2>2. enc[s] = "idle" /\ proc[s] = "idle"
    BY <1>1, <2>1 DEF Untouched
  <2>3. ~EncoderStep(s)
    BY <2>2 DEF EncoderStep, ColumnsChanged, TakeRow, Lock, Flush, Stop
  <2>4. ~TakerStep(s)
    BY <2>2 DEF TakerStep, ProcessReader, Added, StreamDone
  <2>5. QED
    BY <1>3, <2>3, <2>4
<1>4. CASE FolderStep
  BY <1>2, <1>4 DEF FolderStep, PrepareFails, ClientFails, ErrorCaptured, WriteDataflowReturns,
     encVars, partVars
<1>5. CASE ColumnStep
  BY <1>2, <1>5, ColumnFrame DEF partVars
<1>6. CASE ImportStep
  BY <1>2, <1>6, ImportFrame DEF encVars, partVars
<1>7. CASE TaskStep
  BY <1>2, <1>7, TaskFrame DEF encVars, partVars
<1>8. ASSUME NEW f \in Files, PartStep(f) \/ LoadStep(f) PROVE UNCHANGED <<enc, proc>>
  BY <1>8, PartFrame, LoadFrame DEF encVars, partVars
<1>9. CASE UNCHANGED vars
  BY <1>2, <1>9 DEF vars, encVars, partVars
<1>10. QED
  BY <1>2, <1>3, <1>4, <1>5, <1>6, <1>7, <1>8, <1>9, StepsOfNext

\* Who sets the error, and where it then comes from.
LEMMA Blame ==
  ASSUME LoadInv, [Next]_vars
  PROVE  /\ srcErr \subseteq srcErr'
         /\ err' /\ ~err => \/ wd = "prepare" /\ wd' = "lost" /\ MayFail("client")
                            \/ wd = "failed"
                            \/ srcErr' # {} /\ MayFail("source") /\ \E s \in Streams : enc[s] = "row"
                            \/ \E f \in Files : w[f] = "fail" /\ bad[f] # "no"
                            \/ \E f \in Files : ld[f] = "running" /\ (MayFail("load") \/ bad[f] # "no")
<1>0. Parts /\ Removed
  BY DEF LoadInv
<1>1. ASSUME UNCHANGED <<err, srcErr>>
      PROVE  srcErr \subseteq srcErr' /\ ~(err' /\ ~err)
  BY <1>1
<1>2. CASE FolderStep
  BY <1>2, FolderFrame DEF FolderStep, Prepare, PrepareFails, ClientFails, ErrorCaptured,
     WriteDataflowReturns
<1>3. ASSUME NEW s \in plan.streams, EncoderStep(s)
      PROVE  \/ UNCHANGED <<err, srcErr>> 
             \/ srcErr' = srcErr /\ (err' => err)
             \/ srcErr' = srcErr \cup {s} /\ MayFail("source") /\ s \in Streams /\ enc[s] = "row"
  <2>1. s \in Streams
    BY PlanType DEF LoadInv, TypeOK
  <2>2. CASE Stop(s)
    BY <2>1, <2>2 DEF Stop
  <2>3. CASE ~Stop(s)
    BY <1>3, <2>3 DEF EncoderStep, ColumnsChanged, TakeRow, Lock, Flush
  <2>4. QED
    BY <2>2, <2>3
<1>4. ASSUME NEW s, TakerStep(s) PROVE UNCHANGED <<err, srcErr>>
  BY <1>4, TakerFrame DEF encVars
<1>5. ASSUME NEW f \in Files, PartStep(f)
      PROVE  srcErr' = srcErr /\ (err' /\ ~err => w[f] = "fail" /\ bad[f] # "no")
  <2>1. srcErr' = srcErr
    BY <1>5, PartFrame DEF encVars
  <2>2. CASE PartFails(f)
    BY <1>0, <2>1, <2>2 DEF PartFails, Parts
  <2>3. CASE ~PartFails(f)
    BY <1>5, <2>1, <2>3 DEF PartStep, Create, CreateFails, Announce, Drained
  <2>4. QED
    BY <2>2, <2>3
<1>6. ASSUME NEW f \in Files, LoadStep(f)
      PROVE  /\ srcErr' = srcErr
             /\ err' /\ ~err => ld[f] = "running" /\ (MayFail("load") \/ bad[f] # "no")
  <2>1. srcErr' = srcErr
    BY <1>6, LoadFrame DEF encVars
  <2>2. CASE LoadEnds(f)
    BY <1>0, <2>1, <2>2 DEF LoadEnds, Removed
  <2>3. CASE AddLoaded(f)
    BY <2>1, <2>3 DEF AddLoaded
  <2>4. QED
    BY <1>6, <2>2, <2>3 DEF LoadStep
<1>7. CASE ColumnStep
  BY <1>1, <1>7, ColumnFrame
<1>8. CASE ImportStep
  BY <1>1, <1>8, ImportFrame DEF encVars
<1>9. CASE TaskStep
  BY <1>1, <1>9, TaskFrame DEF encVars
<1>10. CASE UNCHANGED vars
  BY <1>1, <1>10 DEF vars, encVars
<1>11. QED
  BY <1>1, <1>2, <1>3, <1>4, <1>5, <1>6, <1>7, <1>8, <1>9, <1>10, StepsOfNext

LEMMA CausesInv == LoadInv /\ [Next]_vars => Causes'
<1> SUFFICES ASSUME LoadInv, [Next]_vars, Is({"duckdb"}), err', srcErr' = {}, Begun'
             PROVE  \E f \in Files : bad'[f] # "no"
  BY PlanStays DEF Causes, Is
<1>0. Causes /\ Folder /\ Places
  BY DEF LoadInv
<1>1. srcErr = {}
  BY Blame
<1>2. \A f \in Files : bad[f] # "no" => bad'[f] # "no"
  BY OverStays
<1>3. CASE err
  <2>1. ~Prepare
    BY <1>0, <1>3 DEF Prepare, Folder
  <2>2. \E f \in Files : bad[f] # "no"
    BY <1>0, <1>1, <1>3, <2>1, Begins DEF Causes
  <2>3. QED
    BY <1>2, <2>2
<1>4. CASE ~err
  <2>1. \A f \in Files : ld[f] = "none"
    BY <1>0 DEF Places, Is
  <2>2. \/ wd = "prepare" /\ wd' = "lost"
        \/ wd = "failed"
        \/ \E f \in Files : bad[f] # "no"
    BY <1>4, <2>1, Blame
  <2>3. wd \in {"prepare", "failed"} => ~Begun
    BY BegunBy
  <2>4. Prepare => wd' = "streams" /\ wd = "prepare"
    BY DEF Prepare
  <2>5. QED
    BY <1>2, <2>2, <2>3, <2>4, Begins
<1>5. QED
  BY <1>3, <1>4

(***************************************************************************)
(* What is known when the import returns.                                   *)
(***************************************************************************)
\* importViaTempCSVs at the end of the channel: every file is in the table.
LEMMA DuckLoaded ==
  ASSUME LoadInv, Is({"duckdb"}), pc = "recv", ready = <<>>, ChnClosed
  PROVE  table = disk /\ \A f \in Files : w[f] # "none" => f \in gone
<1>0. Passage /\ Removed /\ Parts /\ FileTypes /\ LoadTypes
  BY InvTypes DEF LoadInv
<1>1. Queued = {}
  <2>1. Len(ready) = 0
    OBVIOUS
  <2>2. QED
    BY <2>1 DEF Queued
<1>2. ASSUME NEW f \in Files PROVE table[f] = disk[f] /\ (w[f] # "none" => f \in gone)
  <2>1. w[f] \in {"none", "done"}
    BY Quiet
  <2>2. w[f] = "done" => f \in gone
    BY <1>0, <1>1 DEF Passage, Over
  <2>3. f \in gone => w[f] \in Over /\ table[f] = disk[f]
    BY <1>0 DEF Removed
  <2>4. f \notin gone => table[f] = 0
    BY <1>0 DEF Passage
  <2>5. w[f] = "none" => disk[f] = 0
    BY <1>0 DEF Parts
  <2>6. QED
    BY <2>1, <2>2, <2>3, <2>4, <2>5 DEF Over
<1>3. table = disk
  <2>1. table \in [Files -> Nat] /\ disk \in [Files -> Nat]
    BY <1>0 DEF FileTypes, LoadTypes
  <2>2. QED
    BY <1>2, <2>1
<1>4. QED
  BY <1>2, <1>3

\* The others when what they have started has ended, without an error.
LEMMA OthersLoaded ==
  ASSUME LoadInv, pc = "wait", ~err, Running = {}
  PROVE  /\ Is({"stage"}) => staged = disk
         /\ ~Is({"stage"}) => table = disk
         /\ ChnClosed /\ Is({"bigquery", "stage", "starrocks"})
         /\ \A f \in Files : w[f] # "none" => f \in gone
<1>0. Passage /\ Removed /\ Parts /\ Once /\ Places /\ FileTypes /\ LoadTypes
  BY InvTypes DEF LoadInv
<1>1. Is({"bigquery", "stage", "starrocks"}) /\ Queued = {} /\ ChnClosed
  BY <1>0 DEF Places, Passage
<1>2. ASSUME NEW f \in Files
      PROVE  /\ Is({"stage"}) => staged[f] = disk[f]
             /\ ~Is({"stage"}) => table[f] = disk[f]
             /\ w[f] # "none" => f \in gone
  <2>1. w[f] \in {"none", "done"}
    BY <1>1, Quiet
  <2>2. ld[f] \in {"none", "ended"}
    BY <1>0 DEF Running, LoadTypes
  <2>3. CASE ld[f] = "none"
    <3>1. w[f] = "none"
      BY <1>0, <1>1, <2>1, <2>3 DEF Passage, Over
    <3>2. disk[f] = 0
      BY <1>0, <3>1 DEF Parts
    <3>3. Is({"stage"}) => staged[f] = 0
      BY <1>0, <2>3 DEF Passage
    <3>4. ~Is({"stage"}) => table[f] = 0
      <4>1. ~Is({"stage"}) => Is({"bigquery", "starrocks"})
        BY <1>1 DEF Is
      <4>2. QED
        BY <1>0, <2>3, <4>1 DEF Passage
    <3>5. QED
      BY <3>1, <3>2, <3>3, <3>4
  <2>4. CASE ld[f] = "ended"
    <3>1. f \in gone
      BY <1>0, <2>4 DEF Removed
    <3>2. QED
      BY <1>0, <1>1, <2>4, <3>1 DEF Passage
  <2>5. QED
    BY <2>2, <2>3, <2>4
<1>3. staged \in [Files -> Nat] /\ table \in [Files -> Nat] /\ disk \in [Files -> Nat]
  BY <1>0 DEF FileTypes, LoadTypes
<1>4. Is({"stage"}) => staged = disk
  BY <1>2, <1>3
<1>5. ~Is({"stage"}) => table = disk
  BY <1>2, <1>3
<1>6. QED
  BY <1>1, <1>2, <1>4, <1>5

\* After the folder could not be made.
LEMMA NoFolder ==
  ASSUME LoadInv, Untouched, ChnClosed
  PROVE  MayFail("prepare") /\ Total = 0 /\ disk = [f \in Files |-> 0]
<1>0. Folder /\ FileTypes
  BY InvTypes DEF LoadInv
<1>1. ~Begun
  BY BegunBy
<1>2. MayFail("prepare")
  BY <1>0, <1>1 DEF Folder, ChnClosed
<1>3. disk \in [Files -> Nat] /\ \A f \in Files : disk[f] = 0
  BY <1>0, Undone DEF FileTypes
<1>4. disk = [f \in Files |-> 0]
  BY <1>3
<1>5. QED
  BY <1>2, <1>4, Undone

\* A file that was cut short: fewer rows than were read.
LEMMA ShortOf ==
  ASSUME LoadInv, ~plan.single, NEW g \in Files, bad[g] = "short"
  PROVE  Rows(disk, Files) < Total /\ Rows(disk, Files) \in Nat /\ Total \in Nat
<1>0. Accounts /\ FileTypes /\ EncoderTypes
  BY InvTypes DEF LoadInv
<1>1. disk \in [Files -> Nat] /\ count \in [Streams -> Nat]
  BY <1>0 DEF FileTypes, EncoderTypes
<1>2. ASSUME NEW s \in Streams
      PROVE  /\ Rows(disk, Of(s)) <= count[s]
             /\ (\E f \in Of(s) : bad[f] = "short") => Rows(disk, Of(s)) # count[s]
  <2>1. Rows(disk, Of(s)) \in Nat /\ count[s] \in Nat /\ Hand(s) \in Nat
    BY <1>1, RowsOfType DEF Hand
  <2>2. Rows(disk, Of(s)) + Hand(s) <= count[s]
    BY <1>0 DEF Accounts
  <2>3. (\E f \in Of(s) : bad[f] = "short") => Rows(disk, Of(s)) + Hand(s) < count[s]
    BY <1>0 DEF Accounts
  <2>4. QED
    BY <2>1, <2>2, <2>3
<1>3. g[1] \in Streams /\ g \in Of(g[1])
  BY DEF Files, Of
<1>4. Rows(disk, Files) <= Total
  BY <1>1, <1>2, RowsByStream DEF Total
<1>5. Rows(disk, Files) # Total
  <2>1. Rows(disk, Files) = Total => \A s \in Streams : Rows(disk, Of(s)) = count[s]
    BY <1>1, <1>2, RowsByStream DEF Total
  <2>2. QED
    BY <1>2, <1>3, <2>1
<1>6. Rows(disk, Files) \in Nat /\ Total \in Nat
  BY <1>1, CellClasses DEF Total
<1>7. QED
  BY <1>4, <1>5, <1>6

\* Only the caller's steps change where it is, and, when nothing is being loaded, what it knows.
LEMMA Rest ==
  ASSUME LoadInv, [Next]_vars, ~(ImportStep /\ ~Drain), ~TaskStep
  PROVE  UNCHANGED <<pc, cnt, merged, result>> /\ (Running = {} => UNCHANGED mainVars)
<1>1. ASSUME NEW f \in Files, LoadStep(f) PROVE UNCHANGED <<pc, cnt, merged, result>> /\ Running # {}
  BY <1>1, LoadFrame DEF LoadStep, LoadEnds, AddLoaded, Running
<1>2. CASE Drain
  BY <1>2 DEF Drain, mainVars
<1>3. CASE FolderStep
  BY <1>3, FolderFrame DEF mainVars
<1>4. CASE ColumnStep
  BY <1>4, ColumnFrame DEF mainVars
<1>5. ASSUME NEW s \in plan.streams, EncoderStep(s) \/ TakerStep(s) PROVE UNCHANGED mainVars
  BY <1>5, EncoderFrame, TakerFrame
<1>6. ASSUME NEW f \in Files, PartStep(f) PROVE UNCHANGED mainVars
  BY <1>6, PartFrame
<1>7. CASE UNCHANGED vars
  BY <1>7 DEF vars, mainVars
<1>8. QED
  BY <1>1, <1>2, <1>3, <1>4, <1>5, <1>6, <1>7, StepsOfNext DEF mainVars

\* Nor does an error come up once all is written.
LEMMA NoMoreErrors ==
  ASSUME LoadInv, [Next]_vars, Running = {}, wd = "closed", ~err
  PROVE  ~err'
<1>1. \A s \in Streams : enc[s] = "done"
  BY Settled
<1>2. \A f \in Files : bad[f] = "no"
  BY Settled
<1>3. \A f \in Files : ld[f] # "running"
  BY DEF Running
<1>4. QED
  BY <1>1, <1>2, <1>3, Blame

LEMMA AfterInv == LoadInv /\ [Next]_vars => After'
<1> SUFFICES ASSUME LoadInv, [Next]_vars PROVE After'
  OBVIOUS
<1>0. After /\ Places /\ Folder /\ CallerTypes /\ LoadTypes /\ FileTypes /\ EncoderTypes
  BY InvTypes DEF LoadInv
<1>p. plan' = plan /\ plan.driver \in Drivers /\ srcErr \subseteq srcErr' /\ (err => err')
  BY PlanStays, PlanType, Blame DEF LoadInv, TypeOK
<1>d. (\A x : Is(x)' <=> Is(x)) /\ (\A x : MayFail(x)' <=> MayFail(x))
  BY <1>p DEF Is, MayFail
<1> DEFINE NoStage == [f \in Files |-> 0]
           Copying == \/ Untouched /\ wd \in {"failed", "closed"} /\ MayFail("prepare")
                         /\ staged = NoStage /\ Is({"stage"})
                      \/ wd = "closed" /\ ~err /\ (Is({"stage"}) => staged = disk)
           Returned == NothingDone \/ AllDone \/ Unread
           Merging == AllDone \/ (Unread /\ srcErr # {})
           Target == \/ wd = "closed" /\ ~err /\ (Is({"file"}) \/ table = disk)
                     \/ Is({"duckdb"}) /\ srcErr # {} /\ result = "failed"
           Success == wd = "closed" /\ ~err
                      /\ (Is({"file"}) \/ \A f \in Files : w[f] # "none" => f \in gone)
           NoRows == \/ \A s \in Streams : plan.rows[s] = 0
                     \/ /\ plan.rows[First] = 0
                        /\ MayFail("prepare") \/ Is({"file"}) \/ (Is({"duckdb"}) /\ srcErr # {})
<1>a. /\ pc = "copy" => Copying
      /\ pc = "returned" => Returned
      /\ pc = "merge" => Merging
      /\ merged => Target
      /\ result = "success" => Success
      /\ result = "empty" => NoRows
  BY <1>0 DEF After
<1>b. ASSUME pc' = "copy" => Copying', pc' = "returned" => Returned', pc' = "merge" => Merging',
             merged' => Target', result' = "success" => Success', result' = "empty" => NoRows'
      PROVE  After'
  BY <1>b DEF After
<1>m. /\ pc \in {"copy", "returned", "merge"} \/ merged \/ result = "success" => Running = {}
      /\ pc # "end" => ~merged /\ result = "none"
  BY <1>0 DEF Places
\* What stays.
<1>s. ASSUME Untouched, ChnClosed PROVE Untouched' /\ ChnClosed'
  BY <1>s, Still
<1>n. ASSUME NothingDone, UNCHANGED <<cnt, table>> PROVE NothingDone'
  <2>1. Untouched' /\ ChnClosed'
    BY <1>n, <1>s DEF NothingDone, ChnClosed
  <2>2. QED
    BY <1>d, <1>n, <2>1 DEF NothingDone, ChnClosed
<1>c. ASSUME wd = "closed", ~err, Running = {}
      PROVE  wd' = "closed" /\ ~err' /\ UNCHANGED <<count, w, disk>>
  BY <1>c, Still, NoMoreErrors DEF ChnClosed
<1>t. ASSUME AllDone, Running = {}, UNCHANGED <<cnt, table>>, gone \subseteq gone' PROVE AllDone'
  <2>1. wd' = "closed" /\ ~err' /\ UNCHANGED <<count, w, disk>>
    BY <1>c, <1>t DEF AllDone
  <2>2. Total' = Total
    BY <2>1 DEF Total
  <2>3. QED
    BY <1>t, <2>1, <2>2 DEF AllDone
<1>u. ASSUME Unread, UNCHANGED <<cnt, table>> PROVE Unread'
  <2>1. wd' = "closed" /\ err'
    BY <1>p, <1>u, ChnStays DEF Unread, ChnClosed
  <2>2. Rows(table, Files)' = Rows(table, Files)
    BY <1>u
  <2>3. QED
    BY <1>d, <1>p, <1>u, <2>1, <2>2 DEF Unread
<1>1. CASE ~(ImportStep /\ ~Drain) /\ ~TaskStep
  <2>1. UNCHANGED <<pc, merged, result>> /\ (Running = {} => UNCHANGED <<cnt, table, staged, gone>>)
    BY <1>1, Rest DEF mainVars, loadVars
  <2>2. pc' = "copy" => Copying'
    <3>1. SUFFICES ASSUME pc = "copy" PROVE Copying'
      BY <2>1
    <3>2. Running = {} /\ Copying /\ staged' = staged
      BY <1>a, <1>m, <2>1, <3>1
    <3>3. CASE Untouched /\ wd \in {"failed", "closed"} /\ MayFail("prepare")
               /\ staged = NoStage /\ Is({"stage"})
      BY <1>d, <1>s, <3>2, <3>3 DEF ChnClosed
    <3>4. CASE wd = "closed" /\ ~err /\ (Is({"stage"}) => staged = disk)
      BY <1>c, <1>d, <3>2, <3>4
    <3>5. QED
      BY <3>2, <3>3, <3>4
  <2>3. pc' = "returned" => Returned'
    BY <1>a, <1>m, <1>n, <1>t, <1>u, <2>1
  <2>4. pc' = "merge" => Merging'
    BY <1>a, <1>m, <1>p, <1>t, <1>u, <2>1
  <2>5. merged' => Target'
    <3>1. SUFFICES ASSUME merged PROVE Target'
      BY <2>1
    <3>2. Running = {} /\ Target /\ table' = table /\ result' = result
      BY <1>a, <1>m, <2>1, <3>1
    <3>3. QED
      BY <1>c, <1>d, <1>p, <3>2
  <2>6. result' = "success" => Success'
    <3>1. SUFFICES ASSUME result = "success" PROVE Success'
      BY <2>1
    <3>2. Running = {} /\ Success /\ gone' = gone
      BY <1>a, <1>m, <2>1, <3>1
    <3>3. QED
      BY <1>c, <1>d, <3>2
  <2>7. result' = "empty" => NoRows'
    BY <1>a, <1>d, <1>p, <2>1
  <2>8. QED
    BY <1>b, <2>2, <2>3, <2>4, <2>5, <2>6, <2>7
<1>2. ASSUME pc # "end", merged' = merged, result' \in {"none", "failed"},
             pc' = "copy" => Copying', pc' = "returned" => Returned', pc' = "merge" => Merging'
      PROVE  After'
  BY <1>2, <1>b, <1>m
<1>3. CASE Stage \/ Receive \/ Insert \/ Start
  <2>1. pc # "end" /\ merged' = merged /\ result' \in {result, "failed"}
        /\ pc' \notin {"copy", "returned", "merge"}
    BY <1>3 DEF Stage, Receive, Insert, Start, Leave
  <2>2. QED
    BY <1>2, <1>m, <2>1
<1>4. CASE LastFile
  <2>1. /\ pc = "recv" /\ ready = <<>> /\ ChnClosed /\ table' = table
        /\ merged' = merged /\ result' \in {result, "failed"} /\ pc' \in {"returned", "wait"}
        /\ gone \subseteq gone' /\ UNCHANGED <<wd, err, srcErr, count, w, disk, enc, proc, file>>
        /\ pc' = "returned" => Is({"duckdb"}) /\ cnt' = Total
    BY <1>4 DEF LastFile, Leave, loadVars, encVars, partVars
  <2>2. ASSUME pc' = "returned" PROVE Returned'
    <3>1. Is({"duckdb"}) /\ cnt' = Total
      BY <2>1, <2>2
    <3>2. table = disk /\ \A f \in Files : w[f] # "none" => f \in gone
      BY <2>1, <3>1, DuckLoaded
    <3>3. Total' = Total
      BY <2>1 DEF Total
    <3>4. CASE Untouched
      <4>1. MayFail("prepare") /\ Total = 0 /\ disk = NoStage
        BY <2>1, <3>4, NoFolder
      <4>2. NothingDone'
        BY <1>d, <1>s, <2>1, <3>1, <3>2, <3>4, <4>1 DEF NothingDone, ChnClosed
      <4>3. QED
        BY <4>2
    <3>5. CASE Begun /\ wd = "closed" /\ ~err
      <4>1. AllDone'
        BY <2>1, <3>1, <3>2, <3>3, <3>5 DEF AllDone
      <4>2. QED
        BY <4>1
    <3>6. CASE Begun /\ wd = "closed" /\ err
      <4>1. CASE srcErr # {}
        <5>1. Unread'
          BY <1>d, <2>1, <3>1, <3>6, <4>1 DEF Unread
        <5>2. QED
          BY <5>1
      <4>2. CASE srcErr = {}
        <5>1. PICK g \in Files : bad[g] # "no"
          BY <3>1, <3>6, <4>2 DEF LoadInv, Causes
        <5>2. w[g] = "done"
          BY <2>1, <5>1, Quiet DEF LoadInv, Parts
        <5>3. bad[g] = "short"
          <6>1. g \in gone
            BY <3>2, <5>2
          <6>2. bad[g] # "absent"
            BY <2>1, <3>1, <6>1 DEF LoadInv, Removed
          <6>3. QED
            BY <1>0, <5>1, <6>2 DEF FileTypes
        <5>4. Rows(disk, Files) < Total /\ Rows(disk, Files) \in Nat /\ Total \in Nat
          <6>1. ~plan.single
            BY <3>1, NotSingle DEF Is
          <6>2. QED
            BY <5>3, <6>1, ShortOf
        <5>5. Rows(table, Files)' = Rows(disk, Files)
          BY <2>1, <3>2
        <5>6. Unread'
          <6>1. cnt' > Rows(table, Files)'
            BY <3>1, <5>4, <5>5
          <6>2. QED
            BY <1>d, <2>1, <3>1, <3>6, <6>1 DEF Unread
        <5>7. QED
          BY <5>6
      <4>3. QED
        BY <4>1, <4>2
    <3>7. QED
      BY <2>1, <3>4, <3>5, <3>6, Quiet
  <2>3. QED
    BY <1>2, <1>m, <2>1, <2>2
<1>5. CASE LoadsDone
  <2>1. /\ pc = "wait" /\ Running = {} /\ table' = table /\ staged' = staged
        /\ merged' = merged /\ result' \in {result, "failed"} /\ pc' \in {"returned", "copy", "end"}
        /\ gone \subseteq gone' /\ UNCHANGED <<wd, err, srcErr, count, w, disk, enc, proc, file>>
        /\ pc' \in {"returned", "copy"} => ~err
        /\ pc' = "returned" => ~Is({"stage"}) /\ cnt' = Total
        /\ pc' = "copy" => Is({"stage"})
    BY <1>5 DEF LoadsDone, Leave, loadVars, encVars, partVars
  <2>2. ASSUME ~err
        PROVE  /\ Is({"stage"}) => staged = disk
               /\ ~Is({"stage"}) => table = disk
               /\ ChnClosed /\ \A f \in Files : w[f] # "none" => f \in gone
               /\ Untouched => MayFail("prepare") /\ Total = 0 /\ disk = NoStage
               /\ Untouched \/ wd = "closed"
    <3>1. ChnClosed
      BY <2>1, <2>2, OthersLoaded
    <3>2. QED
      BY <2>1, <2>2, <3>1, OthersLoaded, NoFolder, Quiet
  <2>3. ASSUME pc' = "returned" PROVE Returned'
    <3>1. ~err /\ ~Is({"stage"}) /\ cnt' = Total /\ table = disk
      BY <2>1, <2>2, <2>3
    <3>2. Total' = Total
      BY <2>1 DEF Total
    <3>3. CASE Untouched
      <4>1. NothingDone'
        BY <1>d, <1>s, <2>1, <2>2, <3>1, <3>3 DEF NothingDone, ChnClosed
      <4>2. QED
        BY <4>1
    <3>4. CASE wd = "closed"
      <4>1. AllDone'
        BY <2>1, <2>2, <3>1, <3>2, <3>4 DEF AllDone
      <4>2. QED
        BY <4>1
    <3>5. QED
      BY <2>2, <3>1, <3>3, <3>4
  <2>4. ASSUME pc' = "copy" PROVE Copying'
    <3>1. ~err /\ Is({"stage"}) /\ staged = disk
      BY <2>1, <2>2, <2>4
    <3>2. CASE Untouched
      BY <1>d, <1>s, <2>1, <2>2, <3>1, <3>2 DEF ChnClosed
    <3>3. CASE wd = "closed"
      BY <1>d, <2>1, <3>1, <3>3
    <3>4. QED
      BY <2>2, <3>1, <3>2, <3>3
  <2>5. QED
    BY <1>2, <1>m, <2>1, <2>3, <2>4
<1>6. CASE NothingToWrite
  <2>1. pc = "write" /\ EmptyBuffer /\ pc' = "end" /\ result' = "empty" /\ merged' = merged
    BY <1>6 DEF NothingToWrite
  <2>2. NoRows'
    BY <1>d, <1>p, <2>1 DEF EmptyBuffer
  <2>3. QED
    BY <1>b, <1>m, <2>1, <2>2
<1>7. CASE WriteDataflow
  <2>1. /\ pc = "write" /\ ChnClosed /\ Is({"file", "bucket"})
        /\ UNCHANGED <<wd, err>>
        /\ \/ pc' = "end" /\ result' = "failed" /\ merged' = merged
           \/ ~err /\ wd # "failed" /\ Is({"bucket"}) /\ pc' = "copy" /\ UNCHANGED <<result, merged>>
           \/ ~err /\ wd # "failed" /\ ~Is({"bucket"}) /\ pc' = "end" /\ result' = "success"
    <3>1. Is({"file", "bucket"})
      BY <1>0, <1>7 DEF WriteDataflow, Places
    <3>2. QED
      BY <1>7, <3>1 DEF WriteDataflow, Leave
  <2>2. CASE pc' = "end" /\ result' = "failed" /\ merged' = merged
    BY <1>2, <2>1, <2>2
  <2>3. CASE ~err /\ wd # "failed" /\ Is({"bucket"}) /\ pc' = "copy" /\ UNCHANGED <<result, merged>>
    <3>1. Copying'
      BY <1>d, <2>1, <2>3 DEF ChnClosed, Is
    <3>2. QED
      BY <1>2, <1>m, <2>1, <2>3, <3>1
  <2>4. CASE ~err /\ wd # "failed" /\ ~Is({"bucket"}) /\ pc' = "end" /\ result' = "success"
    <3>1. Is({"file"})
      BY <2>1, <2>4 DEF Is
    <3>2. Target' /\ Success'
      BY <1>d, <2>1, <2>4, <3>1 DEF ChnClosed
    <3>3. QED
      BY <1>b, <2>4, <3>2
  <2>5. QED
    BY <2>1, <2>2, <2>3, <2>4
<1>8. CASE Copy
  <2>1. /\ pc = "copy" /\ merged' = merged /\ result' \in {result, "failed"}
        /\ UNCHANGED <<wd, err, srcErr, count, w, disk, enc, proc, file>>
        /\ \/ pc' = "end"
           \/ /\ pc' = "returned" /\ cnt' = Total /\ gone' = gone \cup Cleaned
              /\ table' = IF Is({"stage"}) THEN staged ELSE disk
    BY <1>8 DEF Copy, Leave, encVars, partVars
  <2>2. Copying /\ Is({"stage", "bucket"})
    BY <1>0, <1>a, <2>1 DEF Places
  <2>3. ASSUME pc' = "returned" PROVE Returned'
    <3>1. /\ cnt' = Total /\ gone' = gone \cup Cleaned
          /\ table' = IF Is({"stage"}) THEN staged ELSE disk
      BY <2>1, <2>3
    <3>2. CASE Untouched /\ wd \in {"failed", "closed"} /\ MayFail("prepare")
               /\ staged = NoStage /\ Is({"stage"})
      <4>1. Total = 0
        BY <3>2, Undone
      <4>2. NothingDone'
        BY <1>d, <1>s, <3>1, <3>2, <4>1 DEF NothingDone, ChnClosed
      <4>3. QED
        BY <4>2
    <3>3. CASE wd = "closed" /\ ~err /\ (Is({"stage"}) => staged = disk)
      <4>1. Total' = Total
        BY <2>1 DEF Total
      <4>2. \A f \in Files : w[f] # "none" => f \in gone'
        <5>1. ASSUME NEW f \in Files, w[f] # "none" PROVE f \in Cleaned
          <6>1. w[f] = "done"
            BY <3>3, <5>1, Quiet DEF ChnClosed
          <6>2. Is({"bigquery", "stage", "bucket"})
            BY <2>2 DEF Is
          <6>3. QED
            BY <6>1, <6>2 DEF Cleaned
        <5>2. QED
          BY <3>1, <5>1
      <4>3. AllDone'
        BY <2>1, <3>1, <3>3, <4>1, <4>2 DEF AllDone
      <4>4. QED
        BY <4>3
    <3>4. QED
      BY <2>2, <3>2, <3>3
  <2>4. QED
    BY <1>2, <1>m, <2>1, <2>3
<1>9. CASE Validate
  <2>1. /\ pc = "returned" /\ Returned /\ Running = {} /\ ~merged
        /\ UNCHANGED <<wd, err, srcErr, count, w, disk, enc, proc, file, cnt, table, gone, merged>>
    BY <1>9, <1>a, <1>m DEF Validate, loadVars, encVars, partVars
  <2>2. CASE CountsDiffer \/ LoadedNone
    BY <1>2, <1>9, <2>1, <2>2 DEF Validate
  <2>3. CASE ~CountsDiffer /\ ~LoadedNone /\ cnt = 0
    <3>1. pc' = "end" /\ result' = "empty"
      BY <1>9, <2>3 DEF Validate
    <3>2. Rows(table, Files) = 0 => plan.rows[First] = 0
      <4>1. plan.rows[First] \in Nat
        BY ConstantTypes, PlanType DEF LoadInv, TypeOK
      <4>2. QED
        BY <2>3, <4>1 DEF LoadedNone
    <3>3. CASE NothingDone
      <4>1. Rows(table, Files) = 0
        <5>1. \A f \in Files : table[f] = 0
          BY <3>3 DEF NothingDone
        <5>2. QED
          BY <5>1, FilesFinite, RowsZero
      <4>2. NoRows
        BY <3>2, <3>3, <4>1 DEF NothingDone
      <4>3. QED
        BY <1>b, <1>d, <1>p, <2>1, <3>1, <4>2
    <3>4. CASE AllDone
      <4>1. Total = 0 /\ wd = "closed" /\ ~err
        BY <2>3, <3>4 DEF AllDone
      <4>2. count \in [Streams -> Nat]
        BY <1>0 DEF EncoderTypes
      <4>3. \A s \in Streams : count[s] = 0
        BY <4>1, <4>2, RowsZero, StagedLoadAssumption DEF Total
      <4>4. \A s \in Streams : plan.rows[s] = 0
        BY <4>1, <4>3, Settled
      <4>5. QED
        BY <1>b, <1>d, <1>p, <2>1, <3>1, <4>4
    <3>5. CASE Unread
      <4>1. Rows(table, Files) \in Nat
        BY <1>0, FilesFinite, CellsFinite DEF LoadTypes
      <4>2. cnt = Rows(table, Files)
        BY <2>3, <3>5 DEF CountsDiffer, Unread, Is
      <4>3. Is({"duckdb"}) /\ srcErr # {}
        BY <3>5, <4>1, <4>2 DEF Unread
      <4>4. NoRows
        BY <2>3, <3>2, <4>2, <4>3
      <4>5. QED
        BY <1>b, <1>d, <1>p, <2>1, <3>1, <4>4
    <3>6. QED
      BY <2>1, <3>3, <3>4, <3>5
  <2>4. CASE ~CountsDiffer /\ ~LoadedNone /\ cnt # 0
    <3>1. pc' = "merge" /\ result' = result
      BY <1>9, <2>4 DEF Validate
    <3>2. ~NothingDone
      BY <2>4 DEF NothingDone
    <3>3. CASE AllDone
      BY <1>2, <1>m, <1>t, <2>1, <3>1, <3>3
    <3>4. CASE Unread
      <4>1. Rows(table, Files) \in Nat
        BY <1>0, FilesFinite, CellsFinite DEF LoadTypes
      <4>2. cnt = Rows(table, Files)
        BY <2>4, <3>4 DEF CountsDiffer, Unread, Is
      <4>3. srcErr # {}
        BY <3>4, <4>1, <4>2 DEF Unread
      <4>4. Unread' /\ srcErr' # {}
        BY <1>u, <2>1, <3>4, <4>3
      <4>5. QED
        BY <1>2, <1>m, <2>1, <3>1, <4>4
    <3>5. QED
      BY <2>1, <3>2, <3>3, <3>4
  <2>5. QED
    BY <2>2, <2>3, <2>4
<1>10. CASE Merge
  <2>1. /\ pc = "merge" /\ pc' = "end" /\ Merging /\ Running = {} /\ ~merged
        /\ UNCHANGED <<wd, err, srcErr, count, w, disk, table, gone>>
        /\ \/ merged' = TRUE /\ result' = IF err THEN "failed" ELSE "success"
           \/ result' = "failed" /\ merged' = merged
    BY <1>10, <1>a, <1>m DEF Merge, loadVars, encVars, partVars
  <2>2. CASE result' = "failed" /\ merged' = merged
    BY <1>2, <2>1, <2>2
  <2>3. CASE merged' = TRUE /\ result' = IF err THEN "failed" ELSE "success"
    <3>1. CASE AllDone
      <4>1. Target' /\ Success' /\ result' = "success"
        BY <2>1, <2>3, <3>1 DEF AllDone
      <4>2. QED
        BY <1>b, <2>1, <4>1
    <3>2. CASE Unread /\ srcErr # {}
      <4>1. Target' /\ result' = "failed"
        BY <1>d, <2>1, <2>3, <3>2 DEF Unread
      <4>2. QED
        BY <1>b, <2>1, <4>1
    <3>3. QED
      BY <2>1, <3>1, <3>2
  <2>4. QED
    BY <2>1, <2>2, <2>3
<1>11. QED
  BY <1>1, <1>3, <1>4, <1>5, <1>6, <1>7, <1>8, <1>9, <1>10 DEF ImportStep, TaskStep

(***************************************************************************)
(* Loads without faults.                                                    *)
(***************************************************************************)
\* What AllDone says of the counts.
LEMMA CountsMatch ==
  ASSUME LoadInv, AllDone, ~Is({"file"})
  PROVE  ~CountsDiffer /\ ~LoadedNone
<1>1. cnt = Total /\ table = disk /\ wd = "closed" /\ ~err
  BY DEF AllDone
<1>2. ~CountsDiffer
  BY <1>1, SettledTotal DEF CountsDiffer
<1>3. cnt = 0 => plan.rows[First] = 0
  <2>1. count \in [Streams -> Nat] /\ First \in Streams
    BY InvTypes, ConstantTypes DEF EncoderTypes
  <2>2. Total = 0 => count[First] = 0
    BY <2>1, RowsZero, StagedLoadAssumption DEF Total
  <2>3. QED
    BY <1>1, <2>1, <2>2, Settled
<1>4. ~LoadedNone
  BY <1>3 DEF LoadedNone
<1>5. QED
  BY <1>2, <1>4

LEMMA CleanInv == LoadInv /\ [Next]_vars => Clean'
<1> SUFFICES ASSUME LoadInv, [Next]_vars, plan.faults = {}
             PROVE  /\ ~err' /\ srcErr' = {} /\ wd' \notin {"failed", "lost"}
                    /\ \A f \in Files : bad'[f] = "no"
                    /\ result' = "failed" => /\ Is({"starrocks"}) /\ tally' # Total'
                                             /\ wd' = "closed" /\ table' = disk' /\ Running' = {}
  BY PlanStays DEF Clean, Is
<1>0. Clean /\ After /\ Places /\ Parts /\ Passage /\ FileTypes /\ LoadTypes /\ CallerTypes
  BY InvTypes DEF LoadInv
<1>f. \A x : ~MayFail(x)
  BY DEF MayFail
<1>a. ~err /\ srcErr = {} /\ wd \notin {"failed", "lost"} /\ \A f \in Files : bad[f] = "no"
  BY <1>0 DEF Clean
<1>1. ~err'
  BY <1>a, <1>f, Blame
<1>2. \A f \in Files : bad'[f] = "no"
  <2>1. ASSUME NEW s \in plan.streams, EncoderStep(s) PROVE bad' = bad
    <3>1. CASE Flush(s)
      BY <1>f, <3>1 DEF Flush
    <3>2. CASE ~Flush(s)
      BY <2>1, <3>2, NoFlush
    <3>3. QED
      BY <3>1, <3>2
  <2>2. ASSUME NEW f \in Files, PartStep(f) PROVE bad' = bad
    BY <1>f, <2>2 DEF PartStep, Create, CreateFails, Announce, PartFails, Drained
  <2>3. bad' = bad
    <3>1. CASE UNCHANGED vars
      BY <3>1 DEF vars, partVars
    <3>2. CASE Next
      BY <2>1, <2>2, <3>2, StepsOfNext, FolderFrame, TakerFrame, ColumnFrame, LoadFrame,
         ImportFrame, TaskFrame DEF partVars
    <3>3. QED
      BY <3>1, <3>2
  <2>4. QED
    BY <1>a, <2>3
<1>3. wd' \notin {"failed", "lost"}
  <2>1. CASE FolderStep
    BY <1>a, <1>f, <2>1 DEF FolderStep, Prepare, PrepareFails, ClientFails, ErrorCaptured,
       WriteDataflowReturns
  <2>2. CASE ~FolderStep
    <3>1. wd' = wd
      <4>1. CASE UNCHANGED vars
        BY <4>1 DEF vars
      <4>2. CASE Next
        BY <2>2, <4>2, StepsOfNext, EncoderFrame, TakerFrame, PartFrame, ColumnFrame, LoadFrame,
           ImportFrame, TaskFrame
      <4>3. QED
        BY <4>1, <4>2
    <3>2. QED
      BY <1>a, <3>1
  <2>3. QED
    BY <2>1, <2>2
<1>4. srcErr' = {}
  <2>1. ASSUME NEW s \in plan.streams, EncoderStep(s) PROVE srcErr' = srcErr
    BY <1>f, <2>1 DEF EncoderStep, ColumnsChanged, TakeRow, Lock, Flush, Stop
  <2>2. srcErr' = srcErr
    <3>1. CASE UNCHANGED vars
      BY <3>1 DEF vars, encVars
    <3>2. CASE Next
      BY <2>1, <3>2, StepsOfNext, FolderFrame, TakerFrame, PartFrame, ColumnFrame, LoadFrame,
         ImportFrame, TaskFrame DEF encVars
    <3>3. QED
      BY <3>1, <3>2
  <2>3. QED
    BY <1>a, <2>2
<1> DEFINE Alarm == /\ Is({"starrocks"}) /\ tally # Total
                    /\ wd = "closed" /\ table = disk /\ Running = {}
<1>5. Is({"starrocks"})' <=> Is({"starrocks"})
  BY PlanStays DEF Is
<1>6. ASSUME result' = "failed", result = "failed" PROVE Alarm'
  <2>1. Alarm /\ pc = "end"
    BY <1>0, <1>6 DEF Clean, Places
  <2>2. UNCHANGED <<count, disk, wd>>
    <3>1. UNCHANGED <<count, disk>> /\ wd' = "closed"
      BY <1>a, <2>1, Still DEF ChnClosed
    <3>2. QED
      BY <2>1, <3>1
  <2>3. ~TaskStep /\ ~(ImportStep /\ ~Drain)
    BY <2>1 DEF TaskStep, Validate, Merge, ImportStep, Stage, Receive, Insert, Start, LastFile,
       LoadsDone, NothingToWrite, WriteDataflow, Copy
  <2>4. UNCHANGED mainVars
    BY <2>1, <2>3, Rest
  <2>5. UNCHANGED <<tally, table, ld>>
    BY <2>4 DEF mainVars, loadVars
  <2>6. Total' = Total /\ Running' = Running
    BY <2>2, <2>5 DEF Total, Running
  <2>7. QED
    BY <1>5, <2>1, <2>2, <2>5, <2>6
<1>7. ASSUME result' = "failed", result # "failed" PROVE Alarm'
  <2>1. ImportStep \/ TaskStep
    BY <1>7, Rest
  <2>2. ~Validate
    <3>1. SUFFICES ASSUME Validate PROVE FALSE
      OBVIOUS
    <3>2. pc = "returned" /\ (CountsDiffer \/ LoadedNone)
      BY <1>7, <3>1 DEF Validate
    <3>3. AllDone
      BY <1>0, <1>a, <1>f, <3>2 DEF After, NothingDone, Unread
    <3>4. ~Is({"file"})
      BY <1>0, <3>2 DEF Places
    <3>5. QED
      BY <3>2, <3>3, <3>4, CountsMatch
  <2>3. ~Merge
    BY <1>7, <1>a, <1>f DEF Merge
  <2>4. ~(Stage \/ Receive \/ Drain \/ NothingToWrite \/ Copy)
    BY <1>7, <1>f DEF Stage, Receive, Drain, NothingToWrite, Copy, Leave, mainVars
  <2>5. ~Insert
    BY <1>0, <1>7, <1>a, <1>f DEF Insert, CallerTypes
  <2>6. ~(Start \/ LastFile)
    BY <1>7, <1>a DEF Start, LastFile, Leave
  <2>7. ~WriteDataflow
    BY <1>7, <1>a DEF WriteDataflow, Leave
  <2>8. LoadsDone
    BY <2>1, <2>2, <2>3, <2>4, <2>5, <2>6, <2>7 DEF ImportStep, TaskStep
  <2>9. /\ pc = "wait" /\ Running = {} /\ Is({"starrocks"}) /\ ~RowsMatch
        /\ UNCHANGED <<wd, tally, table, ld, count, disk>>
    BY <1>7, <1>a, <2>8 DEF LoadsDone, Leave, loadVars, encVars, partVars
  <2>10. wd = "closed"
    BY <1>0, <1>a, <2>9 DEF Passage, ChnClosed
  <2>11. table = disk
    BY <1>a, <2>9, OthersLoaded DEF Is
  <2>12. Total' = Total /\ Running' = Running
    BY <2>9 DEF Total, Running
  <2>13. QED
    BY <1>5, <2>9, <2>10, <2>11, <2>12 DEF RowsMatch
<1>8. result' = "failed" => /\ Is({"starrocks"}) /\ tally' # Total'
                            /\ wd' = "closed" /\ table' = disk' /\ Running' = {}
  <2>1. ASSUME result' = "failed" PROVE Alarm'
    BY <1>6, <1>7, <2>1
  <2>2. QED
    BY <1>5, <2>1
<1>9. QED
  BY <1>1, <1>2, <1>3, <1>4, <1>8

(***************************************************************************)
(* The invariant, and what follows from it.                                 *)
(***************************************************************************)
LEMMA LoadInit == Init => LoadInv
<1> SUFFICES ASSUME Init PROVE LoadInv
  OBVIOUS
<1>0. TypeOK
  BY TypeInit
<1>t. FileTypes /\ LoadTypes /\ EncoderTypes
  BY <1>0 DEF TypeOK, FileTypes, LoadTypes, EncoderTypes
<1>1. /\ \A s \in Streams : enc[s] = "idle" /\ proc[s] = "idle" /\ count[s] = 0 /\ file[s] = 0
                            /\ taken[s] = 0 /\ ~fresh[s]
      /\ \A f \in Files : w[f] = "none" /\ bad[f] = "no" /\ ld[f] = "none" /\ disk[f] = 0
                          /\ staged[f] = 0 /\ table[f] = 0
      /\ srcErr = {} /\ gone = {} /\ ready = <<>> /\ wd = "prepare" /\ ~err
      /\ alter = "no" /\ cnt = 0 /\ ~merged /\ result = "none"
  BY DEF Init
<1>2. /\ pc = "write" => Is({"file", "bucket"})
      /\ pc = "stage" => Is({"stage"})
      /\ pc = "recv" => Is({"duckdb", "bigquery", "stage", "starrocks"})
      /\ pc \in {"write", "stage", "recv"}
  <2>1. plan.driver \in Drivers
    BY <1>0, PlanType DEF TypeOK
  <2>2. pc = CASE Is({"file", "bucket"}) -> "write" [] Is({"stage"}) -> "stage" [] OTHER -> "recv"
    BY DEF Init
  <2>3. QED
    BY <2>1, <2>2 DEF Is, Drivers
<1>3. Untouched /\ Folder
  BY <1>1 DEF Folder, Untouched
<1>4. Encoders
  <2>1. \A s \in Streams : plan.rows[s] \in Nat
    BY <1>0, PlanType DEF TypeOK
  <2>2. QED
    BY <1>1, <2>1 DEF Encoders, Hand, Extra
<1>5. Takers
  <2>1. \A s \in Streams, i \in 1..MaxFiles : <<s, i>> \in Files /\ ~(i <= 0)
    BY ConstantTypes DEF Files
  <2>2. QED
    BY <1>1, <2>1 DEF Takers
<1>6. Parts
  BY <1>1 DEF Parts
<1>7. Accounts
  <2>1. SUFFICES ASSUME NEW s \in Streams
                 PROVE  /\ Rows(disk, Of(s)) + Hand(s) <= count[s]
                        /\ Rows(disk, Of(s)) + Hand(s) = count[s]
                        /\ ~\E f \in Of(s) : bad[f] = "short"
    BY DEF Accounts
  <2>2. \A f \in Of(s) : disk[f] = 0 /\ bad[f] = "no"
    BY <1>1 DEF Of
  <2>3. Rows(disk, Of(s)) = 0
    BY <2>2, FilesFinite, RowsZero
  <2>4. QED
    BY <1>1, <2>2, <2>3 DEF Hand
<1>8. Queued = {} /\ Running = {}
  BY <1>1 DEF Queued, Running
<1>9. Once
  <2>1. Len(ready) = 0
    BY <1>1
  <2>2. QED
    BY <1>1, <1>2, <1>8, <2>1 DEF Once
<1>10. Places
  BY <1>1, <1>2, <1>8 DEF Places
<1>11. Removed
  BY <1>1, <1>2 DEF Removed
<1>12. Passage
  BY <1>1, <1>2 DEF Passage, Over
<1>13. Causes /\ After /\ Clean /\ NoLoadDuringAlter
  BY <1>1, <1>2 DEF Causes, After, Clean, NoLoadDuringAlter
<1>14. QED
  BY <1>0, <1>3, <1>4, <1>5, <1>6, <1>7, <1>9, <1>10, <1>11, <1>12, <1>13 DEF LoadInv

LEMMA LoadStays == LoadInv /\ [Next]_vars => LoadInv'
<1> SUFFICES ASSUME LoadInv, [Next]_vars PROVE LoadInv'
  OBVIOUS
<1>1. TypeOK'
  BY TypeStep DEF LoadInv
<1>2. Folder' /\ Encoders' /\ Takers' /\ Parts'
  BY FolderInv, EncodersInv, TakersInv, PartsInv
<1>3. Accounts' /\ Once' /\ Places' /\ Removed'
  BY AccountsInv, OnceInv, PlacesInv, RemovedInv
<1>4. Passage' /\ Causes' /\ After' /\ Clean' /\ NoLoadDuringAlter'
  BY PassageInv, CausesInv, AfterInv, CleanInv, NoLoadInv
<1>5. QED
  BY <1>1, <1>2, <1>3, <1>4 DEF LoadInv

\* The inductive invariant holds in every reachable state: what a stream has read, what
\* its files hold, where the announced files are and what the import has returned agree.
THEOREM LoadCorrect == Spec => []LoadInv
<1>1. LoadInv /\ [Next]_vars => LoadInv'
  BY LoadStays
<1>2. QED
  BY <1>1, LoadInit, PTL DEF Spec

\* Every variable of the load keeps its type.
THEOREM TypeCorrect == Spec => []TypeOK
<1>1. LoadInv => TypeOK
  BY DEF LoadInv
<1>2. QED
  BY <1>1, LoadCorrect, PTL

\* BigQuery's table is never altered while a load job writes to it: the handler holds
\* conn.Mux, which keeps new jobs out, before it waits for the running ones.
THEOREM NoLoadCorrect == Spec => []NoLoadDuringAlter
<1>1. LoadInv => NoLoadDuringAlter
  BY DEF LoadInv
<1>2. QED
  BY <1>1, LoadCorrect, PTL

\* A staged file is there as long as it is loaded, and none is left after a success.
THEOREM FilesLast == Spec => []StagedFilesLast
<1>1. LoadInv => StagedFilesLast
  BY DEF LoadInv, StagedFilesLast, Removed, After
<1>2. QED
  BY <1>1, LoadCorrect, PTL

\* What was written when no error had come up is every row of every stream.
LEMMA WholeWhenSettled ==
  ASSUME LoadInv, wd = "closed", ~err, Is({"file"}) \/ table = disk
  PROVE  Whole \/ Overwritten
<1> SUFFICES ASSUME ~Overwritten PROVE Whole
  OBVIOUS
<1>1. (IF Is({"file"}) THEN disk ELSE table) = disk
  OBVIOUS
<1>2. \A s \in Streams : ~(plan.single /\ file[s] > 1)
  BY DEF Overwritten
<1>3. QED
  BY <1>1, <1>2, Settled DEF Whole

\* A target that was merged into got every row of every stream, whatever failed on the way,
\* with the exceptions that MergedIsWhole names.
THEOREM WholeCorrect == Spec => []MergedIsWhole
<1>1. LoadInv => MergedIsWhole
  <2>1. SUFFICES ASSUME LoadInv PROVE MergedIsWhole
    OBVIOUS
  <2>2. After
    BY <2>1 DEF LoadInv
  <2>3. merged => \/ Whole \/ Overwritten
                  \/ Is({"duckdb"}) /\ srcErr # {} /\ result = "failed"
    BY <2>1, <2>2, WholeWhenSettled DEF After
  <2>4. QED
    BY <2>2, <2>3 DEF After, MergedIsWhole
<1>2. QED
  BY <1>1, LoadCorrect, PTL

\* Without a fault a load fails only in StreamLoad, whose sum lost an addition.
THEOREM NoAlarmCorrect == Spec => []NoFalseAlarm
<1>1. LoadInv => NoFalseAlarm
  <2>1. SUFFICES ASSUME LoadInv, plan.faults = {}, result = "failed"
                 PROVE  Is({"starrocks"}) /\ tally # Total /\ Whole
    BY DEF NoFalseAlarm
  <2>2. /\ ~err /\ Is({"starrocks"}) /\ tally # Total /\ wd = "closed" /\ table = disk
    BY <2>1 DEF LoadInv, Clean
  <2>3. ~Overwritten
    <3>1. ~plan.single
      BY <2>1, <2>2, NotSingle DEF Is
    <3>2. QED
      BY <3>1 DEF Overwritten
  <2>4. QED
    BY <2>1, <2>2, <2>3, WholeWhenSettled
<1>2. QED
  BY <1>1, LoadCorrect, PTL

=============================================================================
