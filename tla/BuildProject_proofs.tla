------------------------ MODULE BuildProject_proofs ------------------------
(***************************************************************************)
(* Proofs about BuildProject, for any projects, names and plans: the order  *)
(* of the nodes is topological and a project is refused for a cycle, and    *)
(* only for one; and independent projects are all tried and reported.       *)
(***************************************************************************)
EXTENDS BuildProject, FiniteSetTheorems, WellFoundedInduction, TLAPS

-----------------------------------------------------------------------------
(* The inductive invariant.                                                 *)

\* Independent projects that are run: by the pool.
Pooled == plan.independent /\ plan.command = "run"

Elements(q) == {q[i] : i \in 1..Len(q)}
Once(q) == \A i, j \in 1..Len(q) : q[i] = q[j] => i = j

\* Where main and the projects are.
Stages ==
  /\ main = "load" => \A p \in Projects : pc[p] = "idle"
  /\ main = "pool" => Pooled
  /\ Pooled => main \in {"load", "pool", "done"}
  /\ ~Pooled => \A p \in Projects : pc[p] \notin {"release", "done"}
  /\ Pooled /\ main = "done" =>
       (\A p \in Projects : pc[p] = "idle") \/ (\A p \in Projects : pc[p] = "done")
  /\ result # "none" => main = "done"

\* Which projects have failed, and why.
Errors ==
  \A p \in Projects :
    /\ pc[p] \in {"idle", "resolve", "sort", "select", "compiled", "execute"} => err[p] = "none"
    /\ pc[p] = "collect" => err[p] \in {"none", "execute"}
    /\ pc[p] = "failed" => err[p] # "none"

\* The projects the pool has started, each of which holds the semaphore.
Working == {p \in Projects : pc[p] \notin {"idle", "done"}}
Slots == Pooled => sem = Cardinality(Working) /\ sem <= Threads

\* What the pool has kept of the projects, and what it returns in the end.
Kept ==
  Pooled =>
    /\ Elements(subBuilds) =
         {p \in Projects : pc[p] \in {"failed", "release", "done"} /\ err[p] \in {"none", "execute"}}
    /\ errCh = {p \in Projects : pc[p] \in {"release", "done"} /\ err[p] # "none"}
    /\ main = "done" /\ (\E p \in Projects : pc[p] # "idle") =>
         /\ \A i, j \in 1..Len(subBuilds) : i < j => subBuilds[i] < subBuilds[j]
         /\ result = IF errCh = {} THEN "nil" ELSE "err"

\* The nodes that were put in order have no other dependencies than those before them.
Behind(p) ==
  /\ Once(order[p]) /\ Ordered(p) \subseteq Nodes(p)
  /\ \A i \in 1..Len(order[p]) : \A d \in Dependencies(p, order[p][i]) :
       \E j \in 1..(i - 1) : order[p][j] = d

\* The sort: the degree of a node is the number of its dependencies that are not in order
\* yet, and the queue holds the other nodes without any.
Sorting(p) ==
  /\ Once(queue[p]) /\ Elements(queue[p]) \cap Ordered(p) = {}
  /\ Elements(queue[p]) \cup Ordered(p) = {n \in Nodes(p) : Dependencies(p, n) \subseteq Ordered(p)}
  /\ \A n \in Nodes(p) : inDegree[p][n] = Cardinality(Dependencies(p, n) \ Ordered(p))

\* What is known of the graph of a project.
Graph(p) ==
  /\ Behind(p)
  /\ pc[p] \in {"idle", "resolve"} => order[p] = <<>>
  /\ pc[p] = "sort" => Sorting(p)
  /\ SortDone(p) => Ordered(p) = Nodes(p) /\ \A S \in SUBSET Nodes(p) : ~Knot(p, S)
  /\ err[p] = "cycle" => \E S \in SUBSET Nodes(p) : Knot(p, S)
  /\ pc[p] = "compiled" => ~SelectorFails(p) /\ selected[p] \in Apply(p)

Graphs == \A p \in Projects : Graph(p)

ProjectInv == TypeOK /\ Stages /\ Errors /\ Slots /\ Kept /\ Graphs

-----------------------------------------------------------------------------
(* Plans and types.                                                         *)

\* What the plans considered have in common.
LEMMA PlanFacts ==
  ASSUME TypeOK
  PROVE  /\ Projects \subseteq Project /\ IsFiniteSet(Projects) /\ Projects \subseteq Nat
         /\ plan.command \in {"run", "list", "compile"} /\ plan.threads \in Nat
         /\ \A p \in Projects :
              /\ Nodes(p) \subseteq Name /\ IsFiniteSet(Nodes(p))
              /\ \A n : Dependencies(p, n) \subseteq Nodes(p)
                        /\ IsFiniteSet(Dependencies(p, n))
<1>1. plan \in Plans
  BY DEF TypeOK
<1>2. IsPlan(plan)
  BY <1>1, PlansAssumption
<1>3. Projects \subseteq Project /\ Projects \subseteq Nat
  BY <1>2, ProjectAssumption DEF IsPlan, Projects
<1>4. IsFiniteSet(Projects)
  BY <1>3, ProjectAssumption, FS_Subset
<1>5. ASSUME NEW p \in Projects
      PROVE  /\ Nodes(p) \subseteq Name /\ IsFiniteSet(Nodes(p))
             /\ \A n : Dependencies(p, n) \subseteq Nodes(p)
                       /\ IsFiniteSet(Dependencies(p, n))
  <2>1. plan.projects[p] \in Content
    BY <1>2 DEF IsPlan, Projects
  <2>2. plan.projects[p].models \subseteq Name /\ plan.projects[p].seeds \subseteq Name
    BY <2>1 DEF Content
  <2>3. Nodes(p) \subseteq Name
    BY <2>2 DEF Nodes
  <2>4. IsFiniteSet(Nodes(p))
    BY <2>3, NameAssumption, FS_Subset
  <2>5. ASSUME NEW n PROVE Dependencies(p, n) \subseteq Nodes(p) /\ IsFiniteSet(Dependencies(p, n))
    <3>1. Dependencies(p, n) \subseteq Nodes(p)
      BY DEF Dependencies
    <3> QED
      BY <2>4, <3>1, FS_Subset
  <2> QED
    BY <2>3, <2>4, <2>5
<1> QED
  BY <1>2, <1>3, <1>4, <1>5 DEF IsPlan

\* The names with their types.
Typed ==
  /\ plan \in Plans
  /\ main \in {"load", "compile", "single", "pool", "done"}
  /\ pc \in [Projects -> Label] /\ err \in [Projects -> Reason]
  /\ order \in [Projects -> Seq(Name)] /\ queue \in [Projects -> Seq(Name)]
  /\ selected \in [Projects -> Seq(Name)]
  /\ inDegree \in [Projects -> [Name -> Nat]]

LEMMA TypedFromTypeOK ==
  ASSUME TypeOK
  PROVE  Typed
BY DEF TypeOK, Typed

\* A sorted sequence of a set has each of its members once.
LEMMA SortedIs ==
  ASSUME NEW S \in SUBSET Nat, IsFiniteSet(S), NEW q \in Sorted(S)
  PROVE  /\ q \in Seq(S) /\ Elements(q) = S /\ Once(q)
         /\ \A i, j \in 1..Len(q) : i < j => q[i] < q[j]
<1>1. Cardinality(S) \in Nat
  BY FS_CardinalityType
<1>2. /\ q \in [1..Cardinality(S) -> S]
      /\ \A n \in S : \E i \in 1..Cardinality(S) : q[i] = n
      /\ \A i, j \in 1..Cardinality(S) : i < j => q[i] < q[j]
  BY DEF Sorted
<1>3. q \in Seq(S) /\ Len(q) = Cardinality(S)
  BY <1>1, <1>2
<1>4. Elements(q) = S
  BY <1>2, <1>3 DEF Elements
<1>5. Once(q)
  <2> SUFFICES ASSUME NEW i \in 1..Len(q), NEW j \in 1..Len(q), q[i] = q[j], i # j PROVE FALSE
    BY DEF Once
  <2>1. i < j \/ j < i
    BY <1>1, <1>3
  <2>2. q[i] \in Nat /\ q[j] \in Nat
    BY <1>2, <1>3
  <2> QED
    BY <1>2, <1>3, <2>1, <2>2
<1> QED
  BY <1>2, <1>3, <1>4, <1>5

\* Sequences with each element once: their number, the first and the rest, and what is
\* put behind them.
LEMMA AppendOnce ==
  ASSUME NEW S, NEW q \in Seq(S), NEW x \in S
  PROVE  /\ Append(q, x) \in Seq(S)
         /\ Elements(Append(q, x)) = Elements(q) \cup {x}
         /\ Once(q) /\ x \notin Elements(q) => Once(Append(q, x))
<1> DEFINE r == Append(q, x)
<1>1. /\ r \in Seq(S) /\ Len(r) = Len(q) + 1 /\ Len(q) \in Nat /\ r[Len(q) + 1] = x
      /\ \A i \in 1..Len(q) : r[i] = q[i]
  OBVIOUS
<1> HIDE DEF r
<1>2. Elements(r) = Elements(q) \cup {x}
  <2>1. ASSUME NEW i \in 1..Len(r) PROVE r[i] \in Elements(q) \cup {x}
    <3>1. i \in 1..Len(q) \/ i = Len(q) + 1
      BY <1>1
    <3> QED
      BY <1>1, <3>1 DEF Elements
  <2>2. ASSUME NEW i \in 1..Len(q) PROVE q[i] \in Elements(r)
    <3>1. i \in 1..Len(r) /\ r[i] = q[i]
      BY <1>1
    <3> QED
      BY <3>1 DEF Elements
  <2>3. x \in Elements(r)
    <3>1. Len(q) + 1 \in 1..Len(r)
      BY <1>1
    <3> QED
      BY <1>1, <3>1 DEF Elements
  <2> QED
    BY <2>1, <2>2, <2>3 DEF Elements
<1>3. ASSUME Once(q), x \notin Elements(q) PROVE Once(r)
  <2> SUFFICES ASSUME NEW i \in 1..Len(r), NEW j \in 1..Len(r), r[i] = r[j] PROVE i = j
    BY DEF Once
  <2>1. (i \in 1..Len(q) \/ i = Len(q) + 1) /\ (j \in 1..Len(q) \/ j = Len(q) + 1)
    BY <1>1
  <2>2. CASE i \in 1..Len(q) /\ j \in 1..Len(q)
    BY <1>1, <1>3, <2>2 DEF Once
  <2>3. CASE i \in 1..Len(q) /\ j = Len(q) + 1
    <3>1. q[i] \in Elements(q) /\ q[i] = x
      BY <1>1, <2>3 DEF Elements
    <3> QED
      BY <1>3, <3>1
  <2>4. CASE j \in 1..Len(q) /\ i = Len(q) + 1
    <3>1. q[j] \in Elements(q) /\ q[j] = x
      BY <1>1, <2>4 DEF Elements
    <3> QED
      BY <1>3, <3>1
  <2> QED
    BY <2>1, <2>2, <2>3, <2>4
<1> QED
  BY <1>1, <1>2, <1>3 DEF r

LEMMA TailOnce ==
  ASSUME NEW S, NEW q \in Seq(S), q # <<>>
  PROVE  /\ Tail(q) \in Seq(S) /\ Head(q) \in S
         /\ Elements(q) = {Head(q)} \cup Elements(Tail(q))
         /\ Once(q) => Once(Tail(q)) /\ Head(q) \notin Elements(Tail(q))
<1> DEFINE r == Tail(q)
<1>1. /\ r \in Seq(S) /\ Head(q) \in S /\ Len(q) \in Nat \ {0} /\ Len(r) = Len(q) - 1
      /\ Head(q) = q[1] /\ \A i \in 1..Len(r) : r[i] = q[i + 1]
  OBVIOUS
<1> HIDE DEF r
<1>2. Elements(q) = {Head(q)} \cup Elements(r)
  <2>1. ASSUME NEW i \in 1..Len(q) PROVE q[i] \in {Head(q)} \cup Elements(r)
    <3>1. CASE i = 1
      BY <1>1, <3>1
    <3>2. CASE i # 1
      <4>1. i - 1 \in 1..Len(r) /\ (i - 1) + 1 = i
        BY <1>1, <3>2
      <4>2. r[i - 1] = q[(i - 1) + 1]
        BY <1>1, <4>1
      <4>3. q[i] = r[i - 1]
        BY <4>1, <4>2
      <4> QED
        BY <4>1, <4>3 DEF Elements
    <3> QED
      BY <3>1, <3>2
  <2>2. ASSUME NEW i \in 1..Len(r) PROVE r[i] \in Elements(q)
    <3>1. i + 1 \in 1..Len(q) /\ r[i] = q[i + 1]
      BY <1>1
    <3> QED
      BY <3>1 DEF Elements
  <2>3. Head(q) \in Elements(q)
    <3>1. 1 \in 1..Len(q)
      BY <1>1
    <3> QED
      BY <1>1, <3>1 DEF Elements
  <2> QED
    BY <2>1, <2>2, <2>3 DEF Elements
<1>3. ASSUME Once(q) PROVE Once(r) /\ Head(q) \notin Elements(r)
  <2>1. ASSUME NEW i \in 1..Len(r), NEW j \in 1..Len(r), r[i] = r[j] PROVE i = j
    <3>1. i + 1 \in 1..Len(q) /\ j + 1 \in 1..Len(q) /\ q[i + 1] = q[j + 1]
      BY <1>1, <2>1
    <3>2. i + 1 = j + 1
      BY <1>3, <3>1 DEF Once
    <3> QED
      BY <3>2
  <2>2. ASSUME NEW i \in 1..Len(r), r[i] = Head(q) PROVE FALSE
    <3>1. i + 1 \in 1..Len(q) /\ 1 \in 1..Len(q) /\ q[i + 1] = q[1]
      BY <1>1, <2>2
    <3>2. i + 1 = 1
      BY <1>3, <3>1 DEF Once
    <3> QED
      BY <3>2
  <2> QED
    BY <2>1, <2>2 DEF Once, Elements
<1> QED
  BY <1>1, <1>2, <1>3 DEF r

LEMMA ConcatOnce ==
  ASSUME NEW S, NEW q \in Seq(S), NEW r \in Seq(S)
  PROVE  /\ q \o r \in Seq(S) /\ Elements(q \o r) = Elements(q) \cup Elements(r)
         /\ Once(q) /\ Once(r) /\ Elements(q) \cap Elements(r) = {} => Once(q \o r)
<1> DEFINE b == q \o r
<1>1. /\ b \in Seq(S) /\ Len(q) \in Nat /\ Len(r) \in Nat /\ Len(b) = Len(q) + Len(r)
      /\ \A i \in 1..Len(q) : b[i] = q[i]
      /\ \A i \in (Len(q) + 1)..Len(b) : b[i] = r[i - Len(q)]
  OBVIOUS
<1> HIDE DEF b
<1>2. ASSUME NEW i \in 1..Len(b)
      PROVE  \/ i \in 1..Len(q) /\ b[i] = q[i] /\ b[i] \in Elements(q)
             \/ /\ i \notin 1..Len(q) /\ i - Len(q) \in 1..Len(r) /\ b[i] = r[i - Len(q)]
                /\ b[i] \in Elements(r)
  <2>1. i \in 1..Len(q) \/ (i \in (Len(q) + 1)..Len(b) /\ i - Len(q) \in 1..Len(r) /\ i \notin 1..Len(q))
    BY <1>1
  <2> QED
    BY <1>1, <2>1 DEF Elements
<1>3. Elements(b) = Elements(q) \cup Elements(r)
  <2>1. ASSUME NEW i \in 1..Len(q) PROVE q[i] \in Elements(b)
    <3>1. i \in 1..Len(b) /\ b[i] = q[i]
      BY <1>1
    <3> QED
      BY <3>1 DEF Elements
  <2>2. ASSUME NEW i \in 1..Len(r) PROVE r[i] \in Elements(b)
    <3>1. i + Len(q) \in 1..Len(b) /\ i + Len(q) \in (Len(q) + 1)..Len(b) /\ (i + Len(q)) - Len(q) = i
      BY <1>1
    <3>2. b[i + Len(q)] = r[i]
      BY <1>1, <3>1
    <3> QED
      BY <3>1, <3>2 DEF Elements
  <2> QED
    BY <1>2, <2>1, <2>2 DEF Elements
<1>4. ASSUME Once(q), Once(r), Elements(q) \cap Elements(r) = {} PROVE Once(b)
  <2> SUFFICES ASSUME NEW i \in 1..Len(b), NEW j \in 1..Len(b), b[i] = b[j] PROVE i = j
    BY DEF Once
  <2>1. CASE i \in 1..Len(q) /\ j \in 1..Len(q)
    BY <1>1, <1>4, <2>1 DEF Once
  <2>2. CASE i \notin 1..Len(q) /\ j \notin 1..Len(q)
    <3>1. /\ i - Len(q) \in 1..Len(r) /\ j - Len(q) \in 1..Len(r)
          /\ r[i - Len(q)] = r[j - Len(q)]
      BY <1>2, <2>2
    <3>2. i - Len(q) = j - Len(q)
      BY <1>4, <3>1 DEF Once
    <3> QED
      BY <1>1, <3>2
  <2>3. CASE (i \in 1..Len(q)) # (j \in 1..Len(q))
    BY <1>2, <1>4, <2>3
  <2> QED
    BY <2>1, <2>2, <2>3
<1> QED
  BY <1>1, <1>3, <1>4 DEF b

\* A sequence with each element once has as many as it is long.
LEMMA OnceCounts ==
  ASSUME NEW S, NEW q \in Seq(S), Once(q)
  PROVE  IsFiniteSet(Elements(q)) /\ Cardinality(Elements(q)) = Len(q)
<1>1. Len(q) \in Nat /\ q \in [1..Len(q) -> Elements(q)]
  BY DEF Elements
<1>2. q \in Bijection(1..Len(q), Elements(q))
  BY <1>1 DEF Once, Elements, Bijection, Injection, Surjection, IsInjective
<1>3. ExistsBijection(1..Len(q), Elements(q))
  BY <1>2 DEF ExistsBijection
<1>4. IsFiniteSet(1..Len(q)) /\ Cardinality(1..Len(q)) = Len(q)
  BY <1>1, FS_Interval
<1> QED
  BY <1>3, <1>4, FS_Bijection

\* A set of naturals that is not empty has a least element.
LEMMA LeastNat ==
  ASSUME NEW S \in SUBSET Nat, S # {}
  PROVE  \E n \in S : \A m \in S : n <= m
<1>1. IsWellFoundedOn({p \in Nat \X Nat : p[1] < p[2]}, Nat)
  BY NatLessThanWellFounded DEF OpToRel
<1>2. PICK n \in S : \A m \in S : <<m, n>> \notin {p \in Nat \X Nat : p[1] < p[2]}
  BY <1>1, WFMin, Zenon
<1>3. n \in Nat
  OBVIOUS
<1>4. ASSUME NEW m \in S PROVE n <= m
  <2>1. m \in Nat /\ <<m, n>> \in Nat \X Nat
    BY <1>3
  <2>2. ~(m < n)
    BY <1>2, <2>1
  <2> QED
    BY <1>3, <2>1, <2>2
<1> QED
  BY <1>4

-----------------------------------------------------------------------------
(* The sort.                                                                *)

\* What the dependents of a node that is put in order wait for: those for whom it was
\* the last dependency are the ones whose degree is one.
LEMMA ReleasedIs ==
  ASSUME TypeOK, NEW p \in Projects, Sorting(p), NEW name \in Nodes(p), name \notin Ordered(p)
  PROVE  /\ Released(p, name) = {m \in Nodes(p) : Dependencies(p, m) \subseteq Ordered(p) \cup {name}}
                                  \ {m \in Nodes(p) : Dependencies(p, m) \subseteq Ordered(p)}
         /\ \A m \in Nodes(p) :
              LET left == Cardinality(Dependencies(p, m) \ (Ordered(p) \cup {name})) IN
              /\ left \in Nat
              /\ left = IF m \in Dependents(p, name) THEN inDegree[p][m] - 1 ELSE inDegree[p][m]
<1> DEFINE O == Ordered(p)
<1> HIDE DEF O
<1>1. ASSUME NEW m \in Nodes(p)
      PROVE  /\ m \in Released(p, name) <=>
                  Dependencies(p, m) \subseteq O \cup {name} /\ ~(Dependencies(p, m) \subseteq O)
             /\ Cardinality(Dependencies(p, m) \ (O \cup {name})) \in Nat
             /\ Cardinality(Dependencies(p, m) \ (O \cup {name})) =
                  IF m \in Dependents(p, name) THEN inDegree[p][m] - 1 ELSE inDegree[p][m]
  <2> DEFINE W == Dependencies(p, m) \ O
  <2>1. IsFiniteSet(Dependencies(p, m))
    BY PlanFacts
  <2>2. IsFiniteSet(W)
    BY <2>1, FS_Subset
  <2>3. inDegree[p][m] = Cardinality(W)
    BY DEF Sorting, O
  <2>4. m \in Dependents(p, name) <=> name \in W
    BY DEF Dependents, O
  <2>5. Dependencies(p, m) \ (O \cup {name}) = W \ {name}
    OBVIOUS
  <2>6. m \in Released(p, name) <=> name \in W /\ Cardinality(W) = 1
    BY <2>3, <2>4 DEF Released, Dependents
  <2>7. Dependencies(p, m) \subseteq O \cup {name} /\ ~(Dependencies(p, m) \subseteq O) <=> W = {name}
    OBVIOUS
  <2> HIDE DEF W
  <2>8. name \in W /\ Cardinality(W) = 1 <=> W = {name}
    BY <2>2, FS_Singleton
  <2>9. /\ Cardinality(W \ {name}) \in Nat
        /\ Cardinality(W \ {name}) = IF name \in W THEN Cardinality(W) - 1 ELSE Cardinality(W)
    BY <2>2, FS_RemoveElement, FS_CardinalityType
  <2> QED
    BY <2>3, <2>4, <2>5, <2>6, <2>7, <2>8, <2>9
<1>2. Released(p, name) \subseteq Nodes(p)
  BY DEF Released, Dependents
<1> QED
  BY <1>1, <1>2 DEF O

\* The node that leaves the queue is put behind its dependencies.
LEMMA PopBehind ==
  ASSUME TypeOK, NEW p \in Projects, Behind(p), Sorting(p), queue[p] # <<>>
  PROVE  LET name == Head(queue[p])
             o == Append(order[p], name) IN
         /\ name \in Nodes(p) /\ name \notin Ordered(p)
         /\ o \in Seq(Name) /\ Once(o) /\ Elements(o) = Ordered(p) \cup {name}
         /\ \A i \in 1..Len(o) : \A d \in Dependencies(p, o[i]) : \E j \in 1..(i - 1) : o[j] = d
<1> DEFINE name == Head(queue[p])
           o == Append(order[p], name)
<1> HIDE DEF name, o
<1>1. order[p] \in Seq(Name) /\ queue[p] \in Seq(Name)
  BY TypedFromTypeOK DEF Typed
<1>2. name \in Elements(queue[p]) /\ name \in Name
  BY <1>1, TailOnce DEF name
<1>3. name \in Nodes(p) /\ name \notin Ordered(p) /\ Dependencies(p, name) \subseteq Ordered(p)
  BY <1>2 DEF Sorting
<1>4. Elements(order[p]) = Ordered(p) /\ Once(order[p])
  BY DEF Elements, Ordered, Behind
<1>5. /\ o \in Seq(Name) /\ Elements(o) = Ordered(p) \cup {name} /\ Once(o)
  BY <1>1, <1>2, <1>3, <1>4, AppendOnce DEF o
<1>6. /\ Len(order[p]) \in Nat /\ Len(o) = Len(order[p]) + 1 /\ o[Len(order[p]) + 1] = name
      /\ \A i \in 1..Len(order[p]) : o[i] = order[p][i]
  BY <1>1, <1>2 DEF o
<1>7. ASSUME NEW i \in 1..Len(o), NEW d \in Dependencies(p, o[i]) PROVE \E j \in 1..(i - 1) : o[j] = d
  <2>1. CASE i \in 1..Len(order[p])
    <3>1. d \in Dependencies(p, order[p][i])
      BY <1>6, <1>7, <2>1
    <3>2. PICK j \in 1..(i - 1) : order[p][j] = d
      BY <2>1, <3>1 DEF Behind
    <3>3. j \in 1..Len(order[p])
      BY <1>6, <2>1
    <3> QED
      BY <1>6, <3>2, <3>3
  <2>2. CASE i = Len(order[p]) + 1
    <3>1. d \in Ordered(p)
      BY <1>3, <1>6, <1>7, <2>2
    <3>2. PICK j \in 1..Len(order[p]) : order[p][j] = d
      BY <3>1 DEF Ordered
    <3>3. j \in 1..(i - 1)
      BY <1>6, <2>2
    <3> QED
      BY <1>6, <3>2, <3>3
  <2> QED
    BY <1>6, <2>1, <2>2
<1> QED
  BY <1>3, <1>5, <1>7 DEF name, o

\* The rest of the queue and the nodes released are the nodes that can come next.
LEMMA PopQueue ==
  ASSUME TypeOK, NEW p \in Projects, Behind(p), Sorting(p), queue[p] # <<>>,
         NEW r \in Sorted(Released(p, Head(queue[p])))
  PROVE  LET name == Head(queue[p])
             q == Tail(queue[p]) \o r
             O == Ordered(p) \cup {name} IN
         /\ q \in Seq(Name) /\ Once(q) /\ Elements(q) \cap O = {}
         /\ Elements(q) \cup O = {n \in Nodes(p) : Dependencies(p, n) \subseteq O}
<1> DEFINE name == Head(queue[p])
           q == Tail(queue[p]) \o r
           O == Ordered(p) \cup {name}
           T == Elements(Tail(queue[p]))
           R == Released(p, name)
           E == {n \in Nodes(p) : Dependencies(p, n) \subseteq Ordered(p)}
           F == {n \in Nodes(p) : Dependencies(p, n) \subseteq O}
<1>1. queue[p] \in Seq(Name) /\ Nodes(p) \subseteq Name /\ IsFiniteSet(Nodes(p))
  BY PlanFacts, TypedFromTypeOK DEF Typed
<1>2. name \in Nodes(p) /\ name \notin Ordered(p)
  BY PopBehind
<1>3. /\ Tail(queue[p]) \in Seq(Name) /\ Elements(queue[p]) = {name} \cup T
      /\ Once(Tail(queue[p])) /\ name \notin T
  BY <1>1, TailOnce DEF Sorting
<1>4. R = F \ E
  BY <1>2, ReleasedIs
<1>5. R \subseteq Nodes(p) /\ R \in SUBSET Nat /\ IsFiniteSet(R)
  BY <1>1, <1>4, NameAssumption, FS_Subset
<1>6. r \in Seq(R) /\ Elements(r) = R /\ Once(r)
  BY <1>5, SortedIs
<1>7. r \in Seq(Name)
  <2>1. R \subseteq Name
    BY <1>1, <1>5
  <2> HIDE DEF R
  <2> QED
    BY <1>6, <2>1
<1>8. Elements(queue[p]) \cup Ordered(p) = E /\ Elements(queue[p]) \cap Ordered(p) = {}
  BY DEF Sorting
<1>9. T \cap R = {} /\ T \cap Ordered(p) = {} /\ E \subseteq F /\ Ordered(p) \subseteq E /\ name \in E
  BY <1>3, <1>4, <1>8
<1>10. q \in Seq(Name) /\ Elements(q) = T \cup R /\ Once(q)
  <2>1. Elements(Tail(queue[p])) \cap Elements(r) = {}
    BY <1>6, <1>9
  <2>2. /\ q \in Seq(Name) /\ Elements(q) = T \cup Elements(r)
        /\ Once(Tail(queue[p])) /\ Once(r) /\ T \cap Elements(r) = {} => Once(q)
    BY <1>3, <1>7, ConcatOnce
  <2> QED
    BY <1>3, <1>6, <2>1, <2>2
<1>11. Elements(q) \cap O = {}
  BY <1>3, <1>4, <1>9, <1>10
<1>12. Elements(q) \cup O = F
  BY <1>3, <1>4, <1>8, <1>9, <1>10
<1> QED
  BY <1>10, <1>11, <1>12

\* When the queue is empty, either all nodes are in order and no set of them waits for
\* itself, or the others are such a set.
LEMMA SortResult ==
  ASSUME TypeOK, NEW p \in Projects, Behind(p), Sorting(p), queue[p] = <<>>
  PROVE  /\ Len(order[p]) = Cardinality(Nodes(p)) =>
              Ordered(p) = Nodes(p) /\ \A S \in SUBSET Nodes(p) : ~Knot(p, S)
         /\ Len(order[p]) # Cardinality(Nodes(p)) => \E S \in SUBSET Nodes(p) : Knot(p, S)
<1>1. /\ order[p] \in Seq(Name) /\ IsFiniteSet(Nodes(p))
      /\ \A n : Dependencies(p, n) \subseteq Nodes(p)
  BY PlanFacts, TypedFromTypeOK DEF Typed
<1>2. Elements(order[p]) = Ordered(p) /\ Once(order[p]) /\ Ordered(p) \subseteq Nodes(p)
  BY DEF Elements, Ordered, Behind
<1>3. Cardinality(Ordered(p)) = Len(order[p])
  BY <1>1, <1>2, OnceCounts
<1>4. Ordered(p) = {n \in Nodes(p) : Dependencies(p, n) \subseteq Ordered(p)}
  <2>1. Elements(queue[p]) = {}
    BY DEF Elements
  <2> QED
    BY <2>1 DEF Sorting
<1>5. ASSUME Len(order[p]) = Cardinality(Nodes(p))
      PROVE  Ordered(p) = Nodes(p) /\ \A S \in SUBSET Nodes(p) : ~Knot(p, S)
  <2>1. Ordered(p) = Nodes(p)
    BY <1>1, <1>2, <1>3, <1>5, FS_Subset
  <2>2. ASSUME NEW S \in SUBSET Nodes(p), Knot(p, S) PROVE FALSE
    <3> DEFINE I == {i \in 1..Len(order[p]) : order[p][i] \in S}
    <3>1. PICK n \in S : TRUE
      BY <2>2 DEF Knot
    <3>2. \E i \in 1..Len(order[p]) : order[p][i] = n
      BY <2>1 DEF Ordered
    <3>3. I \in SUBSET Nat /\ I # {}
      BY <3>2
    <3>4. PICK i \in I : \A j \in I : i <= j
      BY <3>3, LeastNat
    <3>5. PICK d \in S : d \in Dependencies(p, order[p][i])
      BY <2>2 DEF Knot
    <3>6. PICK j \in 1..(i - 1) : order[p][j] = d
      BY <3>5 DEF Behind
    <3>7. Len(order[p]) \in Nat
      BY <1>1
    <3>8. j \in I /\ j < i
      BY <3>6, <3>7
    <3> QED
      BY <3>4, <3>8
  <2> QED
    BY <2>1, <2>2
<1>6. ASSUME Len(order[p]) # Cardinality(Nodes(p)) PROVE Knot(p, Nodes(p) \ Ordered(p))
  <2>1. Ordered(p) # Nodes(p)
    BY <1>3, <1>6
  <2>2. Nodes(p) \ Ordered(p) # {}
    BY <1>2, <2>1
  <2>3. ASSUME NEW n \in Nodes(p) \ Ordered(p) PROVE Dependencies(p, n) \cap (Nodes(p) \ Ordered(p)) # {}
    BY <1>1, <1>4
  <2> QED
    BY <2>2, <2>3 DEF Knot
<1> QED
  BY <1>5, <1>6

-----------------------------------------------------------------------------
(* Steps.                                                                   *)

\* The plan stays.
LEMMA PlanStays ==
  ASSUME [Next]_vars
  PROVE  plan' = plan
<1>1. ASSUME NEW p \in Projects, ProjectStep(p) PROVE plan' = plan
  BY <1>1 DEF ProjectStep, CompileStep, NoTargetGiven, TemplateFails, BuildDAG, Pop, SortEnds,
              SelectNodes, ExecuteBegins, ExecuteEnds, Collect, SendError, Release
<1>2. ASSUME NEW p \in Projects, CompileNext(p) \/ Spawn(p) PROVE plan' = plan
  BY <1>2 DEF CompileNext, Spawn
<1>3. ASSUME LoadFails \/ Load \/ CompileFailed \/ AllCompiled \/ SingleDone \/ PoolDone
      PROVE  plan' = plan
  BY <1>3 DEF LoadFails, Load, CompileFailed, AllCompiled, SingleDone, PoolDone, Return
<1>4. CASE UNCHANGED vars
  BY <1>4 DEF vars
<1> QED
  BY <1>1, <1>2, <1>3, <1>4 DEF Next, MainStep, Over

\* The steps of a project: its own, and those by which main starts it.
StepOf(p) == ProjectStep(p) \/ CompileNext(p) \/ Spawn(p)

\* The other steps of main.
MainOnly == LoadFails \/ Load \/ CompileFailed \/ AllCompiled \/ SingleDone \/ PoolDone

LEMMA Steps ==
  ASSUME [Next]_vars
  PROVE  (\E p \in Projects : StepOf(p)) \/ MainOnly \/ UNCHANGED vars
BY DEF Next, MainStep, Over, StepOf, MainOnly

\* What main's own steps leave.
LEMMA MainLeaves ==
  ASSUME MainOnly \/ UNCHANGED vars
  PROVE  UNCHANGED <<plan, pc, sortVars, selected, err, sem, errCh>>
BY DEF MainOnly, LoadFails, Load, CompileFailed, AllCompiled, SingleDone, PoolDone, Return,
       poolVars, vars

\* How a project goes from place to place.
LEMMA Moves ==
  ASSUME TypeOK, NEW p \in Projects, StepOf(p)
  PROVE  /\ \A q \in Projects \ {p} : pc'[q] = pc[q] /\ err'[q] = err[q]
         /\ \/ pc[p] = "idle" /\ pc'[p] = "resolve" /\ err'[p] = err[p]
            \/ pc[p] = "resolve" /\ pc'[p] = "failed" /\ err'[p] \in {"target", "template"}
            \/ pc[p] = "resolve" /\ pc'[p] = "sort" /\ err'[p] = err[p]
            \/ pc[p] = "sort" /\ pc'[p] = "sort" /\ err'[p] = err[p]
            \/ pc[p] = "sort" /\ pc'[p] = "failed" /\ err'[p] = "cycle"
            \/ pc[p] = "sort" /\ pc'[p] = "select" /\ err'[p] = err[p]
            \/ pc[p] = "select" /\ pc'[p] = "failed" /\ err'[p] = "selector"
            \/ pc[p] = "select" /\ pc'[p] = "compiled" /\ err'[p] = err[p]
            \/ pc[p] = "compiled" /\ pc'[p] = "execute" /\ err'[p] = err[p]
            \/ pc[p] = "execute" /\ pc'[p] = "collect" /\ err'[p] \in {err[p], "execute"}
            \/ pc[p] = "collect" /\ err'[p] = err[p]
                 /\ pc'[p] = (IF err[p] = "none" THEN "release" ELSE "failed")
            \/ pc[p] = "failed" /\ pc'[p] = "release" /\ err'[p] = err[p]
            \/ pc[p] = "release" /\ pc'[p] = "done" /\ err'[p] = err[p]
<1>0. pc \in [Projects -> Label] /\ err \in [Projects -> Reason]
  BY TypedFromTypeOK DEF Typed
<1>1. CASE CompileNext(p) \/ Spawn(p)
  BY <1>0, <1>1 DEF CompileNext, Spawn, Goto
<1>2. CASE NoTargetGiven(p) \/ TemplateFails(p)
  BY <1>0, <1>2 DEF NoTargetGiven, TemplateFails, Goto, Fail
<1>3. CASE BuildDAG(p)
  BY <1>0, <1>3 DEF BuildDAG, Goto
<1>4. CASE Pop(p)
  BY <1>0, <1>4 DEF Pop
<1>5. CASE SortEnds(p)
  BY <1>0, <1>5 DEF SortEnds, Goto, Fail
<1>6. CASE SelectNodes(p)
  BY <1>0, <1>6 DEF SelectNodes, Goto, Fail
<1>7. CASE ExecuteBegins(p)
  BY <1>0, <1>7 DEF ExecuteBegins, Goto
<1>8. CASE ExecuteEnds(p)
  BY <1>0, <1>8 DEF ExecuteEnds, Goto
<1>9. CASE Collect(p)
  BY <1>0, <1>9 DEF Collect, Goto
<1>10. CASE SendError(p) \/ Release(p)
  BY <1>0, <1>10 DEF SendError, Release, Goto
<1> QED
  BY <1>1, <1>2, <1>3, <1>4, <1>5, <1>6, <1>7, <1>8, <1>9, <1>10
     DEF StepOf, ProjectStep, CompileStep

\* The errors are those of the places.
LEMMA ErrorsStep ==
  ASSUME TypeOK, Errors, [Next]_vars
  PROVE  Errors'
<1>0. plan' = plan /\ Projects' = Projects
  BY PlanStays DEF Projects
<1>1. ASSUME NEW p \in Projects, StepOf(p) PROVE Errors'
  BY <1>0, <1>1, Moves DEF Errors
<1>2. CASE MainOnly \/ UNCHANGED vars
  <2>1. pc' = pc /\ err' = err
    BY <1>2, MainLeaves
  <2> QED
    BY <1>0, <2>1 DEF Errors
<1> QED
  BY <1>1, <1>2, Steps

\* Main waits for the projects it has started.
LEMMA StagesStep ==
  ASSUME TypeOK, Stages, [Next]_vars
  PROVE  Stages'
<1>0. /\ plan' = plan /\ Projects' = Projects /\ (Pooled' <=> Pooled)
      /\ plan.command \in {"run", "list", "compile"}
  BY PlanStays, PlanFacts DEF Projects, Pooled
<1>1. ASSUME NEW p \in Projects, StepOf(p) PROVE Stages'
  <2>1. main' = main /\ result' = result
    BY <1>1 DEF StepOf, CompileNext, Spawn, ProjectStep, CompileStep, NoTargetGiven, TemplateFails,
         BuildDAG, Pop, SortEnds, SelectNodes, ExecuteBegins, ExecuteEnds, Collect, SendError, Release
  <2>2. pc[p] # "idle" \/ main \in {"compile", "pool"}
    BY <1>1, Moves DEF StepOf, CompileNext, Spawn, ProjectStep, CompileStep, NoTargetGiven, TemplateFails,
         BuildDAG, Pop, SortEnds, SelectNodes, ExecuteBegins, ExecuteEnds, Collect, SendError, Release
  <2>3. pc[p] # "done"
    BY <1>1, Moves
  <2>4. main # "load" /\ ~(Pooled /\ main = "done")
    BY <2>2, <2>3 DEF Stages
  <2>5. ASSUME ~Pooled PROVE pc'[p] \notin {"release", "done"}
    <3>1. main # "pool" /\ pc[p] \notin {"release", "done"}
      BY <2>5 DEF Stages
    <3>2. ~Collect(p) /\ ~SendError(p) /\ ~Release(p)
      BY <3>1 DEF Collect, SendError, Release
    <3>3. pc[p] \notin {"collect", "failed"}
      BY <1>1, <3>2 DEF StepOf, CompileNext, Spawn, ProjectStep, CompileStep, NoTargetGiven, TemplateFails,
         BuildDAG, Pop, SortEnds, SelectNodes, ExecuteBegins, ExecuteEnds
    <3> QED
      BY <1>1, <3>1, <3>3, Moves
  <2>6. \A q \in Projects \ {p} : pc'[q] = pc[q]
    BY <1>1, Moves
  <2> QED
    BY <1>0, <2>1, <2>4, <2>5, <2>6 DEF Stages
<1>2. CASE MainOnly
  <2>1. pc' = pc
    BY <1>2, MainLeaves
  <2>2. CASE LoadFails \/ Load \/ PoolDone
    BY <1>0, <2>1, <2>2 DEF LoadFails, Load, PoolDone, Return, Stages, Pooled
  <2>3. CASE CompileFailed \/ AllCompiled \/ SingleDone
    BY <1>0, <2>1, <2>3 DEF CompileFailed, AllCompiled, SingleDone, Return, Stages
  <2> QED
    BY <1>2, <2>2, <2>3 DEF MainOnly
<1>3. CASE UNCHANGED vars
  BY <1>0, <1>3 DEF vars, Stages
<1> QED
  BY <1>1, <1>2, <1>3, Steps

\* Projects that are run by the pool move while main waits for them.
LEMMA PoolSteps ==
  ASSUME TypeOK, Stages, Pooled, NEW p \in Projects, StepOf(p)
  PROVE  main = "pool" /\ main' = "pool" /\ result' = result
<1>1. main' = main /\ result' = result
  BY DEF StepOf, CompileNext, Spawn, ProjectStep, CompileStep, NoTargetGiven, TemplateFails,
         BuildDAG, Pop, SortEnds, SelectNodes, ExecuteBegins, ExecuteEnds, Collect, SendError, Release
<1>2. main # "load" \/ pc[p] = "idle"
  BY DEF Stages
<1>3. main # "done" \/ pc[p] \in {"idle", "done"}
  BY DEF Stages
<1>4. pc[p] # "done"
  BY Moves
<1>5. pc[p] = "idle" => main \in {"compile", "pool"}
  BY DEF StepOf, CompileNext, Spawn, ProjectStep, CompileStep, NoTargetGiven, TemplateFails,
         BuildDAG, Pop, SortEnds, SelectNodes, ExecuteBegins, ExecuteEnds, Collect, SendError, Release
<1>6. main \in {"load", "pool", "done"}
  BY DEF Stages
<1> QED
  BY <1>1, <1>2, <1>3, <1>4, <1>5, <1>6

\* The semaphore counts the projects at work, and there are never more than it allows.
LEMMA SlotsStep ==
  ASSUME TypeOK, Stages, Slots, [Next]_vars
  PROVE  Slots'
<1>0. plan' = plan /\ Projects' = Projects /\ (Pooled' <=> Pooled) /\ Threads' = Threads
  BY PlanStays DEF Projects, Pooled, Threads
<1>1. Threads \in Nat /\ sem \in Nat /\ pc \in [Projects -> Label]
  BY PlanFacts DEF Threads, TypeOK
<1>2. IsFiniteSet(Working)
  BY PlanFacts, FS_Subset DEF Working
<1> SUFFICES ASSUME Pooled PROVE sem' = Cardinality(Working') /\ sem' <= Threads
  BY <1>0 DEF Slots
<1>3. sem = Cardinality(Working) /\ sem <= Threads
  BY DEF Slots
<1>4. ASSUME NEW p \in Projects, Spawn(p) PROVE sem' = Cardinality(Working') /\ sem' <= Threads
  <2>1. StepOf(p)
    BY <1>4 DEF StepOf
  <2>2. /\ pc[p] = "idle" /\ pc'[p] = "resolve" /\ \A q \in Projects \ {p} : pc'[q] = pc[q]
        /\ sem' = sem + 1 /\ sem < Threads
    BY <1>1, <1>4 DEF Spawn, Goto
  <2>3. Working' = Working \cup {p} /\ p \notin Working
    BY <1>0, <2>2 DEF Working
  <2>4. Cardinality(Working') = Cardinality(Working) + 1
    BY <1>2, <2>3, FS_AddElement
  <2> QED
    BY <1>1, <1>3, <2>2, <2>4
<1>5. ASSUME NEW p \in Projects, Release(p) PROVE sem' = Cardinality(Working') /\ sem' <= Threads
  <2>1. /\ pc[p] = "release" /\ pc'[p] = "done" /\ \A q \in Projects \ {p} : pc'[q] = pc[q]
        /\ sem' = sem - 1
    BY <1>1, <1>5 DEF Release, Goto
  <2>2. Working' = Working \ {p} /\ p \in Working
    BY <1>0, <2>1 DEF Working
  <2>3. Cardinality(Working') = Cardinality(Working) - 1
    BY <1>2, <2>2, FS_RemoveElement
  <2> QED
    BY <1>1, <1>3, <2>1, <2>3
<1>6. ASSUME NEW p \in Projects, StepOf(p), ~Spawn(p), ~Release(p)
      PROVE  sem' = Cardinality(Working') /\ sem' <= Threads
  <2>1. ~CompileNext(p)
    BY <1>6, PoolSteps DEF CompileNext
  <2>2. sem' = sem /\ pc[p] # "idle"
    BY <1>6, <2>1 DEF StepOf, ProjectStep, CompileStep, NoTargetGiven, TemplateFails,
       BuildDAG, Pop, SortEnds, SelectNodes, ExecuteBegins, ExecuteEnds, Collect, SendError, poolVars
  <2>3. pc[p] # "release"
    BY <1>6, <2>1 DEF StepOf, ProjectStep, CompileStep, NoTargetGiven, TemplateFails,
       BuildDAG, Pop, SortEnds, SelectNodes, ExecuteBegins, ExecuteEnds, Collect, SendError
  <2>4. pc'[p] \notin {"idle", "done"} /\ pc[p] # "done" /\ \A q \in Projects \ {p} : pc'[q] = pc[q]
    BY <1>6, <2>2, <2>3, Moves
  <2>5. Working' = Working
    BY <1>0, <2>2, <2>4 DEF Working
  <2> QED
    BY <1>3, <2>2, <2>5
<1>7. CASE MainOnly \/ UNCHANGED vars
  <2>1. pc' = pc /\ sem' = sem
    BY <1>7, MainLeaves
  <2>2. Working' = Working
    BY <1>0, <2>1 DEF Working
  <2> QED
    BY <1>3, <2>1, <2>2
<1> QED
  BY <1>4, <1>5, <1>6, <1>7, Steps

\* The pool keeps the projects that got as far as being executed, and the errors.
LEMMA KeptStep ==
  ASSUME TypeOK, Stages, Errors, Kept, [Next]_vars
  PROVE  Kept'
<1>0. plan' = plan /\ Projects' = Projects /\ (Pooled' <=> Pooled)
  BY PlanStays DEF Projects, Pooled
<1>1. /\ subBuilds \in Seq(Projects) /\ pc \in [Projects -> Label] /\ err \in [Projects -> Reason]
      /\ Projects \subseteq Nat /\ IsFiniteSet(Projects)
  BY PlanFacts DEF TypeOK
<1> SUFFICES ASSUME Pooled PROVE Kept'
  BY <1>0 DEF Kept
<1> DEFINE had == {p \in Projects : pc[p] \in {"failed", "release", "done"} /\ err[p] \in {"none", "execute"}}
           bad == {p \in Projects : pc[p] \in {"release", "done"} /\ err[p] # "none"}
           had2 == {p \in Projects : pc'[p] \in {"failed", "release", "done"} /\ err'[p] \in {"none", "execute"}}
           bad2 == {p \in Projects : pc'[p] \in {"release", "done"} /\ err'[p] # "none"}
<1>2. Elements(subBuilds) = had /\ errCh = bad
  BY DEF Kept
<1>3. ASSUME NEW p \in Projects, StepOf(p) PROVE Kept'
  <2>1. main = "pool" /\ main' = "pool"
    BY <1>3, PoolSteps
  <2>2. \A q \in Projects \ {p} : pc'[q] = pc[q] /\ err'[q] = err[q]
    BY <1>3, Moves
  <2>3. Elements(subBuilds') = had2
    <3>1. CASE Collect(p)
      <4>1. subBuilds' = Append(subBuilds, p)
        BY <3>1 DEF Collect, Collected
      <4>2. Elements(Append(subBuilds, p)) = Elements(subBuilds) \cup {p}
        BY <1>1, AppendOnce
      <4>3. pc[p] = "collect" /\ pc'[p] \in {"failed", "release"} /\ err'[p] = err[p]
        BY <1>1, <3>1 DEF Collect, Goto
      <4>4. err[p] \in {"none", "execute"}
        BY <4>3 DEF Errors
      <4>5. had2 = had \cup {p}
        BY <2>2, <4>3, <4>4
      <4> QED
        BY <1>2, <4>1, <4>2, <4>5
    <3>2. CASE ~Collect(p)
      <4>1. subBuilds' = subBuilds /\ pc[p] # "collect"
        BY <1>3, <2>1, <3>2 DEF StepOf, CompileNext, Spawn, ProjectStep, CompileStep, NoTargetGiven, TemplateFails,
           BuildDAG, Pop, SortEnds, SelectNodes, ExecuteBegins, ExecuteEnds, SendError, Release, poolVars
      <4>2. p \in had2 <=> p \in had
        <5>1. pc[p] \in {"idle", "resolve", "sort", "select", "compiled", "execute"} => err[p] = "none"
          BY DEF Errors
        <5> QED
          BY <1>3, <4>1, <5>1, Moves
      <4>3. had2 = had
        BY <2>2, <4>2
      <4> QED
        BY <1>2, <4>1, <4>3
    <3> QED
      BY <3>1, <3>2
  <2>4. errCh' = bad2
    <3>1. CASE SendError(p)
      <4>1. errCh' = errCh \cup {p}
        BY <3>1 DEF SendError
      <4>2. pc[p] = "failed" /\ pc'[p] = "release" /\ err'[p] = err[p]
        BY <1>1, <3>1 DEF SendError, Goto
      <4>3. err[p] # "none"
        BY <4>2 DEF Errors
      <4>4. bad2 = bad \cup {p}
        BY <2>2, <4>2, <4>3
      <4> QED
        BY <1>2, <4>1, <4>4
    <3>2. CASE ~SendError(p)
      <4>1. errCh' = errCh /\ pc[p] # "failed"
        BY <1>3, <2>1, <3>2 DEF StepOf, CompileNext, Spawn, ProjectStep, CompileStep, NoTargetGiven, TemplateFails,
           BuildDAG, Pop, SortEnds, SelectNodes, ExecuteBegins, ExecuteEnds, Collect, Release, poolVars
      <4>2. p \in bad2 <=> p \in bad
        BY <1>3, <4>1, Moves
      <4>3. bad2 = bad
        BY <2>2, <4>2
      <4> QED
        BY <1>2, <4>1, <4>3
    <3> QED
      BY <3>1, <3>2
  <2> QED
    BY <1>0, <2>1, <2>3, <2>4 DEF Kept
<1>4. CASE MainOnly
  <2>1. pc' = pc /\ err' = err /\ errCh' = errCh
    BY <1>4, MainLeaves
  <2>2. had2 = had /\ bad2 = bad
    BY <2>1
  <2>3. CASE PoolDone
    <3>1. PICK q \in Sorted(Elements(subBuilds)) : subBuilds' = q
      BY <2>3 DEF PoolDone, Elements
    <3>2. Elements(subBuilds) \in SUBSET Nat /\ IsFiniteSet(Elements(subBuilds))
      <4>1. Elements(subBuilds) \subseteq Projects
        BY <1>2
      <4> QED
        BY <1>1, <4>1, FS_Subset
    <3>3. Elements(q) = Elements(subBuilds) /\ \A i, j \in 1..Len(q) : i < j => q[i] < q[j]
      BY <3>2, SortedIs
    <3>4. result' = IF errCh' = {} THEN "nil" ELSE "err"
      BY <2>1, <2>3 DEF PoolDone, Return
    <3>5. Elements(subBuilds') = had2 /\ errCh' = bad2
      BY <1>2, <2>1, <2>2, <3>1, <3>3
    <3>6. \A i, j \in 1..Len(subBuilds') : i < j => subBuilds'[i] < subBuilds'[j]
      BY <3>1, <3>3
    <3> QED
      BY <1>0, <3>4, <3>5, <3>6 DEF Kept
  <2>4. CASE LoadFails \/ Load
    <3>1. subBuilds' = subBuilds /\ main = "load"
      BY <2>4 DEF LoadFails, Load, poolVars
    <3>2. \A p \in Projects : pc'[p] = "idle"
      BY <2>1, <3>1 DEF Stages
    <3>3. Elements(subBuilds') = had2 /\ errCh' = bad2
      BY <1>2, <2>1, <2>2, <3>1
    <3> QED
      BY <1>0, <3>2, <3>3 DEF Kept
  <2>5. CASE CompileFailed \/ AllCompiled \/ SingleDone
    <3>1. main \in {"compile", "single"}
      BY <2>5 DEF CompileFailed, AllCompiled, SingleDone
    <3> QED
      BY <3>1 DEF Stages
  <2> QED
    BY <1>4, <2>3, <2>4, <2>5 DEF MainOnly
<1>5. CASE UNCHANGED vars
  <2>1. UNCHANGED <<pc, err, errCh, subBuilds, main, result>>
    BY <1>5 DEF vars, poolVars
  <2> QED
    BY <1>0, <2>1 DEF Kept
<1> QED
  BY <1>3, <1>4, <1>5, Steps

\* What follows from the plan and the order of the nodes stays with them.
LEMMA GraphStays ==
  ASSUME plan' = plan, NEW p \in Projects, order'[p] = order[p]
  PROVE  /\ Nodes(p)' = Nodes(p) /\ \A n : Dependencies(p, n)' = Dependencies(p, n)
         /\ Ordered(p)' = Ordered(p) /\ (Behind(p)' <=> Behind(p))
         /\ \A S : Knot(p, S)' <=> Knot(p, S)
         /\ (SelectorFails(p)' <=> SelectorFails(p)) /\ Apply(p)' = Apply(p)
<1>1. Nodes(p)' = Nodes(p) /\ \A n : Dependencies(p, n)' = Dependencies(p, n)
  BY DEF Nodes, Dependencies
<1>2. Ordered(p)' = Ordered(p)
  BY DEF Ordered
<1>3. Behind(p)' <=> Behind(p)
  <2>1. Once(order[p])' <=> Once(order[p])
    BY DEF Once
  <2>2. (Ordered(p) \subseteq Nodes(p))' <=> Ordered(p) \subseteq Nodes(p)
    BY <1>1, <1>2
  <2>3. (\A i \in 1..Len(order[p]) : \A d \in Dependencies(p, order[p][i]) :
           \E j \in 1..(i - 1) : order[p][j] = d)'
        <=> \A i \in 1..Len(order[p]) : \A d \in Dependencies(p, order[p][i]) :
              \E j \in 1..(i - 1) : order[p][j] = d
    BY DEF Dependencies, Nodes
  <2> QED
    BY <2>1, <2>2, <2>3 DEF Behind
<1>4. \A S : Knot(p, S)' <=> Knot(p, S)
  BY <1>1 DEF Knot
<1>5. SelectorFails(p)' <=> SelectorFails(p)
  BY <1>1 DEF SelectorFails, Invalid
<1>6. UpEdges(p)' = UpEdges(p)
  BY <1>1 DEF UpEdges
<1>7. DownEdges(p)' = DownEdges(p)
  BY <1>1 DEF DownEdges, Dependents
<1>8. \A pat : MatchPattern(p, pat)' = MatchPattern(p, pat)
  BY <1>1, <1>6, <1>7 DEF MatchPattern, Slice
<1>9. Matched(p, plan.select)' = Matched(p, plan.select) /\ Matched(p, plan.exclude)' = Matched(p, plan.exclude)
  BY <1>8 DEF Matched
<1>10. Apply(p)' = Apply(p)
  BY <1>2, <1>9 DEF Apply
<1> QED
  BY <1>1, <1>2, <1>3, <1>4, <1>5, <1>10

\* A step that leaves the order of a project and does not stop in the sort.
LEMMA GraphKept ==
  ASSUME plan' = plan, NEW p \in Projects, Graph(p), order'[p] = order[p],
         pc'[p] \in {"idle", "resolve"} => pc[p] \in {"idle", "resolve"},
         pc'[p] # "sort", SortDone(p)' => SortDone(p), err'[p] = "cycle" => err[p] = "cycle",
         pc'[p] = "compiled" => ~SelectorFails(p) /\ selected'[p] \in Apply(p)
  PROVE  Graph(p)'
<1>1. Behind(p)'
  BY GraphStays DEF Graph
<1>2. pc'[p] \in {"idle", "resolve"} => order'[p] = <<>>
  BY DEF Graph
<1>3. SortDone(p)' => Ordered(p)' = Nodes(p)' /\ (\A S \in SUBSET Nodes(p) : ~Knot(p, S))'
  BY GraphStays DEF Graph
<1>4. err'[p] = "cycle" => (\E S \in SUBSET Nodes(p) : Knot(p, S))'
  BY GraphStays DEF Graph
<1>5. pc'[p] = "compiled" => ~SelectorFails(p)' /\ selected'[p] \in Apply(p)'
  BY GraphStays
<1> QED
  BY <1>1, <1>2, <1>3, <1>4, <1>5 DEF Graph

\* What a step of a project leaves of the others.
LEMMA OthersStay ==
  ASSUME TypeOK, NEW p \in Projects, StepOf(p), NEW q \in Projects \ {p}
  PROVE  /\ pc'[q] = pc[q] /\ err'[q] = err[q] /\ order'[q] = order[q] /\ queue'[q] = queue[q]
         /\ inDegree'[q] = inDegree[q] /\ selected'[q] = selected[q]
<1>1. pc'[q] = pc[q] /\ err'[q] = err[q]
  BY Moves
<1>2. Typed
  BY TypedFromTypeOK
<1>3. CASE BuildDAG(p)
  BY <1>1, <1>2, <1>3 DEF BuildDAG, Typed
<1>4. CASE Pop(p)
  BY <1>1, <1>2, <1>4 DEF Pop, Typed
<1>5. CASE SelectNodes(p)
  BY <1>1, <1>2, <1>5 DEF SelectNodes, sortVars, Typed
<1>6. CASE ~BuildDAG(p) /\ ~Pop(p) /\ ~SelectNodes(p)
  BY <1>1, <1>6 DEF StepOf, CompileNext, Spawn, ProjectStep, CompileStep, NoTargetGiven, TemplateFails,
     SortEnds, ExecuteBegins, ExecuteEnds, Collect, SendError, Release, sortVars
<1> QED
  BY <1>3, <1>4, <1>5, <1>6

\* The graph of a project whose variables stay.
LEMMA GraphSame ==
  ASSUME plan' = plan, NEW p \in Projects, Graph(p), pc'[p] = pc[p], err'[p] = err[p],
         order'[p] = order[p], queue'[p] = queue[p], inDegree'[p] = inDegree[p],
         selected'[p] = selected[p]
  PROVE  Graph(p)'
<1>1. CASE pc[p] # "sort"
  BY <1>1, GraphKept DEF Graph, SortDone
<1>2. CASE pc[p] = "sort"
  <2>1. Sorting(p)'
    <3>1. Sorting(p)
      BY <1>2 DEF Graph
    <3>2. Elements(queue[p])' = Elements(queue[p]) /\ (Once(queue[p])' <=> Once(queue[p]))
      BY DEF Elements, Once
    <3>3. /\ Nodes(p)' = Nodes(p) /\ Ordered(p)' = Ordered(p)
          /\ \A n : Dependencies(p, n)' = Dependencies(p, n)
      BY GraphStays
    <3> QED
      BY <3>1, <3>2, <3>3 DEF Sorting
  <2>2. Behind(p)'
    BY GraphStays DEF Graph
  <2>3. SortDone(p)' => Ordered(p)' = Nodes(p)' /\ (\A S \in SUBSET Nodes(p) : ~Knot(p, S))'
    BY GraphStays DEF Graph, SortDone
  <2>4. err'[p] = "cycle" => (\E S \in SUBSET Nodes(p) : Knot(p, S))'
    BY GraphStays DEF Graph
  <2> QED
    BY <1>2, <2>1, <2>2, <2>3, <2>4 DEF Graph
<1> QED
  BY <1>1, <1>2

\* The graph is built: the nodes without dependencies are in the queue.
LEMMA BuildDAGSorts ==
  ASSUME TypeOK, Errors, plan' = plan, NEW p \in Projects, Graph(p), BuildDAG(p)
  PROVE  Graph(p)'
<1>1. pc[p] = "resolve" /\ pc'[p] = "sort" /\ order' = order /\ err' = err
  BY TypedFromTypeOK DEF BuildDAG, Goto, Typed
<1>2. order[p] = <<>> /\ err[p] = "none" /\ Behind(p)
  BY <1>1 DEF Graph, Errors
<1>3. Ordered(p) = {} /\ Ordered(p)' = {}
  BY <1>1, <1>2 DEF Ordered
<1> DEFINE S == {n \in Nodes(p) : Dependencies(p, n) = {}}
<1>4. PICK q \in Sorted(S) : queue' = [queue EXCEPT ![p] = q]
  BY DEF BuildDAG
<1>5. IsFiniteSet(S) /\ S \in SUBSET Nat
  BY PlanFacts, FS_Subset, NameAssumption
<1>6. Elements(q) = S /\ Once(q)
  BY <1>5, SortedIs
<1>7. queue'[p] = q
  BY <1>4, TypedFromTypeOK DEF Typed
<1>8. \A n \in Nodes(p) : inDegree'[p][n] = Cardinality(Dependencies(p, n))
  BY PlanFacts, TypedFromTypeOK DEF BuildDAG, Typed
<1>9. Nodes(p)' = Nodes(p) /\ \A n : Dependencies(p, n)' = Dependencies(p, n)
  BY <1>1, GraphStays
<1>10. Sorting(p)'
  <2>1. Once(queue[p])' /\ Elements(queue[p])' = S
    BY <1>6, <1>7 DEF Once, Elements
  <2>2. S = {n \in Nodes(p) : Dependencies(p, n) \subseteq {}}
    OBVIOUS
  <2>3. \A n \in Nodes(p) : inDegree'[p][n] = Cardinality(Dependencies(p, n) \ {})
    <3>1. \A n \in Nodes(p) : Dependencies(p, n) \ {} = Dependencies(p, n)
      OBVIOUS
    <3> QED
      BY <1>8, <3>1
  <2> HIDE DEF S
  <2>4. (Elements(queue[p]) \cup Ordered(p) = {n \in Nodes(p) : Dependencies(p, n) \subseteq Ordered(p)})'
    BY <1>3, <1>9, <2>1, <2>2
  <2>5. (\A n \in Nodes(p) : inDegree[p][n] = Cardinality(Dependencies(p, n) \ Ordered(p)))'
    BY <1>3, <1>9, <2>3
  <2> QED
    BY <1>3, <2>1, <2>4, <2>5 DEF Sorting
<1>11. Behind(p)'
  BY <1>1, <1>2, GraphStays
<1> QED
  BY <1>1, <1>2, <1>10, <1>11 DEF Graph, SortDone

\* A turn of the loop keeps the degrees, the queue and the order right.
LEMMA PopSorts ==
  ASSUME TypeOK, Errors, plan' = plan, NEW p \in Projects, Graph(p), Pop(p)
  PROVE  Graph(p)'
<1> DEFINE name == Head(queue[p])
<1>1. /\ pc[p] = "sort" /\ queue[p] # <<>> /\ pc' = pc /\ err' = err
      /\ Behind(p) /\ Sorting(p) /\ err[p] = "none"
  BY DEF Pop, Graph, Errors
<1>2. order'[p] = Append(order[p], name)
  BY TypedFromTypeOK DEF Pop, Typed
<1>3. PICK r \in Sorted(Released(p, name)) : queue'[p] = Tail(queue[p]) \o r
  BY TypedFromTypeOK DEF Pop, Typed
<1>4. \A n \in Name : inDegree'[p][n] =
        IF n \in Dependents(p, name) THEN inDegree[p][n] - 1 ELSE inDegree[p][n]
  BY TypedFromTypeOK DEF Pop, Typed
<1> DEFINE O == Ordered(p) \cup {name}
<1>5. /\ name \in Nodes(p) /\ name \notin Ordered(p)
      /\ Once(order'[p]) /\ Elements(order'[p]) = O
      /\ \A i \in 1..Len(order'[p]) : \A d \in Dependencies(p, order'[p][i]) :
           \E j \in 1..(i - 1) : order'[p][j] = d
  <2>1. queue[p] # <<>> /\ Behind(p) /\ Sorting(p)
    BY <1>1
  <2>2. name \in Nodes(p) /\ name \notin Ordered(p)
    BY <2>1, PopBehind
  <2> DEFINE o == Append(order[p], name)
  <2>3. Once(o)
    BY <2>1, PopBehind
  <2>4. Elements(o) = O
    BY <2>1, PopBehind
  <2>5. \A i \in 1..Len(o) : \A d \in Dependencies(p, o[i]) : \E j \in 1..(i - 1) : o[j] = d
    BY <2>1, PopBehind
  <2> HIDE DEF o
  <2>6. order'[p] = o
    BY <1>2 DEF o
  <2> QED
    BY <2>2, <2>3, <2>4, <2>5, <2>6
<1>6. /\ Once(queue'[p]) /\ Elements(queue'[p]) \cap O = {}
      /\ Elements(queue'[p]) \cup O = {n \in Nodes(p) : Dependencies(p, n) \subseteq O}
  <2>1. queue[p] # <<>> /\ Behind(p) /\ Sorting(p)
    BY <1>1
  <2> DEFINE q == Tail(queue[p]) \o r
  <2>2. Once(q)
    BY <2>1, PopQueue
  <2>3. Elements(q) \cap O = {}
    BY <2>1, PopQueue
  <2>4. Elements(q) \cup O = {n \in Nodes(p) : Dependencies(p, n) \subseteq O}
    BY <2>1, PopQueue
  <2> HIDE DEF q
  <2>5. queue'[p] = q
    BY <1>3 DEF q
  <2> QED
    BY <2>2, <2>3, <2>4, <2>5
<1>7. \A n \in Nodes(p) : inDegree'[p][n] = Cardinality(Dependencies(p, n) \ O)
  BY <1>1, <1>4, <1>5, ReleasedIs, PlanFacts
<1>8. Nodes(p)' = Nodes(p) /\ \A n : Dependencies(p, n)' = Dependencies(p, n)
  BY DEF Nodes, Dependencies
<1>9. Ordered(p)' = O
  BY <1>5 DEF Ordered, Elements
<1> HIDE DEF O, name
<1>10. Behind(p)'
  <2>1. Once(order[p])'
    BY <1>5 DEF Once
  <2>2. O \subseteq Nodes(p)
    BY <1>1, <1>5 DEF O, Behind
  <2>3. (\A i \in 1..Len(order[p]) : \A d \in Dependencies(p, order[p][i]) :
           \E j \in 1..(i - 1) : order[p][j] = d)'
    BY <1>5, <1>8
  <2> QED
    BY <1>8, <1>9, <2>1, <2>2, <2>3 DEF Behind
<1>11. Sorting(p)'
  <2>1. Once(queue[p])' /\ Elements(queue[p])' = Elements(queue'[p])
    BY <1>6 DEF Once, Elements
  <2>2. (Elements(queue[p]) \cup Ordered(p) = {n \in Nodes(p) : Dependencies(p, n) \subseteq Ordered(p)})'
    BY <1>6, <1>8, <1>9, <2>1
  <2>3. (\A n \in Nodes(p) : inDegree[p][n] = Cardinality(Dependencies(p, n) \ Ordered(p)))'
    BY <1>7, <1>8, <1>9
  <2> QED
    BY <1>6, <1>9, <2>1, <2>2, <2>3 DEF Sorting
<1> QED
  BY <1>1, <1>10, <1>11 DEF Graph, SortDone

\* The order is complete, or the project is refused and has a cycle.
LEMMA SortEndsWell ==
  ASSUME TypeOK, Errors, plan' = plan, NEW p \in Projects, Graph(p), SortEnds(p)
  PROVE  Graph(p)'
<1>1. /\ pc[p] = "sort" /\ queue[p] = <<>> /\ order'[p] = order[p]
      /\ Behind(p) /\ Sorting(p) /\ err[p] = "none"
  BY DEF SortEnds, sortVars, Graph, Errors
<1>2. Behind(p)'
  BY <1>1, GraphStays
<1>3. CASE Len(order[p]) # Cardinality(Nodes(p))
  <2>1. pc'[p] = "failed" /\ err'[p] = "cycle"
    BY <1>3, TypedFromTypeOK DEF SortEnds, Fail, Goto, Typed
  <2>2. \E S \in SUBSET Nodes(p) : Knot(p, S)
    BY <1>1, <1>3, SortResult
  <2>3. (\E S \in SUBSET Nodes(p) : Knot(p, S))'
    BY <1>1, <2>2, GraphStays
  <2> QED
    BY <1>2, <2>1, <2>3 DEF Graph, SortDone
<1>4. CASE Len(order[p]) = Cardinality(Nodes(p))
  <2>1. pc'[p] = "select" /\ err'[p] = "none"
    BY <1>1, <1>4, TypedFromTypeOK DEF SortEnds, Goto, Typed
  <2>2. Ordered(p) = Nodes(p) /\ \A S \in SUBSET Nodes(p) : ~Knot(p, S)
    BY <1>1, <1>4, SortResult
  <2>3. Ordered(p)' = Nodes(p)' /\ (\A S \in SUBSET Nodes(p) : ~Knot(p, S))'
    BY <1>1, <2>2, GraphStays
  <2> QED
    BY <1>2, <2>1, <2>3 DEF Graph
<1> QED
  BY <1>3, <1>4

\* The selectors are applied, or refused.
LEMMA SelectNodesSelects ==
  ASSUME TypeOK, Errors, plan' = plan, NEW p \in Projects, Graph(p), SelectNodes(p)
  PROVE  Graph(p)'
<1>1. pc[p] = "select" /\ order'[p] = order[p]
  BY DEF SelectNodes, sortVars
<1>2. CASE SelectorFails(p)
  <2>1. pc'[p] = "failed" /\ err'[p] = "selector"
    BY <1>2, TypedFromTypeOK DEF SelectNodes, Fail, Goto, Typed
  <2> QED
    BY <1>1, <2>1, GraphKept DEF SortDone
<1>3. CASE ~SelectorFails(p)
  <2>1. pc'[p] = "compiled" /\ err' = err
    BY <1>3, TypedFromTypeOK DEF SelectNodes, Goto, Typed
  <2>2. selected'[p] \in Apply(p)
    BY <1>3, TypedFromTypeOK DEF SelectNodes, Typed
  <2> QED
    BY <1>1, <1>3, <2>1, <2>2, GraphKept DEF SortDone
<1> QED
  BY <1>2, <1>3

\* The other steps of a project leave what is known of its graph.
LEMMA OtherSteps ==
  ASSUME TypeOK, Errors, plan' = plan, NEW p \in Projects, Graph(p), StepOf(p),
         ~BuildDAG(p), ~Pop(p), ~SortEnds(p), ~SelectNodes(p)
  PROVE  Graph(p)'
<1>1. order' = order
  BY DEF StepOf, CompileNext, Spawn, ProjectStep, CompileStep, NoTargetGiven, TemplateFails,
     ExecuteBegins, ExecuteEnds, Collect, SendError, Release, sortVars
<1>2. pc[p] \notin {"sort", "select"} /\ ~(pc[p] = "resolve" /\ pc'[p] = "sort")
  BY TypedFromTypeOK
     DEF StepOf, CompileNext, Spawn, ProjectStep, CompileStep, NoTargetGiven, TemplateFails,
         ExecuteBegins, ExecuteEnds, Collect, SendError, Release, Goto, Fail, Typed
<1>3. /\ pc'[p] \in {"idle", "resolve"} => pc[p] \in {"idle", "resolve"}
      /\ pc'[p] \notin {"sort", "compiled"}
      /\ err'[p] = "cycle" => err[p] = "cycle"
  BY <1>2, Moves
<1>4. pc[p] = "collect" => err[p] \in {"none", "execute"}
  BY DEF Errors
<1>5. SortDone(p)' => SortDone(p)
  BY <1>2, <1>4, Moves DEF SortDone
<1> QED
  BY <1>1, <1>3, <1>5, GraphKept

LEMMA GraphStep ==
  ASSUME TypeOK, Errors, Graphs, [Next]_vars
  PROVE  Graphs'
<1>0. plan' = plan /\ Projects' = Projects
  BY PlanStays DEF Projects
<1>1. ASSUME NEW p \in Projects, StepOf(p) PROVE Graphs'
  <2>1. Graph(p)'
    BY <1>0, <1>1, BuildDAGSorts, PopSorts, SortEndsWell, SelectNodesSelects, OtherSteps DEF Graphs
  <2>2. ASSUME NEW q \in Projects \ {p} PROVE Graph(q)'
    <3>1. Graph(q)
      BY DEF Graphs
    <3>2. /\ pc'[q] = pc[q] /\ err'[q] = err[q] /\ order'[q] = order[q] /\ queue'[q] = queue[q]
          /\ inDegree'[q] = inDegree[q] /\ selected'[q] = selected[q]
      BY <1>1, OthersStay
    <3> QED
      BY <1>0, <3>1, <3>2, GraphSame
  <2>3. \A q \in Projects : Graph(q)'
    BY <2>1, <2>2
  <2> QED
    BY <1>0, <2>3 DEF Graphs
<1>2. CASE MainOnly \/ UNCHANGED vars
  <2>1. UNCHANGED <<plan, pc, sortVars, selected, err, sem, errCh>>
    BY <1>2, MainLeaves
  <2>2. ASSUME NEW q \in Projects PROVE Graph(q)'
    <3>1. Graph(q)
      BY DEF Graphs
    <3> QED
      BY <2>1, <3>1, GraphSame DEF sortVars
  <2> QED
    BY <1>0, <2>2 DEF Graphs
<1> QED
  BY <1>1, <1>2, Steps

-----------------------------------------------------------------------------
(* Types.                                                                   *)

\* What the selectors pick are sequences of names.
LEMMA ApplyType ==
  ASSUME TypeOK, NEW p \in Projects
  PROVE  Apply(p) \subseteq Seq(Name)
<1> DEFINE chosen == (IF plan.select = <<>> THEN Ordered(p) ELSE Matched(p, plan.select))
                       \ Matched(p, plan.exclude)
           places == {i \in 1..Len(order[p]) : order[p][i] \in chosen}
<1>1. order[p] \in Seq(Name) /\ Len(order[p]) \in Nat
  BY TypedFromTypeOK DEF Typed
<1>2. Apply(p) = {[k \in DOMAIN q |-> order[p][q[k]]] : q \in Sorted(places)}
  BY DEF Apply
<1> HIDE DEF chosen
<1>3. IsFiniteSet(places) /\ places \in SUBSET Nat
  <2>1. IsFiniteSet(1..Len(order[p]))
    BY <1>1, FS_Interval
  <2>2. places \subseteq 1..Len(order[p])
    OBVIOUS
  <2> HIDE DEF places
  <2>3. IsFiniteSet(places)
    BY <2>1, <2>2, FS_Subset
  <2>4. 1..Len(order[p]) \subseteq Nat
    BY <1>1
  <2> QED
    BY <2>2, <2>3, <2>4
<1>4. ASSUME NEW q \in Sorted(places) PROVE [k \in DOMAIN q |-> order[p][q[k]]] \in Seq(Name)
  <2>1. q \in Seq(places)
    <3> HIDE DEF places
    <3> QED
      BY <1>3, SortedIs
  <2>2. DOMAIN q = 1..Len(q) /\ Len(q) \in Nat /\ \A k \in DOMAIN q : q[k] \in places
    <3> HIDE DEF places
    <3> QED
      BY <2>1
  <2>3. \A k \in DOMAIN q : order[p][q[k]] \in Name
    BY <1>1, <2>2
  <2> QED
    BY <2>2, <2>3
<1> QED
  BY <1>2, <1>4

LEMMA TypeStep ==
  ASSUME TypeOK, Stages, Slots, Graphs, [Next]_vars
  PROVE  TypeOK'
<1>0. plan' = plan /\ Projects' = Projects /\ plan \in Plans
  BY PlanStays DEF Projects, TypeOK
<1>1. Typed
  BY TypedFromTypeOK
<1>2. sem \in Nat /\ errCh \subseteq Projects /\ subBuilds \in Seq(Projects)
      /\ result \in {"none", "nil", "err"}
  BY DEF TypeOK
<1>3. main' \in {"load", "compile", "single", "pool", "done"} /\ result' \in {"none", "nil", "err"}
  <2>1. ASSUME NEW p \in Projects, StepOf(p) PROVE main' = main /\ result' = result
    BY <2>1 DEF StepOf, CompileNext, Spawn, ProjectStep, CompileStep, NoTargetGiven, TemplateFails,
       BuildDAG, Pop, SortEnds, SelectNodes, ExecuteBegins, ExecuteEnds, Collect, SendError, Release
  <2>2. ASSUME MainOnly PROVE main' \in {"load", "compile", "single", "pool", "done"} /\ result' \in {"none", "nil", "err"}
    BY <1>1, <1>2, <2>2 DEF MainOnly, LoadFails, Load, CompileFailed, AllCompiled, SingleDone, PoolDone,
       Return, Typed
  <2>3. ASSUME UNCHANGED vars PROVE main' = main /\ result' = result
    BY <2>3 DEF vars
  <2> QED
    BY <1>1, <1>2, <2>1, <2>2, <2>3, Steps DEF Typed
<1>4. pc' \in [Projects -> Label] /\ err' \in [Projects -> Reason]
  <2>1. ASSUME NEW p \in Projects, CompileNext(p) \/ Spawn(p) \/ ExecuteBegins(p) \/ SendError(p) \/ Release(p)
        PROVE  pc' \in [Projects -> Label] /\ err' \in [Projects -> Reason]
    BY <1>1, <2>1 DEF CompileNext, Spawn, ExecuteBegins, SendError, Release, Goto, Typed, Label
  <2>2. ASSUME NEW p \in Projects, NoTargetGiven(p) \/ TemplateFails(p)
        PROVE  pc' \in [Projects -> Label] /\ err' \in [Projects -> Reason]
    BY <1>1, <2>2 DEF NoTargetGiven, TemplateFails, Fail, Goto, Typed, Label, Reason
  <2>3. ASSUME NEW p \in Projects, BuildDAG(p) \/ Pop(p)
        PROVE  pc' \in [Projects -> Label] /\ err' \in [Projects -> Reason]
    BY <1>1, <2>3 DEF BuildDAG, Pop, Goto, Typed, Label
  <2>4. ASSUME NEW p \in Projects, SortEnds(p) \/ SelectNodes(p)
        PROVE  pc' \in [Projects -> Label] /\ err' \in [Projects -> Reason]
    BY <1>1, <2>4 DEF SortEnds, SelectNodes, Fail, Goto, Typed, Label, Reason
  <2>5. ASSUME NEW p \in Projects, ExecuteEnds(p) \/ Collect(p)
        PROVE  pc' \in [Projects -> Label] /\ err' \in [Projects -> Reason]
    BY <1>1, <2>5 DEF ExecuteEnds, Collect, Goto, Typed, Label, Reason
  <2>6. ASSUME MainOnly \/ UNCHANGED vars PROVE pc' = pc /\ err' = err
    BY <2>6, MainLeaves
  <2> QED
    BY <1>1, <2>1, <2>2, <2>3, <2>4, <2>5, <2>6, Steps DEF StepOf, ProjectStep, CompileStep, Typed
<1>5. /\ inDegree' \in [Projects -> [Name -> Nat]] /\ queue' \in [Projects -> Seq(Name)]
      /\ order' \in [Projects -> Seq(Name)]
  <2>1. ASSUME NEW p \in Projects, BuildDAG(p)
        PROVE  /\ inDegree' \in [Projects -> [Name -> Nat]] /\ queue' \in [Projects -> Seq(Name)]
               /\ order' \in [Projects -> Seq(Name)]
    <3> DEFINE S == {n \in Nodes(p) : Dependencies(p, n) = {}}
               card == [n \in Name |-> Cardinality(Dependencies(p, n))]
    <3>1. \A n : IsFiniteSet(Dependencies(p, n))
      BY PlanFacts
    <3>2. card \in [Name -> Nat]
      BY <3>1, FS_CardinalityType
    <3>3. PICK q \in Sorted(S) : queue' = [queue EXCEPT ![p] = q]
      BY <2>1 DEF BuildDAG
    <3>4. IsFiniteSet(S) /\ S \in SUBSET Nat /\ S \subseteq Name
      BY PlanFacts, FS_Subset, NameAssumption
    <3> HIDE DEF S
    <3>5. q \in Seq(Name)
      <4>1. q \in Seq(S)
        BY <3>4, SortedIs
      <4>2. S \subseteq Name
        BY <3>4
      <4> QED
        BY <4>1, <4>2
    <3>6. inDegree' = [inDegree EXCEPT ![p] = card] /\ order' = order
      BY <2>1 DEF BuildDAG
    <3> HIDE DEF card
    <3> QED
      BY <1>1, <3>2, <3>3, <3>5, <3>6 DEF Typed
  <2>2. ASSUME NEW p \in Projects, Pop(p)
        PROVE  /\ inDegree' \in [Projects -> [Name -> Nat]] /\ queue' \in [Projects -> Seq(Name)]
               /\ order' \in [Projects -> Seq(Name)]
    <3> DEFINE name == Head(queue[p])
    <3>1. queue[p] # <<>> /\ pc[p] = "sort"
      BY <2>2 DEF Pop
    <3>2. Behind(p) /\ Sorting(p)
      BY <3>1 DEF Graphs, Graph
    <3>3. name \in Nodes(p) /\ name \notin Ordered(p) /\ Append(order[p], name) \in Seq(Name)
      BY <3>1, <3>2, PopBehind
    <3>4. PICK r \in Sorted(Released(p, name)) : queue' = [queue EXCEPT ![p] = Tail(@) \o r]
      BY <2>2 DEF Pop
    <3>5. Tail(queue[p]) \o r \in Seq(Name)
      BY <3>1, <3>2, PopQueue
    <3>6. order' = [order EXCEPT ![p] = Append(@, name)]
      BY <2>2 DEF Pop
    <3> DEFINE less == [n \in Name |-> IF n \in Dependents(p, name) THEN inDegree[p][n] - 1 ELSE inDegree[p][n]]
    <3>7. inDegree' = [inDegree EXCEPT ![p] = less]
      BY <2>2 DEF Pop
    <3> HIDE DEF name
    <3>8. less \in [Name -> Nat]
      <4>1. ASSUME NEW n \in Name
            PROVE  (IF n \in Dependents(p, name) THEN inDegree[p][n] - 1 ELSE inDegree[p][n]) \in Nat
        <5>1. inDegree[p][n] \in Nat
          BY <1>1 DEF Typed
        <5>2. CASE n \in Dependents(p, name)
          <6>1. n \in Nodes(p)
            BY <5>2 DEF Dependents
          <6>2. /\ Cardinality(Dependencies(p, n) \ (Ordered(p) \cup {name})) \in Nat
                /\ Cardinality(Dependencies(p, n) \ (Ordered(p) \cup {name})) =
                     IF n \in Dependents(p, name) THEN inDegree[p][n] - 1 ELSE inDegree[p][n]
            BY <3>2, <3>3, <6>1, ReleasedIs
          <6> QED
            BY <6>2
        <5> QED
          BY <5>1, <5>2
      <4> QED
        BY <4>1
    <3> HIDE DEF less
    <3>9. inDegree' \in [Projects -> [Name -> Nat]]
      BY <1>1, <3>7, <3>8 DEF Typed
    <3>10. queue' \in [Projects -> Seq(Name)]
      BY <1>1, <3>4, <3>5 DEF Typed
    <3>11. order' \in [Projects -> Seq(Name)]
      BY <1>1, <3>3, <3>6 DEF Typed
    <3> QED
      BY <3>9, <3>10, <3>11
  <2>3. ASSUME NEW p \in Projects, StepOf(p), ~BuildDAG(p), ~Pop(p)
        PROVE  inDegree' = inDegree /\ queue' = queue /\ order' = order
    BY <2>3 DEF StepOf, CompileNext, Spawn, ProjectStep, CompileStep, NoTargetGiven, TemplateFails,
       SortEnds, SelectNodes, ExecuteBegins, ExecuteEnds, Collect, SendError, Release, sortVars
  <2>4. ASSUME MainOnly \/ UNCHANGED vars PROVE inDegree' = inDegree /\ queue' = queue /\ order' = order
    BY <2>4, MainLeaves DEF sortVars
  <2> QED
    BY <1>1, <2>1, <2>2, <2>3, <2>4, Steps DEF Typed
<1>6. selected' \in [Projects -> Seq(Name)]
  <2>1. ASSUME NEW p \in Projects, SelectNodes(p) PROVE selected' \in [Projects -> Seq(Name)]
    <3>1. Apply(p) \subseteq Seq(Name)
      BY ApplyType
    <3> QED
      BY <1>1, <2>1, <3>1 DEF SelectNodes, Typed
  <2>2. ASSUME NEW p \in Projects, StepOf(p), ~SelectNodes(p) PROVE selected' = selected
    BY <2>2 DEF StepOf, CompileNext, Spawn, ProjectStep, CompileStep, NoTargetGiven, TemplateFails,
       BuildDAG, Pop, SortEnds, ExecuteBegins, ExecuteEnds, Collect, SendError, Release
  <2>3. ASSUME MainOnly \/ UNCHANGED vars PROVE selected' = selected
    BY <2>3, MainLeaves
  <2> QED
    BY <1>1, <2>1, <2>2, <2>3, Steps DEF Typed
<1>7. sem' \in Nat /\ errCh' \subseteq Projects
  <2>1. ASSUME NEW p \in Projects, Release(p) PROVE sem' \in Nat /\ errCh' \subseteq Projects
    <3>1. pc[p] = "release" /\ sem' = sem - 1 /\ errCh' = errCh
      BY <2>1 DEF Release
    <3>2. Pooled
      BY <3>1 DEF Stages
    <3>3. sem = Cardinality(Working) /\ p \in Working
      BY <3>1, <3>2 DEF Slots, Working
    <3>4. IsFiniteSet(Working)
      BY PlanFacts, FS_Subset DEF Working
    <3>5. Cardinality(Working) # 0
      BY <3>3, <3>4, FS_EmptySet
    <3> QED
      BY <1>2, <3>1, <3>3, <3>5
  <2>2. ASSUME NEW p \in Projects, StepOf(p), ~Release(p) PROVE sem' \in {sem, sem + 1} /\ errCh' \in {errCh, errCh \cup {p}}
    BY <2>2 DEF StepOf, CompileNext, Spawn, ProjectStep, CompileStep, NoTargetGiven, TemplateFails,
       BuildDAG, Pop, SortEnds, SelectNodes, ExecuteBegins, ExecuteEnds, Collect, SendError, poolVars
  <2>3. ASSUME MainOnly \/ UNCHANGED vars PROVE sem' = sem /\ errCh' = errCh
    BY <2>3, MainLeaves
  <2>4. ASSUME NEW p \in Projects, StepOf(p) PROVE sem' \in Nat /\ errCh' \subseteq Projects
    BY <1>2, <2>1, <2>2, <2>4
  <2> QED
    BY <1>2, <2>3, <2>4, Steps
<1>8. subBuilds' \in Seq(Projects)
  <2>1. ASSUME NEW p \in Projects, StepOf(p) PROVE subBuilds' \in Seq(Projects)
    <3>1. subBuilds' \in {subBuilds, Append(subBuilds, p)}
      BY <2>1 DEF StepOf, CompileNext, Spawn, ProjectStep, CompileStep, NoTargetGiven, TemplateFails,
         BuildDAG, Pop, SortEnds, SelectNodes, ExecuteBegins, ExecuteEnds, Collect, SendError, Release, poolVars
    <3> QED
      BY <1>2, <3>1
  <2>2. ASSUME PoolDone PROVE subBuilds' \in Seq(Projects)
    <3>1. PICK q \in Sorted(Elements(subBuilds)) : subBuilds' = q
      BY <2>2 DEF PoolDone, Elements
    <3>2. Elements(subBuilds) \subseteq Projects
      BY <1>2 DEF Elements
    <3>3. Elements(subBuilds) \in SUBSET Nat /\ IsFiniteSet(Elements(subBuilds))
      BY <3>2, PlanFacts, FS_Subset
    <3>4. q \in Seq(Elements(subBuilds))
      BY <3>3, SortedIs
    <3> QED
      BY <3>1, <3>2, <3>4
  <2>3. ASSUME MainOnly, ~PoolDone PROVE subBuilds' = subBuilds
    BY <2>3 DEF MainOnly, LoadFails, Load, CompileFailed, AllCompiled, SingleDone, poolVars
  <2>4. ASSUME UNCHANGED vars PROVE subBuilds' = subBuilds
    BY <2>4 DEF vars, poolVars
  <2> QED
    BY <1>2, <2>1, <2>2, <2>3, <2>4, Steps
<1> QED
  BY <1>0, <1>3, <1>4, <1>5, <1>6, <1>7, <1>8 DEF TypeOK

-----------------------------------------------------------------------------
(* The theorems.                                                            *)

LEMMA ProjectInit ==
  ASSUME Init
  PROVE  ProjectInv
<1>1. plan \in Plans /\ IsPlan(plan)
  BY PlansAssumption DEF Init
<1>2. /\ main = "load" /\ result = "none" /\ sem = 0 /\ errCh = {} /\ subBuilds = <<>>
      /\ pc = [p \in Projects |-> "idle"] /\ err = [p \in Projects |-> "none"]
      /\ inDegree = [p \in Projects |-> [n \in Name |-> 0]]
      /\ queue = [p \in Projects |-> <<>>] /\ order = queue /\ selected = queue
  BY DEF Init
<1>3. TypeOK
  <2>1. queue \in [Projects -> Seq(Name)] /\ order \in [Projects -> Seq(Name)] /\ selected \in [Projects -> Seq(Name)]
    BY <1>2
  <2>2. inDegree \in [Projects -> [Name -> Nat]]
    BY <1>2
  <2>3. pc \in [Projects -> Label] /\ err \in [Projects -> Reason]
    BY <1>2 DEF Label, Reason
  <2>4. subBuilds \in Seq(Projects)
    BY <1>2
  <2> QED
    BY <1>1, <1>2, <2>1, <2>2, <2>3, <2>4 DEF TypeOK
<1>4. Stages
  BY <1>2 DEF Stages
<1>5. Errors
  BY <1>2 DEF Errors
<1>6. Slots
  <2>1. Working = {}
    BY <1>2 DEF Working
  <2>2. Threads \in Nat
    BY <1>3, PlanFacts DEF Threads
  <2> QED
    BY <1>2, <2>1, <2>2, FS_EmptySet DEF Slots
<1>7. Kept
  <2>1. Elements(subBuilds) = {}
    BY <1>2 DEF Elements
  <2> QED
    BY <1>2, <2>1 DEF Kept
<1>8. Graphs
  <2>1. ASSUME NEW p \in Projects PROVE Graph(p)
    <3>1. pc[p] = "idle" /\ err[p] = "none" /\ order[p] = <<>>
      BY <1>2
    <3>2. Behind(p)
      BY <3>1 DEF Behind, Once, Ordered
    <3> QED
      BY <3>1, <3>2 DEF Graph, SortDone
  <2> QED
    BY <2>1 DEF Graphs
<1> QED
  BY <1>3, <1>4, <1>5, <1>6, <1>7, <1>8 DEF ProjectInv

\* The invariant holds of any projects, names and plans: types, where main and the
\* projects are (Stages, Errors), the semaphore (Slots), what the pool keeps (Kept) and
\* the sorted graph of each project (Graphs).
THEOREM ProjectCorrect == Spec => []ProjectInv
<1>1. ASSUME ProjectInv, [Next]_vars PROVE ProjectInv'
  <2>1. TypeOK'
    BY <1>1, TypeStep DEF ProjectInv
  <2>2. Stages'
    BY <1>1, StagesStep DEF ProjectInv
  <2>3. Errors'
    BY <1>1, ErrorsStep DEF ProjectInv
  <2>4. Slots'
    BY <1>1, SlotsStep DEF ProjectInv
  <2>5. Kept'
    BY <1>1, KeptStep DEF ProjectInv
  <2>6. Graphs'
    BY <1>1, GraphStep DEF ProjectInv
  <2> QED
    BY <2>1, <2>2, <2>3, <2>4, <2>5, <2>6 DEF ProjectInv
<1> QED
  BY <1>1, ProjectInit, PTL DEF Spec

\* The variables have their types: no degree and no semaphore falls below zero.
THEOREM TypeCorrect == Spec => []TypeOK
<1>1. ProjectInv => TypeOK
  BY DEF ProjectInv
<1> QED
  BY <1>1, ProjectCorrect, PTL

\* BuildDAG orders the nodes of a project so that each comes once, after all it depends
\* on, and refuses a project if and only if some of its nodes wait for each other.
THEOREM OrderCorrect == Spec => []OrderIsTopological
<1>1. ASSUME ProjectInv PROVE OrderIsTopological
  BY <1>1 DEF ProjectInv, Graphs, Graph, Behind, Once, OrderIsTopological
<1> QED
  BY <1>1, ProjectCorrect, PTL

\* When independent projects were run, each has been tried, those that compiled are
\* reported in the order of their directories, and an error is returned if and only if
\* one of them failed.
THEOREM ReportsCorrect == Spec => []ProjectsReported
<1>1. ASSUME ProjectInv PROVE ProjectsReported
  <2> SUFFICES ASSUME result # "none", Pooled, \E p \in Projects : pc[p] # "idle"
               PROVE  /\ \A p \in Projects : pc[p] = "done"
                      /\ {subBuilds[i] : i \in 1..Len(subBuilds)} = {p \in Projects : err[p] \in {"none", "execute"}}
                      /\ \A i, j \in 1..Len(subBuilds) : i < j => subBuilds[i] < subBuilds[j]
                      /\ result = "err" <=> \E p \in Projects : err[p] # "none"
    BY DEF ProjectsReported, Pooled
  <2>1. main = "done" /\ \A p \in Projects : pc[p] = "done"
    BY <1>1 DEF ProjectInv, Stages
  <2>2. /\ Elements(subBuilds) = {p \in Projects : err[p] \in {"none", "execute"}}
        /\ errCh = {p \in Projects : err[p] # "none"}
        /\ \A i, j \in 1..Len(subBuilds) : i < j => subBuilds[i] < subBuilds[j]
        /\ result = IF errCh = {} THEN "nil" ELSE "err"
    BY <1>1, <2>1 DEF ProjectInv, Kept
  <2> QED
    BY <2>1, <2>2 DEF Elements
<1> QED
  BY <1>1, ProjectCorrect, PTL

\* The pool never works on more projects at once than the semaphore allows, one if the
\* target given allows one writer only.
THEOREM PoolBounded == Spec => [](Pooled => Cardinality(Working) <= Threads)
<1>1. ProjectInv => (Pooled => Cardinality(Working) <= Threads)
  BY DEF ProjectInv, Slots
<1> QED
  BY <1>1, ProjectCorrect, PTL

\* A goroutine of the pool that has an error to send never waits for room on errCh: the
\* channel is as large as there are projects, and each sends one error.
THEOREM ErrorsFit ==
  Spec => [](\A p \in Projects : Pooled /\ pc[p] = "failed" => Cardinality(errCh) < ErrCap)
<1>1. ASSUME ProjectInv
      PROVE  \A p \in Projects : Pooled /\ pc[p] = "failed" => Cardinality(errCh) < ErrCap
  <2> SUFFICES ASSUME NEW p \in Projects, Pooled, pc[p] = "failed" PROVE Cardinality(errCh) < ErrCap
    OBVIOUS
  <2>1. IsFiniteSet(Projects)
    BY <1>1, PlanFacts DEF ProjectInv
  <2>2. errCh \subseteq Projects \ {p}
    BY <1>1 DEF ProjectInv, Kept
  <2>3. IsFiniteSet(Projects \ {p}) /\ Cardinality(Projects \ {p}) = Cardinality(Projects) - 1
    BY <2>1, FS_RemoveElement
  <2>4. Cardinality(errCh) <= Cardinality(Projects \ {p}) /\ IsFiniteSet(errCh)
    BY <2>2, <2>3, FS_Subset
  <2>5. Cardinality(errCh) \in Nat /\ Cardinality(Projects) \in Nat
    BY <2>1, <2>4, FS_CardinalityType
  <2> QED
    BY <2>3, <2>4, <2>5 DEF ErrCap
<1> QED
  BY <1>1, ProjectCorrect, PTL

-----------------------------------------------------------------------------
(* The selectors: what is reached by walking the edges is what paths lead   *)
(* to, and the least set that is closed under them.                         *)

\* A path of len edges leads from S to x.
Leads(edges, D, S, x, len) ==
  \E path \in [0..len -> D] :
    /\ path[0] \in S /\ path[len] = x
    /\ \A i \in 1..len : path[i] \in edges[path[i - 1]]

\* The ends of the paths of at most k edges.
Ends(edges, D, S, k) == {x \in D : \E len \in 1..k : Leads(edges, D, S, x, len)}

\* The ends of all paths.
AllEnds(edges, D, S) == {x \in D : \E len \in Nat \ {0} : Leads(edges, D, S, x, len)}

\* What the edges from T lead to.
Follow(edges, T) == UNION {edges[n] : n \in T}

\* A set that the edges from S and from its own members do not leave.
Closed(edges, S, T) == \A n \in S \cup T : edges[n] \subseteq T

\* A path of one more edge.
LEMMA PathsGrow ==
  ASSUME NEW D, NEW edges \in [D -> SUBSET D], NEW S \in SUBSET D, NEW k \in Nat
  PROVE  /\ Ends(edges, D, S, 0) = {}
         /\ Ends(edges, D, S, k + 1) =
              Ends(edges, D, S, k) \cup Follow(edges, S \cup Ends(edges, D, S, k))
<1>1. Ends(edges, D, S, 0) = {}
  <2>1. 1..0 = {}
    OBVIOUS
  <2> QED
    BY <2>1 DEF Ends
<1>2. ASSUME NEW x \in Ends(edges, D, S, k + 1)
      PROVE  x \in Ends(edges, D, S, k) \/ \E n \in S \cup Ends(edges, D, S, k) : x \in edges[n]
  <2>1. PICK len \in 1..(k + 1) : Leads(edges, D, S, x, len)
    BY DEF Ends
  <2>2. PICK path \in [0..len -> D] :
          /\ path[0] \in S /\ path[len] = x
          /\ \A i \in 1..len : path[i] \in edges[path[i - 1]]
    BY <2>1 DEF Leads
  <2>3. len \in Nat /\ len - 1 \in Nat /\ len \in 1..len /\ len - 1 \in 0..len
    OBVIOUS
  <2>4. x \in edges[path[len - 1]] /\ path[len - 1] \in D
    BY <2>2, <2>3
  <2>5. CASE len = 1
    <3>1. path[len - 1] \in S
      BY <2>2, <2>5
    <3> QED
      BY <2>4, <3>1
  <2>6. CASE len # 1
    <3> DEFINE n == path[len - 1]
               q == [i \in 0..(len - 1) |-> path[i]]
    <3>1. q \in [0..(len - 1) -> D] /\ q[0] \in S /\ q[len - 1] = n
      BY <2>2, <2>3
    <3>2. \A i \in 1..(len - 1) : q[i] \in edges[q[i - 1]]
      BY <2>2, <2>3
    <3>3. Leads(edges, D, S, n, len - 1)
      BY <3>1, <3>2 DEF Leads
    <3>4. len - 1 \in 1..k
      BY <2>3, <2>6
    <3>5. n \in Ends(edges, D, S, k)
      BY <2>4, <3>3, <3>4 DEF Ends
    <3> QED
      BY <2>4, <3>5
  <2> QED
    BY <2>5, <2>6
<1>3. ASSUME NEW x \in Ends(edges, D, S, k) PROVE x \in Ends(edges, D, S, k + 1)
  BY DEF Ends
<1>4. ASSUME NEW n \in S, NEW x \in edges[n] PROVE x \in Ends(edges, D, S, k + 1)
  <2> DEFINE q == [i \in 0..1 |-> IF i = 0 THEN n ELSE x]
  <2>1. n \in D /\ x \in D
    OBVIOUS
  <2>2. q \in [0..1 -> D] /\ q[0] = n /\ q[1] = x
    BY <2>1
  <2>3. \A i \in 1..1 : q[i] \in edges[q[i - 1]]
    BY <2>2
  <2> HIDE DEF q
  <2>4. Leads(edges, D, S, x, 1)
    BY <2>2, <2>3 DEF Leads
  <2>5. 1 \in 1..(k + 1)
    OBVIOUS
  <2> QED
    BY <2>1, <2>4, <2>5 DEF Ends
<1>5. ASSUME NEW n \in Ends(edges, D, S, k), NEW x \in edges[n] PROVE x \in Ends(edges, D, S, k + 1)
  <2>1. PICK len \in 1..k : Leads(edges, D, S, n, len)
    BY DEF Ends
  <2>2. PICK path \in [0..len -> D] :
          /\ path[0] \in S /\ path[len] = n
          /\ \A i \in 1..len : path[i] \in edges[path[i - 1]]
    BY <2>1 DEF Leads
  <2> DEFINE q == [i \in 0..(len + 1) |-> IF i = len + 1 THEN x ELSE path[i]]
  <2>3. n \in D /\ x \in D
    BY DEF Ends
  <2>4. /\ q \in [0..(len + 1) -> D] /\ q[0] = path[0] /\ q[len + 1] = x
        /\ \A i \in 0..len : q[i] = path[i]
    BY <2>3
  <2> HIDE DEF q
  <2>5. ASSUME NEW i \in 1..(len + 1) PROVE q[i] \in edges[q[i - 1]]
    <3>1. CASE i = len + 1
      <4>1. i - 1 = len /\ len \in 0..len
        BY <3>1
      <4> QED
        BY <2>2, <2>4, <3>1, <4>1
    <3>2. CASE i # len + 1
      <4>1. i \in 1..len /\ i \in 0..len /\ i - 1 \in 0..len
        BY <3>2
      <4> QED
        BY <2>2, <2>4, <4>1
    <3> QED
      BY <3>1, <3>2
  <2>6. Leads(edges, D, S, x, len + 1)
    BY <2>2, <2>4, <2>5 DEF Leads
  <2>7. len + 1 \in 1..(k + 1)
    OBVIOUS
  <2> QED
    BY <2>3, <2>6, <2>7 DEF Ends
<1> QED
  BY <1>1, <1>2, <1>3, <1>4, <1>5 DEF Follow

\* GetUpstreamN and GetDownstreamN reach the ends of the paths of at most k edges.
LEMMA ReachNIs ==
  ASSUME NEW D, NEW edges \in [D -> SUBSET D], NEW S \in SUBSET D, NEW k \in Nat
  PROVE  ReachN(edges, S, k) = Ends(edges, D, S, k)
<1> DEFINE Is(f) == f = [j \in Nat |-> IF j = 0 THEN {}
                                      ELSE f[j - 1] \cup UNION {edges[n] : n \in S \cup f[j - 1]}]
           walk == CHOOSE f : Is(f)
           ends == [j \in Nat |-> Ends(edges, D, S, j)]
<1>1. ReachN(edges, S, k) = walk[k]
  BY DEF ReachN
<1>2. Is(ends)
  <2>1. ASSUME NEW j \in Nat
        PROVE  ends[j] = IF j = 0 THEN {} ELSE ends[j - 1] \cup UNION {edges[n] : n \in S \cup ends[j - 1]}
    <3>1. CASE j = 0
      BY <3>1, PathsGrow
    <3>2. CASE j # 0
      <4>1. j - 1 \in Nat /\ (j - 1) + 1 = j
        BY <3>2
      <4>2. Ends(edges, D, S, (j - 1) + 1) =
              Ends(edges, D, S, j - 1) \cup UNION {edges[n] : n \in S \cup Ends(edges, D, S, j - 1)}
        BY <4>1, PathsGrow DEF Follow
      <4> QED
        BY <3>2, <4>1, <4>2
    <3> QED
      BY <3>1, <3>2
  <2>2. ends = [j \in Nat |-> ends[j]]
    OBVIOUS
  <2> HIDE DEF ends
  <2> QED
    BY <2>1, <2>2
<1> HIDE DEF Is
<1>3. Is(walk)
  <2> HIDE DEF ends
  <2> QED
    BY <1>2
<1> HIDE DEF walk
<1>4. \A j \in Nat : walk[j] = IF j = 0 THEN {} ELSE walk[j - 1] \cup UNION {edges[n] : n \in S \cup walk[j - 1]}
  BY <1>3 DEF Is
<1>5. \A j \in Nat : ends[j] = IF j = 0 THEN {} ELSE ends[j - 1] \cup UNION {edges[n] : n \in S \cup ends[j - 1]}
  <2> HIDE DEF ends
  <2> QED
    BY <1>2 DEF Is
<1>6. \A j \in Nat : walk[j] = ends[j]
  <2> HIDE DEF ends
  <2> DEFINE differ == {j \in Nat : walk[j] # ends[j]}
  <2> SUFFICES ASSUME differ # {} PROVE FALSE
    OBVIOUS
  <2>1. PICK j \in differ : \A i \in differ : j <= i
    BY LeastNat
  <2>2. j # 0
    BY <1>4, <1>5
  <2>3. j - 1 \in Nat /\ j - 1 \notin differ
    BY <2>1, <2>2
  <2>4. walk[j - 1] = ends[j - 1]
    BY <2>3
  <2> QED
    BY <1>4, <1>5, <2>2, <2>4
<1> QED
  BY <1>1, <1>6

\* A path stays in a closed set.
LEMMA PathsStay ==
  ASSUME NEW D, NEW edges \in [D -> SUBSET D], NEW S \in SUBSET D,
         NEW T \in SUBSET D, Closed(edges, S, T),
         NEW x, NEW len \in Nat \ {0}, Leads(edges, D, S, x, len)
  PROVE  x \in T
<1>1. PICK path \in [0..len -> D] :
        /\ path[0] \in S /\ path[len] = x
        /\ \A i \in 1..len : path[i] \in edges[path[i - 1]]
  BY DEF Leads
<1> DEFINE out == {i \in 1..len : path[i] \notin T}
<1> SUFFICES ASSUME x \notin T PROVE FALSE
  OBVIOUS
<1>2. len \in out
  BY <1>1
<1>3. PICK i \in out : \A j \in out : i <= j
  <2>1. out \in SUBSET Nat
    OBVIOUS
  <2> HIDE DEF out
  <2> QED
    BY <1>2, <2>1, LeastNat
<1>4. path[i - 1] \in S \cup T
  <2>1. CASE i = 1
    BY <1>1, <2>1
  <2>2. CASE i # 1
    <3>1. i - 1 \in 1..len /\ i - 1 < i
      BY <1>3, <2>2
    <3>2. i - 1 \notin out
      BY <1>3, <3>1
    <3> QED
      BY <3>1, <3>2
  <2> QED
    BY <2>1, <2>2
<1>5. path[i] \in edges[path[i - 1]]
  BY <1>1, <1>3
<1> QED
  BY <1>3, <1>4, <1>5 DEF Closed

\* After as many steps as there are nodes nothing more is reached.
LEMMA ReachCloses ==
  ASSUME NEW D, IsFiniteSet(D), NEW edges \in [D -> SUBSET D], NEW S \in SUBSET D
  PROVE  Reach(edges, S) \subseteq D /\ Closed(edges, S, Reach(edges, S))
<1> DEFINE K == Cardinality(S) + Cardinality(D)
           E(j) == Ends(edges, D, S, j)
<1>1. IsFiniteSet(S) /\ Cardinality(S) \in Nat /\ Cardinality(D) \in Nat
  BY FS_Subset, FS_CardinalityType
<1>2. K \in Nat /\ Reach(edges, S) = ReachN(edges, S, K)
  <2>1. DOMAIN edges = D
    OBVIOUS
  <2> QED
    BY <1>1, <2>1 DEF Reach
<1>3. Reach(edges, S) = E(K)
  BY <1>2, ReachNIs
<1>4. \A j \in Nat : E(j) \subseteq D /\ IsFiniteSet(E(j)) /\ Cardinality(E(j)) \in Nat
  <2>1. \A j \in Nat : E(j) \subseteq D
    BY DEF Ends
  <2> HIDE DEF E
  <2> QED
    BY <2>1, FS_Subset, FS_CardinalityType
<1>5. \A j \in Nat : E(j + 1) = E(j) \cup UNION {edges[n] : n \in S \cup E(j)}
  <2> SUFFICES ASSUME NEW j \in Nat PROVE E(j + 1) = E(j) \cup UNION {edges[n] : n \in S \cup E(j)}
    OBVIOUS
  <2>1. Ends(edges, D, S, j + 1) = Ends(edges, D, S, j) \cup Follow(edges, S \cup Ends(edges, D, S, j))
    BY PathsGrow
  <2> QED
    BY <2>1 DEF Follow
<1> HIDE DEF E, K
<1>6. \A j \in Nat : Closed(edges, S, E(j)) \/ Cardinality(E(j)) >= j
  <2> DEFINE bad == {j \in Nat : ~(Closed(edges, S, E(j)) \/ Cardinality(E(j)) >= j)}
  <2> SUFFICES ASSUME bad # {} PROVE FALSE
    OBVIOUS
  <2>1. PICK j \in bad : \A i \in bad : j <= i
    <3>1. bad \in SUBSET Nat
      OBVIOUS
    <3> HIDE DEF bad
    <3> QED
      BY <3>1, LeastNat
  <2>2. j \in Nat /\ ~Closed(edges, S, E(j)) /\ Cardinality(E(j)) < j
    BY <1>4, <2>1
  <2>3. j # 0
    BY <1>4, <2>2
  <2>4. j - 1 \in Nat /\ j - 1 \notin bad /\ (j - 1) + 1 = j
    BY <2>1, <2>2, <2>3
  <2>5. Closed(edges, S, E(j - 1)) \/ Cardinality(E(j - 1)) >= j - 1
    BY <2>4
  <2>6. E(j) = E(j - 1) \cup UNION {edges[n] : n \in S \cup E(j - 1)}
    BY <1>5, <2>4
  <2>7. ~Closed(edges, S, E(j - 1))
    <3> SUFFICES ASSUME Closed(edges, S, E(j - 1)) PROVE FALSE
      OBVIOUS
    <3>1. E(j) = E(j - 1)
      BY <2>6 DEF Closed
    <3> QED
      BY <2>2, <3>1
  <2>8. E(j - 1) # E(j) /\ E(j - 1) \subseteq E(j)
    BY <2>6, <2>7 DEF Closed
  <2>9. Cardinality(E(j - 1)) <= Cardinality(E(j)) /\ Cardinality(E(j - 1)) # Cardinality(E(j))
    BY <1>4, <2>2, <2>8, FS_Subset
  <2> QED
    BY <1>4, <2>2, <2>4, <2>5, <2>7, <2>9
<1>7. Closed(edges, S, E(K))
  <2>1. CASE Cardinality(E(K)) >= K
    <3>1. Cardinality(E(K)) <= Cardinality(D)
      BY <1>2, <1>4, FS_Subset
    <3>2. Cardinality(E(K)) = Cardinality(D)
      BY <1>1, <1>2, <1>4, <2>1, <3>1 DEF K
    <3>3. E(K) = D
      BY <1>2, <1>4, <3>2, FS_Subset
    <3> QED
      BY <3>3 DEF Closed
  <2> QED
    BY <1>2, <1>6, <2>1
<1> QED
  BY <1>2, <1>3, <1>4, <1>7

\* GetUpstream and GetDownstream reach the ends of all paths, and the least closed set.
LEMMA ReachIs ==
  ASSUME NEW D, IsFiniteSet(D), NEW edges \in [D -> SUBSET D], NEW S \in SUBSET D
  PROVE  /\ Reach(edges, S) = AllEnds(edges, D, S)
         /\ Reach(edges, S) = {x \in D : \A T \in SUBSET D : Closed(edges, S, T) => x \in T}
<1> DEFINE K == Cardinality(S) + Cardinality(D)
<1>1. K \in Nat /\ Reach(edges, S) = Ends(edges, D, S, K)
  <2>1. DOMAIN edges = D
    OBVIOUS
  <2>2. K \in Nat
    BY FS_Subset, FS_CardinalityType
  <2>3. Reach(edges, S) = ReachN(edges, S, K)
    BY <2>1 DEF Reach
  <2> HIDE DEF K
  <2> QED
    BY <2>2, <2>3, ReachNIs
<1> HIDE DEF K
<1>2. Reach(edges, S) \in SUBSET D /\ Closed(edges, S, Reach(edges, S))
  BY ReachCloses
<1>3. ASSUME NEW x \in Reach(edges, S) PROVE \E len \in Nat \ {0} : Leads(edges, D, S, x, len)
  <2>1. PICK len \in 1..K : Leads(edges, D, S, x, len)
    BY <1>1 DEF Ends
  <2>2. len \in Nat \ {0}
    BY <1>1
  <2> QED
    BY <2>1, <2>2
<1>4. ASSUME NEW x \in D, NEW len \in Nat \ {0}, Leads(edges, D, S, x, len),
             NEW T \in SUBSET D, Closed(edges, S, T)
      PROVE  x \in T
  BY <1>4, PathsStay
<1>5. Reach(edges, S) = {x \in D : \E len \in Nat \ {0} : Leads(edges, D, S, x, len)}
  BY <1>2, <1>3, <1>4
<1>6. Reach(edges, S) = {x \in D : \A T \in SUBSET D : Closed(edges, S, T) => x \in T}
  BY <1>2, <1>3, <1>4
<1> QED
  BY <1>5, <1>6 DEF AllEnds

\* A path against the edges.
LEMMA PathsTurn ==
  ASSUME NEW D, NEW e \in [D -> SUBSET D], NEW f \in [D -> SUBSET D],
         \A m, n \in D : m \in e[n] => n \in f[m],
         NEW a \in D, NEW b \in D, NEW len \in Nat, Leads(e, D, {a}, b, len)
  PROVE  Leads(f, D, {b}, a, len)
<1>1. PICK path \in [0..len -> D] :
        /\ path[0] \in {a} /\ path[len] = b
        /\ \A i \in 1..len : path[i] \in e[path[i - 1]]
  BY DEF Leads
<1> DEFINE q == [i \in 0..len |-> path[len - i]]
<1>2. \A i \in 0..len : len - i \in 0..len
  OBVIOUS
<1>3. q \in [0..len -> D] /\ q[0] = b /\ q[len] = a
  BY <1>1, <1>2
<1>4. ASSUME NEW i \in 1..len PROVE q[i] \in f[q[i - 1]]
  <2>1. /\ len - (i - 1) \in 1..len /\ (len - (i - 1)) - 1 = len - i
        /\ len - i \in 0..len /\ len - (i - 1) \in 0..len /\ i \in 0..len /\ i - 1 \in 0..len
    OBVIOUS
  <2>2. path[len - (i - 1)] \in e[path[(len - (i - 1)) - 1]]
    BY <1>1, <2>1
  <2>3. path[len - i] \in f[path[len - (i - 1)]]
    BY <2>1, <2>2
  <2> QED
    BY <2>1, <2>3
<1> HIDE DEF q
<1> QED
  BY <1>3, <1>4 DEF Leads

\* The edges of a project.
LEMMA EdgesAre ==
  ASSUME TypeOK, NEW p \in Projects
  PROVE  /\ IsFiniteSet(Nodes(p))
         /\ UpEdges(p) \in [Nodes(p) -> SUBSET Nodes(p)]
         /\ DownEdges(p) \in [Nodes(p) -> SUBSET Nodes(p)]
         /\ \A n \in Nodes(p) : UpEdges(p)[n] = Dependencies(p, n)
         /\ \A m, n \in Nodes(p) : m \in UpEdges(p)[n] <=> n \in DownEdges(p)[m]
<1>1. IsFiniteSet(Nodes(p)) /\ \A n : Dependencies(p, n) \subseteq Nodes(p)
  BY PlanFacts
<1>2. UpEdges(p) \in [Nodes(p) -> SUBSET Nodes(p)]
  BY <1>1 DEF UpEdges
<1>3. DownEdges(p) \in [Nodes(p) -> SUBSET Nodes(p)]
  BY DEF DownEdges, Dependents
<1>4. \A m, n \in Nodes(p) : m \in UpEdges(p)[n] <=> n \in DownEdges(p)[m]
  BY DEF UpEdges, DownEdges, Dependents
<1> QED
  BY <1>1, <1>2, <1>3, <1>4 DEF UpEdges

\* Upstream is what GetUpstream walks to.
LEMMA UpIs ==
  ASSUME TypeOK, NEW p \in Projects, NEW S \in SUBSET Nodes(p)
  PROVE  Reach(UpEdges(p), S) = UpstreamOf(p, S) /\ UpstreamOf(p, S) \subseteq Nodes(p)
<1>1. Reach(UpEdges(p), S) =
        {x \in Nodes(p) : \A T \in SUBSET Nodes(p) : Closed(UpEdges(p), S, T) => x \in T}
  BY EdgesAre, ReachIs
<1>2. \A T \in SUBSET Nodes(p) :
        Closed(UpEdges(p), S, T) <=> \A n \in S \cup T : Dependencies(p, n) \subseteq T
  BY EdgesAre DEF Closed
<1> QED
  BY <1>1, <1>2 DEF UpstreamOf

\* Downstream of S is what has a node of S upstream.
LEMMA DownIs ==
  ASSUME TypeOK, NEW p \in Projects, NEW S \in SUBSET Nodes(p)
  PROVE  Reach(DownEdges(p), S) = {x \in Nodes(p) : \E n \in S : n \in UpstreamOf(p, {x})}
<1> DEFINE N == Nodes(p)
           U == UpEdges(p)
           W == DownEdges(p)
<1>0. /\ IsFiniteSet(N) /\ U \in [N -> SUBSET N] /\ W \in [N -> SUBSET N]
      /\ \A m, n \in N : m \in U[n] => n \in W[m]
      /\ \A m, n \in N : m \in W[n] => n \in U[m]
  BY EdgesAre
<1>1. \A x \in N : {x} \in SUBSET N
  OBVIOUS
<1>2. \A x \in N : Reach(U, {x}) = UpstreamOf(p, {x})
  BY <1>1, UpIs
<1> HIDE DEF N, U, W
<1>3. Reach(W, S) = {x \in N : \E len \in Nat \ {0} : Leads(W, N, S, x, len)}
  BY <1>0, ReachIs DEF N, AllEnds
<1>4. \A x \in N : Reach(U, {x}) = {y \in N : \E len \in Nat \ {0} : Leads(U, N, {x}, y, len)}
  <2> SUFFICES ASSUME NEW x \in N
               PROVE  Reach(U, {x}) = {y \in N : \E len \in Nat \ {0} : Leads(U, N, {x}, y, len)}
    OBVIOUS
  <2>1. {x} \in SUBSET N
    OBVIOUS
  <2> QED
    <3>1. Reach(U, {x}) = AllEnds(U, N, {x})
      BY <1>0, <2>1, ReachIs
    <3> QED
      BY <3>1 DEF AllEnds
<1>5. ASSUME NEW x \in Reach(W, S) PROVE \E n \in S : n \in UpstreamOf(p, {x})
  <2>1. PICK len \in Nat \ {0} : Leads(W, N, S, x, len)
    BY <1>3
  <2>2. PICK path \in [0..len -> N] :
          /\ path[0] \in S /\ path[len] = x
          /\ \A i \in 1..len : path[i] \in W[path[i - 1]]
    BY <2>1 DEF Leads
  <2>3. PICK n \in S : n = path[0]
    BY <2>2
  <2>4. Leads(W, N, {n}, x, len)
    BY <2>2, <2>3 DEF Leads
  <2>5. n \in N /\ x \in N
    BY <1>3, <2>3 DEF N
  <2>6. Leads(U, N, {x}, n, len)
    BY <1>0, <2>4, <2>5, PathsTurn
  <2>7. \E k \in Nat \ {0} : Leads(U, N, {x}, n, k)
    BY <2>6
  <2>8. n \in Reach(U, {x})
    BY <1>4, <2>5, <2>7
  <2> QED
    BY <1>2, <2>5, <2>8
<1>6. ASSUME NEW x \in N, NEW n \in S, n \in UpstreamOf(p, {x}) PROVE x \in Reach(W, S)
  <2>1. n \in N
    BY DEF N
  <2>2. PICK len \in Nat \ {0} : Leads(U, N, {x}, n, len)
    BY <1>2, <1>4, <1>6
  <2>3. Leads(W, N, {n}, x, len)
    BY <1>0, <2>1, <2>2, PathsTurn
  <2>4. Leads(W, N, S, x, len)
    BY <2>3 DEF Leads
  <2> QED
    BY <1>3, <2>4
<1>7. Reach(W, S) \subseteq N
  BY <1>3
<1> QED
  BY <1>5, <1>6, <1>7 DEF N, W

\* Within k degrees are the ends of paths of at most k edges.
LEMMA DegreesAre ==
  ASSUME TypeOK, NEW p \in Projects, NEW a \in Nodes(p), NEW k \in Nat
  PROVE  /\ ReachN(UpEdges(p), {a}, k) = {x \in Nodes(p) : PathTo(p, a, x, k)}
         /\ ReachN(DownEdges(p), {a}, k) = {x \in Nodes(p) : PathTo(p, x, a, k)}
<1> DEFINE N == Nodes(p)
           U == UpEdges(p)
           W == DownEdges(p)
<1>0. /\ IsFiniteSet(N) /\ U \in [N -> SUBSET N] /\ W \in [N -> SUBSET N]
      /\ \A m, n \in N : m \in U[n] => n \in W[m]
      /\ \A m, n \in N : m \in W[n] => n \in U[m]
      /\ \A n \in N : U[n] = Dependencies(p, n)
  BY EdgesAre
<1>1. ASSUME NEW x \in N, NEW y \in N
      PROVE  PathTo(p, x, y, k) <=> \E len \in 1..k : Leads(U, N, {x}, y, len)
  <2>1. ASSUME NEW len \in 1..k
        PROVE  (\E path \in [0..len -> N] :
                  /\ path[0] = x /\ path[len] = y
                  /\ \A i \in 1..len : path[i] \in Dependencies(p, path[i - 1]))
               <=> Leads(U, N, {x}, y, len)
    <3>1. ASSUME NEW path \in [0..len -> N], NEW i \in 1..len
          PROVE  path[i] \in U[path[i - 1]] <=> path[i] \in Dependencies(p, path[i - 1])
      <4>1. path[i - 1] \in N
        OBVIOUS
      <4> HIDE DEF N, U
      <4> QED
        BY <1>0, <4>1
    <3> HIDE DEF N, U
    <3> QED
      BY <3>1 DEF Leads
  <2>2. PathTo(p, x, y, k) <=>
          \E len \in 1..k : \E path \in [0..len -> N] :
            /\ path[0] = x /\ path[len] = y
            /\ \A i \in 1..len : path[i] \in Dependencies(p, path[i - 1])
    BY DEF PathTo
  <2> HIDE DEF N, U
  <2> QED
    BY <2>1, <2>2
<1> HIDE DEF N, U, W
<1>2. a \in N /\ {a} \in SUBSET N
  BY DEF N
<1>3. ReachN(U, {a}, k) = Ends(U, N, {a}, k) /\ ReachN(W, {a}, k) = Ends(W, N, {a}, k)
  BY <1>0, <1>2, ReachNIs
<1>4. ASSUME NEW x \in N, NEW len \in 1..k PROVE Leads(W, N, {a}, x, len) <=> Leads(U, N, {x}, a, len)
  <2>1. len \in Nat
    OBVIOUS
  <2>2. Leads(W, N, {a}, x, len) => Leads(U, N, {x}, a, len)
    BY <1>0, <1>2, <2>1, PathsTurn
  <2>3. Leads(U, N, {x}, a, len) => Leads(W, N, {a}, x, len)
    BY <1>0, <1>2, <2>1, PathsTurn
  <2> QED
    BY <2>2, <2>3
<1>5. Ends(U, N, {a}, k) = {x \in N : PathTo(p, a, x, k)}
  BY <1>1, <1>2 DEF Ends
<1>6. Ends(W, N, {a}, k) = {x \in N : PathTo(p, x, a, k)}
  BY <1>1, <1>2, <1>4 DEF Ends
<1> QED
  BY <1>3, <1>5, <1>6 DEF N, U, W

\* A pattern matches what it means.
LEMMA MatchIs ==
  ASSUME TypeOK, NEW p \in Projects, NEW pat \in Pattern, ~Invalid(p, pat),
         pat.kind = "slice" => pat.exact
  PROVE  MatchPattern(p, pat) = {x \in Nodes(p) : Means(p, pat, x)}
<1> DEFINE of == pat.of \cap Nodes(p)
<1>1. /\ pat.kind \in {"plain", "up", "down", "both", "upN", "downN", "slice"}
      /\ pat.n \in Nat /\ of \in SUBSET Nodes(p)
  BY DEF Pattern
<1>2. Reach(UpEdges(p), of) = UpstreamOf(p, of) /\ UpstreamOf(p, of) \subseteq Nodes(p)
  BY <1>1, UpIs
<1>3. Reach(DownEdges(p), of) = {x \in Nodes(p) : \E n \in of : n \in UpstreamOf(p, {x})}
  BY <1>1, DownIs
<1>4. ASSUME NEW n \in of, NEW x
      PROVE  /\ x \in ReachN(UpEdges(p), {n}, pat.n) <=> x \in Nodes(p) /\ PathTo(p, n, x, pat.n)
             /\ x \in ReachN(DownEdges(p), {n}, pat.n) <=> x \in Nodes(p) /\ PathTo(p, x, n, pat.n)
  <2>1. /\ ReachN(UpEdges(p), {n}, pat.n) = {y \in Nodes(p) : PathTo(p, n, y, pat.n)}
        /\ ReachN(DownEdges(p), {n}, pat.n) = {y \in Nodes(p) : PathTo(p, y, n, pat.n)}
    BY <1>1, DegreesAre
  <2> QED
    BY <2>1
<1>5. CASE pat.kind = "plain"
  BY <1>5 DEF MatchPattern, Means
<1>6. CASE pat.kind \in {"up", "down", "both"}
  BY <1>2, <1>3, <1>6 DEF MatchPattern, Means
<1>7. CASE pat.kind = "upN"
  <2>1. MatchPattern(p, pat) = of \cup UNION {ReachN(UpEdges(p), {n}, pat.n) : n \in of}
    BY <1>7 DEF MatchPattern
  <2>2. \A x \in Nodes(p) : Means(p, pat, x) <=> x \in of \/ \E n \in of : PathTo(p, n, x, pat.n)
    BY <1>7 DEF Means
  <2> HIDE DEF of
  <2>3. \A x : x \in MatchPattern(p, pat) <=> x \in of \/ \E n \in of : x \in ReachN(UpEdges(p), {n}, pat.n)
    BY <2>1
  <2>4. \A x : x \in MatchPattern(p, pat) <=> x \in Nodes(p) /\ (x \in of \/ \E n \in of : PathTo(p, n, x, pat.n))
    BY <1>1, <1>4, <2>3
  <2> QED
    BY <2>2, <2>4
<1>8. CASE pat.kind = "downN"
  <2>1. MatchPattern(p, pat) = of \cup UNION {ReachN(DownEdges(p), {n}, pat.n) : n \in of}
    BY <1>8 DEF MatchPattern
  <2>2. \A x \in Nodes(p) : Means(p, pat, x) <=> x \in of \/ \E n \in of : PathTo(p, x, n, pat.n)
    BY <1>8 DEF Means
  <2> HIDE DEF of
  <2>3. \A x : x \in MatchPattern(p, pat) <=> x \in of \/ \E n \in of : x \in ReachN(DownEdges(p), {n}, pat.n)
    BY <2>1
  <2>4. \A x : x \in MatchPattern(p, pat) <=> x \in Nodes(p) /\ (x \in of \/ \E n \in of : PathTo(p, x, n, pat.n))
    BY <1>1, <1>4, <2>3
  <2> QED
    BY <2>2, <2>4
<1>9. CASE pat.kind = "slice"
  <2>1. pat.of = of /\ pat.to \in Nodes(p) /\ {pat.to} \in SUBSET Nodes(p)
    BY <1>9 DEF Invalid
  <2>2. Reach(UpEdges(p), {pat.to}) = UpstreamOf(p, {pat.to}) /\ UpstreamOf(p, {pat.to}) \subseteq Nodes(p)
    BY <2>1, UpIs
  <2>3. MatchPattern(p, pat) =
          of \cup {pat.to} \cup (UpstreamOf(p, {pat.to}) \cap (Reach(DownEdges(p), of) \cup of))
    BY <1>9, <2>1, <2>2 DEF MatchPattern, Slice
  <2>4. \A x \in Nodes(p) :
          Means(p, pat, x) <=> \/ x \in of \/ x = pat.to
                               \/ (\E n \in of : n \in UpstreamOf(p, {x})) /\ x \in UpstreamOf(p, {pat.to})
    BY <1>9 DEF Means
  <2> QED
    BY <1>1, <1>3, <2>1, <2>2, <2>3, <2>4
<1> QED
  BY <1>1, <1>5, <1>6, <1>7, <1>8, <1>9

\* The nodes that are executed are those the selectors ask for, less the excluded ones,
\* in the order of the graph: walking the edges from what a pattern names (GetUpstream,
\* GetDownstream, to N degrees or to the end) finds what its text means.
THEOREM SelectionCorrect == Spec => []SelectsAsAsked
<1>1. ASSUME ProjectInv PROVE SelectsAsAsked
  <2> SUFFICES ASSUME NEW p \in Projects, pc[p] = "compiled"
               PROVE  LET asked == {x \in Nodes(p) :
                            /\ plan.select = <<>> \/ \E i \in DOMAIN plan.select : Means(p, plan.select[i], x)
                            /\ ~\E i \in DOMAIN plan.exclude : Means(p, plan.exclude[i], x)}
                      IN /\ {selected[p][i] : i \in 1..Len(selected[p])} = asked
                         /\ \A i, j \in 1..Len(selected[p]) : i < j =>
                              \E k, l \in 1..Len(order[p]) :
                                k < l /\ order[p][k] = selected[p][i] /\ order[p][l] = selected[p][j]
    BY DEF SelectsAsAsked
  <2> DEFINE chosen == (IF plan.select = <<>> THEN Ordered(p) ELSE Matched(p, plan.select))
                         \ Matched(p, plan.exclude)
             asked == {x \in Nodes(p) :
                         /\ plan.select = <<>> \/ \E i \in DOMAIN plan.select : Means(p, plan.select[i], x)
                         /\ ~\E i \in DOMAIN plan.exclude : Means(p, plan.exclude[i], x)}
  <2>1. /\ TypeOK /\ Ordered(p) = Nodes(p) /\ ~SelectorFails(p) /\ selected[p] \in Apply(p)
    BY <1>1 DEF ProjectInv, Graphs, Graph, SortDone
  <2>2. /\ plan.select \in Seq(Pattern) /\ plan.exclude \in Seq(Pattern)
        /\ \A pat \in {plan.select[i] : i \in DOMAIN plan.select}
                        \cup {plan.exclude[i] : i \in DOMAIN plan.exclude} :
             pat \in Pattern /\ (pat.kind = "slice" => pat.exact) /\ ~Invalid(p, pat)
    <3>1. plan \in Plans /\ IsPlan(plan)
      BY <2>1, PlansAssumption DEF TypeOK
    <3>2. plan.select \in Seq(Pattern) /\ plan.exclude \in Seq(Pattern)
      BY <3>1 DEF IsPlan
    <3>3. /\ \A i \in DOMAIN plan.select : plan.select[i] \in Pattern
          /\ \A i \in DOMAIN plan.exclude : plan.exclude[i] \in Pattern
      <4> HIDE DEF Pattern
      <4> QED
        BY <3>2
    <3> QED
      BY <2>1, <3>1, <3>2, <3>3, PlansAssumption DEF SelectorFails
  <2>3. \A i \in DOMAIN plan.select :
          MatchPattern(p, plan.select[i]) = {x \in Nodes(p) : Means(p, plan.select[i], x)}
    BY <2>1, <2>2, MatchIs
  <2>4. \A i \in DOMAIN plan.exclude :
          MatchPattern(p, plan.exclude[i]) = {x \in Nodes(p) : Means(p, plan.exclude[i], x)}
    BY <2>1, <2>2, MatchIs
  <2>5. chosen = asked
    BY <2>1, <2>3, <2>4 DEF Matched
  <2> DEFINE places == {i \in 1..Len(order[p]) : order[p][i] \in chosen}
  <2>6. PICK q \in Sorted(places) : selected[p] = [k \in DOMAIN q |-> order[p][q[k]]]
    BY <2>1 DEF Apply
  <2> HIDE DEF chosen, asked
  <2>7. Len(order[p]) \in Nat
    BY <2>1, TypedFromTypeOK DEF Typed
  <2>8. places \in SUBSET Nat /\ IsFiniteSet(places)
    <3>1. IsFiniteSet(1..Len(order[p])) /\ places \subseteq 1..Len(order[p]) /\ 1..Len(order[p]) \subseteq Nat
      BY <2>7, FS_Interval
    <3> HIDE DEF places
    <3> QED
      BY <3>1, FS_Subset
  <2>9. /\ q \in Seq(places) /\ Elements(q) = places
        /\ \A i, j \in 1..Len(q) : i < j => q[i] < q[j]
    <3> HIDE DEF places
    <3> QED
      BY <2>8, SortedIs
  <2>10. /\ DOMAIN q = 1..Len(q) /\ Len(q) \in Nat /\ Len(selected[p]) = Len(q)
         /\ \A i \in 1..Len(q) : q[i] \in places /\ selected[p][i] = order[p][q[i]]
    <3> HIDE DEF places
    <3>1. DOMAIN q = 1..Len(q) /\ Len(q) \in Nat /\ \A i \in 1..Len(q) : q[i] \in places
      BY <2>9
    <3> QED
      BY <2>6, <3>1
  <2>11. {selected[p][i] : i \in 1..Len(selected[p])} = asked
    <3>1. ASSUME NEW i \in 1..Len(selected[p]) PROVE selected[p][i] \in asked
      BY <2>5, <2>10
    <3>2. ASSUME NEW x \in asked PROVE \E i \in 1..Len(selected[p]) : selected[p][i] = x
      <4>1. x \in Ordered(p)
        BY <2>1 DEF asked
      <4>2. PICK k \in 1..Len(order[p]) : order[p][k] = x
        BY <4>1 DEF Ordered
      <4>3. k \in Elements(q)
        BY <2>5, <2>9, <4>2
      <4>4. PICK i \in 1..Len(q) : q[i] = k
        BY <4>3 DEF Elements
      <4> QED
        BY <2>10, <4>2, <4>4
    <3> QED
      BY <3>1, <3>2
  <2>12. ASSUME NEW i \in 1..Len(selected[p]), NEW j \in 1..Len(selected[p]), i < j
         PROVE  \E k, l \in 1..Len(order[p]) :
                  k < l /\ order[p][k] = selected[p][i] /\ order[p][l] = selected[p][j]
    <3>1. i \in 1..Len(q) /\ j \in 1..Len(q)
      BY <2>10
    <3>2. q[i] < q[j] /\ q[i] \in 1..Len(order[p]) /\ q[j] \in 1..Len(order[p])
      BY <2>9, <2>10, <2>12, <3>1
    <3> QED
      BY <2>10, <3>1, <3>2
  <2> QED
    BY <2>11, <2>12 DEF asked
<1> QED
  BY <1>1, ProjectCorrect, PTL

=============================================================================
