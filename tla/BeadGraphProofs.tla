--------------------------- MODULE BeadGraphProofs ---------------------------
(***************************************************************************)
(* Theorems about the walks of BeadGraph, in the specification of          *)
(* BeadWatch: for any beads, edges and statuses, any number of walkers,    *)
(* watches, hops and calls that time out.                                  *)
(***************************************************************************)
EXTENDS BeadWatch, FiniteSetTheorems, SequenceTheorems, TLAPS

-----------------------------------------------------------------------------
(* The order of the nodes.                                                 *)

\* A set of naturals that is not empty has a least element.
LEMMA Least ==
    ASSUME NEW S, S \subseteq Nat, S # {}
    PROVE  \E n \in S : \A m \in S : n <= m
<1>1. PICK n \in S : \A m \in S : ~ (<<m, n>> \in OpToRel(<, Nat))
  BY NatLessThanWellFounded, WFMin
<1>2. \A m \in S : ~ (m < n)
  BY <1>1 DEF OpToRel
<1> QED
  BY <1>2

LEMMA MinIsLeast ==
    ASSUME NEW S, S \subseteq Nat, S # {}
    PROVE  Min(S) \in S /\ \A m \in S : Min(S) <= m
BY Least DEF Min

Top == Cardinality(Beads)

LEMMA TopNat == Top \in Nat
BY BeadGraphAssumption, FS_CardinalityType DEF Top

\* One step of the recursion of Placed.
Up(k, f, n) == IF n = 0 THEN {} ELSE f[n - 1] \cup Ready(k, f[n - 1])

\* The recursion defines a function.
LEMMA UpDefines ==
    ASSUME NEW k, NEW N \in Nat
    PROVE  \E f : f = [n \in 0..N |-> Up(k, f, n)]
<1> DEFINE Bad == {n \in Nat : ~ \E f : f = [i \in 0..n |-> Up(k, f, i)]}
<1>1. SUFFICES ASSUME Bad # {} PROVE FALSE
  OBVIOUS
<1>2. PICK n \in Bad : \A m \in Bad : n <= m
  <2>1. Bad \subseteq Nat
    OBVIOUS
  <2> HIDE DEF Bad
  <2> QED
    BY <1>1, <2>1, Least
<1>3. CASE n = 0
  <2> DEFINE g == [i \in 0..n |-> {}]
  <2>1. g = [i \in 0..n |-> Up(k, g, i)]
    BY <1>3 DEF Up
  <2> QED
    BY <2>1, <1>2
<1>4. CASE n # 0
  <2>1. n \in Nat /\ n - 1 \in Nat /\ n - 1 \notin Bad
    BY <1>2, <1>4
  <2>2. PICK f : f = [i \in 0..(n - 1) |-> Up(k, f, i)]
    BY <2>1
  <2> DEFINE g == [i \in 0..n |-> IF i = n THEN f[n - 1] \cup Ready(k, f[n - 1]) ELSE f[i]]
  <2>3. ASSUME NEW i \in 0..n PROVE g[i] = Up(k, g, i)
    <3>1. CASE i = n
      <4>1. g[n - 1] = f[n - 1]
        BY <2>1
      <4> QED
        BY <3>1, <4>1, <2>1, <1>4 DEF Up
    <3>2. CASE i # n /\ i # 0
      <4>1. g[i] = f[i] /\ g[i - 1] = f[i - 1]
        BY <2>1, <3>2
      <4>2. f[i] = Up(k, f, i)
        BY <2>1, <2>2, <3>2
      <4> QED
        BY <4>1, <4>2, <3>2, <2>1 DEF Up
    <3>3. CASE i = 0 /\ i # n
      <4>1. f[i] = Up(k, f, i) /\ g[i] = f[i]
        BY <2>1, <2>2, <3>3
      <4> QED
        BY <4>1, <3>3, <2>1 DEF Up
    <3> QED
      BY <3>1, <3>2, <3>3
  <2>4. g = [i \in 0..n |-> Up(k, g, i)]
    <3>1. g = [i \in 0..n |-> g[i]]
      OBVIOUS
    <3> HIDE DEF g
    <3> QED
      BY <3>1, <2>3
  <2> QED
    BY <2>4, <1>2
<1> QED
  BY <1>3, <1>4

LEMMA PlacedIs ==
    ASSUME NEW k
    PROVE  /\ Placed(k)[0] = {}
           /\ \A n \in 1..Top : Placed(k)[n] = Placed(k)[n - 1] \cup Ready(k, Placed(k)[n - 1])
<1>1. Placed(k) = CHOOSE f : f = [n \in 0..Top |-> Up(k, f, n)]
  BY DEF Placed, Up, Top
<1>2. \E f : f = [n \in 0..Top |-> Up(k, f, n)]
  BY TopNat, UpDefines
<1>3. Placed(k) = [n \in 0..Top |-> Up(k, Placed(k), n)]
  BY <1>1, <1>2
<1>4. \A n \in 0..Top : Placed(k)[n] = Up(k, Placed(k), n)
  BY <1>3
<1>5. 0 \in 0..Top /\ \A n \in 1..Top : n \in 0..Top /\ n # 0
  BY TopNat
<1> QED
  BY <1>4, <1>5 DEF Up

\* The layers grow, within the nodes.
LEMMA PlacedGrows ==
    ASSUME NEW k, NEW n \in 0..Top
    PROVE  Placed(k)[n] \subseteq Placed(k)[Top] /\ Placed(k)[n] \subseteq k.own
<1>1. \A m \in n..Top : Placed(k)[n] \subseteq Placed(k)[m]
  <2> DEFINE Bad == {m \in n..Top : ~ (Placed(k)[n] \subseteq Placed(k)[m])}
  <2>1. SUFFICES ASSUME Bad # {} PROVE FALSE
    OBVIOUS
  <2>2. Bad \subseteq Nat
    BY TopNat
  <2>3. PICK m \in Bad : \A i \in Bad : m <= i
    <3> HIDE DEF Bad
    <3> QED
      BY <2>1, <2>2, Least
  <2>4. m \in 1..Top /\ m - 1 \in n..Top /\ m - 1 \notin Bad
    BY <2>3, TopNat
  <2> QED
    BY <2>3, <2>4, PlacedIs
<1>2. Placed(k)[n] \subseteq k.own
  <2> DEFINE Bad == {m \in 0..Top : ~ (Placed(k)[m] \subseteq k.own)}
  <2>1. SUFFICES ASSUME Bad # {} PROVE FALSE
    OBVIOUS
  <2>2. Bad \subseteq Nat
    BY TopNat
  <2>3. PICK m \in Bad : \A i \in Bad : m <= i
    <3> HIDE DEF Bad
    <3> QED
      BY <2>1, <2>2, Least
  <2>4. CASE m = 0
    BY <2>3, <2>4, PlacedIs
  <2>5. CASE m # 0
    <3>1. m \in 1..Top /\ m - 1 \in 0..Top /\ m - 1 \notin Bad
      BY <2>3, <2>5, TopNat
    <3> QED
      BY <2>3, <3>1, PlacedIs DEF Ready
  <2> QED
    BY <2>4, <2>5
<1> QED
  BY <1>1, <1>2, TopNat

\* Every node is in a later layer than what it waits for.
LEMMA LayersOrder ==
    ASSUME NEW k, Placed(k)[Top] = k.own,
           NEW b \in k.own, NEW a \in k.deps[b] \cap k.own
    PROVE  Min({n \in 1..Top : a \in Placed(k)[n]}) < Min({n \in 1..Top : b \in Placed(k)[n]})
<1> DEFINE AtLayer(x) == {n \in 1..Top : x \in Placed(k)[n]}
<1>1. ASSUME NEW x \in k.own PROVE Top \in AtLayer(x) /\ AtLayer(x) \subseteq Nat
  <2>1. Top # 0
    BY PlacedIs
  <2> QED
    BY <2>1, TopNat
<1>2. ASSUME NEW x \in k.own PROVE Min(AtLayer(x)) \in AtLayer(x) /\ \A m \in AtLayer(x) : Min(AtLayer(x)) <= m
  <2> HIDE DEF AtLayer
  <2> QED
    BY <1>1, MinIsLeast
<1> DEFINE n == Min(AtLayer(b))
<1>3. n \in 1..Top /\ n - 1 \in 0..Top /\ b \in Placed(k)[n] /\ b \notin Placed(k)[n - 1]
  <2>1. n \in 1..Top /\ b \in Placed(k)[n] /\ \A m \in AtLayer(b) : n <= m
    BY <1>2
  <2> HIDE DEF n
  <2>2. n - 1 \in 0..Top /\ (n - 1 = 0 \/ n - 1 \in 1..Top)
    BY <2>1, TopNat
  <2>3. n - 1 \notin AtLayer(b)
    BY <2>1, <2>2, TopNat
  <2> QED
    BY <2>1, <2>2, <2>3, PlacedIs
<1> HIDE DEF n
<1>4. a \in Placed(k)[n - 1]
  BY <1>3, PlacedIs DEF Ready
<1>5. n - 1 \in AtLayer(a)
  <2>1. n - 1 # 0
    BY <1>4, PlacedIs
  <2> QED
    BY <1>3, <1>4, <2>1, TopNat
<1>6. Min(AtLayer(a)) <= n - 1 /\ Min(AtLayer(a)) \in Nat
  <2>1. a \in k.own
    OBVIOUS
  <2>2. AtLayer(a) \subseteq Nat
    BY TopNat
  <2> HIDE DEF AtLayer
  <2> QED
    BY <1>2, <1>5, <2>1, <2>2
<1>7. Min(AtLayer(a)) < n
  BY <1>3, <1>6, TopNat
<1> QED
  BY <1>7 DEF n

\* If the layers do not take up all nodes, some nodes wait for each other in a circle.
LEMMA StuckMeansCycle ==
    ASSUME NEW k, k.own \subseteq Beads, Placed(k)[Top] # k.own
    PROVE  \E C \in SUBSET k.own : C # {} /\ \A b \in C : k.deps[b] \cap C # {}
<1> DEFINE P(n) == Placed(k)[n]
<1>1. \A n \in 0..Top : P(n) \subseteq k.own /\ P(n) \subseteq P(Top) /\ IsFiniteSet(P(n))
                          /\ Cardinality(P(n)) \in Nat
  BY PlacedGrows, FS_Subset, FS_CardinalityType, BeadGraphAssumption
<1>2. PICK n \in 1..Top : P(n) = P(n - 1)
  <2>1. SUFFICES ASSUME \A n \in 1..Top : P(n) # P(n - 1) PROVE FALSE
    OBVIOUS
  <2> DEFINE Bad == {n \in 0..Top : ~ (Cardinality(P(n)) >= n)}
  <2>2. Bad = {}
    <3>1. SUFFICES ASSUME Bad # {} PROVE FALSE
      OBVIOUS
    <3>2. Bad \subseteq Nat
      BY TopNat
    <3>3. PICK m \in Bad : \A i \in Bad : m <= i
      <4> HIDE DEF Bad
      <4> QED
        BY <3>1, <3>2, Least
    <3>4. m # 0
      BY <1>1, <3>3, TopNat
    <3>5. m \in 1..Top /\ m - 1 \in 0..Top /\ m - 1 \notin Bad
      BY <3>3, <3>4, TopNat
    <3>6. P(m - 1) \subseteq P(m) /\ P(m - 1) # P(m)
      BY <2>1, <3>5, PlacedIs
    <3>7. Cardinality(P(m - 1)) < Cardinality(P(m))
      <4>1. IsFiniteSet(P(m)) /\ m \in 0..Top
        BY <1>1, <3>5, TopNat
      <4> HIDE DEF P
      <4> QED
        BY <1>1, <3>5, <3>6, <4>1, FS_Subset, FS_CardinalityType
    <3>8. Cardinality(P(m - 1)) \in Nat /\ Cardinality(P(m)) \in Nat /\ m \in 0..Top
      BY <1>1, <3>5, TopNat
    <3>9. Cardinality(P(m - 1)) >= m - 1 /\ ~ (Cardinality(P(m)) >= m)
      BY <3>3, <3>5
    <3> HIDE DEF P, Bad
    <3> QED
      BY <3>7, <3>8, <3>9, TopNat
  <2>3. Cardinality(P(Top)) >= Top
    BY <2>2, TopNat
  <2>4. Cardinality(P(Top)) <= Top /\ P(Top) \subseteq Beads
    BY <1>1, FS_Subset, BeadGraphAssumption, TopNat DEF Top
  <2>5. Cardinality(P(Top)) = Cardinality(Beads)
    BY <2>3, <2>4, <1>1, TopNat DEF Top
  <2>6. P(Top) = Beads
    <3> HIDE DEF P
    <3> QED
      BY <2>4, <2>5, FS_Subset, BeadGraphAssumption
  <2>7. Top \in 0..Top /\ P(Top) # k.own
    BY TopNat
  <2> HIDE DEF P
  <2> QED
    BY <2>6, <2>7, <1>1
<1> DEFINE C == k.own \ P(n - 1)
<1>3. n - 1 \in 0..Top
  BY TopNat
<1>4. C # {}
  <2>1. P(n - 1) \subseteq P(Top) /\ P(Top) \subseteq k.own
    BY <1>1, <1>3, TopNat
  <2> QED
    BY <2>1
<1>5. ASSUME NEW b \in C PROVE k.deps[b] \cap C # {}
  <2>1. b \notin Ready(k, P(n - 1))
    BY <1>2, PlacedIs
  <2> QED
    BY <2>1 DEF Ready
<1> QED
  BY <1>4, <1>5

-----------------------------------------------------------------------------
(* The queue, and the line of the first parents.                           *)

\* The queue's entries for some rows are the edges of its beads.
LEMMA EdgesAre ==
    ASSUME NEW B, IsFiniteSet(B), NEW rows \in SetToSeqs(B)
    PROVE  /\ EdgesOf(rows) \in Seq(B \X Edges)
           /\ \A b \in B, e \in Edges : \E i \in DOMAIN EdgesOf(rows) : EdgesOf(rows)[i] = <<b, e>>
<1> DEFINE n == Cardinality(B)
<1>1. n \in Nat /\ IsFiniteSet(1..n) /\ Cardinality(1..n) = n
  BY FS_CardinalityType, FS_Interval
<1>2. rows \in [1..n -> B] /\ \A i, j \in 1..n : i # j => rows[i] # rows[j]
  BY DEF SetToSeqs
<1>3. Len(rows) = n
  BY <1>1, <1>2
<1>4. \A b \in B : \E i \in 1..n : rows[i] = b
  <2>1. rows \in Injection(1..n, B)
    BY <1>2 DEF Injection, IsInjective
  <2> HIDE DEF n
  <2>2. rows \in Surjection(1..n, B)
    BY <1>1, <2>1, FS_Injection DEF n
  <2> QED
    BY <2>2 DEF Surjection
<1> HIDE DEF n
<1>5. EdgesOf(rows) \in [1..2 * n -> B \X Edges]
  <2>1. ASSUME NEW i \in 1..2 * n
        PROVE  /\ (i + 1) \div 2 \in 1..n
               /\ (IF i % 2 = 1 THEN "parent-child" ELSE "blocks") \in Edges
    BY <1>1 DEF Edges
  <2>2. \A i \in 1..2 * n : rows[(i + 1) \div 2] \in B
    BY <1>2, <2>1
  <2> QED
    BY <1>3, <2>1, <2>2 DEF EdgesOf
<1>6. ASSUME NEW b \in B, NEW e \in Edges
      PROVE  \E i \in DOMAIN EdgesOf(rows) : EdgesOf(rows)[i] = <<b, e>>
  <2>1. PICK j \in 1..n : rows[j] = b
    BY <1>4
  <2> DEFINE i == IF e = "parent-child" THEN 2 * j - 1 ELSE 2 * j
  <2>2. /\ i \in 1..2 * n /\ (i + 1) \div 2 = j
        /\ (IF i % 2 = 1 THEN "parent-child" ELSE "blocks") = e
    BY <1>1 DEF Edges
  <2>3. i \in DOMAIN EdgesOf(rows)
    BY <1>5, <2>2
  <2> HIDE DEF i
  <2>4. EdgesOf(rows)[i] = <<b, e>>
    BY <1>3, <2>1, <2>2 DEF EdgesOf
  <2> QED
    BY <2>3, <2>4
<1>7. EdgesOf(rows) \in Seq(B \X Edges)
  <2> DEFINE q == EdgesOf(rows)
             S == B \X Edges
  <2>1. 2 * n \in Nat
    BY <1>1
  <2>2. q \in [1..2 * n -> S]
    BY <1>5
  <2> HIDE DEF q, S
  <2>3. q \in Seq(S)
    BY <2>1, <2>2
  <2> QED
    BY <2>3 DEF q, S
<1> QED
  BY <1>6, <1>7

LEMMA RootEdges ==
    ASSUME NEW b
    PROVE  /\ EdgesOf(<<b>>) \in Seq({b} \X Edges)
           /\ \A e \in Edges : \E i \in DOMAIN EdgesOf(<<b>>) : EdgesOf(<<b>>)[i] = <<b, e>>
<1>1. IsFiniteSet({b}) /\ Cardinality({b}) = 1
  BY FS_Singleton
<1>2. <<b>> \in SetToSeqs({b})
  BY <1>1 DEF SetToSeqs
<1> QED
  BY <1>1, <1>2, EdgesAre

\* A set that has every bead whose first parent it has.
Climbable(parents, S) == \A y \in Beads : parents[y] # {} /\ Min(parents[y]) \in S => y \in S

\* The beads from which the first parents lead to t.
Under(parents, t) ==
    {x \in Beads : \A S \in SUBSET Beads : t \in S /\ Climbable(parents, S) => x \in S}

LEMMA UnderItself ==
    ASSUME NEW parents, NEW t \in Beads
    PROVE  t \in Under(parents, t) /\ Climbable(parents, Under(parents, t))
BY DEF Under, Climbable

\* Who is under a bead is under its first parent too.
LEMMA UnderRises ==
    ASSUME NEW parents, NEW t \in Beads, parents[t] # {}, Min(parents[t]) \in Beads
    PROVE  Under(parents, t) \subseteq Under(parents, Min(parents[t]))
BY DEF Under, Climbable

\* The first parent of a bead is under what the bead is under, unless that is the bead.
LEMMA UnderStep ==
    ASSUME NEW parents, NEW t \in Beads, NEW x \in Under(parents, t), x # t
    PROVE  parents[x] # {} /\ Min(parents[x]) \in Under(parents, t)
<1> DEFINE S == {y \in Under(parents, t) :
                    y = t \/ (parents[y] # {} /\ Min(parents[y]) \in Under(parents, t))}
<1>1. S \in SUBSET Beads /\ t \in S
  BY UnderItself DEF Under
<1>2. Climbable(parents, S)
  BY UnderItself DEF Climbable
<1>3. x \in S
  BY <1>1, <1>2 DEF Under
<1> QED
  BY <1>3

\* The first parents lead to one end.
LEMMA OneEnd ==
    ASSUME NEW parents, NEW t \in Beads, NEW u \in Beads, parents[t] = {}, parents[u] = {},
           NEW x \in Under(parents, t) \cap Under(parents, u)
    PROVE  t = u
<1> SUFFICES ASSUME t # u PROVE FALSE
  OBVIOUS
<1>1. t \notin Under(parents, u)
  BY UnderStep
<1> DEFINE S == Under(parents, t) \ Under(parents, u)
<1>2. S \in SUBSET Beads /\ t \in S
  BY <1>1, UnderItself DEF Under
<1>3. ASSUME NEW y \in Beads, parents[y] # {}, Min(parents[y]) \in S PROVE y \in S
  <2>1. y \in Under(parents, t)
    BY <1>3, UnderItself DEF Climbable
  <2>2. y \notin Under(parents, u)
    <3>1. y # u
      BY <1>3
    <3> QED
      BY <1>3, <3>1, UnderStep
  <2> QED
    BY <2>1, <2>2
<1>4. Climbable(parents, S)
  BY <1>3 DEF Climbable
<1>5. x \in S
  BY <1>2, <1>4 DEF Under
<1> QED
  BY <1>5

-----------------------------------------------------------------------------
(* Types.                                                                  *)

LEMMA GraphKnown ==
    ASSUME GraphTypeOK
    PROVE  /\ graph.parents \in [Beads -> SUBSET Beads]
           /\ graph.blockers \in [Beads -> SUBSET Beads]
           /\ graph.numbered \in Seq(Beads \cup {NoBead})
           /\ \A b \in Beads : Listed(b) \subseteq Beads
           /\ \A b \in Beads, e \in Edges : Dependents(b, e) \subseteq Beads
           /\ \A b \in Beads, e \in Edges : Depends(b, e) \subseteq Beads
<1>1. PICK s \in Starts : graph = s.graph
  BY DEF GraphTypeOK
<1>2. /\ graph.parents \in [Beads -> SUBSET Beads]
      /\ graph.blockers \in [Beads -> SUBSET Beads]
      /\ graph.numbered \in Seq(Beads \cup {NoBead})
  BY <1>1, BeadGraphAssumption
<1> QED
  BY <1>2 DEF Listed, Dependents, Depends, Above, Edges

LEMMA FirstParentKnown ==
    ASSUME NEW P, P \subseteq Beads, P # {}
    PROVE  Min(P) \in P
BY MinIsLeast, BeadGraphAssumption

\* A step that gives one walk a new record.
LEMMA SetType ==
    ASSUME GraphTypeOK, NEW w \in Walkers, NEW rec \in Walking, Set(w, rec), Tracker,
           Fine \/ Fault
    PROVE  GraphTypeOK'
<1>1. walk' \in [Walkers -> Walking]
  BY DEF GraphTypeOK, Set
<1>2. faults' \in 0..MaxFaults
  BY BeadGraphAssumption DEF GraphTypeOK, Fine, Fault
<1> QED
  BY <1>1, <1>2 DEF GraphTypeOK, Tracker

LEMMA WalkKnown ==
    ASSUME GraphTypeOK, NEW w \in Walkers
    PROVE  walk[w] \in Walking
BY DEF GraphTypeOK

LEMMA RootKnown ==
    ASSUME NEW b \in Beads
    PROVE  EdgesOf(<<b>>) \in Seq(Beads \X Edges)
<1>1. {b} \X Edges \subseteq Beads \X Edges
  OBVIOUS
<1> QED
  BY <1>1, RootEdges, SeqMonotonic

LEMMA BeginType ==
    ASSUME GraphTypeOK, NEW w \in Walkers, Begin(w)
    PROVE  GraphTypeOK'
<1> DEFINE k == walk[w]
<1>1. k \in Walking /\ k.task.root \in Beads /\ k.task.ids \in SUBSET Beads
  BY WalkKnown DEF Walking, Tasks
<1>2. EdgesOf(<<k.task.root>>) \in Seq(Beads \X Edges)
  BY <1>1, RootKnown
<1> HIDE DEF k
<1> DEFINE queue == EdgesOf(<<k.task.root>>)
           ids == k.task.ids
<1> HIDE DEF queue, ids
<1>3. /\ \A at \in WalkPCs : [k EXCEPT !.at = at] \in Walking
      /\ [k EXCEPT !.at = "show", !.ask = ids] \in Walking
      /\ \A at \in WalkPCs : [k EXCEPT !.at = at, !.todo = queue] \in Walking
  <2>1. queue \in Seq(Beads \X Edges) /\ ids \in SUBSET Beads
    BY <1>1, <1>2 DEF queue, ids
  <2>2. \A at \in WalkPCs : [k EXCEPT !.at = at] \in Walking
    BY <1>1 DEF Walking
  <2>3. [k EXCEPT !.at = "show", !.ask = ids] \in Walking
    BY <1>1, <2>1 DEF Walking, WalkPCs
  <2>4. \A at \in WalkPCs : [k EXCEPT !.at = at, !.todo = queue] \in Walking
    BY <1>1, <2>1 DEF Walking
  <2> QED
    BY <2>2, <2>3, <2>4
<1>4. {"seed", "done", "probe", "sort", "root", "bfs"} \subseteq WalkPCs
  BY DEF WalkPCs
<1>5. PICK rec \in Walking : Set(w, rec)
  BY <1>3, <1>4 DEF Begin, k, queue, ids
<1> QED
  BY <1>5, SetType DEF Begin

LEMMA ClimbType ==
    ASSUME GraphTypeOK, NEW w \in Walkers, Climb(w)
    PROVE  GraphTypeOK'
<1> DEFINE k == walk[w]
           P == Depends(k.cur, "parent-child")
<1>1. k \in Walking /\ k.cur \in Beads
  BY WalkKnown DEF Walking
<1>2. P \subseteq Beads
  BY <1>1, GraphKnown DEF Edges
<1>3. \A at \in WalkPCs : [k EXCEPT !.at = at] \in Walking
  BY <1>1 DEF Walking
<1>4. ASSUME NEW p \in Beads, k.hops < MaxHops
      PROVE  [k EXCEPT !.cur = p, !.seen = @ \cup {p}, !.hops = @ + 1] \in Walking
  <2>1. k.hops + 1 \in 0..MaxHops
    BY <1>1, <1>4, BeadGraphAssumption DEF Walking
  <2> HIDE DEF k
  <2> QED
    BY <1>1, <2>1 DEF Walking
<1>5. "done" \in WalkPCs /\ "raised" \in WalkPCs
  BY DEF WalkPCs
<1>6. ASSUME SeedStep(w, P), k.hops < MaxHops PROVE \E rec \in Walking : Set(w, rec)
  <2>1. P # {} => \A p \in FirstParent(P) : p \in Beads
    BY <1>2, FirstParentKnown DEF FirstParent
  <2> HIDE DEF P
  <2> QED
    BY <1>3, <1>4, <1>5, <1>6, <2>1 DEF SeedStep
<1>7. PICK rec \in Walking : Set(w, rec)
  BY <1>3, <1>5, <1>6 DEF Climb
<1> QED
  BY <1>7, SetType DEF Climb

LEMMA ShowRootType ==
    ASSUME GraphTypeOK, NEW w \in Walkers, ShowRoot(w)
    PROVE  GraphTypeOK'
<1> DEFINE k == walk[w]
           b == k.task.root
           there == Available /\ (k.task.closedToo \/ status[b] # "closed")
<1>1. k \in Walking /\ b \in Beads
  BY WalkKnown DEF Walking, Tasks
<1>2. status[b] \in Statuses
  BY <1>1 DEF GraphTypeOK
<1> HIDE DEF k, b, there
<1>3. [k EXCEPT !.at = "bfs"] \in Walking
  BY <1>1 DEF Walking, WalkPCs
<1>4. [k EXCEPT !.at = "bfs", !.found[b] = IF there THEN status[b] ELSE @] \in Walking
  BY <1>1, <1>2 DEF Walking, WalkPCs
<1>5. PICK rec \in Walking : Set(w, rec)
  BY <1>3, <1>4 DEF ShowRoot, k, b, there
<1> QED
  BY <1>5, SetType DEF ShowRoot

LEMMA ExpandType ==
    ASSUME GraphTypeOK, NEW w \in Walkers, Expand(w)
    PROVE  GraphTypeOK'
<1> DEFINE k == walk[w]
           left == Tail(k.todo)
           new == Dependents(Head(k.todo)[1], Head(k.todo)[2]) \ k.seen
<1>1. k \in Walking /\ k.todo \in Seq(Beads \X Edges) /\ k.todo # <<>>
  BY WalkKnown DEF Walking, Expand
<1>2. left \in Seq(Beads \X Edges) /\ Head(k.todo) \in Beads \X Edges
  BY <1>1
<1>3. new \subseteq Beads /\ IsFiniteSet(Onward(new))
  BY <1>2, GraphKnown, FS_Subset, BeadGraphAssumption DEF Onward
<1>4. status \in [Beads -> Statuses]
  BY DEF GraphTypeOK
<1> HIDE DEF k, left, new
<1>5. [k EXCEPT !.todo = left] \in Walking
  BY <1>1, <1>2 DEF Walking
<1>6. ASSUME NEW rows \in SetToSeqs(Onward(new))
      PROVE  [k EXCEPT !.todo = left \o EdgesOf(rows), !.seen = @ \cup new,
                       !.found = [x \in Beads |-> IF x \in new THEN status[x] ELSE @[x]]] \in Walking
  <2>1. EdgesOf(rows) \in Seq(Beads \X Edges)
    <3>1. EdgesOf(rows) \in Seq(Onward(new) \X Edges)
      BY <1>3, EdgesAre
    <3> QED
      BY <1>3, <3>1 DEF Onward
  <2>2. left \o EdgesOf(rows) \in Seq(Beads \X Edges)
    BY <1>2, <2>1
  <2> QED
    BY <1>1, <1>3, <1>4, <2>2 DEF Walking
<1>7. PICK rec \in Walking : Set(w, rec)
  BY <1>5, <1>6 DEF Expand, k, left, new
<1> QED
  BY <1>7, SetType DEF Expand

LEMMA FilterType ==
    ASSUME GraphTypeOK, NEW w \in Walkers, Filter(w)
    PROVE  GraphTypeOK'
<1> DEFINE k == walk[w]
<1>1. k \in Walking /\ Kept(k) \subseteq Beads
  BY WalkKnown DEF Kept
<1> HIDE DEF k
<1>2. [k EXCEPT !.at = "blockers", !.own = Kept(k), !.ask = Kept(k)] \in Walking
  BY <1>1 DEF Walking, WalkPCs
<1> QED
  BY <1>2, SetType DEF Filter, k

LEMMA AskBlockersType ==
    ASSUME GraphTypeOK, NEW w \in Walkers, AskBlockers(w)
    PROVE  GraphTypeOK'
<1> DEFINE k == walk[w]
           b == Min(k.ask)
<1>1. k \in Walking /\ b \in Beads
  BY WalkKnown, FirstParentKnown DEF AskBlockers, Walking
<1>2. Depends(b, "blocks") \cap k.own \subseteq Beads
  BY <1>1, GraphKnown DEF Edges
<1> HIDE DEF k, b
<1>3. /\ [k EXCEPT !.ask = @ \ {b}] \in Walking
      /\ [k EXCEPT !.ask = @ \ {b}, !.deps[b] = Depends(b, "blocks") \cap k.own] \in Walking
  BY <1>1, <1>2 DEF Walking
<1>4. PICK rec \in Walking : Set(w, rec)
  BY <1>3 DEF AskBlockers, k, b
<1> QED
  BY <1>4, SetType DEF AskBlockers

LEMMA BlockersAskedType ==
    ASSUME GraphTypeOK, NEW w \in Walkers, BlockersAsked(w)
    PROVE  GraphTypeOK'
<1>1. walk[w] \in Walking
  BY WalkKnown
<1>2. [walk[w] EXCEPT !.at = AfterNodes(Task(w).kind)] \in Walking
  BY <1>1 DEF Walking, WalkPCs, AfterNodes
<1> QED
  BY <1>2, SetType DEF BlockersAsked

LEMMA ProbeType ==
    ASSUME GraphTypeOK, NEW w \in Walkers, Probe(w)
    PROVE  GraphTypeOK'
<1> DEFINE k == walk[w]
           b == Numbered(k.next)
           further == [k EXCEPT !.next = @ + 1]
           missed == [further EXCEPT !.misses = @ + 1]
<1>1. k \in Walking /\ k.misses < 3 /\ k.next \in Nat \ {0} /\ k.misses \in 0..3
      /\ 0 \in 0..3
  BY WalkKnown DEF Walking, Probe
<1>2. b # NoBead => b \in Beads
  BY <1>1, GraphKnown DEF Numbered
<1> HIDE DEF k, b
<1>3. further \in Walking
  <2>1. k.next + 1 \in Nat \ {0}
    BY <1>1
  <2> QED
    BY <1>1, <2>1 DEF Walking
<1>4. missed \in Walking
  <2>1. further.misses + 1 \in 0..3
    BY <1>1 DEF Walking
  <2> HIDE DEF further
  <2> QED
    BY <1>3, <2>1 DEF Walking
<1>5. ASSUME b # NoBead
      PROVE  [further EXCEPT !.misses = 0,
                             !.ask = @ \cup (IF status[b] = "open" THEN {b} ELSE {})] \in Walking
  <2> DEFINE one == IF status[b] = "open" THEN {b} ELSE {}
  <2>1. one \subseteq Beads
    BY <1>2, <1>5
  <2> HIDE DEF further, one
  <2>2. ASSUME NEW m \in 0..3, NEW asked \in SUBSET Beads
        PROVE  [further EXCEPT !.misses = m, !.ask = asked] \in Walking
    BY <1>3 DEF Walking
  <2>3. further.ask \cup one \in SUBSET Beads
    BY <1>3, <2>1 DEF Walking
  <2> QED
    BY <1>1, <2>2, <2>3 DEF one
<1> HIDE DEF further, missed
<1>6. PICK rec \in Walking : Set(w, rec)
  BY <1>3, <1>4, <1>5 DEF Probe, k, b, further, missed
<1> QED
  BY <1>6, SetType DEF Probe

LEMMA UniteType ==
    ASSUME GraphTypeOK, NEW w \in Walkers, Unite(w)
    PROVE  GraphTypeOK'
<1> DEFINE k == walk[w]
<1>1. k \in Walking /\ k.ask \subseteq Beads
  BY WalkKnown DEF Walking
<1>2. \A b \in Beads : Listed(b) \subseteq Beads
  BY GraphKnown
<1> HIDE DEF k
<1>3. [k EXCEPT !.at = "sort", !.own = @ \cup k.ask, !.ask = {},
                !.deps = [b \in Beads |-> IF b \in k.ask THEN @[b] \cup (Listed(b) \cap k.ask)
                                          ELSE @[b]]] \in Walking
  BY <1>1, <1>2 DEF Walking, WalkPCs
<1> QED
  BY <1>3, SetType DEF Unite, k

LEMMA ShowType ==
    ASSUME GraphTypeOK, NEW w \in Walkers, Show(w)
    PROVE  GraphTypeOK'
<1> DEFINE k == walk[w]
           b == Min(k.ask)
<1>1. k \in Walking /\ b \in Beads
  BY WalkKnown, FirstParentKnown DEF Show, Walking
<1>2. status[b] \in Statuses
  BY <1>1 DEF GraphTypeOK
<1> HIDE DEF k, b
<1>3. /\ [k EXCEPT !.ask = @ \ {b}] \in Walking
      /\ [k EXCEPT !.ask = @ \ {b}, !.found[b] = IF Available THEN status[b] ELSE @] \in Walking
  BY <1>1, <1>2 DEF Walking
<1>4. PICK rec \in Walking : Set(w, rec)
  BY <1>3 DEF Show, k, b
<1> QED
  BY <1>4, SetType DEF Show

LEMMA ShownType ==
    ASSUME GraphTypeOK, NEW w \in Walkers, Shown(w)
    PROVE  GraphTypeOK'
<1> DEFINE k == walk[w]
           ids == k.task.ids
<1>1. k \in Walking /\ ids \subseteq Beads
  BY WalkKnown DEF Walking, Tasks
<1> HIDE DEF k, ids
<1>2. /\ [k EXCEPT !.at = "blockers", !.own = ids, !.ask = ids] \in Walking
      /\ [k EXCEPT !.at = "unknown"] \in Walking
  BY <1>1 DEF Walking, WalkPCs
<1>3. PICK rec \in Walking : Set(w, rec)
  BY <1>2 DEF Shown, k, ids
<1> QED
  BY <1>3, SetType DEF Shown

LEMMA SortType ==
    ASSUME GraphTypeOK, NEW w \in Walkers, Sort(w)
    PROVE  GraphTypeOK'
<1> DEFINE k == walk[w]
           layer(b) == Min({n \in 1..Top : b \in Placed(k)[n]})
<1>1. k \in Walking
  BY WalkKnown
<1>2. ASSUME Placed(k)[Top] = k.own, NEW b \in k.own PROVE layer(b) \in Int
  <2> DEFINE N == {n \in 1..Top : b \in Placed(k)[n]}
  <2>1. Top # 0
    BY <1>2, PlacedIs
  <2>2. N \subseteq Nat /\ N # {}
    BY <1>2, <2>1, TopNat
  <2> HIDE DEF N
  <2>3. Min(N) \in Nat
    BY <2>2, MinIsLeast
  <2> QED
    BY <2>3 DEF N
<1> HIDE DEF k, layer
<1>3. /\ [k EXCEPT !.at = "cycle"] \in Walking
      /\ Placed(k)[Top] = k.own =>
            [k EXCEPT !.at = "done",
                      !.layers = [b \in Beads |-> IF b \in k.own THEN layer(b) ELSE -1]] \in Walking
  <2> DEFINE layers == [b \in Beads |-> IF b \in k.own THEN layer(b) ELSE -1]
  <2>1. Placed(k)[Top] = k.own => layers \in [Beads -> Int]
    BY <1>2
  <2> HIDE DEF layers
  <2>2. [k EXCEPT !.at = "cycle"] \in Walking
    BY <1>1 DEF Walking, WalkPCs
  <2>3. layers \in [Beads -> Int] => [k EXCEPT !.at = "done", !.layers = layers] \in Walking
    BY <1>1 DEF Walking, WalkPCs
  <2> QED
    BY <2>1, <2>2, <2>3 DEF layers
<1>4. PICK rec \in Walking : Set(w, rec)
  BY <1>3 DEF Sort, k, layer, Top
<1> QED
  BY <1>4, SetType DEF Sort

LEMMA StatusType ==
    ASSUME GraphTypeOK, NEW b \in Beads, CloseBead(b) \/ Edit(b)
    PROVE  GraphTypeOK'
<1>1. status' \in [Beads -> Statuses]
  <2>1. CASE CloseBead(b)
    BY <2>1 DEF GraphTypeOK, CloseBead, Closes, Statuses
  <2>2. CASE Edit(b)
    <3>1. PICK s \in {"open", "blocked"} :
             status' = [status EXCEPT ![b] = IF @ = "closed" THEN @ ELSE s]
      BY <2>2 DEF Edit
    <3> QED
      BY <3>1 DEF GraphTypeOK, Statuses
  <2> QED
    BY <2>1, <2>2
<1>2. UNCHANGED <<rig, graph, walk, faults>>
  BY DEF CloseBead, Closes, Edit
<1> QED
  BY <1>1, <1>2 DEF GraphTypeOK

LEMMA InitType == WatchInit => GraphTypeOK
<1> SUFFICES ASSUME WatchInit PROVE GraphTypeOK
  OBVIOUS
<1>1. PICK start \in Starts : GraphInit(start)
  BY DEF WatchInit
<1>2. ASSUME NEW w \in Walkers PROVE Begun(start.tasks[w]) \in Walking
  <2> DEFINE t == start.tasks[w]
  <2>1. t \in Tasks /\ t.root \in Beads
    BY <1>1, BeadGraphAssumption DEF Tasks
  <2> HIDE DEF t
  <2>2. Begun(t) \in Walking
    BY <2>1, BeadGraphAssumption DEF Begun, Walking, WalkPCs
  <2> QED
    BY <2>2 DEF t
<1>3. walk \in [Walkers -> Walking]
  BY <1>1, <1>2 DEF GraphInit
<1> QED
  BY <1>1, <1>3, BeadGraphAssumption DEF GraphInit, GraphTypeOK

LEMMA WalkType ==
    ASSUME GraphTypeOK, NEW w \in Walkers, WalkStep(w)
    PROVE  GraphTypeOK'
BY BeginType, ClimbType, ShowRootType, ExpandType, AskBlockersType, ShowType, FilterType,
   BlockersAskedType, ProbeType, UniteType, ShownType, SortType DEF WalkStep

\* A watch changes no walk; its calls may time out too.
LEMMA WatchesAside ==
    ASSUME GraphTypeOK, NEW w \in Watchers, WatchStep(w) \/ Cancel(w) \/ Deadline(w)
    PROVE  UNCHANGED <<rig, graph, status, walk>> /\ faults' \in 0..MaxFaults /\ faults' >= faults
<1>1. UNCHANGED <<rig, graph, status, walk>> /\ (UNCHANGED faults \/ Fault)
  BY DEF WatchStep, StartWatch, FirstSnapshot, Wake, Compare, Snapshot, Cancel, Deadline, Beadless
<1> QED
  BY <1>1, BeadGraphAssumption DEF Fault, GraphTypeOK

\* The types of the walks, whatever is walked, watched and edited (list_subgraph,
\* list_epic_children, collect_explicit_children, resolve_seed_bead and topo_sort_blocks).
THEOREM GraphTyping == WatchSpec => []GraphTypeOK
<1>1. WatchInit => GraphTypeOK
  BY InitType
<1>2. ASSUME GraphTypeOK, [WatchNext]_watchVars PROVE GraphTypeOK'
  <2>1. CASE \E w \in Walkers : WalkStep(w)
    BY <1>2, <2>1, WalkType
  <2>2. CASE \E w \in Watchers : WatchStep(w) \/ Cancel(w) \/ Deadline(w)
    BY <1>2, <2>2, WatchesAside DEF GraphTypeOK
  <2>3. CASE \E b \in Beads : CloseBead(b) \/ Edit(b)
    BY <1>2, <2>3, StatusType
  <2>4. CASE UNCHANGED watchVars
    BY <1>2, <2>4 DEF GraphTypeOK, watchVars, graphVars
  <2> QED
    BY <1>2, <2>1, <2>2, <2>3, <2>4 DEF WatchNext
<1> QED
  BY <1>1, <1>2, PTL DEF WatchSpec

-----------------------------------------------------------------------------
(* The walks, one step at a time: what an action makes of the record k of  *)
(* the walk that it is of.                                                 *)

LEMMA SetIs ==
    ASSUME GraphTypeOK, NEW w \in Walkers, NEW rec, Set(w, rec)
    PROVE  walk'[w] = rec /\ \A v \in Walkers : v # w => walk'[v] = walk[v]
BY DEF Set, GraphTypeOK

BeginDoes(k, j) ==
    /\ <<j.task, j.seen, j.found, j.own, j.deps, j.cur>>
          = <<k.task, k.seen, k.found, k.own, k.deps, k.cur>>
    /\ \/ k.task.kind = "seed" /\ j.at = (IF rig.bd THEN "seed" ELSE "done")
       \/ k.task.kind = "ids" /\ j.at = (IF rig.bd THEN "probe" ELSE "sort")
       \/ k.task.kind = "explicit" /\ j.at = "show"
       \/ /\ k.task.kind \in {"subgraph", "deps", "both"} /\ j.at \in {"root", "bfs"}
          /\ j.todo = EdgesOf(<<k.task.root>>)

LEMMA BeginIs ==
    ASSUME GraphTypeOK, NEW w \in Walkers, Begin(w)
    PROVE  BeginDoes(walk[w], walk'[w])
<1> DEFINE k == walk[w]
           j == walk'[w]
<1>1. k \in Walking /\ k.task.kind \in Kinds
  BY WalkKnown DEF Walking, Tasks
<1>2. \/ k.task.kind = "seed" /\ j = [k EXCEPT !.at = IF rig.bd THEN "seed" ELSE "done"]
      \/ k.task.kind = "ids" /\ j = [k EXCEPT !.at = IF rig.bd THEN "probe" ELSE "sort"]
      \/ k.task.kind = "explicit" /\ j = [k EXCEPT !.at = "show", !.ask = k.task.ids]
      \/ /\ k.task.kind \in {"subgraph", "deps", "both"}
         /\ j = [k EXCEPT !.at = IF k.task.rootToo THEN "root" ELSE "bfs",
                          !.todo = EdgesOf(<<k.task.root>>)]
  BY <1>1, SetIs DEF Begin, Kinds
<1> HIDE DEF k, j
<1>3. BeginDoes(k, j)
  BY <1>1, <1>2 DEF BeginDoes, Walking
<1> QED
  BY <1>3 DEF k, j

ClimbDoes(k, j) ==
    /\ <<j.task, j.found, j.own, j.deps>> = <<k.task, k.found, k.own, k.deps>>
    /\ \/ j.at = "raised" /\ j.cur = k.cur
       \/ j.at = "done" /\ j.cur = k.cur /\ (Fault \/ Depends(k.cur, "parent-child") = {})
       \/ /\ j.at = "seed" /\ Depends(k.cur, "parent-child") # {}
          /\ j.cur = Min(Depends(k.cur, "parent-child"))

LEMMA ClimbIs ==
    ASSUME GraphTypeOK, NEW w \in Walkers, Climb(w)
    PROVE  ClimbDoes(walk[w], walk'[w])
<1> DEFINE k == walk[w]
           j == walk'[w]
<1>1. k \in Walking
  BY WalkKnown
<1> DEFINE P == Depends(k.cur, "parent-child")
<1>2. \/ j = [k EXCEPT !.at = "raised"]
      \/ j = [k EXCEPT !.at = "done"] /\ (Fault \/ P = {})
      \/ /\ P # {} /\ k.at = "seed"
         /\ j = [k EXCEPT !.cur = Min(P), !.seen = @ \cup {Min(P)}, !.hops = @ + 1]
  BY SetIs DEF Climb, SeedStep, FirstParent, At
<1> HIDE DEF k, j
<1>3. ClimbDoes(k, j)
  BY <1>1, <1>2 DEF ClimbDoes, Walking
<1> QED
  BY <1>3 DEF k, j

ShowRootDoes(k, j) ==
    /\ <<j.task, j.at, j.todo, j.seen, j.own, j.deps>>
          = <<k.task, "bfs", k.todo, k.seen, k.own, k.deps>>
    /\ \/ j.found = k.found
       \/ Available /\ j.found = [k.found EXCEPT ![k.task.root] = status[k.task.root]]

LEMMA ShowRootIs ==
    ASSUME GraphTypeOK, NEW w \in Walkers, ShowRoot(w)
    PROVE  ShowRootDoes(walk[w], walk'[w])
<1> DEFINE k == walk[w]
           j == walk'[w]
<1>1. k \in Walking
  BY WalkKnown
<1> DEFINE b == k.task.root
<1>2. \/ j = [k EXCEPT !.at = "bfs"]
      \/ j = [k EXCEPT !.at = "bfs", !.found[b] = k.found[b]]
      \/ Available /\ j = [k EXCEPT !.at = "bfs", !.found[b] = status[b]]
  BY SetIs DEF ShowRoot
<1>4. [k.found EXCEPT ![b] = k.found[b]] = k.found
  BY <1>1 DEF Walking
<1> HIDE DEF b
<1> HIDE DEF k, j
<1>3. ShowRootDoes(k, j)
  BY <1>1, <1>2, <1>4 DEF ShowRootDoes, Walking, b
<1> QED
  BY <1>3 DEF k, j

\* One entry of the queue: a call that times out loses it.
ExpandDoes(k, j) ==
    LET new == Dependents(Head(k.todo)[1], Head(k.todo)[2]) \ k.seen IN
    /\ k.todo # <<>> /\ <<j.task, j.at, j.own, j.deps>> = <<k.task, k.at, k.own, k.deps>>
    /\ \/ /\ \E rows \in SetToSeqs(new) : j.todo = Tail(k.todo) \o EdgesOf(rows)
          /\ j.seen = k.seen \cup new
          /\ j.found = [x \in Beads |-> IF x \in new THEN status[x] ELSE k.found[x]]
       \/ Fault /\ <<j.todo, j.seen, j.found>> = <<Tail(k.todo), k.seen, k.found>>

LEMMA ExpandIs ==
    ASSUME GraphTypeOK, NEW w \in Walkers, Expand(w)
    PROVE  ExpandDoes(walk[w], walk'[w])
<1> DEFINE k == walk[w]
           j == walk'[w]
<1>1. k \in Walking
  BY WalkKnown
<1> DEFINE new == Dependents(Head(k.todo)[1], Head(k.todo)[2]) \ k.seen
           left == Tail(k.todo)
           found == [x \in Beads |-> IF x \in new THEN status[x] ELSE k.found[x]]
<1>2. /\ k.todo # <<>>
      /\ \/ \E rows \in SetToSeqs(new) :
               j = [k EXCEPT !.todo = left \o EdgesOf(rows), !.seen = @ \cup new, !.found = found]
         \/ Fault /\ j = [k EXCEPT !.todo = left]
  BY SetIs DEF Expand, Onward
<1> HIDE DEF left, found, new
<1> HIDE DEF k, j
<1>3. ExpandDoes(k, j)
  BY <1>1, <1>2 DEF ExpandDoes, Walking, left, found, new
<1> QED
  BY <1>3 DEF k, j

FilterDoes(k, j) ==
    /\ <<j.task, j.at, j.seen, j.found, j.deps>> = <<k.task, "blockers", k.seen, k.found, k.deps>>
    /\ k.todo = <<>> /\ j.own = Kept(k) /\ j.ask = Kept(k)

LEMMA FilterIs ==
    ASSUME GraphTypeOK, NEW w \in Walkers, Filter(w)
    PROVE  FilterDoes(walk[w], walk'[w])
<1> DEFINE k == walk[w]
           j == walk'[w]
<1>1. k \in Walking
  BY WalkKnown
<1>2. k.todo = <<>> /\ j = [k EXCEPT !.at = "blockers", !.own = Kept(k), !.ask = Kept(k)]
  BY SetIs DEF Filter
<1> HIDE DEF k, j
<1>3. FilterDoes(k, j)
  BY <1>1, <1>2 DEF FilterDoes, Walking
<1> QED
  BY <1>3 DEF k, j

AskBlockersDoes(k, j) ==
    LET b == Min(k.ask) IN
    /\ <<j.task, j.at, j.seen, j.found, j.own>> = <<k.task, k.at, k.seen, k.found, k.own>>
    /\ k.ask # {} /\ j.ask = k.ask \ {b}
    /\ \/ j.deps = [k.deps EXCEPT ![b] = Depends(b, "blocks") \cap k.own]
       \/ Fault /\ j.deps = k.deps

LEMMA AskBlockersIs ==
    ASSUME GraphTypeOK, NEW w \in Walkers, AskBlockers(w)
    PROVE  AskBlockersDoes(walk[w], walk'[w])
<1> DEFINE k == walk[w]
           j == walk'[w]
<1>1. k \in Walking
  BY WalkKnown
<1> DEFINE b == Min(k.ask)
<1>2. /\ k.ask # {}
      /\ \/ j = [k EXCEPT !.ask = @ \ {b}, !.deps[b] = Depends(b, "blocks") \cap k.own]
         \/ Fault /\ j = [k EXCEPT !.ask = @ \ {b}]
  BY SetIs DEF AskBlockers
<1> HIDE DEF b
<1> HIDE DEF k, j
<1>3. AskBlockersDoes(k, j)
  BY <1>1, <1>2 DEF AskBlockersDoes, Walking, b
<1> QED
  BY <1>3 DEF k, j

BlockersAskedDoes(k, j) ==
    /\ <<j.task, j.at, j.seen, j.found, j.own, j.deps>>
          = <<k.task, AfterNodes(k.task.kind), k.seen, k.found, k.own, k.deps>>
    /\ k.ask = {}

LEMMA BlockersAskedIs ==
    ASSUME GraphTypeOK, NEW w \in Walkers, BlockersAsked(w)
    PROVE  BlockersAskedDoes(walk[w], walk'[w])
<1> DEFINE k == walk[w]
           j == walk'[w]
<1>1. k \in Walking
  BY WalkKnown
<1>2. k.ask = {} /\ j = [k EXCEPT !.at = AfterNodes(k.task.kind)]
  BY SetIs DEF BlockersAsked, Task
<1> HIDE DEF k, j
<1>3. BlockersAskedDoes(k, j)
  BY <1>1, <1>2 DEF BlockersAskedDoes, Walking
<1> QED
  BY <1>3 DEF k, j

ProbeDoes(k, j) ==
    <<j.task, j.at, j.seen, j.found, j.own, j.deps>>
       = <<k.task, k.at, k.seen, k.found, k.own, k.deps>>

LEMMA ProbeIs ==
    ASSUME GraphTypeOK, NEW w \in Walkers, Probe(w)
    PROVE  ProbeDoes(walk[w], walk'[w])
<1> DEFINE k == walk[w]
           j == walk'[w]
<1>1. k \in Walking
  BY WalkKnown
<1> DEFINE b == Numbered(k.next)
           further == [k EXCEPT !.next = @ + 1]
           missed == [further EXCEPT !.misses = @ + 1]
           one == IF status[b] = "open" THEN {b} ELSE {}
<1>2. j = missed \/ j = [further EXCEPT !.misses = 0, !.ask = @ \cup one]
  BY SetIs DEF Probe
<1> HIDE DEF b, one
<1> HIDE DEF k, j
<1>3. ProbeDoes(k, j)
  BY <1>1, <1>2 DEF ProbeDoes, Walking
<1> QED
  BY <1>3 DEF k, j

UniteDoes(k, j) ==
    /\ <<j.task, j.at, j.seen, j.found>> = <<k.task, "sort", k.seen, k.found>>
    /\ j.own = k.own \cup k.ask
    /\ j.deps = [b \in Beads |-> IF b \in k.ask THEN k.deps[b] \cup (Listed(b) \cap k.ask)
                                ELSE k.deps[b]]

LEMMA UniteIs ==
    ASSUME GraphTypeOK, NEW w \in Walkers, Unite(w)
    PROVE  UniteDoes(walk[w], walk'[w])
<1> DEFINE k == walk[w]
           j == walk'[w]
<1>1. k \in Walking
  BY WalkKnown
<1> DEFINE deps == [b \in Beads |-> IF b \in k.ask THEN k.deps[b] \cup (Listed(b) \cap k.ask)
                                    ELSE k.deps[b]]
<1>2. j = [k EXCEPT !.at = "sort", !.own = @ \cup k.ask, !.ask = {}, !.deps = deps]
  BY SetIs DEF Unite
<1> HIDE DEF deps
<1> HIDE DEF k, j
<1>3. UniteDoes(k, j)
  BY <1>1, <1>2 DEF UniteDoes, Walking, deps
<1> QED
  BY <1>3 DEF k, j

ShowDoes(k, j) ==
    LET b == Min(k.ask) IN
    /\ <<j.task, j.at, j.seen, j.own, j.deps>> = <<k.task, k.at, k.seen, k.own, k.deps>>
    /\ \/ j.found = k.found
       \/ Available /\ j.found = [k.found EXCEPT ![b] = status[b]]

LEMMA ShowIs ==
    ASSUME GraphTypeOK, NEW w \in Walkers, Show(w)
    PROVE  ShowDoes(walk[w], walk'[w])
<1> DEFINE k == walk[w]
           j == walk'[w]
<1>1. k \in Walking
  BY WalkKnown
<1> DEFINE b == Min(k.ask)
<1>2. \/ j = [k EXCEPT !.ask = @ \ {b}]
      \/ j = [k EXCEPT !.ask = @ \ {b}, !.found[b] = k.found[b]]
      \/ Available /\ j = [k EXCEPT !.ask = @ \ {b}, !.found[b] = status[b]]
  BY SetIs DEF Show
<1>4. [k.found EXCEPT ![b] = k.found[b]] = k.found
  BY <1>1 DEF Walking
<1> HIDE DEF b
<1> HIDE DEF k, j
<1>3. ShowDoes(k, j)
  BY <1>1, <1>2, <1>4 DEF ShowDoes, Walking, b
<1> QED
  BY <1>3 DEF k, j

ShownDoes(k, j) ==
    /\ <<j.task, j.found, j.deps>> = <<k.task, k.found, k.deps>>
    /\ \/ /\ j.at = "blockers" /\ j.own = k.task.ids /\ j.ask = k.task.ids
          /\ k.task.ids # {} /\ \A b \in k.task.ids : k.found[b] # Unread
       \/ j.at = "unknown" /\ j.own = k.own

LEMMA ShownIs ==
    ASSUME GraphTypeOK, NEW w \in Walkers, Shown(w)
    PROVE  ShownDoes(walk[w], walk'[w])
<1> DEFINE k == walk[w]
           j == walk'[w]
<1>1. k \in Walking
  BY WalkKnown
<1> DEFINE ids == k.task.ids
<1>2. \/ /\ j = [k EXCEPT !.at = "blockers", !.own = ids, !.ask = ids]
         /\ ids # {} /\ \A b \in ids : k.found[b] # Unread
      \/ j = [k EXCEPT !.at = "unknown"]
  BY SetIs DEF Shown
<1> HIDE DEF k, j
<1>3. ShownDoes(k, j)
  BY <1>1, <1>2 DEF ShownDoes, Walking
<1> QED
  BY <1>3 DEF k, j

SortDoes(k, j) ==
    LET layer(b) == Min({n \in 1..Top : b \in Placed(k)[n]}) IN
    /\ <<j.task, j.seen, j.found, j.own, j.deps>> = <<k.task, k.seen, k.found, k.own, k.deps>>
    /\ \/ j.at = "cycle" /\ Placed(k)[Top] # k.own
       \/ /\ j.at = "done" /\ Placed(k)[Top] = k.own
          /\ j.layers = [b \in Beads |-> IF b \in k.own THEN layer(b) ELSE -1]

LEMMA SortIs ==
    ASSUME GraphTypeOK, NEW w \in Walkers, Sort(w)
    PROVE  SortDoes(walk[w], walk'[w])
<1> DEFINE k == walk[w]
           j == walk'[w]
<1>1. k \in Walking
  BY WalkKnown
<1> DEFINE layer(b) == Min({n \in 1..Top : b \in Placed(k)[n]})
           layers == [b \in Beads |-> IF b \in k.own THEN layer(b) ELSE -1]
<1>2. \/ j = [k EXCEPT !.at = "cycle"] /\ Placed(k)[Top] # k.own
      \/ j = [k EXCEPT !.at = "done", !.layers = layers] /\ Placed(k)[Top] = k.own
  BY SetIs DEF Sort, Top
<1> HIDE DEF layers
<1> HIDE DEF k, j
<1>3. SortDoes(k, j)
  BY <1>1, <1>2 DEF SortDoes, Walking, layers
<1> QED
  BY <1>3 DEF k, j

\* A step of a walk changes that walk and nothing of the tracker.
LEMMA WalkMoves ==
    ASSUME GraphTypeOK, NEW w \in Walkers, WalkStep(w)
    PROVE  /\ UNCHANGED <<rig, graph, status>> /\ (Fine \/ Fault)
           /\ faults \in Nat /\ faults' \in Nat /\ faults' >= faults
           /\ \A v \in Walkers : v # w => walk'[v] = walk[v]
<1>1. Tracker /\ (Fine \/ Fault)
  BY DEF WalkStep, Begin, Climb, ShowRoot, Expand, AskBlockers, Show, Filter, BlockersAsked,
         Probe, Unite, Shown, Sort
<1>2. faults \in Nat
  BY BeadGraphAssumption DEF GraphTypeOK
<1>3. \A v \in Walkers : v # w => walk'[v] = walk[v]
  <2>1. CASE Begin(w)
    BY <2>1, SetIs DEF Begin
  <2>2. CASE Climb(w)
    BY <2>2, SetIs DEF Climb, SeedStep, FirstParent
  <2>3. CASE ShowRoot(w) \/ AskBlockers(w) \/ Show(w)
    BY <2>3, SetIs DEF ShowRoot, AskBlockers, Show
  <2>4. CASE Expand(w)
    BY <2>4, SetIs DEF Expand
  <2>5. CASE Filter(w) \/ BlockersAsked(w) \/ Unite(w) \/ Shown(w)
    BY <2>5, SetIs DEF Filter, BlockersAsked, Unite, Shown
  <2>6. CASE Probe(w)
    BY <2>6, SetIs DEF Probe
  <2>7. CASE Sort(w)
    BY <2>7, SetIs DEF Sort
  <2> QED
    BY <2>1, <2>2, <2>3, <2>4, <2>5, <2>6, <2>7 DEF WalkStep
<1> QED
  BY <1>1, <1>2, <1>3 DEF Tracker, Fine, Fault

\* Where a walk of each kind may stand.
Places(k) ==
    /\ k.task.kind \in Kinds
    /\ k.task.kind = "seed" => k.at \in {"begin", "seed", "done", "raised"}
    /\ k.task.kind \in {"subgraph", "deps"} =>
          k.at \in {"begin", "root", "bfs", "blockers", "sort", "done", "cycle"}
    /\ k.task.kind = "both" =>
          k.at \in {"begin", "root", "bfs", "blockers", "probe", "sort", "done", "cycle"}
    /\ k.task.kind = "ids" => k.at \in {"begin", "probe", "sort", "done", "cycle"}
    /\ k.task.kind = "explicit" =>
          k.at \in {"begin", "show", "unknown", "blockers", "sort", "done", "cycle"}

LEMMA PlacesStep ==
    ASSUME GraphTypeOK, NEW w \in Walkers, Places(walk[w]), WalkStep(w)
    PROVE  Places(walk[w])' /\ walk'[w].task = walk[w].task
<1> DEFINE k == walk[w]
           j == walk'[w]
<1> SUFFICES Places(j) /\ j.task = k.task
  BY DEF Places
<1>1. CASE Begin(w)
  <2>1. BeginDoes(k, j) /\ k.at = "begin"
    BY <1>1, BeginIs DEF Begin, At
  <2> HIDE DEF k, j
  <2> QED
    BY <2>1 DEF BeginDoes, Places, Kinds
<1>2. CASE Climb(w)
  <2>1. ClimbDoes(k, j) /\ k.at = "seed" /\ Places(k)
    BY <1>2, ClimbIs DEF Climb, At
  <2> HIDE DEF k, j
  <2> QED
    BY <2>1 DEF ClimbDoes, Places
<1>3. CASE ShowRoot(w) \/ Expand(w) \/ Probe(w) \/ Show(w) \/ AskBlockers(w)
  <2>1. /\ Places(k)
        /\ \/ ShowRootDoes(k, j) /\ k.at = "root"
           \/ ExpandDoes(k, j) \/ ProbeDoes(k, j) \/ ShowDoes(k, j) \/ AskBlockersDoes(k, j)
    BY <1>3, ShowRootIs, ExpandIs, ProbeIs, ShowIs, AskBlockersIs DEF ShowRoot, At
  <2> HIDE DEF k, j
  <2> QED
    BY <2>1 DEF ShowRootDoes, ExpandDoes, ProbeDoes, ShowDoes, AskBlockersDoes, Places
<1>4. CASE Filter(w)
  <2>1. FilterDoes(k, j) /\ k.at = "bfs" /\ Places(k)
    BY <1>4, FilterIs DEF Filter, At
  <2> HIDE DEF k, j
  <2> QED
    BY <2>1 DEF FilterDoes, Places
<1>5. CASE BlockersAsked(w)
  <2>1. BlockersAskedDoes(k, j) /\ k.at = "blockers" /\ Places(k)
    BY <1>5, BlockersAskedIs DEF BlockersAsked, At
  <2> HIDE DEF k, j
  <2> QED
    BY <2>1 DEF BlockersAskedDoes, Places, AfterNodes
<1>6. CASE Unite(w)
  <2>1. UniteDoes(k, j) /\ k.at = "probe" /\ Places(k)
    BY <1>6, UniteIs DEF Unite, At
  <2> HIDE DEF k, j
  <2> QED
    BY <2>1 DEF UniteDoes, Places
<1>7. CASE Shown(w)
  <2>1. ShownDoes(k, j) /\ k.at = "show" /\ Places(k)
    BY <1>7, ShownIs DEF Shown, At
  <2> HIDE DEF k, j
  <2> QED
    BY <2>1 DEF ShownDoes, Places
<1>8. CASE Sort(w)
  <2>1. SortDoes(k, j) /\ k.at = "sort" /\ Places(k)
    BY <1>8, SortIs DEF Sort, At
  <2> HIDE DEF k, j
  <2> QED
    BY <2>1 DEF SortDoes, Places
<1> QED
  BY <1>1, <1>2, <1>3, <1>4, <1>5, <1>6, <1>7, <1>8 DEF WalkStep

-----------------------------------------------------------------------------
(* The walk to the seed.                                                   *)

\* The first parents lead from the issue to where the walk stands; a walk that is over,
\* and lost no call, stands at their end.
Seeking(w) ==
    walk[w].task.kind = "seed" =>
       /\ walk[w].task.root \in Under(graph.parents, walk[w].cur)
       /\ walk[w].at = "done" /\ faults = 0 /\ Available /\ rig.bd => graph.parents[walk[w].cur] = {}

LEMMA SeekingStep ==
    ASSUME GraphTypeOK, NEW w \in Walkers, Places(walk[w]), Seeking(w), WalkStep(w)
    PROVE  Seeking(w)'
<1> DEFINE k == walk[w]
           j == walk'[w]
<1>1. /\ UNCHANGED <<rig, graph, status>> /\ (Fine \/ Fault)
      /\ faults \in Nat /\ faults' \in Nat /\ faults' >= faults /\ j.task = k.task
  BY WalkMoves, PlacesStep
<1>2. k.cur \in Beads /\ k.at \in WalkPCs /\ k.task.root \in Beads
      /\ graph.parents \in [Beads -> SUBSET Beads]
  BY WalkKnown, GraphKnown DEF Walking, Tasks
<1> SUFFICES ASSUME k.task.kind = "seed"
             PROVE  /\ k.task.root \in Under(graph.parents, j.cur)
                    /\ j.at = "done" /\ faults' = 0 /\ Available /\ rig.bd => graph.parents[j.cur] = {}
  BY <1>1 DEF Seeking, Available
<1>3. k.at \in {"begin", "seed"}
  BY DEF Places, WalkStep, Begin, Climb, ShowRoot, Expand, AskBlockers, Show, Filter,
         BlockersAsked, Probe, Unite, Shown, Sort, At
<1>4. CASE k.at = "begin"
  <2>1. BeginDoes(k, j) /\ Seeking(w)
    BY <1>4, BeginIs DEF WalkStep, Begin, Climb, ShowRoot, Expand, AskBlockers, Show, Filter,
         BlockersAsked, Probe, Unite, Shown, Sort, At
  <2>2. k.task.root \in Under(graph.parents, k.cur)
    BY DEF Seeking
  <2> HIDE DEF k, j
  <2> QED
    BY <2>1, <2>2 DEF BeginDoes
<1>5. CASE k.at = "seed"
  <2>1. ClimbDoes(k, j)
    BY <1>5, ClimbIs DEF WalkStep, Begin, Climb, ShowRoot, Expand, AskBlockers, Show, Filter,
         BlockersAsked, Probe, Unite, Shown, Sort, At
  <2>2. k.task.root \in Under(graph.parents, k.cur)
    BY DEF Seeking
  <2>3. ASSUME Depends(k.cur, "parent-child") # {}
        PROVE  k.task.root \in Under(graph.parents, Min(Depends(k.cur, "parent-child")))
    <3>1. Depends(k.cur, "parent-child") = graph.parents[k.cur]
      BY <2>3 DEF Depends, Above
    <3>2. Min(graph.parents[k.cur]) \in Beads
      BY <1>2, <2>3, <3>1, FirstParentKnown
    <3> HIDE DEF k
    <3> QED
      BY <1>2, <2>2, <2>3, <3>1, <3>2, UnderRises
  <2>4. Available /\ Depends(k.cur, "parent-child") = {} => graph.parents[k.cur] = {}
    BY DEF Depends, Above
  <2>5. Fault => faults' # 0
    BY <1>1 DEF Fault
  <2> HIDE DEF k, j
  <2> QED
    BY <2>1, <2>2, <2>3, <2>4, <2>5 DEF ClimbDoes
<1> QED
  BY <1>3, <1>4, <1>5

\* Who resolves an issue and who resolves its parent find one seed.
LEMMA SeekingIs ==
    ASSUME GraphTypeOK, \A w \in Walkers : Seeking(w)
    PROVE  SeedShared
<1> SUFFICES ASSUME NEW v \in Walkers, NEW w \in Walkers,
                    Task(v).kind = "seed", Task(w).kind = "seed", Over(v), Over(w),
                    faults = 0, Available, rig.bd, graph.parents[Task(v).root] # {},
                    Task(w).root = Min(graph.parents[Task(v).root])
             PROVE  Seed(v) = Seed(w)
  BY DEF SeedShared
<1>1. walk[v].cur \in Beads /\ walk[w].cur \in Beads /\ Task(v).root \in Beads
  BY WalkKnown DEF Walking, Tasks, Task
<1>2. /\ Task(v).root \in Under(graph.parents, walk[v].cur)
      /\ Task(w).root \in Under(graph.parents, walk[w].cur)
      /\ graph.parents[walk[v].cur] = {} /\ graph.parents[walk[w].cur] = {}
  BY DEF Seeking, Task, Over, At
<1>3. Task(v).root \in Under(graph.parents, walk[w].cur)
  BY <1>1, <1>2, UnderItself DEF Climbable
<1>4. walk[v].cur = walk[w].cur
  BY <1>1, <1>2, <1>3, OneEnd
<1> QED
  BY <1>4 DEF Seed, Over

-----------------------------------------------------------------------------
(* The beads below the root.                                               *)

Descends == {"subgraph", "deps", "both"}

\* What depends on a bead, in a graph.
UpFrom(g, x, e) ==
    {b \in Beads : x \in IF e = "parent-child" THEN g.parents[b] ELSE g.blockers[b]}

\* Every edge of a bead that was seen is still in the queue or has been followed.
Followed(k, g) ==
    \A x \in k.seen, e \in Edges :
        UpFrom(g, x, e) \subseteq k.seen \/ \E i \in DOMAIN k.todo : k.todo[i] = <<x, e>>

\* What was seen has been read, and what was read to be closed is closed for good.
Read(k, st) ==
    /\ k.task.root \in k.seen
    /\ \A b \in k.seen \ {k.task.root} : k.found[b] # Unread
    /\ \A b \in Beads : k.found[b] = "closed" => st[b] = "closed"

Descent(k, g, st) ==
    /\ Read(k, st)
    /\ k.at = "begin" => k.seen = {k.task.root}
    /\ k.at \in {"root", "bfs"} => Followed(k, g)
    /\ k.at \notin {"begin", "root", "bfs"} =>
          /\ \A x \in k.seen, e \in Edges : UpFrom(g, x, e) \subseteq k.seen
          /\ \A b \in k.seen \ {k.task.root} : st[b] # "closed" => b \in k.own

Descending(w) ==
    walk[w].task.kind \in Descends /\ faults = 0 /\ Available => Descent(walk[w], graph, status)

\* A queue that is a head, and what follows.
LEMMA HeadOrTail ==
    ASSUME NEW S, NEW q \in Seq(S), q # <<>>, NEW r \in Seq(S), NEW i \in DOMAIN q, q[i] # Head(q)
    PROVE  \E n \in DOMAIN (Tail(q) \o r) : (Tail(q) \o r)[n] = q[i]
<1>1. i \in 1..Len(q) /\ i # 1 /\ Len(q) \in Nat
  OBVIOUS
<1>2. Len(Tail(q)) = Len(q) - 1 /\ i - 1 \in 1..Len(Tail(q)) /\ Tail(q)[i - 1] = q[i]
  BY <1>1
<1>3. i - 1 \in DOMAIN (Tail(q) \o r) /\ (Tail(q) \o r)[i - 1] = q[i]
  <2>1. Tail(q) \in Seq(S)
    OBVIOUS
  <2> HIDE <1>1
  <2> QED
    BY <1>2, <2>1
<1> QED
  BY <1>3

LEMMA ExpandFollows ==
    ASSUME GraphTypeOK, NEW w \in Walkers, NEW k, k \in Walking, NEW j, ExpandDoes(k, j), ~ Fault, Available,
           Followed(k, graph), Read(k, status)
    PROVE  Followed(j, graph) /\ Read(j, status)
<1> DEFINE x == Head(k.todo)[1]
           e == Head(k.todo)[2]
           new == Dependents(x, e) \ k.seen
<1>1. /\ k.todo \in Seq(Beads \X Edges) /\ k.todo # <<>> /\ Head(k.todo) \in Beads \X Edges
      /\ Tail(k.todo) \in Seq(Beads \X Edges) /\ Head(k.todo) = <<x, e>>
      /\ k.seen \subseteq Beads
  BY DEF Walking, ExpandDoes
<1>2. new = UpFrom(graph, x, e) \ k.seen
  BY DEF Dependents, Above, UpFrom
<1>3. PICK rows \in SetToSeqs(new) : j.todo = Tail(k.todo) \o EdgesOf(rows)
  BY DEF ExpandDoes
<1>4. /\ j.seen = k.seen \cup new /\ j.task = k.task
      /\ j.found = [b \in Beads |-> IF b \in new THEN status[b] ELSE k.found[b]]
  BY DEF ExpandDoes
<1>5. new \subseteq Beads /\ IsFiniteSet(new)
  BY <1>2, FS_Subset, BeadGraphAssumption DEF UpFrom
<1> HIDE DEF new
<1> DEFINE r == EdgesOf(rows)
           q == k.todo
           Q == Seq(Beads \X Edges)
<1>6. /\ EdgesOf(rows) \in Seq(Beads \X Edges)
      /\ \A b \in new, c \in Edges : \E i \in DOMAIN EdgesOf(rows) : EdgesOf(rows)[i] = <<b, c>>
  <2>1. EdgesOf(rows) \in Seq(new \X Edges)
    BY <1>5, EdgesAre
  <2> QED
    BY <1>5, <2>1, EdgesAre, SeqMonotonic
<1>7. ASSUME NEW y \in j.seen, NEW c \in Edges, ~ (UpFrom(graph, y, c) \subseteq j.seen)
      PROVE  \E i \in DOMAIN j.todo : j.todo[i] = <<y, c>>
  <2>1. CASE y \in new
    <3>1. PICK i \in DOMAIN EdgesOf(rows) : EdgesOf(rows)[i] = <<y, c>>
      BY <1>6, <2>1
    <3> DEFINE t == Tail(q)
    <3>2. j.todo = t \o r /\ t \in Q /\ r \in Q
          /\ i \in DOMAIN r /\ r[i] = <<y, c>>
      BY <1>1, <1>3, <1>6, <3>1
    <3> HIDE DEF q, r, t
    <3>3. Len(t) + i \in DOMAIN (t \o r) /\ (t \o r)[Len(t) + i] = r[i]
      BY <3>2
    <3> QED
      BY <3>2, <3>3
  <2>2. CASE y \in k.seen
    <3>1. PICK i \in DOMAIN k.todo : k.todo[i] = <<y, c>>
      BY <1>4, <1>7, <2>2 DEF Followed
    <3>2. <<y, c>> # <<x, e>>
      BY <1>2, <1>4, <1>7
    <3>3. k.todo[i] # Head(k.todo)
      BY <1>1, <3>1, <3>2
    <3>4. /\ q \in Q /\ q # <<>> /\ r \in Q
          /\ i \in DOMAIN q /\ q[i] # Head(q) /\ q[i] = <<y, c>> /\ j.todo = Tail(q) \o r
      BY <1>1, <1>3, <1>6, <3>1, <3>3
    <3> HIDE DEF q, r
    <3>5. \E n \in DOMAIN (Tail(q) \o r) : (Tail(q) \o r)[n] = q[i]
      BY <3>4, HeadOrTail
    <3> HIDE DEF Q
    <3> QED
      BY <3>4, <3>5
  <2> QED
    BY <1>4, <1>7, <2>1, <2>2
<1>8. Followed(j, graph)
  BY <1>7 DEF Followed
<1>9. Read(j, status)
  <2>1. status \in [Beads -> Statuses] /\ Unread \notin Statuses
    BY DEF GraphTypeOK, Statuses, Unread
  <2> QED
    BY <1>1, <1>4, <1>5, <2>1 DEF Read
<1> QED
  BY <1>8, <1>9

LEMMA DescendingStep ==
    ASSUME GraphTypeOK, NEW w \in Walkers, Places(walk[w]), Descending(w), WalkStep(w)
    PROVE  Descending(w)'
<1> DEFINE k == walk[w]
           j == walk'[w]
<1>1. /\ UNCHANGED <<rig, graph, status>> /\ (Fine \/ Fault) /\ faults \in Nat /\ faults' >= faults
      /\ j.task = k.task
  BY WalkMoves, PlacesStep
<1>2. k \in Walking /\ k.task.root \in Beads /\ status \in [Beads -> Statuses]
      /\ Unread \notin Statuses
  BY WalkKnown DEF Walking, Tasks, GraphTypeOK, Statuses, Unread
<1> SUFFICES ASSUME k.task.kind \in Descends, faults' = 0, Available
             PROVE  Descent(j, graph, status)
  BY <1>1 DEF Descending, Available
<1>3. ~ Fault /\ Descent(k, graph, status) /\ Places(k)
  BY <1>1 DEF Fault, Descending
<1>4. CASE Begin(w)
  <2>1. BeginDoes(k, j) /\ k.at = "begin"
    BY <1>4, BeginIs DEF Begin, At
  <2> HIDE DEF k, j
  <2>2. /\ j.at \in {"root", "bfs"} /\ j.todo = EdgesOf(<<k.task.root>>) /\ j.seen = {k.task.root}
        /\ j.found = k.found
    BY <1>3, <2>1 DEF BeginDoes, Descends, Descent
  <2>3. ASSUME NEW e \in Edges
        PROVE  \E i \in DOMAIN j.todo : j.todo[i] = <<k.task.root, e>>
    <3> DEFINE b == k.task.root
               q == EdgesOf(<<b>>)
    <3>1. j.todo = q /\ \E i \in DOMAIN q : q[i] = <<b, e>>
      BY <2>2, RootEdges
    <3> HIDE DEF q
    <3> QED
      BY <3>1
  <2>4. Followed(j, graph)
    BY <2>2, <2>3 DEF Followed
  <2> QED
    BY <1>1, <1>3, <2>2, <2>4 DEF Descent, Read
<1>5. CASE ShowRoot(w)
  <2>1. ShowRootDoes(k, j) /\ k.at = "root"
    BY <1>5, ShowRootIs DEF ShowRoot, At
  <2> HIDE DEF k, j
  <2>2. Read(j, status)
    BY <1>2, <1>3, <2>1 DEF ShowRootDoes, Descent, Read, Walking
  <2> QED
    BY <1>3, <2>1, <2>2 DEF ShowRootDoes, Descent, Followed
<1>6. CASE Expand(w)
  <2>1. ExpandDoes(k, j) /\ k.at = "bfs"
    BY <1>6, ExpandIs DEF Expand, At
  <2> HIDE DEF k, j
  <2>2. Followed(j, graph) /\ Read(j, status)
    BY <1>2, <1>3, <2>1, ExpandFollows DEF Descent
  <2> QED
    BY <2>1, <2>2 DEF ExpandDoes, Descent
<1>7. CASE Filter(w)
  <2>1. FilterDoes(k, j) /\ k.at = "bfs"
    BY <1>7, FilterIs DEF Filter, At
  <2> HIDE DEF k, j
  <2>2. \A x \in k.seen, e \in Edges : UpFrom(graph, x, e) \subseteq k.seen
    BY <1>3, <2>1 DEF FilterDoes, Descent, Followed
  <2>3. \A b \in k.seen \ {k.task.root} : status[b] # "closed" => b \in Kept(k)
    BY <1>2, <1>3 DEF Kept, Descent, Read, Walking
  <2> QED
    BY <1>3, <2>1, <2>2, <2>3 DEF FilterDoes, Descent, Read
<1>8. CASE AskBlockers(w) \/ BlockersAsked(w) \/ Probe(w) \/ Unite(w) \/ Sort(w)
  <2>1. /\ k.at \in {"blockers", "probe", "sort"}
        /\ \/ AskBlockersDoes(k, j) \/ BlockersAskedDoes(k, j) \/ ProbeDoes(k, j)
           \/ UniteDoes(k, j) \/ SortDoes(k, j)
    BY <1>8, AskBlockersIs, BlockersAskedIs, ProbeIs, UniteIs, SortIs
       DEF AskBlockers, BlockersAsked, Probe, Unite, Sort, At
  <2> HIDE DEF k, j
  <2>2. /\ j.at \in {"blockers", "probe", "sort", "done", "cycle"} /\ j.task = k.task
        /\ j.seen = k.seen /\ j.found = k.found /\ k.own \subseteq j.own
    BY <2>1 DEF AskBlockersDoes, BlockersAskedDoes, ProbeDoes, UniteDoes, SortDoes, AfterNodes
  <2> QED
    BY <1>3, <2>1, <2>2 DEF Descent, Read
<1>9. ~ (Climb(w) \/ Show(w) \/ Shown(w))
  BY <1>3 DEF Climb, Show, Shown, At, Places, Descends
<1> QED
  BY <1>4, <1>5, <1>6, <1>7, <1>8, <1>9 DEF WalkStep

\* A set that has everything one edge below it has everything below the root.
LEMMA DescendingIs ==
    ASSUME GraphTypeOK, \A w \in Walkers : Descending(w)
    PROVE  OpenTailFound
<1> SUFFICES ASSUME NEW w \in Walkers, Over(w), Task(w).kind \in Descends, faults = 0, Available,
                    NEW b \in Below(Task(w).root) \ {Task(w).root}, status[b] # "closed"
             PROVE  b \in walk[w].own
  BY DEF OpenTailFound, Descends
<1> DEFINE k == walk[w]
<1>1. k.seen \subseteq Beads
  BY WalkKnown DEF Walking
<1>2. /\ k.task.root \in k.seen
      /\ \A x \in k.seen, e \in Edges : UpFrom(graph, x, e) \subseteq k.seen
      /\ \A x \in k.seen \ {k.task.root} : status[x] # "closed" => x \in k.own
  BY DEF Descending, Descent, Read, Over, At, Task
<1>3. Complete(k.seen)
  <2>1. SUFFICES ASSUME NEW y \in Beads, NEW x \in Listed(y) \cap k.seen PROVE y \in k.seen
    BY DEF Complete
  <2>2. \E e \in Edges : y \in UpFrom(graph, x, e)
    BY <2>1 DEF Listed, UpFrom, Edges
  <2> QED
    BY <1>2, <2>2
<1>4. b \in k.seen
  BY <1>1, <1>2, <1>3 DEF Below, Task
<1> QED
  BY <1>2, <1>4 DEF Task

\* The beads below the root are the root and what is one edge below one of them.
LEMMA BelowIs ==
    ASSUME NEW root \in Beads
    PROVE  root \in Below(root) /\ Complete(Below(root)) /\ Below(root) \subseteq Beads
BY DEF Below, Complete

\* Below, in a graph.
BelowIn(g, root) ==
    {b \in Beads : \A S \in SUBSET Beads :
        /\ root \in S
        /\ \A x \in Beads : (g.parents[x] \cup g.blockers[x]) \cap S # {} => x \in S
        => b \in S}

LEMMA BelowInIs == \A root : Below(root) = BelowIn(graph, root)
BY DEF Below, BelowIn, Complete, Listed

\* A walk holds no bead but of a set.
Within(k, B) ==
    /\ k.at \in {"begin", "root", "bfs"} => k.todo \in Seq(B \X Edges)
    /\ k.seen \subseteq B /\ k.own \subseteq B
    /\ \A b \in Beads : k.found[b] # Unread => b \in B

Staying(w) ==
    walk[w].task.kind \in {"subgraph", "deps"} =>
       Within(walk[w], BelowIn(graph, walk[w].task.root))

LEMMA ExpandWithin ==
    ASSUME GraphTypeOK, NEW k, k \in Walking, k.at = "bfs", NEW j, ExpandDoes(k, j),
           NEW root \in Beads, Within(k, Below(root))
    PROVE  Within(j, Below(root))
<1> DEFINE x == Head(k.todo)[1]
           e == Head(k.todo)[2]
           new == Dependents(x, e) \ k.seen
           B == Below(root)
<1>1. k.todo \in Seq(B \X Edges) /\ k.todo # <<>>
  BY DEF Within, ExpandDoes
<1>2. Complete(B) /\ B \subseteq Beads
  BY BelowIs
<1> HIDE DEF B
<1>3. x \in B /\ e \in Edges /\ Tail(k.todo) \in Seq(B \X Edges)
  BY <1>1
<1>4. new \subseteq B
  <2> HIDE DEF x, e
  <2> QED
    BY <1>2, <1>3 DEF Complete, Dependents, Above, Listed
<1>5. IsFiniteSet(new)
  BY <1>2, <1>4, FS_Subset, BeadGraphAssumption
<1>6. ASSUME NEW rows \in SetToSeqs(new)
      PROVE  Tail(k.todo) \o EdgesOf(rows) \in Seq(B \X Edges)
  <2>1. EdgesOf(rows) \in Seq(new \X Edges)
    <3> HIDE DEF new
    <3> QED
      BY <1>5, EdgesAre
  <2>2. EdgesOf(rows) \in Seq(B \X Edges)
    <3> HIDE DEF new
    <3> QED
      BY <1>4, <2>1, SeqMonotonic
  <2> QED
    BY <1>3, <2>2
<1>7. /\ j.todo \in Seq(B \X Edges)
      /\ j.own = k.own
      /\ \/ j.seen = k.seen \cup new /\ j.found = [b \in Beads |-> IF b \in new THEN status[b] ELSE k.found[b]]
         \/ j.seen = k.seen /\ j.found = k.found
  <2> HIDE DEF x, e
  <2> QED
    BY <1>3, <1>6 DEF ExpandDoes, x, e
<1> HIDE DEF new
<1>8. k.seen \subseteq B /\ k.own \subseteq B /\ \A b \in Beads : k.found[b] # Unread => b \in B
  BY DEF Within, B
<1>9. Within(j, B)
  BY <1>4, <1>7, <1>8 DEF Within
<1> QED
  BY <1>9 DEF B

LEMMA StayingStep ==
    ASSUME GraphTypeOK, NEW w \in Walkers, Places(walk[w]), Staying(w), WalkStep(w)
    PROVE  Staying(w)'
<1> DEFINE k == walk[w]
           j == walk'[w]
           root == k.task.root
           B == Below(root)
<1>1. UNCHANGED <<rig, graph, status>> /\ j.task = k.task
  BY WalkMoves, PlacesStep
<1>2. k \in Walking /\ root \in Beads
  BY WalkKnown DEF Walking, Tasks
<1> SUFFICES ASSUME k.task.kind \in {"subgraph", "deps"}
             PROVE  Within(j, B)
  BY <1>1, BelowInIs DEF Staying
<1>3. Within(k, B) /\ Places(k) /\ root \in B /\ B \subseteq Beads
  BY <1>2, BelowInIs, BelowIs DEF Staying
<1>4. CASE Begin(w)
  <2>1. BeginDoes(k, j) /\ k.at = "begin"
    BY <1>4, BeginIs DEF Begin, At
  <2>2. EdgesOf(<<root>>) \in Seq(B \X Edges)
    <3> HIDE DEF root, B
    <3>1. {root} \X Edges \subseteq B \X Edges
      BY <1>3
    <3> QED
      BY <3>1, RootEdges, SeqMonotonic
  <2> HIDE DEF k, j, B
  <2> QED
    BY <1>3, <2>1, <2>2 DEF BeginDoes, Within, root
<1>5. CASE ShowRoot(w)
  <2>1. ShowRootDoes(k, j) /\ k.at = "root"
    BY <1>5, ShowRootIs DEF ShowRoot, At
  <2> HIDE DEF k, j, B
  <2> QED
    BY <1>2, <1>3, <2>1 DEF ShowRootDoes, Within, root, Walking
<1>6. CASE Expand(w)
  <2>1. ExpandDoes(k, j) /\ k.at = "bfs"
    BY <1>6, ExpandIs DEF Expand, At
  <2> HIDE DEF k, j, root
  <2> QED
    BY <1>2, <1>3, <2>1, ExpandWithin
<1>7. CASE Filter(w)
  <2>1. FilterDoes(k, j)
    BY <1>7, FilterIs
  <2> HIDE DEF k, j, B
  <2> QED
    BY <1>3, <2>1 DEF FilterDoes, Within, Kept
<1>8. CASE AskBlockers(w) \/ BlockersAsked(w) \/ Sort(w)
  <2>1. /\ k.at \in {"blockers", "sort"}
        /\ AskBlockersDoes(k, j) \/ BlockersAskedDoes(k, j) \/ SortDoes(k, j)
    BY <1>8, AskBlockersIs, BlockersAskedIs, SortIs DEF AskBlockers, BlockersAsked, Sort, At
  <2> HIDE DEF k, j, B
  <2>2. j.at \notin {"begin", "root", "bfs"} /\ <<j.seen, j.found, j.own>> = <<k.seen, k.found, k.own>>
    BY <2>1 DEF AskBlockersDoes, BlockersAskedDoes, SortDoes, AfterNodes
  <2> QED
    BY <1>3, <2>2 DEF Within
<1>9. ~ (Climb(w) \/ Show(w) \/ Shown(w) \/ Probe(w) \/ Unite(w))
  BY <1>3 DEF Climb, Show, Shown, Probe, Unite, At, Places
<1> QED
  BY <1>4, <1>5, <1>6, <1>7, <1>8, <1>9 DEF WalkStep

-----------------------------------------------------------------------------
(* What the nodes wait for.                                                *)

\* Every one of these nodes has those of the nodes that block it among its dependencies.
Waits(k, g, nodes) == \A b \in nodes : g.blockers[b] \cap k.own \subseteq k.deps[b]

\* A walk from one source that lost no call. Without the backend's binary it has no nodes.
Order(k, g, served) ==
    /\ k.task.kind = "seed" \/ k.at \in {"begin", "root", "bfs", "show", "unknown", "probe"} => k.own = {}
    /\ ~ served /\ k.task.kind # "ids" => k.own = {} /\ \A b \in Beads : k.found[b] = Unread
    /\ k.at = "blockers" => k.ask \subseteq k.own /\ Waits(k, g, k.own \ k.ask)
    /\ k.at = "sort" => Waits(k, g, k.own)
    /\ k.at = "done" => \A b \in k.own : \A a \in g.blockers[b] \cap k.own : k.layers[a] < k.layers[b]

Ordering(w) == walk[w].task.kind # "both" /\ faults = 0 => Order(walk[w], graph, Available)

LEMMA SortOrders ==
    ASSUME NEW k, k \in Walking, NEW j, SortDoes(k, j), NEW g, Waits(k, g, k.own), j.at = "done",
           NEW b \in k.own, NEW a \in g.blockers[b] \cap k.own
    PROVE  j.layers[a] < j.layers[b]
<1> DEFINE layer(x) == Min({n \in 1..Top : x \in Placed(k)[n]})
<1>1. Placed(k)[Top] = k.own /\ j.layers = [x \in Beads |-> IF x \in k.own THEN layer(x) ELSE -1]
  BY DEF SortDoes
<1>2. k.own \subseteq Beads /\ a \in k.deps[b] \cap k.own
  BY DEF Walking, Waits
<1>3. layer(a) < layer(b)
  BY <1>1, <1>2, LayersOrder
<1> HIDE DEF layer
<1>4. j.layers[a] = layer(a) /\ j.layers[b] = layer(b)
  BY <1>1, <1>2
<1> QED
  BY <1>3, <1>4

LEMMA OrderingStep ==
    ASSUME GraphTypeOK, NEW w \in Walkers, Places(walk[w]), Ordering(w), WalkStep(w)
    PROVE  Ordering(w)'
<1> DEFINE k == walk[w]
           j == walk'[w]
<1>1. /\ UNCHANGED <<rig, graph, status>> /\ (Fine \/ Fault) /\ faults \in Nat /\ faults' >= faults
      /\ j.task = k.task
  BY WalkMoves, PlacesStep
<1>2. k \in Walking /\ k.task.root \in Beads
  BY WalkKnown DEF Walking, Tasks
<1> SUFFICES ASSUME k.task.kind # "both", faults' = 0
             PROVE  Order(j, graph, Available)
  BY <1>1 DEF Ordering, Available
<1>3. ~ Fault /\ Order(k, graph, Available) /\ Places(k)
  BY <1>1 DEF Fault, Ordering
<1>4. CASE Begin(w)
  <2>1. BeginDoes(k, j) /\ k.at = "begin"
    BY <1>4, BeginIs DEF Begin, At
  <2> HIDE DEF k, j
  <2> QED
    BY <1>3, <2>1 DEF BeginDoes, Order, Waits
<1>5. CASE Climb(w)
  <2>1. ClimbDoes(k, j) /\ k.at = "seed" /\ k.task.kind = "seed"
    BY <1>3, <1>5, ClimbIs DEF Climb, At, Places, Kinds
  <2> HIDE DEF k, j
  <2> QED
    BY <1>3, <2>1 DEF ClimbDoes, Order
<1>6. CASE ShowRoot(w) \/ Show(w)
  <2>1. k.at \in {"root", "show"} /\ (ShowRootDoes(k, j) \/ ShowDoes(k, j))
    BY <1>6, ShowRootIs, ShowIs DEF ShowRoot, Show, At
  <2> HIDE DEF k, j
  <2>2. j.at \in {"root", "bfs", "show"} /\ j.task = k.task /\ j.own = k.own /\ (j.found = k.found \/ Available)
    BY <2>1 DEF ShowRootDoes, ShowDoes
  <2> QED
    BY <1>3, <2>1, <2>2 DEF Order
<1>7. CASE Expand(w)
  <2>1. ExpandDoes(k, j) /\ k.at = "bfs"
    BY <1>7, ExpandIs DEF Expand, At
  <2> HIDE DEF k, j
  <2>2. Available \/ j.found = [x \in Beads |-> k.found[x]]
    BY <1>3, <2>1 DEF ExpandDoes, Dependents
  <2> QED
    BY <1>3, <2>1, <2>2 DEF ExpandDoes, Order
<1>8. CASE Filter(w)
  <2>1. FilterDoes(k, j)
    BY <1>8, FilterIs
  <2>2. k.task.kind \notin {"seed", "ids"}
    BY <1>3, <1>8 DEF Filter, At, Places
  <2> HIDE DEF k, j
  <2> QED
    BY <1>3, <2>1, <2>2 DEF FilterDoes, Order, Waits, Kept
<1>9. CASE AskBlockers(w)
  <2> DEFINE b == Min(k.ask)
  <2>1. AskBlockersDoes(k, j) /\ k.at = "blockers"
    BY <1>9, AskBlockersIs DEF AskBlockers, At
  <2>2. b \in k.ask /\ b \in Beads
    BY <1>2, <2>1, FirstParentKnown DEF AskBlockersDoes, Walking
  <2>3. k.task.kind \notin {"seed", "ids"}
    BY <1>3, <2>1 DEF Places
  <2>4. Available
    BY <1>3, <2>1, <2>2, <2>3 DEF Order
  <2>5. j.deps = [k.deps EXCEPT ![b] = graph.blockers[b] \cap k.own]
    BY <1>3, <2>1, <2>4 DEF AskBlockersDoes, Depends, Above
  <2> HIDE DEF k, j, b
  <2>6. k.deps \in [Beads -> SUBSET Beads]
    BY <1>2 DEF Walking
  <2>7. j.ask = k.ask \ {b} /\ <<j.task, j.at, j.own>> = <<k.task, k.at, k.own>> /\ k.own \subseteq Beads
    BY <1>2, <2>1 DEF AskBlockersDoes, b, Walking
  <2>8. Waits(j, graph, j.own \ j.ask)
    BY <1>3, <2>1, <2>2, <2>5, <2>6, <2>7 DEF Order, Waits
  <2> QED
    BY <1>3, <2>1, <2>3, <2>4, <2>7, <2>8 DEF Order
<1>10. CASE BlockersAsked(w)
  <2>1. BlockersAskedDoes(k, j) /\ k.at = "blockers"
    BY <1>10, BlockersAskedIs DEF BlockersAsked, At
  <2> HIDE DEF k, j
  <2> QED
    BY <1>3, <2>1 DEF BlockersAskedDoes, Order, Waits, AfterNodes
<1>11. CASE Probe(w)
  <2>1. ProbeDoes(k, j) /\ k.at = "probe"
    BY <1>11, ProbeIs DEF Probe, At
  <2> HIDE DEF k, j
  <2> QED
    BY <1>3, <2>1 DEF ProbeDoes, Order
<1>12. CASE Unite(w)
  <2>1. UniteDoes(k, j) /\ k.at = "probe" /\ k.task.kind = "ids"
    BY <1>3, <1>12, UniteIs DEF Unite, At, Places, Kinds
  <2> HIDE DEF k, j
  <2>2. j.own = k.ask /\ k.ask \subseteq Beads
    BY <1>2, <1>3, <2>1 DEF UniteDoes, Order, Walking
  <2>3. Waits(j, graph, j.own)
    BY <2>1, <2>2 DEF UniteDoes, Waits, Listed
  <2> QED
    BY <1>3, <2>1, <2>3 DEF UniteDoes, Order
<1>13. CASE Shown(w)
  <2>1. ShownDoes(k, j) /\ k.at = "show" /\ k.task.kind = "explicit" /\ k.task.ids \subseteq Beads
    BY <1>2, <1>3, <1>13, ShownIs DEF Shown, At, Places, Kinds, Walking, Tasks
  <2> HIDE DEF k, j
  <2> QED
    BY <1>3, <2>1 DEF ShownDoes, Order, Waits
<1>14. CASE Sort(w)
  <2>1. SortDoes(k, j) /\ k.at = "sort"
    BY <1>14, SortIs DEF Sort, At
  <2> HIDE DEF k, j
  <2>2. Waits(k, graph, k.own) /\ <<j.task, j.own, j.found>> = <<k.task, k.own, k.found>>
        /\ j.at \in {"done", "cycle"}
    BY <1>3, <2>1 DEF Order, SortDoes
  <2>3. j.at = "done" =>
           \A b \in j.own : \A a \in graph.blockers[b] \cap j.own : j.layers[a] < j.layers[b]
    BY <1>2, <2>1, <2>2, SortOrders
  <2> QED
    BY <1>3, <2>2, <2>3 DEF Order
<1> QED
  BY <1>4, <1>5, <1>6, <1>7, <1>8, <1>9, <1>10, <1>11, <1>12, <1>13, <1>14 DEF WalkStep

\* What a bead of the walk may be held up by, in a graph.
HoldsIn(g, k, b) ==
    IF k.task.kind \in {"ids", "both"} THEN g.parents[b] \cup g.blockers[b] ELSE g.blockers[b]

\* No dependency is made up, and a walk that is refused has a circle of them.
Held(k, g) ==
    /\ \A b \in Beads : k.deps[b] \subseteq HoldsIn(g, k, b)
    /\ k.at = "cycle" => \E C \in SUBSET k.own : C # {} /\ \A b \in C : HoldsIn(g, k, b) \cap C # {}

Holding(w) == Held(walk[w], graph)

LEMMA HoldingStep ==
    ASSUME GraphTypeOK, NEW w \in Walkers, Places(walk[w]), Holding(w), WalkStep(w)
    PROVE  Holding(w)'
<1> DEFINE k == walk[w]
           j == walk'[w]
<1>1. UNCHANGED graph /\ j.task = k.task
  BY WalkMoves, PlacesStep
<1>2. k \in Walking /\ k.own \subseteq Beads /\ k.deps \in [Beads -> SUBSET Beads]
  BY WalkKnown DEF Walking
<1>3. Held(k, graph) /\ Places(k)
  BY DEF Holding
<1> SUFFICES Held(j, graph)
  BY <1>1 DEF Holding
<1>4. \A b \in Beads : HoldsIn(graph, j, b) = HoldsIn(graph, k, b)
  BY <1>1 DEF HoldsIn
<1>5. \A b \in Beads : k.deps[b] \subseteq HoldsIn(graph, k, b)
  BY <1>3 DEF Held
<1>6. CASE AskBlockers(w)
  <2> DEFINE b == Min(k.ask)
  <2>1. AskBlockersDoes(k, j) /\ k.at = "blockers"
    BY <1>6, AskBlockersIs DEF AskBlockers, At
  <2> HIDE DEF k, j
  <2>2. j.deps = k.deps \/ j.deps = [k.deps EXCEPT ![b] = Depends(b, "blocks") \cap k.own]
    BY <2>1 DEF AskBlockersDoes
  <2>3. Depends(b, "blocks") \subseteq HoldsIn(graph, k, b)
    BY DEF Depends, Above, HoldsIn
  <2>4. j.at = "blockers"
    BY <2>1 DEF AskBlockersDoes
  <2> HIDE DEF b
  <2> QED
    BY <1>2, <1>4, <1>5, <2>2, <2>3, <2>4 DEF Held
<1>7. CASE Unite(w)
  <2>1. UniteDoes(k, j) /\ k.task.kind \in {"ids", "both"}
    BY <1>3, <1>7, UniteIs DEF Unite, At, Places, Kinds
  <2> HIDE DEF k, j
  <2>2. \A b \in Beads : Listed(b) \subseteq HoldsIn(graph, k, b)
    BY <2>1 DEF Listed, HoldsIn
  <2> QED
    BY <1>4, <1>5, <2>1, <2>2 DEF UniteDoes, Held
<1>8. CASE Sort(w)
  <2>1. SortDoes(k, j)
    BY <1>8, SortIs
  <2> HIDE DEF k, j
  <2>2. j.own = k.own /\ j.deps = k.deps
    BY <2>1 DEF SortDoes
  <2>3. CASE j.at = "cycle"
    <3>1. Placed(k)[Top] # k.own
      BY <2>1, <2>3 DEF SortDoes
    <3>2. PICK C \in SUBSET k.own : C # {} /\ \A b \in C : k.deps[b] \cap C # {}
      BY <1>2, <3>1, StuckMeansCycle
    <3>3. \A b \in C : HoldsIn(graph, j, b) \cap C # {}
      BY <1>2, <1>4, <1>5, <3>2
    <3> QED
      BY <1>4, <1>5, <2>2, <3>2, <3>3 DEF Held
  <2> QED
    BY <1>4, <1>5, <2>2, <2>3 DEF Held
<1>9. CASE Begin(w) \/ Climb(w) \/ ShowRoot(w) \/ Expand(w) \/ Show(w) \/ Filter(w)
           \/ BlockersAsked(w) \/ Probe(w) \/ Shown(w)
  <2>1. k.at \notin {"sort", "cycle"}
        /\ \/ BeginDoes(k, j) \/ ClimbDoes(k, j) \/ ShowRootDoes(k, j) \/ ExpandDoes(k, j)
           \/ ShowDoes(k, j) \/ FilterDoes(k, j) \/ BlockersAskedDoes(k, j) \/ ProbeDoes(k, j)
           \/ ShownDoes(k, j)
    BY <1>9, BeginIs, ClimbIs, ShowRootIs, ExpandIs, ShowIs, FilterIs, BlockersAskedIs, ProbeIs,
       ShownIs DEF Begin, Climb, ShowRoot, Expand, Show, Filter, BlockersAsked, Probe, Shown, At
  <2> HIDE DEF k, j
  <2>2. j.deps = k.deps /\ j.at # "cycle"
    BY <1>3, <2>1 DEF BeginDoes, ClimbDoes, ShowRootDoes, ExpandDoes, ShowDoes, FilterDoes,
       BlockersAskedDoes, ProbeDoes, ShownDoes, AfterNodes, Places, Kinds
  <2> QED
    BY <1>4, <1>5, <2>2 DEF Held
<1> QED
  BY <1>6, <1>7, <1>8, <1>9 DEF WalkStep

-----------------------------------------------------------------------------
(* The walks together, among beads that are closed and edited.             *)

\* Beside the types this is the inductive invariant: every part speaks of one walk.
Sound(w) ==
    Places(walk[w]) /\ Seeking(w) /\ Descending(w) /\ Staying(w) /\ Ordering(w) /\ Holding(w)

GraphInv == GraphTypeOK /\ \A w \in Walkers : Sound(w)

LEMMA BegunSound ==
    ASSUME GraphTypeOK, NEW w \in Walkers, NEW task \in Tasks, walk[w] = Begun(task)
    PROVE  Sound(w)
<1> DEFINE k == walk[w]
<1>1. /\ k.task = task /\ k.at = "begin" /\ k.todo = <<>> /\ k.seen = {task.root} /\ k.cur = task.root
      /\ k.found = [b \in Beads |-> Unread] /\ k.own = {} /\ k.deps = [b \in Beads |-> {}]
      /\ task.root \in Beads /\ task.kind \in Kinds
  BY DEF Begun, Tasks
<1> HIDE DEF k
<1>2. Places(k)
  BY <1>1 DEF Places, Kinds
<1>3. Seeking(w)
  BY <1>1, UnderItself DEF Seeking, k
<1>4. Descent(k, graph, status)
  BY <1>1 DEF Descent, Read, Unread
<1>5. Within(k, BelowIn(graph, task.root))
  BY <1>1, BelowInIs, BelowIs DEF Within
<1>6. Order(k, graph, Available)
  BY <1>1 DEF Order
<1>7. Held(k, graph)
  BY <1>1 DEF Held
<1> QED
  BY <1>1, <1>2, <1>3, <1>4, <1>5, <1>6, <1>7
     DEF Sound, Descending, Staying, Ordering, Holding, k

\* A walk that does not move stays sound, when calls are lost and beads are closed.
LEMMA OthersSound ==
    ASSUME GraphTypeOK, NEW w \in Walkers, Sound(w), UNCHANGED <<rig, graph>>, walk'[w] = walk[w],
           faults' \in Nat, faults' >= faults,
           \A b \in Beads : status[b] = "closed" => status'[b] = "closed"
    PROVE  Sound(w)'
<1>1. faults \in Nat
  BY BeadGraphAssumption DEF GraphTypeOK
<1>2. walk[w].task.root \in Beads /\ walk[w].seen \subseteq Beads
  BY WalkKnown DEF Walking, Tasks
<1>3. Available' = Available
  BY DEF Available
<1>4. Places(walk[w])'
  BY DEF Sound
<1>5. Seeking(w)'
  BY <1>1, <1>3 DEF Sound, Seeking
<1>6. Descending(w)'
  <2>1. Descent(walk[w], graph, status) => Descent(walk[w], graph, status')
    BY <1>2 DEF Descent, Read
  <2> QED
    BY <1>1, <1>3, <2>1 DEF Sound, Descending
<1>7. Staying(w)' /\ Holding(w)'
  BY DEF Sound, Staying, Holding
<1>8. Ordering(w)'
  BY <1>1, <1>3 DEF Sound, Ordering
<1> QED
  BY <1>4, <1>5, <1>6, <1>7, <1>8 DEF Sound

\* Every walk is sound at every moment of its run, between any two `bd` calls of the others,
\* of the watches and of whoever closes and edits beads.
THEOREM GraphSound == WatchSpec => []GraphInv
<1>1. WatchInit => GraphInv
  <2> SUFFICES ASSUME WatchInit, NEW w \in Walkers PROVE Sound(w)
    BY InitType DEF GraphInv
  <2>1. PICK start \in Starts : GraphInit(start)
    BY DEF WatchInit
  <2>2. walk[w] = Begun(start.tasks[w]) /\ start.tasks[w] \in Tasks
    BY <2>1, BeadGraphAssumption DEF GraphInit
  <2> QED
    BY <2>2, InitType, BegunSound
<1>2. ASSUME GraphInv, GraphTypeOK', [WatchNext]_watchVars PROVE GraphInv'
  <2> SUFFICES ASSUME NEW v \in Walkers PROVE Sound(v)'
    BY <1>2 DEF GraphInv
  <2>1. GraphTypeOK /\ Sound(v)
    BY <1>2 DEF GraphInv
  <2>2. faults \in Nat
    BY <2>1, BeadGraphAssumption DEF GraphTypeOK
  <2>3. CASE \E w \in Walkers : WalkStep(w)
    <3>1. PICK w \in Walkers : WalkStep(w)
      BY <2>3
    <3>2. CASE v = w
      BY <2>1, <3>1, <3>2, PlacesStep, SeekingStep, DescendingStep, StayingStep, OrderingStep,
         HoldingStep DEF Sound
    <3>3. CASE v # w
      BY <2>1, <3>1, <3>3, WalkMoves, OthersSound
    <3> QED
      BY <3>2, <3>3
  <2>4. CASE \E w \in Watchers : WatchStep(w) \/ Cancel(w) \/ Deadline(w)
    <3>1. PICK w \in Watchers : WatchStep(w) \/ Cancel(w) \/ Deadline(w)
      BY <2>4
    <3>2. UNCHANGED <<rig, graph, status, walk>> /\ faults' \in Nat /\ faults' >= faults
      BY <2>1, <3>1, WatchesAside, BeadGraphAssumption
    <3> QED
      BY <2>1, <3>2, OthersSound
  <2>5. CASE \E b \in Beads : CloseBead(b) \/ Edit(b)
    <3>1. UNCHANGED <<rig, graph, walk, faults>>
      BY <2>5 DEF CloseBead, Closes, Edit
    <3>2. \A b \in Beads : status[b] = "closed" => status'[b] = "closed"
      BY <2>1, <2>5 DEF CloseBead, Closes, Edit, GraphTypeOK
    <3> QED
      BY <2>1, <2>2, <3>1, <3>2, OthersSound
  <2>6. CASE UNCHANGED watchVars
    BY <2>1, <2>2, <2>6, OthersSound DEF watchVars, graphVars
  <2> QED
    BY <1>2, <2>3, <2>4, <2>5, <2>6 DEF WatchNext
<1> QED
  BY <1>1, <1>2, GraphTyping, PTL DEF WatchSpec

-----------------------------------------------------------------------------

\* resolve_seed_bead: an issue and its parent get one seed, so that the issues of one tree
\* share the sessions that are kept on it (beads_meta.py:835).
THEOREM SeedsShared == WatchSpec => []SeedShared
<1>1. GraphInv => SeedShared
  BY SeekingIs DEF GraphInv, Sound
<1> QED
  BY <1>1, GraphSound, PTL

\* list_subgraph: whatever is still open below the root is a node, however much above it
\* has been closed and whatever is closed while the walk is under way (beads_meta.py:911).
THEOREM TailFound == WatchSpec => []OpenTailFound
<1>1. GraphInv => OpenTailFound
  BY DescendingIs DEF GraphInv, Sound
<1> QED
  BY <1>1, GraphSound, PTL

\* list_subgraph: no bead of another epic is a node, whichever calls are lost
\* (beads_meta.py:906).
THEOREM OnlyBelowFound == WatchSpec => []OnlyBelow
<1>1. GraphInv => OnlyBelow
  BY BelowInIs DEF GraphInv, Sound, Staying, Within, OnlyBelow, Task
<1> QED
  BY <1>1, GraphSound, PTL

\* topo_sort_blocks: a node is dispatched after the nodes that block it (beads_meta.py:982).
THEOREM BlockersComeFirst == WatchSpec => []BlockersFirst
<1>1. GraphInv => BlockersFirst
  BY DEF GraphInv, Sound, Ordering, Order, BlockersFirst, Ordered, Over, At, Task
<1> QED
  BY <1>1, GraphSound, PTL

\* topo_sort_blocks: what is refused for a cycle has one (beads_meta.py:986).
THEOREM CyclesReal == WatchSpec => []CyclesAreReal
<1>1. \A k, b : Holds(k, b) = HoldsIn(graph, k, b)
  BY DEF Holds, HoldsIn, Listed
<1>2. GraphInv => CyclesAreReal
  BY <1>1 DEF GraphInv, Sound, Holding, Held, CyclesAreReal, At
<1> QED
  BY <1>2, GraphSound, PTL

=============================================================================
