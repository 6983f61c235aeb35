----------------------- MODULE DerivationOrderProofs -----------------------
(***************************************************************************)
(* _topological_order for every graph: what is returned is exactly the ids *)
(* with nothing wrong below them, each once and after all it depends on.   *)
(* The invariant: no sound part of the graph ever loses a member, so that  *)
(* when nothing is left to delete, the largest sound part is what remains. *)
(***************************************************************************)
EXTENDS DerivationOrder, FiniteSetTheorems, FunctionTheorems, TLAPS

Closed == \A n \in alive : edges[n] \subseteq alive

\* Nothing sound is lost.
Kept == \A S \in SUBSET Node : Sound(S) => S \subseteq alive

\* What the loop established for the sort, and the sort for the caller.
Progress ==
  /\ stage \in {"sort", "done"} => Closed
  /\ stage = "done" =>
       /\ Acyclic(alive)
       /\ order \in SetToSeqs(alive)
       /\ Sorted(order)

IInv == OrderTypeOK /\ Kept /\ Progress
-----------------------------------------------------------------------------
\* A part of the graph that is sound never holds a node with a dependency
\* outside the working copy, if the working copy holds that part.
LEMMA PruneSpares ==
  ASSUME NEW S, NEW n, S \subseteq alive, Sound(S), Prunable(n)
  PROVE  n \notin S
BY DEF Sound, Prunable

\* Nor does it meet a cycle: in the part it shares with the cycle every node
\* would have its successor.
LEMMA CycleSpares ==
  ASSUME NEW S, NEW C, Sound(S), IsCycle(C)
  PROVE  S \cap C = {}
<1>1. PICK next \in [C -> C] : \A n \in C : next[n] \in edges[n]
  BY DEF IsCycle
<1>2. SUFFICES ASSUME S \cap C # {} PROVE FALSE
  OBVIOUS
<1>3. PICK n \in S \cap C : edges[n] \cap (S \cap C) = {}
  <2>1. S \cap C \in SUBSET S
    OBVIOUS
  <2> QED
    BY <1>2, <2>1 DEF Sound, Acyclic
<1>4. next[n] \in edges[n] /\ next[n] \in C
  BY <1>1, <1>3
<1>5. next[n] \in S
  BY <1>3, <1>4 DEF Sound
<1> QED
  BY <1>3, <1>4, <1>5

\* A permutation of a subset of the nodes is a sequence of nodes.
LEMMA PermutationIsSeq ==
  ASSUME NEW S, NEW N, S \subseteq N, IsFiniteSet(S), NEW s \in SetToSeqs(S)
  PROVE  /\ s \in Seq(N)
         /\ Cardinality(S) \in Nat
         /\ s \in [1 .. Cardinality(S) -> S]
         /\ DOMAIN s = 1 .. Cardinality(S)
<1>1. Cardinality(S) \in Nat
  BY FS_CardinalityType
<1>2. s \in [1 .. Cardinality(S) -> S]
  BY DEF SetToSeqs
<1>3. s \in [1 .. Cardinality(S) -> N]
  BY <1>2
<1> QED
  BY <1>1, <1>2, <1>3

LEMMA InitInvariant == OrderInit => IInv
<1> SUFFICES ASSUME OrderInit PROVE IInv
  OBVIOUS
<1>1. PICK keys \in SUBSET Id : edges \in [keys -> SUBSET Id]
  BY DEF OrderInit
<1>2. Node = keys /\ alive = Node /\ stage = "prune" /\ order = <<>>
  BY <1>1 DEF OrderInit, Node
<1>3. OrderTypeOK
  BY <1>1, <1>2 DEF OrderTypeOK
<1>4. Kept
  BY <1>2 DEF Kept
<1>5. Progress
  BY <1>2 DEF Progress
<1> QED
  BY <1>3, <1>4, <1>5 DEF IInv

\* One step of the loop: the node deleted was in no sound part.
LEMMA PruneInvariant ==
  ASSUME IInv, NEW n \in Id, Prune(n)
  PROVE  IInv'
<1>1. OrderTypeOK'
  BY DEF IInv, OrderTypeOK, Prune, Node
<1>2. Kept'
  <2>1. SUFFICES ASSUME NEW S \in SUBSET Node, Sound(S) PROVE S \subseteq alive \ {n}
    BY DEF Prune, Kept, Node, Sound, Acyclic
  <2>2. S \subseteq alive
    BY <2>1 DEF IInv, Kept
  <2>3. n \notin S
    BY <2>1, <2>2, PruneSpares DEF Prune
  <2> QED
    BY <2>2, <2>3
<1>3. Progress'
  BY DEF Prune, Progress
<1> QED
  BY <1>1, <1>2, <1>3 DEF IInv

\* The end of the loop: everything left has its dependencies left.
LEMMA StopInvariant ==
  ASSUME IInv, StopPruning
  PROVE  IInv'
<1>1. OrderTypeOK'
  BY DEF IInv, OrderTypeOK, StopPruning, Node
<1>2. Kept'
  BY DEF IInv, Kept, StopPruning, Node, Sound, Acyclic
<1>3. Closed
  BY DEF StopPruning, Prunable, Closed
<1>4. Closed' /\ stage' = "sort"
  BY <1>3 DEF StopPruning, Closed
<1>5. Progress'
  BY <1>4 DEF Progress
<1> QED
  BY <1>1, <1>2, <1>5 DEF IInv

\* The sort changes nothing but its result.
LEMMA SortInvariant ==
  ASSUME IInv, Sort
  PROVE  IInv'
<1>1. alive \subseteq Node /\ Node \subseteq Id /\ IsFiniteSet(alive)
  <2>1. alive \subseteq Node /\ Node \subseteq Id
    BY DEF IInv, OrderTypeOK
  <2> QED
    BY <2>1, IdAssumption, FS_Subset
<1>2. order' \in SetToSeqs(alive) /\ Sorted(order') /\ UNCHANGED <<edges, alive>>
      /\ stage' = "done"
  BY DEF Sort
<1>3. order' \in Seq(Node)
  BY <1>1, <1>2, PermutationIsSeq
<1>4. OrderTypeOK'
  BY <1>2, <1>3 DEF IInv, OrderTypeOK, Node
<1>5. Kept'
  BY <1>2 DEF IInv, Kept, Node, Sound, Acyclic
<1>6. Closed /\ Acyclic(alive)
  BY DEF Sort, IInv, Progress
<1>7. Closed' /\ Acyclic(alive)'
  BY <1>2, <1>6 DEF Closed, Acyclic
<1>8. Sorted(order)'
  BY <1>2 DEF Sorted
<1>9. Progress'
  BY <1>2, <1>7, <1>8 DEF Progress
<1> QED
  BY <1>4, <1>5, <1>9 DEF IInv

\* The cycle taken out was in no sound part.
LEMMA CycleInvariant ==
  ASSUME IInv, NEW C \in SUBSET Id, CycleError(C)
  PROVE  IInv'
<1>1. OrderTypeOK'
  BY DEF IInv, OrderTypeOK, CycleError, Node
<1>2. Kept'
  <2>1. SUFFICES ASSUME NEW S \in SUBSET Node, Sound(S) PROVE S \subseteq alive \ C
    BY DEF CycleError, Kept, Node, Sound, Acyclic
  <2>2. S \subseteq alive
    BY <2>1 DEF IInv, Kept
  <2>3. S \cap C = {}
    BY <2>1, CycleSpares DEF CycleError
  <2> QED
    BY <2>2, <2>3
<1>3. Progress'
  BY DEF CycleError, Progress
<1> QED
  BY <1>1, <1>2, <1>3 DEF IInv

LEMMA Invariant == OrderSpec => []IInv
<1>1. IInv /\ [OrderNext]_orderVars => IInv'
  <2> SUFFICES ASSUME IInv, [OrderNext]_orderVars PROVE IInv'
    OBVIOUS
  <2>1. ASSUME NEW n \in Id, Prune(n) PROVE IInv'
    BY <2>1, PruneInvariant
  <2>2. CASE StopPruning
    BY <2>2, StopInvariant
  <2>3. CASE Sort
    BY <2>3, SortInvariant
  <2>4. ASSUME NEW C \in SUBSET Id, CycleError(C) PROVE IInv'
    BY <2>4, CycleInvariant
  <2>5. CASE UNCHANGED orderVars
    <3>1. edges' = edges /\ alive' = alive /\ stage' = stage /\ order' = order
      BY <2>5 DEF orderVars
    <3>2. OrderTypeOK'
      BY <3>1 DEF IInv, OrderTypeOK, Node
    <3>3. \A S : Acyclic(S)' <=> Acyclic(S)
      BY <3>1 DEF Acyclic
    <3>4. Kept'
      BY <3>1, <3>3 DEF IInv, Kept, Sound, Node
    <3>5. Acyclic(alive)' <=> Acyclic(alive)
      BY <3>1 DEF Acyclic
    <3>6. (Sorted(order)' <=> Sorted(order)) /\ (Closed' <=> Closed)
      BY <3>1 DEF Sorted, Closed
    <3>7. Progress'
      BY <3>1, <3>5, <3>6 DEF IInv, Progress
    <3>8. QED
      BY <3>2, <3>4, <3>7 DEF IInv
  <2> QED
    BY <2>1, <2>2, <2>3, <2>4, <2>5 DEF OrderNext
<1> QED
  BY InitInvariant, <1>1, PTL DEF OrderSpec
-----------------------------------------------------------------------------
\* The working copy stays a part of the graph and the result a sequence of its
\* nodes, for every graph.
THEOREM TypeCorrect == OrderSpec => []OrderTypeOK
<1>1. IInv => OrderTypeOK
  BY DEF IInv
<1> QED
  BY Invariant, <1>1, PTL

\* When the loop has ended, what is left is the largest sound part.
LEMMA AliveAreSurvivors ==
  ASSUME IInv, stage = "done"
  PROVE  alive = Survivors
<1>1. Survivors \subseteq alive
  BY DEF IInv, Kept, Survivors
<1>2. Sound(alive) /\ alive \in SUBSET Node
  BY DEF IInv, Progress, Closed, Sound, OrderTypeOK
<1>3. alive \subseteq Survivors
  BY <1>2 DEF Survivors
<1> QED
  BY <1>1, <1>3

\* For every graph, whichever cycle graphlib reports first: exactly the ids
\* with nothing missing and no cycle below them are returned.
THEOREM OnlyBrokenAreSkipped == OrderSpec => []OnlyBrokenSkipped
<1>1. IInv => OnlyBrokenSkipped
  BY AliveAreSurvivors DEF OnlyBrokenSkipped
<1> QED
  BY Invariant, <1>1, PTL

\* The sequence of the sort is a numbering of what is left.
LEMMA OrderNumbers ==
  ASSUME IInv, stage = "done"
  PROVE  \E N \in Nat : DOMAIN order = 1 .. N /\ order \in Bijection(1 .. N, alive)
<1> DEFINE N == Cardinality(alive)
<1>1. alive \subseteq Node /\ IsFiniteSet(alive) /\ order \in SetToSeqs(alive)
  BY IdAssumption, FS_Subset DEF IInv, OrderTypeOK, Progress
<1>2. N \in Nat /\ order \in [1 .. N -> alive] /\ DOMAIN order = 1 .. N
  BY <1>1, PermutationIsSeq
<1>3. \A i, j \in 1 .. N : i # j => order[i] # order[j]
  BY <1>1 DEF SetToSeqs
<1>4. order \in Injection(1 .. N, alive)
  BY <1>2, <1>3 DEF Injection, IsInjective
<1>5. IsFiniteSet(1 .. N) /\ Cardinality(1 .. N) = N
  BY <1>2, FS_Interval
<1>6. order \in Surjection(1 .. N, alive)
  BY <1>1, <1>4, <1>5, FS_Injection
<1>7. order \in Bijection(1 .. N, alive)
  BY <1>4, <1>6 DEF Bijection
<1> QED
  BY <1>2, <1>7

\* For every graph, what a caller gets is one of the orders of the survivors:
\* what the derivation engine's plan takes from here (PlanIsReturned there).
THEOREM ResultIsReturned == OrderSpec => [](stage = "done" => IsResult(order))
<1>1. IInv => (stage = "done" => IsResult(order))
  BY AliveAreSurvivors, OrderNumbers DEF IInv, Progress, IsResult
<1> QED
  BY Invariant, <1>1, PTL

\* For every graph, each id returned comes once and after its dependencies.
THEOREM OrderIsRespected == OrderSpec => []OrderRespectsEdges
<1>1. IInv => OrderRespectsEdges
  <2> SUFFICES ASSUME IInv, stage = "done" PROVE OrderRespectsEdges
    BY DEF OrderRespectsEdges
  <2>1. PICK N \in Nat : DOMAIN order = 1 .. N /\ order \in Bijection(1 .. N, alive)
    BY OrderNumbers
  <2>2. order \in Surjection(1 .. N, alive) /\ order \in Injection(1 .. N, alive)
    BY <2>1 DEF Bijection
  <2>3. \A i, j \in 1 .. N : i # j => order[i] # order[j]
    BY <2>1, <2>2 DEF Injection, IsInjective
  <2>4. ASSUME NEW n \in alive
        PROVE  Cardinality({i \in DOMAIN order : order[i] = n}) = 1
    <3>1. PICK i \in 1 .. N : order[i] = n
      BY <2>2 DEF Surjection
    <3>2. {k \in DOMAIN order : order[k] = n} = {i}
      BY <2>1, <2>3, <3>1
    <3> QED
      BY <3>2, FS_Singleton
  <2>5. ASSUME NEW i \in DOMAIN order, NEW d \in edges[order[i]]
        PROVE  \E j \in 1 .. i - 1 : order[j] = d
    BY <2>5 DEF IInv, Progress, Sorted
  <2> QED
    BY <2>4, <2>5 DEF OrderRespectsEdges
<1> QED
  BY Invariant, <1>1, PTL
=============================================================================
