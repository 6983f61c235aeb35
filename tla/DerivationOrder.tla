-------------------------- MODULE DerivationOrder --------------------------
(***************************************************************************)
(* _topological_order of derivation_engine.py: the order in which a sweep  *)
(* evaluates derivations (an id depends on those it must run after), and   *)
(* in which a rollup evaluates the nodes of a tree (a parent depends on    *)
(* its children).  Ids that are no keys are pruned with all that depends   *)
(* on them; so are the cycles, which graphlib reports one at a time, which *)
(* one being an accident of the order of the dictionary.  What is left out *)
(* is skipped in silence.                                                  *)
(***************************************************************************)
EXTENDS Naturals, FiniteSets, SequencesExt

CONSTANT Id     \* everything that may be an id or be named as a dependency

\* The ids are keys of one dictionary and the lists in its values.
ASSUME IdAssumption == IsFiniteSet(Id)

VARIABLES
  edges,   \* edges[n]: what must run before n; its domain are the existing ids
  alive,   \* keys of the working copy
  stage,      \* "prune", "sort" or "done"
  order    \* the result

orderVars == <<edges, alive, stage, order>>

Node == DOMAIN edges

\* any(dep not in alive for dep in deps)
Prunable(n) == ~ (edges[n] \subseteq alive)

\* Every part of S has a member none of whose dependencies are in that part.
Acyclic(S) == \A C \in SUBSET S : C # {} => \E n \in C : edges[n] \cap C = {}

\* C is one simple cycle: along next every member depends on the following
\* one, and no smaller part is closed under it.
IsCycle(C) ==
  /\ C # {}
  /\ \E next \in [C -> C] :
       /\ \A n \in C : next[n] \in edges[n]
       /\ \A D \in SUBSET C : D # {} /\ D # C => \E n \in D : next[n] \notin D

Sorted(s) == \A i \in DOMAIN s : edges[s[i]] \subseteq {s[j] : j \in 1 .. i - 1}
-----------------------------------------------------------------------------
\* del alive[node_id]
Prune(n) ==
  /\ stage = "prune" /\ n \in alive /\ Prunable(n)
  /\ alive' = alive \ {n}
  /\ UNCHANGED <<edges, stage, order>>

\* The pass that finds nothing to delete ends the loop.
StopPruning ==
  /\ stage = "prune" /\ \A n \in alive : ~Prunable(n)
  /\ stage' = "sort"
  /\ UNCHANGED <<edges, alive, order>>

\* Mutant: the keys as they come.
SortUnsorted ==
  /\ stage = "sort" /\ Acyclic(alive)
  /\ order' \in SetToSeqs(alive)
  /\ stage' = "done"
  /\ UNCHANGED <<edges, alive>>

\* graphlib.TopologicalSorter(alive).static_order()
Sort ==
  /\ stage = "sort" /\ Acyclic(alive)
  /\ order' \in {s \in SetToSeqs(alive) : Sorted(s)}
  /\ stage' = "done"
  /\ UNCHANGED <<edges, alive>>

\* Mutant: the recursion forgets to leave out the cycle.
CycleErrorAgain(C) ==
  /\ stage = "sort" /\ C \subseteq alive /\ IsCycle(C)
  /\ stage' = "prune"
  /\ UNCHANGED <<edges, alive, order>>

\* Mutant: a cycle anywhere gives up on the whole graph.
CycleErrorAborts(C) ==
  /\ stage = "sort" /\ C \subseteq alive /\ IsCycle(C)
  /\ alive' = {} /\ stage' = "prune"
  /\ UNCHANGED <<edges, order>>

\* CycleError: its nodes go, and pruning starts over on the rest.
CycleError(C) ==
  /\ stage = "sort" /\ C \subseteq alive /\ IsCycle(C)
  /\ alive' = alive \ C /\ stage' = "prune"
  /\ UNCHANGED <<edges, order>>
-----------------------------------------------------------------------------
OrderInit ==
  /\ \E keys \in SUBSET Id : edges \in [keys -> SUBSET Id]
  /\ alive = DOMAIN edges /\ stage = "prune" /\ order = <<>>

OrderNext ==
  \/ \E n \in Id : Prune(n)
  \/ StopPruning
  \/ Sort
  \/ \E C \in SUBSET Id : CycleError(C)

OrderSpec == OrderInit /\ [][OrderNext]_orderVars

\* A plain function call: it goes on until it returns.
OrderFairSpec == OrderSpec /\ WF_orderVars(OrderNext)
-----------------------------------------------------------------------------
\* The shape of every variable.
OrderTypeOK ==
  /\ Node \subseteq Id /\ edges \in [Node -> SUBSET Id]
  /\ alive \subseteq Node
  /\ stage \in {"prune", "sort", "done"}
  /\ order \in Seq(Node)

Sound(S) == Acyclic(S) /\ \A n \in S : edges[n] \subseteq S

\* The ids with nothing missing and no cycle anywhere below them.
Survivors == UNION {S \in SUBSET Node : Sound(S)}

\* What a caller may get: each survivor once, after all it depends on.
IsResult(s) == Sorted(s) /\ \E n \in Nat : s \in Bijection(1 .. n, Survivors)

\* Docstring, derivation_engine.py:61: what is left when nothing more cascades.
\* Whichever cycle is reported first and in whatever order the nodes are
\* visited, exactly the ids with nothing wrong below them are evaluated, and no
\* derivation is skipped for a fault it does not depend on.
OnlyBrokenSkipped == stage = "done" => alive = Survivors

\* The order returned has every survivor once, after all it depends on.
OrderRespectsEdges ==
  stage = "done" =>
    /\ \A n \in alive : Cardinality({i \in DOMAIN order : order[i] = n}) = 1
    /\ \A i \in DOMAIN order : \A d \in edges[order[i]] : \E j \in 1 .. i - 1 : order[j] = d

\* Every graph is dealt with: the recursion ends.
Returns == <>(stage = "done")
=============================================================================
