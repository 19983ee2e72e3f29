---------------------------- MODULE Dependencies ----------------------------
(* What it means for a set of components to be mountable in an order, shared  *)
(* by the lifecycle, its contract and the algorithm of dependencyOrder.       *)
EXTENDS Integers, FiniteSets

\* Variant: an order that lists every component but ignores the dependencies.
AnyOrders(S, deps) ==
  {ord \in [1 .. Cardinality(S) -> S] : \A c \in S : \E i \in 1 .. Cardinality(S) : ord[i] = c}

(* Every component of S once, each after the components it depends on. There *)
(* is no such order when a dependency is missing from S or lies on a cycle.  *)
DependencyOrders(S, deps) ==
  {ord \in [1 .. Cardinality(S) -> S] :
     /\ \A c \in S : \E i \in 1 .. Cardinality(S) : ord[i] = c
     /\ \A i, j \in 1 .. Cardinality(S) : ord[i] = ord[j] => i = j
     /\ \A i \in 1 .. Cardinality(S) : \A d \in deps[ord[i]] :
          \E j \in 1 .. i - 1 : ord[j] = d}

\* No dependency is missing.
Closed(S, deps) == \A c \in S : deps[c] \subseteq S

\* No cycle: every nonempty part of S has a member that depends on none of it.
Acyclic(S, deps) ==
  \A T \in (SUBSET S) \ {{}} : \E c \in T : deps[c] \cap T = {}

Mountable(S, deps) == Closed(S, deps) /\ Acyclic(S, deps)
=============================================================================
