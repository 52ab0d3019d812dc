---------------------------- MODULE Dependencies ----------------------------
(***************************************************************************)
(* The graph that Node::successors describes: succ[u] is the sequence of   *)
(* the nodes that depend on u, with repetitions.                           *)
(***************************************************************************)
EXTENDS Naturals, Sequences

Edge(succ, u, v) == \E i \in DOMAIN succ[u] : succ[u][i] = v

Predecessors(succ, v) == {u \in DOMAIN succ : Edge(succ, u, v)}

\* A graph has a cycle iff some nodes are such that none of them can come first.
Cyclic(succ) ==
  \E C \in SUBSET DOMAIN succ :
    C # {} /\ \A v \in C : \E u \in C : Edge(succ, u, v)

\* v is on a cycle: every set that has v's successors and with each node its
\* successors has v itself.
Closed(succ, C) == \A u \in C : \A v \in DOMAIN succ : Edge(succ, u, v) => v \in C
OnCycle(succ, v) ==
  \A C \in SUBSET DOMAIN succ :
    Closed(succ, C) /\ (\A u \in DOMAIN succ : Edge(succ, v, u) => u \in C) => v \in C
=============================================================================
