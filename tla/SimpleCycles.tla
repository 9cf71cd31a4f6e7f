---------------------------- MODULE SimpleCycles ----------------------------
(***************************************************************************)
(* What every static counter of the repository promises to count: the      *)
(* simple directed cycles of a graph, by length, each one once.            *)
(*                                                                         *)
(* A graph g is given by its outgoing adjacency, as GraphView and the CUDA *)
(* upload keep it: g[v] is the sequence of the neighbours of vertex v.     *)
(* Vertices are the compacted identifiers 0 .. N-1, so they are ordered,   *)
(* and a cycle is named by the sequence that starts at its least vertex.   *)
(***************************************************************************)
EXTENDS Integers, Sequences, FiniteSets

Neighbours(g, v) == {g[v][i] : i \in 1..Len(g[v])}

\* Adjacency lists of the vertices V, as build_graph_view leaves them: each
\* list is sorted by neighbour and names a neighbour once.
Adjacencies(V) ==
  {g \in [V -> Seq(V)] :
     \A v \in V : \A i, j \in 1..Len(g[v]) : i < j => g[v][i] < g[v][j]}

\* The vertex that follows position k on the closed walk c.
Successor(c, k) == IF k = Len(c) THEN c[1] ELSE c[k + 1]

IsSimpleCycle(g, c) ==
  /\ \A i, j \in 1..Len(c) : i # j => c[i] # c[j]
  /\ \A i \in 2..Len(c) : c[1] < c[i]
  /\ \A k \in 1..Len(c) : Successor(c, k) \in Neighbours(g, c[k])

\* The simple cycles of g whose length is between 2 and max.
Cycles(g, max) ==
  {c \in UNION {[1..k -> DOMAIN g] : k \in 2..max} : IsSimpleCycle(g, c)}

OfLength(S, len) == {c \in S : Len(c) = len}

\* The counts by length that a set of cycles stands for.
HistogramOf(S, max) == [len \in 2..max |-> Cardinality(OfLength(S, len))]
=============================================================================
