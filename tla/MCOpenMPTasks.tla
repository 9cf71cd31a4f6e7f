--------------------------- MODULE MCOpenMPTasks ----------------------------
(* OpenMPTasks for TLC: two threads over four vertices.                       *)
EXTENDS OpenMPTasks, SequencesExt

AdjacencyOf(E) ==
  [v \in V |-> SetToSortSeq({w \in V : <<v, w>> \in E}, LAMBDA a, b : a < b)]

\* From root 0 the paths 0 1 2 and 0 2 lead to one pair of vertices, where three
\* cycles are closed; root 1 has a cycle of its own.
Knot == {<<0, 1>>, <<0, 2>>, <<1, 2>>, <<2, 0>>, <<2, 1>>, <<2, 3>>, <<3, 0>>}

\* The same without the fourth vertex, for cutoffs at which the tasks of roots
\* make tasks that make tasks.
Triangle == {<<0, 1>>, <<0, 2>>, <<1, 2>>, <<2, 0>>, <<2, 1>>}

Request(E, b, k) == [graph |-> AdjacencyOf(E), bound |-> b, cutoff |-> k]

MCRequests ==
  {Request(Knot, Unbounded, 1), Request(Knot, 3, 2), Request(Triangle, Unbounded, 3),
   Request(Triangle, 2, 4)}
=============================================================================
