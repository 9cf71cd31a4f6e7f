----------------------------- MODULE MCJohnson ------------------------------
(* Johnson for TLC: five vertices, an entry from root 0 into vertices 1 .. 4, *)
(* one exit back to it, and any of the edges between them.                    *)
EXTENDS Johnson, SequencesExt

Fixed == {<<0, 1>>, <<4, 0>>}
Free  == {e \in (1..4) \X (1..4) : e[1] # e[2]}

AdjacencyOf(E) ==
  [v \in V |-> SetToSortSeq({w \in V : <<v, w>> \in E}, LAMBDA a, b : a < b)]

MCRequests ==
  {<<AdjacencyOf(Fixed \cup E), b>> : E \in SUBSET Free, b \in {Unbounded, 4}}
=============================================================================
