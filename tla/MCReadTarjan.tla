---------------------------- MODULE MCReadTarjan ----------------------------
(* ReadTarjan for TLC: the graphs of MCJohnson, with a second exit to root 0. *)
EXTENDS ReadTarjan

Fixed == {<<0, 1>>, <<3, 0>>, <<4, 0>>}
Free  == {e \in (1..4) \X (1..4) : e[1] # e[2]}

AdjacencyOf(E) ==
  [v \in V |-> SetToSortSeq({w \in V : <<v, w>> \in E}, LAMBDA a, b : a < b)]

MCRequests ==
  {<<AdjacencyOf(Fixed \cup E), b>> : E \in SUBSET Free, b \in {Unbounded, 4}}
=============================================================================
