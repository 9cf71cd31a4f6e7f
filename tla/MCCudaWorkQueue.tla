-------------------------- MODULE MCCudaWorkQueue --------------------------
(* CudaWorkQueue for TLC: two blocks of two threads over five vertices, so   *)
(* that the threads of a block race for the counter and share a histogram.   *)
EXTENDS CudaWorkQueue, TLC

\* A four-cycle from root 0, whose search meets its own path at depth three
\* (the edge from 3 back to 4) and an edge that is one too long for the bound
\* at depth four (from 2 to 1), and the two-cycle of root 3.
Ring == (0 :> <<4>>) @@ (1 :> <<>>) @@ (2 :> <<0, 1>>) @@ (3 :> <<2, 4>>)
          @@ (4 :> <<3>>)

Edgeless == [v \in V |-> <<>>]

MCGraphs == {Ring, Edgeless}
=============================================================================
