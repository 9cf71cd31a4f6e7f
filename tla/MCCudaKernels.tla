--------------------------- MODULE MCCudaKernels ---------------------------
(* CudaKernels for TLC: blocks of two threads, four vertices.                 *)
EXTENDS CudaKernels

Entry(v, times) == [vertex |-> v, times |-> times]
Nothing == [v \in V |-> <<>>]

\* Cycles of two, three and four edges, two of them from the same prefix.
Knot ==
  [Nothing EXCEPT ![0] = <<Entry(1, <<1>>), Entry(2, <<1>>)>>,
                  ![1] = <<Entry(2, <<2>>)>>,
                  ![2] = <<Entry(0, <<3>>), Entry(3, <<3>>)>>,
                  ![3] = <<Entry(0, <<4>>), Entry(2, <<4>>)>>]

\* Three starts, two of them at the same time: one edge only is the first of a
\* time-window cycle.
Ring ==
  [Nothing EXCEPT ![0] = <<Entry(1, <<2, 5>>)>>, ![1] = <<Entry(2, <<2>>)>>,
                  ![2] = <<Entry(0, <<2, 3>>)>>]

\* Five events: the union keeps three.
Braid ==
  [Nothing EXCEPT ![0] = <<Entry(1, <<1>>)>>,
                  ![1] = <<Entry(2, <<2, 2>>)>>,
                  ![2] = <<Entry(0, <<3, 4>>), Entry(1, <<3>>)>>]

Request(m, g, w, b) == [mode |-> m, view |-> g, width |-> w, bound |-> b]

\* Ring's last window ends at the greatest timestamp; with a width of five it ends
\* past it.  In Braid a search in a window meets its own path, an edge past the
\* window and the length bound.  Knot's seven items of four frames are more than the
\* pools can hold.
MCRequests ==
  {Request("static", Knot, 0, 4), Request("static", Braid, 0, 2),
   Request("window", Ring, 4, 3),
   Request("window", Braid, 2, 3), Request("window", Braid, 3, 2),
   Request("temporal", Braid, 3, 3), Request("temporal", Knot, 3, 3),
   Request("temporal", Ring, 4, 3), Request("temporal", Ring, 5, 3),
   Request("temporal", Ring, 0, 3),
   Request("window", Ring, -1, 3), Request("static", Knot, 0, 1),
   Request("window", Nothing, 1, 3), Request("static", Nothing, 1, 3),
   Request("window", Knot, 3, 4)}

\* A graph with cycles of two, three and four edges to split the search of.
MCSplitRequests == {Request("static", Knot, 0, 4)}

\* A window that ends after the greatest timestamp.
MCOverflowRequests == {Request("window", Ring, 6, 3), Request("temporal", Ring, 6, 3)}
=============================================================================
