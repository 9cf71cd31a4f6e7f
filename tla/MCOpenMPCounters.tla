-------------------------- MODULE MCOpenMPCounters --------------------------
(* OpenMPCounters for TLC: two threads over four vertices.                    *)
EXTENDS OpenMPCounters

Entry(v, times) == [vertex |-> v, times |-> times]
Nothing == [v \in V |-> <<>>]

\* Two paths from 0 to 2, whose arrivals are bundled, with repeated timestamps; the
\* shorter way back leads through 3, which the path of root 3 starts at.  From 2 at
\* 4 there is no way back any more, and at 3 there still is.  Several arrivals at 2
\* come before one event to 3.
Braid ==
  [Nothing EXCEPT ![0] = <<Entry(1, <<1, 1>>), Entry(2, <<2>>)>>,
                  ![1] = <<Entry(2, <<2, 3, 4>>)>>,
                  ![2] = <<Entry(0, <<3, 4, 4>>), Entry(3, <<3, 4>>)>>,
                  ![3] = <<Entry(0, <<4, 5>>)>>]

\* Root 0 reaches 1 along two paths, at 2 and later, by which it cannot return.
Late ==
  [Nothing EXCEPT ![0] = <<Entry(1, <<1, 2>>), Entry(2, <<1>>)>>,
                  ![1] = <<Entry(0, <<2>>), Entry(2, <<3>>)>>,
                  ![2] = <<Entry(1, <<2, 4>>)>>]

Request(a, team, g, w, b) ==
  [algorithm |-> a, team |-> team, graph |-> g, width |-> w, bound |-> b]

Pair == Threads
Alone == {CHOOSE t \in Threads : TRUE}

MCRequests ==
  {Request(a, Pair, g, 4, Unbounded) : a \in Algorithms, g \in {Braid, Late}}
    \cup {Request(a, Alone, Braid, 2, b) : a \in Algorithms, b \in {Unbounded, 3}}
    \cup {Request("temporal_johnson", team, Late, 9, Unbounded) : team \in {Pair, Alone}}
    \cup {Request("temporal_read_tarjan", team, Late, -1, 3) : team \in {Pair, Alone}}
    \cup {Request(a, Pair, Late, 3, 1) : a \in {"johnson", "temporal_johnson"}}
    \cup {Request("read_tarjan", {}, Late, 3, 3)}

\* What the temporal counters refuse, and a window that ends past the greatest
\* timestamp, from a team of two threads and of one.
MCFailingRequests ==
  {Request(a, team, Late, wb[1], wb[2]) :
     a \in TemporalAlgorithms, team \in {Pair, Alone},
     wb \in {<<-1, 3>>, <<3, 1>>, <<9, Unbounded>>}}
=============================================================================
