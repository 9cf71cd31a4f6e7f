----------------------------- MODULE CycleUnion -----------------------------
(***************************************************************************)
(* compute_temporal_cycle_union: the vertices that may be on a temporal    *)
(* cycle with a given start.  They are reachable from the first vertex,    *)
(* and the root from them, by edges with an event after the start and in   *)
(* its window; the order of these events is ignored.                       *)
(***************************************************************************)
EXTENDS TemporalCycles

\* An edge from v to w has an event after the start and in its window.
HasEventAfterStart(g, v, w, start, end) ==
  \E e \in 1..Len(g[v]) :
    g[v][e].vertex = w /\ TimestampsAfter(g[v][e], start, end) # {}

\* The vertices a breadth-first search visits from v, with the ends each vertex has.
Reachable(g, v, ends) ==
  LET n == Cardinality(DOMAIN g)
      within[k \in 0..n] ==
        IF k = 0 THEN {v}
        ELSE within[k - 1] \cup UNION {ends[u] : u \in within[k - 1]}
  IN  within[n]

ForwardReachable(g, first, start, end) ==
  Reachable(g, first, [u \in DOMAIN g |->
    {w \in DOMAIN g : HasEventAfterStart(g, u, w, start, end)}])

ReverseReachable(g, root, start, end) ==
  Reachable(g, root, [u \in DOMAIN g |->
    {w \in DOMAIN g : HasEventAfterStart(g, w, u, start, end)}])

\* Mutant: the events have to come before the start's.
UnionBefore(g, root, first, start, width) ==
  ForwardReachable(g, first, start - width, start)
    \cap ReverseReachable(g, root, start - width, start)

Union(g, root, first, start, width) ==
  ForwardReachable(g, first, start, start + width)
    \cap ReverseReachable(g, root, start, start + width)
=============================================================================
