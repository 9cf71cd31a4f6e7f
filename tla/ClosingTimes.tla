---------------------------- MODULE ClosingTimes ----------------------------
(***************************************************************************)
(* can_reach_root of the temporal searches, and the closing times it keeps *)
(* between its calls.                                                      *)
(*                                                                         *)
(* closing[v] is closing_after_[v]: the earliest arrival at v from which   *)
(* an earlier call did not get back to the root, Never while there is none.*)
(* The walks it tries may visit a vertex twice, also one that is on the    *)
(* path of the search; only their timestamps have to increase.             *)
(***************************************************************************)
EXTENDS TemporalCycles

CONSTANT TimeMax    \* std::numeric_limits<Timestamp>::max()

\* std::nullopt, as an arrival later than any.
Never == TimeMax + 1

NoClosingTimes(g) == [v \in DOMAIN g |-> Never]

\* What the loops visit, in their order: the next vertex and the arrival there.
Hops(g, v, prev, end) ==
  LET To(entry) ==
        LET later == SelectSeq(entry.times, LAMBDA x : prev < x /\ x <= end)
        IN  [i \in 1..Len(later) |-> [vertex |-> entry.vertex, time |-> later[i]]]
  IN  FlattenSeq([e \in 1..Len(g[v]) |-> To(g[v][e])])

\* can_reach_root(current, previous): whether it returns true, and the closing
\* times it leaves.
CanReachRoot(g, root, end, current, previous, closingTimes) ==
  LET call[v \in DOMAIN g, prev \in Int, closing \in [DOMAIN g -> Int]] ==
        IF prev >= closing[v] THEN [reaches |-> FALSE, closing |-> closing]
        ELSE LET Visit(r, hop) ==
                   IF r.reaches THEN r
                   ELSE IF hop.vertex = root THEN [r EXCEPT !.reaches = TRUE]
                   ELSE call[hop.vertex, hop.time, r.closing]
                 tried == FoldLeft(Visit, [reaches |-> FALSE, closing |-> closing],
                                   Hops(g, v, prev, end))
             IN  IF tried.reaches THEN tried
                 ELSE [tried EXCEPT !.closing[v] = prev]
  IN  call[current, previous, closingTimes]

\* The arrivals at v from which some walk of increasing timestamps, the last not
\* after end, leads back to the root: by its definition, without closing times.
ReturnsFrom(g, root, end, current, previous) ==
  LET returns[v \in DOMAIN g, prev \in Int] ==
        \E hop \in ToSet(Hops(g, v, prev, end)) :
          hop.vertex = root \/ returns[hop.vertex, hop.time]
  IN  returns[current, previous]
=============================================================================
