--------------------------- MODULE TemporalCycles ---------------------------
(***************************************************************************)
(* What the temporal counters promise to count, as the brute-force counter *)
(* enumerates it.                                                          *)
(*                                                                         *)
(* Graph views and starts are those of WindowCycles.  An event is one      *)
(* timestamp of one edge, so it has the form of a start.  A temporal cycle *)
(* is a sequence of events over distinct vertices, back to the first one,  *)
(* with increasing timestamps, the last within the window of the first.    *)
(***************************************************************************)
EXTENDS WindowCycles, SequencesExt

Target(g, x) == g[x.root][x.entry].vertex

\* timestamps_after: the positions in the entry, an interval of them, of the
\* timestamps after prev and not after end.
TimestampsAfter(entry, prev, end) ==
  {i \in 1..Len(entry.times) : prev < entry.times[i] /\ entry.times[i] <= end}

\* The event x may come after the events of walk.
Continues(g, width, walk, x) ==
  /\ x.root = Target(g, Last(walk))
  /\ x.at \in TimestampsAfter(g[x.root][x.entry], StartTime(g, Last(walk)),
                              StartTime(g, walk[1]) + width)

Visits(g, walk, v) == \E i \in 1..Len(walk) : walk[i].root = v

\* The simple temporal paths of n edges whose end is not on the path.
TemporalPaths(g, width, n) ==
  LET paths[k \in 1..n] ==
        IF k = 1 THEN {<<s>> : s \in Starts(g)}
        ELSE {p \in {Append(q, x) : q \in paths[k - 1], x \in Starts(g)} :
                /\ Continues(g, width, Front(p), Last(p))
                /\ ~Visits(g, p, Target(g, Last(p)))}
  IN  paths[n]

\* The temporal cycles of at most max edges.
TemporalCycles(g, width, max) ==
  UNION {{c \in {Append(p, x) : p \in TemporalPaths(g, width, n), x \in Starts(g)} :
            /\ Continues(g, width, Front(c), Last(c))
            /\ Target(g, Last(c)) = c[1].root} : n \in 1..(max - 1)}
=============================================================================
