---------------------------- MODULE WindowCycles ----------------------------
(***************************************************************************)
(* What the simple time-window counters promise to count.                  *)
(*                                                                         *)
(* A graph view g maps a vertex to its outgoing entries, sorted by vertex  *)
(* and one for each; the timestamps of an entry are sorted and may repeat. *)
(* A search starts at one timestamp of one edge, the start edge; every     *)
(* other edge of the cycle needs a timestamp in the window that opens      *)
(* there, later than the start unless the edge leaves a vertex below the   *)
(* root, so that among equal timestamps one edge only is the first.        *)
(***************************************************************************)
EXTENDS Integers, Sequences, FiniteSets

\* edge_has_timestamp: TimestampStartPolicy is Inclusive below the root.
HasTimestamp(entry, current, root, start, width) ==
  \E i \in 1..Len(entry.times) :
    /\ IF root > current THEN entry.times[i] >= start ELSE entry.times[i] > start
    /\ entry.times[i] <= start + width

\* A start: a vertex, one of its entries and a timestamp of the entry.
Starts(g) ==
  UNION {UNION {{[root |-> v, entry |-> e, at |-> k] : k \in 1..Len(g[v][e].times)} :
                  e \in 1..Len(g[v])} : v \in DOMAIN g}

StartTime(g, s) == g[s.root][s.entry].times[s.at]

\* The order in which the searches run: by vertex, entry and timestamp.
Before(s, t) ==
  \/ s.root < t.root
  \/ s.root = t.root /\ s.entry < t.entry
  \/ s.root = t.root /\ s.entry = t.entry /\ s.at < t.at

\* The closed walk c, after its start edge, stays in the window of start s.
InWindow(g, width, s, c) ==
  \A k \in 2..Len(c) :
    \E e \in 1..Len(g[c[k]]) :
      /\ g[c[k]][e].vertex = IF k = Len(c) THEN c[1] ELSE c[k + 1]
      /\ HasTimestamp(g[c[k]][e], c[k], s.root, StartTime(g, s), width)

\* The cycles within the window and of at most max edges, each with its start.
WindowCycles(g, width, max) ==
  UNION {{<<s, c>> : c \in
            {c \in UNION {[1..n -> DOMAIN g] : n \in 2..max} :
               /\ c[1] = s.root /\ c[2] = g[s.root][s.entry].vertex
               /\ \A i, j \in 1..Len(c) : i # j => c[i] # c[j]
               /\ InWindow(g, width, s, c)}} : s \in Starts(g)}

\* The counts by length of such a set.
WindowHistogram(S, max) ==
  [len \in 2..max |-> Cardinality({x \in S : Len(x[2]) = len})]
=============================================================================
