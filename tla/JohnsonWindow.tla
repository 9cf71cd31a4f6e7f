--------------------------- MODULE JohnsonWindow ----------------------------
(***************************************************************************)
(* JohnsonTimeWindowSearch: the sequential counter of simple cycles within *)
(* a time window.                                                          *)
(*                                                                         *)
(* One search per timestamp of each edge.  The root is on path_ but never  *)
(* blocked, and vertices below the root may be on the path.  The length    *)
(* bound is checked where the static search checks it, but here there is   *)
(* no separate search for a bounded request.                               *)
(***************************************************************************)
EXTENDS WindowCycles

CONSTANTS
  N,            \* graph_.vertex_count()
  Width,        \* window_width_
  Unbounded,    \* the max_cycle_length of a request without one
  Requests,     \* the pairs <<graph view, max_cycle_length>> a caller may pass
  NoResult      \* stands for a run that has not returned

V == 0..(N - 1)

ASSUME RequestAssumption ==
  /\ N \in Nat \ {0}
  /\ Width \in Nat
  /\ Unbounded \notin Nat
  /\ \A request \in Requests :
       /\ request[2] \in {Unbounded} \cup (Nat \ {0, 1})
       /\ request[1] \in [V -> Seq([vertex : V, times : Seq(Int)])]
       /\ \A v \in V : \A e \in 1..Len(request[1][v]) :
            /\ request[1][v][e].vertex # v
            /\ \A d \in 1..(e - 1) : request[1][v][d].vertex < request[1][v][e].vertex
            /\ request[1][v][e].times # <<>>

VARIABLES
  graph,        \* outgoing entries
  bound,        \* max_cycle_length_
  cycles,       \* what there is to count: the cycles of the request
  left,         \* the starts run() has still to visit
  start,        \* the start being searched, NoResult before the first
  calls,        \* the active calls: vertex, offset and found_cycle of each
  blocked,      \* the vertices with blocked_ set
  blockedLists, \* blocked_list_; no list holds a vertex twice
  histogram,    \* histogram_
  result,       \* what run() returns
  counted       \* history: the cycles counted, with their starts

input == <<graph, bound, cycles>>
vars == <<input, left, start, calls, blocked, blockedLists, histogram, result, counted>>

Lengths == 2..N

Init ==
  /\ \E request \in Requests : graph = request[1] /\ bound = request[2]
  /\ cycles = WindowCycles(graph, Width, IF bound = Unbounded THEN N ELSE bound)
  /\ left = Starts(graph)
  /\ start = NoResult
  /\ calls = <<>>
  /\ blocked = {}
  /\ blockedLists = [v \in V |-> {}]
  /\ histogram = [len \in Lengths |-> 0]
  /\ result = NoResult
  /\ counted = {}

-----------------------------------------------------------------------------
\* The call that runs, the entry its loop looks at, and path_.
Running == calls[Len(calls)]
Entries == graph[Running.vertex]
Exhausted == Running.offset > Len(Entries)
Edge == Entries[Running.offset]
Path == <<start.root>> \o [i \in 1..Len(calls) |-> calls[i].vertex]

InReach(entry, v) == HasTimestamp(entry, v, start.root, StartTime(graph, start), Width)

Called(v) == [vertex |-> v, offset |-> 1, found |-> FALSE]

\* Mutant: reset_state() forgets the blocked flags.
NextStartBlocked ==
  /\ calls = <<>>
  /\ \E s \in left :
       /\ \A t \in left \ {s} : Before(s, t)
       /\ left' = left \ {s}
       /\ start' = s
       /\ calls' = <<Called(graph[s.root][s.entry].vertex)>>
       /\ blocked' = blocked \cup {graph[s.root][s.entry].vertex}
  /\ blockedLists' = [v \in V |-> {}]
  /\ UNCHANGED <<input, histogram, result, counted>>

\* The next iteration of run(): reset_state() and the call for the start edge.
NextStart ==
  /\ calls = <<>>
  /\ \E s \in left :
       /\ \A t \in left \ {s} : Before(s, t)
       /\ left' = left \ {s}
       /\ start' = s
       /\ calls' = <<Called(graph[s.root][s.entry].vertex)>>
       /\ blocked' = {graph[s.root][s.entry].vertex}
  /\ blockedLists' = [v \in V |-> {}]
  /\ UNCHANGED <<input, histogram, result, counted>>

Report ==
  /\ calls = <<>> /\ left = {}
  /\ result = NoResult
  /\ result' = histogram
  /\ UNCHANGED <<input, left, start, calls, blocked, blockedLists, histogram, counted>>

\* The edge closes the path.
Closes == InReach(Edge, Running.vertex) /\ Edge.vertex = start.root

Close ==
  /\ calls # <<>> /\ ~Exhausted
  /\ Closes
  /\ histogram' = [histogram EXCEPT ![Len(Path)] = @ + 1]
  /\ calls' = [calls EXCEPT ![Len(calls)].offset = @ + 1, ![Len(calls)].found = TRUE]
  /\ counted' = counted \cup {<<start, Path>>}
  /\ UNCHANGED <<input, left, start, blocked, blockedLists, result>>

Skipped ==
  \/ ~InReach(Edge, Running.vertex)
  \/ Edge.vertex \in blocked
  \/ bound # Unbounded /\ Len(Path) >= bound

Skip ==
  /\ calls # <<>> /\ ~Exhausted
  /\ ~Closes /\ Skipped
  /\ calls' = [calls EXCEPT ![Len(calls)].offset = @ + 1]
  /\ UNCHANGED <<input, left, start, blocked, blockedLists, histogram, result, counted>>

\* The recursive call.
Call ==
  /\ calls # <<>> /\ ~Exhausted
  /\ ~Closes /\ ~Skipped
  /\ calls' = Append([calls EXCEPT ![Len(calls)].offset = @ + 1], Called(Edge.vertex))
  /\ blocked' = blocked \cup {Edge.vertex}
  /\ UNCHANGED <<input, left, start, blockedLists, histogram, result, counted>>

-----------------------------------------------------------------------------
\* Mutant: success clears every flag.
ReleasedAll(v) == V

\* The vertices unblock(v) unblocks: v, and through the blocked lists every
\* blocked dependent of one it unblocks.
Released(v) ==
  LET within[k \in 0..N] ==
        IF k = 0 THEN {v}
        ELSE LET R == within[k - 1]
             IN  R \cup (blocked \cap UNION {blockedLists[u] : u \in R})
  IN  within[N]

Unblock(v) ==
  /\ blocked' = blocked \ Released(v)
  /\ blockedLists' = [u \in V |-> IF u \in Released(v) THEN {} ELSE blockedLists[u]]

\* The neighbours of v, but the root, that an edge in the window leads to.
WaitsFor(v) ==
  {graph[v][e].vertex : e \in {d \in 1..Len(graph[v]) :
     graph[v][d].vertex # start.root /\ InReach(graph[v][d], v)}}

\* Mutant: v waits for the neighbours above the root only, as the static
\* search has it.
AddAboveRoot(v) ==
  /\ blocked' = blocked
  /\ blockedLists' = [u \in V |-> IF u \in WaitsFor(v) /\ u > start.root
                                  THEN blockedLists[u] \cup {v} ELSE blockedLists[u]]

AddToBlockedLists(v) ==
  /\ blocked' = blocked
  /\ blockedLists' = [u \in V |-> IF u \in WaitsFor(v) THEN blockedLists[u] \cup {v}
                                                      ELSE blockedLists[u]]

Return ==
  /\ calls # <<>> /\ Exhausted
  /\ IF Running.found THEN Unblock(Running.vertex) ELSE AddToBlockedLists(Running.vertex)
  /\ calls' = [i \in 1..(Len(calls) - 1) |->
                 IF i = Len(calls) - 1
                 THEN [calls[i] EXCEPT !.found = @ \/ Running.found] ELSE calls[i]]
  /\ UNCHANGED <<input, left, start, histogram, result, counted>>

-----------------------------------------------------------------------------
Returned == result # NoResult /\ UNCHANGED vars

Next == NextStart \/ Report \/ Close \/ Skip \/ Call \/ Return \/ Returned

Spec == Init /\ [][Next]_vars /\ WF_vars(Next)

-----------------------------------------------------------------------------
(***************************************************************************)
(* Properties.                                                             *)
(***************************************************************************)
\* Without a length bound what is on the path after the root is blocked, and the
\* root is on it once: no walk counted visits a vertex twice.  With a bound a
\* vertex that failed for its length waits in the list of one that is not
\* blocked, and is unblocked from there when it is on the path again.
WindowPathSimple ==
  bound = Unbounded /\ calls # <<>> =>
    /\ \A i \in 1..Len(calls) : calls[i].vertex \in blocked
    /\ \A i, j \in 1..Len(Path) : i # j => Path[i] # Path[j]

\* The vertices off the path from which the root is in reach, by edges in the
\* window, without crossing the path.
Hopeful ==
  LET Free == {v \in V : \A i \in 1..Len(Path) : v # Path[i]}
      Follow(v) == {graph[v][e].vertex : e \in {d \in 1..Len(graph[v]) : InReach(graph[v][d], v)}}
      within[k \in 0..N] ==
        IF k = 0 THEN {v \in Free : start.root \in Follow(v)}
        ELSE LET R == within[k - 1]
             IN  R \cup {v \in Free : Follow(v) \cap R # {}}
  IN  within[N]

\* Without a length bound a vertex left blocked by a failed search cannot be on
\* a cycle that continues the path: skipping it loses nothing.
WindowBlockedIsHopeless ==
  bound = Unbounded /\ calls # <<>> => blocked \cap Hopeful = {}

Abstract == INSTANCE CycleCounting
              WITH HistogramOf <- WindowHistogram, MaxCycleLength <- N

\* Without a length bound run() counts each cycle within the window once for
\* each of its starts, and returns their histogram.
CountsWindowCycles == Abstract!Spec
=============================================================================
