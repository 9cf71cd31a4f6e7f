------------------------------ MODULE Johnson -------------------------------
(***************************************************************************)
(* JohnsonSearch, the sequential counter of static simple cycles.          *)
(*                                                                         *)
(* For each root in turn the recursive circuit() walks the vertices above  *)
(* the root.  Without a length bound a vertex stays blocked after a search *)
(* of it that found no cycle, and waits in the blocked lists of its        *)
(* neighbours until one of them is unblocked; with a bound,                *)
(* circuit_bounded() blocks the vertices of the path only.  The call stack *)
(* is a variable; an action is one iteration of a call's loop, or its      *)
(* return.                                                                 *)
(***************************************************************************)
EXTENDS SimpleCycles

CONSTANTS
  N,            \* graph_.vertex_count()
  Requests,     \* the pairs <<graph, max_cycle_length>> a caller may pass
  Unbounded,    \* the max_cycle_length of a request without one
  NoResult      \* stands for a run that has not returned

V == 0..(N - 1)

ASSUME RequestAssumption ==
  /\ N \in Nat \ {0}
  /\ Requests \subseteq Adjacencies(V) \X ({Unbounded} \cup (Nat \ {0, 1}))
  /\ Unbounded \notin Nat

VARIABLES
  graph,        \* outgoing adjacency
  cycles,       \* what there is to count: the cycles of the request
  bound,        \* max_cycle_length_
  root,         \* root_, -1 before the first iteration of run()
  calls,        \* the active calls: vertex, offset and found_cycle of each
  blocked,      \* the vertices with blocked_ set
  blockedLists, \* blocked_list_; no list holds a vertex twice
  histogram,    \* histogram_
  result,       \* what run() returns
  counted       \* history: the cycles counted

input == <<graph, bound, cycles>>
vars == <<input, root, calls, blocked, blockedLists, histogram, result, counted>>

Lengths == 2..N

Init ==
  /\ \E request \in Requests : graph = request[1] /\ bound = request[2]
  /\ cycles = Cycles(graph, IF bound = Unbounded THEN N ELSE bound)
  /\ root = -1
  /\ calls = <<>>
  /\ blocked = {}
  /\ blockedLists = [v \in V |-> {}]
  /\ histogram = [len \in Lengths |-> 0]
  /\ result = NoResult
  /\ counted = {}

-----------------------------------------------------------------------------
Bounded == bound # Unbounded

\* The call that runs, the edge its loop looks at, and path_.
Depth == Len(calls)
Running == calls[Depth]
Edges == graph[Running.vertex]
Exhausted == Running.offset > Len(Edges)
NextVertex == Edges[Running.offset]
Path == [i \in 1..Depth |-> calls[i].vertex]

Called(v) == [vertex |-> v, offset |-> 1, found |-> FALSE]

\* The next iteration of run(): a fresh search from the next vertex.
NextRoot ==
  /\ calls = <<>>
  /\ root + 1 < N
  /\ root' = root + 1
  /\ calls' = <<Called(root + 1)>>
  /\ blocked' = {root + 1}
  /\ blockedLists' = [v \in V |-> {}]
  /\ UNCHANGED <<input, histogram, result, counted>>

Report ==
  /\ calls = <<>>
  /\ root + 1 = N
  /\ result = NoResult
  /\ result' = histogram
  /\ UNCHANGED <<input, root, calls, blocked, blockedLists, histogram,
                 counted>>

\* The edge closes the path.
Close ==
  /\ calls # <<>> /\ ~Exhausted
  /\ NextVertex = root /\ Depth >= 2
  /\ histogram' = [histogram EXCEPT ![Depth] = @ + 1]
  /\ calls' = [calls EXCEPT ![Depth].offset = @ + 1, ![Depth].found = TRUE]
  /\ counted' = counted \cup {Path}
  /\ UNCHANGED <<input, root, blocked, blockedLists, result>>

\* Mutant: blocked vertices are searched again.
SkippedUnblocked(v) == v <= root \/ (Bounded /\ Depth >= bound)

Skipped(v) ==
  \/ v <= root
  \/ v \in blocked
  \/ Bounded /\ Depth >= bound

Skip ==
  /\ calls # <<>> /\ ~Exhausted
  /\ ~(NextVertex = root /\ Depth >= 2)
  /\ Skipped(NextVertex)
  /\ calls' = [calls EXCEPT ![Depth].offset = @ + 1]
  /\ UNCHANGED <<input, root, blocked, blockedLists, histogram, result,
                 counted>>

\* Mutant: the caller's offset stays on the edge.
CallAgain ==
  /\ calls # <<>> /\ ~Exhausted
  /\ ~(NextVertex = root /\ Depth >= 2)
  /\ ~Skipped(NextVertex)
  /\ calls' = Append(calls, Called(NextVertex))
  /\ blocked' = blocked \cup {NextVertex}
  /\ UNCHANGED <<input, root, blockedLists, histogram, result, counted>>

\* The recursive call.
Call ==
  /\ calls # <<>> /\ ~Exhausted
  /\ ~(NextVertex = root /\ Depth >= 2)
  /\ ~Skipped(NextVertex)
  /\ calls' = Append([calls EXCEPT ![Depth].offset = @ + 1], Called(NextVertex))
  /\ blocked' = blocked \cup {NextVertex}
  /\ UNCHANGED <<input, root, blockedLists, histogram, result, counted>>

-----------------------------------------------------------------------------
\* Mutants: success clears every flag; dependents are left blocked.
ReleasedAll(v) == V
ReleasedAlone(v) == {v}

\* The vertices unblock(v) unblocks: v, and through the blocked lists every
\* blocked dependent of one it unblocks.
Released(v) ==
  LET within[k \in 0..N] ==
        IF k = 0 THEN {v}
        ELSE LET R == within[k - 1]
             IN  R \cup (blocked \cap UNION {blockedLists[u] : u \in R})
  IN  within[N]

Unblock(v) ==
  /\ blocked' = blocked \ Released(v)
  /\ blockedLists' = [u \in V |-> IF u \in Released(v) THEN {} ELSE blockedLists[u]]

\* Mutant: v waits for the neighbours only that are not blocked themselves.
AddToUnblockedLists(v) ==
  /\ blocked' = blocked
  /\ blockedLists' = [u \in V |-> IF u > root /\ u \in Neighbours(graph, v) \ blocked
                                  THEN blockedLists[u] \cup {v} ELSE blockedLists[u]]

\* add_to_blocked_lists: v waits for each neighbour above the root.
AddToBlockedLists(v) ==
  /\ blocked' = blocked
  /\ blockedLists' = [u \in V |-> IF u > root /\ u \in Neighbours(graph, v)
                                  THEN blockedLists[u] \cup {v} ELSE blockedLists[u]]

\* Mutant: a search that failed for its length keeps its vertex blocked.
LeaveBlocked(v, found) == IF found THEN Unblock(v) ELSE AddToBlockedLists(v)

\* The blocking state a call leaves behind.
Leave(v, found) ==
  IF Bounded
  THEN blocked' = blocked \ {v} /\ blockedLists' = blockedLists
  ELSE IF found THEN Unblock(v) ELSE AddToBlockedLists(v)

\* The stack of calls without the last one, whose result its caller takes.
Popped ==
  [i \in 1..(Depth - 1) |->
     IF i = Depth - 1 THEN [calls[i] EXCEPT !.found = @ \/ Running.found] ELSE calls[i]]

Return ==
  /\ calls # <<>> /\ Exhausted
  /\ Leave(Running.vertex, Running.found)
  /\ calls' = Popped
  /\ UNCHANGED <<input, root, histogram, result, counted>>

-----------------------------------------------------------------------------
Returned == result # NoResult /\ UNCHANGED vars

Next == NextRoot \/ Report \/ Close \/ Skip \/ Call \/ Return \/ Returned

Spec == Init /\ [][Next]_vars /\ WF_vars(Next)

-----------------------------------------------------------------------------
(***************************************************************************)
(* Properties.                                                             *)
(***************************************************************************)
JohnsonTypeOK ==
  /\ root \in -1..(N - 1)
  /\ Depth <= N
  /\ \A i \in 1..Depth : /\ calls[i].vertex \in V
                         /\ calls[i].offset \in 1..(Len(graph[calls[i].vertex]) + 1)
                         /\ calls[i].found \in BOOLEAN
  /\ blocked \subseteq V
  /\ blockedLists \in [V -> SUBSET V]
  /\ histogram \in [Lengths -> Nat]

\* The cascade of unblockings never reaches a vertex of the path: what is on
\* the path is blocked, so that no walk counted visits a vertex twice.
PathStaysBlocked ==
  \A i \in 1..Depth : Path[i] \in blocked /\ \A j \in 1..(i - 1) : Path[i] # Path[j]

\* The vertices above the root, off the path, from which the root is in reach
\* without crossing the path.
Hopeful ==
  LET Free == {v \in V : v > root /\ \A i \in 1..Depth : v # Path[i]}
      within[k \in 0..N] ==
        IF k = 0 THEN {v \in Free : root \in Neighbours(graph, v)}
        ELSE LET R == within[k - 1]
             IN  R \cup {v \in Free : Neighbours(graph, v) \cap R # {}}
  IN  within[N]

\* A vertex left blocked by a failed search cannot be on a cycle that continues
\* the path: skipping it loses nothing.
BlockedIsHopeless == calls # <<>> => blocked \cap Hopeful = {}

\* A vertex left blocked waits in the list of each of its neighbours above the
\* root, so that whichever is unblocked first unblocks it.
WaitsForAllNeighbours ==
  ~Bounded /\ calls # <<>> =>
    \A v \in blocked : (\A i \in 1..Depth : v # Path[i]) =>
      \A u \in Neighbours(graph, v) : u > root => v \in blockedLists[u]

Abstract == INSTANCE CycleCounting WITH MaxCycleLength <- N

\* run() counts every simple cycle within the bound once and returns their
\* histogram, with and without a bound.
JohnsonCounts == Abstract!Spec

\* run() returns.
JohnsonReturns == <>(result # NoResult)
=============================================================================
