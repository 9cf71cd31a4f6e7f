----------------------------- MODULE ReadTarjan -----------------------------
(***************************************************************************)
(* ReadTarjanSearch: the sequential Read-Tarjan counter of static simple   *)
(* cycles.                                                                 *)
(*                                                                         *)
(* A branch is opened only when two paths back to the root are known: the  *)
(* main path, being followed, and an alternate one that leaves it.  The    *)
(* call stack of cycles_read_tarjan() is a variable; an action is one      *)
(* iteration of a call's loop, follow_path() included, or its return.      *)
(***************************************************************************)
EXTENDS SimpleCycles, ReadTarjanPaths

CONSTANTS
  N,            \* graph_.vertex_count()
  Requests,     \* the pairs <<graph, max_cycle_length>> a caller may pass
  Unbounded,    \* the max_cycle_length of a request without one
  NoResult      \* stands for a run that has not returned

V == 0..(N - 1)

\* The parser skips self-loops.
ASSUME RequestAssumption ==
  /\ N \in Nat \ {0}
  /\ Requests \subseteq Adjacencies(V) \X ({Unbounded} \cup (Nat \ {0, 1}))
  /\ \A request \in Requests : \A v \in V : v \notin Neighbours(request[1], v)
  /\ Unbounded \notin Nat

VARIABLES
  graph,        \* outgoing adjacency
  bound,        \* max_cycle_length_
  cycles,       \* what there is to count: the cycles of the request
  root,         \* root_, -1 before the first iteration of run()
  calls,        \* the active calls of cycles_read_tarjan(): their arguments,
                \* offset, and the size current_ is restored to afterwards
  current,      \* current_, the path from the root
  histogram,    \* histogram_
  result,       \* what run() returns
  counted       \* history: the cycles counted

input == <<graph, bound, cycles>>
vars == <<input, root, calls, current, histogram, result, counted>>

Lengths == 2..N

Init ==
  /\ \E request \in Requests : graph = request[1] /\ bound = request[2]
  /\ cycles = Cycles(graph, IF bound = Unbounded THEN N ELSE bound)
  /\ root = -1
  /\ calls = <<>>
  /\ current = <<>>
  /\ histogram = [len \in Lengths |-> 0]
  /\ result = NoResult
  /\ counted = {}

-----------------------------------------------------------------------------
\* No path of a search goes below its root.
Search == [onward |-> graph, root |-> root, inner |-> {v \in V : v > root}]

Running == calls[Len(calls)]
Edges == graph[Running.vertex]
Exhausted == Running.offset > Len(Edges)
NextVertex == Edges[Running.offset]

Blocked == NextVertex < root \/ NextVertex \in Running.blocked
OnMain == ~Blocked /\ Running.main # None /\ NextVertex = Last(Running.main)
OnAlternate ==
  ~Blocked /\ ~OnMain /\ Running.alternate # None /\ NextVertex = Last(Running.alternate)

\* The path to follow from the edge: one of the two known, or another one.
Chosen ==
  IF OnMain THEN Running.main
  ELSE IF OnAlternate THEN Running.alternate
       ELSE FindPath(Search, NextVertex, Running.blocked).path

Followed ==
  Follow(Search, [path |-> Chosen, alternate |-> None, blocked |-> Running.blocked,
                  current |-> current, vertex |-> Running.vertex])

\* ++offset, and a path that is taken is gone.
Stepped ==
  [Running EXCEPT !.offset = @ + 1,
                  !.main = IF OnMain THEN None ELSE @,
                  !.alternate = IF OnAlternate THEN None ELSE @]

Advanced == [calls EXCEPT ![Len(calls)] = Stepped]

NextRoot ==
  /\ calls = <<>>
  /\ root + 1 < N
  /\ root' = root + 1
  /\ current' = <<root + 1>>
  /\ calls' = <<[vertex |-> root + 1, offset |-> 1, blocked |-> {}, main |-> None,
                 alternate |-> None, restore |-> 1]>>
  /\ UNCHANGED <<input, histogram, result, counted>>

Report ==
  /\ calls = <<>> /\ root + 1 = N
  /\ result = NoResult
  /\ result' = histogram
  /\ UNCHANGED <<input, root, calls, current, histogram, counted>>

\* The edge is skipped, or no path to the root goes through it.
Skip ==
  /\ calls # <<>> /\ ~Exhausted
  /\ Blocked \/ Chosen = None
  /\ calls' = Advanced
  /\ UNCHANGED <<input, root, current, histogram, result, counted>>

\* The path is followed to the root without an alternative: a cycle.
FollowToRoot ==
  /\ calls # <<>> /\ ~Exhausted
  /\ ~Blocked /\ Chosen # None
  /\ Followed.alternate = None
  /\ calls' = Advanced
  /\ LET c == Followed.current IN
       IF bound = Unbounded \/ Len(c) <= bound
       THEN /\ histogram' = [histogram EXCEPT ![Len(c)] = @ + 1]
            /\ counted' = counted \cup {c}
       ELSE UNCHANGED <<histogram, counted>>
  /\ UNCHANGED <<input, root, current, result>>

\* The path is followed to a vertex that an alternate path leaves.
FollowToBranch ==
  /\ calls # <<>> /\ ~Exhausted
  /\ ~Blocked /\ Chosen # None
  /\ Followed.alternate # None
  /\ LET f == Followed IN
       /\ calls' = Append(Advanced,
                     [vertex |-> f.vertex, offset |-> 1, blocked |-> f.blocked,
                      main |-> f.path, alternate |-> f.alternate,
                      restore |-> Len(current)])
       /\ current' = f.current
  /\ UNCHANGED <<input, root, histogram, result, counted>>

\* Mutant: follow_path leaves current_ as the branch left it.
ReturnUnrestored ==
  /\ calls # <<>> /\ Exhausted
  /\ calls' = Front(calls)
  /\ UNCHANGED <<input, root, current, histogram, result, counted>>

\* The call returns, and follow_path restores current_.
Return ==
  /\ calls # <<>> /\ Exhausted
  /\ calls' = Front(calls)
  /\ current' = SubSeq(current, 1, Running.restore)
  /\ UNCHANGED <<input, root, histogram, result, counted>>

-----------------------------------------------------------------------------
Returned == result # NoResult /\ UNCHANGED vars

Next == NextRoot \/ Report \/ Skip \/ FollowToRoot \/ FollowToBranch \/ Return \/ Returned

Spec == Init /\ [][Next]_vars /\ WF_vars(Next)

-----------------------------------------------------------------------------
(***************************************************************************)
(* Properties.                                                             *)
(***************************************************************************)
\* A path that continues the current one to the root and does not touch it.
Continues(path, v, blocked) ==
  /\ path[1] = root
  /\ Last(path) \in Neighbours(graph, v)
  /\ \A i \in 2..Len(path) : /\ path[i - 1] \in Neighbours(graph, path[i])
                             /\ path[i] > root /\ path[i] \notin blocked
                             /\ \A j \in 2..(i - 1) : path[i] # path[j]

\* The paths a call has been given stay good until it takes them: its siblings
\* and the calls below it never invalidate them.
KnownPathsStayOpen ==
  \A i \in 1..Len(calls) :
    /\ calls[i].main # None => Continues(calls[i].main, calls[i].vertex, calls[i].blocked)
    /\ calls[i].alternate # None =>
         Continues(calls[i].alternate, calls[i].vertex, calls[i].blocked)

\* A call takes both paths it was opened for, so that it counts, or finds too
\* long, two cycles at least: no branch is searched in vain.
NoFruitlessBranch ==
  calls # <<>> /\ Exhausted => Running.main = None /\ Running.alternate = None

Abstract == INSTANCE CycleCounting WITH MaxCycleLength <- N

\* run() counts every simple cycle within the bound once and returns their
\* histogram.
ReadTarjanCounts == Abstract!Spec
=============================================================================
