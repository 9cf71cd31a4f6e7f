-------------------------- MODULE ReadTarjanWindow --------------------------
(***************************************************************************)
(* ReadTarjanTimeWindowSearch: the sequential Read-Tarjan counter of       *)
(* simple cycles within a time window.                                     *)
(*                                                                         *)
(* One search per timestamp of each edge; the path found for the start     *)
(* edge is followed first.  Unlike the static search, paths may go below   *)
(* the root, and nothing keeps an alternate path from beginning at it.     *)
(***************************************************************************)
EXTENDS WindowCycles, ReadTarjanPaths

CONSTANTS
  N,            \* graph_.vertex_count()
  Width,        \* window_width_
  Unbounded,    \* the max_cycle_length of a request without one
  Requests,     \* the pairs <<graph view, max_cycle_length>> a caller may pass
  NoResult      \* stands for a run that has not returned

V == 0..(N - 1)

VARIABLES
  graph,        \* outgoing entries
  bound,        \* max_cycle_length_
  cycles,       \* what there is to count: the cycles of the request
  left,         \* the starts run() has still to visit
  start,        \* the start being searched, NoResult before the first
  calls,        \* the active calls of cycles_read_tarjan(): their arguments,
                \* offset, and the size current_ is restored to afterwards
  current,      \* current_, the path from the root
  histogram,    \* histogram_
  result,       \* what run() returns
  counted       \* history: the cycles counted, with their starts

input == <<graph, bound, cycles>>
vars == <<input, left, start, calls, current, histogram, result, counted>>

Lengths == 2..N

\* The search as constructed for a request.
Constructed ==
  /\ left = Starts(graph)
  /\ start = NoResult
  /\ calls = <<>>
  /\ current = <<>>
  /\ histogram = [len \in Lengths |-> 0]
  /\ result = NoResult
  /\ counted = {}

Init ==
  /\ \E request \in Requests : graph = request[1] /\ bound = request[2]
  /\ cycles = WindowCycles(graph, Width, IF bound = Unbounded THEN N ELSE bound)
  /\ Constructed

-----------------------------------------------------------------------------
\* The paths of a search from start s.
Admitted(s, v) ==
  LET entries == SelectSeq(graph[v], LAMBDA entry :
                   HasTimestamp(entry, v, s.root, StartTime(graph, s), Width))
  IN  [i \in 1..Len(entries) |-> entries[i].vertex]

Search(s) == [onward |-> [v \in V |-> Admitted(s, v)], root |-> s.root, inner |-> V]

\* What follow_path(v, blocked, path) comes to.
Followed(s, v, blocked, path, upto) ==
  Follow(Search(s), [path |-> path, alternate |-> None, blocked |-> blocked,
                     current |-> upto, vertex |-> v])

\* histogram_.increment, if the path followed to the root is short enough.
Count(s, c) ==
  IF bound = Unbounded \/ Len(c) <= bound
  THEN /\ histogram' = [histogram EXCEPT ![Len(c)] = @ + 1]
       /\ counted' = counted \cup {<<s, c>>}
  ELSE UNCHANGED <<histogram, counted>>

\* The call that follow_path makes when an alternate path leaves the path.
Branch(f, restore) ==
  [vertex |-> f.vertex, offset |-> 1, blocked |-> f.blocked, main |-> f.path,
   alternate |-> f.alternate, restore |-> restore]

\* The next iteration of run().
NextStart ==
  /\ calls = <<>>
  /\ \E s \in left :
       /\ \A t \in left \ {s} : Before(s, t)
       /\ left' = left \ {s}
       /\ start' = s
       /\ LET got == FindPath(Search(s), graph[s.root][s.entry].vertex, {})
              f == Followed(s, s.root, got.blocked, got.path, <<s.root>>)
          IN  IF got.path = None
              THEN current' = <<s.root>> /\ UNCHANGED <<calls, histogram, counted>>
              ELSE IF f.alternate = None
              THEN current' = <<s.root>> /\ calls' = calls /\ Count(s, f.current)
              ELSE /\ current' = f.current
                   /\ calls' = <<Branch(f, 1)>>
                   /\ UNCHANGED <<histogram, counted>>
  /\ UNCHANGED <<input, result>>

Report ==
  /\ calls = <<>> /\ left = {}
  /\ result = NoResult
  /\ result' = histogram
  /\ UNCHANGED <<input, left, start, calls, current, histogram, counted>>

-----------------------------------------------------------------------------
Running == calls[Len(calls)]
Edges == Admitted(start, Running.vertex)
Exhausted == Running.offset > Len(Edges)
NextVertex == Edges[Running.offset]

Blocked == NextVertex \in Running.blocked
OnMain == ~Blocked /\ Running.main # None /\ NextVertex = Last(Running.main)
OnAlternate ==
  ~Blocked /\ ~OnMain /\ Running.alternate # None /\ NextVertex = Last(Running.alternate)

\* The path to follow from the edge: one of the two known, or another one.
Chosen ==
  IF OnMain THEN Running.main
  ELSE IF OnAlternate THEN Running.alternate
       ELSE FindPath(Search(start), NextVertex, Running.blocked).path

\* ++offset, and a path that is taken is gone.
Advanced ==
  [calls EXCEPT ![Len(calls)] =
     [@ EXCEPT !.offset = @ + 1,
               !.main = IF OnMain THEN None ELSE @,
               !.alternate = IF OnAlternate THEN None ELSE @]]

\* The edge is skipped, or no path to the root goes through it.
Skip ==
  /\ calls # <<>> /\ ~Exhausted
  /\ Blocked \/ Chosen = None
  /\ calls' = Advanced
  /\ UNCHANGED <<input, left, start, current, histogram, result, counted>>

\* The path is followed to the root, or to a vertex that another one leaves.
FollowEdge ==
  /\ calls # <<>> /\ ~Exhausted
  /\ ~Blocked /\ Chosen # None
  /\ LET f == Followed(start, Running.vertex, Running.blocked, Chosen, current) IN
       IF f.alternate = None
       THEN current' = current /\ calls' = Advanced /\ Count(start, f.current)
       ELSE /\ current' = f.current
            /\ calls' = Append(Advanced, Branch(f, Len(current)))
            /\ UNCHANGED <<histogram, counted>>
  /\ UNCHANGED <<input, left, start, result>>

\* Mutant: current_ keeps what the branch added to it.
ReturnUnrestored ==
  /\ calls # <<>> /\ Exhausted
  /\ calls' = Front(calls)
  /\ UNCHANGED <<input, left, start, current, histogram, result, counted>>

\* The call returns, and follow_path restores current_.
Return ==
  /\ calls # <<>> /\ Exhausted
  /\ calls' = Front(calls)
  /\ current' = SubSeq(current, 1, Running.restore)
  /\ UNCHANGED <<input, left, start, histogram, result, counted>>

-----------------------------------------------------------------------------
Returned == result # NoResult /\ UNCHANGED vars

Next == NextStart \/ Report \/ Skip \/ FollowEdge \/ Return \/ Returned

Spec == Init /\ [][Next]_vars /\ WF_vars(Next)

-----------------------------------------------------------------------------
(***************************************************************************)
(* Properties.                                                             *)
(***************************************************************************)
\* What is counted is a cycle within the window and the bound that was not
\* counted before: the search never counts too much.
CountsNothingTwice ==
  [][histogram' # histogram =>
       \E x \in cycles \ counted :
         /\ counted' = counted \cup {x}
         /\ histogram' = [histogram EXCEPT ![Len(x[2])] = @ + 1]]_vars
=============================================================================
