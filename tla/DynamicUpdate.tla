---------------------------- MODULE DynamicUpdate ----------------------------
(***************************************************************************)
(* update_static_histogram_openmp: the histogram of a graph after a batch  *)
(* of edge changes, from the histogram before it.                          *)
(*                                                                         *)
(* First the deleted edges and then the inserted ones are handed out to a  *)
(* team of threads.  For its edge a thread searches the graph of the phase *)
(* for the cycles through the edge that no edge with a smaller index in    *)
(* the list owns, and adds their counts, signed, to its own partial sums;  *)
(* these are merged when the phase is over.  With one thread the steps are *)
(* those of update_static_histogram.                                       *)
(*                                                                         *)
(* The searches read only what is frozen during a phase and write only     *)
(* what is the thread's own, so an action is one iteration of the loop in  *)
(* search(), or its return.                                                *)
(***************************************************************************)
EXTENDS SimpleCycles, SequencesExt

CONSTANTS
  N,            \* vertex_count
  MaxLength,    \* max_cycle_length
  Threads,      \* the threads of the team
  Requests,     \* the graphs and batches a caller may pass, as records
  NoResult,     \* stands for an update that has not returned
  LogicError    \* stands for std::logic_error

V == 0..(N - 1)
Lengths == 2..MaxLength

Edges(g) == {e \in V \X V : e[2] \in Neighbours(g, e[1])}

\* What std::sort makes of the elements of S: each one is at the place of its rank.
InOrder(S, smaller(_, _)) ==
  [i \in 1..Cardinality(S) |->
     CHOOSE x \in S : Cardinality({y \in S : smaller(y, x)}) = i - 1]

GraphOf(E) == [v \in V |-> InOrder({w \in V : <<v, w>> \in E}, <)]

\* The parser skips self-loops.  A batch deletes edges that are there, and inserts
\* edges that are not, or no longer: what generate_batch gives, and a deletion that
\* is taken back.
ASSUME RequestAssumption ==
  /\ N \in Nat \ {0}
  /\ MaxLength \in Nat \ {0, 1}
  /\ IsFiniteSet(Threads)
  /\ \A request \in Requests :
       /\ request.graph \in Adjacencies(V)
       /\ \A e \in Edges(request.graph) : e[1] # e[2]
       /\ request.deletions \in Seq(Edges(request.graph))
       /\ request.insertions \in Seq(V \X V)
       /\ \A e \in ToSet(request.insertions) :
            /\ e[1] # e[2]
            /\ e \notin Edges(request.graph) \ ToSet(request.deletions)

VARIABLES
  initial,      \* initial_graph
  batch,        \* the normalised batch
  before,       \* the cycles of initial_graph, whose histogram the caller has
  between,      \* those that no deletion destroys
  after,        \* the cycles of the graph after the batch
  phase,        \* "delete", "insert" or "done"
  graph,        \* the graph the phase reads
  next,         \* the index of the change handed out next
  owner,        \* the index a thread works on, 0 for none
  calls,        \* the active calls of search() of each thread
  visited,      \* the visited buffer of each thread, kept between its edges
  counts,       \* counts of each thread
  local,        \* the partial sums of each thread
  delta,        \* delta
  result,       \* what the update returns
  live          \* history: the cycles accounted for

input == <<initial, batch, before, between, after>>
vars == <<input, phase, graph, next, owner, calls, visited, counts, local, delta,
          result, live>>

-----------------------------------------------------------------------------
SmallerEdge(e, f) == e[1] < f[1] \/ (e[1] = f[1] /\ e[2] < f[2])

\* sort_and_dedup
Normalized(changes) == InOrder(ToSet(changes), SmallerEdge)

\* Mutant: the deletions are left in the graph.
ApplyInsertions(g, b) ==
  [v \in V |->
     InOrder(Neighbours(g, v) \cup {e[2] : e \in {f \in ToSet(b.insertions) : f[1] = v}},
             <)]

ApplyBatch(g, b) ==
  [v \in V |->
     InOrder({w \in Neighbours(g, v) : <<v, w>> \notin ToSet(b.deletions)}
               \cup {e[2] : e \in {f \in ToSet(b.insertions) : f[1] = v}},
             <)]

NoCounts == [len \in Lengths |-> 0]

Init ==
  /\ \E request \in Requests :
       /\ initial = request.graph
       /\ batch = [deletions |-> Normalized(request.deletions),
                   insertions |-> Normalized(request.insertions)]
  /\ before = Cycles(initial, MaxLength)
  /\ LET kept == Edges(initial) \ ToSet(batch.deletions)
     IN  /\ between = Cycles(GraphOf(kept), MaxLength)
         /\ after = Cycles(GraphOf(kept \cup ToSet(batch.insertions)), MaxLength)
  /\ phase = "delete"
  /\ graph = initial
  /\ next = 1
  /\ owner = [t \in Threads |-> 0]
  /\ calls = [t \in Threads |-> <<>>]
  /\ visited = [t \in Threads |-> {}]
  /\ counts = [t \in Threads |-> NoCounts]
  /\ local = [t \in Threads |-> NoCounts]
  /\ delta = NoCounts
  /\ result = NoResult
  /\ live = before

-----------------------------------------------------------------------------
(***************************************************************************)
(* One changed edge.                                                       *)
(***************************************************************************)
Changes == IF phase = "delete" THEN batch.deletions ELSE batch.insertions
Sign == IF phase = "delete" THEN -1 ELSE 1

Busy(t) == owner[t] # 0
Anchor(t) == Changes[owner[t]]          \* source and target
Depth(t) == Len(calls[t])               \* path_size
Current(t) == calls[t][Depth(t)].vertex
Exhausted(t) == calls[t][Depth(t)].offset > Len(graph[Current(t)])
NextVertex(t) == graph[Current(t)][calls[t][Depth(t)].offset]

Called(v) == [vertex |-> v, offset |-> 1]
Advanced(t) == [calls[t] EXCEPT ![Depth(t)].offset = @ + 1]

\* The team is handed out the next change; count_cycles_through_edge begins.
Claim(t) ==
  /\ phase # "done" /\ ~Busy(t)
  /\ next <= Len(Changes)
  /\ next' = next + 1
  /\ owner' = [owner EXCEPT ![t] = next]
  /\ counts' = [counts EXCEPT ![t] = NoCounts]
  /\ visited' = [visited EXCEPT ![t] = @ \cup ToSet(Changes[next])]
  /\ calls' = [calls EXCEPT ![t] = <<Called(Changes[next][2])>>]
  /\ UNCHANGED <<input, phase, graph, local, delta, result, live>>

\* Mutant: a search crosses the edges it does not own.
ForbiddenNever(t, v, w) == FALSE

\* forbidden_before: the edge from v to w is a change with a smaller index.
ForbiddenBefore(t, v, w) == \E i \in 1..(owner[t] - 1) : Changes[i] = <<v, w>>

\* The cycle of a closed walk, named from its least vertex on.
Rotated(walk) ==
  LET least == CHOOSE i \in 1..Len(walk) : \A j \in 1..Len(walk) : walk[i] <= walk[j]
  IN  [i \in 1..Len(walk) |-> walk[((least + i - 2) % Len(walk)) + 1]]

Found(t) ==
  Rotated(<<Anchor(t)[1]>> \o [i \in 1..Depth(t) |-> calls[t][i].vertex])

Closes(t) ==
  ~ForbiddenBefore(t, Current(t), NextVertex(t)) /\ NextVertex(t) = Anchor(t)[1]

\* The search is back at the source.  The length is within the bound, which the
\* code tests again here: no path grows longer than that.
Close(t) ==
  /\ Busy(t) /\ ~Exhausted(t)
  /\ Closes(t)
  /\ counts' = [counts EXCEPT ![t][Depth(t) + 1] = @ + 1]
  /\ live' = IF phase = "delete" THEN live \ {Found(t)} ELSE live \cup {Found(t)}
  /\ calls' = [calls EXCEPT ![t] = Advanced(t)]
  /\ UNCHANGED <<input, phase, graph, next, owner, visited, local, delta, result>>

Skipped(t) ==
  \/ ForbiddenBefore(t, Current(t), NextVertex(t))
  \/ NextVertex(t) \in visited[t]
  \/ Depth(t) + 1 >= MaxLength

Skip(t) ==
  /\ Busy(t) /\ ~Exhausted(t)
  /\ ~Closes(t) /\ Skipped(t)
  /\ calls' = [calls EXCEPT ![t] = Advanced(t)]
  /\ UNCHANGED <<input, phase, graph, next, owner, visited, counts, local, delta,
                 result, live>>

\* The recursive call.
Descend(t) ==
  /\ Busy(t) /\ ~Exhausted(t)
  /\ ~Closes(t) /\ ~Skipped(t)
  /\ visited' = [visited EXCEPT ![t] = @ \cup {NextVertex(t)}]
  /\ calls' = [calls EXCEPT ![t] = Append(Advanced(t), Called(NextVertex(t)))]
  /\ UNCHANGED <<input, phase, graph, next, owner, counts, local, delta, result, live>>

\* The recursive call returns.
Backtrack(t) ==
  /\ Busy(t) /\ Exhausted(t) /\ Depth(t) > 1
  /\ visited' = [visited EXCEPT ![t] = @ \ {Current(t)}]
  /\ calls' = [calls EXCEPT ![t] = Front(@)]
  /\ UNCHANGED <<input, phase, graph, next, owner, counts, local, delta, result, live>>

\* Mutant: the target of the edge stays marked in the thread's buffer.
FinishMarked(t) ==
  /\ Busy(t) /\ Exhausted(t) /\ Depth(t) = 1
  /\ visited' = [visited EXCEPT ![t] = @ \ {Anchor(t)[1]}]
  /\ local' = [local EXCEPT ![t] = [len \in Lengths |-> @[len] + Sign * counts[t][len]]]
  /\ owner' = [owner EXCEPT ![t] = 0]
  /\ calls' = [calls EXCEPT ![t] = <<>>]
  /\ UNCHANGED <<input, phase, graph, next, counts, delta, result, live>>

\* count_cycles_through_edge returns; its counts join the partial sums.
Finish(t) ==
  /\ Busy(t) /\ Exhausted(t) /\ Depth(t) = 1
  /\ visited' = [visited EXCEPT ![t] = @ \ ToSet(Anchor(t))]
  /\ local' = [local EXCEPT ![t] = [len \in Lengths |-> @[len] + Sign * counts[t][len]]]
  /\ owner' = [owner EXCEPT ![t] = 0]
  /\ calls' = [calls EXCEPT ![t] = <<>>]
  /\ UNCHANGED <<input, phase, graph, next, counts, delta, result, live>>

-----------------------------------------------------------------------------
(***************************************************************************)
(* The phases.                                                             *)
(***************************************************************************)
Merged ==
  [len \in Lengths |-> MapThenSumSet(LAMBDA t : local[t][len], Threads) + delta[len]]

PhaseOver == next > Len(Changes) /\ \A t \in Threads : ~Busy(t)

\* The threads have met at the end of the first loop: merge, apply the batch.
EndDeletions ==
  /\ phase = "delete" /\ PhaseOver
  /\ delta' = Merged
  /\ local' = [t \in Threads |-> NoCounts]
  /\ phase' = "insert"
  /\ graph' = ApplyBatch(initial, batch)
  /\ next' = 1
  /\ UNCHANGED <<input, owner, calls, visited, counts, result, live>>

\* apply_histogram_delta: a count below zero is an error.
ApplyDelta(base, d) ==
  IF \E len \in Lengths : base[len] + d[len] < 0 THEN LogicError
  ELSE [len \in Lengths |-> base[len] + d[len]]

\* The same at the end of the second loop, and the update returns.
EndInsertions ==
  /\ phase = "insert" /\ PhaseOver
  /\ delta' = Merged
  /\ local' = [t \in Threads |-> NoCounts]
  /\ phase' = "done"
  /\ result' = ApplyDelta(HistogramOf(before, MaxLength), Merged)
  /\ UNCHANGED <<input, graph, next, owner, calls, visited, counts, live>>

-----------------------------------------------------------------------------
Thread(t) ==
  Claim(t) \/ Close(t) \/ Skip(t) \/ Descend(t) \/ Backtrack(t) \/ Finish(t)

Returned == phase = "done" /\ UNCHANGED vars

Next == EndDeletions \/ EndInsertions \/ (\E t \in Threads : Thread(t)) \/ Returned

Spec == Init /\ [][Next]_vars

-----------------------------------------------------------------------------
(***************************************************************************)
(* Properties.                                                             *)
(***************************************************************************)
\* A thread's visited buffer, which outlives the searches, is empty between
\* them; during one it holds the edge and the path, each vertex once.
VisitedRestored ==
  \A t \in Threads :
    IF ~Busy(t) THEN visited[t] = {}
    ELSE /\ visited[t] = ToSet(Anchor(t)) \cup {calls[t][i].vertex : i \in 1..Depth(t)}
         /\ Cardinality(visited[t]) = Depth(t) + 1

\* What the thread has counted for its edge, and not yet added to its sums.
Uncommitted ==
  [t \in Threads |-> [len \in Lengths |-> IF Busy(t) THEN Sign * counts[t][len] ELSE 0]]

\* The sums spread over the threads and the delta never count a cycle twice,
\* nor lose one: added to the histogram before the batch they are at any time
\* the histogram of the cycles accounted for.
LedgerExact ==
  phase # "done" =>
    \A len \in Lengths :
      Cardinality(OfLength(live, len)) =
        HistogramOf(before, MaxLength)[len] + Merged[len]
          + MapThenSumSet(LAMBDA t : Uncommitted[t][len], Threads)

Abstract == INSTANCE HistogramUpdate WITH MaxCycleLength <- MaxLength

\* The update drops each cycle that only the graph before the batch has and
\* adds each one that only the graph after it has; what it returns is the
\* histogram that counting the graph after the batch anew would give.
UpdateIsRecompute == Abstract!Spec
=============================================================================
