------------------------------ MODULE RootTeam ------------------------------
(***************************************************************************)
(* The counters that hand out the roots of the graph to a team of OpenMP   *)
(* threads, each with search state and a histogram of its own, which are   *)
(* merged at the end.                                                      *)
(*                                                                         *)
(* A team of one is the sequential counter: no parallel region, the roots  *)
(* in their order, one worker.  The modules StaticRoots, TemporalJohnson   *)
(* and TemporalReadTarjan extend this one with what a thread does with a   *)
(* root; the variables of their searches are declared here.                *)
(***************************************************************************)
EXTENDS ClosingTimes, FiniteSetsExt

CONSTANTS
  N,            \* graph.vertex_count()
  Threads,      \* the threads there are to make a team of
  Requests,     \* the calls a caller may make, as records
  Unbounded,    \* the max_cycle_length of a request without one
  NoResult,     \* stands for a call that has not returned
  Thrown,       \* the call ended with an exception
  Terminated    \* the process ended: an exception met the end of the region

V == 0..(N - 1)
Lengths == 2..N

TemporalAlgorithms == {"temporal_johnson", "temporal_read_tarjan"}
Algorithms == {"johnson", "read_tarjan"} \cup TemporalAlgorithms

ASSUME TeamAssumption ==
  /\ N \in Nat \ {0}
  /\ IsFiniteSet(Threads)
  /\ TimeMax \in Nat
  /\ Unbounded \notin Nat

\* Timestamps, widths and bounds are what a caller passes; the graph is one that
\* build_graph_view returns.
ASSUME RequestAssumption ==
  \A request \in Requests :
    /\ request.team \subseteq Threads           \* requested_threads of them
    /\ request.algorithm \in Algorithms         \* which of the counters
    /\ request.width \in Int                    \* window_width
    /\ request.bound \in {Unbounded} \cup Nat   \* max_cycle_length
    /\ DOMAIN request.graph = V
    /\ \A v \in V : \A e \in 1..Len(request.graph[v]) :
         LET entry == request.graph[v][e]
         IN  /\ entry.vertex \in V \ {v}
             /\ \A d \in 1..(e - 1) : request.graph[v][d].vertex < entry.vertex
             /\ entry.times # <<>>
             /\ \A i \in 1..Len(entry.times) : entry.times[i] \in 0..TimeMax
             /\ \A i \in 2..Len(entry.times) : entry.times[i - 1] <= entry.times[i]

VARIABLES
  request,      \* the arguments
  cycles,       \* what there is to count: the cycles of the request
  handed,       \* the roots below this one have been handed out
  place,        \* of each thread: "outside" the region, "free", "busy" with a
                \* root, or done, its histogram "stored"
  root,         \* the root each busy thread works on
  todo,         \* the starts of its root a thread has still to visit
  start,        \* the start being searched
  stack,        \* the active calls of its search
  closing,      \* closing_after_
  local,        \* the histogram of each thread
  result        \* what the call returns

search == <<todo, start, stack, closing>>
vars == <<request, cycles, handed, place, root, search, local, result>>

graph == request.graph
Team == request.team
Bounded == request.bound # Unbounded
Temporal == request.algorithm \in TemporalAlgorithms

-----------------------------------------------------------------------------
InitTeam ==
  /\ request \in Requests
  /\ handed = 0
  /\ place = [t \in Threads |-> "outside"]
  /\ root = [t \in Threads |-> 0]
  /\ todo = [t \in Threads |-> {}]
  /\ start = [t \in Threads |-> NoResult]
  /\ stack = [t \in Threads |-> <<>>]
  /\ closing = [t \in Threads |-> NoClosingTimes(graph)]
  /\ local = [t \in Threads |-> [len \in Lengths |-> 0]]
  /\ result = NoResult

BadBound == Bounded /\ request.bound < 2

\* resolve_thread_count, and validate_max_cycle_length where the call makes it
\* before the team is there.
Rejected == Team = {} \/ (~Temporal /\ BadBound)

Reject ==
  /\ result = NoResult
  /\ Rejected
  /\ result' = Thrown
  /\ UNCHANGED <<request, cycles, handed, place, root, search, local>>

\* An exception in a thread: alone it reaches the caller, but nothing catches it
\* before the end of a parallel region.
Fails == result' = IF Cardinality(Team) > 1 THEN Terminated ELSE Thrown

\* The constructor of a temporal worker refuses what the call has not tested.
WorkerRefuses == Temporal /\ (BadBound \/ request.width < 0)

\* A thread of the team enters the region and makes its worker.
Enter(t) ==
  /\ result = NoResult
  /\ ~Rejected /\ t \in Team /\ place[t] = "outside"
  /\ \/ WorkerRefuses /\ Fails /\ UNCHANGED place
     \/ /\ ~WorkerRefuses
        /\ place' = [place EXCEPT ![t] = "free"]
        /\ UNCHANGED result
  /\ UNCHANGED <<request, cycles, handed, root, search, local>>

\* schedule(dynamic): a free thread is handed the next root.
Take(t) ==
  /\ result = NoResult
  /\ place[t] = "free"
  /\ handed < N
  /\ handed' = handed + 1
  /\ root' = [root EXCEPT ![t] = handed]
  /\ place' = [place EXCEPT ![t] = "busy"]

\* Mutant: a thread leaves the loop over the roots while others work, and what
\* they count then is lost.
LoopOverEarly ==
  handed = N /\ \A t \in Team : place[t] # "outside"

\* The loop over the roots ends for all threads together.
LoopOver ==
  handed = N /\ \A t \in Team : place[t] \in {"free", "stored"}

\* A temporal worker's histogram is stored for the merge; the static counters
\* count where it is read.
Store(t) ==
  /\ result = NoResult
  /\ Temporal
  /\ LoopOver /\ place[t] = "free"
  /\ place' = [place EXCEPT ![t] = "stored"]
  /\ UNCHANGED <<request, cycles, handed, root, search, local, result>>

Sum == [len \in Lengths |-> MapThenSumSet(LAMBDA t : local[t][len], Team)]

\* The region is over; the histograms are merged.
Merge ==
  /\ result = NoResult
  /\ ~Rejected /\ LoopOver
  /\ Temporal => \A t \in Team : place[t] = "stored"
  /\ result' = Sum
  /\ UNCHANGED <<request, cycles, handed, place, root, search, local>>
=============================================================================
