--------------------------- MODULE TemporalRoots ---------------------------
(***************************************************************************)
(* What the temporal Johnson and Read-Tarjan workers do alike with a root: *)
(* one search for each of its starts, with fresh closing times, in which   *)
(* a call ends at once when its arrival cannot lead back to the root.      *)
(***************************************************************************)
EXTENDS RootTeam

InitTemporal ==
  cycles = IF WorkerRefuses \/ Rejected THEN {}
           ELSE TemporalCycles(graph, request.width, IF Bounded THEN request.bound ELSE N)

RootStarts(v) == {s \in Starts(graph) : s.root = v}

Idle(t) == result = NoResult /\ place[t] = "busy" /\ stack[t] = <<>>
Searching(t) == result = NoResult /\ place[t] = "busy" /\ stack[t] # <<>>

Depth(t) == Len(stack[t])
Top(t) == stack[t][Depth(t)]
PathLength(t) == Depth(t) + 1
OnPath(t, v) == v = root[t] \/ \E i \in 1..Depth(t) : stack[t][i].vertex = v    \* visited_

WindowEnd(t) == StartTime(graph, start[t]) + request.width

\* A call that has not yet asked can_reach_root has offset zero.
Opening(t) == Searching(t) /\ Top(t).offset = 0
Exhausted(t) == Top(t).offset > Len(graph[Top(t).vertex])
Scanning(t) == Searching(t) /\ Top(t).offset > 0 /\ ~Exhausted(t)
Edge(t) == graph[Top(t).vertex][Top(t).offset]

Is(t, top) == stack' = [stack EXCEPT ![t] = [@ EXCEPT ![Len(@)] = top]]

\* Mutant: start() forgets to reset the closing times.
NextStartStale(t, first) ==
  /\ Idle(t)
  /\ \E s \in todo[t] :
       /\ \A u \in todo[t] \ {s} : Before(s, u)
       /\ todo' = [todo EXCEPT ![t] = @ \ {s}]
       /\ start' = [start EXCEPT ![t] = s]
       /\ stack' = [stack EXCEPT ![t] = <<first[s]>>]
  /\ UNCHANGED <<request, cycles, handed, place, root, closing, local, result>>

\* The bodies of the loops of count_root; first has the call that start()
\* makes, for each of the starts left.
NextStart(t, first) ==
  /\ Idle(t)
  /\ \E s \in todo[t] :
       /\ \A u \in todo[t] \ {s} : Before(s, u)
       /\ todo' = [todo EXCEPT ![t] = @ \ {s}]
       /\ \/ /\ StartTime(graph, s) > TimeMax - request.width     \* checked_window_end
             /\ Fails
             /\ UNCHANGED <<start, stack, closing>>
          \/ /\ StartTime(graph, s) <= TimeMax - request.width
             /\ start' = [start EXCEPT ![t] = s]
             /\ stack' = [stack EXCEPT ![t] = <<first[s]>>]
             /\ closing' = [closing EXCEPT ![t] = NoClosingTimes(graph)]
             /\ UNCHANGED result
  /\ UNCHANGED <<request, cycles, handed, place, root, local>>

\* count_root returns.
EndRoot(t) ==
  /\ Idle(t)
  /\ todo[t] = {}
  /\ place' = [place EXCEPT ![t] = "free"]
  /\ UNCHANGED <<request, cycles, handed, root, search, local, result>>

\* The call asks whether its arrival can lead back, and goes on or returns.
Open(t, arrival) ==
  LET answer == CanReachRoot(graph, root[t], WindowEnd(t), Top(t).vertex, arrival,
                             closing[t])
  IN
  /\ Opening(t)
  /\ closing' = [closing EXCEPT ![t] = answer.closing]
  /\ \/ answer.reaches /\ Is(t, [Top(t) EXCEPT !.offset = 1])
     \/ ~answer.reaches /\ stack' = [stack EXCEPT ![t] = Front(@)]
  /\ UNCHANGED <<request, cycles, handed, place, root, todo, start, local, result>>

\* The edge leads to a vertex of the path, or is one too many.
Barred(t) ==
  \/ OnPath(t, Edge(t).vertex)
  \/ Bounded /\ PathLength(t) >= request.bound

\* The call has been through its edges.
Return(t) ==
  /\ Searching(t) /\ Top(t).offset > 0 /\ Exhausted(t)
  /\ stack' = [stack EXCEPT ![t] = Front(@)]
  /\ UNCHANGED <<request, cycles, handed, place, root, todo, start, closing, local, result>>

-----------------------------------------------------------------------------
\* No walk of increasing timestamps leads from a closing time back to the root.
ClosedIsClosed ==
  \A t \in Team :
    Searching(t) =>
      \A v \in {v \in V : closing[t][v] # Never} :
        ~ReturnsFrom(graph, root[t], WindowEnd(t), v, closing[t][v])
=============================================================================
