------------------------- MODULE TemporalReadTarjan -------------------------
(***************************************************************************)
(* The worker of the temporal Read-Tarjan counters.  A search follows one  *)
(* event after another: a call has one arrival, and calls itself for each  *)
(* timestamp of an edge.                                                   *)
(***************************************************************************)
EXTENDS TemporalRoots

\* at is the position in the edge's timestamps that the call looks at next.
Call(v, arrival) == [vertex |-> v, offset |-> 0, at |-> 1, arrival |-> arrival]

FirstCall(s) == Call(Target(graph, s), StartTime(graph, s))

Claim(t) ==
  /\ Take(t)
  /\ todo' = [todo EXCEPT ![t] = RootStarts(handed)]
  /\ UNCHANGED <<request, cycles, start, stack, closing, local, result>>

Start(t) == NextStart(t, [s \in todo[t] |-> FirstCall(s)])

Enter_extend(t) == Open(t, Top(t).arrival)

\* The range of the edge, and what of it the call has not been through.
EventRange(t) == TimestampsAfter(Edge(t), Top(t).arrival, WindowEnd(t))
Remaining(t) == {i \in EventRange(t) : i >= Top(t).at}

Advanced(t) == [Top(t) EXCEPT !.offset = @ + 1, !.at = 1]

Close(t) ==
  /\ Scanning(t) /\ EventRange(t) # {}
  /\ Edge(t).vertex = root[t]
  /\ local' = [local EXCEPT ![t][PathLength(t)] = @ + Cardinality(EventRange(t))]
  /\ Is(t, Advanced(t))
  /\ UNCHANGED <<request, cycles, handed, place, root, todo, start, closing, result>>

\* No timestamp is left of the edge, or the search does not take it.
Skip(t) ==
  /\ Scanning(t)
  /\ \/ Remaining(t) = {}
     \/ Edge(t).vertex # root[t] /\ Barred(t)
  /\ Is(t, Advanced(t))
  /\ UNCHANGED <<request, cycles, handed, place, root, todo, start, closing, local, result>>

\* The next timestamp of the edge.
Descend(t) ==
  /\ Scanning(t) /\ Remaining(t) # {}
  /\ Edge(t).vertex # root[t] /\ ~Barred(t)
  /\ LET i == Min(Remaining(t))
     IN  stack' = [stack EXCEPT ![t] =
                     Append([@ EXCEPT ![Len(@)].at = i + 1],
                            Call(Edge(t).vertex, Edge(t).times[i]))]
  /\ UNCHANGED <<request, cycles, handed, place, root, todo, start, closing, local, result>>

CountRoot(t) ==
  \/ Claim(t) \/ Start(t) \/ EndRoot(t)
  \/ Enter_extend(t) \/ Close(t) \/ Skip(t) \/ Descend(t) \/ Return(t)

-----------------------------------------------------------------------------
\* The temporal cycle c follows the search of t to one of its calls and leaves it
\* by an event that the call has not been through.
Ahead(t, c) ==
  \E k \in 1..Depth(t) :
    /\ k < Len(c)
    /\ \A i \in 1..k : /\ c[i + 1].root = stack[t][i].vertex
                       /\ StartTime(graph, c[i]) = stack[t][i].arrival
    /\ \A i \in 1..(k - 1) : c[i + 1].at = stack[t][i].at - 1
    /\ \/ c[k + 1].entry > stack[t][k].offset
       \/ c[k + 1].entry = stack[t][k].offset /\ c[k + 1].at >= stack[t][k].at

\* The cycle c is still to be found.
Waits(c) ==
  \/ c[1].root >= handed
  \/ \E t \in Team :
       /\ place[t] = "busy" /\ root[t] = c[1].root
       /\ c[1] \in todo[t] \/ (stack[t] # <<>> /\ start[t] = c[1] /\ Ahead(t, c))
=============================================================================
