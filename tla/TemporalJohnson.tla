-------------------------- MODULE TemporalJohnson ---------------------------
(***************************************************************************)
(* The worker of the temporal Johnson counters.  A search follows paths of *)
(* vertices and carries for each the bundle of its arrivals: how many of   *)
(* the path's event sequences arrive when.                                 *)
(***************************************************************************)
EXTENDS TemporalRoots

\* How often entry has the timestamp x.
Repeats(entry, x) == Cardinality({i \in 1..Len(entry.times) : entry.times[i] = x})

\* start_counts: one start for equal timestamps, here the first of them.
Leading(s) ==
  \A i \in 1..(s.at - 1) : graph[s.root][s.entry].times[i] # StartTime(graph, s)

\* The call of dfs for the start.
FirstCall(s) ==
  LET entry == graph[s.root][s.entry]
  IN  [vertex |-> entry.vertex, offset |-> 0,
       arrivals |-> [x \in {StartTime(graph, s)} |-> Repeats(entry, x)]]

Claim(t) ==
  /\ Take(t)
  /\ todo' = [todo EXCEPT ![t] = {s \in RootStarts(handed) : Leading(s)}]
  /\ UNCHANGED <<request, cycles, start, stack, closing, local, result>>

Start(t) == NextStart(t, [s \in todo[t] |-> FirstCall(s)])

\* dfs is called with a bundle that is not empty.
Enter_dfs(t) == Open(t, Min(DOMAIN Top(t).arrivals))

Advanced(t) == [Top(t) EXCEPT !.offset = @ + 1]

\* closing_count: the event sequences that the edge closes.
ClosingCount(t) ==
  LET arrivals == Top(t).arrivals
  IN  MapThenSumSet(LAMBDA a : arrivals[a] *
                      Cardinality(TimestampsAfter(Edge(t), a, WindowEnd(t))),
                    DOMAIN arrivals)

\* Mutant: a timestamp of the edge gets the count of one arrival only.
ExtendBundleOnce(t) ==
  LET arrivals == Top(t).arrivals
      first == Min(DOMAIN arrivals)
  IN  [x \in {Edge(t).times[i] : i \in TimestampsAfter(Edge(t), first, WindowEnd(t))} |->
         arrivals[first] * Repeats(Edge(t), x)]

\* extend_bundle: the arrivals the edge leads to.
ExtendBundle(t) ==
  LET arrivals == Top(t).arrivals
  IN  [x \in {Edge(t).times[i] :
                i \in TimestampsAfter(Edge(t), Min(DOMAIN arrivals), WindowEnd(t))} |->
         Repeats(Edge(t), x) *
           MapThenSumSet(LAMBDA a : arrivals[a], {a \in DOMAIN arrivals : a < x})]

Close(t) ==
  /\ Scanning(t)
  /\ Edge(t).vertex = root[t]
  /\ local' = [local EXCEPT ![t][PathLength(t)] = @ + ClosingCount(t)]
  /\ Is(t, Advanced(t))
  /\ UNCHANGED <<request, cycles, handed, place, root, todo, start, closing, result>>

Skip(t) ==
  /\ Scanning(t)
  /\ Edge(t).vertex # root[t]
  /\ Barred(t) \/ DOMAIN ExtendBundle(t) = {}
  /\ Is(t, Advanced(t))
  /\ UNCHANGED <<request, cycles, handed, place, root, todo, start, closing, local, result>>

Descend(t) ==
  /\ Scanning(t)
  /\ Edge(t).vertex # root[t]
  /\ ~Barred(t) /\ DOMAIN ExtendBundle(t) # {}
  /\ stack' = [stack EXCEPT ![t] =
                 Append([@ EXCEPT ![Len(@)] = Advanced(t)],
                        [vertex |-> Edge(t).vertex, offset |-> 0,
                         arrivals |-> ExtendBundle(t)])]
  /\ UNCHANGED <<request, cycles, handed, place, root, todo, start, closing, local, result>>

CountRoot(t) ==
  \/ Claim(t) \/ Start(t) \/ EndRoot(t)
  \/ Enter_dfs(t) \/ Close(t) \/ Skip(t) \/ Descend(t) \/ Return(t)

-----------------------------------------------------------------------------
\* The temporal cycle c follows the search of t to one of its calls and leaves it
\* by an edge not consumed there.
Ahead(t, c) ==
  \E k \in 1..Depth(t) :
    /\ k < Len(c)
    /\ \A i \in 1..k : c[i + 1].root = stack[t][i].vertex
    /\ c[k + 1].entry >= stack[t][k].offset

\* Its start is the one t searches, or has an equal timestamp.
Started(t, c) ==
  /\ stack[t] # <<>> /\ c[1].entry = start[t].entry
  /\ StartTime(graph, c[1]) = StartTime(graph, start[t])

\* The cycle c is still to be found.
Waits(c) ==
  \/ c[1].root >= handed
  \/ \E t \in Team :
       /\ place[t] = "busy" /\ root[t] = c[1].root
       /\ \/ Started(t, c) /\ Ahead(t, c)
          \/ \E s \in todo[t] : s.entry = c[1].entry
                                /\ StartTime(graph, s) = StartTime(graph, c[1])
=============================================================================
