---------------------------- MODULE StaticRoots -----------------------------
(***************************************************************************)
(* count_root of the root-parallel static counters: the simple cycles      *)
(* whose least vertex is the root, by a plain depth-first search.          *)
(***************************************************************************)
EXTENDS RootTeam

S == INSTANCE SimpleCycles

Adjacency == [v \in V |-> [e \in 1..Len(graph[v]) |-> graph[v][e].vertex]]

InitStatic == cycles = S!Cycles(Adjacency, IF Bounded THEN request.bound ELSE N)

Frame(v) == [vertex |-> v, offset |-> 1]

\* visited and path are emptied, and the search starts at the root.
Claim(t) ==
  /\ Take(t)
  /\ stack' = [stack EXCEPT ![t] = <<Frame(handed)>>]
  /\ UNCHANGED <<request, cycles, todo, start, closing, local, result>>

Searching(t) == result = NoResult /\ place[t] = "busy" /\ stack[t] # <<>>
Depth(t) == Len(stack[t])
Current(t) == stack[t][Depth(t)].vertex
Exhausted(t) == stack[t][Depth(t)].offset > Len(Adjacency[Current(t)])
NextVertex(t) == Adjacency[Current(t)][stack[t][Depth(t)].offset]
Advanced(t) == [stack[t] EXCEPT ![Depth(t)].offset = @ + 1]

Closes(t) == NextVertex(t) = root[t] /\ Depth(t) >= 2

Pruned(t) ==
  \/ NextVertex(t) <= root[t]
  \/ \E i \in 1..Depth(t) : stack[t][i].vertex = NextVertex(t)    \* visited
  \/ Bounded /\ Depth(t) >= request.bound

Close(t) ==
  /\ Searching(t) /\ ~Exhausted(t) /\ Closes(t)
  /\ local' = [local EXCEPT ![t][Depth(t)] = @ + 1]
  /\ stack' = [stack EXCEPT ![t] = Advanced(t)]
  /\ UNCHANGED <<request, cycles, handed, place, root, todo, start, closing, result>>

\* Mutant: the offset stays on a skipped edge.
SkipForever(t) ==
  /\ Searching(t) /\ ~Exhausted(t) /\ ~Closes(t) /\ Pruned(t)
  /\ UNCHANGED vars

Skip(t) ==
  /\ Searching(t) /\ ~Exhausted(t) /\ ~Closes(t) /\ Pruned(t)
  /\ stack' = [stack EXCEPT ![t] = Advanced(t)]
  /\ UNCHANGED <<request, cycles, handed, place, root, todo, start, closing, local, result>>

Descend(t) ==
  /\ Searching(t) /\ ~Exhausted(t) /\ ~Closes(t) /\ ~Pruned(t)
  /\ stack' = [stack EXCEPT ![t] = Append(Advanced(t), Frame(NextVertex(t)))]
  /\ UNCHANGED <<request, cycles, handed, place, root, todo, start, closing, local, result>>

\* A call returns; with the first one the thread is free again.
Backtrack(t) ==
  /\ Searching(t) /\ Exhausted(t)
  /\ stack' = [stack EXCEPT ![t] = Front(@)]
  /\ place' = [place EXCEPT ![t] = IF Depth(t) = 1 THEN "free" ELSE @]
  /\ UNCHANGED <<request, cycles, handed, root, todo, start, closing, local, result>>

CountRoot(t) == Claim(t) \/ Close(t) \/ Skip(t) \/ Descend(t) \/ Backtrack(t)

-----------------------------------------------------------------------------
\* The cycle c is still to be found: its root is not handed out, or a search
\* follows it to one of its calls and leaves it by an edge not consumed there.
Ahead(t, c) ==
  \E k \in 1..Depth(t) :
    /\ k <= Len(c) /\ \A i \in 1..k : c[i] = stack[t][i].vertex
    /\ \E e \in stack[t][k].offset..Len(Adjacency[c[k]]) :
         Adjacency[c[k]][e] = S!Successor(c, k)

Waits(c) == c[1] >= handed \/ \E t \in Team : place[t] = "busy" /\ Ahead(t, c)
=============================================================================
