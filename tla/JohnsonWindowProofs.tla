------------------------- MODULE JohnsonWindowProofs -------------------------
(***************************************************************************)
(* What holds of the sequential time-window Johnson search without a       *)
(* length bound, for every graph and every width: its path is simple, its  *)
(* blocking is sound, and every cycle within the window is counted once    *)
(* for each of its starts.                                                 *)
(***************************************************************************)
EXTENDS JohnsonWindow, CycleFacts

USE RequestAssumption

-----------------------------------------------------------------------------
(***************************************************************************)
(* Types.                                                                  *)
(***************************************************************************)
MaxLength == IF bound = Unbounded THEN N ELSE bound

Depth == Len(calls)

Frames == [vertex : V, offset : Nat \ {0}, found : BOOLEAN]

\* A graph view: the entries of a vertex name it not, and name each other
\* vertex once, in order.
IsView(g) ==
  /\ g \in [V -> Seq([vertex : V, times : Seq(Int)])]
  /\ \A v \in V : \A e \in 1..Len(g[v]) :
       /\ g[v][e].vertex # v
       /\ \A d \in 1..(e - 1) : g[v][d].vertex < g[v][e].vertex

Typed ==
  /\ IsView(graph)
  /\ bound \in {Unbounded} \cup (Nat \ {0, 1})
  /\ cycles = WindowCycles(graph, Width, MaxLength)
  /\ left \subseteq Starts(graph)
  /\ calls \in Seq(Frames)
  /\ calls # <<>> => start \in Starts(graph) \ left
  /\ \A i \in 1..Depth : calls[i].offset \in 1..(Len(graph[calls[i].vertex]) + 1)
  /\ blocked \in SUBSET V
  /\ blockedLists \in [V -> SUBSET V]
  /\ histogram \in [Lengths -> Nat]

-----------------------------------------------------------------------------
(***************************************************************************)
(* The inductive invariant of the search.                                  *)
(***************************************************************************)
\* The vertices an edge in the window leads to from v.
Reach(v) == {graph[v][e].vertex : e \in {d \in 1..Len(graph[v]) : InReach(graph[v][d], v)}}

\* Those a call has looked at.
Consumed(call) ==
  {graph[call.vertex][e].vertex :
     e \in {d \in 1..(call.offset - 1) : InReach(graph[call.vertex][d], call.vertex)}}

OnPath(v) == \E i \in 1..Depth : calls[i].vertex = v

\* Call i or a call under way below it has found a cycle.
FoundFrom(i) == \E k \in i..Depth : calls[k].found

\* The path is that of the start edge and then of edges in the window; it is
\* simple, and a call has been made for the edge its caller consumed last.
PathInv ==
  /\ \A i, j \in 1..Depth : i # j => calls[i].vertex # calls[j].vertex
  /\ calls # <<>> => calls[1].vertex = graph[start.root][start.entry].vertex
  /\ \A i \in 1..(Depth - 1) :
       /\ calls[i].offset >= 2
       /\ graph[calls[i].vertex][calls[i].offset - 1].vertex = calls[i + 1].vertex
       /\ InReach(graph[calls[i].vertex][calls[i].offset - 1], calls[i].vertex)

\* The path is blocked, and the root, which ends it, never.
PathBlocked ==
  /\ \A i \in 1..Depth : calls[i].vertex \in blocked
  /\ calls # <<>> => start.root \notin blocked

\* A vertex that is not blocked has an empty list.
ListsOfBlocked == \A u \in V \ blocked : blockedLists[u] = {}

\* A call that has found no cycle has looked at blocked vertices only.
FruitlessEdges == \A i \in 1..Depth : ~FoundFrom(i) => Consumed(calls[i]) \subseteq blocked

\* A set of vertices that holds the blocked dependents of its members.
ClosedUnderLists(S) == \A u \in S : blockedLists[u] \cap blocked \subseteq S

\* Unblocking the vertex of a call leaves the vertices before it on the path
\* blocked.
Apart(i) ==
  \E S \in SUBSET V : /\ calls[i].vertex \in S /\ ClosedUnderLists(S)
                      /\ \A j \in 1..(i - 1) : calls[j].vertex \notin S

\* A vertex blocked off the path has no edge to the root in the window, and
\* waits in the list of each vertex it has one to.
Waiting(v) ==
  /\ start.root \notin Reach(v)
  /\ \A u \in Reach(v) : v \in blockedLists[u]

SearchInv ==
  /\ Typed
  /\ bound = Unbounded
  /\ PathInv
  /\ PathBlocked
  /\ ListsOfBlocked
  /\ FruitlessEdges
  /\ \A i \in 1..Depth : Apart(i)
  /\ calls # <<>> => \A v \in blocked : ~OnPath(v) => Waiting(v)

-----------------------------------------------------------------------------
(***************************************************************************)
(* The inductive invariant of the count.                                   *)
(***************************************************************************)
\* The neighbours of each vertex, whatever their timestamps.
Plain == [v \in V |-> [e \in 1..Len(graph[v]) |-> graph[v][e].vertex]]

\* The path with the frames of the calls; nothing is left to look at from the
\* root, from where the start edge is taken.
Stack == [i \in 1..(Depth + 1) |->
            IF i = 1 THEN [vertex |-> start.root, offset |-> Len(graph[start.root]) + 1]
                     ELSE calls[i - 1]]

\* The cycles the run has not come to yet: those of later starts, and those of
\* this start that leave the path by an edge not looked at.
Ahead(x) ==
  \/ x[1] \in left
  \/ calls # <<>> /\ x[1] = start /\ Pending(Plain, Stack, 2, Depth + 1, x[2])

CountInv ==
  /\ counted \subseteq cycles
  /\ IsFiniteSet(counted)
  /\ \A x \in cycles : x \in counted <=> ~Ahead(x)
  /\ histogram = WindowHistogram(counted, N)
  /\ result # NoResult => calls = <<>> /\ left = {}

-----------------------------------------------------------------------------
(***************************************************************************)
(* Shapes.                                                                 *)
(***************************************************************************)
LEMMA VertexType == V \in SUBSET Int /\ IsFiniteSet(V) /\ Cardinality(V) = N
<1>1. IsFiniteSet(V) /\ Cardinality(V) = N
  BY FS_Interval DEF V
<1>2. QED
  BY <1>1 DEF V

LEMMA ViewShape ==
  ASSUME NEW g, IsView(g)
  PROVE  \A v \in V : /\ Len(g[v]) \in Nat
                      /\ \A e \in 1..Len(g[v]) : g[v][e].vertex \in V /\ g[v][e].vertex # v
                      /\ \A d, e \in 1..Len(g[v]) : d # e => g[v][d].vertex # g[v][e].vertex
<1> SUFFICES ASSUME NEW v \in V
             PROVE  /\ Len(g[v]) \in Nat
                    /\ \A e \in 1..Len(g[v]) : g[v][e].vertex \in V /\ g[v][e].vertex # v
                    /\ \A d, e \in 1..Len(g[v]) : d # e => g[v][d].vertex # g[v][e].vertex
  OBVIOUS
<1> DEFINE Entry == [vertex : V, times : Seq(Int)]
           list == g[v]
<1>1. g \in [V -> Seq(Entry)]
  BY DEF IsView
<1>2. /\ list \in Seq(Entry)
      /\ \A e \in 1..Len(list) : list[e].vertex # v
      /\ \A e \in 1..Len(list) : \A d \in 1..(e - 1) : list[d].vertex < list[e].vertex
  BY <1>1 DEF IsView
<1>3. \A x \in Entry : x.vertex \in V
  OBVIOUS
<1> HIDE DEF list, Entry
<1>4. Len(list) \in Nat /\ \A e \in 1..Len(list) : list[e] \in Entry
  BY <1>2, LenProperties
<1>5. \A e \in 1..Len(list) : list[e].vertex \in V /\ list[e].vertex \in Int
  BY <1>3, <1>4, VertexType
<1>6. ASSUME NEW d \in 1..Len(list), NEW e \in 1..Len(list), d # e
      PROVE  list[d].vertex # list[e].vertex
  <2>1. d \in 1..(e - 1) \/ e \in 1..(d - 1)
    BY <1>4, <1>6
  <2>2. list[d].vertex < list[e].vertex \/ list[e].vertex < list[d].vertex
    BY <1>2, <2>1
  <2>3. QED
    BY <1>5, <2>2
<1>7. QED
  BY <1>2, <1>4, <1>5, <1>6 DEF list

LEMMA GraphShape ==
  ASSUME Typed
  PROVE  \A v \in V : /\ Len(graph[v]) \in Nat
                      /\ \A e \in 1..Len(graph[v]) :
                           graph[v][e].vertex \in V /\ graph[v][e].vertex # v
                      /\ \A d, e \in 1..Len(graph[v]) :
                           d # e => graph[v][d].vertex # graph[v][e].vertex
                      /\ Reach(v) \in SUBSET V
<1>1. IsView(graph)
  BY DEF Typed
<1>2. \A v \in V : /\ Len(graph[v]) \in Nat
                   /\ \A e \in 1..Len(graph[v]) :
                        graph[v][e].vertex \in V /\ graph[v][e].vertex # v
                   /\ \A d, e \in 1..Len(graph[v]) :
                        d # e => graph[v][d].vertex # graph[v][e].vertex
  BY <1>1, ViewShape
<1>3. QED
  BY <1>2 DEF Reach

\* A start names an edge.
LEMMA StartShape ==
  ASSUME IsView(graph), NEW s \in Starts(graph)
  PROVE  /\ s.root \in V /\ s.entry \in 1..Len(graph[s.root])
         /\ graph[s.root][s.entry].vertex \in V
         /\ graph[s.root][s.entry].vertex # s.root
<1> DEFINE At(v, e) == {[root |-> v, entry |-> e, at |-> k] : k \in 1..Len(graph[v][e].times)}
<1>1. DOMAIN graph = V
  BY DEF IsView
<1>2. s \in UNION {UNION {At(v, e) : e \in 1..Len(graph[v])} : v \in V}
  BY <1>1 DEF Starts
<1>3. PICK v \in V, x \in Int : x \in 1..Len(graph[v]) /\ s \in At(v, x)
  <2> HIDE DEF At
  <2> QED BY <1>2, ViewShape
<1>4. s.root = v /\ s.entry = x
  BY <1>3
<1>5. s.root \in V /\ s.entry \in 1..Len(graph[s.root])
  BY <1>3, <1>4
<1>6. QED
  BY <1>5, ViewShape

LEMMA StackShape ==
  ASSUME Typed
  PROVE  /\ Depth \in Nat
         /\ calls \in [1..Depth -> Frames]
         /\ calls # <<>> => Depth >= 1
         /\ calls = <<>> => Depth = 0
         /\ \A i \in 1..Depth : /\ calls[i] \in Frames
                                /\ calls[i].vertex \in V
                                /\ calls[i].offset \in Nat \ {0}
                                /\ calls[i].offset \in 1..(Len(graph[calls[i].vertex]) + 1)
                                /\ calls[i].found \in BOOLEAN
<1>1. calls \in Seq(Frames)
  BY DEF Typed
<1>2. /\ Depth \in Nat /\ calls \in [1..Depth -> Frames]
      /\ calls # <<>> => Depth >= 1
      /\ calls = <<>> => Depth = 0
  BY <1>1, LenProperties, EmptySeq DEF Depth
<1>3. \A i \in 1..Depth : calls[i] \in Frames
  BY <1>2
<1>4. \A i \in 1..Depth : calls[i].offset \in 1..(Len(graph[calls[i].vertex]) + 1)
  BY DEF Typed
<1>5. QED
  BY <1>2, <1>3, <1>4 DEF Frames

LEMMA Prepended ==
  ASSUME NEW S, NEW a \in S, NEW t \in Seq(S)
  PROVE  /\ Len(<<a>> \o t) = 1 + Len(t)
         /\ \A i \in 1..(1 + Len(t)) : (<<a>> \o t)[i] = IF i = 1 THEN a ELSE t[i - 1]
<1>1. <<a>> \in Seq(S) /\ Len(<<a>>) = 1 /\ <<a>>[1] = a /\ Len(t) \in Nat
  BY LenProperties
<1>2. Len(<<a>> \o t) = 1 + Len(t)
  BY <1>1
<1>3. \A i \in 1..(1 + Len(t)) : (<<a>> \o t)[i] = IF i = 1 THEN a ELSE t[i - 1]
  BY <1>1
<1>4. QED
  BY <1>2, <1>3

\* The path is the root and the vertices of the calls.
LEMMA PathShape ==
  ASSUME Typed
  PROVE  /\ Len(Path) = Depth + 1 /\ Path[1] = start.root
         /\ \A i \in 1..Depth : Path[i + 1] = calls[i].vertex
         /\ \A i \in 2..(Depth + 1) : Path[i] = calls[i - 1].vertex
<1> DEFINE above == [i \in 1..Depth |-> calls[i].vertex]
<1>1. Depth \in Nat /\ above \in [1..Depth -> V]
  BY StackShape
<1> DEFINE Values == V \cup {start.root}
<1>2. above \in Seq(Values) /\ Len(above) = Depth
  <2> HIDE DEF above
  <2> QED BY <1>1, LenOfFunction, SeqDef
<1>3. Path = <<start.root>> \o above /\ start.root \in Values
  BY DEF Path, Depth
<1>4. \A i \in 1..Depth : above[i] = calls[i].vertex
  OBVIOUS
<1>5. /\ Len(<<start.root>> \o above) = 1 + Len(above)
      /\ \A i \in 1..(1 + Len(above)) :
           (<<start.root>> \o above)[i] = IF i = 1 THEN start.root ELSE above[i - 1]
  <2> HIDE DEF above, Values
  <2> QED BY <1>2, <1>3, Prepended
<1> HIDE DEF above, Values
<1>6. /\ Len(Path) = 1 + Depth
      /\ \A i \in 1..(1 + Depth) : Path[i] = IF i = 1 THEN start.root ELSE above[i - 1]
  BY <1>2, <1>3, <1>5
<1>7. /\ \A i \in 1..Depth : i + 1 \in 1..(1 + Depth) /\ i + 1 # 1 /\ (i + 1) - 1 = i
      /\ \A i \in 2..(Depth + 1) : i - 1 \in 1..Depth /\ (i - 1) + 1 = i
      /\ 1 \in 1..(1 + Depth) /\ 1 + Depth = Depth + 1
  BY <1>1
<1>8. \A i \in 1..Depth : Path[i + 1] = calls[i].vertex
  <2> SUFFICES ASSUME NEW i \in 1..Depth
               PROVE  Path[i + 1] = calls[i].vertex
    OBVIOUS
  <2>1. Path[i + 1] = above[(i + 1) - 1] /\ (i + 1) - 1 = i
    BY <1>6, <1>7
  <2>2. QED
    BY <1>4, <2>1
<1>9. \A i \in 2..(Depth + 1) : Path[i] = calls[i - 1].vertex
  BY <1>7, <1>8
<1>10. Path[1] = start.root
  BY <1>6, <1>7
<1>11. QED
  BY <1>6, <1>7, <1>8, <1>9, <1>10

\* The running call, when there is one.
LEMMA TopCall ==
  ASSUME Typed, calls # <<>>
  PROVE  /\ Depth \in 1..Depth /\ Depth \in Nat \ {0}
         /\ Running = calls[Depth]
         /\ Running.vertex \in V /\ Running.offset \in Nat \ {0}
         /\ Running.found \in BOOLEAN
         /\ Entries = graph[Running.vertex] /\ Len(Entries) \in Nat
         /\ ~Exhausted => /\ Running.offset \in 1..Len(Entries)
                          /\ Edge.vertex \in V /\ Edge = graph[Running.vertex][Running.offset]
         /\ start \in Starts(graph) /\ start \notin left
         /\ start.root \in V
         /\ graph[start.root][start.entry].vertex \in V
         /\ graph[start.root][start.entry].vertex # start.root
<1>1. Depth \in 1..Depth /\ Depth \in Nat \ {0}
  BY StackShape
<1>2. /\ Running.vertex \in V /\ Running.offset \in Nat \ {0}
      /\ Running.found \in BOOLEAN /\ Running = calls[Depth]
  BY <1>1, StackShape DEF Running, Depth
<1>3. Entries = graph[Running.vertex] /\ Len(Entries) \in Nat
  BY <1>2, GraphShape DEF Entries
<1>4. ASSUME ~Exhausted
      PROVE  /\ Running.offset \in 1..Len(Entries)
             /\ Edge.vertex \in V /\ Edge = graph[Running.vertex][Running.offset]
  <2>1. Running.offset \in 1..Len(Entries)
    BY <1>2, <1>3, <1>4 DEF Exhausted
  <2>2. QED
    BY <1>2, <1>3, <2>1, GraphShape DEF Edge
<1>5. start \in Starts(graph) /\ start \notin left /\ IsView(graph)
  BY DEF Typed
<1>6. QED
  BY <1>1, <1>2, <1>3, <1>4, <1>5, StartShape

-----------------------------------------------------------------------------
(***************************************************************************)
(* What the steps do to the stack.                                         *)
(***************************************************************************)
\* The loop of the running call moves on to its next edge.
LEMMA EdgeStep ==
  ASSUME Typed, Close \/ Skip
  PROVE  /\ calls # <<>> /\ ~Exhausted
         /\ calls' \in Seq(Frames) /\ Depth' = Depth /\ calls' # <<>>
         /\ \A i \in 1..Depth : /\ calls'[i].vertex = calls[i].vertex
                                /\ calls[i].found => calls'[i].found
         /\ \A i \in 1..(Depth - 1) : calls'[i] = calls[i]
         /\ calls'[Depth].offset = calls[Depth].offset + 1
         /\ Close => calls'[Depth].found
         /\ Skip => calls'[Depth].found = calls[Depth].found
<1>1. calls # <<>> /\ ~Exhausted
  BY DEF Close, Skip
<1>2. /\ Depth \in 1..Depth /\ calls \in Seq(Frames) /\ calls \in [1..Depth -> Frames]
      /\ calls[Depth] \in Frames /\ Running = calls[Depth]
  BY <1>1, StackShape, TopCall DEF Typed
<1>3. PICK f \in BOOLEAN :
        /\ calls' = [calls EXCEPT ![Depth] = [Running EXCEPT !.offset = @ + 1, !.found = f]]
        /\ Close => f = TRUE
        /\ Skip => f = Running.found
  <2>1. ~(Close /\ Skip)
    BY DEF Close, Skip
  <2>2. CASE Close
    <3>1. calls' = [calls EXCEPT ![Depth] = [Running EXCEPT !.offset = @ + 1, !.found = TRUE]]
      BY <1>2, <2>2 DEF Close, Frames, Depth
    <3>2. QED
      BY <2>1, <2>2, <3>1
  <2>3. CASE Skip
    <3>1. calls' = [calls EXCEPT ![Depth] = [Running EXCEPT !.offset = @ + 1, !.found = Running.found]]
      BY <1>2, <2>3 DEF Skip, Frames, Depth
    <3>2. Running.found \in BOOLEAN
      BY <1>2 DEF Frames
    <3>3. QED
      BY <2>1, <2>3, <3>1, <3>2
  <2>4. QED
    BY <2>2, <2>3
<1> DEFINE frame == [Running EXCEPT !.offset = @ + 1, !.found = f]
<1>4. frame \in Frames /\ frame.vertex = calls[Depth].vertex /\ frame.offset = calls[Depth].offset + 1
      /\ frame.found = f
  <2>1. Running \in Frames /\ [Running EXCEPT !.offset = @ + 1] \in Frames
    BY <1>2, SMTT(30) DEF Frames
  <2>2. [[Running EXCEPT !.offset = @ + 1] EXCEPT !.found = f] = frame
    OBVIOUS
  <2>3. frame \in Frames
    BY <2>1, <2>2 DEF Frames
  <2>4. QED
    BY <1>2, <2>1, <2>3 DEF Frames
<1>5. calls' = [calls EXCEPT ![Depth] = frame] /\ (Close => frame.found) /\ (Skip => frame.found = calls[Depth].found)
      /\ (calls[Depth].found => frame.found)
  BY <1>2, <1>3, <1>4
<1> HIDE DEF frame
<1>6. calls' \in Seq(Frames) /\ Len(calls') = Len(calls)
      /\ \A i \in 1..Depth : calls'[i] = IF i = Depth THEN frame ELSE calls[i]
  BY <1>2, <1>4, <1>5, ExceptSeq, SMTT(30) DEF Depth
<1>7. Depth' = Depth /\ calls' # <<>>
  BY <1>1, <1>2, <1>6, EmptySeq DEF Depth
<1>8. /\ \A i \in 1..(Depth - 1) : i \in 1..Depth /\ calls'[i] = calls[i]
      /\ calls'[Depth] = frame
  BY <1>2, <1>6
<1>9. \A i \in 1..Depth : /\ calls'[i].vertex = calls[i].vertex
                          /\ calls[i].found => calls'[i].found
  <2>1. frame.vertex = calls[Depth].vertex /\ (calls[Depth].found => frame.found)
    BY <1>4, <1>5
  <2>2. QED
    BY <1>6, <2>1
<1>10. QED
  BY <1>1, <1>4, <1>5, <1>6, <1>7, <1>8, <1>9

LEMMA CallStep ==
  ASSUME Typed, Call
  PROVE  /\ calls # <<>> /\ ~Exhausted
         /\ calls' \in Seq(Frames) /\ Depth' = Depth + 1 /\ calls' # <<>>
         /\ \A i \in 1..Depth : /\ calls'[i].vertex = calls[i].vertex
                                /\ calls'[i].found = calls[i].found
         /\ \A i \in 1..(Depth - 1) : calls'[i] = calls[i]
         /\ calls'[Depth].offset = calls[Depth].offset + 1
         /\ calls'[Depth + 1] = Called(Edge.vertex)
         /\ calls'[Depth + 1].vertex = Edge.vertex /\ calls'[Depth + 1].offset = 1
         /\ calls'[Depth + 1].found = FALSE
<1> DEFINE frame == [Running EXCEPT !.offset = @ + 1]
           below == [calls EXCEPT ![Depth] = frame]
<1>1. calls # <<>> /\ ~Exhausted
  BY DEF Call
<1>2. /\ Depth \in 1..Depth /\ calls \in Seq(Frames) /\ calls \in [1..Depth -> Frames]
      /\ calls[Depth] \in Frames /\ Edge.vertex \in V
  BY <1>1, StackShape, TopCall DEF Typed
<1>3. calls' = Append(below, Called(Edge.vertex))
  BY <1>2 DEF Call, Running, Frames, Depth
<1>4. frame \in Frames /\ frame.vertex = calls[Depth].vertex /\ frame.offset = calls[Depth].offset + 1
      /\ frame.found = calls[Depth].found
  BY <1>2 DEF Running, Frames, Depth
<1>5. Called(Edge.vertex) \in Frames /\ Called(Edge.vertex).vertex = Edge.vertex
      /\ Called(Edge.vertex).offset = 1 /\ Called(Edge.vertex).found = FALSE
  BY <1>2 DEF Called, Frames
<1>6. below \in Seq(Frames) /\ Len(below) = Len(calls)
      /\ \A i \in 1..Depth : below[i] = IF i = Depth THEN frame ELSE calls[i]
  <2> HIDE DEF frame
  <2> QED BY <1>2, <1>4, ExceptSeq DEF Depth
<1> HIDE DEF frame, below
<1>7. /\ calls' \in Seq(Frames) /\ calls' # <<>> /\ Len(calls') = Len(calls) + 1
      /\ \A i \in 1..Depth : calls'[i] = below[i]
      /\ calls'[Depth + 1] = Called(Edge.vertex)
  BY <1>3, <1>5, <1>6, AppendProperties DEF Depth
<1>8. Depth' = Depth + 1
  BY <1>7 DEF Depth
<1>9. /\ \A i \in 1..(Depth - 1) : i \in 1..Depth /\ calls'[i] = calls[i]
      /\ calls'[Depth] = frame
  BY <1>2, <1>6, <1>7
<1>10. \A i \in 1..Depth : /\ calls'[i].vertex = calls[i].vertex
                           /\ calls'[i].found = calls[i].found
  BY <1>4, <1>6, <1>7
<1>11. QED
  BY <1>1, <1>4, <1>5, <1>7, <1>8, <1>9, <1>10

LEMMA ReturnStep ==
  ASSUME Typed, Return
  PROVE  /\ calls # <<>> /\ Exhausted
         /\ calls' \in Seq(Frames) /\ Depth' = Depth - 1
         /\ \A i \in 1..(Depth - 1) : /\ calls'[i].vertex = calls[i].vertex
                                      /\ calls'[i].offset = calls[i].offset
                                      /\ calls[i].found => calls'[i].found
         /\ Running.found /\ Depth > 1 => calls'[Depth - 1].found
<1> DEFINE popped == [i \in 1..(Depth - 1) |->
                      IF i = Depth - 1 THEN [calls[i] EXCEPT !.found = @ \/ Running.found]
                                       ELSE calls[i]]
<1>1. calls # <<>> /\ Exhausted /\ calls' = popped
  BY DEF Return, Depth
<1>2. /\ Depth \in Nat \ {0} /\ calls \in [1..Depth -> Frames] /\ Running \in Frames
      /\ \A i \in 1..Depth : calls[i] \in Frames
  BY <1>1, StackShape, TopCall DEF Running
<1>3. ASSUME NEW i \in 1..(Depth - 1)
      PROVE  /\ popped[i] \in Frames
             /\ popped[i].vertex = calls[i].vertex
             /\ popped[i].offset = calls[i].offset
             /\ calls[i].found => popped[i].found
             /\ Running.found /\ i = Depth - 1 => popped[i].found
  <2>1. calls[i] \in Frames /\ Running.found \in BOOLEAN
    BY <1>2 DEF Frames
  <2>2. popped[i] = IF i = Depth - 1 THEN [calls[i] EXCEPT !.found = @ \/ Running.found] ELSE calls[i]
    OBVIOUS
  <2>3. QED
    BY <2>1, <2>2 DEF Frames
<1>4. popped \in [1..(Depth - 1) -> Frames]
  BY <1>3
<1>5. Depth - 1 \in Nat
  BY <1>2
<1> HIDE DEF popped
<1>6. popped \in Seq(Frames) /\ Len(popped) = Depth - 1
  BY <1>4, <1>5, LenOfFunction, SeqDef
<1>7. Depth' = Depth - 1
  BY <1>1, <1>6 DEF Depth
<1>8. QED
  BY <1>1, <1>2, <1>3, <1>6, <1>7

LEMMA NextStartStep ==
  ASSUME Typed, NextStart
  PROVE  /\ calls = <<>> /\ Depth = 0 /\ start' \in left /\ start' \in Starts(graph)
         /\ left' = left \ {start'}
         /\ start'.root \in V /\ graph[start'.root][start'.entry].vertex \in V
         /\ graph[start'.root][start'.entry].vertex # start'.root
         /\ calls' \in Seq(Frames) /\ Depth' = 1 /\ calls' # <<>>
         /\ calls'[1].vertex = graph[start'.root][start'.entry].vertex
         /\ calls'[1].offset = 1 /\ calls'[1].found = FALSE
         /\ blocked' = {graph[start'.root][start'.entry].vertex}
<1> DEFINE first == graph[start'.root][start'.entry].vertex
<1>1. /\ calls = <<>> /\ Depth = 0 /\ start' \in left /\ left' = left \ {start'}
      /\ calls' = <<Called(first)>> /\ blocked' = {first}
  BY StackShape DEF NextStart
<1>2. /\ start' \in Starts(graph) /\ start'.root \in V /\ first \in V /\ first # start'.root
  <2>1. start' \in Starts(graph) /\ IsView(graph)
    BY <1>1 DEF Typed
  <2>2. QED
    BY <2>1, StartShape
<1> HIDE DEF first
<1>3. /\ Called(first) \in Frames /\ Called(first).vertex = first
      /\ Called(first).offset = 1 /\ Called(first).found = FALSE
  BY <1>2 DEF Called, Frames
<1>4. calls' \in Seq(Frames) /\ Depth' = 1 /\ calls' # <<>> /\ calls'[1] = Called(first)
  BY <1>1, <1>3 DEF Depth
<1>5. QED
  BY <1>1, <1>2, <1>3, <1>4 DEF first

-----------------------------------------------------------------------------
(***************************************************************************)
(* The types are kept.                                                     *)
(***************************************************************************)
LEMMA InputUnchanged ==
  ASSUME [Next]_vars
  PROVE  graph' = graph /\ bound' = bound /\ cycles' = cycles
BY DEF Next, vars, input, NextStart, Report, Close, Skip, Call, Return, Returned

LEMMA StartUnchanged ==
  ASSUME Close \/ Skip \/ Call \/ Return \/ Report \/ UNCHANGED vars
  PROVE  /\ start' = start /\ left' = left /\ graph' = graph
         /\ \A v : Reach(v)' = Reach(v)
<1>1. start' = start /\ left' = left /\ graph' = graph
  BY DEF Close, Skip, Call, Return, Report, vars, input
<1>2. QED
  BY <1>1 DEF Reach, InReach

LEMMA LeaveTyped ==
  ASSUME Typed, Return
  PROVE  blocked' \in SUBSET V /\ blockedLists' \in [V -> SUBSET V]
<1>1. /\ blocked \in SUBSET V /\ blockedLists \in [V -> SUBSET V]
      /\ calls # <<>> /\ Running.vertex \in V
  BY TopCall DEF Typed, Return
<1>2. CASE Running.found
  BY <1>1, <1>2 DEF Return, Unblock
<1>3. CASE ~Running.found
  BY <1>1, <1>3 DEF Return, AddToBlockedLists
<1>4. QED
  BY <1>2, <1>3

LEMMA OffsetsStep ==
  ASSUME Typed, [Next]_vars
  PROVE  /\ calls' \in Seq(Frames)
         /\ \A i \in 1..Depth' : calls'[i].offset \in 1..(Len(graph[calls'[i].vertex]) + 1)
<1>1. /\ \A v \in V : Len(graph[v]) \in Nat
      /\ \A i \in 1..Depth : /\ calls[i].vertex \in V
                             /\ calls[i].offset \in 1..(Len(graph[calls[i].vertex]) + 1)
      /\ Depth \in Nat
  BY GraphShape, StackShape
<1>2. CASE NextStart
  BY <1>1, <1>2, NextStartStep
<1>3. CASE Close \/ Skip
  <2>1. /\ calls' \in Seq(Frames) /\ Depth' = Depth /\ calls # <<>> /\ ~Exhausted
        /\ \A i \in 1..Depth : calls'[i].vertex = calls[i].vertex
        /\ \A i \in 1..(Depth - 1) : calls'[i] = calls[i]
        /\ calls'[Depth].offset = calls[Depth].offset + 1
    BY <1>3, EdgeStep
  <2>2. calls[Depth].offset \in 1..Len(graph[calls[Depth].vertex]) /\ Depth \in 1..Depth
    BY <2>1, TopCall DEF Running
  <2>3. ASSUME NEW i \in 1..Depth
        PROVE  calls'[i].offset \in 1..(Len(graph[calls'[i].vertex]) + 1)
    <3>1. CASE i = Depth
      <4>1. /\ calls'[i].vertex = calls[Depth].vertex
            /\ calls'[i].offset = calls[Depth].offset + 1
        BY <2>1, <2>2, <3>1
      <4>2. calls[Depth].offset + 1 \in 1..(Len(graph[calls[Depth].vertex]) + 1)
        BY <1>1, <2>2
      <4>3. QED
        BY <4>1, <4>2
    <3>2. CASE i # Depth
      <4>1. i \in 1..(Depth - 1)
        BY <1>1, <3>2
      <4>2. calls'[i] = calls[i] /\ i \in 1..Depth
        BY <1>1, <2>1, <4>1
      <4>3. QED
        BY <1>1, <4>2
    <3>3. QED
      BY <3>1, <3>2
  <2>4. QED
    BY <2>1, <2>3
<1>4. CASE Call
  <2>1. /\ calls' \in Seq(Frames) /\ Depth' = Depth + 1 /\ calls # <<>> /\ ~Exhausted
        /\ \A i \in 1..Depth : calls'[i].vertex = calls[i].vertex
        /\ \A i \in 1..(Depth - 1) : calls'[i] = calls[i]
        /\ calls'[Depth].offset = calls[Depth].offset + 1
        /\ calls'[Depth + 1].vertex = Edge.vertex /\ calls'[Depth + 1].offset = 1
    BY <1>4, CallStep
  <2>2. /\ calls[Depth].offset \in 1..Len(graph[calls[Depth].vertex]) /\ Depth \in 1..Depth
        /\ Edge.vertex \in V
    BY <2>1, TopCall DEF Running
  <2>3. ASSUME NEW i \in 1..(Depth + 1)
        PROVE  calls'[i].offset \in 1..(Len(graph[calls'[i].vertex]) + 1)
    <3>1. CASE i = Depth
      <4>1. /\ calls'[i].vertex = calls[Depth].vertex
            /\ calls'[i].offset = calls[Depth].offset + 1
        BY <2>1, <2>2, <3>1
      <4>2. calls[Depth].offset + 1 \in 1..(Len(graph[calls[Depth].vertex]) + 1)
        BY <1>1, <2>2
      <4>3. QED
        BY <4>1, <4>2
    <3>2. CASE i = Depth + 1
      BY <1>1, <2>1, <2>2, <3>2, SMTT(30)
    <3>3. CASE i # Depth /\ i # Depth + 1
      <4>1. i \in 1..(Depth - 1)
        BY <1>1, <3>3
      <4>2. calls'[i] = calls[i] /\ i \in 1..Depth
        BY <1>1, <2>1, <4>1
      <4>3. QED
        BY <1>1, <4>2
    <3>4. QED
      BY <3>1, <3>2, <3>3
  <2>4. QED
    BY <2>1, <2>3
<1>5. CASE Return
  <2>1. /\ calls' \in Seq(Frames) /\ Depth' = Depth - 1
        /\ \A i \in 1..(Depth - 1) : /\ calls'[i].vertex = calls[i].vertex
                                     /\ calls'[i].offset = calls[i].offset
    BY <1>5, ReturnStep
  <2>2. ASSUME NEW i \in 1..(Depth - 1)
        PROVE  calls'[i].offset \in 1..(Len(graph[calls'[i].vertex]) + 1)
    <3>1. i \in 1..Depth
      BY <1>1
    <3>2. calls[i].offset \in 1..(Len(graph[calls[i].vertex]) + 1)
      BY <1>1, <3>1
    <3>3. QED
      BY <2>1, <3>2
  <2>3. QED
    BY <2>1, <2>2
<1>6. CASE Report \/ UNCHANGED vars
  <2>1. calls' = calls
    BY <1>6 DEF Report, vars
  <2>2. Depth' = Depth
    BY <2>1 DEF Depth
  <2>3. QED
    BY <1>1, <2>1, <2>2 DEF Typed
<1>7. QED
  BY <1>2, <1>3, <1>4, <1>5, <1>6 DEF Next, Returned

LEMMA TypedStep == Typed /\ [Next]_vars => Typed'
<1> SUFFICES ASSUME Typed, [Next]_vars
             PROVE  Typed'
  OBVIOUS
<1>1. /\ IsView(graph')
      /\ bound' \in {Unbounded} \cup (Nat \ {0, 1})
      /\ cycles' = WindowCycles(graph', Width, MaxLength')
      /\ graph' = graph
  BY InputUnchanged DEF Typed, MaxLength
<1>2. /\ calls' \in Seq(Frames)
      /\ \A i \in 1..Depth' : calls'[i].offset \in 1..(Len(graph'[calls'[i].vertex]) + 1)
  BY InputUnchanged, OffsetsStep
<1>3. /\ left' \subseteq Starts(graph)
      /\ calls' # <<>> => start' \in Starts(graph) \ left'
      /\ blocked' \in SUBSET V /\ blockedLists' \in [V -> SUBSET V]
      /\ histogram' \in [Lengths -> Nat]
  <2>1. /\ left \subseteq Starts(graph)
        /\ calls # <<>> => start \in Starts(graph) \ left
        /\ blocked \in SUBSET V /\ blockedLists \in [V -> SUBSET V]
        /\ histogram \in [Lengths -> Nat]
    BY DEF Typed
  <2>2. CASE NextStart
    <3>1. /\ start' \in Starts(graph) /\ left' = left \ {start'}
          /\ graph[start'.root][start'.entry].vertex \in V
          /\ blocked' = {graph[start'.root][start'.entry].vertex}
      BY <2>2, NextStartStep
    <3>2. histogram' = histogram /\ blockedLists' = [v \in V |-> {}]
      BY <2>2 DEF NextStart
    <3>3. QED
      BY <2>1, <3>1, <3>2
  <2>3. CASE Close
    <3>1. histogram' \in [Lengths -> Nat]
      <4> DEFINE len == Len(Path)
      <4>1. histogram' = [histogram EXCEPT ![len] = histogram[len] + 1]
        BY <2>3 DEF Close
      <4> HIDE DEF len
      <4>2. CASE len \in Lengths
        <5>1. histogram[len] + 1 \in Nat
          BY <2>1, <4>2
        <5>2. QED
          BY <2>1, <4>1, <5>1
      <4>3. CASE len \notin Lengths
        BY <2>1, <4>1, <4>3
      <4>4. QED
        BY <4>2, <4>3
    <3>2. QED
      BY <2>1, <2>3, <3>1 DEF Close
  <2>4. CASE Skip
    BY <2>1, <2>4 DEF Skip
  <2>5. CASE Call
    <3>1. Edge.vertex \in V
      BY <2>5, TopCall DEF Call
    <3>2. QED
      BY <2>1, <2>5, <3>1 DEF Call
  <2>6. CASE Return
    <3>1. blocked' \in SUBSET V /\ blockedLists' \in [V -> SUBSET V]
      BY <2>6, LeaveTyped
    <3>2. QED
      BY <2>1, <2>6, <3>1 DEF Return
  <2>7. CASE Report \/ UNCHANGED vars
    BY <2>1, <2>7 DEF Report, vars
  <2>8. QED
    BY <2>2, <2>3, <2>4, <2>5, <2>6, <2>7 DEF Next, Returned
<1>4. QED
  BY <1>1, <1>2, <1>3 DEF Typed

LEMMA TypedInit == Init => Typed
<1> SUFFICES ASSUME Init
             PROVE  Typed
  OBVIOUS
<1>1. IsView(graph) /\ bound \in {Unbounded} \cup (Nat \ {0, 1})
  BY DEF Init, IsView
<1>2. calls = <<>> /\ Depth = 0 /\ calls \in Seq(Frames)
  BY DEF Init, Depth
<1>3. QED
  BY <1>1, <1>2 DEF Init, Typed, MaxLength

-----------------------------------------------------------------------------
(***************************************************************************)
(* What unblock() releases.                                                *)
(***************************************************************************)
\* Released(v) is the least set with v in it that holds the blocked dependents
\* of its members.
LEMMA ReleasedIsLeast ==
  ASSUME Typed, NEW v \in V
  PROVE  /\ v \in Released(v) /\ Released(v) \in SUBSET V
         /\ ClosedUnderLists(Released(v))
         /\ \A S \in SUBSET V : v \in S /\ ClosedUnderLists(S) => Released(v) \subseteq S
<1> DEFINE step == [R \in SUBSET V |-> R \cup (blocked \cap UNION {blockedLists[u] : u \in R})]
<1>1. blocked \in SUBSET V /\ blockedLists \in [V -> SUBSET V] /\ N \in Nat
  BY DEF Typed
<1>2. Grows(step, V) /\ {v} \subseteq V
  BY <1>1 DEF Grows
<1>3. \E x : AreIterates(x, SUBSET V, {v}, step, N) /\ IsLeastClosed(x[N], V, {v}, step)
  <2> HIDE DEF step
  <2>1. Cardinality(V) <= N
    BY VertexType
  <2>2. QED
    BY <1>1, <1>2, <2>1, VertexType, Iteration
<1>4. PICK w : AreIterates(w, SUBSET V, {v}, step, N) /\ IsLeastClosed(w[N], V, {v}, step)
  BY <1>3
<1>5. /\ w \in [0..N -> SUBSET V] /\ w[0] = {v} /\ \A k \in 1..N : w[k] = step[w[k - 1]]
      /\ w[N] \in SUBSET V /\ {v} \subseteq w[N] /\ step[w[N]] = w[N]
      /\ \A S \in SUBSET V :
           {v} \subseteq S /\ (\A R \in SUBSET S : step[R] \subseteq S) => w[N] \subseteq S
  <2> HIDE DEF step
  <2> QED BY <1>4 DEF AreIterates, IsLeastClosed
<1> DEFINE within[k \in 0..N] ==
             IF k = 0 THEN {v}
             ELSE LET R == within[k - 1]
                  IN  R \cup (blocked \cap UNION {blockedLists[u] : u \in R})
<1>6. w = [k \in 0..N |->
             IF k = 0 THEN {v}
             ELSE LET R == w[k - 1]
                  IN  R \cup (blocked \cap UNION {blockedLists[u] : u \in R})]
  <2>1. ASSUME NEW k \in 0..N
        PROVE  w[k] = IF k = 0 THEN {v}
                      ELSE LET R == w[k - 1]
                           IN  R \cup (blocked \cap UNION {blockedLists[u] : u \in R})
    <3>1. CASE k = 0
      BY <1>5, <3>1
    <3>2. CASE k # 0
      <4>1. k \in 1..N /\ k - 1 \in 0..N
        BY <3>2
      <4>2. w[k] = step[w[k - 1]] /\ w[k - 1] \in SUBSET V
        BY <1>5, <4>1
      <4>3. QED
        BY <3>2, <4>2
    <3>3. QED
      BY <3>1, <3>2
  <2>2. QED
    BY <1>5, <2>1
<1>7. within = [k \in 0..N |->
                  IF k = 0 THEN {v}
                  ELSE LET R == within[k - 1]
                       IN  R \cup (blocked \cap UNION {blockedLists[u] : u \in R})]
  <2> HIDE DEF step
  <2> QED BY <1>6
<1>8. Released(v) = within[N]
  BY DEF Released
<1> HIDE DEF within
<1> DEFINE Same == {k \in Nat : k <= N => within[k] = w[k]}
<1>9. \A k \in Nat : k \in Same
  <2>1. 0 \in Same
    BY <1>5, <1>7
  <2>2. ASSUME NEW k \in Nat, k \in Same
        PROVE  k + 1 \in Same
    <3>1. SUFFICES ASSUME k + 1 <= N
                   PROVE  within[k + 1] = w[k + 1]
      OBVIOUS
    <3>2. k + 1 \in 0..N /\ k + 1 # 0 /\ (k + 1) - 1 = k /\ k <= N
      BY <3>1
    <3>3. within[k] = w[k]
      BY <2>2, <3>2
    <3>4. /\ within[k + 1] = within[k] \cup (blocked \cap UNION {blockedLists[u] : u \in within[k]})
          /\ w[k + 1] = w[k] \cup (blocked \cap UNION {blockedLists[u] : u \in w[k]})
      BY <1>6, <1>7, <3>2
    <3>5. QED
      BY <3>3, <3>4
  <2>3. QED
    <3> HIDE DEF Same
    <3> QED BY <2>1, <2>2, NatSetInduction
<1>10. Released(v) = w[N]
  BY <1>1, <1>8, <1>9
<1>11. Released(v) \in SUBSET V /\ v \in Released(v)
  BY <1>1, <1>5, <1>10
<1>12. ClosedUnderLists(Released(v))
  <2>1. ASSUME NEW u \in Released(v), NEW x \in blockedLists[u] \cap blocked
        PROVE  x \in Released(v)
    <3>1. x \in step[Released(v)]
      BY <1>11, <2>1
    <3>2. QED
      BY <1>5, <1>10, <3>1
  <2>2. QED
    BY <2>1 DEF ClosedUnderLists
<1>13. ASSUME NEW S \in SUBSET V, v \in S, ClosedUnderLists(S)
       PROVE  Released(v) \subseteq S
  <2>1. ASSUME NEW R \in SUBSET S
        PROVE  step[R] \subseteq S
    <3>1. step[R] = R \cup (blocked \cap UNION {blockedLists[u] : u \in R})
      OBVIOUS
    <3>2. QED
      BY <1>13, <3>1 DEF ClosedUnderLists
  <2>2. {v} \subseteq S
    BY <1>13
  <2>3. QED
    <3> HIDE DEF step
    <3> QED BY <1>5, <1>10, <2>1, <2>2
<1>14. QED
  BY <1>11, <1>12, <1>13

\* No vertex is hopeful that a set without the vertices next to the root, and
\* closed against the edges, excludes.
LEMMA HopefulWithin ==
  ASSUME Typed, NEW S \in SUBSET V,
         \A v \in V :
           /\ \A i \in 1..Len(Path) : v # Path[i]
           /\ start.root \in Reach(v) \/ Reach(v) \cap S # {}
           => v \in S
  PROVE  Hopeful \subseteq S
<1> DEFINE Free == {v \in V : \A i \in 1..Len(Path) : v # Path[i]}
           first == {v \in Free : start.root \in Reach(v)}
           Grown(R) == R \cup {v \in Free : Reach(v) \cap R # {}}
           step == [R \in SUBSET V |-> Grown(R)]
<1>1. first \in SUBSET V /\ N \in Nat
  OBVIOUS
<1>2. Grows(step, V) /\ first \subseteq V
  BY DEF Grows
<1>3. \E x : AreIterates(x, SUBSET V, first, step, N) /\ IsLeastClosed(x[N], V, first, step)
  <2> HIDE DEF step, first
  <2>1. Cardinality(V) <= N
    BY VertexType
  <2>2. QED
    BY <1>1, <1>2, <2>1, VertexType, Iteration
<1>4. PICK w : AreIterates(w, SUBSET V, first, step, N) /\ IsLeastClosed(w[N], V, first, step)
  BY <1>3
<1>5. /\ w \in [0..N -> SUBSET V] /\ w[0] = first /\ \A k \in 1..N : w[k] = step[w[k - 1]]
      /\ \A S1 \in SUBSET V :
           first \subseteq S1 /\ (\A R \in SUBSET S1 : step[R] \subseteq S1) => w[N] \subseteq S1
  <2> HIDE DEF step, first
  <2> QED BY <1>4 DEF AreIterates, IsLeastClosed
<1> DEFINE within[k \in 0..N] ==
             IF k = 0 THEN first ELSE LET R == within[k - 1] IN Grown(R)
<1>6. w = [k \in 0..N |-> IF k = 0 THEN first ELSE LET R == w[k - 1] IN Grown(R)]
  <2>1. ASSUME NEW k \in 0..N
        PROVE  w[k] = IF k = 0 THEN first ELSE LET R == w[k - 1] IN Grown(R)
    <3>1. CASE k = 0
      BY <1>5, <3>1
    <3>2. CASE k # 0
      <4>1. k \in 1..N /\ k - 1 \in 0..N
        BY <3>2
      <4>2. w[k] = step[w[k - 1]] /\ w[k - 1] \in SUBSET V
        BY <1>5, <4>1
      <4>3. step[w[k - 1]] = Grown(w[k - 1])
        <5> HIDE DEF Grown
        <5> QED BY <4>2
      <4>4. QED
        <5> HIDE DEF Grown, first, step
        <5> QED BY <3>2, <4>2, <4>3
    <3>3. QED
      BY <3>1, <3>2
  <2>2. QED
    <3> HIDE DEF Grown, first, step
    <3> QED BY <1>5, <2>1
<1>7. within = [k \in 0..N |-> IF k = 0 THEN first ELSE LET R == within[k - 1] IN Grown(R)]
  <2> HIDE DEF Grown, first, step
  <2> QED BY <1>6
<1>8. Hopeful = within[N]
  BY DEF Hopeful, Reach
<1> HIDE DEF within, Free, Grown
<1> DEFINE Same == {k \in Nat : k <= N => within[k] = w[k]}
<1>9. \A k \in Nat : k \in Same
  <2>1. 0 \in Same
    BY <1>5, <1>7
  <2>2. ASSUME NEW k \in Nat, k \in Same
        PROVE  k + 1 \in Same
    <3>1. SUFFICES ASSUME k + 1 <= N
                   PROVE  within[k + 1] = w[k + 1]
      OBVIOUS
    <3>2. k + 1 \in 0..N /\ k + 1 # 0 /\ (k + 1) - 1 = k /\ k <= N
      BY <3>1
    <3>3. within[k] = w[k]
      BY <2>2, <3>2
    <3>4. within[k + 1] = Grown(within[k]) /\ w[k + 1] = Grown(w[k])
      BY <1>6, <1>7, <3>2
    <3>5. QED
      BY <3>3, <3>4
  <2>3. QED
    <3> HIDE DEF Same
    <3> QED BY <2>1, <2>2, NatSetInduction
<1>10. Hopeful = w[N]
  BY <1>1, <1>8, <1>9
<1>11. first \subseteq S
  BY DEF Free
<1>12. ASSUME NEW R \in SUBSET S
       PROVE  step[R] \subseteq S
  <2>1. step[R] = R \cup {v \in Free : Reach(v) \cap R # {}}
    BY DEF Grown
  <2>2. \A v \in Free : v \in V /\ \A i \in 1..Len(Path) : v # Path[i]
    BY DEF Free
  <2>3. QED
    BY <2>1, <2>2
<1>13. QED
  <2> HIDE DEF step, first
  <2> QED BY <1>5, <1>10, <1>11, <1>12

-----------------------------------------------------------------------------
(***************************************************************************)
(* The edges consumed.                                                     *)
(***************************************************************************)
LEMMA ConsumedSame ==
  ASSUME NEW a, NEW b, a.vertex = b.vertex, a.offset = b.offset
  PROVE  Consumed(a) = Consumed(b)
BY DEF Consumed

LEMMA ConsumedOne ==
  ASSUME Typed, calls # <<>>, ~Exhausted, NEW a,
         a.vertex = calls[Depth].vertex, a.offset = calls[Depth].offset + 1,
         NEW u \in Consumed(a)
  PROVE  u \in Consumed(calls[Depth]) \/ (u = Edge.vertex /\ InReach(Edge, Running.vertex))
<1>1. /\ Running.offset \in 1..Len(Entries) /\ Len(Entries) \in Nat
      /\ Edge = graph[Running.vertex][Running.offset] /\ Running = calls[Depth]
  BY TopCall
<1>2. a.offset - 1 = Running.offset /\ a.vertex = Running.vertex
  BY <1>1
<1>3. PICK e \in 1..Running.offset : /\ u = graph[Running.vertex][e].vertex
                                     /\ InReach(graph[Running.vertex][e], Running.vertex)
  BY <1>2 DEF Consumed
<1>4. CASE e = Running.offset
  BY <1>1, <1>3, <1>4, SMTT(30)
<1>5. CASE e # Running.offset
  <2>1. e \in 1..(Running.offset - 1)
    BY <1>1, <1>3, <1>5
  <2>2. QED
    BY <1>1, <1>3, <2>1 DEF Consumed
<1>6. QED
  BY <1>4, <1>5

LEMMA ConsumedNone ==
  ASSUME NEW a, a.offset = 1
  PROVE  Consumed(a) = {}
BY DEF Consumed

LEMMA ConsumedAll ==
  ASSUME Typed, calls # <<>>, Exhausted
  PROVE  Consumed(calls[Depth]) = Reach(Running.vertex)
<1>1. /\ Len(Entries) \in Nat /\ Entries = graph[Running.vertex] /\ Running = calls[Depth]
      /\ Running.offset \in 1..(Len(Entries) + 1)
  BY TopCall, StackShape
<1>2. Running.offset - 1 = Len(graph[Running.vertex])
  BY <1>1 DEF Exhausted
<1>3. QED
  BY <1>1, <1>2 DEF Consumed, Reach

\* No step but the return of a call that found one, to its caller, makes a
\* finding fewer.
LEMMA FoundGrows ==
  ASSUME Typed, Close \/ Skip \/ Call \/ Return, NEW i \in 1..Depth, i \in 1..Depth',
         ~FoundFrom(i)'
  PROVE  ~FoundFrom(i) /\ ~Close
<1>1. Depth \in Nat /\ \A k \in 1..Depth : calls[k].found \in BOOLEAN
  BY StackShape
<1>2. \A k \in i..Depth' : ~calls'[k].found
  BY DEF FoundFrom
<1>3. CASE Close \/ Skip
  <2>1. /\ Depth' = Depth /\ \A k \in 1..Depth : calls[k].found => calls'[k].found
        /\ Close => calls'[Depth].found
        /\ Depth \in i..Depth
    BY <1>1, <1>3, EdgeStep
  <2>2. QED
    BY <1>2, <2>1 DEF FoundFrom
<1>4. CASE Call
  <2>1. Depth' = Depth + 1 /\ \A k \in 1..Depth : calls'[k].found = calls[k].found
    BY <1>4, CallStep
  <2>2. \A k \in i..Depth : k \in i..Depth' /\ k \in 1..Depth
    BY <1>1, <2>1
  <2>3. ~Close
    BY <1>4 DEF Call, Close
  <2>4. QED
    BY <1>2, <2>1, <2>2, <2>3 DEF FoundFrom
<1>5. CASE Return
  <2>1. /\ Depth' = Depth - 1
        /\ \A k \in 1..(Depth - 1) : calls[k].found => calls'[k].found
        /\ Running.found /\ Depth > 1 => calls'[Depth - 1].found
    BY <1>5, ReturnStep
  <2>2. /\ \A k \in i..Depth : k = Depth \/ (k \in i..Depth' /\ k \in 1..(Depth - 1))
        /\ Depth > 1 /\ Depth - 1 \in i..Depth'
    BY <1>1, <2>1
  <2>3. ~Close
    BY <1>5 DEF Return, Close
  <2>4. QED
    BY <1>2, <2>1, <2>2, <2>3 DEF FoundFrom, Running, Depth
<1>6. QED
  BY <1>3, <1>4, <1>5

-----------------------------------------------------------------------------
(***************************************************************************)
(* The invariant is kept.                                                  *)
(***************************************************************************)
LEMMA ReachUnchanged ==
  ASSUME [Next]_vars, calls # <<>>
  PROVE  start' = start /\ left' = left /\ \A v : Reach(v)' = Reach(v)
<1>1. ~NextStart
  BY DEF NextStart
<1>2. QED
  BY <1>1, StartUnchanged DEF Next, Returned

\* The return of a call that found a cycle unblocks its vertex; that of another
\* puts the vertex in the lists of those it has edges to, all of them blocked.
LEMMA ReturnBlocks ==
  ASSUME SearchInv, Return
  PROVE  \/ /\ Running.found
            /\ blocked' = blocked \ Released(Running.vertex)
            /\ \A u \in V : blockedLists'[u] = IF u \in Released(Running.vertex) THEN {}
                                               ELSE blockedLists[u]
         \/ /\ ~Running.found
            /\ blocked' = blocked
            /\ \A u \in V : blockedLists'[u] =
                 IF u \in Reach(Running.vertex)
                 THEN blockedLists[u] \cup {Running.vertex} ELSE blockedLists[u]
            /\ Reach(Running.vertex) \subseteq blocked
            /\ start.root \notin Reach(Running.vertex)
<1>1. /\ Typed /\ calls # <<>> /\ Exhausted /\ Depth \in 1..Depth
      /\ Running.found \in BOOLEAN /\ Running = calls[Depth]
      /\ start.root \notin blocked
  BY TopCall DEF SearchInv, Return, PathBlocked
<1>2. CASE Running.found
  BY <1>2 DEF Return, Unblock
<1>3. CASE ~Running.found
  <2>1. ~FoundFrom(Depth)
    BY <1>1, <1>3 DEF FoundFrom
  <2>2. Consumed(calls[Depth]) \subseteq blocked
    BY <1>1, <2>1 DEF SearchInv, FruitlessEdges
  <2>3. Reach(Running.vertex) \subseteq blocked /\ start.root \notin Reach(Running.vertex)
    BY <1>1, <2>2, ConsumedAll
  <2>4. WaitsFor(Running.vertex) = Reach(Running.vertex)
    BY <2>3 DEF WaitsFor, Reach
  <2>5. QED
    BY <1>3, <2>3, <2>4 DEF Return, AddToBlockedLists
<1>4. QED
  BY <1>2, <1>3

\* Leaving a call blocks nothing, and unblocks nothing before it on the path.
LEMMA LeaveKeepsPath ==
  ASSUME SearchInv, Return
  PROVE  blocked' \subseteq blocked /\ \A i \in 1..(Depth - 1) : calls[i].vertex \in blocked'
<1> DEFINE w == Running.vertex
<1>1. /\ Typed /\ calls # <<>> /\ Depth \in 1..Depth /\ Depth \in Nat /\ w \in V
      /\ w = calls[Depth].vertex
  BY TopCall DEF SearchInv, Return
<1>2. \A i \in 1..(Depth - 1) : i \in 1..Depth /\ calls[i].vertex \in blocked
  BY <1>1 DEF SearchInv, PathBlocked
<1>3. CASE ~Running.found
  BY <1>2, <1>3, ReturnBlocks
<1>4. CASE Running.found
  <2>1. blocked' = blocked \ Released(w)
    BY <1>4, ReturnBlocks
  <2>2. PICK S \in SUBSET V : /\ w \in S /\ ClosedUnderLists(S)
                              /\ \A j \in 1..(Depth - 1) : calls[j].vertex \notin S
    BY <1>1 DEF SearchInv, Apart
  <2>3. Released(w) \subseteq S
    BY <1>1, <2>2, ReleasedIsLeast
  <2>4. QED
    BY <1>2, <2>1, <2>2, <2>3
<1>5. QED
  BY <1>3, <1>4

LEMMA CalledVertex ==
  ASSUME SearchInv, Call
  PROVE  /\ Edge.vertex \in V /\ Edge.vertex # start.root /\ Edge.vertex \notin blocked
         /\ InReach(Edge, Running.vertex)
         /\ \A i \in 1..Depth : calls[i].vertex # Edge.vertex
<1>1. Edge.vertex \in V /\ ~Skipped /\ ~Closes
  BY TopCall DEF SearchInv, Call
<1>2. InReach(Edge, Running.vertex) /\ Edge.vertex \notin blocked /\ Edge.vertex # start.root
  BY <1>1 DEF Skipped, Closes
<1>3. QED
  BY <1>1, <1>2 DEF SearchInv, PathBlocked

LEMMA PathStep ==
  ASSUME SearchInv, [Next]_vars
  PROVE  PathInv'
<1>1. /\ Typed /\ PathInv /\ graph' = graph
      /\ Depth \in Nat
  BY InputUnchanged, StackShape DEF SearchInv
<1>2. CASE NextStart
  <2>1. Depth' = 1 /\ calls'[1].vertex = graph[start'.root][start'.entry].vertex
    BY <1>1, <1>2, NextStartStep, SMTT(30)
  <2>2. QED
    BY <1>1, <2>1 DEF PathInv
<1>3. CASE Close \/ Skip
  <2>1. /\ Depth' = Depth /\ start' = start /\ calls # <<>>
        /\ \A i \in 1..Depth : calls'[i].vertex = calls[i].vertex
        /\ \A i \in 1..(Depth - 1) : calls'[i] = calls[i]
        /\ Depth \in 1..Depth
    BY <1>1, <1>3, EdgeStep, TopCall DEF Close, Skip
  <2>2. /\ \A i \in 1..(Depth - 1) : i \in 1..Depth /\ i + 1 \in 1..Depth
        /\ 1 \in 1..Depth
    BY <1>1, <2>1
  <2>3. \A i \in 1..(Depth - 1) :
          /\ calls'[i].offset >= 2
          /\ graph[calls'[i].vertex][calls'[i].offset - 1].vertex = calls'[i + 1].vertex
          /\ InReach(graph[calls'[i].vertex][calls'[i].offset - 1], calls'[i].vertex)
    BY <1>1, <2>1, <2>2 DEF PathInv
  <2>4. /\ \A i, j \in 1..Depth : i # j => calls'[i].vertex # calls'[j].vertex
        /\ calls'[1].vertex = graph[start.root][start.entry].vertex
    BY <1>1, <2>1, <2>2 DEF PathInv
  <2>5. QED
    BY <1>1, <2>1, <2>3, <2>4 DEF PathInv, InReach
<1>4. CASE Call
  <2>1. /\ Depth' = Depth + 1 /\ start' = start /\ calls # <<>> /\ ~Exhausted
        /\ \A i \in 1..Depth : calls'[i].vertex = calls[i].vertex
        /\ \A i \in 1..(Depth - 1) : calls'[i] = calls[i]
        /\ calls'[Depth].offset = calls[Depth].offset + 1
        /\ calls'[Depth + 1].vertex = Edge.vertex
    BY <1>1, <1>4, CallStep DEF Call
  <2>2. /\ \A i \in 1..(Depth - 1) : i \in 1..Depth /\ i + 1 \in 1..Depth
        /\ Depth \in 1..Depth /\ 1 \in 1..Depth
        /\ calls[Depth].offset \in Nat \ {0}
        /\ Edge = graph[calls[Depth].vertex][calls[Depth].offset]
        /\ Running = calls[Depth]
    BY <1>1, <2>1, TopCall, SMTT(30)
  <2>3. /\ \A i \in 1..Depth : calls[i].vertex # Edge.vertex
        /\ InReach(Edge, calls[Depth].vertex)
    BY <1>4, <2>2, CalledVertex
  <2>4. /\ \A i, j \in 1..Depth : i # j => calls[i].vertex # calls[j].vertex
        /\ calls[1].vertex = graph[start.root][start.entry].vertex
        /\ \A i \in 1..(Depth - 1) :
             /\ calls[i].offset >= 2
             /\ graph[calls[i].vertex][calls[i].offset - 1].vertex = calls[i + 1].vertex
             /\ InReach(graph[calls[i].vertex][calls[i].offset - 1], calls[i].vertex)
    BY <1>1, <2>1 DEF PathInv
  <2>5. \A i \in 1..(Depth + 1) : i \in 1..Depth \/ i = Depth + 1
    BY <1>1
  <2>6. \A i, j \in 1..(Depth + 1) : i # j => calls'[i].vertex # calls'[j].vertex
    BY <2>1, <2>3, <2>4, <2>5
  <2>7. calls'[1].vertex = graph[start.root][start.entry].vertex
    BY <2>1, <2>2, <2>4
  <2>8. ASSUME NEW i \in 1..Depth
        PROVE  /\ calls'[i].offset >= 2
               /\ graph[calls'[i].vertex][calls'[i].offset - 1].vertex = calls'[i + 1].vertex
               /\ InReach(graph[calls'[i].vertex][calls'[i].offset - 1], calls'[i].vertex)
    <3>1. CASE i = Depth
      <4>1. /\ calls'[i].offset = calls[Depth].offset + 1
            /\ calls'[i].vertex = calls[Depth].vertex
            /\ calls'[i + 1].vertex = Edge.vertex
        BY <2>1, <2>2, <3>1
      <4>2. \A o \in Nat \ {0} : o + 1 >= 2 /\ (o + 1) - 1 = o
        OBVIOUS
      <4>3. calls'[i].offset >= 2 /\ calls'[i].offset - 1 = calls[Depth].offset
        BY <2>2, <4>1, <4>2
      <4>4. QED
        BY <2>2, <2>3, <4>1, <4>3
    <3>2. CASE i # Depth
      <4>1. i \in 1..(Depth - 1)
        BY <1>1, <3>2
      <4>2. calls'[i] = calls[i] /\ calls'[i + 1].vertex = calls[i + 1].vertex
        BY <1>1, <2>1, <2>2, <4>1
      <4>3. QED
        BY <2>4, <4>1, <4>2
    <3>3. QED
      BY <3>1, <3>2
  <2>9. (Depth + 1) - 1 = Depth
    BY <1>1
  <2>10. QED
    BY <1>1, <2>1, <2>6, <2>7, <2>8, <2>9 DEF PathInv, InReach
<1>5. CASE Return
  <2>1. /\ Depth' = Depth - 1 /\ start' = start /\ calls # <<>>
        /\ \A i \in 1..(Depth - 1) : /\ calls'[i].vertex = calls[i].vertex
                                     /\ calls'[i].offset = calls[i].offset
        /\ calls' \in Seq(Frames)
    BY <1>1, <1>5, ReturnStep DEF Return
  <2>2. /\ \A i \in 1..(Depth - 2) : i \in 1..(Depth - 1) /\ i + 1 \in 1..(Depth - 1)
        /\ \A i \in 1..(Depth - 1) : i \in 1..Depth
        /\ (Depth - 1) - 1 = Depth - 2
    BY <1>1
  <2>3. calls' # <<>> => 1 \in 1..(Depth - 1)
    BY <1>1, <2>1, EmptySeq DEF Depth
  <2>4. /\ \A i, j \in 1..(Depth - 1) : i # j => calls'[i].vertex # calls'[j].vertex
        /\ calls' # <<>> => calls'[1].vertex = graph[start.root][start.entry].vertex
    BY <1>1, <2>1, <2>2, <2>3 DEF PathInv
  <2>5. \A i \in 1..(Depth - 2) :
          /\ calls'[i].offset >= 2
          /\ graph[calls'[i].vertex][calls'[i].offset - 1].vertex = calls'[i + 1].vertex
          /\ InReach(graph[calls'[i].vertex][calls'[i].offset - 1], calls'[i].vertex)
    BY <1>1, <2>1, <2>2 DEF PathInv
  <2>6. QED
    BY <1>1, <2>1, <2>2, <2>4, <2>5 DEF PathInv, InReach
<1>6. CASE Report \/ UNCHANGED vars
  <2>1. calls' = calls /\ start' = start
    BY <1>6 DEF Report, vars
  <2>2. Depth' = Depth
    BY <2>1 DEF Depth
  <2>3. QED
    BY <1>1, <2>1, <2>2 DEF PathInv, InReach
<1>7. QED
  BY <1>2, <1>3, <1>4, <1>5, <1>6 DEF Next, Returned

LEMMA PathBlockedStep ==
  ASSUME SearchInv, [Next]_vars
  PROVE  PathBlocked'
<1>1. Typed /\ PathBlocked /\ Depth \in Nat
  BY StackShape DEF SearchInv
<1>2. CASE NextStart
  BY <1>1, <1>2, NextStartStep DEF PathBlocked
<1>3. CASE Close \/ Skip
  <2>1. /\ Depth' = Depth /\ blocked' = blocked /\ start' = start /\ calls # <<>>
        /\ \A i \in 1..Depth : calls'[i].vertex = calls[i].vertex
    BY <1>1, <1>3, EdgeStep DEF Close, Skip
  <2>2. QED
    BY <1>1, <2>1 DEF PathBlocked
<1>4. CASE Call
  <2>1. /\ Depth' = Depth + 1 /\ blocked' = blocked \cup {Edge.vertex}
        /\ start' = start /\ calls # <<>>
        /\ \A i \in 1..Depth : calls'[i].vertex = calls[i].vertex
        /\ calls'[Depth + 1].vertex = Edge.vertex
    BY <1>1, <1>4, CallStep DEF Call
  <2>2. \A i \in 1..(Depth + 1) : i \in 1..Depth \/ i = Depth + 1
    BY <1>1
  <2>3. Edge.vertex # start.root
    BY <1>4, CalledVertex
  <2>4. QED
    BY <1>1, <2>1, <2>2, <2>3 DEF PathBlocked
<1>5. CASE Return
  <2>1. /\ Depth' = Depth - 1 /\ start' = start /\ calls # <<>>
        /\ \A i \in 1..(Depth - 1) : calls'[i].vertex = calls[i].vertex
        /\ \A i \in 1..(Depth - 1) : calls[i].vertex \in blocked'
        /\ blocked' \subseteq blocked
    BY <1>1, <1>5, ReturnStep, LeaveKeepsPath DEF Return
  <2>2. QED
    BY <1>1, <2>1 DEF PathBlocked
<1>6. CASE Report \/ UNCHANGED vars
  <2>1. calls' = calls /\ blocked' = blocked /\ start' = start
    BY <1>6 DEF Report, vars
  <2>2. Depth' = Depth
    BY <2>1 DEF Depth
  <2>3. QED
    BY <1>1, <2>1, <2>2 DEF PathBlocked
<1>7. QED
  BY <1>2, <1>3, <1>4, <1>5, <1>6 DEF Next, Returned

LEMMA ListsStep ==
  ASSUME SearchInv, [Next]_vars
  PROVE  ListsOfBlocked'
<1>1. Typed /\ \A u \in V \ blocked : blockedLists[u] = {}
  BY DEF SearchInv, ListsOfBlocked
<1>2. CASE NextStart
  BY <1>2 DEF NextStart, ListsOfBlocked
<1>3. CASE Close \/ Skip \/ Call \/ Report \/ UNCHANGED vars
  <2>1. blocked \subseteq blocked' /\ blockedLists' = blockedLists
    BY <1>3 DEF Close, Skip, Call, Report, vars
  <2>2. QED
    BY <1>1, <2>1 DEF ListsOfBlocked
<1>4. CASE Return
  BY <1>1, <1>4, ReturnBlocks DEF ListsOfBlocked
<1>5. QED
  BY <1>2, <1>3, <1>4 DEF Next, Returned

LEMMA FruitlessStep ==
  ASSUME SearchInv, [Next]_vars
  PROVE  FruitlessEdges'
<1>1. /\ Typed /\ Depth \in Nat /\ graph' = graph
      /\ \A i \in 1..Depth : ~FoundFrom(i) => Consumed(calls[i]) \subseteq blocked
  BY StackShape, InputUnchanged DEF SearchInv, FruitlessEdges
<1>2. CASE NextStart
  <2>1. Depth' = 1 /\ calls'[1].offset = 1
    BY <1>1, <1>2, NextStartStep
  <2>2. \A i \in 1..Depth' : Consumed(calls[i])' = {}
    BY <2>1 DEF Consumed
  <2>3. QED
    BY <2>2 DEF FruitlessEdges
<1>3. CASE UNCHANGED vars \/ Report
  <2>1. calls' = calls /\ blocked' = blocked /\ start' = start
    BY <1>3 DEF Report, vars
  <2>2. Depth' = Depth
    BY <2>1 DEF Depth
  <2>3. QED
    BY <1>1, <2>1, <2>2 DEF FruitlessEdges, FoundFrom, Consumed, InReach
<1>4. CASE Close \/ Skip \/ Call \/ Return
  <2>1. start' = start
    BY <1>4 DEF Close, Skip, Call, Return
  <2>2. SUFFICES ASSUME NEW i \in 1..Depth', ~FoundFrom(i)'
                 PROVE  Consumed(calls'[i]) \subseteq blocked'
    BY <1>1, <2>1 DEF FruitlessEdges, Consumed, InReach
  <2>3. CASE Close \/ Skip
    <3>1. /\ Depth' = Depth /\ calls # <<>> /\ ~Exhausted /\ blocked' = blocked
          /\ \A k \in 1..Depth : calls'[k].vertex = calls[k].vertex
          /\ \A k \in 1..(Depth - 1) : calls'[k] = calls[k]
          /\ calls'[Depth].offset = calls[Depth].offset + 1
      BY <1>1, <2>3, EdgeStep DEF Close, Skip
    <3>2. i \in 1..Depth /\ ~FoundFrom(i) /\ ~Close
      BY <1>1, <2>2, <2>3, <3>1, FoundGrows
    <3>3. CASE i = Depth
      <4>1. \A u \in Consumed(calls'[i]) :
              u \in Consumed(calls[i]) \/ (u = Edge.vertex /\ InReach(Edge, Running.vertex))
        BY <1>1, <3>1, <3>2, <3>3, ConsumedOne
      <4>2. InReach(Edge, Running.vertex) => Edge.vertex \in blocked
        BY <2>3, <3>2 DEF Skip, Skipped, SearchInv
      <4>3. QED
        BY <1>1, <3>1, <3>2, <4>1, <4>2
    <3>4. CASE i # Depth
      <4>1. calls'[i] = calls[i]
        BY <1>1, <3>1, <3>2, <3>4
      <4>2. QED
        BY <1>1, <3>1, <3>2, <4>1
    <3>5. QED
      BY <3>3, <3>4
  <2>4. CASE Call
    <3>1. /\ Depth' = Depth + 1 /\ calls # <<>> /\ ~Exhausted
          /\ blocked' = blocked \cup {Edge.vertex}
          /\ \A k \in 1..Depth : calls'[k].vertex = calls[k].vertex
          /\ \A k \in 1..(Depth - 1) : calls'[k] = calls[k]
          /\ calls'[Depth].offset = calls[Depth].offset + 1
          /\ calls'[Depth + 1].offset = 1
      BY <1>1, <2>4, CallStep DEF Call
    <3>2. CASE i = Depth + 1
      <4>1. Consumed(calls'[i]) = {}
        BY <3>1, <3>2, ConsumedNone
      <4>2. QED
        BY <4>1
    <3>3. CASE i # Depth + 1
      <4>1. i \in 1..Depth /\ ~FoundFrom(i)
        BY <1>1, <2>2, <2>4, <3>1, <3>3, FoundGrows
      <4>2. CASE i = Depth
        <5>1. \A u \in Consumed(calls'[i]) : u \in Consumed(calls[i]) \/ u = Edge.vertex
          BY <1>1, <3>1, <4>1, <4>2, ConsumedOne
        <5>2. QED
          BY <1>1, <3>1, <4>1, <5>1
      <4>3. CASE i # Depth
        <5>1. calls'[i] = calls[i]
          BY <1>1, <3>1, <4>1, <4>3
        <5>2. QED
          BY <1>1, <3>1, <4>1, <5>1
      <4>4. QED
        BY <4>2, <4>3
    <3>4. QED
      BY <3>2, <3>3
  <2>5. CASE Return
    <3>1. /\ Depth' = Depth - 1 /\ calls # <<>>
          /\ \A k \in 1..(Depth - 1) : /\ calls'[k].vertex = calls[k].vertex
                                       /\ calls'[k].offset = calls[k].offset
      BY <1>1, <2>5, ReturnStep
    <3>2. i \in 1..(Depth - 1) /\ i \in 1..Depth
      BY <1>1, <3>1
    <3>3. ~FoundFrom(i)
      BY <1>1, <2>2, <2>5, <3>2, FoundGrows
    <3>4. Consumed(calls'[i]) = Consumed(calls[i])
      BY <3>1, <3>2, ConsumedSame
    <3>5. ~Running.found
      <4>1. Depth \in i..Depth /\ Running = calls[Depth]
        BY <1>1, <3>1, <3>2, TopCall
      <4>2. QED
        BY <3>3, <4>1 DEF FoundFrom
    <3>6. blocked' = blocked
      BY <2>5, <3>5, ReturnBlocks
    <3>7. QED
      BY <1>1, <3>2, <3>3, <3>4, <3>6
  <2>6. QED
    BY <1>4, <2>3, <2>4, <2>5
<1>5. QED
  BY <1>2, <1>3, <1>4 DEF Next, Returned

LEMMA ApartStep ==
  ASSUME SearchInv, [Next]_vars
  PROVE  \A i \in 1..Depth' : Apart(i)'
<1>1. /\ Typed /\ PathInv /\ PathBlocked /\ Depth \in Nat /\ ListsOfBlocked
      /\ blockedLists \in [V -> SUBSET V] /\ blocked \in SUBSET V
      /\ \A i \in 1..Depth : Apart(i)
      /\ \A v \in V : Reach(v) \in SUBSET V
  BY StackShape, GraphShape DEF SearchInv, Typed
<1>2. SUFFICES ASSUME NEW i \in 1..Depth'
               PROVE  \E S \in SUBSET V :
                        /\ calls'[i].vertex \in S
                        /\ \A u \in S : blockedLists'[u] \cap blocked' \subseteq S
                        /\ \A j \in 1..(i - 1) : calls'[j].vertex \notin S
  BY DEF Apart, ClosedUnderLists
<1>3. CASE NextStart
  <2>1. /\ Depth' = 1 /\ calls'[1].vertex \in V
        /\ \A u \in V : blockedLists'[u] = {}
    BY <1>1, <1>3, NextStartStep DEF NextStart
  <2>2. i = 1
    BY <2>1
  <2>3. QED
    BY <2>1, <2>2
<1>4. CASE Close \/ Skip \/ Report \/ UNCHANGED vars
  <2>1. /\ Depth' = Depth /\ blockedLists' = blockedLists /\ blocked' = blocked
        /\ \A k \in 1..Depth : calls'[k].vertex = calls[k].vertex
    <3>1. CASE Close \/ Skip
      BY <1>1, <3>1, EdgeStep DEF Close, Skip
    <3>2. CASE Report \/ UNCHANGED vars
      BY <3>2 DEF Report, vars, Depth
    <3>3. QED
      BY <1>4, <3>1, <3>2
  <2>2. PICK S \in SUBSET V : /\ calls[i].vertex \in S /\ ClosedUnderLists(S)
                              /\ \A j \in 1..(i - 1) : calls[j].vertex \notin S
    BY <1>1, <2>1 DEF Apart
  <2>3. i \in 1..Depth /\ \A j \in 1..(i - 1) : j \in 1..Depth
    BY <1>1, <2>1
  <2>4. QED
    BY <2>1, <2>2, <2>3 DEF ClosedUnderLists
<1>5. CASE Call
  <2>1. /\ Depth' = Depth + 1 /\ blockedLists' = blockedLists
        /\ blocked' = blocked \cup {Edge.vertex}
        /\ \A k \in 1..Depth : calls'[k].vertex = calls[k].vertex
        /\ calls'[Depth + 1].vertex = Edge.vertex
    BY <1>1, <1>5, CallStep DEF Call
  <2>2. /\ Edge.vertex \in V /\ blockedLists[Edge.vertex] = {}
        /\ \A k \in 1..Depth : calls[k].vertex # Edge.vertex
    BY <1>1, <1>5, CalledVertex DEF ListsOfBlocked
  <2>3. CASE i = Depth + 1
    <3>1. \A j \in 1..(i - 1) : j \in 1..Depth
      BY <1>1, <2>3
    <3>2. /\ {Edge.vertex} \in SUBSET V
          /\ calls'[i].vertex \in {Edge.vertex}
          /\ \A u \in {Edge.vertex} : blockedLists'[u] \cap blocked' \subseteq {Edge.vertex}
          /\ \A j \in 1..(i - 1) : calls'[j].vertex \notin {Edge.vertex}
      BY <2>1, <2>2, <2>3, <3>1
    <3>3. QED
      BY <3>2
  <2>4. CASE i # Depth + 1
    <3>1. i \in 1..Depth /\ \A j \in 1..(i - 1) : j \in 1..Depth
      BY <1>1, <2>1, <2>4
    <3>2. PICK S \in SUBSET V : /\ calls[i].vertex \in S /\ ClosedUnderLists(S)
                                /\ \A j \in 1..(i - 1) : calls[j].vertex \notin S
      BY <1>1, <3>1 DEF Apart
    <3> DEFINE T == S \cup {Edge.vertex}
    <3>3. T \in SUBSET V /\ calls'[i].vertex \in T
      BY <2>1, <2>2, <3>1, <3>2
    <3>4. \A u \in T : blockedLists'[u] \cap blocked' \subseteq T
      BY <2>1, <2>2, <3>2 DEF ClosedUnderLists
    <3>5. \A j \in 1..(i - 1) : calls'[j].vertex \notin T
      BY <2>1, <2>2, <3>1, <3>2
    <3>6. QED
      <4> HIDE DEF T
      <4> QED BY <3>3, <3>4, <3>5
  <2>5. QED
    BY <2>3, <2>4
<1>6. CASE Return
  <2>1. /\ Depth' = Depth - 1 /\ calls # <<>>
        /\ \A k \in 1..(Depth - 1) : calls'[k].vertex = calls[k].vertex
    BY <1>1, <1>6, ReturnStep
  <2>2. /\ i \in 1..(Depth - 1) /\ i \in 1..Depth /\ Depth \in 1..Depth
        /\ \A j \in 1..(i - 1) : j \in 1..(Depth - 1)
        /\ Running.vertex \in V /\ Running.vertex = calls[Depth].vertex
    BY <1>1, <2>1, TopCall DEF Running
  <2>3. PICK S \in SUBSET V : /\ calls[i].vertex \in S /\ ClosedUnderLists(S)
                              /\ \A j \in 1..(i - 1) : calls[j].vertex \notin S
    BY <1>1, <2>2 DEF Apart
  <2>4. CASE Running.found
    <3>1. blocked' \subseteq blocked /\ \A u \in V : blockedLists'[u] \subseteq blockedLists[u]
      BY <1>6, <2>4, ReturnBlocks
    <3>2. \A u \in S : blockedLists'[u] \cap blocked' \subseteq S
      BY <2>3, <3>1 DEF ClosedUnderLists
    <3>3. QED
      BY <2>1, <2>2, <2>3, <3>2
  <2>5. CASE ~Running.found
    <3>1. PICK R \in SUBSET V : /\ calls[Depth].vertex \in R /\ ClosedUnderLists(R)
                                /\ \A j \in 1..(Depth - 1) : calls[j].vertex \notin R
      BY <1>1, <2>2 DEF Apart
    <3> DEFINE T == S \cup R
    <3>2. T \in SUBSET V /\ calls'[i].vertex \in T
      BY <2>1, <2>2, <2>3, <3>1
    <3>3. \A u \in T : blockedLists'[u] \cap blocked' \subseteq T
      <4>1. /\ blocked' = blocked
            /\ \A u \in V : blockedLists'[u] \subseteq blockedLists[u] \cup {calls[Depth].vertex}
        BY <1>6, <2>2, <2>5, ReturnBlocks
      <4>2. QED
        BY <2>3, <3>1, <4>1 DEF ClosedUnderLists
    <3>4. \A j \in 1..(i - 1) : calls'[j].vertex \notin T
      BY <2>1, <2>2, <2>3, <3>1
    <3>5. QED
      <4> HIDE DEF T
      <4> QED BY <3>2, <3>3, <3>4
  <2>6. QED
    BY <2>4, <2>5
<1>7. QED
  BY <1>3, <1>4, <1>5, <1>6 DEF Next, Returned

LEMMA WaitingStep ==
  ASSUME SearchInv, [Next]_vars, calls' # <<>>,
         NEW v \in blocked', ~OnPath(v)'
  PROVE  Waiting(v)'
<1>1. /\ Typed /\ PathInv /\ Depth \in Nat /\ graph' = graph
      /\ calls # <<>> => \A x \in blocked : ~OnPath(x) => Waiting(x)
      /\ \A x \in V : Reach(x) \in SUBSET V
      /\ blocked \in SUBSET V
  BY StackShape, GraphShape, InputUnchanged DEF SearchInv, Typed
<1>2. \A i \in 1..Depth' : calls'[i].vertex # v
  BY DEF OnPath
<1>3. calls # <<>> =>
        (Waiting(v)' <=> /\ start.root \notin Reach(v)
                         /\ \A u \in Reach(v) : v \in blockedLists'[u])
  BY ReachUnchanged DEF Waiting
<1>4. CASE NextStart
  <2>1. Depth' = 1 /\ blocked' = {calls'[1].vertex}
    BY <1>1, <1>4, NextStartStep DEF NextStart
  <2>2. QED
    BY <1>2, <2>1
<1>5. CASE Close \/ Skip \/ Call
  <2>1. /\ calls # <<>> /\ start' = start /\ blockedLists' = blockedLists
    BY <1>5 DEF Close, Skip, Call
  <2>2. v \in blocked /\ ~OnPath(v)
    <3>1. CASE Close \/ Skip
      <4>1. Depth' = Depth /\ \A k \in 1..Depth : calls'[k].vertex = calls[k].vertex
        BY <1>1, <3>1, EdgeStep
      <4>2. blocked' = blocked
        BY <3>1 DEF Close, Skip
      <4>3. QED
        BY <1>2, <4>1, <4>2 DEF OnPath
    <3>2. CASE Call
      <4>1. /\ Depth' = Depth + 1 /\ calls'[Depth + 1].vertex = Edge.vertex
            /\ \A k \in 1..Depth : calls'[k].vertex = calls[k].vertex
        BY <1>1, <3>2, CallStep
      <4>2. blocked' = blocked \cup {Edge.vertex}
        BY <3>2 DEF Call
      <4>3. Depth + 1 \in 1..(Depth + 1) /\ \A k \in 1..Depth : k \in 1..(Depth + 1)
        BY <1>1
      <4>4. v # Edge.vertex /\ \A k \in 1..Depth : calls[k].vertex # v
        BY <1>2, <4>1, <4>3
      <4>5. QED
        BY <4>2, <4>4 DEF OnPath
    <3>3. QED
      BY <1>5, <3>1, <3>2
  <2>3. Waiting(v)
    BY <1>1, <2>1, <2>2
  <2>4. QED
    BY <1>3, <2>1, <2>3 DEF Waiting
<1>6. CASE Return
  <2>1. /\ Depth' = Depth - 1 /\ calls # <<>> /\ start' = start
        /\ \A k \in 1..(Depth - 1) : calls'[k].vertex = calls[k].vertex
        /\ calls' \in Seq(Frames)
    BY <1>1, <1>6, ReturnStep DEF Return
  <2>2. /\ Running.vertex \in V /\ Running.vertex = calls[Depth].vertex
        /\ Depth > 1
    BY <1>1, <2>1, TopCall, EmptySeq DEF Running, Depth
  <2>3. v \in blocked
    BY <1>6, ReturnBlocks
  <2>4. v = Running.vertex \/ ~OnPath(v)
    <3>1. \A k \in 1..Depth : k = Depth \/ k \in 1..(Depth - 1)
      BY <1>1
    <3>2. QED
      BY <1>2, <2>1, <2>2, <3>1 DEF OnPath
  <2>5. CASE Running.found
    <3>1. /\ blocked' = blocked \ Released(Running.vertex)
          /\ \A u \in V : blockedLists'[u] = IF u \in Released(Running.vertex) THEN {}
                                             ELSE blockedLists[u]
      BY <1>6, <2>5, ReturnBlocks
    <3>2. Running.vertex \in Released(Running.vertex) /\ ClosedUnderLists(Released(Running.vertex))
      BY <1>1, <2>2, ReleasedIsLeast
    <3>3. v \notin Released(Running.vertex) /\ Waiting(v)
      BY <1>1, <2>1, <2>3, <2>4, <3>1, <3>2
    <3>4. ASSUME NEW u \in Reach(v)
          PROVE  v \in blockedLists'[u]
      <4>1. v \in blockedLists[u] /\ u \in V
        BY <1>1, <2>3, <3>3, <3>4 DEF Waiting
      <4>2. u \notin Released(Running.vertex)
        BY <2>3, <3>2, <3>3, <4>1 DEF ClosedUnderLists
      <4>3. QED
        BY <3>1, <4>1, <4>2
    <3>5. QED
      BY <1>3, <2>1, <3>3, <3>4 DEF Waiting
  <2>6. CASE ~Running.found
    <3>1. /\ \A u \in V : blockedLists'[u] =
               IF u \in Reach(Running.vertex)
               THEN blockedLists[u] \cup {Running.vertex} ELSE blockedLists[u]
          /\ start.root \notin Reach(Running.vertex)
      BY <1>6, <2>2, <2>6, ReturnBlocks
    <3>2. CASE v = Running.vertex
      BY <1>1, <1>3, <2>1, <2>2, <3>1, <3>2
    <3>3. CASE v # Running.vertex
      <4>1. Waiting(v)
        BY <1>1, <2>1, <2>3, <2>4, <3>3
      <4>2. \A u \in V : blockedLists[u] \subseteq blockedLists'[u]
        BY <3>1
      <4>3. QED
        BY <1>1, <1>3, <2>1, <2>3, <4>1, <4>2 DEF Waiting
    <3>4. QED
      BY <3>2, <3>3
  <2>7. QED
    BY <2>5, <2>6
<1>7. CASE Report \/ UNCHANGED vars
  <2>1. calls' = calls /\ blocked' = blocked /\ blockedLists' = blockedLists /\ start' = start
    BY <1>7 DEF Report, vars
  <2>2. Depth' = Depth
    BY <2>1 DEF Depth
  <2>3. ~OnPath(v) /\ v \in blocked /\ calls # <<>>
    BY <1>2, <2>1, <2>2 DEF OnPath
  <2>4. QED
    BY <1>1, <1>3, <2>1, <2>3 DEF Waiting
<1>8. QED
  BY <1>4, <1>5, <1>6, <1>7 DEF Next, Returned

LEMMA SearchStep == SearchInv /\ [Next]_vars => SearchInv'
<1> SUFFICES ASSUME SearchInv, [Next]_vars
             PROVE  SearchInv'
  OBVIOUS
<1>1. Typed' /\ PathInv' /\ PathBlocked' /\ ListsOfBlocked' /\ FruitlessEdges'
  BY TypedStep, PathStep, PathBlockedStep, ListsStep, FruitlessStep DEF SearchInv
<1>2. bound' = Unbounded
  BY InputUnchanged DEF SearchInv
<1>3. (\A i \in 1..Depth : Apart(i))'
  BY ApartStep
<1>4. (calls # <<>> => \A v \in blocked : ~OnPath(v) => Waiting(v))'
  BY WaitingStep
<1>5. QED
  BY <1>1, <1>2, <1>3, <1>4 DEF SearchInv

LEMMA SearchInit == Init /\ bound = Unbounded => SearchInv
<1> SUFFICES ASSUME Init, bound = Unbounded
             PROVE  SearchInv
  OBVIOUS
<1>1. /\ Typed /\ calls = <<>> /\ Depth = 0
      /\ \A u \in V : blockedLists[u] = {}
  BY TypedInit DEF Init, Depth
<1>2. QED
  BY <1>1 DEF SearchInv, PathInv, PathBlocked, ListsOfBlocked, FruitlessEdges

LEMMA SearchAlways == Spec => [](bound = Unbounded => SearchInv)
<1>1. Init => (bound = Unbounded => SearchInv)
  BY SearchInit
<1>2. (bound = Unbounded => SearchInv) /\ [Next]_vars => (bound = Unbounded => SearchInv)'
  BY SearchStep, InputUnchanged
<1>3. QED
  BY <1>1, <1>2, PTL DEF Spec

-----------------------------------------------------------------------------
(***************************************************************************)
(* The theorems on the search.                                             *)
(***************************************************************************)
\* The path is simple, with the root, which no flag marks.
LEMMA PathIsSimple ==
  ASSUME SearchInv, calls # <<>>
  PROVE  /\ Depth \in Nat
         /\ \A i \in 1..(Depth + 1) : Path[i] \in V
         /\ \A i, j \in 1..(Depth + 1) : i # j => Path[i] # Path[j]
<1>1. /\ Depth \in Nat /\ Path[1] = start.root /\ start.root \in V
      /\ \A i \in 2..(Depth + 1) : Path[i] = calls[i - 1].vertex
      /\ \A i \in 1..Depth : calls[i].vertex \in V
  BY StackShape, PathShape, TopCall DEF SearchInv
<1>2. /\ \A i \in 1..Depth : calls[i].vertex \in blocked
      /\ start.root \notin blocked
      /\ \A i, j \in 1..Depth : i # j => calls[i].vertex # calls[j].vertex
  BY DEF SearchInv, PathBlocked, PathInv
<1>3. \A i \in 1..(Depth + 1) : i = 1 \/ (i \in 2..(Depth + 1) /\ i - 1 \in 1..Depth)
  BY <1>1
<1>4. \A i \in 1..(Depth + 1) : Path[i] \in V
  BY <1>1, <1>3
<1>5. ASSUME NEW i \in 2..(Depth + 1), NEW j \in 1..(Depth + 1), i # j
      PROVE  Path[i] # Path[j]
  <2>1. Path[i] = calls[i - 1].vertex /\ i - 1 \in 1..Depth
    BY <1>1
  <2>2. CASE j = 1
    BY <1>1, <1>2, <2>1, <2>2
  <2>3. CASE j # 1
    <3>1. Path[j] = calls[j - 1].vertex /\ j - 1 \in 1..Depth /\ i - 1 # j - 1
      BY <1>1, <1>5, <2>3
    <3>2. QED
      BY <1>2, <2>1, <3>1
  <2>4. QED
    BY <2>2, <2>3
<1>6. QED
  BY <1>1, <1>3, <1>4, <1>5

\* Without a length bound no walk visits a vertex twice, for any graph and any
\* width: unblock() never clears the flag of a vertex on the path.
THEOREM WindowPathIsSimple == Spec => []WindowPathSimple
<1>1. (bound = Unbounded => SearchInv) => WindowPathSimple
  <2> SUFFICES ASSUME SearchInv, calls # <<>>
               PROVE  /\ \A i \in 1..Len(calls) : calls[i].vertex \in blocked
                      /\ \A i, j \in 1..Len(Path) : i # j => Path[i] # Path[j]
    BY DEF WindowPathSimple
  <2>1. Len(Path) = Depth + 1
    BY PathShape DEF SearchInv
  <2>2. \A i \in 1..Depth : calls[i].vertex \in blocked
    BY DEF SearchInv, PathBlocked
  <2>3. QED
    BY <2>1, <2>2, PathIsSimple DEF Depth
<1>2. QED
  BY <1>1, SearchAlways, PTL

\* Without a length bound a blocked vertex off the path cannot reach the root,
\* within the window and past the path: skipping it loses no cycle.
THEOREM WindowBlockingSound == Spec => []WindowBlockedIsHopeless
<1>1. (bound = Unbounded => SearchInv) => WindowBlockedIsHopeless
  <2> SUFFICES ASSUME SearchInv, calls # <<>>
               PROVE  blocked \cap Hopeful = {}
    BY DEF WindowBlockedIsHopeless
  <2> DEFINE S == {v \in V : v \notin blocked}
  <2>1. Typed
    BY DEF SearchInv
  <2>2. ASSUME NEW v \in V, \A i \in 1..Len(Path) : v # Path[i],
               start.root \in Reach(v) \/ Reach(v) \cap S # {}
        PROVE  v \in S
    <3>1. ~OnPath(v)
      <4>1. \A i \in 1..Depth : i + 1 \in 1..Len(Path) /\ Path[i + 1] = calls[i].vertex
        BY <2>1, StackShape, PathShape
      <4>2. QED
        BY <2>2, <4>1 DEF OnPath
    <3>2. ASSUME v \in blocked
          PROVE  FALSE
      <4>1. Waiting(v)
        BY <3>1, <3>2 DEF SearchInv
      <4>2. PICK u \in Reach(v) : u \in V /\ u \notin blocked
        BY <2>2, <4>1 DEF Waiting
      <4>3. blockedLists[u] = {}
        BY <4>2 DEF SearchInv, ListsOfBlocked
      <4>4. QED
        BY <4>1, <4>2, <4>3 DEF Waiting
    <3>3. QED
      BY <3>2
  <2>3. Hopeful \subseteq S
    <3>1. S \in SUBSET V
      OBVIOUS
    <3> HIDE DEF S
    <3>2. QED
      BY <2>1, <2>2, <3>1, HopefulWithin
  <2>4. QED
    BY <2>3
<1>2. QED
  BY <1>1, SearchAlways, PTL

-----------------------------------------------------------------------------
(***************************************************************************)
(* The cycles within the window, and the path.                             *)
(***************************************************************************)
LEMMA PlainShape ==
  ASSUME Typed
  PROVE  /\ Plain \in Adjacencies(V) /\ V \in SUBSET Int
         /\ \A v \in V : /\ Len(Plain[v]) = Len(graph[v])
                         /\ \A e \in 1..Len(graph[v]) : Plain[v][e] = graph[v][e].vertex
<1>1. \A v \in V : /\ Len(graph[v]) \in Nat
                   /\ \A e \in 1..Len(graph[v]) : graph[v][e].vertex \in V
  BY GraphShape
<1>2. ASSUME NEW v \in V
      PROVE  /\ Plain[v] \in Seq(V) /\ Len(Plain[v]) = Len(graph[v])
             /\ \A e \in 1..Len(graph[v]) : Plain[v][e] = graph[v][e].vertex
  <2> DEFINE n == Len(graph[v])
             names == [e \in 1..n |-> graph[v][e].vertex]
  <2>1. Plain[v] = names
    BY DEF Plain
  <2>2. n \in Nat /\ names \in [1..n -> V]
    BY <1>1
  <2>3. names \in Seq(V) /\ Len(names) = n
    <3> HIDE DEF names, n
    <3> QED BY <2>2, LenOfFunction, SeqDef
  <2>4. \A e \in 1..n : names[e] = graph[v][e].vertex
    OBVIOUS
  <2>5. QED
    BY <2>1, <2>3, <2>4
<1>3. Plain \in [V -> Seq(V)]
  BY <1>2 DEF Plain
<1>4. \A v \in V : \A i, j \in 1..Len(Plain[v]) : i < j => Plain[v][i] < Plain[v][j]
  <2> SUFFICES ASSUME NEW v \in V, NEW i \in 1..Len(Plain[v]), NEW j \in 1..Len(Plain[v]), i < j
               PROVE  Plain[v][i] < Plain[v][j]
    OBVIOUS
  <2>1. i \in 1..Len(graph[v]) /\ j \in 1..Len(graph[v]) /\ i \in 1..(j - 1)
    BY <1>1, <1>2
  <2>2. graph[v][i].vertex < graph[v][j].vertex
    BY <2>1 DEF Typed, IsView
  <2>3. QED
    BY <1>2, <2>1, <2>2
<1>5. QED
  BY <1>2, <1>3, <1>4, VertexType DEF Adjacencies

LEMMA CycleOf ==
  ASSUME Typed, NEW x \in cycles
  PROVE  /\ x = <<x[1], x[2]>> /\ x[1] \in Starts(graph)
         /\ Len(x[2]) \in 2..MaxLength /\ Len(x[2]) \in Nat
         /\ x[2] \in [1..Len(x[2]) -> V]
         /\ \A i \in 1..Len(x[2]) : x[2][i] \in V
         /\ \A i, j \in 1..Len(x[2]) : i # j => x[2][i] # x[2][j]
         /\ x[2][1] = x[1].root
         /\ x[2][2] = graph[x[1].root][x[1].entry].vertex
         /\ InWindow(graph, Width, x[1], x[2])
<1>1. x \in WindowCycles(graph, Width, MaxLength) /\ DOMAIN graph = V /\ MaxLength \in Nat
  BY DEF Typed, IsView, MaxLength
<1> DEFINE Closed(s) == {c \in UNION {[1..n -> V] : n \in 2..MaxLength} :
                           /\ c[1] = s.root /\ c[2] = graph[s.root][s.entry].vertex
                           /\ \A i, j \in 1..Len(c) : i # j => c[i] # c[j]
                           /\ InWindow(graph, Width, s, c)}
<1>2. WindowCycles(graph, Width, MaxLength) = UNION {{<<s, c>> : c \in Closed(s)} : s \in Starts(graph)}
  BY <1>1 DEF WindowCycles
<1>3. PICK s \in Starts(graph) : \E c \in Closed(s) : x = <<s, c>>
  <2> HIDE DEF Closed
  <2> QED BY <1>1, <1>2
<1>4. PICK c \in Closed(s) : x = <<s, c>>
  BY <1>3
<1>5. x[1] = s /\ x[2] = c
  BY <1>4
<1>6. PICK n \in 2..MaxLength : c \in [1..n -> V]
  BY <1>4
<1>7. Len(c) = n /\ n \in Nat
  <2>1. n \in Nat
    BY <1>1, <1>6
  <2>2. QED
    BY <1>6, <2>1, LenOfFunction
<1>8. /\ Len(c) \in 2..MaxLength /\ Len(c) \in Nat /\ c \in [1..Len(c) -> V]
  BY <1>6, <1>7
<1>9. /\ c[1] = s.root /\ c[2] = graph[s.root][s.entry].vertex
      /\ \A i, j \in 1..Len(c) : i # j => c[i] # c[j]
      /\ InWindow(graph, Width, s, c)
  BY <1>4
<1> HIDE DEF Closed
<1>10. \A i \in 1..Len(c) : c[i] \in V
  BY <1>8
<1>11. QED
  BY <1>4, <1>5, <1>8, <1>9, <1>10

\* A cycle within the window is a walk, on edges within the reach of its start.
LEMMA CycleReaches ==
  ASSUME Typed, NEW x \in cycles
  PROVE  /\ IsWalk(Plain, x[2])
         /\ x[1] = start => \A k \in 2..Len(x[2]) : Successor(x[2], k) \in Reach(x[2][k])
<1> DEFINE c == x[2]
           s == x[1]
<1>1. /\ Len(c) \in 2..MaxLength /\ Len(c) \in Nat
      /\ \A i \in 1..Len(c) : c[i] \in V
      /\ c[1] = s.root /\ c[2] = graph[s.root][s.entry].vertex
      /\ InWindow(graph, Width, s, c) /\ s \in Starts(graph)
  BY CycleOf
<1>2. /\ s.root \in V /\ s.entry \in 1..Len(graph[s.root]) /\ MaxLength \in Nat
  BY <1>1, StartShape DEF Typed, MaxLength
<1> HIDE DEF c, s
<1>3. ASSUME NEW k \in 2..Len(c)
      PROVE  \E e \in 1..Len(graph[c[k]]) :
               /\ graph[c[k]][e].vertex = Successor(c, k)
               /\ HasTimestamp(graph[c[k]][e], c[k], s.root, StartTime(graph, s), Width)
  BY <1>1 DEF InWindow, Successor
<1>4. ASSUME NEW k \in 1..Len(c)
      PROVE  Successor(c, k) \in Neighbours(Plain, c[k])
  <2>1. PICK e \in 1..Len(graph[c[k]]) : graph[c[k]][e].vertex = Successor(c, k)
    <3>1. CASE k = 1
      <4>1. Successor(c, k) = c[2]
        BY <1>1, <1>2, <3>1 DEF Successor
      <4>2. QED
        BY <1>1, <1>2, <3>1, <4>1
    <3>2. CASE k # 1
      BY <1>3, <3>2, SMTT(30)
    <3>3. QED
      BY <3>1, <3>2
  <2>2. Len(Plain[c[k]]) = Len(graph[c[k]]) /\ Plain[c[k]][e] = graph[c[k]][e].vertex
    BY <1>1, <2>1, PlainShape, SMTT(30)
  <2>3. QED
    BY <2>1, <2>2 DEF Neighbours
<1>5. IsWalk(Plain, c)
  BY <1>1, <1>4 DEF IsWalk
<1>6. ASSUME s = start, NEW k \in 2..Len(c)
      PROVE  Successor(c, k) \in Reach(c[k])
  BY <1>3, <1>6 DEF Reach, InReach
<1>7. QED
  BY <1>5, <1>6 DEF c, s

\* The stack is the root's frame and the frames of the calls.
LEMMA StackOf ==
  ASSUME Typed
  PROVE  /\ Depth \in Nat
         /\ Stack[1].vertex = start.root
         /\ \A i \in 1..Depth : Stack[i + 1] = calls[i]
         /\ \A i \in 2..(Depth + 1) : Stack[i] = calls[i - 1] /\ i - 1 \in 1..Depth
         /\ \A i \in 1..(Depth + 1) : Stack[i].vertex = Path[i]
<1>1. /\ Depth \in Nat /\ Path[1] = start.root
      /\ \A i \in 2..(Depth + 1) : Path[i] = calls[i - 1].vertex
  BY StackShape, PathShape
<1>2. \A i \in 1..(Depth + 1) :
        Stack[i] = IF i = 1 THEN [vertex |-> start.root, offset |-> Len(graph[start.root]) + 1]
                            ELSE calls[i - 1]
  BY DEF Stack
<1>3. /\ \A i \in 1..Depth : i + 1 \in 1..(Depth + 1) /\ i + 1 # 1 /\ (i + 1) - 1 = i
      /\ \A i \in 2..(Depth + 1) : i \in 1..(Depth + 1) /\ i # 1 /\ i - 1 \in 1..Depth
      /\ 1 \in 1..(Depth + 1)
      /\ \A i \in 1..(Depth + 1) : i = 1 \/ i \in 2..(Depth + 1)
  BY <1>1
<1>4. Stack[1].vertex = start.root
  BY <1>2, <1>3
<1>5. \A i \in 1..Depth : Stack[i + 1] = calls[i]
  <2> SUFFICES ASSUME NEW i \in 1..Depth
               PROVE  Stack[i + 1] = calls[i]
    OBVIOUS
  <2>1. Stack[i + 1] = calls[(i + 1) - 1] /\ (i + 1) - 1 = i
    BY <1>2, <1>3
  <2>2. QED
    BY <2>1
<1>6. \A i \in 2..(Depth + 1) : Stack[i] = calls[i - 1] /\ i - 1 \in 1..Depth
  BY <1>2, <1>3
<1>7. \A i \in 1..(Depth + 1) : Stack[i].vertex = Path[i]
  BY <1>1, <1>3, <1>4, <1>6
<1>8. QED
  BY <1>1, <1>4, <1>5, <1>6, <1>7

\* What the lemmas of CycleFacts ask of this search.
LEMMA SearchFacts ==
  ASSUME SearchInv
  PROVE  IsSearch(V, Plain, Stack, 2, Depth + 1)
<1>1. Typed /\ PathInv /\ Depth \in Nat
  BY StackShape DEF SearchInv
<1>2. ASSUME NEW k \in 2..(Depth + 1)
      PROVE  /\ Stack[k].vertex \in V
             /\ Stack[k].offset \in 1..(Len(Plain[Stack[k].vertex]) + 1)
  <2>1. Stack[k] = calls[k - 1] /\ k - 1 \in 1..Depth
    BY <1>1, StackOf
  <2>2. calls[k - 1].vertex \in V /\ calls[k - 1].offset \in 1..(Len(graph[calls[k - 1].vertex]) + 1)
    BY <1>1, <2>1, StackShape
  <2>3. QED
    BY <1>1, <2>1, <2>2, PlainShape
<1>3. ASSUME NEW k \in 2..Depth
      PROVE  /\ Stack[k].offset >= 2
             /\ Plain[Stack[k].vertex][Stack[k].offset - 1] = Stack[k + 1].vertex
  <2> DEFINE i == k - 1
             o == calls[i].offset
             v == calls[i].vertex
  <2>1. k \in 2..(Depth + 1) /\ k \in 1..Depth /\ i \in 1..(Depth - 1) /\ i \in 1..Depth /\ i + 1 = k
    BY <1>1
  <2>2. Stack[k] = calls[i] /\ Stack[k + 1] = calls[k]
    BY <1>1, <2>1, StackOf
  <2>3. calls[i].offset >= 2 /\ graph[calls[i].vertex][calls[i].offset - 1].vertex = calls[i + 1].vertex
    BY <1>1, <2>1 DEF PathInv
  <2>4. v \in V /\ o \in 1..(Len(graph[v]) + 1) /\ o >= 2 /\ Len(graph[v]) \in Nat
    BY <1>1, <2>1, <2>3, StackShape, GraphShape
  <2>5. graph[v][o - 1].vertex = calls[k].vertex
    BY <2>1, <2>3
  <2>6. Stack[k].offset = o /\ Stack[k].vertex = v
    BY <2>2
  <2> HIDE DEF i, o, v
  <2>7. o - 1 \in 1..Len(graph[v])
    BY <2>4
  <2>8. Plain[v][o - 1] = graph[v][o - 1].vertex
    BY <1>1, <2>4, <2>7, PlainShape
  <2>9. QED
    BY <2>2, <2>4, <2>5, <2>6, <2>8
<1>4. (Depth + 1) - 1 = Depth
  BY <1>1
<1>5. QED
  BY <1>2, <1>3, <1>4 DEF IsSearch

\* The cycle goes on from the path by the edge the running call looks at.
TakesEdge(x) ==
  /\ x[1] = start
  /\ Follows(Stack, Depth + 1, x[2])
  /\ Successor(x[2], Depth + 1) = Edge.vertex

\* A cycle that follows the path goes on past it or ends with it.
LEMMA FollowsPath ==
  ASSUME SearchInv, calls # <<>>, NEW x \in cycles, x[1] = start, Follows(Stack, Depth + 1, x[2])
  PROVE  /\ Depth + 1 \in 2..Len(x[2])
         /\ \A i \in 1..(Depth + 1) : x[2][i] = Path[i]
         /\ x[2][1] = start.root /\ x[2][Depth + 1] = Running.vertex
         /\ Depth + 1 < Len(x[2]) =>
              /\ Successor(x[2], Depth + 1) = x[2][Depth + 2] /\ Depth + 2 \in 2..Len(x[2])
              /\ x[2][Depth + 2] # start.root
         /\ Depth + 1 = Len(x[2]) => Successor(x[2], Depth + 1) = start.root
         /\ Successor(x[2], Depth + 1) \in Reach(Running.vertex)
<1> DEFINE c == x[2]
<1>1. /\ Typed /\ Depth \in Nat \ {0} /\ Running = calls[Depth] /\ Depth \in 1..Depth
  BY TopCall DEF SearchInv
<1>2. /\ Len(c) \in Nat /\ c[1] = start.root
      /\ \A i, j \in 1..Len(c) : i # j => c[i] # c[j]
      /\ \A k \in 2..Len(c) : Successor(c, k) \in Reach(c[k])
  BY <1>1, CycleOf, CycleReaches
<1>3. Depth + 1 <= Len(c) /\ \A i \in 1..(Depth + 1) : c[i] = Stack[i].vertex
  BY DEF Follows
<1> HIDE DEF c
<1>4. /\ Depth + 1 \in 2..Len(c) /\ Depth + 1 \in 1..(Depth + 1) /\ 1 \in 1..Len(c)
      /\ (Depth + 1) + 1 = Depth + 2
  BY <1>1, <1>2, <1>3
<1>5. \A i \in 1..(Depth + 1) : c[i] = Path[i]
  BY <1>1, <1>3, StackOf
<1>6. c[Depth + 1] = Running.vertex
  BY <1>1, <1>4, <1>5, PathShape
<1>7. ASSUME Depth + 1 < Len(c)
      PROVE  /\ Successor(c, Depth + 1) = c[Depth + 2] /\ Depth + 2 \in 2..Len(c)
             /\ c[Depth + 2] # start.root
  <2>1. Depth + 2 \in 2..Len(c) /\ Depth + 2 \in 1..Len(c) /\ Depth + 2 # 1 /\ Depth + 1 # Len(c)
    BY <1>1, <1>2, <1>7
  <2>2. QED
    BY <1>2, <1>4, <2>1 DEF Successor
<1>8. Depth + 1 = Len(c) => Successor(c, Depth + 1) = start.root
  BY <1>2 DEF Successor
<1>9. Successor(c, Depth + 1) \in Reach(Running.vertex)
  BY <1>2, <1>4, <1>6
<1>10. QED
  BY <1>2, <1>4, <1>5, <1>6, <1>7, <1>8, <1>9 DEF c

\* A cycle that goes on from the path to a blocked vertex would be blocked to
\* its end, from where the root is in reach.
LEMMA NoCycleThroughBlocked ==
  ASSUME SearchInv, calls # <<>>, NEW x \in cycles, x[1] = start,
         Follows(Stack, Depth + 1, x[2]), Depth + 1 < Len(x[2])
  PROVE  x[2][Depth + 2] \notin blocked
<1> DEFINE c == x[2]
<1>1. /\ Typed /\ Depth \in Nat \ {0} /\ ListsOfBlocked
      /\ \A v \in blocked : ~OnPath(v) => Waiting(v)
  BY TopCall DEF SearchInv
<1>2. /\ Len(c) \in Nat /\ c[1] = start.root
      /\ \A i \in 1..Len(c) : c[i] \in V
      /\ \A i, j \in 1..Len(c) : i # j => c[i] # c[j]
      /\ \A k \in 2..Len(c) : Successor(c, k) \in Reach(c[k])
      /\ \A i \in 1..(Depth + 1) : c[i] = Path[i]
      /\ Depth + 1 < Len(c)
  BY <1>1, CycleOf, CycleReaches, FollowsPath
<1> HIDE DEF c
<1>3. \A k \in (Depth + 2)..Len(c) : k \in 2..Len(c) /\ k \in 1..Len(c) /\ ~OnPath(c[k])
  <2>1. \A k \in (Depth + 2)..Len(c) : k \in 2..Len(c) /\ k \in 1..Len(c)
    BY <1>1, <1>2
  <2>2. ASSUME NEW k \in (Depth + 2)..Len(c), NEW i \in 1..Depth
        PROVE  c[k] # calls[i].vertex
    <3>1. /\ k \in 1..Len(c) /\ i + 1 \in 1..Len(c) /\ i + 1 # k /\ i + 1 \in 1..(Depth + 1)
      BY <1>1, <1>2
    <3>2. c[i + 1] = calls[i].vertex
      BY <1>1, <1>2, <3>1, PathShape
    <3>3. QED
      BY <1>2, <3>1, <3>2
  <2>3. QED
    BY <2>1, <2>2 DEF OnPath
<1>4. SUFFICES ASSUME c[Depth + 2] \in blocked
               PROVE  FALSE
  BY DEF c
<1> DEFINE Blocked == {n \in Nat : Depth + 2 + n <= Len(c) => c[Depth + 2 + n] \in blocked}
<1>5. 0 \in Blocked
  BY <1>1, <1>4
<1>6. ASSUME NEW n \in Nat, n \in Blocked
      PROVE  n + 1 \in Blocked
  <2> DEFINE k == Depth + 2 + n
  <2>1. SUFFICES ASSUME k + 1 <= Len(c)
                 PROVE  c[k + 1] \in blocked
    <3>1. Depth + 2 + (n + 1) = k + 1
      BY <1>1
    <3>2. QED
      BY <3>1
  <2>2. k \in (Depth + 2)..Len(c) /\ k + 1 \in (Depth + 2)..Len(c) /\ k # Len(c) /\ k <= Len(c)
    BY <1>1, <1>2, <2>1
  <2>3. c[k] \in blocked
    BY <1>6, <2>2
  <2> HIDE DEF k
  <2>4. Waiting(c[k])
    BY <1>1, <1>3, <2>2, <2>3
  <2>5. c[k + 1] \in Reach(c[k])
    BY <1>2, <1>3, <2>2 DEF Successor
  <2>6. c[k + 1] \in V
    BY <1>2, <1>3, <2>2
  <2>7. c[k] \in blockedLists[c[k + 1]]
    BY <2>4, <2>5 DEF Waiting
  <2>8. QED
    BY <1>1, <2>6, <2>7 DEF ListsOfBlocked
<1>7. \A n \in Nat : n \in Blocked
  <2> HIDE DEF Blocked
  <2> QED BY <1>5, <1>6, NatSetInduction
<1>8. c[Len(c)] \in blocked /\ Len(c) \in (Depth + 2)..Len(c)
  <2>1. /\ Len(c) - Depth - 2 \in Nat /\ Depth + 2 + (Len(c) - Depth - 2) = Len(c)
        /\ Len(c) \in (Depth + 2)..Len(c)
    BY <1>1, <1>2
  <2>2. QED
    BY <1>2, <1>7, <2>1
<1>9. Waiting(c[Len(c)])
  BY <1>1, <1>3, <1>8
<1>10. start.root \in Reach(c[Len(c)])
  BY <1>2, <1>3, <1>8 DEF Successor
<1>11. QED
  BY <1>9, <1>10 DEF Waiting

-----------------------------------------------------------------------------
(***************************************************************************)
(* What each step does to the cycles ahead.                                *)
(***************************************************************************)
\* The path has no more vertices than the graph.
LEMMA PathBounded ==
  ASSUME SearchInv, calls # <<>>
  PROVE  Depth + 1 <= N /\ Path \in [1..(Depth + 1) -> V]
<1>1. /\ Depth \in Nat /\ Len(Path) = Depth + 1 /\ Typed
      /\ \A i \in 1..(Depth + 1) : Path[i] \in V
      /\ \A i, j \in 1..(Depth + 1) : i # j => Path[i] # Path[j]
  BY PathIsSimple, PathShape DEF SearchInv
<1>2. Path \in [1..(Depth + 1) -> V]
  <2> DEFINE above == [i \in 1..Depth |-> calls[i].vertex]
  <2>1. above \in [1..Depth -> V] /\ start.root \in V /\ Depth \in Nat
    BY <1>1, StackShape, TopCall
  <2>2. above \in Seq(V)
    <3> HIDE DEF above
    <3> QED BY <2>1, LenOfFunction, SeqDef
  <2>3. Path = <<start.root>> \o above
    BY DEF Path, Depth
  <2> HIDE DEF above
  <2>4. Path \in Seq(V)
    BY <2>1, <2>2, <2>3
  <2>5. QED
    BY <1>1, <2>4, LenProperties
<1>3. Depth + 1 <= N
  <2> DEFINE D == 1..(Depth + 1)
             path == Path
  <2>1. /\ IsFiniteSet(D) /\ Cardinality(D) = Depth + 1
        /\ IsFiniteSet(V) /\ Cardinality(V) = N /\ N \in Nat
    BY <1>1, FS_Interval, VertexType
  <2>2. path \in [D -> V] /\ \A i, j \in D : i # j => path[i] # path[j]
    BY <1>1, <1>2
  <2> HIDE DEF D, path
  <2>3. Cardinality(V) < Cardinality(D) => \E i, j \in D : i # j /\ path[i] = path[j]
    BY <2>1, <2>2, FS_PigeonHole
  <2>4. QED
    BY <1>1, <2>1, <2>2, <2>3
<1>4. QED
  BY <1>2, <1>3

LEMMA WindowCycleOf ==
  ASSUME Typed, bound = Unbounded, NEW s \in Starts(graph), NEW n \in 2..N, NEW c \in [1..n -> V],
         c[1] = s.root, c[2] = graph[s.root][s.entry].vertex,
         \A i, j \in 1..n : i # j => c[i] # c[j],
         InWindow(graph, Width, s, c)
  PROVE  <<s, c>> \in cycles
<1>1. DOMAIN graph = V /\ cycles = WindowCycles(graph, Width, N) /\ n \in Nat
  BY DEF Typed, IsView, MaxLength
<1>2. Len(c) = n
  BY <1>1, LenOfFunction
<1> DEFINE Closed(t) == {d \in UNION {[1..m -> V] : m \in 2..N} :
                           /\ d[1] = t.root /\ d[2] = graph[t.root][t.entry].vertex
                           /\ \A i, j \in 1..Len(d) : i # j => d[i] # d[j]
                           /\ InWindow(graph, Width, t, d)}
<1>3. cycles = UNION {{<<t, d>> : d \in Closed(t)} : t \in Starts(graph)}
  BY <1>1 DEF WindowCycles
<1>4. c \in Closed(s)
  BY <1>2
<1>5. QED
  <2> HIDE DEF Closed
  <2> QED BY <1>3, <1>4

\* The edge that closes the path is that of one cycle, the path.
LEMMA ClosingTakes ==
  ASSUME SearchInv, Close
  PROVE  /\ <<start, Path>> \in cycles /\ Len(Path) = Depth + 1
         /\ \A x \in cycles : TakesEdge(x) <=> x = <<start, Path>>
<1>1. /\ calls # <<>> /\ ~Exhausted /\ InReach(Edge, Running.vertex) /\ Edge.vertex = start.root
      /\ Typed /\ PathInv /\ bound = Unbounded
  BY DEF Close, Closes, SearchInv
<1>2. /\ Depth \in Nat \ {0} /\ Running = calls[Depth] /\ Depth \in 1..Depth
      /\ Running.offset \in 1..Len(graph[Running.vertex])
      /\ Edge = graph[Running.vertex][Running.offset]
      /\ start \in Starts(graph) /\ start.root \in V
  BY <1>1, TopCall
<1>3. /\ Path \in [1..(Depth + 1) -> V] /\ Len(Path) = Depth + 1 /\ Depth + 1 \in 2..N
      /\ \A i, j \in 1..(Depth + 1) : i # j => Path[i] # Path[j]
      /\ Path[1] = start.root
      /\ \A i \in 1..Depth : Path[i + 1] = calls[i].vertex
  BY <1>1, <1>2, PathBounded, PathIsSimple, PathShape
<1>4. Path[2] = graph[start.root][start.entry].vertex
  <2>1. 1 \in 1..Depth /\ 1 + 1 = 2
    BY <1>2
  <2>2. Path[2] = calls[1].vertex
    BY <1>3, <2>1
  <2>3. QED
    BY <1>1, <2>2 DEF PathInv
<1>5. ASSUME NEW k \in 2..(Depth + 1)
      PROVE  \E e \in 1..Len(graph[Path[k]]) :
               /\ graph[Path[k]][e].vertex = IF k = Depth + 1 THEN Path[1] ELSE Path[k + 1]
               /\ InReach(graph[Path[k]][e], Path[k])
  <2> DEFINE i == k - 1
  <2>1. i \in 1..Depth /\ i + 1 = k /\ (k = Depth + 1 <=> i = Depth)
    BY <1>2
  <2>2. Path[k] = calls[i].vertex
    BY <1>3, <2>1
  <2> HIDE DEF i
  <2>3. CASE i = Depth
    BY <1>1, <1>2, <1>3, <2>1, <2>2, <2>3
  <2>4. CASE i # Depth
    <3>1. i \in 1..(Depth - 1) /\ i + 1 \in 1..Depth /\ (i + 1) + 1 = k + 1
      BY <1>2, <2>1, <2>4
    <3>2. Path[k + 1] = calls[i + 1].vertex
      BY <1>3, <3>1
    <3>3. /\ calls[i].offset >= 2
          /\ graph[calls[i].vertex][calls[i].offset - 1].vertex = calls[i + 1].vertex
          /\ InReach(graph[calls[i].vertex][calls[i].offset - 1], calls[i].vertex)
      BY <1>1, <3>1 DEF PathInv
    <3> DEFINE o == calls[i].offset
               v == calls[i].vertex
    <3>4. v \in V /\ o \in 1..(Len(graph[v]) + 1) /\ o >= 2 /\ Len(graph[v]) \in Nat
      BY <1>1, <2>1, <3>3, StackShape, GraphShape
    <3>5. o - 1 \in 1..Len(graph[v])
      <4> HIDE DEF o, v
      <4> QED BY <3>4
    <3>6. QED
      BY <2>1, <2>2, <2>4, <3>2, <3>3, <3>5
  <2>5. QED
    BY <2>3, <2>4
<1>6. InWindow(graph, Width, start, Path)
  BY <1>3, <1>5 DEF InWindow, InReach
<1>7. <<start, Path>> \in cycles
  BY <1>1, <1>2, <1>3, <1>4, <1>6, WindowCycleOf
<1>8. ASSUME NEW x \in cycles, TakesEdge(x)
      PROVE  x = <<start, Path>>
  <2> DEFINE c == x[2]
  <2>1. x[1] = start /\ Follows(Stack, Depth + 1, c) /\ Successor(c, Depth + 1) = start.root
    BY <1>1, <1>8 DEF TakesEdge
  <2>2. /\ Depth + 1 \in 2..Len(c) /\ \A i \in 1..(Depth + 1) : c[i] = Path[i]
        /\ ~(Depth + 1 < Len(c))
    BY <1>1, <2>1, FollowsPath
  <2>3. x = <<x[1], c>> /\ Len(c) \in Nat /\ c \in [1..Len(c) -> V]
    BY <1>1, CycleOf
  <2> HIDE DEF c
  <2>4. Len(c) = Depth + 1
    BY <1>2, <2>2, <2>3
  <2>5. c = [i \in 1..(Depth + 1) |-> c[i]] /\ Path = [i \in 1..(Depth + 1) |-> Path[i]]
    BY <1>3, <2>3, <2>4
  <2>6. c = Path
    BY <2>2, <2>5
  <2>7. QED
    BY <2>1, <2>3, <2>6
<1>9. TakesEdge(<<start, Path>>)
  <2>1. Follows(Stack, Depth + 1, Path)
    <3>1. Depth + 1 <= Len(Path) /\ \A i \in 1..(Depth + 1) : Path[i] = Stack[i].vertex
      BY <1>1, <1>2, <1>3, StackOf
    <3>2. QED
      BY <3>1 DEF Follows
  <2>2. Successor(Path, Depth + 1) = start.root
    BY <1>3 DEF Successor
  <2>3. QED
    BY <1>1, <2>1, <2>2 DEF TakesEdge
<1>10. QED
  BY <1>3, <1>7, <1>8, <1>9

\* No cycle goes on by an edge that is skipped.
LEMMA SkippedTakes ==
  ASSUME SearchInv, Skip, NEW x \in cycles
  PROVE  ~TakesEdge(x)
<1> DEFINE c == x[2]
<1>1. SUFFICES ASSUME x[1] = start, Follows(Stack, Depth + 1, c),
                      Successor(c, Depth + 1) = Edge.vertex
               PROVE  FALSE
  BY DEF TakesEdge
<1>2. /\ calls # <<>> /\ ~Exhausted /\ ~Closes /\ Skipped /\ Typed /\ bound = Unbounded
  BY DEF Skip, SearchInv
<1>3. /\ Running.offset \in 1..Len(graph[Running.vertex]) /\ Running.vertex \in V
      /\ Edge = graph[Running.vertex][Running.offset] /\ Depth \in Nat \ {0}
  BY <1>2, TopCall
<1>4. /\ Depth + 1 \in 2..Len(c)
      /\ Depth + 1 < Len(c) => Successor(c, Depth + 1) = c[Depth + 2]
      /\ Depth + 1 = Len(c) => Successor(c, Depth + 1) = start.root
      /\ Successor(c, Depth + 1) \in Reach(Running.vertex)
      /\ Len(c) \in Nat
  BY <1>1, <1>2, FollowsPath, CycleOf
<1>5. InReach(Edge, Running.vertex)
  <2>1. PICK e \in 1..Len(graph[Running.vertex]) :
               /\ graph[Running.vertex][e].vertex = Edge.vertex
               /\ InReach(graph[Running.vertex][e], Running.vertex)
    BY <1>1, <1>4 DEF Reach
  <2>2. e = Running.offset
    BY <1>2, <1>3, <2>1, GraphShape
  <2>3. QED
    BY <1>3, <2>1, <2>2
<1>6. Edge.vertex # start.root /\ Edge.vertex \in blocked
  BY <1>2, <1>5 DEF Closes, Skipped
<1>7. Depth + 1 < Len(c) /\ c[Depth + 2] = Edge.vertex
  BY <1>1, <1>3, <1>4, <1>6
<1>8. c[Depth + 2] \notin blocked
  BY <1>1, <1>2, <1>7, NoCycleThroughBlocked
<1>9. QED
  BY <1>6, <1>7, <1>8

\* The stack after a step that leaves the start alone.
LEMMA StackNext ==
  ASSUME graph' = graph, start' = start, Depth' \in Nat
  PROVE  /\ Stack'[1] = [vertex |-> start.root, offset |-> Len(graph[start.root]) + 1]
         /\ \A i \in 1..Depth' : Stack'[i + 1] = calls'[i]
<1>1. \A i \in 1..(Depth' + 1) :
        Stack'[i] = IF i = 1 THEN [vertex |-> start.root, offset |-> Len(graph[start.root]) + 1]
                             ELSE calls'[i - 1]
  BY DEF Stack
<1>2. /\ \A i \in 1..Depth' : i + 1 \in 1..(Depth' + 1) /\ i + 1 # 1 /\ (i + 1) - 1 = i
      /\ 1 \in 1..(Depth' + 1)
  <2> DEFINE d == Depth'
  <2>1. d \in Nat
    OBVIOUS
  <2>2. /\ \A i \in 1..d : i + 1 \in 1..(d + 1) /\ i + 1 # 1 /\ (i + 1) - 1 = i
        /\ 1 \in 1..(d + 1)
    <3> HIDE DEF d
    <3> QED BY <2>1
  <2>3. QED
    BY <2>2
<1>3. ASSUME NEW i \in 1..Depth'
      PROVE  Stack'[i + 1] = calls'[i]
  <2>1. Stack'[i + 1] = calls'[(i + 1) - 1] /\ (i + 1) - 1 = i
    BY <1>1, <1>2
  <2>2. QED
    BY <2>1
<1>4. QED
  BY <1>1, <1>2, <1>3

\* The first frame of the stack, and what the frames above it hold.
LEMMA StackRoot ==
  ASSUME Typed
  PROVE  Stack[1] = [vertex |-> start.root, offset |-> Len(graph[start.root]) + 1]
<1>1. 1 \in 1..(Depth + 1)
  BY StackShape
<1>2. QED
  BY <1>1 DEF Stack

\* What looking at an edge does to the stack.
LEMMA StackAfterEdge ==
  ASSUME SearchInv, Close \/ Skip \/ Call
  PROVE  /\ \A i \in 1..(Depth + 1) : Stack'[i].vertex = Stack[i].vertex
         /\ \A i \in 1..Depth : Stack'[i].offset = Stack[i].offset
         /\ Stack'[Depth + 1].offset = Stack[Depth + 1].offset + 1
         /\ Stack[Depth + 1] = Running /\ Depth \in Nat \ {0}
<1>1. /\ Typed /\ graph' = graph /\ start' = start
      /\ calls # <<>>
  BY StartUnchanged DEF SearchInv, Close, Skip, Call
<1>2. /\ Depth \in Nat \ {0} /\ Running = calls[Depth] /\ Depth \in 1..Depth
  BY <1>1, TopCall
<1>3. /\ Depth' \in Nat /\ Depth' >= Depth
      /\ \A i \in 1..Depth : calls'[i].vertex = calls[i].vertex
      /\ \A i \in 1..(Depth - 1) : calls'[i] = calls[i]
      /\ calls'[Depth].offset = calls[Depth].offset + 1
  <2>1. CASE Close \/ Skip
    BY <1>1, <1>2, <2>1, EdgeStep
  <2>2. CASE Call
    BY <1>1, <1>2, <2>2, CallStep
  <2>3. QED
    BY <2>1, <2>2
<1>4. /\ Stack'[1] = Stack[1]
      /\ \A i \in 1..Depth : Stack'[i + 1] = calls'[i] /\ Stack[i + 1] = calls[i]
  <2>1. \A i \in 1..Depth : i \in 1..Depth'
    BY <1>2, <1>3
  <2>2. QED
    BY <1>1, <1>3, <2>1, StackNext, StackRoot, StackOf
<1>5. ASSUME NEW i \in 1..(Depth + 1)
      PROVE  Stack'[i].vertex = Stack[i].vertex
  <2>1. CASE i = 1
    BY <1>4, <2>1
  <2>2. CASE i # 1
    <3>1. i - 1 \in 1..Depth /\ (i - 1) + 1 = i
      BY <1>2, <2>2
    <3>2. QED
      BY <1>3, <1>4, <3>1
  <2>3. QED
    BY <2>1, <2>2
<1>6. ASSUME NEW i \in 1..Depth
      PROVE  Stack'[i].offset = Stack[i].offset
  <2>1. CASE i = 1
    BY <1>4, <2>1
  <2>2. CASE i # 1
    <3>1. i - 1 \in 1..(Depth - 1) /\ i - 1 \in 1..Depth /\ (i - 1) + 1 = i
      BY <1>2, <2>2
    <3>2. QED
      BY <1>3, <1>4, <3>1
  <2>3. QED
    BY <2>1, <2>2
<1>7. Stack'[Depth + 1].offset = Stack[Depth + 1].offset + 1 /\ Stack[Depth + 1] = Running
  BY <1>2, <1>3, <1>4
<1>8. QED
  BY <1>2, <1>5, <1>6, <1>7

\* The cycles that take the edge of a call are those that follow the longer
\* path.
LEMMA CallTakes ==
  ASSUME SearchInv, Call, NEW x \in cycles, x[1] = start
  PROVE  TakesEdge(x) <=> Follows(Stack', Depth + 2, x[2])
<1> DEFINE c == x[2]
<1>1. /\ calls # <<>> /\ Typed /\ graph' = graph /\ start' = start
      /\ Edge.vertex # start.root /\ Len(c) \in Nat
  BY StartUnchanged, CalledVertex, CycleOf DEF SearchInv, Call
<1>2. /\ Depth \in Nat \ {0}
      /\ \A i \in 1..(Depth + 1) : Stack'[i].vertex = Stack[i].vertex
  BY StackAfterEdge
<1>3. Stack'[Depth + 2].vertex = Edge.vertex
  <2>1. Depth' = Depth + 1 /\ calls'[Depth + 1].vertex = Edge.vertex
    BY <1>1, CallStep
  <2>2. Depth + 1 \in 1..Depth' /\ Depth' \in Nat /\ (Depth + 1) + 1 = Depth + 2
    BY <1>2, <2>1
  <2>3. Stack'[(Depth + 1) + 1] = calls'[Depth + 1]
    BY <1>1, <2>2, StackNext
  <2>4. QED
    BY <2>1, <2>2, <2>3
<1>4. ASSUME Follows(Stack, Depth + 1, c), Successor(c, Depth + 1) = Edge.vertex
      PROVE  Follows(Stack', Depth + 2, c)
  <2>1. /\ Depth + 1 \in 2..Len(c)
        /\ Depth + 1 < Len(c) => Successor(c, Depth + 1) = c[Depth + 2]
        /\ Depth + 1 = Len(c) => Successor(c, Depth + 1) = start.root
    BY <1>1, <1>4, FollowsPath
  <2>2. \A i \in 1..(Depth + 1) : c[i] = Stack[i].vertex
    BY <1>4 DEF Follows
  <2> HIDE DEF c
  <2>3. Depth + 1 < Len(c) /\ c[Depth + 2] = Edge.vertex
    BY <1>1, <1>2, <1>4, <2>1
  <2>4. /\ Depth + 2 <= Len(c)
        /\ \A i \in 1..(Depth + 2) : i \in 1..(Depth + 1) \/ i = Depth + 2
    BY <1>1, <1>2, <2>3
  <2>5. \A i \in 1..(Depth + 2) : c[i] = Stack'[i].vertex
    BY <1>2, <1>3, <2>2, <2>3, <2>4
  <2>6. QED
    BY <2>4, <2>5 DEF Follows
<1>5. ASSUME Follows(Stack', Depth + 2, c)
      PROVE  Follows(Stack, Depth + 1, c) /\ Successor(c, Depth + 1) = Edge.vertex
  <2> HIDE DEF c
  <2>1. Depth + 2 <= Len(c) /\ \A i \in 1..(Depth + 2) : c[i] = Stack'[i].vertex
    BY <1>5 DEF Follows
  <2>2. /\ Depth + 1 <= Len(c) /\ Depth + 1 # Len(c) /\ Depth + 2 \in 1..(Depth + 2)
        /\ (Depth + 1) + 1 = Depth + 2
        /\ \A i \in 1..(Depth + 1) : i \in 1..(Depth + 2)
    BY <1>1, <1>2, <2>1
  <2>3. Follows(Stack, Depth + 1, c)
    BY <1>2, <2>1, <2>2 DEF Follows
  <2>4. Successor(c, Depth + 1) = c[Depth + 2]
    BY <2>2 DEF Successor
  <2>5. QED
    BY <1>3, <2>1, <2>2, <2>3, <2>4
<1>6. QED
  BY <1>4, <1>5 DEF TakesEdge

\* A cycle that takes the edge looked at is still ahead.
LEMMA TakenIsAhead ==
  ASSUME SearchInv, calls # <<>>, ~Exhausted, NEW x \in cycles, TakesEdge(x)
  PROVE  Pending(Plain, Stack, 2, Depth + 1, x[2])
<1>1. /\ Typed /\ Depth \in Nat \ {0} /\ Depth \in 1..Depth /\ Running = calls[Depth]
      /\ Running.vertex \in V /\ Running.offset \in 1..Len(graph[Running.vertex])
      /\ Edge = graph[Running.vertex][Running.offset] /\ Len(graph[Running.vertex]) \in Nat
  BY TopCall DEF SearchInv
<1>2. Stack[Depth + 1] = Running /\ Depth + 1 \in 2..(Depth + 1)
  BY <1>1, StackOf
<1>3. /\ Len(Plain[Running.vertex]) = Len(graph[Running.vertex])
      /\ Plain[Running.vertex][Running.offset] = Edge.vertex
  BY <1>1, PlainShape
<1>4. Running.offset \in Running.offset..Len(Plain[Running.vertex])
  BY <1>1, <1>3
<1>5. Follows(Stack, Depth + 1, x[2]) /\ Successor(x[2], Depth + 1) = Edge.vertex
  BY DEF TakesEdge
<1>6. QED
  BY <1>2, <1>3, <1>4, <1>5 DEF Pending

\* Looking at an edge leaves ahead the cycles but those that take it.
LEMMA EdgeConsumed ==
  ASSUME SearchInv, Close \/ Skip \/ Call, NEW x \in cycles, x[1] = start
  PROVE  Pending(Plain, Stack', 2, Depth + 1, x[2])
           <=> Pending(Plain, Stack, 2, Depth + 1, x[2]) /\ ~TakesEdge(x)
<1> DEFINE c == x[2]
           d == Depth + 1
           after == Stack'
<1>1. /\ calls # <<>> /\ ~Exhausted /\ Typed
  BY DEF Close, Skip, Call, SearchInv
<1>2. /\ \A i \in 1..d : after[i].vertex = Stack[i].vertex
      /\ \A i \in 1..(d - 1) : after[i].offset = Stack[i].offset
      /\ after[d].offset = Stack[d].offset + 1
      /\ Stack[d] = Running /\ d \in Nat /\ 2 <= d /\ 2 \in Nat \ {0}
  <2>1. Depth \in Nat /\ d - 1 = Depth
    BY <1>1, TopCall
  <2>2. QED
    BY <2>1, StackAfterEdge
<1>3. /\ Running.vertex \in V /\ Running.offset \in 1..Len(graph[Running.vertex])
      /\ Edge = graph[Running.vertex][Running.offset] /\ Len(graph[Running.vertex]) \in Nat
  BY <1>1, TopCall
<1>4. /\ Stack[d].offset <= Len(Plain[Stack[d].vertex])
      /\ Plain[Stack[d].vertex][Stack[d].offset] = Edge.vertex
  BY <1>1, <1>2, <1>3, PlainShape, SMTT(30)
<1>5. /\ V \in SUBSET Int /\ Plain \in Adjacencies(V) /\ IsWalk(Plain, c)
      /\ IsSearch(V, Plain, Stack, 2, d)
  BY <1>1, PlainShape, CycleReaches, SearchFacts
<1>6. Pending(Plain, after, 2, d, c)
        <=> /\ Pending(Plain, Stack, 2, d, c)
            /\ ~ /\ Follows(Stack, d, c)
                 /\ Successor(c, d) = Plain[Stack[d].vertex][Stack[d].offset]
  <2> HIDE DEF after, d, c
  <2>1. SUFFICES ASSUME NEW g, NEW frames, NEW next, g = Plain, frames = Stack, next = after
                 PROVE  Pending(g, next, 2, d, c)
                          <=> /\ Pending(g, frames, 2, d, c)
                              /\ ~ /\ Follows(frames, d, c)
                                   /\ Successor(c, d) = g[frames[d].vertex][frames[d].offset]
    OBVIOUS
  <2>2. /\ V \in SUBSET Int /\ g \in Adjacencies(V) /\ IsWalk(g, c)
        /\ IsSearch(V, g, frames, 2, d)
    BY <1>5, <2>1
  <2>3. /\ \A i \in 1..d : next[i].vertex = frames[i].vertex
        /\ \A i \in 1..(d - 1) : next[i].offset = frames[i].offset
        /\ next[d].offset = frames[d].offset + 1
        /\ frames[d].offset <= Len(g[frames[d].vertex])
    BY <1>2, <1>4, <2>1
  <2>4. d \in Nat /\ 2 \in Nat \ {0} /\ 2 <= d
    BY <1>2
  <2>5. QED
    BY <2>2, <2>3, <2>4, WalkConsume
<1>7. QED
  BY <1>4, <1>6 DEF TakesEdge

LEMMA PlainUnchanged ==
  ASSUME graph' = graph
  PROVE  Plain' = Plain
BY DEF Plain

\* The step that starts a search makes ahead the cycles of its start.
LEMMA StartTakes ==
  ASSUME SearchInv, NextStart, NEW x \in cycles, x[1] = start'
  PROVE  Pending(Plain, Stack', 2, 2, x[2])
<1> DEFINE c == x[2]
           after == Stack'
<1>1. /\ Typed /\ graph' = graph
      /\ Depth' = 1 /\ calls'[1].vertex = graph[start'.root][start'.entry].vertex
      /\ calls'[1].offset = 1
  BY NextStartStep DEF SearchInv, NextStart, input
<1>2. /\ after[1] = [vertex |-> start'.root, offset |-> Len(graph[start'.root]) + 1]
      /\ after[2] = calls'[1]
  <2>1. after = [i \in 1..(1 + 1) |->
                   IF i = 1 THEN [vertex |-> start'.root, offset |-> Len(graph[start'.root]) + 1]
                            ELSE calls'[i - 1]]
    BY <1>1 DEF Stack
  <2>2. 1 \in 1..(1 + 1) /\ 2 \in 1..(1 + 1) /\ 2 # 1 /\ 2 - 1 = 1
    OBVIOUS
  <2> HIDE DEF after
  <2>3. QED
    BY <2>1, <2>2
<1>3. /\ Len(c) \in 2..MaxLength /\ Len(c) \in Nat /\ MaxLength \in Nat
      /\ c[1] = start'.root /\ c[2] = graph[start'.root][start'.entry].vertex
      /\ IsWalk(Plain, c)
  <2>1. MaxLength \in Nat
    BY <1>1 DEF Typed, MaxLength
  <2>2. QED
    BY <1>1, <2>1, CycleOf, CycleReaches
<1> HIDE DEF c, after
<1>4. Follows(after, 2, c)
  <2>1. 2 <= Len(c) /\ \A i \in 1..2 : i = 1 \/ i = 2
    BY <1>3
  <2>2. after[1].vertex = c[1] /\ after[2].vertex = c[2]
    BY <1>1, <1>2, <1>3
  <2>3. QED
    BY <2>1, <2>2 DEF Follows
<1>5. \E j \in after[2].offset..Len(Plain[after[2].vertex]) :
        Plain[after[2].vertex][j] = Successor(c, 2)
  <2>1. 2 \in Nat \ {0} /\ after[2].offset = 1
    BY <1>1, <1>2
  <2>2. V \in SUBSET Int /\ Plain \in Adjacencies(V)
    BY <1>1, PlainShape
  <2>3. QED
    BY <1>3, <1>4, <2>1, <2>2, WalkFresh
<1>6. 2 \in 2..2
  OBVIOUS
<1>7. Pending(Plain, after, 2, 2, c)
  BY <1>4, <1>5, <1>6 DEF Pending
<1>8. QED
  BY <1>7 DEF after, c

\* A call leaves ahead what was.
LEMMA CallKeeps ==
  ASSUME SearchInv, Call, NEW x \in cycles, x[1] = start
  PROVE  Pending(Plain, Stack', 2, Depth' + 1, x[2]) <=> Pending(Plain, Stack, 2, Depth + 1, x[2])
<1> DEFINE c == x[2]
           d == Depth + 1
           after == Stack'
<1>1. /\ Typed /\ calls # <<>> /\ ~Exhausted /\ graph' = graph /\ start' = start
  BY StartUnchanged DEF SearchInv, Call
<1>2. /\ Depth' = Depth + 1 /\ calls'[Depth + 1].offset = 1 /\ Depth \in Nat
  BY <1>1, CallStep, TopCall
<1>3. after[d + 1].offset = 1 /\ d \in Nat /\ 2 <= d + 1 /\ Depth' + 1 = d + 1
  <2>1. Depth + 1 \in 1..Depth' /\ Depth' \in Nat
    BY <1>2
  <2>2. Stack'[(Depth + 1) + 1] = calls'[Depth + 1]
    BY <1>1, <2>1, StackNext
  <2>3. QED
    BY <1>2, <2>2
<1>4. IsWalk(Plain, c) /\ V \in SUBSET Int /\ Plain \in Adjacencies(V)
  BY <1>1, PlainShape, CycleReaches
<1>5. Pending(Plain, after, 2, d + 1, c)
        <=> Pending(Plain, after, 2, d, c) \/ Follows(after, d + 1, c)
  <2> HIDE DEF after, d, c
  <2>1. \A i \in 1..d : after[i] = after[i]
    OBVIOUS
  <2>2. 2 \in Nat \ {0}
    OBVIOUS
  <2>3. QED
    BY <1>3, <1>4, <2>1, <2>2, WalkPush
<1>6. Pending(Plain, after, 2, d, c) <=> Pending(Plain, Stack, 2, d, c) /\ ~TakesEdge(x)
  BY EdgeConsumed
<1>7. TakesEdge(x) <=> Follows(after, d + 1, c)
  <2>1. d + 1 = Depth + 2
    BY <1>2
  <2>2. TakesEdge(x) <=> Follows(after, Depth + 2, c)
    BY CallTakes
  <2>3. QED
    BY <2>1, <2>2
<1>8. TakesEdge(x) => Pending(Plain, Stack, 2, d, c)
  BY <1>1, TakenIsAhead
<1>9. QED
  <2> HIDE DEF after, d, c
  <2>1. Pending(Plain, after, 2, d + 1, c) <=> Pending(Plain, Stack, 2, d, c)
    BY <1>5, <1>6, <1>7, <1>8
  <2>2. QED
    BY <1>3, <2>1 DEF after, d, c

\* The return of a call, too: it has looked at all its edges.
LEMMA ReturnKeeps ==
  ASSUME SearchInv, Return, NEW x
  PROVE  Pending(Plain, Stack', 2, Depth' + 1, x[2]) <=> Pending(Plain, Stack, 2, Depth + 1, x[2])
<1> DEFINE c == x[2]
           d == Depth + 1
           after == Stack'
<1>1. /\ Typed /\ calls # <<>> /\ Exhausted /\ graph' = graph /\ start' = start
  BY StartUnchanged DEF SearchInv, Return
<1>2. /\ Depth' = Depth - 1 /\ Depth \in Nat \ {0}
      /\ \A i \in 1..(Depth - 1) : /\ calls'[i].vertex = calls[i].vertex
                                   /\ calls'[i].offset = calls[i].offset
  BY <1>1, ReturnStep, TopCall
<1>3. /\ Running = calls[Depth] /\ Running.offset \in Nat /\ Running.vertex \in V
      /\ Entries = graph[Running.vertex] /\ Len(Entries) \in Nat
      /\ Running.offset > Len(Entries)
  BY <1>1, TopCall DEF Exhausted
<1>4. /\ Stack[1] = after[1]
      /\ \A i \in 1..(Depth - 1) : after[i + 1] = calls'[i]
      /\ \A i \in 1..Depth : Stack[i + 1] = calls[i]
  <2>1. Depth' \in Nat
    BY <1>2
  <2>2. QED
    BY <1>1, <1>2, <2>1, StackNext, StackRoot, StackOf
<1>5. Stack[d] = Running /\ d \in Nat \ {0} /\ d - 1 = Depth /\ Depth' + 1 = d - 1
  BY <1>2, <1>3, <1>4
<1>6. ASSUME NEW i \in 1..Depth
      PROVE  after[i].vertex = Stack[i].vertex /\ after[i].offset = Stack[i].offset
  <2>1. CASE i = 1
    BY <1>4, <2>1
  <2>2. CASE i # 1
    <3>1. i - 1 \in 1..(Depth - 1) /\ i - 1 \in 1..Depth /\ (i - 1) + 1 = i
      BY <1>2, <2>2
    <3>2. after[i] = calls'[i - 1] /\ Stack[i] = calls[i - 1]
      <4>1. after[(i - 1) + 1] = calls'[i - 1] /\ Stack[(i - 1) + 1] = calls[i - 1]
        BY <1>4, <3>1
      <4>2. QED
        BY <3>1, <4>1
    <3>3. QED
      BY <1>2, <3>1, <3>2
  <2>3. QED
    BY <2>1, <2>2
<1>7. /\ Stack[d].offset \in Nat /\ Len(Plain[Stack[d].vertex]) \in Nat
      /\ Stack[d].offset > Len(Plain[Stack[d].vertex])
      /\ Plain \in Adjacencies(V)
  BY <1>1, <1>3, <1>5, PlainShape
<1>8. Pending(Plain, after, 2, d - 1, c) <=> Pending(Plain, Stack, 2, d, c)
  <2>1. \A i \in 1..(d - 1) : after[i].vertex = Stack[i].vertex /\ after[i].offset = Stack[i].offset
    BY <1>5, <1>6
  <2>2. 2 \in Nat \ {0} /\ d \in Nat \ {0}
    BY <1>5
  <2> HIDE DEF after, d, c
  <2>3. QED
    BY <1>7, <2>1, <2>2, PendingPop
<1>9. QED
  <2> HIDE DEF after, d, c
  <2>1. Depth' + 1 = d - 1
    BY <1>5
  <2>2. QED
    BY <1>8, <2>1 DEF after, d, c

\* What the steps leave ahead: the path that is closed is counted and no cycle
\* else changes sides.
LEMMA AheadStep ==
  ASSUME SearchInv, [Next]_vars, NEW x \in cycles
  PROVE  Ahead(x)' <=> Ahead(x) /\ ~(Close /\ x = <<start, Path>>)
<1>1. /\ Typed /\ graph' = graph /\ Plain' = Plain /\ Depth \in Nat
      /\ x[1] \in Starts(graph)
      /\ calls # <<>> => start \notin left
  BY InputUnchanged, PlainUnchanged, StackShape, CycleOf, TopCall DEF SearchInv
<1>2. Ahead(x)' <=> \/ x[1] \in left'
                    \/ calls' # <<>> /\ x[1] = start' /\ Pending(Plain, Stack', 2, Depth' + 1, x[2])
  BY <1>1 DEF Ahead
<1>3. CASE Close \/ Skip
  <2>1. /\ Depth' = Depth /\ start' = start /\ left' = left /\ calls # <<>> /\ calls' # <<>>
    BY <1>1, <1>3, EdgeStep, StartUnchanged
  <2>2. x[1] = start =>
          (Pending(Plain, Stack', 2, Depth + 1, x[2])
             <=> Pending(Plain, Stack, 2, Depth + 1, x[2]) /\ ~TakesEdge(x))
    BY <1>3, EdgeConsumed
  <2>3. TakesEdge(x) <=> Close /\ x = <<start, Path>>
    <3>1. Close => (TakesEdge(x) <=> x = <<start, Path>>)
      BY ClosingTakes
    <3>2. Skip => ~TakesEdge(x) /\ ~Close
      BY SkippedTakes DEF Skip, Close
    <3>3. QED
      BY <1>3, <3>1, <3>2
  <2>4. TakesEdge(x) => x[1] = start
    BY DEF TakesEdge
  <2>5. Ahead(x)' <=> \/ x[1] \in left
                      \/ x[1] = start /\ Pending(Plain, Stack', 2, Depth + 1, x[2])
    BY <1>2, <2>1
  <2>6. Ahead(x) <=> \/ x[1] \in left
                     \/ x[1] = start /\ Pending(Plain, Stack, 2, Depth + 1, x[2])
    BY <2>1 DEF Ahead
  <2>7. QED
    BY <1>1, <2>1, <2>2, <2>3, <2>4, <2>5, <2>6
<1>4. CASE Call
  <2>1. /\ start' = start /\ left' = left /\ calls # <<>> /\ calls' # <<>> /\ ~Close
    BY <1>1, <1>4, CallStep, StartUnchanged DEF Call, Close
  <2>2. x[1] = start =>
          (Pending(Plain, Stack', 2, Depth' + 1, x[2]) <=> Pending(Plain, Stack, 2, Depth + 1, x[2]))
    BY <1>4, CallKeeps
  <2>3. QED
    BY <1>2, <2>1, <2>2 DEF Ahead
<1>5. CASE Return
  <2>1. /\ start' = start /\ left' = left /\ calls # <<>> /\ ~Close
        /\ Depth' = Depth - 1 /\ calls' \in Seq(Frames)
    BY <1>1, <1>5, ReturnStep, StartUnchanged DEF Return, Close
  <2>2. Pending(Plain, Stack', 2, Depth' + 1, x[2]) <=> Pending(Plain, Stack, 2, Depth + 1, x[2])
    BY <1>5, ReturnKeeps
  <2>3. calls' = <<>> => ~Pending(Plain, Stack', 2, Depth' + 1, x[2])
    <3>1. calls' = <<>> => Depth' = 0
      BY DEF Depth
    <3>2. Depth' = 0 => 2..(Depth' + 1) = {}
      OBVIOUS
    <3>3. QED
      BY <3>1, <3>2 DEF Pending
  <2>4. QED
    BY <1>2, <2>1, <2>2, <2>3 DEF Ahead
<1>6. CASE NextStart
  <2>1. /\ calls = <<>> /\ calls' # <<>> /\ Depth' = 1 /\ ~Close
        /\ start' \in left /\ left' = left \ {start'}
    BY <1>1, <1>6, NextStartStep DEF Close
  <2>2. x[1] = start' => Pending(Plain, Stack', 2, 2, x[2])
    BY <1>6, StartTakes
  <2>3. Depth' + 1 = 2
    BY <2>1
  <2>4. QED
    BY <1>2, <2>1, <2>2, <2>3 DEF Ahead
<1>7. CASE Report \/ UNCHANGED vars
  <2>1. calls' = calls /\ start' = start /\ left' = left
    BY <1>7 DEF Report, vars
  <2>2. Depth' = Depth /\ Stack' = Stack
    BY <1>1, <2>1 DEF Depth, Stack
  <2>3. ASSUME Close
        PROVE  FALSE
    <3>1. calls # <<>> /\ calls'[Depth].offset = calls[Depth].offset + 1
      BY <1>1, <2>3, EdgeStep
    <3>2. calls[Depth].offset \in Nat
      BY <1>1, <3>1, TopCall
    <3>3. QED
      BY <2>1, <3>1, <3>2
  <2>4. QED
    BY <1>2, <2>1, <2>2, <2>3 DEF Ahead
<1>8. QED
  BY <1>3, <1>4, <1>5, <1>6, <1>7 DEF Next, Returned

-----------------------------------------------------------------------------
(***************************************************************************)
(* Every cycle is counted once.                                            *)
(***************************************************************************)
WithLength(S, n) == {x \in S : Len(x[2]) = n}

\* One cycle more is one more of its length.
LEMMA WithLengthAdd ==
  ASSUME NEW S, IsFiniteSet(S), NEW x, x \notin S, NEW n
  PROVE  Cardinality(WithLength(S \cup {x}, n))
           = IF Len(x[2]) = n THEN Cardinality(WithLength(S, n)) + 1
                              ELSE Cardinality(WithLength(S, n))
<1>1. IsFiniteSet(WithLength(S, n)) /\ x \notin WithLength(S, n)
  BY FS_Subset DEF WithLength
<1>2. CASE Len(x[2]) = n
  <2>1. WithLength(S \cup {x}, n) = WithLength(S, n) \cup {x}
    BY <1>2 DEF WithLength
  <2>2. QED
    BY <1>1, <1>2, <2>1, FS_AddElement
<1>3. CASE Len(x[2]) # n
  <2>1. WithLength(S \cup {x}, n) = WithLength(S, n)
    BY <1>3 DEF WithLength
  <2>2. QED
    BY <1>3, <2>1
<1>4. QED
  BY <1>2, <1>3

LEMMA CountInit == Init /\ bound = Unbounded => CountInv
<1> SUFFICES ASSUME Init, bound = Unbounded
             PROVE  CountInv
  OBVIOUS
<1>1. /\ SearchInv /\ counted = {} /\ left = Starts(graph) /\ result = NoResult
      /\ histogram = [len \in Lengths |-> 0]
  BY SearchInit DEF Init
<1>2. IsFiniteSet(counted) /\ histogram = WindowHistogram(counted, N)
  <2>1. \A len \in Lengths : {x \in {} : Len(x[2]) = len} = {}
    OBVIOUS
  <2>2. IsFiniteSet({}) /\ Cardinality({}) = 0
    BY FS_EmptySet
  <2>3. \A len \in Lengths : Cardinality({x \in {} : Len(x[2]) = len}) = 0
    BY <2>1, <2>2
  <2>4. QED
    BY <1>1, <2>2, <2>3 DEF WindowHistogram, Lengths
<1>3. \A x \in cycles : Ahead(x)
  BY <1>1, CycleOf DEF Ahead, SearchInv
<1>4. QED
  BY <1>1, <1>2, <1>3 DEF CountInv

\* The step that closes a path counts it, for the first time.
LEMMA CloseCounts ==
  ASSUME SearchInv, CountInv, Close
  PROVE  /\ <<start, Path>> \in cycles \ counted /\ counted' = counted \cup {<<start, Path>>}
         /\ IsFiniteSet(counted') /\ histogram' = WindowHistogram(counted', N)
<1> DEFINE x == <<start, Path>>
<1>1. /\ x \in cycles /\ x[1] = start /\ x[2] = Path /\ TakesEdge(x)
      /\ counted' = counted \cup {x} /\ IsFiniteSet(counted)
      /\ histogram = WindowHistogram(counted, N)
      /\ calls # <<>> /\ ~Exhausted
      /\ histogram' = [histogram EXCEPT ![Len(Path)] = histogram[Len(Path)] + 1]
  BY ClosingTakes DEF CountInv, Close
<1>2. x \notin counted
  BY <1>1, TakenIsAhead DEF CountInv, Ahead
<1>3. IsFiniteSet(counted')
  BY <1>1, FS_AddElement
<1> HIDE DEF x
<1>4. ASSUME NEW len \in 2..N
      PROVE  histogram'[len] = Cardinality(WithLength(counted', len))
  <2>1. histogram[len] = Cardinality(WithLength(counted, len)) /\ len \in DOMAIN histogram
    BY <1>1 DEF WindowHistogram, WithLength
  <2>2. histogram'[len] = IF len = Len(Path) THEN histogram[len] + 1 ELSE histogram[len]
    BY <1>1, <2>1
  <2>3. Cardinality(WithLength(counted', len))
          = IF Len(x[2]) = len THEN Cardinality(WithLength(counted, len)) + 1
                               ELSE Cardinality(WithLength(counted, len))
    BY <1>1, <1>2, WithLengthAdd
  <2>4. QED
    BY <1>1, <2>1, <2>2, <2>3
<1>5. histogram' = WindowHistogram(counted', N)
  <2>1. histogram' = [len \in 2..N |-> histogram'[len]]
    BY <1>1 DEF WindowHistogram
  <2>2. QED
    BY <1>4, <2>1 DEF WindowHistogram, WithLength
<1>6. QED
  BY <1>1, <1>2, <1>3, <1>5 DEF x

LEMMA CountStep == SearchInv /\ CountInv /\ [Next]_vars => CountInv'
<1> SUFFICES ASSUME SearchInv, CountInv, [Next]_vars
             PROVE  CountInv'
  OBVIOUS
<1>1. cycles' = cycles
  BY InputUnchanged
<1>2. /\ counted' \subseteq cycles /\ IsFiniteSet(counted')
      /\ histogram' = WindowHistogram(counted', N)
      /\ \A x \in cycles : x \in counted' <=> x \in counted \/ (Close /\ x = <<start, Path>>)
  <2>1. CASE Close
    BY <2>1, CloseCounts DEF CountInv
  <2>2. CASE ~Close
    <3>1. counted' = counted /\ histogram' = histogram
      BY <2>2 DEF Next, NextStart, Report, Skip, Call, Return, Returned, vars
    <3>2. QED
      BY <2>2, <3>1 DEF CountInv
  <2>3. QED
    BY <2>1, <2>2
<1>3. \A x \in cycles : x \in counted' <=> ~Ahead(x)'
  <2>1. \A x \in cycles : Ahead(x)' <=> Ahead(x) /\ ~(Close /\ x = <<start, Path>>)
    BY AheadStep
  <2>2. \A x \in cycles : x \in counted <=> ~Ahead(x)
    BY DEF CountInv
  <2>3. QED
    BY <1>2, <2>1, <2>2
<1>4. result' # NoResult => calls' = <<>> /\ left' = {}
  <2>1. result # NoResult => calls = <<>> /\ left = {}
    BY DEF CountInv
  <2>2. CASE Report \/ UNCHANGED vars
    BY <2>1, <2>2 DEF Report, vars
  <2>3. CASE NextStart \/ Close \/ Skip \/ Call \/ Return
    <3>1. result' = result /\ (calls # <<>> \/ left # {})
      BY <2>3 DEF NextStart, Close, Skip, Call, Return
    <3>2. QED
      BY <2>1, <3>1
  <2>4. QED
    BY <2>2, <2>3 DEF Next, Returned
<1>5. QED
  BY <1>1, <1>2, <1>3, <1>4 DEF CountInv

LEMMA CountAlways == Spec /\ bound = Unbounded => [](SearchInv /\ CountInv)
BY SearchInit, SearchStep, CountInit, CountStep, PTL DEF Spec

\* When run() has been through the last start every cycle is counted.
LEMMA AllCountedAtTheEnd ==
  ASSUME SearchInv, CountInv, calls = <<>>, left = {}
  PROVE  counted = cycles
<1>1. \A x \in cycles : ~Ahead(x)
  BY DEF Ahead
<1>2. QED
  BY <1>1 DEF CountInv

\* Without a length bound run() implements CycleCounting: each simple cycle
\* within the window is counted once for each of its starts, and the histogram
\* returned is theirs.
THEOREM WindowImplementsCounting == Spec /\ bound = Unbounded => CountsWindowCycles
<1>1. Init => Abstract!Init
  BY DEF Init, Abstract!Init
<1>2. SearchInv /\ CountInv /\ [Next]_vars => [Abstract!Next]_(Abstract!vars)
  <2> SUFFICES ASSUME SearchInv, CountInv, [Next]_vars
               PROVE  Abstract!Next \/ UNCHANGED Abstract!vars
    OBVIOUS
  <2>1. CASE Close
    <3>1. <<start, Path>> \in cycles \ counted /\ counted' = counted \cup {<<start, Path>>}
      BY <2>1, CloseCounts
    <3>2. result = NoResult /\ result' = result /\ cycles' = cycles
      BY <2>1, InputUnchanged DEF Close, CountInv
    <3>3. Abstract!Count
      BY <3>1, <3>2 DEF Abstract!Count
    <3>4. QED
      BY <3>3 DEF Abstract!Next
  <2>2. CASE Report
    <3>1. counted = cycles
      BY <2>2, AllCountedAtTheEnd DEF Report
    <3>2. /\ result = NoResult /\ result' = WindowHistogram(counted, N)
          /\ counted' = counted /\ cycles' = cycles
      BY <2>2, InputUnchanged DEF Report, CountInv
    <3>3. Abstract!Report
      BY <3>1, <3>2 DEF Abstract!Report
    <3>4. QED
      BY <3>3 DEF Abstract!Next
  <2>3. CASE ~Close /\ ~Report
    <3>1. counted' = counted /\ result' = result /\ cycles' = cycles
      BY <2>3, InputUnchanged DEF Next, NextStart, Skip, Call, Return, Returned, vars
    <3>2. QED
      BY <3>1 DEF Abstract!vars
  <2>4. QED
    BY <2>1, <2>2, <2>3
<1>3. QED
  BY <1>1, <1>2, CountAlways, PTL DEF Spec, CountsWindowCycles, Abstract!Spec
=============================================================================
