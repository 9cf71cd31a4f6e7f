-------------------------- MODULE OpenMPTasksProofs -------------------------
(***************************************************************************)
(* The tasks of the OpenMP task counter, for every team, graph, bound and  *)
(* cutoff: each one is in the middle of a depth-first search of its        *)
(* subtree, and a thread nests no more of them than the cutoff.            *)
(***************************************************************************)
EXTENDS OpenMPTasks, CycleFacts

-----------------------------------------------------------------------------
(***************************************************************************)
(* Tasks.                                                                  *)
(***************************************************************************)
MaxLength == IF Bounded THEN request.bound ELSE N

Frames == [vertex : V, offset : Nat \ {0}]
Tasks == [frames : Seq(Frames), base : Nat \ {0}]

\* The path of a task is simple, starts at its root and stays above it; from
\* the base on, a frame is of the edge its predecessor consumed last.
SoundTask(task) ==
  /\ task \in Tasks
  /\ task.base <= Depth(task)
  /\ \A i, j \in 1..Depth(task) : i # j => VertexAt(task, i) # VertexAt(task, j)
  /\ \A i \in 2..Depth(task) : VertexAt(task, i) > Root(task)
  /\ \A i \in 1..(Depth(task) - 1) :
       VertexAt(task, i + 1) \in Neighbours(graph, VertexAt(task, i))
  /\ IsSearch(V, graph, task.frames, task.base, Depth(task))
  /\ Bounded => Depth(task) <= request.bound

Typed ==
  /\ request \in Requests
  /\ cycles = Cycles(graph, MaxLength)
  /\ made \in 0..N
  /\ pool \in SUBSET Tasks
  /\ stack \in [Threads -> Seq(Tasks)]
  /\ local \in [Threads -> [Lengths -> Nat]]
  /\ counted \in [Threads -> SUBSET cycles]

SoundTasks == {task \in Tasks : SoundTask(task)}

\* A suspended task makes tasks, and the one above it starts at a longer path.
Nested(tasks, sound, cutoff) ==
  \A i \in 1..Len(tasks) : /\ tasks[i] \in sound
                           /\ i <= tasks[i].base
                           /\ i < Len(tasks) => tasks[i].base < cutoff

\* A waiting task has its base at the end of its path.
TasksInv ==
  /\ \A task \in pool : task \in SoundTasks /\ Depth(task) = task.base
  /\ \A t \in Threads : Nested(stack[t], SoundTasks, request.cutoff)

LEMMA VertexType == V \in SUBSET Int /\ V \in SUBSET Nat /\ IsFiniteSet(V) /\ Cardinality(V) = N
<1>1. IsFiniteSet(V) /\ Cardinality(V) = N
  BY TeamAssumption, FS_Interval DEF V
<1>2. QED
  BY <1>1 DEF V

LEMMA RequestShape ==
  ASSUME Typed
  PROVE  /\ graph \in Adjacencies(V) /\ MaxLength \in Nat
         /\ N \in Nat \ {0}
         /\ cycles = Cycles(graph, MaxLength)
         /\ Bounded => request.bound \in Nat \ {0, 1} /\ MaxLength = request.bound
         /\ ~Bounded => MaxLength = N
         /\ request.cutoff \in Nat \ {0}
BY TeamAssumption, RequestAssumption DEF Typed, graph, Bounded, MaxLength

LEMMA GraphShape ==
  ASSUME Typed
  PROVE  \A v \in V : /\ Len(graph[v]) \in Nat
                      /\ \A i \in 1..Len(graph[v]) : graph[v][i] \in V
                      /\ \A i, j \in 1..Len(graph[v]) : i # j => graph[v][i] # graph[v][j]
BY AdjacencyShape, VertexType, RequestShape

LEMMA TaskShape ==
  ASSUME NEW task \in Tasks
  PROVE  /\ task.frames \in Seq(Frames) /\ task.base \in Nat \ {0}
         /\ Depth(task) \in Nat
         /\ task.frames \in [1..Depth(task) -> Frames]
         /\ \A i \in 1..Depth(task) : /\ task.frames[i] \in Frames
                                      /\ VertexAt(task, i) \in V
                                      /\ VertexAt(task, i) = task.frames[i].vertex
                                      /\ OffsetAt(task, i) \in Nat \ {0}
                                      /\ OffsetAt(task, i) = task.frames[i].offset
<1>1. task.frames \in Seq(Frames) /\ task.base \in Nat \ {0}
  BY DEF Tasks
<1>2. Depth(task) \in Nat /\ task.frames \in [1..Depth(task) -> Frames]
  BY <1>1, LenProperties DEF Depth
<1>3. \A i \in 1..Depth(task) : task.frames[i] \in Frames
  BY <1>2
<1>4. QED
  BY <1>1, <1>2, <1>3 DEF Frames, VertexAt, OffsetAt

\* A task in the hands of a search.
LEMMA SoundShape ==
  ASSUME Typed, NEW task, SoundTask(task)
  PROVE  /\ Depth(task) \in 1..Depth(task) /\ Depth(task) \in Nat \ {0}
         /\ task.base \in 1..Depth(task)
         /\ Root(task) \in V /\ Current(task) \in V
         /\ Current(task) = task.frames[Depth(task)].vertex
         /\ Offset(task) = task.frames[Depth(task)].offset
         /\ Offset(task) \in Nat \ {0} /\ Len(graph[Current(task)]) \in Nat
         /\ ~Exhausted(task) => /\ Offset(task) \in 1..Len(graph[Current(task)])
                                /\ NextVertex(task) \in V
                                /\ NextVertex(task) \in Neighbours(graph, Current(task))
<1>1. /\ task \in Tasks /\ task.base <= Depth(task)
  BY DEF SoundTask
<1>2. Depth(task) \in Nat /\ task.base \in Nat \ {0}
  BY <1>1, TaskShape
<1>3. Depth(task) \in 1..Depth(task) /\ 1 \in 1..Depth(task) /\ task.base \in 1..Depth(task)
  BY <1>1, <1>2
<1>4. /\ Root(task) \in V /\ Current(task) \in V
      /\ Current(task) = task.frames[Depth(task)].vertex
      /\ Offset(task) = task.frames[Depth(task)].offset
      /\ Offset(task) \in Nat \ {0}
  BY <1>1, <1>3, TaskShape DEF Root, Current, Offset
<1>5. Len(graph[Current(task)]) \in Nat
  BY <1>4, GraphShape
<1>6. ASSUME ~Exhausted(task)
      PROVE  /\ Offset(task) \in 1..Len(graph[Current(task)])
             /\ NextVertex(task) \in V
             /\ NextVertex(task) \in Neighbours(graph, Current(task))
  <2>1. Offset(task) \in 1..Len(graph[Current(task)])
    BY <1>4, <1>5, <1>6 DEF Exhausted
  <2>2. QED
    BY <1>4, <2>1, GraphShape DEF NextVertex, Neighbours
<1>7. QED
  BY <1>2, <1>3, <1>4, <1>5, <1>6

\* The task that has moved on to its next edge.
LEMMA AdvancedShape ==
  ASSUME NEW task \in Tasks, Depth(task) \in 1..Depth(task)
  PROVE  /\ Advanced(task) \in Tasks /\ Advanced(task).base = task.base
         /\ Depth(Advanced(task)) = Depth(task)
         /\ \A i \in 1..Depth(task) :
              Advanced(task).frames[i].vertex = task.frames[i].vertex
         /\ \A i \in 1..(Depth(task) - 1) : Advanced(task).frames[i] = task.frames[i]
         /\ Advanced(task).frames[Depth(task)].offset = task.frames[Depth(task)].offset + 1
<1> DEFINE d == Depth(task)
           last == [task.frames[d] EXCEPT !.offset = @ + 1]
           frames == [task.frames EXCEPT ![d] = last]
<1>1. /\ d \in 1..d /\ d = Len(task.frames) /\ d \in Nat /\ task.frames \in Seq(Frames)
      /\ \A i \in 1..d : task.frames[i] \in Frames
      /\ task.base \in Nat \ {0}
  BY TaskShape DEF Depth
<1>2. Advanced(task) = [task EXCEPT !.frames = frames]
  BY DEF Advanced
<1>3. last \in Frames /\ last.vertex = task.frames[d].vertex /\ last.offset = task.frames[d].offset + 1
  BY <1>1 DEF Frames
<1>4. frames \in Seq(Frames) /\ Len(frames) = d /\ \A i \in 1..d : frames[i] = IF i = d THEN last ELSE task.frames[i]
  <2> HIDE DEF last
  <2> QED BY <1>1, <1>3, ExceptSeq
<1> HIDE DEF frames, last
<1>5. Advanced(task) \in Tasks /\ Advanced(task).base = task.base /\ Advanced(task).frames = frames
  BY <1>1, <1>2, <1>4 DEF Tasks
<1>6. Depth(Advanced(task)) = d
  BY <1>4, <1>5 DEF Depth
<1>7. \A i \in 1..(d - 1) : i \in 1..d /\ i # d
  BY <1>1
<1>8. QED
  BY <1>1, <1>3, <1>4, <1>5, <1>6, <1>7

\* The extension of a task by a vertex: a recursive call goes on with it, and a
\* task made of it starts there.
Extended(task, w, b) == [frames |-> Append(task.frames, NewFrame(w)), base |-> b]

LEMMA ExtendedShape ==
  ASSUME NEW task \in Tasks, NEW w \in V, NEW b \in Nat \ {0}
  PROVE  /\ Extended(task, w, b) \in Tasks /\ Extended(task, w, b).base = b
         /\ Depth(Extended(task, w, b)) = Depth(task) + 1
         /\ \A i \in 1..Depth(task) : Extended(task, w, b).frames[i] = task.frames[i]
         /\ Extended(task, w, b).frames[Depth(task) + 1].vertex = w
         /\ Extended(task, w, b).frames[Depth(task) + 1].offset = 1
<1> DEFINE extended == Extended(task, w, b)
<1>1. task.frames \in Seq(Frames) /\ Depth(task) = Len(task.frames) /\ Depth(task) \in Nat
  BY TaskShape DEF Depth
<1>2. NewFrame(w) \in Frames /\ NewFrame(w).vertex = w /\ NewFrame(w).offset = 1
  BY DEF NewFrame, Frames
<1> DEFINE frames == Append(task.frames, NewFrame(w))
<1>3. /\ frames \in Seq(Frames) /\ Len(frames) = Depth(task) + 1
      /\ \A i \in 1..Depth(task) : frames[i] = task.frames[i]
      /\ frames[Depth(task) + 1] = NewFrame(w)
  BY <1>1, <1>2, AppendProperties
<1> HIDE DEF frames
<1>4. extended.frames = frames /\ extended.base = b /\ extended \in Tasks
  BY <1>3 DEF frames, Tasks, Extended
<1>5. Depth(extended) = Depth(task) + 1
  BY <1>3, <1>4 DEF Depth
<1>6. QED
  BY <1>2, <1>3, <1>4, <1>5

\* The task after a recursive call has returned.
Shortened(task) == [task EXCEPT !.frames = SubSeq(@, 1, Len(@) - 1)]

LEMMA ShortenedShape ==
  ASSUME NEW task \in Tasks, Depth(task) \in Nat \ {0}
  PROVE  /\ Shortened(task) \in Tasks /\ Shortened(task).base = task.base
         /\ Depth(Shortened(task)) = Depth(task) - 1
         /\ \A i \in 1..(Depth(task) - 1) : Shortened(task).frames[i] = task.frames[i]
<1>1. /\ task.frames \in Seq(Frames) /\ Depth(task) = Len(task.frames) /\ task.base \in Nat \ {0}
      /\ \A i \in 1..Depth(task) : task.frames[i] \in Frames
  BY TaskShape DEF Depth
<1> DEFINE frames == SubSeq(task.frames, 1, Len(task.frames) - 1)
<1>2. frames = [i \in 1..(Depth(task) - 1) |-> task.frames[i]]
  BY <1>1
<1>3. Len(frames) = Depth(task) - 1 /\ frames \in Seq(Frames)
  BY <1>1
<1>4. Shortened(task) = [task EXCEPT !.frames = frames]
  BY DEF Shortened
<1> HIDE DEF frames
<1>5. Shortened(task) \in Tasks /\ Shortened(task).base = task.base /\ Shortened(task).frames = frames
  BY <1>1, <1>3, <1>4 DEF Tasks
<1>6. Depth(Shortened(task)) = Depth(task) - 1
  BY <1>3, <1>5 DEF Depth
<1>7. QED
  BY <1>2, <1>5, <1>6

LEMMA RootTaskSound ==
  ASSUME Typed, NEW v \in V
  PROVE  /\ SoundTask(RootTask(v)) /\ Depth(RootTask(v)) = RootTask(v).base
         /\ RootTask(v).base = 1 /\ RootTask(v).frames[1].vertex = v
         /\ RootTask(v).frames[1].offset = 1
<1>1. /\ RootTask(v).base = 1 /\ Depth(RootTask(v)) = 1
      /\ RootTask(v).frames[1].vertex = v /\ RootTask(v).frames[1].offset = 1
      /\ VertexAt(RootTask(v), 1) = v
  BY DEF RootTask, NewFrame, Depth, VertexAt
<1>2. RootTask(v) \in Tasks
  <2>1. NewFrame(v) \in Frames
    BY DEF NewFrame, Frames
  <2>2. <<NewFrame(v)>> \in Seq(Frames)
    BY <2>1
  <2>3. QED
    BY <2>2 DEF RootTask, Tasks
<1>3. IsSearch(V, graph, RootTask(v).frames, 1, 1)
  <2>1. Len(graph[v]) \in Nat
    BY GraphShape
  <2>2. QED
    BY <1>1, <2>1 DEF IsSearch
<1>4. Bounded => 1 <= request.bound
  BY RequestShape
<1>5. QED
  BY <1>1, <1>2, <1>3, <1>4 DEF SoundTask

LEMMA AdvancedSound ==
  ASSUME Typed, NEW task, SoundTask(task), ~Exhausted(task)
  PROVE  SoundTask(Advanced(task))
<1> DEFINE next == Advanced(task)
           d == Depth(task)
<1>1. /\ d \in 1..d /\ d \in Nat \ {0} /\ task \in Tasks /\ task.base \in 1..d
      /\ Offset(task) = task.frames[d].offset /\ Current(task) = task.frames[d].vertex
      /\ Offset(task) \in 1..Len(graph[Current(task)]) /\ Len(graph[Current(task)]) \in Nat
  BY SoundShape DEF SoundTask
<1>2. /\ next \in Tasks /\ next.base = task.base /\ Depth(next) = d
      /\ \A i \in 1..d : next.frames[i].vertex = task.frames[i].vertex
      /\ \A i \in 1..(d - 1) : next.frames[i] = task.frames[i]
      /\ next.frames[d].offset = task.frames[d].offset + 1
  BY <1>1, AdvancedShape
<1> HIDE DEF next
<1>3. \A i \in 1..d : VertexAt(next, i) = VertexAt(task, i)
  BY <1>2 DEF VertexAt
<1>4. \A i \in 1..(d - 1) : i \in 1..d /\ i + 1 \in 1..d
  BY <1>1
<1>5. \A i \in 2..d : i \in 1..d /\ 1 \in 1..d
  BY <1>1
<1>6. /\ \A i, j \in 1..d : i # j => VertexAt(next, i) # VertexAt(next, j)
      /\ \A i \in 2..d : VertexAt(next, i) > Root(next)
      /\ \A i \in 1..(d - 1) : VertexAt(next, i + 1) \in Neighbours(graph, VertexAt(next, i))
  BY <1>1, <1>3, <1>4, <1>5 DEF SoundTask, Root
<1>7. IsSearch(V, graph, next.frames, next.base, d)
  <2>1. /\ \A k \in task.base..d : /\ task.frames[k].vertex \in V
                                  /\ task.frames[k].offset \in 1..(Len(graph[task.frames[k].vertex]) + 1)
        /\ \A k \in task.base..(d - 1) :
             /\ task.frames[k].offset >= 2
             /\ graph[task.frames[k].vertex][task.frames[k].offset - 1] = task.frames[k + 1].vertex
    BY DEF SoundTask, IsSearch
  <2>2. ASSUME NEW k \in task.base..d
        PROVE  /\ next.frames[k].vertex \in V
               /\ next.frames[k].offset \in 1..(Len(graph[next.frames[k].vertex]) + 1)
    <3>1. CASE k = d
      <4>1. /\ next.frames[k].offset = Offset(task) + 1 /\ next.frames[k].vertex = Current(task)
            /\ Current(task) \in V
        BY <1>1, <1>2, <2>1, <3>1
      <4>2. Offset(task) + 1 \in 1..(Len(graph[Current(task)]) + 1)
        BY <1>1, SMTT(30)
      <4>3. QED
        BY <4>1, <4>2
    <3>2. CASE k # d
      <4>1. k \in 1..(d - 1)
        BY <1>1, <3>2
      <4>2. QED
        BY <1>2, <2>1, <4>1
    <3>3. QED
      BY <3>1, <3>2
  <2>3. ASSUME NEW k \in task.base..(d - 1)
        PROVE  /\ next.frames[k].offset >= 2
               /\ graph[next.frames[k].vertex][next.frames[k].offset - 1] = next.frames[k + 1].vertex
    <3>1. k \in 1..(d - 1) /\ k + 1 \in 1..d
      BY <1>1
    <3>2. next.frames[k] = task.frames[k] /\ next.frames[k + 1].vertex = task.frames[k + 1].vertex
      BY <1>2, <3>1
    <3>3. QED
      BY <2>1, <3>2
  <2>4. QED
    BY <1>2, <2>2, <2>3 DEF IsSearch
<1>8. SoundTask(next)
  BY <1>1, <1>2, <1>6, <1>7 DEF SoundTask
<1>9. QED
  BY <1>8 DEF next

\* What is asked of a vertex to go on to.
LEMMA OpenVertex ==
  ASSUME Typed, NEW task, SoundTask(task), ~Exhausted(task),
         ~Closes(task, NextVertex(task)), ~Pruned(task, NextVertex(task))
  PROVE  /\ NextVertex(task) \in V /\ NextVertex(task) > Root(task)
         /\ \A i \in 1..Depth(task) : VertexAt(task, i) # NextVertex(task)
         /\ Bounded => Depth(task) + 1 <= request.bound
         /\ NextVertex(task) \in Neighbours(graph, Current(task))
<1>1. /\ NextVertex(task) \in V /\ Root(task) \in V /\ Depth(task) \in Nat
      /\ NextVertex(task) \in Neighbours(graph, Current(task))
  BY SoundShape
<1>2. NextVertex(task) > Root(task)
  <2>1. NextVertex(task) \in Int /\ Root(task) \in Int
    BY <1>1, VertexType
  <2>2. ~(NextVertex(task) <= Root(task))
    BY DEF Pruned
  <2>3. QED
    BY <2>1, <2>2
<1>3. Bounded => Depth(task) + 1 <= request.bound
  BY <1>1, RequestShape DEF Pruned
<1>4. QED
  BY <1>1, <1>2, <1>3 DEF Pruned

\* The path with one more vertex is that of a task.
LEMMA ExtendedSound ==
  ASSUME Typed, NEW task, SoundTask(task), NEW w \in V,
         w > Root(task), w \in Neighbours(graph, Current(task)),
         \A i \in 1..Depth(task) : VertexAt(task, i) # w,
         Bounded => Depth(task) + 1 <= request.bound,
         NEW b \in Nat \ {0},
         \/ b = Depth(task) + 1
         \/ /\ b = task.base /\ Offset(task) >= 2
            /\ graph[Current(task)][Offset(task) - 1] = w
  PROVE  SoundTask(Extended(task, w, b))
<1> DEFINE d == Depth(task)
           extended == Extended(task, w, b)
<1>1. /\ d \in 1..d /\ d \in Nat \ {0} /\ task \in Tasks /\ task.base \in 1..d
      /\ Offset(task) = task.frames[d].offset /\ Current(task) = task.frames[d].vertex
  BY SoundShape DEF SoundTask
<1>2. /\ extended \in Tasks /\ extended.base = b /\ Depth(extended) = d + 1
      /\ \A i \in 1..d : extended.frames[i] = task.frames[i]
      /\ extended.frames[d + 1].vertex = w /\ extended.frames[d + 1].offset = 1
  BY <1>1, ExtendedShape
<1> HIDE DEF extended
<1>3. /\ \A i \in 1..d : VertexAt(extended, i) = VertexAt(task, i)
      /\ VertexAt(extended, d + 1) = w
      /\ VertexAt(task, d) = Current(task)
  BY <1>2 DEF VertexAt, Current
<1>4. \A i \in 1..(d + 1) : i \in 1..d \/ i = d + 1
  BY <1>1
<1>5. /\ \A i \in 1..d : i = d \/ (i \in 1..(d - 1) /\ i + 1 \in 1..d)
      /\ \A i \in 2..(d + 1) : i \in 2..d \/ i = d + 1
      /\ \A i \in 2..d : i \in 1..d
      /\ 1 \in 1..d
  BY <1>1
<1>6. \A i, j \in 1..(d + 1) : i # j => VertexAt(extended, i) # VertexAt(extended, j)
  BY <1>3, <1>4 DEF SoundTask
<1>7. \A i \in 2..(d + 1) : VertexAt(extended, i) > Root(extended)
  <2>1. Root(extended) = Root(task)
    BY <1>3, <1>5 DEF Root
  <2>2. QED
    BY <1>3, <1>5, <2>1 DEF SoundTask
<1>8. \A i \in 1..d : VertexAt(extended, i + 1) \in Neighbours(graph, VertexAt(extended, i))
  BY <1>1, <1>3, <1>5 DEF SoundTask
<1>9. IsSearch(V, graph, extended.frames, b, d + 1)
  <2>1. Len(graph[w]) \in Nat
    BY GraphShape
  <2>2. 1 \in 1..(Len(graph[w]) + 1)
    BY <2>1
  <2>3. CASE b = d + 1
    <3>1. \A k \in b..(d + 1) : k = d + 1
      BY <1>1, <2>3
    <3>2. \A k \in b..((d + 1) - 1) : FALSE
      BY <1>1, <2>3
    <3>3. QED
      BY <1>2, <2>2, <3>1, <3>2 DEF IsSearch
  <2>4. CASE /\ b = task.base /\ Offset(task) >= 2
             /\ graph[Current(task)][Offset(task) - 1] = w
    <3>1. /\ \A k \in b..d : /\ task.frames[k].vertex \in V
                            /\ task.frames[k].offset \in 1..(Len(graph[task.frames[k].vertex]) + 1)
          /\ \A k \in b..(d - 1) :
               /\ task.frames[k].offset >= 2
               /\ graph[task.frames[k].vertex][task.frames[k].offset - 1] = task.frames[k + 1].vertex
      BY <2>4 DEF SoundTask, IsSearch
    <3>2. \A k \in b..(d + 1) : k = d + 1 \/ (k \in b..d /\ k \in 1..d)
      BY <1>1, <2>4
    <3>3. \A k \in b..d : k \in 1..d /\ (k = d \/ (k \in b..(d - 1) /\ k + 1 \in 1..d))
      BY <1>1, <2>4
    <3>4. \A k \in b..(d + 1) : /\ extended.frames[k].vertex \in V
                               /\ extended.frames[k].offset \in 1..(Len(graph[extended.frames[k].vertex]) + 1)
      BY <1>2, <2>2, <3>1, <3>2
    <3>5. ASSUME NEW k \in b..d
          PROVE  /\ extended.frames[k].offset >= 2
                 /\ graph[extended.frames[k].vertex][extended.frames[k].offset - 1]
                      = extended.frames[k + 1].vertex
      <4>1. extended.frames[k] = task.frames[k]
        BY <1>2, <3>3
      <4>2. CASE k = d
        BY <1>1, <1>2, <2>4, <4>1, <4>2
      <4>3. CASE k # d
        <5>1. k \in b..(d - 1) /\ k + 1 \in 1..d
          BY <3>3, <4>3
        <5>2. extended.frames[k + 1] = task.frames[k + 1]
          BY <1>2, <5>1
        <5>3. QED
          BY <3>1, <4>1, <5>1, <5>2
      <4>4. QED
        BY <4>2, <4>3
    <3>6. (d + 1) - 1 = d
      BY <1>1
    <3>7. QED
      BY <3>4, <3>5, <3>6 DEF IsSearch
  <2>5. QED
    BY <2>3, <2>4
<1>10. b <= d + 1 /\ (d + 1) - 1 = d
  BY <1>1
<1>11. SoundTask(extended)
  BY <1>2, <1>6, <1>7, <1>8, <1>9, <1>10 DEF SoundTask
<1>12. QED
  BY <1>11 DEF extended

LEMMA ShortenedSound ==
  ASSUME Typed, NEW task, SoundTask(task), Depth(task) > task.base
  PROVE  SoundTask(Shortened(task))
<1> DEFINE next == Shortened(task)
           d == Depth(task)
<1>1. d \in Nat \ {0} /\ task \in Tasks /\ task.base \in 1..d /\ d > task.base
  BY SoundShape DEF SoundTask
<1>2. /\ next \in Tasks /\ next.base = task.base /\ Depth(next) = d - 1
      /\ \A i \in 1..(d - 1) : next.frames[i] = task.frames[i]
  BY <1>1, ShortenedShape
<1> HIDE DEF next
<1>3. \A i \in 1..(d - 1) : VertexAt(next, i) = VertexAt(task, i)
  BY <1>2 DEF VertexAt
<1>4. /\ \A i \in 1..(d - 1) : i \in 1..d
      /\ \A i \in 2..(d - 1) : i \in 2..d /\ i \in 1..(d - 1)
      /\ \A i \in 1..((d - 1) - 1) : i \in 1..(d - 1) /\ i + 1 \in 1..(d - 1)
      /\ 1 \in 1..(d - 1)
      /\ \A k \in task.base..(d - 1) : k \in task.base..d /\ k \in 1..(d - 1)
      /\ \A k \in task.base..((d - 1) - 1) : k \in task.base..(d - 1) /\ k \in 1..(d - 1)
                                              /\ k + 1 \in 1..(d - 1)
      /\ task.base <= d - 1
  <2> DEFINE b == task.base
  <2>1. b \in Nat \ {0} /\ b \in 1..d /\ d > b /\ d \in Nat
    BY <1>1
  <2> HIDE DEF b, d
  <2>2. /\ \A i \in 1..(d - 1) : i \in 1..d
        /\ \A i \in 2..(d - 1) : i \in 2..d /\ i \in 1..(d - 1)
        /\ \A i \in 1..((d - 1) - 1) : i \in 1..(d - 1) /\ i + 1 \in 1..(d - 1)
        /\ 1 \in 1..(d - 1)
    BY <2>1
  <2>3. /\ \A k \in b..(d - 1) : k \in b..d /\ k \in 1..(d - 1)
        /\ \A k \in b..((d - 1) - 1) : k \in b..(d - 1) /\ k \in 1..(d - 1) /\ k + 1 \in 1..(d - 1)
        /\ b <= d - 1
    BY <2>1
  <2>4. QED
    BY <2>2, <2>3 DEF b
<1>5. /\ \A i, j \in 1..(d - 1) : i # j => VertexAt(next, i) # VertexAt(next, j)
      /\ \A i \in 2..(d - 1) : VertexAt(next, i) > Root(next)
      /\ \A i \in 1..((d - 1) - 1) : VertexAt(next, i + 1) \in Neighbours(graph, VertexAt(next, i))
  BY <1>3, <1>4 DEF SoundTask, Root
<1>6. IsSearch(V, graph, next.frames, task.base, d - 1)
  BY <1>2, <1>4 DEF SoundTask, IsSearch
<1>7. Bounded => d - 1 <= request.bound
  BY <1>1, RequestShape DEF SoundTask
<1>8. SoundTask(next)
  BY <1>2, <1>4, <1>5, <1>6, <1>7 DEF SoundTask
<1>9. QED
  BY <1>8 DEF next

\* The tasks that an extension of the path becomes.
Descended(task) == [Advanced(task) EXCEPT !.frames = Append(@, NewFrame(NextVertex(task)))]

LEMMA ChildShape ==
  ASSUME Typed, NEW task, SoundTask(task), ~Exhausted(task),
         ~Closes(task, NextVertex(task)), ~Pruned(task, NextVertex(task))
  PROVE  /\ SoundTask(Child(task, NextVertex(task)))
         /\ Child(task, NextVertex(task)) = Extended(task, NextVertex(task), Depth(task) + 1)
         /\ Depth(Child(task, NextVertex(task))) = Depth(task) + 1
         /\ Child(task, NextVertex(task)).base = Depth(task) + 1
<1> DEFINE w == NextVertex(task)
           b == Depth(task) + 1
<1>1. /\ w \in V /\ w > Root(task) /\ w \in Neighbours(graph, Current(task))
      /\ \A i \in 1..Depth(task) : VertexAt(task, i) # w
      /\ Bounded => Depth(task) + 1 <= request.bound
      /\ task \in Tasks /\ b \in Nat \ {0}
  BY OpenVertex, SoundShape DEF SoundTask
<1>2. Child(task, w) = Extended(task, w, b)
  BY DEF Child, Extended
<1> HIDE DEF w
<1>3. SoundTask(Extended(task, w, b))
  BY <1>1, ExtendedSound
<1>4. Depth(Extended(task, w, b)) = Depth(task) + 1 /\ Extended(task, w, b).base = b
  BY <1>1, ExtendedShape
<1>5. QED
  BY <1>2, <1>3, <1>4 DEF w

LEMMA DescendedShape ==
  ASSUME Typed, NEW task, SoundTask(task), ~Exhausted(task),
         ~Closes(task, NextVertex(task)), ~Pruned(task, NextVertex(task))
  PROVE  /\ SoundTask(Descended(task))
         /\ Descended(task) = Extended(Advanced(task), NextVertex(task), task.base)
         /\ Descended(task).base = task.base
<1> DEFINE w == NextVertex(task)
           next == Advanced(task)
           d == Depth(task)
<1>1. /\ w \in V /\ w > Root(task) /\ w \in Neighbours(graph, Current(task))
      /\ \A i \in 1..d : VertexAt(task, i) # w
      /\ Bounded => d + 1 <= request.bound
      /\ task \in Tasks /\ d \in 1..d /\ d \in Nat \ {0} /\ task.base \in Nat \ {0}
      /\ Offset(task) = task.frames[d].offset /\ Offset(task) \in Nat \ {0}
      /\ w = graph[Current(task)][Offset(task)]
  BY OpenVertex, SoundShape, TaskShape DEF SoundTask, NextVertex
<1>2. /\ next \in Tasks /\ next.base = task.base /\ Depth(next) = d
      /\ \A i \in 1..d : next.frames[i].vertex = task.frames[i].vertex
      /\ next.frames[d].offset = task.frames[d].offset + 1
  BY <1>1, AdvancedShape
<1>3. SoundTask(next)
  BY AdvancedSound
<1>4. Descended(task) = Extended(next, w, task.base)
  <2>1. next = [frames |-> next.frames, base |-> next.base]
    BY <1>2 DEF Tasks
  <2>2. QED
    <3> HIDE DEF next, w
    <3> QED BY <1>2, <2>1, SMTT(30) DEF Descended, Extended, next, w
<1> HIDE DEF next, w
<1>5. \A i \in 1..d : VertexAt(next, i) = VertexAt(task, i)
  BY <1>2 DEF VertexAt
<1>6. /\ Root(next) = Root(task) /\ Current(next) = Current(task)
      /\ Offset(next) = Offset(task) + 1
  <2>1. 1 \in 1..d
    BY <1>1
  <2>2. QED
    BY <1>1, <1>2, <1>5, <2>1 DEF Root, Current, Offset, OffsetAt
<1>7. Offset(next) >= 2 /\ graph[Current(next)][Offset(next) - 1] = w
  <2>1. Offset(next) - 1 = Offset(task) /\ Offset(next) >= 2
    BY <1>1, <1>6
  <2>2. QED
    BY <1>1, <1>6, <2>1
<1>8. SoundTask(Extended(next, w, task.base))
  BY <1>1, <1>2, <1>3, <1>5, <1>6, <1>7, ExtendedSound
<1>9. Extended(next, w, task.base).base = task.base
  BY DEF Extended
<1>10. QED
  BY <1>4, <1>8, <1>9 DEF next, w

\* A task that closes a path has found a cycle.
LEMMA ClosingTask ==
  ASSUME Typed, NEW task, SoundTask(task), ~Exhausted(task), Closes(task, NextVertex(task))
  PROVE  /\ Path(task) \in cycles /\ Len(Path(task)) = Depth(task)
         /\ Path(task)[1] = Root(task) /\ Depth(task) >= 2
<1> DEFINE d == Depth(task)
           c == Path(task)
<1>1. /\ d \in 1..d /\ d \in Nat \ {0} /\ d >= 2 /\ task \in Tasks
      /\ NextVertex(task) = Root(task) /\ NextVertex(task) \in Neighbours(graph, Current(task))
      /\ \A i \in 1..d : VertexAt(task, i) \in V
      /\ graph \in Adjacencies(V) /\ MaxLength \in Nat /\ cycles = Cycles(graph, MaxLength)
  BY SoundShape, RequestShape, TaskShape DEF SoundTask, Closes
<1>2. c \in [1..d -> V] /\ \A i \in 1..d : c[i] = VertexAt(task, i)
  BY <1>1 DEF Path
<1>3. d \in 2..MaxLength
  <2>1. CASE Bounded
    <3>1. d <= request.bound /\ MaxLength = request.bound /\ request.bound \in Nat
      BY <2>1, RequestShape DEF SoundTask
    <3>2. QED
      BY <1>1, <3>1
  <2>2. CASE ~Bounded
    <3>1. \A i, j \in 1..d : i # j => c[i] # c[j]
      BY <1>2 DEF SoundTask
    <3> DEFINE D == 1..d
    <3>2. c \in [D -> V] /\ IsFiniteSet(D) /\ Cardinality(D) = d
      BY <1>1, <1>2, FS_Interval
    <3> HIDE DEF D, c
    <3>3. Cardinality(V) < Cardinality(D) => \E x, y \in D : x # y /\ c[x] = c[y]
      BY <3>2, VertexType, FS_PigeonHole
    <3>4. ~(N < d) /\ MaxLength = N /\ N \in Nat
      BY <2>2, <3>1, <3>2, <3>3, VertexType, RequestShape DEF D
    <3>5. QED
      BY <1>1, <3>4
  <2>3. QED
    BY <2>1, <2>2
<1>4. /\ \A i, j \in 1..d : i # j => c[i] # c[j]
      /\ \A i \in 2..d : c[1] < c[i]
      /\ \A i \in 1..(d - 1) : c[i + 1] \in Neighbours(graph, c[i])
      /\ c[1] \in Neighbours(graph, c[d])
      /\ c[1] = Root(task)
  <2>1. /\ \A i \in 2..d : i \in 1..d /\ c[i] \in Int
        /\ \A i \in 1..(d - 1) : i \in 1..d /\ i + 1 \in 1..d
        /\ 1 \in 1..d
    <3>1. /\ \A i \in 2..d : i \in 1..d
          /\ \A i \in 1..(d - 1) : i \in 1..d /\ i + 1 \in 1..d
          /\ 1 \in 1..d
      BY <1>1
    <3>2. \A i \in 1..d : c[i] \in Int
      <4> HIDE DEF c
      <4> QED BY <1>2, VertexType
    <3>3. QED
      BY <3>1, <3>2
  <2>2. c[1] = Root(task) /\ c[d] = Current(task) /\ c[1] \in Int
    BY <1>1, <1>2, <2>1, VertexType DEF Root, Current
  <2>3. \A i \in 2..d : c[i] > Root(task)
    BY <1>2, <2>1 DEF SoundTask
  <2>4. \A i, j \in 1..d : i # j => c[i] # c[j]
    BY <1>2 DEF SoundTask
  <2>5. \A i \in 1..(d - 1) : c[i + 1] \in Neighbours(graph, c[i])
    BY <1>2, <2>1 DEF SoundTask
  <2>6. QED
    <3> HIDE DEF c
    <3> QED BY <1>1, <2>1, <2>2, <2>3, <2>4, <2>5
<1>5. c \in Cycles(graph, MaxLength) /\ Len(c) = d
  <2>1. /\ graph \in Adjacencies(V) /\ MaxLength \in Nat
        /\ c[1] \in Neighbours(graph, c[d])
    BY <1>1, <1>4
  <2>2. c \in [1..d -> V]
    BY <1>2
  <2> HIDE DEF c, d
  <2>3. QED
    BY <1>3, <1>4, <2>1, <2>2, ClosedPathIsCycle, SMTT(30)
<1>6. QED
  BY <1>1, <1>4, <1>5

-----------------------------------------------------------------------------
(***************************************************************************)
(* The stacks of tasks.                                                    *)
(***************************************************************************)
LEMMA NestedReplace ==
  ASSUME NEW tasks \in Seq(Tasks), tasks # <<>>, NEW sound, NEW cutoff,
         Nested(tasks, sound, cutoff),
         NEW new \in Tasks, new \in sound, new.base = tasks[Len(tasks)].base
  PROVE  /\ [tasks EXCEPT ![Len(tasks)] = new] \in Seq(Tasks)
         /\ Len([tasks EXCEPT ![Len(tasks)] = new]) = Len(tasks)
         /\ \A i \in 1..Len(tasks) : [tasks EXCEPT ![Len(tasks)] = new][i]
                                       = IF i = Len(tasks) THEN new ELSE tasks[i]
         /\ Nested([tasks EXCEPT ![Len(tasks)] = new], sound, cutoff)
<1>1. Len(tasks) \in Nat /\ Len(tasks) \in 1..Len(tasks)
  BY LenProperties, EmptySeq
<1>2. /\ [tasks EXCEPT ![Len(tasks)] = new] \in Seq(Tasks)
      /\ Len([tasks EXCEPT ![Len(tasks)] = new]) = Len(tasks)
      /\ \A i \in 1..Len(tasks) : [tasks EXCEPT ![Len(tasks)] = new][i]
                                    = IF i = Len(tasks) THEN new ELSE tasks[i]
  BY <1>1, ExceptSeq
<1>3. QED
  BY <1>2 DEF Nested

LEMMA NestedPush ==
  ASSUME NEW tasks \in Seq(Tasks), NEW sound, NEW cutoff, Nested(tasks, sound, cutoff),
         NEW new \in Tasks, new \in sound,
         tasks # <<>> => /\ tasks[Len(tasks)].base < cutoff
                         /\ tasks[Len(tasks)].base < new.base
  PROVE  /\ Append(tasks, new) \in Seq(Tasks)
         /\ Len(Append(tasks, new)) = Len(tasks) + 1
         /\ \A i \in 1..Len(tasks) : Append(tasks, new)[i] = tasks[i]
         /\ Append(tasks, new)[Len(tasks) + 1] = new
         /\ Nested(Append(tasks, new), sound, cutoff)
<1> DEFINE n == Len(tasks)
           more == Append(tasks, new)
<1>1. /\ n \in Nat /\ (tasks # <<>> <=> n # 0)
      /\ more \in Seq(Tasks) /\ Len(more) = n + 1
      /\ \A i \in 1..n : more[i] = tasks[i]
      /\ more[n + 1] = new
  BY LenProperties, EmptySeq, AppendProperties
<1>2. \A i \in 1..n : tasks[i] \in sound /\ i <= tasks[i].base /\ (i < n => tasks[i].base < cutoff)
  BY DEF Nested
<1>3. new.base \in Nat \ {0} /\ \A i \in 1..n : tasks[i].base \in Nat
  <2>1. \A i \in 1..n : tasks[i] \in Tasks
    BY LenProperties
  <2>2. QED
    BY <2>1 DEF Tasks
<1> HIDE DEF more
<1>4. n + 1 <= new.base
  <2>1. CASE n = 0
    BY <1>3, <2>1
  <2>2. CASE n # 0
    <3>1. n \in 1..n /\ tasks[n].base < new.base
      BY <1>1, <2>2
    <3>2. QED
      BY <1>1, <1>2, <1>3, <3>1
  <2>3. QED
    BY <2>1, <2>2
<1>5. ASSUME NEW i \in 1..(n + 1)
      PROVE  more[i] \in sound /\ i <= more[i].base /\ (i < n + 1 => more[i].base < cutoff)
  <2>1. CASE i = n + 1
    BY <1>1, <1>4, <2>1
  <2>2. CASE i # n + 1
    <3>1. i \in 1..n /\ (i = n \/ i < n)
      BY <1>1, <2>2
    <3>2. tasks # <<>>
      BY <1>1, <3>1
    <3>3. QED
      BY <1>1, <1>2, <3>1, <3>2
  <2>3. QED
    BY <2>1, <2>2
<1>6. Nested(more, sound, cutoff)
  BY <1>1, <1>5 DEF Nested
<1>7. QED
  BY <1>1, <1>6 DEF more

LEMMA NestedPop ==
  ASSUME NEW tasks \in Seq(Tasks), tasks # <<>>, NEW sound, NEW cutoff,
         Nested(tasks, sound, cutoff)
  PROVE  /\ SubSeq(tasks, 1, Len(tasks) - 1) \in Seq(Tasks)
         /\ Len(SubSeq(tasks, 1, Len(tasks) - 1)) = Len(tasks) - 1
         /\ \A i \in 1..(Len(tasks) - 1) : SubSeq(tasks, 1, Len(tasks) - 1)[i] = tasks[i]
         /\ Nested(SubSeq(tasks, 1, Len(tasks) - 1), sound, cutoff)
<1> DEFINE n == Len(tasks)
           less == SubSeq(tasks, 1, n - 1)
<1>1. n \in Nat /\ n # 0
  BY LenProperties, EmptySeq
<1>2. \A i \in 1..n : tasks[i] \in Tasks
  BY LenProperties
<1>3. /\ less \in Seq(Tasks) /\ Len(less) = n - 1
      /\ \A i \in 1..(n - 1) : less[i] = tasks[i]
  <2>1. less = [i \in 1..(n - 1) |-> tasks[i]]
    BY <1>1
  <2>2. less \in Seq(Tasks) /\ Len(less) = n - 1
    <3>1. n - 1 \in Int /\ 1 \in Int /\ \A i \in 1..(n - 1) : tasks[i] \in Tasks
      BY <1>1, <1>2
    <3>2. less \in Seq(Tasks) /\ Len(less) = IF 1 <= n - 1 THEN (n - 1) - 1 + 1 ELSE 0
      <4> DEFINE m == n - 1
      <4>1. m \in Int /\ \A i \in 1..m : tasks[i] \in Tasks
        BY <3>1
      <4> HIDE DEF m
      <4>2. SubSeq(tasks, 1, m) \in Seq(Tasks) /\ Len(SubSeq(tasks, 1, m)) = IF 1 <= m THEN m - 1 + 1 ELSE 0
        BY <3>1, <4>1, SubSeqProperties
      <4>3. QED
        BY <4>2 DEF m
    <3>3. QED
      <4> HIDE DEF n, less
      <4> QED BY <1>1, <3>2
  <2>3. QED
    <3> HIDE DEF less, n
    <3> QED BY <2>1, <2>2
<1>4. \A i \in 1..(n - 1) : i \in 1..n /\ i < n
  BY <1>1
<1> HIDE DEF less
<1>5. \A i \in 1..(n - 1) :
        less[i] \in sound /\ i <= less[i].base /\ less[i].base < cutoff
  BY <1>3, <1>4 DEF Nested
<1>6. Nested(less, sound, cutoff)
  BY <1>3, <1>5 DEF Nested
<1>7. QED
  BY <1>3, <1>6 DEF less

LEMMA TopShape ==
  ASSUME Typed, TasksInv, NEW t \in Threads, Busy(t)
  PROVE  /\ stack[t] \in Seq(Tasks) /\ stack[t] # <<>>
         /\ Len(stack[t]) \in Nat \ {0} /\ Len(stack[t]) \in 1..Len(stack[t])
         /\ Top(t) = stack[t][Len(stack[t])]
         /\ Top(t) \in Tasks /\ SoundTask(Top(t))
         /\ Len(stack[t]) <= Top(t).base
         /\ Nested(stack[t], SoundTasks, request.cutoff)
<1>1. stack[t] \in Seq(Tasks) /\ stack[t] # <<>> /\ Nested(stack[t], SoundTasks, request.cutoff)
  BY DEF Typed, TasksInv, Busy
<1>2. Len(stack[t]) \in Nat \ {0} /\ Len(stack[t]) \in 1..Len(stack[t])
  BY <1>1, LenProperties, EmptySeq
<1>3. QED
  BY <1>1, <1>2 DEF Top, Nested, SoundTasks

\* The step of a running task but its last leaves a task in its place.
LEMMA RunningStep ==
  ASSUME Typed, TasksInv, NEW t \in Threads,
         Close(t) \/ Skip(t) \/ Spawn(t) \/ Descend(t) \/ Backtrack(t)
  PROVE  /\ Busy(t) /\ UNCHANGED <<input, producer, made, result>>
         /\ \E new \in SoundTasks :
              /\ Runs(t, new) /\ new.base = Top(t).base
              /\ Close(t) \/ Skip(t) \/ Spawn(t) => new = Advanced(Top(t))
              /\ Descend(t) => new = Descended(Top(t))
              /\ Backtrack(t) => new = Shortened(Top(t))
<1>1. Busy(t) /\ UNCHANGED <<input, producer, made, result>>
  BY DEF Close, Skip, Spawn, Descend, Backtrack
<1>2. /\ Top(t) \in Tasks /\ SoundTask(Top(t))
      /\ Depth(Top(t)) \in 1..Depth(Top(t)) /\ Depth(Top(t)) \in Nat \ {0}
  BY <1>1, TopShape, SoundShape
<1>3. CASE Close(t) \/ Skip(t) \/ Spawn(t)
  <2>1. /\ ~Exhausted(Top(t)) /\ Runs(t, Advanced(Top(t)))
        /\ ~Descend(t) /\ ~Backtrack(t)
    BY <1>3 DEF Close, Skip, Spawn, Descend, Backtrack
  <2>2. SoundTask(Advanced(Top(t))) /\ Advanced(Top(t)) \in Tasks
        /\ Advanced(Top(t)).base = Top(t).base
    BY <1>2, <2>1, AdvancedSound, AdvancedShape
  <2>3. QED
    BY <1>1, <2>1, <2>2 DEF SoundTasks
<1>4. CASE Descend(t)
  <2>1. /\ ~Exhausted(Top(t)) /\ Runs(t, Descended(Top(t)))
        /\ ~Closes(Top(t), NextVertex(Top(t))) /\ ~Pruned(Top(t), NextVertex(Top(t)))
        /\ ~Close(t) /\ ~Skip(t) /\ ~Spawn(t) /\ ~Backtrack(t)
    BY <1>4 DEF Close, Skip, Spawn, Descend, Backtrack, Descended
  <2>2. SoundTask(Descended(Top(t))) /\ Descended(Top(t)).base = Top(t).base
    BY <1>2, <2>1, DescendedShape
  <2>3. Descended(Top(t)) \in SoundTasks
    BY <2>2 DEF SoundTask, SoundTasks
  <2>4. QED
    BY <1>1, <2>1, <2>2, <2>3
<1>5. CASE Backtrack(t)
  <2>1. /\ Exhausted(Top(t)) /\ Depth(Top(t)) > Top(t).base /\ Runs(t, Shortened(Top(t)))
        /\ ~Close(t) /\ ~Skip(t) /\ ~Spawn(t) /\ ~Descend(t)
    BY <1>5 DEF Close, Skip, Spawn, Descend, Backtrack, Shortened
  <2>2. SoundTask(Shortened(Top(t))) /\ Shortened(Top(t)).base = Top(t).base
    BY <1>2, <2>1, ShortenedSound, ShortenedShape
  <2>3. Shortened(Top(t)) \in SoundTasks
    BY <2>2 DEF SoundTask, SoundTasks
  <2>4. QED
    BY <1>1, <2>1, <2>2, <2>3
<1>6. QED
  BY <1>3, <1>4, <1>5

-----------------------------------------------------------------------------
(***************************************************************************)
(* The tasks stay sound, and nested.                                       *)
(***************************************************************************)
LEMMA InputSame ==
  ASSUME [Next]_vars
  PROVE  /\ request' = request /\ cycles' = cycles /\ graph' = graph
         /\ SoundTasks' = SoundTasks
<1>1. request' = request /\ cycles' = cycles
  BY DEF Next, Thread, Run, vars, input, EnterSingle, MakeRootTask, Begin, Join, Close, Skip,
         Spawn, Descend, Backtrack, Finish, Returned
<1>2. graph' = graph
  BY <1>1 DEF graph
<1>3. SoundTasks' = SoundTasks
  BY <1>1, <1>2 DEF SoundTasks, SoundTask, Bounded
<1>4. QED
  BY <1>1, <1>2, <1>3

\* A task that begins on top of a suspended one starts at a longer path.
LEMMA BeginStep ==
  ASSUME Typed, TasksInv, NEW t \in Threads, NEW task \in pool,
         Busy(t) => AtSchedulingPoint(Top(t)) /\ Descends(task, Top(t))
  PROVE  /\ task \in Tasks /\ task \in SoundTasks
         /\ stack[t] # <<>> => /\ stack[t][Len(stack[t])].base < request.cutoff
                               /\ stack[t][Len(stack[t])].base < task.base
<1>1. task \in Tasks /\ task \in SoundTasks /\ Depth(task) = task.base
  BY DEF Typed, TasksInv
<1>2. ASSUME stack[t] # <<>>
      PROVE  Top(t).base < request.cutoff /\ Top(t).base < task.base
  <2>1. Busy(t) /\ Expands(Top(t)) /\ Depth(Top(t)) < Depth(task)
    BY <1>2 DEF Busy, AtSchedulingPoint, Descends
  <2>2. Top(t).base <= Depth(Top(t)) /\ Top(t).base \in Nat /\ Depth(Top(t)) \in Nat
        /\ Depth(task) \in Nat
    BY <1>1, <2>1, TopShape, TaskShape DEF SoundTask
  <2>3. QED
    BY <1>1, <2>1, <2>2 DEF Expands
<1>3. QED
  BY <1>1, <1>2 DEF Top

LEMMA StackStep ==
  ASSUME Typed, TasksInv, [Next]_vars
  PROVE  /\ stack' \in [Threads -> Seq(Tasks)]
         /\ \A t \in Threads : Nested(stack'[t], SoundTasks, request.cutoff)
<1>1. /\ stack \in [Threads -> Seq(Tasks)]
      /\ \A t \in Threads : Nested(stack[t], SoundTasks, request.cutoff)
  BY DEF Typed, TasksInv
<1>2. ASSUME NEW t \in Threads, NEW tasks \in Seq(Tasks),
             Nested(tasks, SoundTasks, request.cutoff),
             stack' = [stack EXCEPT ![t] = tasks]
      PROVE  /\ stack' \in [Threads -> Seq(Tasks)]
             /\ \A r \in Threads : Nested(stack'[r], SoundTasks, request.cutoff)
  BY <1>1, <1>2
<1>3. ASSUME NEW t \in Threads, Run(t), ~Finish(t)
      PROVE  /\ stack' \in [Threads -> Seq(Tasks)]
             /\ \A r \in Threads : Nested(stack'[r], SoundTasks, request.cutoff)
  <2>1. PICK new \in SoundTasks : Runs(t, new) /\ new.base = Top(t).base
    BY <1>3, RunningStep DEF Run
  <2>2. Busy(t)
    BY <1>3, RunningStep DEF Run
  <2>3. /\ stack[t] \in Seq(Tasks) /\ stack[t] # <<>> /\ new \in Tasks
        /\ Nested(stack[t], SoundTasks, request.cutoff)
        /\ new.base = stack[t][Len(stack[t])].base
    BY <2>1, <2>2, TopShape DEF SoundTasks
  <2> DEFINE tasks == [stack[t] EXCEPT ![Len(stack[t])] = new]
  <2>4. tasks \in Seq(Tasks) /\ Nested(tasks, SoundTasks, request.cutoff)
    BY <2>3, NestedReplace
  <2>5. stack' = [stack EXCEPT ![t] = tasks]
    BY <2>1 DEF Runs
  <2>6. QED
    <3> HIDE DEF tasks
    <3> QED BY <1>2, <2>4, <2>5
<1>4. ASSUME NEW t \in Threads, Finish(t)
      PROVE  /\ stack' \in [Threads -> Seq(Tasks)]
             /\ \A r \in Threads : Nested(stack'[r], SoundTasks, request.cutoff)
  <2> DEFINE tasks == SubSeq(stack[t], 1, Len(stack[t]) - 1)
  <2>1. stack[t] \in Seq(Tasks) /\ stack[t] # <<>>
        /\ Nested(stack[t], SoundTasks, request.cutoff)
    BY <1>1, <1>4 DEF Finish, Busy
  <2>2. tasks \in Seq(Tasks) /\ Nested(tasks, SoundTasks, request.cutoff)
    BY <2>1, NestedPop
  <2>3. stack' = [stack EXCEPT ![t] = tasks]
    BY <1>4 DEF Finish
  <2>4. QED
    <3> HIDE DEF tasks
    <3> QED BY <1>2, <2>2, <2>3
<1>5. ASSUME NEW t \in Threads, Begin(t)
      PROVE  /\ stack' \in [Threads -> Seq(Tasks)]
             /\ \A r \in Threads : Nested(stack'[r], SoundTasks, request.cutoff)
  <2>1. PICK task \in pool :
          /\ Busy(t) => AtSchedulingPoint(Top(t)) /\ Descends(task, Top(t))
          /\ stack' = [stack EXCEPT ![t] = Append(stack[t], task)]
    BY <1>5 DEF Begin
  <2>2. /\ task \in Tasks /\ task \in SoundTasks
        /\ stack[t] # <<>> => /\ stack[t][Len(stack[t])].base < request.cutoff
                              /\ stack[t][Len(stack[t])].base < task.base
    BY <2>1, BeginStep
  <2>3. Append(stack[t], task) \in Seq(Tasks)
        /\ Nested(Append(stack[t], task), SoundTasks, request.cutoff)
    BY <1>1, <2>2, NestedPush
  <2>4. QED
    BY <1>2, <2>1, <2>3
<1>6. ASSUME UNCHANGED stack
      PROVE  /\ stack' \in [Threads -> Seq(Tasks)]
             /\ \A r \in Threads : Nested(stack'[r], SoundTasks, request.cutoff)
  BY <1>1, <1>6
<1>7. \/ UNCHANGED stack
      \/ \E t \in Threads : Begin(t) \/ Finish(t) \/ (Run(t) /\ ~Finish(t))
  BY DEF Next, Thread, Join, EnterSingle, MakeRootTask, Returned, vars, Run
<1>8. QED
  BY <1>3, <1>4, <1>5, <1>6, <1>7

LEMMA PoolStep ==
  ASSUME Typed, TasksInv, [Next]_vars
  PROVE  /\ pool' \in SUBSET Tasks
         /\ \A task \in pool' : task \in SoundTasks /\ Depth(task) = task.base
<1>1. pool \in SUBSET Tasks /\ \A task \in pool : task \in SoundTasks /\ Depth(task) = task.base
  BY DEF Typed, TasksInv
<1>2. ASSUME NEW t \in Threads, MakeRootTask(t)
      PROVE  /\ pool' \in SUBSET Tasks
             /\ \A task \in pool' : task \in SoundTasks /\ Depth(task) = task.base
  <2>1. made \in V /\ pool' = pool \cup {RootTask(made)}
    BY <1>2, TeamAssumption DEF MakeRootTask, Typed, V
  <2>2. SoundTask(RootTask(made)) /\ Depth(RootTask(made)) = RootTask(made).base
    BY <2>1, RootTaskSound
  <2>3. QED
    BY <1>1, <2>1, <2>2 DEF SoundTask, SoundTasks
<1>3. ASSUME NEW t \in Threads, Spawn(t)
      PROVE  /\ pool' \in SUBSET Tasks
             /\ \A task \in pool' : task \in SoundTasks /\ Depth(task) = task.base
  <2> DEFINE w == NextVertex(Top(t))
  <2>1. /\ Busy(t) /\ ~Exhausted(Top(t)) /\ ~Closes(Top(t), w) /\ ~Pruned(Top(t), w)
        /\ pool' = pool \cup {Child(Top(t), w)}
    BY <1>3 DEF Spawn
  <2>2. SoundTask(Child(Top(t), w)) /\ Depth(Child(Top(t), w)) = Child(Top(t), w).base
    BY <2>1, TopShape, ChildShape
  <2>3. QED
    BY <1>1, <2>1, <2>2 DEF SoundTask, SoundTasks
<1>4. ASSUME pool' \subseteq pool
      PROVE  /\ pool' \in SUBSET Tasks
             /\ \A task \in pool' : task \in SoundTasks /\ Depth(task) = task.base
  BY <1>1, <1>4
<1>5. pool' \subseteq pool \/ \E t \in Threads : MakeRootTask(t) \/ Spawn(t)
  BY DEF Next, Thread, Run, Join, EnterSingle, Begin, Close, Skip, Descend, Backtrack, Finish,
         Returned, vars
<1>6. QED
  BY <1>2, <1>3, <1>4, <1>5

\* What a thread counts is a cycle.
LEMMA CloseStep ==
  ASSUME Typed, TasksInv, NEW t \in Threads, Close(t)
  PROVE  /\ Busy(t) /\ SoundTask(Top(t)) /\ ~Exhausted(Top(t))
         /\ Closes(Top(t), NextVertex(Top(t)))
         /\ Path(Top(t)) \in cycles /\ Len(Path(Top(t))) = Depth(Top(t))
         /\ counted' = [counted EXCEPT ![t] = counted[t] \cup {Path(Top(t))}]
         /\ local' = [local EXCEPT ![t] = [local[t] EXCEPT ![Depth(Top(t))] = local[t][Depth(Top(t))] + 1]]
<1>1. /\ Busy(t) /\ ~Exhausted(Top(t)) /\ Closes(Top(t), NextVertex(Top(t)))
  BY DEF Close
<1>2. SoundTask(Top(t))
  BY <1>1, TopShape
<1>3. Path(Top(t)) \in cycles /\ Len(Path(Top(t))) = Depth(Top(t))
  BY <1>1, <1>2, ClosingTask
<1>4. counted' = [counted EXCEPT ![t] = counted[t] \cup {Path(Top(t))}]
  BY DEF Close
<1>5. local' = [local EXCEPT ![t] = [local[t] EXCEPT ![Depth(Top(t))] = local[t][Depth(Top(t))] + 1]]
  BY DEF Close
<1>6. QED
  BY <1>1, <1>2, <1>3, <1>4, <1>5

LEMMA TypedStep == Typed /\ TasksInv /\ [Next]_vars => (Typed /\ TasksInv)'
<1> SUFFICES ASSUME Typed, TasksInv, [Next]_vars
             PROVE  (Typed /\ TasksInv)'
  OBVIOUS
<1>1. /\ request' \in Requests /\ cycles' = Cycles(graph', MaxLength')
  BY InputSame DEF Typed, MaxLength, Bounded
<1>2. made' \in 0..N
  <2>1. made \in 0..N
    BY DEF Typed
  <2>2. CASE \E t \in Threads : MakeRootTask(t)
    BY <2>1, <2>2, TeamAssumption DEF MakeRootTask
  <2>3. CASE made' = made
    BY <2>1, <2>3
  <2>4. QED
    BY <2>2, <2>3 DEF Next, Thread, Run, vars, EnterSingle, Begin, Join, Close, Skip,
                      Spawn, Descend, Backtrack, Finish, Returned
<1>3. /\ local' \in [Threads -> [Lengths -> Nat]]
      /\ counted' \in [Threads -> SUBSET cycles]
  <2>1. /\ local \in [Threads -> [Lengths -> Nat]]
        /\ counted \in [Threads -> SUBSET cycles]
    BY DEF Typed
  <2>2. ASSUME NEW t \in Threads, Close(t)
        PROVE  /\ local' \in [Threads -> [Lengths -> Nat]]
               /\ counted' \in [Threads -> SUBSET cycles]
    <3> DEFINE d == Depth(Top(t))
               h == [local[t] EXCEPT ![d] = local[t][d] + 1]
    <3>1. local[t] \in [Lengths -> Nat]
      BY <2>1
    <3>2. h \in [Lengths -> Nat]
      <4>1. CASE d \in Lengths
        <5>1. local[t][d] + 1 \in Nat
          BY <3>1, <4>1
        <5>2. QED
          BY <3>1, <5>1
      <4>2. CASE d \notin Lengths
        BY <3>1, <4>2
      <4>3. QED
        BY <4>1, <4>2
    <3>3. local' = [local EXCEPT ![t] = h]
      BY <2>2, CloseStep
    <3> HIDE DEF h
    <3>4. local' \in [Threads -> [Lengths -> Nat]]
      BY <2>1, <3>2, <3>3
    <3>5. counted' = [counted EXCEPT ![t] = counted[t] \cup {Path(Top(t))}]
          /\ Path(Top(t)) \in cycles
      BY <2>2, CloseStep
    <3>6. counted[t] \cup {Path(Top(t))} \in SUBSET cycles
      BY <2>1, <3>5
    <3>7. counted' \in [Threads -> SUBSET cycles]
      BY <2>1, <3>5, <3>6
    <3>8. QED
      BY <3>4, <3>7
  <2>3. CASE local' = local /\ counted' = counted
    BY <2>1, <2>3
  <2>4. QED
    BY <2>2, <2>3 DEF Next, Thread, Run, vars, EnterSingle, MakeRootTask, Begin, Join, Skip,
                      Spawn, Descend, Backtrack, Finish, Returned
<1>4. /\ pool' \in SUBSET Tasks
      /\ \A task \in pool' : task \in SoundTasks' /\ Depth(task) = task.base
  BY PoolStep, InputSame
<1>5. /\ stack' \in [Threads -> Seq(Tasks)]
      /\ \A t \in Threads : Nested(stack'[t], SoundTasks', request'.cutoff)
  BY StackStep, InputSame
<1>6. cycles' = cycles
  BY InputSame
<1>7. QED
  BY <1>1, <1>2, <1>3, <1>4, <1>5, <1>6 DEF Typed, TasksInv

LEMMA TypedInit == Init => Typed /\ TasksInv
<1> SUFFICES ASSUME Init
             PROVE  Typed /\ TasksInv
  OBVIOUS
<1>1. /\ \A t \in Threads : stack[t] = <<>>
      /\ pool = {}
  BY DEF Init
<1>2. Typed
  BY TeamAssumption DEF Init, Typed, MaxLength
<1>3. QED
  BY <1>1, <1>2 DEF TasksInv, Nested

LEMMA TypedAlways == Spec => [](Typed /\ TasksInv)
BY TypedInit, TypedStep, PTL DEF Spec

\* Whatever tasks the runtime gives to whom, a thread holds no more of them at
\* once than the cutoff.
THEOREM TasksNestingBounded == Spec => []NestingBounded
<1>1. Typed /\ TasksInv => NestingBounded
  <2> SUFFICES ASSUME Typed, TasksInv, NEW t \in Threads
               PROVE  Len(stack[t]) <= request.cutoff
    BY DEF NestingBounded
  <2> DEFINE n == Len(stack[t])
  <2>1. /\ stack[t] \in Seq(Tasks) /\ n \in Nat /\ request.cutoff \in Nat \ {0}
        /\ Nested(stack[t], SoundTasks, request.cutoff)
    BY LenProperties, RequestShape DEF Typed, TasksInv
  <2>2. CASE n <= 1
    BY <2>1, <2>2
  <2>3. CASE n > 1
    <3>1. n - 1 \in 1..n /\ n - 1 < n
      BY <2>1, <2>3
    <3>2. /\ stack[t][n - 1] \in Tasks
          /\ n - 1 <= stack[t][n - 1].base
          /\ stack[t][n - 1].base < request.cutoff
      BY <2>1, <3>1 DEF Nested, SoundTasks
    <3>3. stack[t][n - 1].base \in Nat
      BY <3>2, TaskShape
    <3> HIDE DEF n
    <3>4. n <= request.cutoff
      BY <2>1, <3>2, <3>3
    <3>5. QED
      BY <3>4 DEF n
  <2>4. QED
    BY <2>1, <2>2, <2>3
<1>2. QED
  BY <1>1, TypedAlways, PTL

-----------------------------------------------------------------------------
(***************************************************************************)
(* The OpenMP task counter for every team, graph, bound and cutoff: no     *)
(* cycle is lost or found twice when work moves between threads, and the   *)
(* call returns the histogram of all cycles.                               *)
(***************************************************************************)

(***************************************************************************)
(* Which cycles lie ahead of a task.                                       *)
(***************************************************************************)
PendingIn(g, task, c) == Pending(g, task.frames, task.base, Len(task.frames), c)

\* The cycle goes on from the path by the edge the task looks at.
TakesEdge(task, c) ==
  Follows(task.frames, Depth(task), c) /\ Successor(c, Depth(task)) = NextVertex(task)

LEMMA CycleOf ==
  ASSUME Typed, NEW c \in cycles
  PROVE  /\ Len(c) \in 2..MaxLength /\ Len(c) \in Nat /\ MaxLength \in Nat
         /\ c \in [1..Len(c) -> V] /\ 1 \in 1..Len(c)
         /\ \A i \in 1..Len(c) : c[i] \in V /\ c[i] \in Int
         /\ \A i, j \in 1..Len(c) : i # j => c[i] # c[j]
         /\ \A i \in 2..Len(c) : c[1] < c[i]
         /\ \A k \in 1..Len(c) : Successor(c, k) \in Neighbours(graph, c[k])
<1>1. graph \in Adjacencies(V) /\ MaxLength \in Nat /\ c \in Cycles(graph, MaxLength)
  BY RequestShape
<1>2. /\ Len(c) \in 2..MaxLength /\ c \in [1..Len(c) -> V]
      /\ \A i \in 1..Len(c) : c[i] \in V
      /\ \A i, j \in 1..Len(c) : i # j => c[i] # c[j]
      /\ \A i \in 2..Len(c) : c[1] < c[i]
      /\ \A k \in 1..Len(c) : Successor(c, k) \in Neighbours(graph, c[k])
  BY <1>1, CycleShape
<1>3. Len(c) \in Nat /\ 1 \in 1..Len(c)
  BY <1>1, <1>2
<1>4. QED
  BY <1>1, <1>2, <1>3, VertexType

\* A cycle that follows the path of a task starts at its root.
LEMMA FollowsFromRoot ==
  ASSUME Typed, NEW task, SoundTask(task), NEW c \in cycles,
         Follows(task.frames, Depth(task), c)
  PROVE  /\ c[1] = Root(task) /\ Depth(task) \in 1..Len(c)
         /\ \A i \in 1..Depth(task) : c[i] = VertexAt(task, i)
         /\ Depth(task) < Len(c) => /\ Successor(c, Depth(task)) = c[Depth(task) + 1]
                                    /\ Depth(task) + 1 \in 1..Len(c)
                                    /\ Successor(c, Depth(task)) > Root(task)
         /\ Depth(task) = Len(c) => Successor(c, Depth(task)) = Root(task)
<1> DEFINE d == Depth(task)
<1>1. d \in 1..d /\ d \in Nat \ {0} /\ 1 \in 1..d
  BY SoundShape
<1>2. /\ Len(c) \in Nat /\ d <= Len(c)
      /\ \A i \in 1..d : c[i] = VertexAt(task, i)
  BY CycleOf DEF Follows, VertexAt
<1>3. c[1] = Root(task)
  BY <1>1, <1>2 DEF Root
<1>4. d \in 1..Len(c)
  BY <1>1, <1>2
<1>5. ASSUME d < Len(c)
      PROVE  /\ Successor(c, d) = c[d + 1] /\ d + 1 \in 1..Len(c)
             /\ Successor(c, d) > Root(task)
  <2>1. Successor(c, d) = c[d + 1] /\ d + 1 \in 2..Len(c) /\ d + 1 \in 1..Len(c)
    BY <1>1, <1>2, <1>5 DEF Successor
  <2>2. c[d + 1] \in Int /\ c[1] \in Int /\ c[1] < c[d + 1]
    BY <2>1, CycleOf
  <2>3. QED
    BY <1>3, <2>1, <2>2
<1>6. d = Len(c) => Successor(c, d) = Root(task)
  BY <1>3 DEF Successor
<1>7. QED
  BY <1>2, <1>3, <1>4, <1>5, <1>6

\* The edge that closes the path is that of one cycle, the path.
LEMMA ClosingTakes ==
  ASSUME Typed, NEW task, SoundTask(task), ~Exhausted(task), Closes(task, NextVertex(task)),
         NEW c \in cycles
  PROVE  TakesEdge(task, c) <=> c = Path(task)
<1> DEFINE d == Depth(task)
<1>1. /\ Path(task) \in cycles /\ Len(Path(task)) = d /\ Path(task)[1] = Root(task)
      /\ task \in Tasks /\ NextVertex(task) = Root(task)
      /\ d \in 1..d /\ d \in Nat
      /\ \A i \in 1..d : VertexAt(task, i) \in V
      /\ \A i \in 1..d : VertexAt(task, i) = task.frames[i].vertex
  BY ClosingTask, SoundShape, TaskShape DEF SoundTask, Closes
<1>2. Path(task) \in [1..d -> V] /\ \A i \in 1..d : Path(task)[i] = VertexAt(task, i)
  BY <1>1 DEF Path
<1>3. ASSUME TakesEdge(task, c)
      PROVE  c = Path(task)
  <2>1. Follows(task.frames, d, c) /\ Successor(c, d) = Root(task)
    BY <1>1, <1>3 DEF TakesEdge
  <2>2. /\ d \in 1..Len(c) /\ Len(c) \in Nat /\ c \in [1..Len(c) -> V]
        /\ \A i \in 1..d : c[i] = VertexAt(task, i)
        /\ d < Len(c) => Successor(c, d) > Root(task)
        /\ Root(task) \in Int
    BY <2>1, FollowsFromRoot, CycleOf, SoundShape, VertexType
  <2>3. d = Len(c)
    BY <2>1, <2>2
  <2>4. c = [i \in 1..d |-> c[i]] /\ Path(task) = [i \in 1..d |-> Path(task)[i]]
    BY <1>2, <2>2, <2>3
  <2>5. QED
    BY <1>2, <2>2, <2>4
<1>4. TakesEdge(task, Path(task))
  <2>1. Follows(task.frames, d, Path(task))
    BY <1>1, <1>2 DEF Follows
  <2>2. Successor(Path(task), d) = Root(task)
    BY <1>1 DEF Successor
  <2>3. QED
    BY <1>1, <2>1, <2>2 DEF TakesEdge
<1>5. QED
  BY <1>3, <1>4

\* No cycle goes on by an edge that is pruned.
LEMMA PrunedTakes ==
  ASSUME Typed, NEW task, SoundTask(task), ~Exhausted(task),
         ~Closes(task, NextVertex(task)), Pruned(task, NextVertex(task)), NEW c \in cycles
  PROVE  ~TakesEdge(task, c)
<1> DEFINE d == Depth(task)
           w == NextVertex(task)
<1>1. SUFFICES ASSUME Follows(task.frames, d, c), Successor(c, d) = w
               PROVE  FALSE
  BY DEF TakesEdge
<1>2. /\ ~(w = Root(task) /\ d >= 2) /\ d \in Nat \ {0} /\ d \in 1..d
      /\ w \in Int /\ Root(task) \in Int
  BY SoundShape, VertexType DEF Closes
<1>3. /\ Len(c) \in 2..MaxLength /\ MaxLength \in Nat /\ d \in 1..Len(c)
      /\ \A i \in 1..d : c[i] = VertexAt(task, i)
      /\ d < Len(c) => /\ Successor(c, d) = c[d + 1] /\ d + 1 \in 1..Len(c)
                       /\ Successor(c, d) > Root(task)
      /\ d = Len(c) => Successor(c, d) = Root(task)
  BY <1>1, CycleOf, FollowsFromRoot
<1>4. d < Len(c) /\ w > Root(task) /\ w = c[d + 1] /\ d + 1 \in 1..Len(c)
  <2>1. d < Len(c)
    <3> HIDE DEF d, w
    <3> QED BY <1>1, <1>2, <1>3
  <2>2. QED
    BY <1>1, <1>3, <2>1
<1>5. CASE w <= Root(task)
  BY <1>2, <1>4, <1>5
<1>6. CASE \E i \in 1..d : VertexAt(task, i) = w
  <2>1. PICK i \in 1..d : VertexAt(task, i) = w
    BY <1>6
  <2>2. i \in 1..Len(c) /\ i # d + 1 /\ c[i] = c[d + 1]
    BY <1>2, <1>3, <1>4, <2>1
  <2>3. QED
    BY <1>4, <2>2, CycleOf
<1>7. CASE Bounded /\ d >= request.bound
  <2>1. MaxLength = request.bound
    BY <1>7 DEF MaxLength
  <2>2. QED
    BY <1>2, <1>3, <1>4, <1>7, <2>1
<1>8. QED
  BY <1>5, <1>6, <1>7 DEF Pruned

\* A cycle that takes the edge looked at is ahead.
LEMMA TakenIsPending ==
  ASSUME Typed, NEW task, SoundTask(task), ~Exhausted(task), NEW c \in cycles,
         TakesEdge(task, c)
  PROVE  PendingIn(graph, task, c)
<1> DEFINE d == Depth(task)
<1>1. /\ d \in task.base..d
      /\ Offset(task) = task.frames[d].offset /\ Current(task) = task.frames[d].vertex
      /\ Offset(task) \in Offset(task)..Len(graph[Current(task)])
  <2>1. /\ task.base \in 1..d /\ d \in Nat \ {0}
        /\ Offset(task) \in 1..Len(graph[Current(task)]) /\ Len(graph[Current(task)]) \in Nat
    BY SoundShape
  <2>2. QED
    BY <2>1, SoundShape
<1>2. graph[Current(task)][Offset(task)] = Successor(c, d) /\ Follows(task.frames, d, c)
  BY DEF TakesEdge, NextVertex
<1>3. QED
  BY <1>1, <1>2 DEF PendingIn, Pending, Depth

\* Looking at an edge leaves ahead the cycles but those that take it.
LEMMA AdvancedPending ==
  ASSUME Typed, NEW task, SoundTask(task), ~Exhausted(task), NEW c \in cycles
  PROVE  PendingIn(graph, Advanced(task), c)
           <=> PendingIn(graph, task, c) /\ ~TakesEdge(task, c)
<1> DEFINE d == Depth(task)
           f == task.frames
           a == Advanced(task).frames
<1>1. /\ d \in 1..d /\ d \in Nat /\ task.base \in 1..d /\ task \in Tasks
      /\ Offset(task) = f[d].offset /\ Current(task) = f[d].vertex
      /\ Offset(task) \in 1..Len(graph[Current(task)]) /\ Len(graph[Current(task)]) \in Nat
  BY SoundShape DEF SoundTask
<1>2. /\ Advanced(task).base = task.base /\ Depth(Advanced(task)) = d
      /\ \A i \in 1..d : a[i].vertex = f[i].vertex
      /\ \A i \in 1..(d - 1) : a[i].offset = f[i].offset
      /\ a[d].offset = f[d].offset + 1
  BY <1>1, AdvancedShape
<1>3. /\ V \in SUBSET Int /\ graph \in Adjacencies(V) /\ MaxLength \in Nat
      /\ c \in Cycles(graph, MaxLength) /\ IsSearch(V, graph, f, task.base, d)
      /\ task.base \in Nat \ {0} /\ task.base <= d
      /\ f[d].offset <= Len(graph[f[d].vertex])
  BY <1>1, VertexType, RequestShape DEF SoundTask
<1>4. Pending(graph, a, task.base, d, c)
        <=> /\ Pending(graph, f, task.base, d, c)
            /\ ~ /\ Follows(f, d, c)
                 /\ Successor(c, d) = graph[f[d].vertex][f[d].offset]
  <2> DEFINE b == task.base
  <2>1. /\ b \in Nat \ {0} /\ d \in Nat /\ b <= d /\ IsSearch(V, graph, f, b, d)
        /\ f[d].offset <= Len(graph[f[d].vertex])
    BY <1>1, <1>3
  <2>3. /\ \A i \in 1..d : a[i].vertex = f[i].vertex
        /\ \A i \in 1..(d - 1) : a[i].offset = f[i].offset
        /\ a[d].offset = f[d].offset + 1
    BY <1>2
  <2>4. /\ V \in SUBSET Int /\ graph \in Adjacencies(V) /\ MaxLength \in Nat
        /\ c \in Cycles(graph, MaxLength)
    BY <1>3
  <2> HIDE DEF a, f, d, b
  <2>2. Pending(graph, a, b, d, c)
          <=> /\ Pending(graph, f, b, d, c)
              /\ ~ /\ Follows(f, d, c)
                   /\ Successor(c, d) = graph[f[d].vertex][f[d].offset]
    BY <2>1, <2>3, <2>4, PendingConsume, Z3
  <2>5. QED
    BY <2>2 DEF b
<1>5. /\ PendingIn(graph, Advanced(task), c) <=> Pending(graph, a, task.base, d, c)
      /\ PendingIn(graph, task, c) <=> Pending(graph, f, task.base, d, c)
  BY <1>2 DEF PendingIn, Depth
<1>6. TakesEdge(task, c) <=> /\ Follows(f, d, c)
                             /\ Successor(c, d) = graph[f[d].vertex][f[d].offset]
  BY <1>1 DEF TakesEdge, NextVertex
<1>7. QED
  BY <1>4, <1>5, <1>6

\* The cycles that take an edge to an open vertex are those that follow the
\* extended path.
LEMMA ExtendedTakes ==
  ASSUME Typed, NEW task, SoundTask(task), ~Exhausted(task),
         ~Closes(task, NextVertex(task)), ~Pruned(task, NextVertex(task)), NEW c \in cycles,
         NEW frames, frames[Depth(task) + 1].vertex = NextVertex(task),
         \A i \in 1..Depth(task) : frames[i].vertex = task.frames[i].vertex
  PROVE  TakesEdge(task, c) <=> Follows(frames, Depth(task) + 1, c)
<1> DEFINE d == Depth(task)
           w == NextVertex(task)
<1>1. /\ d \in Nat \ {0} /\ w > Root(task) /\ Root(task) \in Int /\ w \in Int /\ Len(c) \in Nat
      /\ \A i \in 1..d : VertexAt(task, i) = task.frames[i].vertex
  BY SoundShape, OpenVertex, VertexType, CycleOf DEF VertexAt
<1>2. ASSUME TakesEdge(task, c)
      PROVE  Follows(frames, d + 1, c)
  <2>1. Follows(task.frames, d, c) /\ Successor(c, d) = w
    BY <1>2 DEF TakesEdge
  <2>2. /\ d \in 1..Len(c)
        /\ d < Len(c) => Successor(c, d) = c[d + 1]
        /\ d = Len(c) => Successor(c, d) = Root(task)
        /\ \A i \in 1..d : c[i] = VertexAt(task, i)
    BY <2>1, FollowsFromRoot
  <2>3. d < Len(c) /\ d + 1 <= Len(c) /\ c[d + 1] = w
    <3> HIDE DEF d, w
    <3>1. d # Len(c)
      BY <1>1, <2>1, <2>2
    <3>2. d < Len(c) /\ d + 1 <= Len(c)
      BY <1>1, <2>2, <3>1
    <3>3. QED
      BY <2>1, <2>2, <3>2
  <2>4. \A i \in 1..(d + 1) : i \in 1..d \/ i = d + 1
    BY <1>1
  <2>5. QED
    BY <1>1, <2>2, <2>3, <2>4 DEF Follows
<1>3. ASSUME Follows(frames, d + 1, c)
      PROVE  TakesEdge(task, c)
  <2>1. /\ d + 1 <= Len(c)
        /\ \A i \in 1..(d + 1) : c[i] = frames[i].vertex
    BY <1>3 DEF Follows
  <2>2. d <= Len(c) /\ d # Len(c) /\ d + 1 \in 1..(d + 1) /\ \A i \in 1..d : i \in 1..(d + 1)
    BY <1>1, <2>1
  <2>3. Follows(task.frames, d, c)
    BY <2>1, <2>2 DEF Follows
  <2>4. Successor(c, d) = w
    BY <2>1, <2>2 DEF Successor
  <2>5. QED
    BY <2>3, <2>4 DEF TakesEdge
<1>4. QED
  BY <1>2, <1>3

\* The task made of an extension has ahead of it the cycles that take the edge.
LEMMA ChildPending ==
  ASSUME Typed, NEW task, SoundTask(task), ~Exhausted(task),
         ~Closes(task, NextVertex(task)), ~Pruned(task, NextVertex(task)), NEW c \in cycles
  PROVE  PendingIn(graph, Child(task, NextVertex(task)), c) <=> TakesEdge(task, c)
<1> DEFINE d == Depth(task)
           w == NextVertex(task)
           b == d + 1
           f == Extended(task, w, b).frames
<1>1. /\ task \in Tasks /\ d \in Nat \ {0} /\ w \in V /\ b \in Nat \ {0}
      /\ Child(task, w) = Extended(task, w, b)
  BY SoundShape, ChildShape DEF SoundTask
<1>2. /\ Depth(Extended(task, w, b)) = b /\ Extended(task, w, b).base = b
      /\ \A i \in 1..d : f[i] = task.frames[i]
      /\ f[b].vertex = w /\ f[b].offset = 1
  <2> HIDE DEF w
  <2> QED BY <1>1, ExtendedShape
<1>3. TakesEdge(task, c) <=> Follows(f, b, c)
  <2> HIDE DEF f
  <2>1. \A i \in 1..d : f[i].vertex = task.frames[i].vertex
    BY <1>2
  <2>2. QED
    BY <1>2, <2>1, ExtendedTakes
<1>4. PendingIn(graph, Child(task, w), c) <=> Pending(graph, f, b, b, c)
  BY <1>1, <1>2 DEF PendingIn, Depth
<1>5. /\ V \in SUBSET Int /\ graph \in Adjacencies(V) /\ MaxLength \in Nat
      /\ c \in Cycles(graph, MaxLength)
  BY VertexType, RequestShape
<1> HIDE DEF f, w, d
<1>6. Pending(graph, f, b, b, c) <=> Pending(graph, f, b, d, c) \/ Follows(f, b, c)
  <2>1. /\ b \in Nat \ {0} /\ d \in Nat /\ b <= d + 1 /\ f[d + 1].offset = 1
        /\ \A i \in 1..d : f[i] = f[i]
    BY <1>1, <1>2
  <2>2. Pending(graph, f, b, d + 1, c) <=> Pending(graph, f, b, d, c) \/ Follows(f, d + 1, c)
    <3> HIDE DEF b
    <3> QED BY <1>5, <2>1, PendingPush
  <2>3. QED
    BY <2>2
<1>7. ~Pending(graph, f, b, d, c)
  BY <1>1 DEF Pending
<1>8. QED
  BY <1>3, <1>4, <1>6, <1>7 DEF w

\* A recursive call moves the cycles that take the edge below it; none is lost.
LEMMA DescendedPending ==
  ASSUME Typed, NEW task, SoundTask(task), ~Exhausted(task),
         ~Closes(task, NextVertex(task)), ~Pruned(task, NextVertex(task)), NEW c \in cycles
  PROVE  PendingIn(graph, Descended(task), c) <=> PendingIn(graph, task, c)
<1> DEFINE d == Depth(task)
           w == NextVertex(task)
           b == task.base
           next == Advanced(task)
           a == next.frames
           f == Extended(next, w, b).frames
<1>1. /\ task \in Tasks /\ d \in Nat \ {0} /\ d \in 1..d /\ w \in V /\ b \in Nat \ {0} /\ b \in 1..d
      /\ Descended(task) = Extended(next, w, b)
  BY SoundShape, OpenVertex, DescendedShape, TaskShape DEF SoundTask
<1>2. /\ next \in Tasks /\ next.base = b /\ Depth(next) = d
      /\ \A i \in 1..d : a[i].vertex = task.frames[i].vertex
  BY <1>1, AdvancedShape
<1>3. /\ Depth(Extended(next, w, b)) = d + 1 /\ Extended(next, w, b).base = b
      /\ \A i \in 1..d : f[i] = a[i]
      /\ f[d + 1].vertex = w /\ f[d + 1].offset = 1
  <2> HIDE DEF w, next, b, d, a
  <2>1. /\ Depth(Extended(next, w, b)) = Depth(next) + 1 /\ Extended(next, w, b).base = b
        /\ \A i \in 1..Depth(next) : f[i] = next.frames[i]
        /\ f[Depth(next) + 1].vertex = w /\ f[Depth(next) + 1].offset = 1
    <3>1. next \in Tasks /\ w \in V /\ b \in Nat \ {0}
      BY <1>1, <1>2
    <3>2. QED
      BY <3>1, ExtendedShape
  <2>2. QED
    BY <1>2, <2>1 DEF a
<1>4. TakesEdge(task, c) <=> Follows(f, d + 1, c)
  <2> HIDE DEF f, a
  <2>1. \A i \in 1..d : f[i].vertex = task.frames[i].vertex
    BY <1>2, <1>3
  <2>2. QED
    BY <1>3, <2>1, ExtendedTakes
<1>5. /\ PendingIn(graph, Descended(task), c) <=> Pending(graph, f, b, d + 1, c)
      /\ PendingIn(graph, next, c) <=> Pending(graph, a, b, d, c)
  <2> HIDE DEF next, w
  <2> QED BY <1>1, <1>2, <1>3 DEF PendingIn, Depth
<1>6. /\ V \in SUBSET Int /\ graph \in Adjacencies(V) /\ MaxLength \in Nat
      /\ c \in Cycles(graph, MaxLength) /\ b <= d + 1
  BY <1>1, VertexType, RequestShape
<1>7. Pending(graph, f, b, d + 1, c) <=> Pending(graph, a, b, d, c) \/ Follows(f, d + 1, c)
  <2> HIDE DEF f, a, b, d, w
  <2> QED BY <1>1, <1>3, <1>6, PendingPush
<1>8. /\ PendingIn(graph, next, c) <=> PendingIn(graph, task, c) /\ ~TakesEdge(task, c)
      /\ TakesEdge(task, c) => PendingIn(graph, task, c)
  BY AdvancedPending, TakenIsPending
<1>9. QED
  BY <1>4, <1>5, <1>7, <1>8

\* A call that returns has no cycle ahead in its own frame.
LEMMA ShortenedPending ==
  ASSUME Typed, NEW task, SoundTask(task), Exhausted(task), NEW c \in cycles
  PROVE  /\ Depth(task) > task.base
              => (PendingIn(graph, Shortened(task), c) <=> PendingIn(graph, task, c))
         /\ Depth(task) = task.base => ~PendingIn(graph, task, c)
<1> DEFINE d == Depth(task)
           b == task.base
           f == task.frames
           s == Shortened(task).frames
<1>1. /\ task \in Tasks /\ d \in Nat \ {0} /\ b \in Nat \ {0} /\ b \in 1..d
      /\ f[d].offset \in Nat /\ Len(graph[f[d].vertex]) \in Nat
      /\ f[d].offset > Len(graph[f[d].vertex])
  BY SoundShape, TaskShape DEF SoundTask, Exhausted
<1>2. /\ Shortened(task).base = b /\ Depth(Shortened(task)) = d - 1
      /\ \A i \in 1..(d - 1) : s[i] = f[i]
  BY <1>1, ShortenedShape
<1>3. /\ PendingIn(graph, Shortened(task), c) <=> Pending(graph, s, b, d - 1, c)
      /\ PendingIn(graph, task, c) <=> Pending(graph, f, b, d, c)
  BY <1>2 DEF PendingIn, Depth
<1>4. V \in SUBSET Int /\ graph \in Adjacencies(V)
  BY VertexType, RequestShape
<1> HIDE DEF d, b, f, s
<1>5. Pending(graph, s, b, d - 1, c) <=> Pending(graph, f, b, d, c)
  BY <1>1, <1>2, <1>4, PendingPop
<1>6. d = b => ~Pending(graph, s, b, d - 1, c)
  BY <1>1 DEF Pending
<1>7. QED
  BY <1>3, <1>5, <1>6 DEF d, b

\* The task of a root has ahead of it the cycles that start there.
LEMMA RootTaskPending ==
  ASSUME Typed, NEW v \in V, NEW c \in cycles
  PROVE  PendingIn(graph, RootTask(v), c) <=> c[1] = v
<1> DEFINE f == RootTask(v).frames
<1>1. /\ RootTask(v).base = 1 /\ Depth(RootTask(v)) = 1
      /\ f[1].vertex = v /\ f[1].offset = 1
  BY RootTaskSound
<1>2. PendingIn(graph, RootTask(v), c) <=> Pending(graph, f, 1, 1, c)
  BY <1>1 DEF PendingIn, Depth
<1>3. /\ V \in SUBSET Int /\ graph \in Adjacencies(V) /\ MaxLength \in Nat
      /\ c \in Cycles(graph, MaxLength) /\ 1 <= Len(c) /\ 1 \in Nat \ {0}
  BY VertexType, RequestShape, CycleOf
<1> HIDE DEF f
<1>4. Pending(graph, f, 1, 1, c) => c[1] = v
  BY <1>1 DEF Pending, Follows
<1>5. ASSUME c[1] = v
      PROVE  Pending(graph, f, 1, 1, c)
  <2>1. Follows(f, 1, c)
    BY <1>1, <1>3, <1>5 DEF Follows
  <2>2. \E j \in f[1].offset..Len(graph[f[1].vertex]) : graph[f[1].vertex][j] = Successor(c, 1)
    BY <1>1, <1>3, <2>1, PendingFresh
  <2>3. QED
    BY <2>1, <2>2 DEF Pending
<1>6. QED
  BY <1>2, <1>4, <1>5

-----------------------------------------------------------------------------
(***************************************************************************)
(* The places that hold a cycle, and how a step changes them.              *)
(***************************************************************************)
AtRoot(m, c) == {<<"root", v>> : v \in {v \in m..(N - 1) : v = c[1]}}

InPool(g, tasks, c) == {<<"waiting", task>> : task \in {task \in tasks : PendingIn(g, task, c)}}

SlotsOf(stacks) == UNION {{<<t, i>> : i \in 1..Len(stacks[t])} : t \in Threads}

OnStacks(g, stacks, c) ==
  {<<"active", s>> : s \in {s \in SlotsOf(stacks) : PendingIn(g, stacks[s[1]][s[2]], c)}}

InTally(tally, c) == {<<"counted", t>> : t \in {t \in Threads : c \in tally[t]}}

Held(g, m, tasks, stacks, tally, c) ==
  AtRoot(m, c) \cup InPool(g, tasks, c) \cup OnStacks(g, stacks, c) \cup InTally(tally, c)

IsSingle(S) == \E x : S = {x}

LEMMA RootPlaces ==
  ASSUME NEW m \in Nat, NEW c, c[1] \in V
  PROVE  /\ AtRoot(m, c) = IF c[1] >= m THEN {<<"root", c[1]>>} ELSE {}
         /\ \A x \in AtRoot(m, c) : x[1] = "root"
<1>1. N \in Nat \ {0}
  BY TeamAssumption
<1>2. c[1] \in m..(N - 1) <=> c[1] >= m
  BY <1>1 DEF V
<1>3. QED
  BY <1>2 DEF AtRoot

LEMMA PoolPlaces ==
  ASSUME NEW g, NEW tasks, NEW c
  PROVE  \A x : x \in InPool(g, tasks, c)
                  <=> \E u \in tasks : x = <<"waiting", u>> /\ PendingIn(g, u, c)
BY DEF InPool

LEMMA PoolGains ==
  ASSUME NEW g, NEW tasks, NEW task, NEW c, NEW place, place = <<"waiting", task>>,
         NEW after, after = tasks \cup {task}
  PROVE  InPool(g, after, c) = InPool(g, tasks, c) \cup (IF PendingIn(g, task, c) THEN {place} ELSE {})
<1>1. \A x : x \in InPool(g, after, c)
               <=> x \in InPool(g, tasks, c) \/ (PendingIn(g, task, c) /\ x = place)
  BY PoolPlaces
<1>2. QED
  BY <1>1

LEMMA PoolLoses ==
  ASSUME NEW g, NEW tasks, NEW task \in tasks, NEW c, NEW place, place = <<"waiting", task>>,
         NEW after, after = tasks \ {task}
  PROVE  /\ InPool(g, after, c) = InPool(g, tasks, c) \ {place}
         /\ place \in InPool(g, tasks, c) <=> PendingIn(g, task, c)
<1>1. /\ \A x : x \in InPool(g, tasks, c) <=> \E u \in tasks : x = <<"waiting", u>> /\ PendingIn(g, u, c)
      /\ \A x : x \in InPool(g, after, c) <=> \E u \in after : x = <<"waiting", u>> /\ PendingIn(g, u, c)
  BY PoolPlaces
<1>2. \A u : <<"waiting", u>> = place <=> u = task
  OBVIOUS
<1>3. \A x : x \in InPool(g, after, c) <=> x \in InPool(g, tasks, c) /\ x # place
  BY <1>1, <1>2
<1>4. QED
  BY <1>1, <1>2, <1>3

LEMMA StackPlaces ==
  ASSUME NEW g, NEW stacks, NEW c
  PROVE  \A x : x \in OnStacks(g, stacks, c)
                <=> \E r \in Threads : \E i \in 1..Len(stacks[r]) :
                      x = <<"active", <<r, i>>>> /\ PendingIn(g, stacks[r][i], c)
<1>1. \A s : s \in SlotsOf(stacks) <=> \E r \in Threads : \E i \in 1..Len(stacks[r]) : s = <<r, i>>
  BY DEF SlotsOf
<1>2. \A x : x \in OnStacks(g, stacks, c)
               <=> \E s \in SlotsOf(stacks) : x = <<"active", s>> /\ PendingIn(g, stacks[s[1]][s[2]], c)
  BY DEF OnStacks
<1>3. QED
  BY <1>1, <1>2

\* A step changes slot n of thread t alone; it is the last one, or is added, or
\* removed.
ChangesSlot(before, after, t, n) ==
  /\ t \in Threads /\ n \in Nat \ {0}
  /\ \A r \in Threads : r # t => after[r] = before[r]
  /\ Len(before[t]) \in {n - 1, n} /\ Len(after[t]) \in {n - 1, n}
  /\ \A i \in 1..(n - 1) : after[t][i] = before[t][i]

LEMMA StackPlacesChange ==
  ASSUME NEW g, NEW before, NEW after, NEW t, NEW n, NEW c,
         ChangesSlot(before, after, t, n), NEW place, place = <<"active", <<t, n>>>>
  PROVE  /\ \A x : x # place => (x \in OnStacks(g, after, c) <=> x \in OnStacks(g, before, c))
         /\ place \in OnStacks(g, before, c)
              <=> Len(before[t]) = n /\ PendingIn(g, before[t][n], c)
         /\ place \in OnStacks(g, after, c)
              <=> Len(after[t]) = n /\ PendingIn(g, after[t][n], c)
<1> DEFINE slot(r, i) == <<"active", <<r, i>>>>
           On(stacks, r, i) == i \in 1..Len(stacks[r]) /\ PendingIn(g, stacks[r][i], c)
<1>1. /\ \A x : x \in OnStacks(g, before, c) <=> \E r \in Threads : \E i : x = slot(r, i) /\ On(before, r, i)
      /\ \A x : x \in OnStacks(g, after, c) <=> \E r \in Threads : \E i : x = slot(r, i) /\ On(after, r, i)
  BY StackPlaces
<1>2. \A r, i, q, j : slot(r, i) = slot(q, j) <=> r = q /\ i = j
  OBVIOUS
<1>3. \A r \in Threads : \A i : r # t => (On(after, r, i) <=> On(before, r, i))
  BY DEF ChangesSlot
<1>4. \A i : i # n => (On(after, t, i) <=> On(before, t, i))
  <2>1. ASSUME NEW i, i # n
        PROVE  /\ i \in 1..Len(before[t]) <=> i \in 1..(n - 1)
               /\ i \in 1..Len(after[t]) <=> i \in 1..(n - 1)
    BY <2>1 DEF ChangesSlot
  <2>2. QED
    BY <2>1 DEF ChangesSlot
<1>5. /\ On(before, t, n) <=> Len(before[t]) = n /\ PendingIn(g, before[t][n], c)
      /\ On(after, t, n) <=> Len(after[t]) = n /\ PendingIn(g, after[t][n], c)
  <2>1. /\ n \in 1..Len(before[t]) <=> Len(before[t]) = n
        /\ n \in 1..Len(after[t]) <=> Len(after[t]) = n
    BY DEF ChangesSlot
  <2>2. QED
    BY <2>1
<1>6. t \in Threads
  BY DEF ChangesSlot
<1> HIDE DEF slot, On
<1>7. /\ slot(t, n) \in OnStacks(g, before, c) <=> On(before, t, n)
      /\ slot(t, n) \in OnStacks(g, after, c) <=> On(after, t, n)
  BY <1>1, <1>2, <1>6
<1>8. \A x : x # slot(t, n) => (x \in OnStacks(g, after, c) <=> x \in OnStacks(g, before, c))
  BY <1>1, <1>2, <1>3, <1>4, <1>6
<1>9. QED
  BY <1>5, <1>7, <1>8 DEF slot

\* A thread counts one path more.
CountsPath(tally, more, t, path) ==
  t \in Threads /\ \A r \in Threads : more[r] = IF r = t THEN tally[r] \cup {path} ELSE tally[r]

LEMMA TallyPlaces ==
  ASSUME NEW tally, NEW more, NEW t, NEW path, NEW c, CountsPath(tally, more, t, path),
         NEW place, place = <<"counted", t>>
  PROVE  InTally(more, c) = InTally(tally, c) \cup (IF c = path THEN {place} ELSE {})
<1>1. /\ \A r \in Threads : c \in more[r] <=> c \in tally[r] \/ (r = t /\ c = path)
      /\ t \in Threads
  BY DEF CountsPath
<1>2. /\ \A x : x \in InTally(tally, c) <=> \E r \in Threads : x = <<"counted", r>> /\ c \in tally[r]
      /\ \A x : x \in InTally(more, c) <=> \E r \in Threads : x = <<"counted", r>> /\ c \in more[r]
  BY DEF InTally
<1>3. \A x : x \in InTally(more, c)
               <=> x \in InTally(tally, c) \/ (c = path /\ x = place)
  BY <1>1, <1>2
<1>4. QED
  BY <1>2, <1>3

\* A cycle stays where it is or moves from one place to another.
Moves(before, after) ==
  \/ after = before
  \/ \E old \in before : \E new : after = (before \ {old}) \cup {new}

LEMMA SingleMoves ==
  ASSUME NEW before, NEW after, IsSingle(before), Moves(before, after)
  PROVE  IsSingle(after)
<1>1. PICK x : before = {x}
  BY DEF IsSingle
<1>2. ASSUME NEW old \in before, NEW new, after = (before \ {old}) \cup {new}
      PROVE  IsSingle(after)
  <2>1. after = {new}
    BY <1>1, <1>2
  <2>2. QED
    BY <2>1 DEF IsSingle
<1>3. QED
  BY <1>2 DEF Moves

\* From the first places to the second ones: waiting to active, or back.
LEMMA SlotMoves ==
  ASSUME NEW A, NEW B, NEW C, NEW D, NEW B2, NEW C2, NEW D2, NEW slot, NEW other,
         \A x \in A : x[1] = "root", \A x \in B : x[1] = "waiting",
         \A x \in C : x[1] = "active", \A x \in D : x[1] = "counted",
         slot[1] = "active", other[1] # "active",
         \A x : x # slot => (x \in C2 <=> x \in C),
         \/ /\ B2 = B /\ D2 = D /\ (slot \in C2 <=> slot \in C)
         \/ /\ slot \in C /\ slot \notin C2
            /\ B2 \cup D2 = B \cup D \cup {other}
         \/ /\ slot \notin C /\ slot \in C2 /\ D2 = D
            /\ B2 = B \ {other} /\ other \in B
  PROVE  Moves(A \cup B \cup C \cup D, A \cup B2 \cup C2 \cup D2)
<1> DEFINE S == A \cup B \cup C \cup D
           S2 == A \cup B2 \cup C2 \cup D2
<1>1. CASE B2 = B /\ D2 = D /\ (slot \in C2 <=> slot \in C)
  <2>1. \A x : x \in C2 <=> x \in C
    BY <1>1
  <2>2. C2 = C
    BY <2>1
  <2>3. QED
    BY <1>1, <2>2 DEF Moves
<1>2. CASE slot \in C /\ slot \notin C2 /\ B2 \cup D2 = B \cup D \cup {other}
  <2>1. slot \in S /\ slot \notin A /\ slot \notin B /\ slot \notin D /\ slot # other
    BY <1>2
  <2>2. C2 = C \ {slot}
    BY <1>2
  <2>3. S2 = (S \ {slot}) \cup {other}
    <3>1. S2 = A \cup (B \cup D \cup {other}) \cup (C \ {slot})
      BY <1>2, <2>2
    <3>2. QED
      BY <2>1, <3>1
  <2>4. QED
    <3> HIDE DEF S, S2
    <3>1. Moves(S, S2)
      BY <2>1, <2>3 DEF Moves
    <3>2. QED
      BY <3>1 DEF S, S2
<1>3. CASE slot \notin C /\ slot \in C2 /\ D2 = D /\ B2 = B \ {other} /\ other \in B
  <2>1. other \in S /\ other \notin A /\ other \notin C /\ other \notin D /\ slot # other
    BY <1>3
  <2>2. C2 = C \cup {slot}
    BY <1>3
  <2>3. S2 = (S \ {other}) \cup {slot}
    BY <1>3, <2>1, <2>2
  <2>4. QED
    <3> HIDE DEF S, S2
    <3>1. Moves(S, S2)
      BY <2>1, <2>3 DEF Moves
    <3>2. QED
      BY <3>1 DEF S, S2
<1>4. QED
  BY <1>1, <1>2, <1>3

-----------------------------------------------------------------------------
(***************************************************************************)
(* Every step leaves every cycle in one place.                             *)
(***************************************************************************)
HeldNow(c) == Held(graph, made, pool, stack, counted, c)

\* A place says of which kind it is.
LEMMA PlaceTags ==
  ASSUME NEW c
  PROVE  /\ \A x \in AtRoot(made, c) : x[1] = "root"
         /\ \A x \in InPool(graph, pool, c) : x[1] = "waiting"
         /\ \A x \in OnStacks(graph, stack, c) : x[1] = "active"
         /\ \A x \in InTally(counted, c) : x[1] = "counted"
BY StackPlaces DEF AtRoot, InPool, InTally

LEMMA MakeRootMoves ==
  ASSUME Typed, TasksInv, NEW t \in Threads, MakeRootTask(t), NEW c \in cycles
  PROVE  Moves(HeldNow(c), Held(graph, made', pool', stack', counted', c))
<1> DEFINE A == AtRoot(made, c)
           A2 == AtRoot(made', c)
           B == InPool(graph, pool, c)
           B2 == InPool(graph, pool', c)
           E == OnStacks(graph, stack, c) \cup InTally(counted, c)
           old == <<"root", made>>
           new == <<"waiting", RootTask(made)>>
<1>1. /\ made \in Nat /\ made' = made + 1 /\ made \in V /\ stack' = stack /\ counted' = counted
      /\ pool' = pool \cup {RootTask(made)} /\ c[1] \in V /\ c[1] \in Nat
  <2>1. made \in 0..N /\ made < N /\ N \in Nat /\ c[1] \in V
    BY TeamAssumption, CycleOf DEF Typed, MakeRootTask
  <2>2. QED
    BY <2>1, VertexType DEF MakeRootTask, V
<1>2. /\ A = (IF c[1] >= made THEN {<<"root", c[1]>>} ELSE {})
      /\ A2 = (IF c[1] >= made + 1 THEN {<<"root", c[1]>>} ELSE {})
  <2>1. made + 1 \in Nat
    BY <1>1
  <2>2. /\ AtRoot(made, c) = IF c[1] >= made THEN {<<"root", c[1]>>} ELSE {}
        /\ AtRoot(made + 1, c) = IF c[1] >= made + 1 THEN {<<"root", c[1]>>} ELSE {}
    BY <1>1, <2>1, RootPlaces
  <2>3. QED
    BY <1>1, <2>2
<1>3. /\ \A x \in B : x[1] = "waiting"
      /\ B2 = B \cup (IF c[1] = made THEN {new} ELSE {})
  <2> DEFINE task == RootTask(made)
             after == pool'
  <2>1. /\ PendingIn(graph, task, c) <=> c[1] = made
        /\ after = pool \cup {task} /\ new = <<"waiting", task>>
    BY <1>1, RootTaskPending
  <2> HIDE DEF task, after, new
  <2>2. InPool(graph, after, c)
          = InPool(graph, pool, c) \cup (IF PendingIn(graph, task, c) THEN {new} ELSE {})
    BY <2>1, PoolGains
  <2>3. QED
    BY <2>1, <2>2, PlaceTags DEF after
<1>4. \A x \in E : x[1] # "root"
  BY PlaceTags
<1>5. /\ HeldNow(c) = A \cup B \cup E
      /\ Held(graph, made', pool', stack', counted', c) = A2 \cup B2 \cup E
  BY <1>1 DEF Held, HeldNow
<1> HIDE DEF A, A2, B, B2, E
<1>6. Moves(A \cup B \cup E, A2 \cup B2 \cup E)
  <2>1. CASE c[1] = made
    <3>1. A = {old} /\ A2 = {} /\ B2 = B \cup {new}
      BY <1>1, <1>2, <1>3, <2>1
    <3>2. old \in A \cup B \cup E /\ A2 \cup B2 \cup E = ((A \cup B \cup E) \ {old}) \cup {new}
      BY <1>3, <1>4, <3>1
    <3> HIDE DEF old, new
    <3>3. QED
      BY <3>2 DEF Moves
  <2>2. CASE c[1] # made
    <3>1. A2 = A /\ B2 = B
      BY <1>1, <1>2, <1>3, <2>2
    <3>2. QED
      BY <3>1 DEF Moves
  <2>3. QED
    BY <2>1, <2>2
<1>7. QED
  BY <1>5, <1>6

LEMMA BeginMoves ==
  ASSUME Typed, TasksInv, NEW t \in Threads, Begin(t), NEW c \in cycles
  PROVE  Moves(HeldNow(c), Held(graph, made', pool', stack', counted', c))
<1>1. PICK task \in pool :
        /\ pool' = pool \ {task}
        /\ stack' = [stack EXCEPT ![t] = Append(stack[t], task)]
        /\ made' = made /\ counted' = counted
  BY DEF Begin
<1> DEFINE n == Len(stack[t]) + 1
           tasks == Append(stack[t], task)
           slot == <<"active", <<t, n>>>>
           other == <<"waiting", task>>
           A == AtRoot(made, c)
           B == InPool(graph, pool, c)
           B2 == InPool(graph, pool', c)
           C == OnStacks(graph, stack, c)
           C2 == OnStacks(graph, stack', c)
           D == InTally(counted, c)
<1>2. stack \in [Threads -> Seq(Tasks)] /\ stack[t] \in Seq(Tasks) /\ task \in Tasks
  BY DEF Typed
<1>3. /\ n \in Nat \ {0} /\ Len(stack[t]) = n - 1
      /\ Len(tasks) = n /\ tasks[n] = task
      /\ \A i \in 1..(n - 1) : tasks[i] = stack[t][i]
  BY <1>2, LenProperties, AppendProperties
<1>4. /\ \A r \in Threads : r # t => stack'[r] = stack[r]
      /\ stack'[t] = tasks
  <2> HIDE DEF tasks
  <2>1. stack' = [stack EXCEPT ![t] = tasks]
    BY <1>1 DEF tasks
  <2>2. QED
    BY <1>2, <2>1
<1> HIDE DEF tasks, n
<1>5. /\ \A x : x # slot => (x \in C2 <=> x \in C)
      /\ slot \in C <=> Len(stack[t]) = n /\ PendingIn(graph, stack[t][n], c)
      /\ slot \in C2 <=> Len(stack'[t]) = n /\ PendingIn(graph, stack'[t][n], c)
  <2>1. Len(stack[t]) \in {n - 1, n} /\ Len(stack'[t]) \in {n - 1, n}
    BY <1>3, <1>4
  <2>2. \A i \in 1..(n - 1) : stack'[t][i] = stack[t][i]
    BY <1>3, <1>4
  <2>3. QED
    <3> DEFINE next == stack'
    <3>1. ChangesSlot(stack, next, t, n) /\ slot = <<"active", <<t, n>>>>
      BY <1>3, <1>4, <2>1, <2>2 DEF ChangesSlot
    <3> HIDE DEF next, slot
    <3>2. /\ \A x : x # slot => (x \in OnStacks(graph, next, c) <=> x \in OnStacks(graph, stack, c))
          /\ slot \in OnStacks(graph, stack, c)
               <=> Len(stack[t]) = n /\ PendingIn(graph, stack[t][n], c)
          /\ slot \in OnStacks(graph, next, c)
               <=> Len(next[t]) = n /\ PendingIn(graph, next[t][n], c)
      BY <3>1, StackPlacesChange
    <3>3. QED
      BY <3>2 DEF next
<1>6. slot \notin C /\ (slot \in C2 <=> PendingIn(graph, task, c))
  BY <1>3, <1>4, <1>5
<1>7. B2 = B \ {other} /\ (other \in B <=> PendingIn(graph, task, c))
  <2> DEFINE after == pool'
  <2>1. after = pool \ {task}
    BY <1>1
  <2> HIDE DEF after
  <2>2. InPool(graph, after, c) = B \ {other} /\ (other \in B <=> PendingIn(graph, task, c))
    BY <2>1, PoolLoses
  <2>3. QED
    BY <2>2 DEF after
<1>8. /\ \A x \in A : x[1] = "root"
      /\ \A x \in B : x[1] = "waiting"
      /\ \A x \in C : x[1] = "active"
      /\ \A x \in D : x[1] = "counted"
  BY PlaceTags
<1>9. slot[1] = "active" /\ other[1] # "active"
  OBVIOUS
<1>10. /\ HeldNow(c) = A \cup B \cup C \cup D
       /\ Held(graph, made', pool', stack', counted', c) = A \cup B2 \cup C2 \cup D
  BY <1>1 DEF Held, HeldNow
<1> HIDE DEF A, B, B2, C, C2, D, slot, other
<1>11. \/ B2 = B /\ D = D /\ (slot \in C2 <=> slot \in C)
       \/ slot \notin C /\ slot \in C2 /\ D = D /\ B2 = B \ {other} /\ other \in B
  BY <1>6, <1>7
<1>12. Moves(A \cup B \cup C \cup D, A \cup B2 \cup C2 \cup D)
  BY <1>5, <1>8, <1>9, <1>11, SlotMoves
<1>13. QED
  BY <1>10, <1>12

\* The slot of the task a thread runs, before and after a step of the task.
LEMMA RunSlot ==
  ASSUME Typed, TasksInv, NEW t \in Threads, Busy(t), NEW new \in SoundTasks,
         Runs(t, new), new.base = Top(t).base, NEW c,
         NEW slot, slot = <<"active", <<t, Len(stack[t])>>>>
  PROVE  /\ \A x : x # slot => (x \in OnStacks(graph, stack', c) <=> x \in OnStacks(graph, stack, c))
         /\ slot \in OnStacks(graph, stack, c) <=> PendingIn(graph, Top(t), c)
         /\ slot \in OnStacks(graph, stack', c) <=> PendingIn(graph, new, c)
<1> DEFINE n == Len(stack[t])
           tasks == [stack[t] EXCEPT ![n] = new]
           after == stack'
<1>1. /\ stack[t] \in Seq(Tasks) /\ stack[t] # <<>> /\ n \in Nat \ {0} /\ n \in 1..n
      /\ Top(t) = stack[t][n] /\ new \in Tasks
      /\ Nested(stack[t], SoundTasks, request.cutoff)
      /\ new.base = stack[t][n].base
  BY TopShape DEF SoundTasks
<1>2. Len(tasks) = n /\ \A i \in 1..n : tasks[i] = IF i = n THEN new ELSE stack[t][i]
  BY <1>1, NestedReplace
<1>3. /\ \A r \in Threads : r # t => stack'[r] = stack[r]
      /\ stack'[t] = tasks
  <2>1. stack' = [stack EXCEPT ![t] = tasks] /\ stack \in [Threads -> Seq(Tasks)]
    BY DEF Runs, Typed
  <2> HIDE DEF tasks
  <2>2. QED
    BY <2>1
<1> HIDE DEF tasks
<1>4. ChangesSlot(stack, after, t, n)
  <2>1. n = Len(stack[t]) /\ \A i \in 1..(n - 1) : i \in 1..n /\ i # n
    BY <1>1
  <2> HIDE DEF n
  <2>2. QED
    BY <1>1, <1>2, <1>3, <2>1 DEF ChangesSlot
<1>5. after[t][n] = new /\ Len(after[t]) = n
  BY <1>1, <1>2, <1>3
<1>6. slot = <<"active", <<t, n>>>>
  OBVIOUS
<1> HIDE DEF after, n
<1>7. /\ \A x : x # slot => (x \in OnStacks(graph, after, c) <=> x \in OnStacks(graph, stack, c))
      /\ slot \in OnStacks(graph, stack, c)
           <=> Len(stack[t]) = n /\ PendingIn(graph, stack[t][n], c)
      /\ slot \in OnStacks(graph, after, c)
           <=> Len(after[t]) = n /\ PendingIn(graph, after[t][n], c)
  BY <1>4, <1>6, StackPlacesChange
<1>8. Len(stack[t]) = n
  BY DEF n
<1>9. QED
  BY <1>1, <1>5, <1>7, <1>8 DEF after

\* A step that counts no cycle and makes no task leaves what is ahead.
LEMMA RunStays ==
  ASSUME Typed, TasksInv, NEW t \in Threads, Skip(t) \/ Descend(t) \/ Backtrack(t), NEW c \in cycles
  PROVE  Moves(HeldNow(c), Held(graph, made', pool', stack', counted', c))
<1>1. PICK new \in SoundTasks :
        /\ Runs(t, new) /\ new.base = Top(t).base
        /\ Skip(t) => new = Advanced(Top(t))
        /\ Descend(t) => new = Descended(Top(t))
        /\ Backtrack(t) => new = Shortened(Top(t))
  BY RunningStep
<1>2. /\ Busy(t) /\ SoundTask(Top(t)) /\ made' = made /\ pool' = pool /\ counted' = counted
  BY TopShape DEF Skip, Descend, Backtrack
<1>3. PendingIn(graph, new, c) <=> PendingIn(graph, Top(t), c)
  <2>1. CASE Skip(t)
    BY <1>1, <1>2, <2>1, AdvancedPending, PrunedTakes DEF Skip
  <2>2. CASE Descend(t)
    BY <1>1, <1>2, <2>2, DescendedPending DEF Descend
  <2>3. CASE Backtrack(t)
    BY <1>1, <1>2, <2>3, ShortenedPending DEF Backtrack
  <2>4. QED
    BY <2>1, <2>2, <2>3
<1> DEFINE slot == <<"active", <<t, Len(stack[t])>>>>
           C == OnStacks(graph, stack, c)
           C2 == OnStacks(graph, stack', c)
<1>4. C2 = C
  <2>1. slot = <<"active", <<t, Len(stack[t])>>>>
    OBVIOUS
  <2> HIDE DEF slot
  <2>2. /\ \A x : x # slot => (x \in C2 <=> x \in C)
        /\ slot \in C <=> PendingIn(graph, Top(t), c)
        /\ slot \in C2 <=> PendingIn(graph, new, c)
    BY <1>1, <1>2, <2>1, RunSlot
  <2> HIDE DEF C, C2
  <2>3. \A x : x \in C2 <=> x \in C
    BY <1>3, <2>2
  <2>4. QED
    BY <2>3
<1>5. Held(graph, made', pool', stack', counted', c) = HeldNow(c)
  BY <1>2, <1>4 DEF Held, HeldNow
<1>6. QED
  BY <1>5 DEF Moves

LEMMA FinishStays ==
  ASSUME Typed, TasksInv, NEW t \in Threads, Finish(t), NEW c \in cycles
  PROVE  Moves(HeldNow(c), Held(graph, made', pool', stack', counted', c))
<1> DEFINE n == Len(stack[t])
           tasks == SubSeq(stack[t], 1, n - 1)
           after == stack'
           slot == <<"active", <<t, n>>>>
           C == OnStacks(graph, stack, c)
           C2 == OnStacks(graph, stack', c)
<1>1. /\ Busy(t) /\ made' = made /\ pool' = pool /\ counted' = counted
      /\ Exhausted(Top(t)) /\ Depth(Top(t)) = Top(t).base
      /\ stack' = [stack EXCEPT ![t] = tasks] /\ stack \in [Threads -> Seq(Tasks)]
  BY DEF Finish, Typed
<1>2. /\ stack[t] \in Seq(Tasks) /\ stack[t] # <<>> /\ n \in Nat \ {0}
      /\ Top(t) = stack[t][n] /\ SoundTask(Top(t))
      /\ Nested(stack[t], SoundTasks, request.cutoff)
  BY <1>1, TopShape
<1>3. Len(tasks) = n - 1 /\ \A i \in 1..(n - 1) : tasks[i] = stack[t][i]
  BY <1>2, NestedPop
<1>4. ~PendingIn(graph, Top(t), c)
  BY <1>1, <1>2, ShortenedPending
<1> HIDE DEF tasks
<1>5. ChangesSlot(stack, after, t, n) /\ Len(after[t]) # n
  <2>1. /\ \A r \in Threads : r # t => stack'[r] = stack[r]
        /\ stack'[t] = tasks
    BY <1>1
  <2>2. n - 1 # n /\ n = Len(stack[t])
    BY <1>2
  <2> HIDE DEF n
  <2>3. QED
    BY <1>2, <1>3, <2>1, <2>2 DEF ChangesSlot
<1>6. slot = <<"active", <<t, n>>>>
  OBVIOUS
<1> HIDE DEF after, n, slot
<1>7. /\ \A x : x # slot => (x \in OnStacks(graph, after, c) <=> x \in OnStacks(graph, stack, c))
      /\ slot \in OnStacks(graph, stack, c)
           <=> Len(stack[t]) = n /\ PendingIn(graph, stack[t][n], c)
      /\ slot \in OnStacks(graph, after, c)
           <=> Len(after[t]) = n /\ PendingIn(graph, after[t][n], c)
  BY <1>5, <1>6, StackPlacesChange
<1>8. C2 = C
  <2>1. slot \notin C /\ slot \notin OnStacks(graph, after, c)
    BY <1>2, <1>4, <1>5, <1>7
  <2>2. \A x : x \in OnStacks(graph, after, c) <=> x \in C
    BY <1>7, <2>1
  <2>3. OnStacks(graph, after, c) = C
    <3> HIDE DEF C
    <3> DEFINE D == OnStacks(graph, after, c)
    <3>1. \A x : x \in D <=> x \in C
      BY <2>2 DEF C
    <3> HIDE DEF D
    <3>2. D = C
      BY <3>1
    <3>3. QED
      BY <3>2 DEF D
  <2>4. QED
    BY <2>3 DEF after
<1>9. Held(graph, made', pool', stack', counted', c) = HeldNow(c)
  BY <1>1, <1>8 DEF Held, HeldNow
<1>10. QED
  BY <1>9 DEF Moves

\* The cycles that take the edge go with the task made of it.
LEMMA SpawnMoves ==
  ASSUME Typed, TasksInv, NEW t \in Threads, Spawn(t), NEW c \in cycles
  PROVE  Moves(HeldNow(c), Held(graph, made', pool', stack', counted', c))
<1> DEFINE child == Child(Top(t), NextVertex(Top(t)))
           slot == <<"active", <<t, Len(stack[t])>>>>
           other == <<"waiting", child>>
           after == pool'
           A == AtRoot(made, c)
           B == InPool(graph, pool, c)
           B2 == InPool(graph, pool', c)
           C == OnStacks(graph, stack, c)
           C2 == OnStacks(graph, stack', c)
           D == InTally(counted, c)
<1>1. PICK new \in SoundTasks :
        Runs(t, new) /\ new.base = Top(t).base /\ new = Advanced(Top(t))
  BY RunningStep
<1>2. /\ Busy(t) /\ SoundTask(Top(t)) /\ made' = made /\ counted' = counted
      /\ after = pool \cup {child} /\ ~Exhausted(Top(t))
      /\ ~Closes(Top(t), NextVertex(Top(t))) /\ ~Pruned(Top(t), NextVertex(Top(t)))
  BY TopShape DEF Spawn
<1>3. /\ PendingIn(graph, new, c) <=> PendingIn(graph, Top(t), c) /\ ~TakesEdge(Top(t), c)
      /\ TakesEdge(Top(t), c) => PendingIn(graph, Top(t), c)
      /\ PendingIn(graph, child, c) <=> TakesEdge(Top(t), c)
  BY <1>1, <1>2, AdvancedPending, TakenIsPending, ChildPending
<1>4. slot = <<"active", <<t, Len(stack[t])>>>> /\ other = <<"waiting", child>>
  OBVIOUS
<1>5. slot[1] = "active" /\ other[1] # "active"
  OBVIOUS
<1> HIDE DEF slot, other, child
<1>6. /\ \A x : x # slot => (x \in C2 <=> x \in C)
      /\ slot \in C <=> PendingIn(graph, Top(t), c)
      /\ slot \in C2 <=> PendingIn(graph, new, c)
  BY <1>1, <1>2, <1>4, RunSlot
<1>7. B2 = B \cup (IF PendingIn(graph, child, c) THEN {other} ELSE {})
  <2> HIDE DEF after
  <2>1. InPool(graph, after, c)
          = InPool(graph, pool, c) \cup (IF PendingIn(graph, child, c) THEN {other} ELSE {})
    BY <1>2, <1>4, PoolGains, ZenonT(40)
  <2>2. QED
    BY <2>1 DEF after
<1>8. /\ \A x \in A : x[1] = "root"
      /\ \A x \in B : x[1] = "waiting"
      /\ \A x \in C : x[1] = "active"
      /\ \A x \in D : x[1] = "counted"
  BY PlaceTags
<1>9. /\ HeldNow(c) = A \cup B \cup C \cup D
      /\ Held(graph, made', pool', stack', counted', c) = A \cup B2 \cup C2 \cup D
  BY <1>2 DEF Held, HeldNow
<1> HIDE DEF A, B, B2, C, C2, D, after
<1>10. \/ B2 = B /\ D = D /\ (slot \in C2 <=> slot \in C)
       \/ slot \in C /\ slot \notin C2 /\ B2 \cup D = B \cup D \cup {other}
  <2>1. CASE TakesEdge(Top(t), c)
    <3>1. B2 = B \cup {other} /\ slot \in C /\ slot \notin C2
      BY <1>3, <1>6, <1>7, <2>1
    <3>2. QED
      BY <3>1
  <2>2. CASE ~TakesEdge(Top(t), c)
    BY <1>3, <1>6, <1>7, <2>2
  <2>3. QED
    BY <2>1, <2>2
<1>11. Moves(A \cup B \cup C \cup D, A \cup B2 \cup C2 \cup D)
  BY <1>5, <1>6, <1>8, <1>10, SlotMoves
<1>12. QED
  BY <1>9, <1>11

\* The path that is closed goes from the task to the tally of the thread.
LEMMA CloseMoves ==
  ASSUME Typed, TasksInv, NEW t \in Threads, Close(t), NEW c \in cycles
  PROVE  /\ Moves(HeldNow(c), Held(graph, made', pool', stack', counted', c))
         /\ Path(Top(t)) \in cycles
         /\ c = Path(Top(t)) => <<"active", <<t, Len(stack[t])>>>> \in HeldNow(c)
<1> DEFINE path == Path(Top(t))
           slot == <<"active", <<t, Len(stack[t])>>>>
           other == <<"counted", t>>
           more == counted'
           A == AtRoot(made, c)
           B == InPool(graph, pool, c)
           C == OnStacks(graph, stack, c)
           C2 == OnStacks(graph, stack', c)
           D == InTally(counted, c)
           D2 == InTally(counted', c)
<1>1. PICK new \in SoundTasks :
        Runs(t, new) /\ new.base = Top(t).base /\ new = Advanced(Top(t))
  BY RunningStep
<1>2. /\ Busy(t) /\ SoundTask(Top(t)) /\ made' = made /\ pool' = pool
      /\ ~Exhausted(Top(t)) /\ Closes(Top(t), NextVertex(Top(t)))
      /\ CountsPath(counted, more, t, path)
  <2>1. counted' = [counted EXCEPT ![t] = counted[t] \cup {path}]
    BY DEF Close
  <2>2. counted \in [Threads -> SUBSET cycles]
    BY DEF Typed
  <2>3. \A r \in Threads : more[r] = IF r = t THEN counted[r] \cup {path} ELSE counted[r]
    <3> HIDE DEF path
    <3> QED BY <2>1, <2>2
  <2>4. QED
    BY <2>3, TopShape DEF Close, CountsPath
<1>3. /\ PendingIn(graph, new, c) <=> PendingIn(graph, Top(t), c) /\ ~TakesEdge(Top(t), c)
      /\ TakesEdge(Top(t), c) => PendingIn(graph, Top(t), c)
      /\ TakesEdge(Top(t), c) <=> c = path
      /\ path \in cycles
  BY <1>1, <1>2, AdvancedPending, TakenIsPending, ClosingTakes, ClosingTask
<1>4. slot = <<"active", <<t, Len(stack[t])>>>> /\ other = <<"counted", t>>
  OBVIOUS
<1>5. slot[1] = "active" /\ other[1] # "active"
  OBVIOUS
<1> HIDE DEF slot, other, path
<1>6. /\ \A x : x # slot => (x \in C2 <=> x \in C)
      /\ slot \in C <=> PendingIn(graph, Top(t), c)
      /\ slot \in C2 <=> PendingIn(graph, new, c)
  BY <1>1, <1>2, <1>4, RunSlot
<1>7. D2 = D \cup (IF c = path THEN {other} ELSE {})
  <2> HIDE DEF more
  <2>1. InTally(more, c) = InTally(counted, c) \cup (IF c = path THEN {other} ELSE {})
    BY <1>2, <1>4, TallyPlaces
  <2>2. QED
    BY <2>1 DEF more
<1>8. /\ \A x \in A : x[1] = "root"
      /\ \A x \in B : x[1] = "waiting"
      /\ \A x \in C : x[1] = "active"
      /\ \A x \in D : x[1] = "counted"
  BY PlaceTags
<1>9. /\ HeldNow(c) = A \cup B \cup C \cup D
      /\ Held(graph, made', pool', stack', counted', c) = A \cup B \cup C2 \cup D2
  BY <1>2 DEF Held, HeldNow
<1> HIDE DEF A, B, C, C2, D, D2, more
<1>10. \/ B = B /\ D2 = D /\ (slot \in C2 <=> slot \in C)
       \/ slot \in C /\ slot \notin C2 /\ B \cup D2 = B \cup D \cup {other}
  <2>1. CASE c = path
    <3>1. D2 = D \cup {other} /\ slot \in C /\ slot \notin C2
      BY <1>3, <1>6, <1>7, <2>1
    <3>2. QED
      BY <3>1
  <2>2. CASE c # path
    BY <1>3, <1>6, <1>7, <2>2
  <2>3. QED
    BY <2>1, <2>2
<1>11. Moves(A \cup B \cup C \cup D, A \cup B \cup C2 \cup D2)
  BY <1>5, <1>6, <1>8, <1>10, SlotMoves
<1>12. c = path => slot \in HeldNow(c)
  BY <1>3, <1>6, <1>9
<1>13. QED
  BY <1>3, <1>9, <1>11, <1>12 DEF slot, path

\* Whatever the step, a cycle moves at most once.
LEMMA PlacesStep ==
  ASSUME Typed, TasksInv, [Next]_vars, NEW c \in cycles
  PROVE  Moves(HeldNow(c), Held(graph, made', pool', stack', counted', c))
<1>1. ASSUME UNCHANGED <<made, pool, stack, counted>>
      PROVE  Moves(HeldNow(c), Held(graph, made', pool', stack', counted', c))
  BY <1>1 DEF Moves, HeldNow
<1>2. CASE Join \/ Returned \/ UNCHANGED vars
  BY <1>1, <1>2 DEF Join, Returned, vars
<1>3. ASSUME NEW t \in Threads, Thread(t)
      PROVE  Moves(HeldNow(c), Held(graph, made', pool', stack', counted', c))
  <2>1. CASE EnterSingle(t)
    BY <1>1, <2>1 DEF EnterSingle
  <2>2. CASE MakeRootTask(t)
    BY <2>2, MakeRootMoves
  <2>3. CASE Begin(t)
    BY <2>3, BeginMoves
  <2>4. CASE Close(t)
    BY <2>4, CloseMoves
  <2>5. CASE Skip(t) \/ Descend(t) \/ Backtrack(t)
    BY <2>5, RunStays
  <2>6. CASE Spawn(t)
    BY <2>6, SpawnMoves
  <2>7. CASE Finish(t)
    BY <2>7, FinishStays
  <2>8. QED
    BY <1>3, <2>1, <2>2, <2>3, <2>4, <2>5, <2>6, <2>7 DEF Thread, Run
<1>4. QED
  BY <1>2, <1>3 DEF Next

-----------------------------------------------------------------------------
(***************************************************************************)
(* Every cycle is in one place, and the histograms are those of the cycles *)
(* counted.                                                                *)
(***************************************************************************)
CountInv ==
  /\ \A c \in cycles : IsSingle(Held(graph, made, pool, stack, counted, c))
  /\ \A t \in Threads : IsFiniteSet(counted[t]) /\ local[t] = HistogramOf(counted[t], N)
  /\ result # NoResult => made = N /\ pool = {} /\ \A t \in Threads : ~Busy(t)

LEMMA CountInit == Init => CountInv
<1> SUFFICES ASSUME Init
             PROVE  CountInv
  OBVIOUS
<1>1. /\ Typed /\ made = 0 /\ pool = {} /\ result = NoResult
      /\ stack = [t \in Threads |-> <<>>]
      /\ local = [t \in Threads |-> [len \in Lengths |-> 0]]
      /\ counted = [t \in Threads |-> {}]
  BY TypedInit DEF Init
<1>2. ASSUME NEW c \in cycles
      PROVE  IsSingle(Held(graph, made, pool, stack, counted, c))
  <2>1. c[1] \in V /\ c[1] >= 0
    BY <1>1, CycleOf DEF V
  <2>2. AtRoot(0, c) = {<<"root", c[1]>>}
    BY <2>1, RootPlaces
  <2>3. InPool(graph, {}, c) = {}
    BY DEF InPool
  <2>4. OnStacks(graph, stack, c) = {}
    <3>1. \A t \in Threads : 1..Len(stack[t]) = {}
      BY <1>1
    <3>2. QED
      BY <3>1, StackPlaces
  <2>5. InTally(counted, c) = {}
    BY <1>1 DEF InTally
  <2>6. Held(graph, made, pool, stack, counted, c) = {<<"root", c[1]>>}
    BY <1>1, <2>2, <2>3, <2>4, <2>5 DEF Held
  <2>7. QED
    BY <2>6 DEF IsSingle
<1>3. IsFiniteSet({}) /\ [len \in Lengths |-> 0] = HistogramOf({}, N)
  <2>1. \A len \in Lengths : Cardinality(OfLength({}, len)) = 0
    BY FS_EmptySet DEF OfLength
  <2>2. QED
    BY <2>1, FS_EmptySet DEF HistogramOf, Lengths
<1>4. QED
  BY <1>1, <1>2, <1>3 DEF CountInv

\* A cycle that a thread has counted is nowhere else.
LEMMA CountedOnce ==
  ASSUME CountInv, NEW c \in cycles, NEW t \in Threads, c \in counted[t]
  PROVE  /\ \A r \in Threads : c \in counted[r] => r = t
         /\ \A x \in HeldNow(c) : x[1] = "counted"
<1>1. PICK x : HeldNow(c) = {x}
  BY DEF CountInv, IsSingle, HeldNow
<1>2. \A r \in Threads : c \in counted[r] => <<"counted", r>> \in HeldNow(c)
  BY DEF HeldNow, Held, InTally
<1>3. x = <<"counted", t>>
  BY <1>1, <1>2
<1>4. QED
  BY <1>1, <1>2, <1>3

\* The path that is closed is counted for the first time.
LEMMA CloseCounts ==
  ASSUME Typed, TasksInv, CountInv, NEW t \in Threads, Close(t)
  PROVE  /\ Path(Top(t)) \in cycles /\ \A r \in Threads : Path(Top(t)) \notin counted[r]
         /\ counted' = [counted EXCEPT ![t] = counted[t] \cup {Path(Top(t))}]
         /\ \A r \in Threads : IsFiniteSet(counted'[r]) /\ local'[r] = HistogramOf(counted'[r], N)
<1> DEFINE path == Path(Top(t))
           d == Depth(Top(t))
           mine == counted[t] \cup {path}
<1>1. /\ Busy(t) /\ SoundTask(Top(t)) /\ ~Exhausted(Top(t))
      /\ Closes(Top(t), NextVertex(Top(t)))
      /\ counted' = [counted EXCEPT ![t] = mine]
      /\ local' = [local EXCEPT ![t] = [local[t] EXCEPT ![d] = local[t][d] + 1]]
      /\ counted \in [Threads -> SUBSET cycles] /\ local \in [Threads -> [Lengths -> Nat]]
  BY TopShape DEF Close, Typed
<1>2. path \in cycles /\ Len(path) = d
  BY <1>1, ClosingTask
<1>3. \A r \in Threads : path \notin counted[r]
  <2>1. SUFFICES ASSUME NEW r \in Threads, path \in counted[r]
                 PROVE  FALSE
    OBVIOUS
  <2>2. <<"active", <<t, Len(stack[t])>>>> \in HeldNow(path)
    BY <1>2, CloseMoves
  <2>3. \A x \in HeldNow(path) : x[1] = "counted"
    <3> HIDE DEF path
    <3> QED BY <1>2, <2>1, CountedOnce
  <2>4. QED
    BY <2>2, <2>3
<1> HIDE DEF path, d
<1>4. /\ IsFiniteSet(counted[t]) /\ local[t] = HistogramOf(counted[t], N)
      /\ \A r \in Threads : IsFiniteSet(counted[r]) /\ local[r] = HistogramOf(counted[r], N)
  BY DEF CountInv
<1>5. IsFiniteSet(mine)
  BY <1>4, FS_AddElement
<1> DEFINE old == local[t]
           new == [old EXCEPT ![d] = old[d] + 1]
<1>6. old \in [Lengths -> Nat]
  BY <1>1
<1>7. ASSUME NEW len \in 2..N
      PROVE  new[len] = Cardinality(OfLength(mine, len))
  <2>1. old[len] = Cardinality(OfLength(counted[t], len))
    BY <1>4 DEF HistogramOf
  <2>2. new[len] = IF len = d THEN old[len] + 1 ELSE old[len]
    <3> HIDE DEF old
    <3> QED BY <1>6 DEF Lengths
  <2>3. Cardinality(OfLength(mine, len))
          = IF Len(path) = len THEN Cardinality(OfLength(counted[t], len)) + 1
                               ELSE Cardinality(OfLength(counted[t], len))
    BY <1>3, <1>4, OfLengthAdd
  <2>4. QED
    <3> HIDE DEF old, new, mine
    <3> QED BY <1>2, <2>1, <2>2, <2>3
<1>8. new = HistogramOf(mine, N)
  <2>1. new = [len \in 2..N |-> new[len]]
    <3> HIDE DEF old
    <3> QED BY <1>6 DEF Lengths
  <2>2. QED
    <3> HIDE DEF new, mine
    <3> QED BY <1>7, <2>1 DEF HistogramOf
<1>9. local' = [local EXCEPT ![t] = new]
  BY <1>1
<1>10. \A r \in Threads : IsFiniteSet(counted'[r]) /\ local'[r] = HistogramOf(counted'[r], N)
  <2> HIDE DEF new, mine
  <2> QED BY <1>1, <1>4, <1>5, <1>8, <1>9
<1>11. QED
  BY <1>1, <1>2, <1>3, <1>10 DEF path

LEMMA CountStep == Typed /\ TasksInv /\ CountInv /\ [Next]_vars => CountInv'
<1> SUFFICES ASSUME Typed, TasksInv, CountInv, [Next]_vars
             PROVE  CountInv'
  OBVIOUS
<1>1. cycles' = cycles /\ graph' = graph
  BY InputSame
<1>2. \A c \in cycles : IsSingle(Held(graph, made', pool', stack', counted', c))
  <2>1. \A c \in cycles : IsSingle(HeldNow(c))
    BY DEF CountInv, HeldNow
  <2>2. QED
    BY <2>1, PlacesStep, SingleMoves
<1>3. \A t \in Threads : IsFiniteSet(counted'[t]) /\ local'[t] = HistogramOf(counted'[t], N)
  <2>1. ASSUME NEW t \in Threads, Close(t)
        PROVE  \A r \in Threads : IsFiniteSet(counted'[r]) /\ local'[r] = HistogramOf(counted'[r], N)
    BY <2>1, CloseCounts
  <2>2. CASE ~ \E t \in Threads : Close(t)
    <3>1. counted' = counted /\ local' = local
      BY <2>2 DEF Next, Thread, Run, EnterSingle, MakeRootTask, Begin, Join, Skip, Spawn, Descend,
                  Backtrack, Finish, Returned, vars
    <3>2. QED
      BY <3>1 DEF CountInv
  <2>3. QED
    BY <2>1, <2>2
<1>4. ASSUME result' # NoResult
      PROVE  made' = N /\ pool' = {} /\ \A t \in Threads : ~Busy(t)'
  <2>1. result # NoResult => made = N /\ pool = {} /\ \A t \in Threads : ~Busy(t)
    BY DEF CountInv
  <2>2. CASE Join \/ Returned \/ UNCHANGED vars
    <3>1. made' = made /\ pool' = pool /\ stack' = stack
      BY <2>2 DEF Join, Returned, vars
    <3>2. made = N /\ pool = {} /\ \A t \in Threads : ~Busy(t)
      BY <1>4, <2>1, <2>2 DEF Join, Returned, vars
    <3>3. QED
      BY <3>1, <3>2 DEF Busy
  <2>3. ASSUME NEW t \in Threads, Thread(t)
        PROVE  made' = N /\ pool' = {} /\ \A r \in Threads : ~Busy(r)'
    <3>1. result' = result
      BY <2>3 DEF Thread, Run, EnterSingle, MakeRootTask, Begin, Close, Skip, Spawn, Descend,
                  Backtrack, Finish
    <3>2. made = N /\ pool = {} /\ \A r \in Threads : ~Busy(r)
      BY <1>4, <2>1, <3>1
    <3>3. EnterSingle(t)
      <4>1. ~(made < N)
        BY <3>2, TeamAssumption
      <4>2. QED
        BY <2>3, <3>2, <4>1 DEF Thread, Run, MakeRootTask, Begin, Close, Skip, Spawn, Descend,
                                Backtrack, Finish
    <3>4. QED
      BY <3>2, <3>3 DEF EnterSingle, Busy
  <2>4. QED
    BY <2>2, <2>3 DEF Next
<1>5. QED
  BY <1>1, <1>2, <1>3, <1>4 DEF CountInv

LEMMA CountAlways == Spec => [](Typed /\ TasksInv /\ CountInv)
<1>1. Spec => [](Typed /\ TasksInv)
  BY TypedAlways
<1>2. QED
  BY <1>1, CountInit, CountStep, PTL DEF Spec

\* Whatever tasks are made and whoever runs them, a cycle is in one place: its
\* root is not a task yet, it is ahead of one task, or one thread has counted it.
THEOREM TasksOnePlace == Spec => []OnePlace
<1>1. CountInv => OnePlace
  <2> SUFFICES ASSUME CountInv, NEW c \in cycles
               PROVE  Cardinality(Places(c)) = 1
    BY DEF OnePlace
  <2>1. AtRoot(made, c) = {<<"root", v>> : v \in {v \in made..(N - 1) : v = c[1]}}
    BY DEF AtRoot
  <2>2. \A task : Ahead(task, c) <=> PendingIn(graph, task, c)
    BY DEF Ahead, PendingIn, Pending, Follows, Depth, VertexAt, OffsetAt
  <2>3. InPool(graph, pool, c) = {<<"waiting", task>> : task \in {task \in pool : Ahead(task, c)}}
    BY <2>2 DEF InPool
  <2>4. OnStacks(graph, stack, c)
          = {<<"active", s>> : s \in {s \in Slots : Ahead(stack[s[1]][s[2]], c)}}
    BY <2>2 DEF OnStacks, SlotsOf, Slots
  <2>5. InTally(counted, c) = {<<"counted", t>> : t \in {t \in Threads : c \in counted[t]}}
    BY DEF InTally
  <2>6. Places(c) = Held(graph, made, pool, stack, counted, c)
    BY <2>1, <2>3, <2>4, <2>5 DEF Places, Held
  <2>7. QED
    BY <2>6, FS_Singleton DEF CountInv, IsSingle
<1>2. QED
  BY <1>1, CountAlways, PTL

\* When no task is left to make or to run all cycles are counted.
LEMMA AllCountedAtTheEnd ==
  ASSUME Typed, CountInv, made = N, pool = {}, \A t \in Threads : ~Busy(t)
  PROVE  AllCounted = cycles
<1>1. ASSUME NEW c \in cycles
      PROVE  \E t \in Threads : c \in counted[t]
  <2>1. c[1] \in V /\ ~(c[1] >= N) /\ N \in Nat
    BY TeamAssumption, CycleOf DEF V
  <2>2. AtRoot(made, c) = {}
    BY <2>1, RootPlaces
  <2>3. InPool(graph, pool, c) = {}
    BY PoolPlaces
  <2>4. OnStacks(graph, stack, c) = {}
    <3>1. \A t \in Threads : 1..Len(stack[t]) = {}
      BY DEF Busy
    <3>2. QED
      BY <3>1, StackPlaces
  <2>5. HeldNow(c) = InTally(counted, c)
    BY <2>2, <2>3, <2>4 DEF HeldNow, Held
  <2>6. InTally(counted, c) # {}
    BY <2>5 DEF CountInv, IsSingle, HeldNow
  <2>7. QED
    BY <2>6 DEF InTally
<1>2. \A t \in Threads : counted[t] \subseteq cycles
  BY DEF Typed
<1>3. QED
  BY <1>1, <1>2 DEF AllCounted

\* The merge of the histograms is the histogram of all that is counted.
LEMMA MergedHistogram ==
  ASSUME Typed, CountInv
  PROVE  Merged = HistogramOf(AllCounted, N)
<1>1. ASSUME NEW len \in Lengths
      PROVE  MapThenSumSet(LAMBDA t : local[t][len], Threads)
               = Cardinality(OfLength(AllCounted, len))
  <2> DEFINE A == [t \in Threads |-> OfLength(counted[t], len)]
  <2>1. ASSUME NEW t \in Threads
        PROVE  IsFiniteSet(A[t]) /\ local[t][len] = Cardinality(A[t])
    <3>1. IsFiniteSet(counted[t]) /\ local[t] = HistogramOf(counted[t], N)
      BY DEF CountInv
    <3>2. A[t] = OfLength(counted[t], len) /\ IsFiniteSet(OfLength(counted[t], len))
      BY <3>1, OfLengthFinite
    <3>3. local[t][len] = Cardinality(OfLength(counted[t], len))
      BY <3>1 DEF HistogramOf, Lengths
    <3>4. QED
      BY <3>2, <3>3
  <2>2. ASSUME NEW t \in Threads, NEW r \in Threads, t # r
        PROVE  A[t] \cap A[r] = {}
    <3>1. \A c \in counted[t] : c \in cycles
      BY DEF Typed
    <3>2. counted[t] \cap counted[r] = {}
      BY <2>2, <3>1, CountedOnce
    <3>3. QED
      BY <3>2 DEF OfLength
  <2>3. UNION {A[t] : t \in Threads} = OfLength(AllCounted, len)
    BY DEF AllCounted, OfLength
  <2> HIDE DEF A
  <2>4. TallySum(local, len, Threads)[Threads] = Cardinality(OfLength(AllCounted, len))
    <3> DEFINE all == OfLength(AllCounted, len)
    <3>1. IsFiniteSet(Threads) /\ AreSizes(local, len, A, Threads)
      BY <2>1, <2>2, TeamAssumption DEF AreSizes
    <3>2. all = UNION {A[t] : t \in Threads}
      BY <2>3
    <3> HIDE DEF all
    <3>3. TallySum(local, len, Threads)[Threads] = Cardinality(all)
      BY <3>1, <3>2, SumOfDisjoint
    <3>4. QED
      BY <3>3 DEF all
  <2>5. MapThenSumSet(LAMBDA t : local[t][len], Threads) = TallySum(local, len, Threads)[Threads]
    BY DEF MapThenSumSet, MapThenFoldSet, TallySum, SumStep, Pick
  <2>6. QED
    BY <2>4, <2>5
<1>2. QED
  BY <1>1 DEF Merged, HistogramOf, Lengths

\* The tasks implement CycleCounting: whatever the team and the cutoff, each
\* simple cycle within the bound is counted once, and the histogram returned is
\* theirs.
THEOREM TasksImplementCounting == Spec => TasksCount
<1>1. Init => Abstract!Init
  BY DEF Init, Abstract!Init, AllCounted
<1>2. Typed /\ TasksInv /\ CountInv /\ [Next]_vars => [Abstract!Next]_(Abstract!vars)
  <2> SUFFICES ASSUME Typed, TasksInv, CountInv, [Next]_vars
               PROVE  Abstract!Next \/ UNCHANGED Abstract!vars
    OBVIOUS
  <2>1. cycles' = cycles
    BY InputSame
  <2>2. ASSUME NEW t \in Threads, Close(t)
        PROVE  Abstract!Count
    <3> DEFINE path == Path(Top(t))
    <3>1. /\ path \in cycles /\ \A r \in Threads : path \notin counted[r]
          /\ counted' = [counted EXCEPT ![t] = counted[t] \cup {path}]
          /\ counted \in [Threads -> SUBSET cycles]
      BY <2>2, CloseCounts DEF Typed
    <3> HIDE DEF path
    <3>2. path \notin AllCounted
      BY <3>1 DEF AllCounted
    <3>3. AllCounted' = AllCounted \cup {path}
      <4>1. \A r \in Threads : counted'[r] = IF r = t THEN counted[r] \cup {path} ELSE counted[r]
        BY <3>1
      <4>2. QED
        BY <4>1 DEF AllCounted
    <3>4. result' = result /\ result = NoResult
      BY <2>2 DEF Close, CountInv
    <3>5. QED
      BY <2>1, <3>1, <3>2, <3>3, <3>4 DEF Abstract!Count
  <2>3. CASE Join
    <3>1. AllCounted = cycles
      BY <2>3, AllCountedAtTheEnd DEF Join
    <3>2. result' = HistogramOf(AllCounted, N)
      BY <2>3, MergedHistogram DEF Join
    <3>3. AllCounted' = AllCounted /\ result = NoResult
      BY <2>3 DEF Join, AllCounted
    <3>4. QED
      BY <2>1, <3>1, <3>2, <3>3 DEF Abstract!Next, Abstract!Report
  <2>4. CASE ~Join /\ ~ \E t \in Threads : Close(t)
    <3>1. counted' = counted /\ result' = result
      BY <2>4 DEF Next, Thread, Run, EnterSingle, MakeRootTask, Begin, Skip, Spawn, Descend,
                  Backtrack, Finish, Returned, vars
    <3>2. AllCounted' = AllCounted
      BY <3>1 DEF AllCounted
    <3>3. QED
      BY <2>1, <3>1, <3>2 DEF Abstract!vars
  <2>5. QED
    BY <2>2, <2>3, <2>4 DEF Abstract!Next
<1>3. QED
  BY <1>1, <1>2, CountAlways, PTL DEF Spec, TasksCount, Abstract!Spec
=============================================================================
