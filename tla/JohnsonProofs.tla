---------------------------- MODULE JohnsonProofs ----------------------------
(***************************************************************************)
(* What holds of the sequential Johnson search for every graph and length  *)
(* bound: the blocking is sound, and every simple cycle is counted once.   *)
(***************************************************************************)
EXTENDS Johnson, CycleFacts

USE RequestAssumption

-----------------------------------------------------------------------------
(***************************************************************************)
(* Types, and the path of the calls.                                       *)
(***************************************************************************)
MaxLength == IF bound = Unbounded THEN N ELSE bound

Frames == [vertex : V, offset : Nat \ {0}, found : BOOLEAN]

Typed ==
  /\ graph \in Adjacencies(V)
  /\ bound \in {Unbounded} \cup (Nat \ {0, 1})
  /\ cycles = Cycles(graph, MaxLength)
  /\ root \in -1..(N - 1)
  /\ calls \in Seq(Frames)
  /\ calls # <<>> => root \in V
  /\ \A i \in 1..Depth : calls[i].offset \in 1..(Len(graph[calls[i].vertex]) + 1)
  /\ blocked \in SUBSET V
  /\ blockedLists \in [V -> SUBSET V]
  /\ histogram \in [Lengths -> Nat]

\* The path is simple, starts at the root and stays above it; a call has been
\* made for the edge its caller consumed last.
PathInv ==
  /\ \A i, j \in 1..Depth : i # j => calls[i].vertex # calls[j].vertex
  /\ calls # <<>> => calls[1].vertex = root
  /\ \A i \in 2..Depth : calls[i].vertex > root
  /\ \A i \in 1..(Depth - 1) :
       /\ calls[i].offset >= 2
       /\ graph[calls[i].vertex][calls[i].offset - 1] = calls[i + 1].vertex
  /\ Bounded => Depth <= bound

LEMMA VertexType == V \in SUBSET Int /\ V \in SUBSET Nat /\ IsFiniteSet(V) /\ Cardinality(V) = N
<1>1. IsFiniteSet(V) /\ Cardinality(V) = N
  BY FS_Interval DEF V
<1>2. QED
  BY <1>1 DEF V

LEMMA GraphShape ==
  ASSUME Typed
  PROVE  \A v \in V : /\ Len(graph[v]) \in Nat
                      /\ \A i \in 1..Len(graph[v]) : graph[v][i] \in V
                      /\ \A i, j \in 1..Len(graph[v]) : i # j => graph[v][i] # graph[v][j]
                      /\ Neighbours(graph, v) \in SUBSET V
<1>1. \A v \in V : /\ Len(graph[v]) \in Nat
                   /\ \A i \in 1..Len(graph[v]) : graph[v][i] \in V
                   /\ \A i, j \in 1..Len(graph[v]) : i # j => graph[v][i] # graph[v][j]
  BY AdjacencyShape, VertexType DEF Typed
<1>2. QED
  BY <1>1 DEF Neighbours

LEMMA StackShape ==
  ASSUME Typed
  PROVE  /\ Depth \in Nat
         /\ calls \in [1..Depth -> Frames]
         /\ calls # <<>> => Depth >= 1
         /\ calls = <<>> => Depth = 0
         /\ \A i \in 1..Depth : /\ calls[i] \in Frames
                                /\ calls[i].vertex \in V
                                /\ calls[i].offset \in Nat \ {0}
                                /\ calls[i].offset \in 1..(Len(graph[calls[i].vertex]) + 1)
                                /\ calls[i].found \in BOOLEAN
                                /\ Path[i] = calls[i].vertex
<1>1. calls \in Seq(Frames)
  BY DEF Typed
<1>2. /\ Depth \in Nat /\ calls \in [1..Depth -> Frames]
      /\ calls # <<>> => Depth >= 1
      /\ calls = <<>> => Depth = 0
  BY <1>1, LenProperties, EmptySeq DEF Depth
<1>3. \A i \in 1..Depth : calls[i] \in Frames
  BY <1>2
<1>4. \A i \in 1..Depth : calls[i].offset \in 1..(Len(graph[calls[i].vertex]) + 1)
  BY DEF Typed
<1>5. QED
  BY <1>2, <1>3, <1>4 DEF Frames, Path

\* The running call, when there is one.
LEMMA TopCall ==
  ASSUME Typed, calls # <<>>
  PROVE  /\ Depth \in 1..Depth /\ Depth \in Nat \ {0}
         /\ Running.vertex \in V /\ Running.offset \in Nat \ {0}
         /\ Running.found \in BOOLEAN
         /\ Edges = graph[Running.vertex] /\ Len(Edges) \in Nat
         /\ ~Exhausted => /\ Running.offset \in 1..Len(Edges)
                          /\ NextVertex \in V
                          /\ NextVertex \in Neighbours(graph, Running.vertex)
         /\ root \in V
<1>1. Depth \in 1..Depth /\ Depth \in Nat \ {0}
  BY StackShape
<1>2. /\ Running.vertex \in V /\ Running.offset \in Nat \ {0}
      /\ Running.found \in BOOLEAN
  BY <1>1, StackShape DEF Running
<1>3. Edges = graph[Running.vertex] /\ Len(Edges) \in Nat
  BY <1>2, GraphShape DEF Edges
<1>4. ASSUME ~Exhausted
      PROVE  /\ Running.offset \in 1..Len(Edges)
             /\ NextVertex \in V
             /\ NextVertex \in Neighbours(graph, Running.vertex)
  <2>1. Running.offset \in 1..Len(Edges)
    BY <1>2, <1>3, <1>4 DEF Exhausted
  <2>2. QED
    BY <1>2, <1>3, <2>1, GraphShape DEF NextVertex, Neighbours
<1>5. root \in V
  BY DEF Typed
<1>6. QED
  BY <1>1, <1>2, <1>3, <1>4, <1>5

-----------------------------------------------------------------------------
(***************************************************************************)
(* What the steps do to the stack.                                         *)
(***************************************************************************)
\* The loop of the running call moves on to its next edge.
LEMMA EdgeStep ==
  ASSUME Typed, Close \/ Skip
  PROVE  /\ calls # <<>> /\ ~Exhausted
         /\ calls' \in Seq(Frames) /\ Depth' = Depth /\ calls' # <<>>
         /\ \A i \in 1..Depth : /\ calls'[i].vertex = calls[i].vertex
                                /\ calls[i].found => calls'[i].found
         /\ \A i \in 1..(Depth - 1) : calls'[i] = calls[i]
         /\ calls'[Depth].offset = calls[Depth].offset + 1
         /\ Close => calls'[Depth].found
         /\ Skip => calls'[Depth].found = calls[Depth].found
<1>1. calls # <<>> /\ ~Exhausted
  BY DEF Close, Skip
<1>2. /\ Depth \in 1..Depth /\ calls \in Seq(Frames) /\ calls \in [1..Depth -> Frames]
      /\ calls[Depth] \in Frames /\ Running = calls[Depth]
  BY <1>1, StackShape, TopCall DEF Typed, Running
<1>3. PICK f \in BOOLEAN :
        /\ calls' = [calls EXCEPT ![Depth] = [Running EXCEPT !.offset = @ + 1, !.found = f]]
        /\ Close => f = TRUE
        /\ Skip => f = Running.found
  <2>1. ~(Close /\ Skip)
    BY DEF Close, Skip
  <2>2. CASE Close
    <3>1. calls' = [calls EXCEPT ![Depth] = [Running EXCEPT !.offset = @ + 1, !.found = TRUE]]
      BY <1>2, <2>2 DEF Close, Frames
    <3>2. QED
      BY <2>1, <2>2, <3>1
  <2>3. CASE Skip
    <3>1. calls' = [calls EXCEPT ![Depth] = [Running EXCEPT !.offset = @ + 1, !.found = Running.found]]
      BY <1>2, <2>3 DEF Skip, Frames
    <3>2. Running.found \in BOOLEAN
      BY <1>2 DEF Frames
    <3>3. QED
      BY <2>1, <2>3, <3>1, <3>2
  <2>4. QED
    BY <2>2, <2>3
<1> DEFINE frame == [Running EXCEPT !.offset = @ + 1, !.found = f]
<1>4. frame \in Frames /\ frame.vertex = calls[Depth].vertex /\ frame.offset = calls[Depth].offset + 1
      /\ frame.found = f
  <2>1. Running \in Frames /\ [Running EXCEPT !.offset = @ + 1] \in Frames
    BY <1>2 DEF Frames
  <2>2. [[Running EXCEPT !.offset = @ + 1] EXCEPT !.found = f] = frame
    OBVIOUS
  <2>3. frame \in Frames
    BY <2>1, <2>2 DEF Frames
  <2>4. QED
    BY <1>2, <2>1, <2>3 DEF Frames
<1>5. calls' = [calls EXCEPT ![Depth] = frame] /\ (Close => frame.found) /\ (Skip => frame.found = calls[Depth].found)
      /\ (calls[Depth].found => frame.found)
  BY <1>2, <1>3, <1>4
<1> HIDE DEF frame
<1>6. calls' \in Seq(Frames) /\ Len(calls') = Len(calls)
      /\ \A i \in 1..Depth : calls'[i] = IF i = Depth THEN frame ELSE calls[i]
  BY <1>2, <1>4, <1>5, ExceptSeq, SMTT(30) DEF Depth
<1>7. Depth' = Depth /\ calls' # <<>>
  BY <1>1, <1>2, <1>6, EmptySeq DEF Depth
<1>8. /\ \A i \in 1..(Depth - 1) : i \in 1..Depth /\ calls'[i] = calls[i]
      /\ calls'[Depth] = frame
  BY <1>2, <1>6
<1>9. \A i \in 1..Depth : /\ calls'[i].vertex = calls[i].vertex
                          /\ calls[i].found => calls'[i].found
  <2>1. frame.vertex = calls[Depth].vertex /\ (calls[Depth].found => frame.found)
    BY <1>4, <1>5
  <2>2. QED
    BY <1>6, <2>1
<1>10. QED
  BY <1>1, <1>4, <1>5, <1>6, <1>7, <1>8, <1>9

LEMMA CallStep ==
  ASSUME Typed, Call
  PROVE  /\ calls # <<>> /\ ~Exhausted
         /\ calls' \in Seq(Frames) /\ Depth' = Depth + 1 /\ calls' # <<>>
         /\ \A i \in 1..Depth : /\ calls'[i].vertex = calls[i].vertex
                                /\ calls'[i].found = calls[i].found
         /\ \A i \in 1..(Depth - 1) : calls'[i] = calls[i]
         /\ calls'[Depth].offset = calls[Depth].offset + 1
         /\ calls'[Depth + 1] = Called(NextVertex)
         /\ calls'[Depth + 1].vertex = NextVertex /\ calls'[Depth + 1].offset = 1
         /\ calls'[Depth + 1].found = FALSE
<1> DEFINE frame == [Running EXCEPT !.offset = @ + 1]
           below == [calls EXCEPT ![Depth] = frame]
<1>1. calls # <<>> /\ ~Exhausted
  BY DEF Call
<1>2. /\ Depth \in 1..Depth /\ calls \in Seq(Frames) /\ calls \in [1..Depth -> Frames]
      /\ calls[Depth] \in Frames /\ NextVertex \in V
  BY <1>1, StackShape, TopCall DEF Typed
<1>3. calls' = Append(below, Called(NextVertex))
  BY <1>2 DEF Call, Running, Frames
<1>4. frame \in Frames /\ frame.vertex = calls[Depth].vertex /\ frame.offset = calls[Depth].offset + 1
      /\ frame.found = calls[Depth].found
  BY <1>2 DEF Running, Frames
<1>5. Called(NextVertex) \in Frames /\ Called(NextVertex).vertex = NextVertex
      /\ Called(NextVertex).offset = 1 /\ Called(NextVertex).found = FALSE
  BY <1>2 DEF Called, Frames
<1>6. below \in Seq(Frames) /\ Len(below) = Len(calls)
      /\ \A i \in 1..Depth : below[i] = IF i = Depth THEN frame ELSE calls[i]
  <2> HIDE DEF frame
  <2> QED BY <1>2, <1>4, ExceptSeq DEF Depth
<1> HIDE DEF frame, below
<1>7. /\ calls' \in Seq(Frames) /\ calls' # <<>> /\ Len(calls') = Len(calls) + 1
      /\ \A i \in 1..Depth : calls'[i] = below[i]
      /\ calls'[Depth + 1] = Called(NextVertex)
  BY <1>3, <1>5, <1>6, AppendProperties DEF Depth
<1>8. Depth' = Depth + 1
  BY <1>7 DEF Depth
<1>9. /\ \A i \in 1..(Depth - 1) : i \in 1..Depth /\ calls'[i] = calls[i]
      /\ calls'[Depth] = frame
  BY <1>2, <1>6, <1>7
<1>10. \A i \in 1..Depth : /\ calls'[i].vertex = calls[i].vertex
                           /\ calls'[i].found = calls[i].found
  BY <1>4, <1>6, <1>7
<1>11. QED
  BY <1>1, <1>4, <1>5, <1>7, <1>8, <1>9, <1>10

LEMMA ReturnStep ==
  ASSUME Typed, Return
  PROVE  /\ calls # <<>> /\ Exhausted
         /\ calls' \in Seq(Frames) /\ Depth' = Depth - 1
         /\ \A i \in 1..(Depth - 1) : /\ calls'[i].vertex = calls[i].vertex
                                      /\ calls'[i].offset = calls[i].offset
                                      /\ calls[i].found => calls'[i].found
         /\ Running.found /\ Depth > 1 => calls'[Depth - 1].found
<1>1. calls # <<>> /\ Exhausted /\ calls' = Popped
  BY DEF Return
<1>2. /\ Depth \in Nat \ {0} /\ calls \in [1..Depth -> Frames] /\ Running \in Frames
      /\ \A i \in 1..Depth : calls[i] \in Frames
  BY <1>1, StackShape, TopCall DEF Running
<1>3. ASSUME NEW i \in 1..(Depth - 1)
      PROVE  /\ Popped[i] \in Frames
             /\ Popped[i].vertex = calls[i].vertex
             /\ Popped[i].offset = calls[i].offset
             /\ calls[i].found => Popped[i].found
             /\ Running.found /\ i = Depth - 1 => Popped[i].found
  <2>1. calls[i] \in Frames /\ Running.found \in BOOLEAN
    BY <1>2 DEF Frames
  <2>2. Popped[i] = IF i = Depth - 1 THEN [calls[i] EXCEPT !.found = @ \/ Running.found] ELSE calls[i]
    BY DEF Popped
  <2>3. QED
    BY <2>1, <2>2 DEF Frames
<1>4. Popped \in [1..(Depth - 1) -> Frames]
  BY <1>3 DEF Popped
<1>5. Depth - 1 \in Nat
  BY <1>2
<1>6. Popped \in Seq(Frames) /\ Len(Popped) = Depth - 1
  BY <1>4, <1>5, LenOfFunction, SeqDef
<1>7. Depth' = Depth - 1
  BY <1>1, <1>6 DEF Depth
<1>8. QED
  BY <1>1, <1>2, <1>3, <1>6, <1>7

LEMMA NextRootStep ==
  ASSUME Typed, NextRoot
  PROVE  /\ calls = <<>> /\ Depth = 0 /\ root + 1 \in V
         /\ calls' \in Seq(Frames) /\ Depth' = 1 /\ calls' # <<>>
         /\ calls'[1].vertex = root + 1 /\ calls'[1].offset = 1 /\ calls'[1].found = FALSE
<1>1. calls = <<>> /\ Depth = 0 /\ root + 1 \in V /\ calls' = <<Called(root + 1)>>
  BY StackShape DEF NextRoot, Typed, V
<1>2. /\ Called(root + 1) \in Frames /\ Called(root + 1).vertex = root + 1
      /\ Called(root + 1).offset = 1 /\ Called(root + 1).found = FALSE
  BY <1>1 DEF Called, Frames
<1>3. QED
  BY <1>1, <1>2 DEF Depth

-----------------------------------------------------------------------------
(***************************************************************************)
(* The types are kept.                                                     *)
(***************************************************************************)
LEMMA InputUnchanged ==
  ASSUME [Next]_vars
  PROVE  graph' = graph /\ bound' = bound /\ cycles' = cycles
BY DEF Next, vars, input, NextRoot, Report, Close, Skip, Call, Return, Returned

LEMMA LeaveTyped ==
  ASSUME Typed, NEW v \in V, NEW found, Leave(v, found)
  PROVE  blocked' \in SUBSET V /\ blockedLists' \in [V -> SUBSET V]
         /\ blocked' \subseteq blocked
<1>1. blocked \in SUBSET V /\ blockedLists \in [V -> SUBSET V]
  BY DEF Typed
<1>2. CASE Bounded
  BY <1>1, <1>2 DEF Leave
<1>3. CASE ~Bounded /\ found
  BY <1>1, <1>3 DEF Leave, Unblock
<1>4. CASE ~Bounded /\ ~found
  BY <1>1, <1>4 DEF Leave, AddToBlockedLists
<1>5. QED
  BY <1>2, <1>3, <1>4

LEMMA OffsetsStep ==
  ASSUME Typed, [Next]_vars
  PROVE  /\ calls' \in Seq(Frames)
         /\ \A i \in 1..Depth' : calls'[i].offset \in 1..(Len(graph[calls'[i].vertex]) + 1)
<1>1. /\ \A v \in V : Len(graph[v]) \in Nat
      /\ \A i \in 1..Depth : /\ calls[i].vertex \in V
                             /\ calls[i].offset \in 1..(Len(graph[calls[i].vertex]) + 1)
      /\ Depth \in Nat
  BY GraphShape, StackShape
<1>2. CASE NextRoot
  BY <1>1, <1>2, NextRootStep
<1>3. CASE Close \/ Skip
  <2>1. /\ calls' \in Seq(Frames) /\ Depth' = Depth /\ calls # <<>> /\ ~Exhausted
        /\ \A i \in 1..Depth : calls'[i].vertex = calls[i].vertex
        /\ \A i \in 1..(Depth - 1) : calls'[i] = calls[i]
        /\ calls'[Depth].offset = calls[Depth].offset + 1
    BY <1>3, EdgeStep
  <2>2. calls[Depth].offset \in 1..Len(graph[calls[Depth].vertex]) /\ Depth \in 1..Depth
    BY <2>1, TopCall DEF Running
  <2>3. ASSUME NEW i \in 1..Depth
        PROVE  calls'[i].offset \in 1..(Len(graph[calls'[i].vertex]) + 1)
    <3>1. CASE i = Depth
      <4>1. /\ calls'[i].vertex = calls[Depth].vertex
            /\ calls'[i].offset = calls[Depth].offset + 1
        BY <2>1, <2>2, <3>1
      <4>2. calls[Depth].offset + 1 \in 1..(Len(graph[calls[Depth].vertex]) + 1)
        BY <1>1, <2>2
      <4>3. QED
        BY <4>1, <4>2
    <3>2. CASE i # Depth
      <4>1. i \in 1..(Depth - 1)
        BY <1>1, <3>2
      <4>2. calls'[i] = calls[i] /\ i \in 1..Depth
        BY <1>1, <2>1, <4>1
      <4>3. QED
        BY <1>1, <4>2
    <3>3. QED
      BY <3>1, <3>2
  <2>4. QED
    BY <2>1, <2>3
<1>4. CASE Call
  <2>1. /\ calls' \in Seq(Frames) /\ Depth' = Depth + 1 /\ calls # <<>> /\ ~Exhausted
        /\ \A i \in 1..Depth : calls'[i].vertex = calls[i].vertex
        /\ \A i \in 1..(Depth - 1) : calls'[i] = calls[i]
        /\ calls'[Depth].offset = calls[Depth].offset + 1
        /\ calls'[Depth + 1].vertex = NextVertex /\ calls'[Depth + 1].offset = 1
    BY <1>4, CallStep
  <2>2. /\ calls[Depth].offset \in 1..Len(graph[calls[Depth].vertex]) /\ Depth \in 1..Depth
        /\ NextVertex \in V
    BY <2>1, TopCall DEF Running
  <2>3. ASSUME NEW i \in 1..(Depth + 1)
        PROVE  calls'[i].offset \in 1..(Len(graph[calls'[i].vertex]) + 1)
    <3>1. CASE i = Depth
      <4>1. /\ calls'[i].vertex = calls[Depth].vertex
            /\ calls'[i].offset = calls[Depth].offset + 1
        BY <2>1, <2>2, <3>1
      <4>2. calls[Depth].offset + 1 \in 1..(Len(graph[calls[Depth].vertex]) + 1)
        BY <1>1, <2>2
      <4>3. QED
        BY <4>1, <4>2
    <3>2. CASE i = Depth + 1
      BY <1>1, <2>1, <2>2, <3>2, SMTT(30)
    <3>3. CASE i # Depth /\ i # Depth + 1
      <4>1. i \in 1..(Depth - 1)
        BY <1>1, <3>3
      <4>2. calls'[i] = calls[i] /\ i \in 1..Depth
        BY <1>1, <2>1, <4>1
      <4>3. QED
        BY <1>1, <4>2
    <3>4. QED
      BY <3>1, <3>2, <3>3
  <2>4. QED
    BY <2>1, <2>3
<1>5. CASE Return
  <2>1. /\ calls' \in Seq(Frames) /\ Depth' = Depth - 1
        /\ \A i \in 1..(Depth - 1) : /\ calls'[i].vertex = calls[i].vertex
                                     /\ calls'[i].offset = calls[i].offset
    BY <1>5, ReturnStep
  <2>2. ASSUME NEW i \in 1..(Depth - 1)
        PROVE  calls'[i].offset \in 1..(Len(graph[calls'[i].vertex]) + 1)
    <3>1. i \in 1..Depth
      BY <1>1
    <3>2. calls[i].offset \in 1..(Len(graph[calls[i].vertex]) + 1)
      BY <1>1, <3>1
    <3>3. QED
      BY <2>1, <3>2
  <2>3. QED
    BY <2>1, <2>2
<1>6. CASE Report \/ UNCHANGED vars
  <2>1. calls' = calls
    BY <1>6 DEF Report, vars
  <2>2. Depth' = Depth
    BY <2>1 DEF Depth
  <2>3. QED
    BY <1>1, <2>1, <2>2 DEF Typed
<1>7. QED
  BY <1>2, <1>3, <1>4, <1>5, <1>6 DEF Next, Returned

LEMMA TypedStep == Typed /\ [Next]_vars => Typed'
<1> SUFFICES ASSUME Typed, [Next]_vars
             PROVE  Typed'
  OBVIOUS
<1>1. /\ graph' \in Adjacencies(V)
      /\ bound' \in {Unbounded} \cup (Nat \ {0, 1})
      /\ cycles' = Cycles(graph', MaxLength')
  BY InputUnchanged DEF Typed, MaxLength
<1>2. /\ calls' \in Seq(Frames)
      /\ \A i \in 1..Depth' : calls'[i].offset \in 1..(Len(graph'[calls'[i].vertex]) + 1)
  BY InputUnchanged, OffsetsStep
<1>3. /\ root' \in -1..(N - 1) /\ (calls' # <<>> => root' \in V)
      /\ blocked' \in SUBSET V /\ blockedLists' \in [V -> SUBSET V]
      /\ histogram' \in [Lengths -> Nat]
  <2>1. /\ root \in -1..(N - 1) /\ (calls # <<>> => root \in V)
        /\ blocked \in SUBSET V /\ blockedLists \in [V -> SUBSET V]
        /\ histogram \in [Lengths -> Nat]
    BY DEF Typed
  <2>2. CASE NextRoot
    <3>1. root + 1 \in V /\ root + 1 \in -1..(N - 1)
      BY <2>2, NextRootStep DEF V
    <3>2. QED
      BY <2>1, <2>2, <3>1 DEF NextRoot
  <2>3. CASE Close
    <3>1. root \in V
      BY <2>3, TopCall DEF Close
    <3>2. histogram' \in [Lengths -> Nat]
      <4>1. histogram' = [histogram EXCEPT ![Depth] = histogram[Depth] + 1]
        BY <2>3 DEF Close
      <4>2. CASE Depth \in Lengths
        <5>1. histogram[Depth] + 1 \in Nat
          BY <2>1, <4>2
        <5>2. QED
          BY <2>1, <4>1, <5>1
      <4>3. CASE Depth \notin Lengths
        BY <2>1, <4>1, <4>3
      <4>4. QED
        BY <4>2, <4>3
    <3>3. QED
      BY <2>1, <2>3, <3>1, <3>2 DEF Close
  <2>4. CASE Skip
    <3>1. root \in V
      BY <2>4, TopCall DEF Skip
    <3>2. QED
      BY <2>1, <2>4, <3>1 DEF Skip
  <2>5. CASE Call
    <3>1. root \in V /\ NextVertex \in V
      BY <2>5, TopCall DEF Call
    <3>2. QED
      BY <2>1, <2>5, <3>1 DEF Call
  <2>6. CASE Return
    <3>1. root \in V /\ Running.vertex \in V
      BY <2>6, TopCall DEF Return
    <3>2. blocked' \in SUBSET V /\ blockedLists' \in [V -> SUBSET V]
      BY <2>6, <3>1, LeaveTyped DEF Return
    <3>3. QED
      BY <2>1, <2>6, <3>1, <3>2 DEF Return
  <2>7. CASE Report \/ UNCHANGED vars
    BY <2>1, <2>7 DEF Report, vars
  <2>8. QED
    BY <2>2, <2>3, <2>4, <2>5, <2>6, <2>7 DEF Next, Returned
<1>4. QED
  BY <1>1, <1>2, <1>3 DEF Typed

LEMMA TypedInit == Init => Typed
<1> SUFFICES ASSUME Init
             PROVE  Typed
  OBVIOUS
<1>1. graph \in Adjacencies(V) /\ bound \in {Unbounded} \cup (Nat \ {0, 1})
  BY DEF Init
<1>2. calls = <<>> /\ Depth = 0 /\ calls \in Seq(Frames)
  BY DEF Init, Depth
<1>3. QED
  BY <1>1, <1>2 DEF Init, Typed, MaxLength

-----------------------------------------------------------------------------
(***************************************************************************)
(* What unblock() releases.                                                *)
(***************************************************************************)
\* A set of vertices that holds the blocked dependents of its members.
ClosedUnderLists(S) == \A u \in S : blockedLists[u] \cap blocked \subseteq S

\* Released(v) is the least such set with v in it.
LEMMA ReleasedIsLeast ==
  ASSUME Typed, NEW v \in V
  PROVE  /\ v \in Released(v) /\ Released(v) \in SUBSET V
         /\ ClosedUnderLists(Released(v))
         /\ \A S \in SUBSET V : v \in S /\ ClosedUnderLists(S) => Released(v) \subseteq S
<1> DEFINE step == [R \in SUBSET V |-> R \cup (blocked \cap UNION {blockedLists[u] : u \in R})]
<1>1. blocked \in SUBSET V /\ blockedLists \in [V -> SUBSET V] /\ N \in Nat
  BY DEF Typed
<1>2. Grows(step, V) /\ {v} \subseteq V
  BY <1>1 DEF Grows
<1>3. \E x : AreIterates(x, SUBSET V, {v}, step, N) /\ IsLeastClosed(x[N], V, {v}, step)
  <2> HIDE DEF step
  <2>1. Cardinality(V) <= N
    BY VertexType
  <2>2. QED
    BY <1>1, <1>2, <2>1, VertexType, Iteration
<1>4. PICK w : AreIterates(w, SUBSET V, {v}, step, N) /\ IsLeastClosed(w[N], V, {v}, step)
  BY <1>3
<1>5. /\ w \in [0..N -> SUBSET V] /\ w[0] = {v} /\ \A k \in 1..N : w[k] = step[w[k - 1]]
      /\ w[N] \in SUBSET V /\ {v} \subseteq w[N] /\ step[w[N]] = w[N]
      /\ \A S \in SUBSET V :
           {v} \subseteq S /\ (\A R \in SUBSET S : step[R] \subseteq S) => w[N] \subseteq S
  <2> HIDE DEF step
  <2> QED BY <1>4 DEF AreIterates, IsLeastClosed
<1> DEFINE within[k \in 0..N] ==
             IF k = 0 THEN {v}
             ELSE LET R == within[k - 1]
                  IN  R \cup (blocked \cap UNION {blockedLists[u] : u \in R})
<1>6. w = [k \in 0..N |->
             IF k = 0 THEN {v}
             ELSE LET R == w[k - 1]
                  IN  R \cup (blocked \cap UNION {blockedLists[u] : u \in R})]
  <2>1. ASSUME NEW k \in 0..N
        PROVE  w[k] = IF k = 0 THEN {v}
                      ELSE LET R == w[k - 1]
                           IN  R \cup (blocked \cap UNION {blockedLists[u] : u \in R})
    <3>1. CASE k = 0
      BY <1>5, <3>1
    <3>2. CASE k # 0
      <4>1. k \in 1..N /\ k - 1 \in 0..N
        BY <3>2
      <4>2. w[k] = step[w[k - 1]] /\ w[k - 1] \in SUBSET V
        BY <1>5, <4>1
      <4>3. QED
        BY <3>2, <4>2
    <3>3. QED
      BY <3>1, <3>2
  <2>2. QED
    BY <1>5, <2>1
<1>7. within = [k \in 0..N |->
                  IF k = 0 THEN {v}
                  ELSE LET R == within[k - 1]
                       IN  R \cup (blocked \cap UNION {blockedLists[u] : u \in R})]
  <2> HIDE DEF step
  <2> QED BY <1>6
<1>8. Released(v) = within[N]
  BY DEF Released
<1> HIDE DEF within
<1> DEFINE Same == {k \in Nat : k <= N => within[k] = w[k]}
<1>9. \A k \in Nat : k \in Same
  <2>1. 0 \in Same
    BY <1>5, <1>7
  <2>2. ASSUME NEW k \in Nat, k \in Same
        PROVE  k + 1 \in Same
    <3>1. SUFFICES ASSUME k + 1 <= N
                   PROVE  within[k + 1] = w[k + 1]
      OBVIOUS
    <3>2. k + 1 \in 0..N /\ k + 1 # 0 /\ (k + 1) - 1 = k /\ k <= N
      BY <3>1
    <3>3. within[k] = w[k]
      BY <2>2, <3>2
    <3>4. /\ within[k + 1] = within[k] \cup (blocked \cap UNION {blockedLists[u] : u \in within[k]})
          /\ w[k + 1] = w[k] \cup (blocked \cap UNION {blockedLists[u] : u \in w[k]})
      BY <1>6, <1>7, <3>2
    <3>5. QED
      BY <3>3, <3>4
  <2>3. QED
    <3> HIDE DEF Same
    <3> QED BY <2>1, <2>2, NatSetInduction
<1>10. Released(v) = w[N]
  BY <1>1, <1>8, <1>9
<1>11. Released(v) \in SUBSET V /\ v \in Released(v)
  BY <1>1, <1>5, <1>10
<1>12. ClosedUnderLists(Released(v))
  <2>1. ASSUME NEW u \in Released(v), NEW x \in blockedLists[u] \cap blocked
        PROVE  x \in Released(v)
    <3>1. x \in step[Released(v)]
      BY <1>11, <2>1
    <3>2. QED
      BY <1>5, <1>10, <3>1
  <2>2. QED
    BY <2>1 DEF ClosedUnderLists
<1>13. ASSUME NEW S \in SUBSET V, v \in S, ClosedUnderLists(S)
       PROVE  Released(v) \subseteq S
  <2>1. ASSUME NEW R \in SUBSET S
        PROVE  step[R] \subseteq S
    <3>1. step[R] = R \cup (blocked \cap UNION {blockedLists[u] : u \in R})
      OBVIOUS
    <3>2. QED
      BY <1>13, <3>1 DEF ClosedUnderLists
  <2>2. {v} \subseteq S
    BY <1>13
  <2>3. QED
    <3> HIDE DEF step
    <3> QED BY <1>5, <1>10, <2>1, <2>2
<1>14. QED
  BY <1>11, <1>12, <1>13

\* No vertex is hopeful that a set without the vertices next to the root, and
\* closed against the edges, excludes.
LEMMA HopefulWithin ==
  ASSUME Typed, NEW S \in SUBSET V,
         \A v \in V :
           /\ v > root /\ \A i \in 1..Depth : v # Path[i]
           /\ root \in Neighbours(graph, v) \/ Neighbours(graph, v) \cap S # {}
           => v \in S
  PROVE  Hopeful \subseteq S
<1> DEFINE Free == {v \in V : v > root /\ \A i \in 1..Depth : v # Path[i]}
           first == {v \in Free : root \in Neighbours(graph, v)}
           Grown(R) == R \cup {v \in Free : Neighbours(graph, v) \cap R # {}}
           step == [R \in SUBSET V |-> Grown(R)]
<1>1. first \in SUBSET V /\ N \in Nat
  OBVIOUS
<1>2. Grows(step, V) /\ first \subseteq V
  BY DEF Grows
<1>3. \E x : AreIterates(x, SUBSET V, first, step, N) /\ IsLeastClosed(x[N], V, first, step)
  <2> HIDE DEF step, first
  <2>1. Cardinality(V) <= N
    BY VertexType
  <2>2. QED
    BY <1>1, <1>2, <2>1, VertexType, Iteration
<1>4. PICK w : AreIterates(w, SUBSET V, first, step, N) /\ IsLeastClosed(w[N], V, first, step)
  BY <1>3
<1>5. /\ w \in [0..N -> SUBSET V] /\ w[0] = first /\ \A k \in 1..N : w[k] = step[w[k - 1]]
      /\ \A S1 \in SUBSET V :
           first \subseteq S1 /\ (\A R \in SUBSET S1 : step[R] \subseteq S1) => w[N] \subseteq S1
  <2> HIDE DEF step, first
  <2> QED BY <1>4 DEF AreIterates, IsLeastClosed
<1> DEFINE within[k \in 0..N] ==
             IF k = 0 THEN first ELSE LET R == within[k - 1] IN Grown(R)
<1>6. w = [k \in 0..N |-> IF k = 0 THEN first ELSE LET R == w[k - 1] IN Grown(R)]
  <2>1. ASSUME NEW k \in 0..N
        PROVE  w[k] = IF k = 0 THEN first ELSE LET R == w[k - 1] IN Grown(R)
    <3>1. CASE k = 0
      BY <1>5, <3>1
    <3>2. CASE k # 0
      <4>1. k \in 1..N /\ k - 1 \in 0..N
        BY <3>2
      <4>2. w[k] = step[w[k - 1]] /\ w[k - 1] \in SUBSET V
        BY <1>5, <4>1
      <4>3. step[w[k - 1]] = Grown(w[k - 1])
        <5> HIDE DEF Grown
        <5> QED BY <4>2
      <4>4. QED
        <5> HIDE DEF Grown, first, step
        <5> QED BY <3>2, <4>2, <4>3
    <3>3. QED
      BY <3>1, <3>2
  <2>2. QED
    <3> HIDE DEF Grown, first, step
    <3> QED BY <1>5, <2>1
<1>7. within = [k \in 0..N |-> IF k = 0 THEN first ELSE LET R == within[k - 1] IN Grown(R)]
  <2> HIDE DEF Grown, first, step
  <2> QED BY <1>6
<1>8. Hopeful = within[N]
  BY DEF Hopeful
<1> HIDE DEF within, Free, Grown
<1> DEFINE Same == {k \in Nat : k <= N => within[k] = w[k]}
<1>9. \A k \in Nat : k \in Same
  <2>1. 0 \in Same
    BY <1>5, <1>7
  <2>2. ASSUME NEW k \in Nat, k \in Same
        PROVE  k + 1 \in Same
    <3>1. SUFFICES ASSUME k + 1 <= N
                   PROVE  within[k + 1] = w[k + 1]
      OBVIOUS
    <3>2. k + 1 \in 0..N /\ k + 1 # 0 /\ (k + 1) - 1 = k /\ k <= N
      BY <3>1
    <3>3. within[k] = w[k]
      BY <2>2, <3>2
    <3>4. within[k + 1] = Grown(within[k]) /\ w[k + 1] = Grown(w[k])
      BY <1>6, <1>7, <3>2
    <3>5. QED
      BY <3>3, <3>4
  <2>3. QED
    <3> HIDE DEF Same
    <3> QED BY <2>1, <2>2, NatSetInduction
<1>10. Hopeful = w[N]
  BY <1>1, <1>8, <1>9
<1>11. first \subseteq S
  BY DEF Free
<1>12. ASSUME NEW R \in SUBSET S
       PROVE  step[R] \subseteq S
  <2>1. step[R] = R \cup {v \in Free : Neighbours(graph, v) \cap R # {}}
    BY DEF Grown
  <2>2. \A v \in Free : v \in V /\ v > root /\ \A i \in 1..Depth : v # Path[i]
    BY DEF Free
  <2>3. QED
    BY <2>1, <2>2
<1>13. QED
  <2> HIDE DEF step, first
  <2> QED BY <1>5, <1>10, <1>11, <1>12

-----------------------------------------------------------------------------
(***************************************************************************)
(* The edges consumed, and what is known of them while no cycle is found.  *)
(***************************************************************************)
OnPath(v) == \E i \in 1..Depth : calls[i].vertex = v

\* The neighbours a call has looked at.
Consumed(call) == {graph[call.vertex][j] : j \in 1..(call.offset - 1)}

\* Call i or a call under way below it has found a cycle.
FoundFrom(i) == \E k \in i..Depth : calls[k].found

\* Whether a and b have looked at the same edges of the same vertex.
LEMMA ConsumedSame ==
  ASSUME NEW a, NEW b, a.vertex = b.vertex, a.offset = b.offset
  PROVE  Consumed(a) = Consumed(b)
BY DEF Consumed

LEMMA ConsumedOne ==
  ASSUME Typed, calls # <<>>, ~Exhausted, NEW a,
         a.vertex = calls[Depth].vertex, a.offset = calls[Depth].offset + 1
  PROVE  Consumed(a) = Consumed(calls[Depth]) \cup {NextVertex}
<1>1. /\ Running.offset \in 1..Len(Edges) /\ Len(Edges) \in Nat
      /\ Edges = graph[calls[Depth].vertex] /\ Running = calls[Depth]
  BY TopCall DEF Running
<1>2. a.offset - 1 = Running.offset /\ a.vertex = Running.vertex
  BY <1>1
<1>3. NextVertex = graph[Running.vertex][Running.offset]
  BY <1>1 DEF NextVertex
<1>4. 1..Running.offset = (1..(Running.offset - 1)) \cup {Running.offset}
  BY <1>1
<1>5. Consumed(a) = {graph[Running.vertex][j] : j \in 1..Running.offset}
  BY <1>2 DEF Consumed
<1>6. Consumed(Running) = {graph[Running.vertex][j] : j \in 1..(Running.offset - 1)}
  BY DEF Consumed
<1>7. QED
  BY <1>1, <1>3, <1>4, <1>5, <1>6

LEMMA ConsumedNone ==
  ASSUME NEW a, a.offset = 1
  PROVE  Consumed(a) = {}
BY DEF Consumed

LEMMA ConsumedAll ==
  ASSUME Typed, calls # <<>>, Exhausted
  PROVE  Consumed(calls[Depth]) = Neighbours(graph, calls[Depth].vertex)
<1>1. /\ Len(Edges) \in Nat /\ Edges = graph[calls[Depth].vertex] /\ Running = calls[Depth]
      /\ Running.offset \in 1..(Len(Edges) + 1)
  BY TopCall, StackShape DEF Running
<1>2. Running.offset - 1 = Len(graph[Running.vertex])
  BY <1>1 DEF Exhausted
<1>3. QED
  BY <1>1, <1>2 DEF Consumed, Neighbours

\* No step but the return of a call that found one, to its caller, makes a
\* finding fewer.
LEMMA FoundGrows ==
  ASSUME Typed, Close \/ Skip \/ Call \/ Return, NEW i \in 1..Depth, i \in 1..Depth',
         ~FoundFrom(i)'
  PROVE  ~FoundFrom(i) /\ ~Close
<1>1. Depth \in Nat /\ \A k \in 1..Depth : calls[k].found \in BOOLEAN
  BY StackShape
<1>2. \A k \in i..Depth' : ~calls'[k].found
  BY DEF FoundFrom
<1>3. CASE Close \/ Skip
  <2>1. /\ Depth' = Depth /\ \A k \in 1..Depth : calls[k].found => calls'[k].found
        /\ Close => calls'[Depth].found
        /\ Depth \in i..Depth
    BY <1>1, <1>3, EdgeStep
  <2>2. QED
    BY <1>2, <2>1 DEF FoundFrom
<1>4. CASE Call
  <2>1. Depth' = Depth + 1 /\ \A k \in 1..Depth : calls'[k].found = calls[k].found
    BY <1>4, CallStep
  <2>2. \A k \in i..Depth : k \in i..Depth' /\ k \in 1..Depth
    BY <1>1, <2>1
  <2>3. ~Close
    BY <1>4 DEF Call, Close
  <2>4. QED
    BY <1>2, <2>1, <2>2, <2>3 DEF FoundFrom
<1>5. CASE Return
  <2>1. /\ Depth' = Depth - 1
        /\ \A k \in 1..(Depth - 1) : calls[k].found => calls'[k].found
        /\ Running.found /\ Depth > 1 => calls'[Depth - 1].found
    BY <1>5, ReturnStep
  <2>2. /\ \A k \in i..Depth : k = Depth \/ (k \in i..Depth' /\ k \in 1..(Depth - 1))
        /\ Depth > 1 /\ Depth - 1 \in i..Depth'
    BY <1>1, <2>1
  <2>3. ~Close
    BY <1>5 DEF Return, Close
  <2>4. QED
    BY <1>2, <2>1, <2>2, <2>3 DEF FoundFrom, Running
<1>6. QED
  BY <1>3, <1>4, <1>5

-----------------------------------------------------------------------------
(***************************************************************************)
(* The blocking.                                                           *)
(***************************************************************************)
PathBlocked == \A i \in 1..Depth : calls[i].vertex \in blocked

\* With a length bound only the path is blocked.
OnlyPathBlocked == \A v \in blocked : OnPath(v)

\* A vertex that is not blocked has an empty list.
ListsOfBlocked == \A u \in V \ blocked : blockedLists[u] = {}

\* A call that has found no cycle has looked at blocked vertices only, and at
\* the root only if it is the call of the root.
FruitlessEdges ==
  \A i \in 1..Depth : ~FoundFrom(i) =>
    /\ \A u \in Consumed(calls[i]) : u > root => u \in blocked
    /\ i >= 2 => root \notin Consumed(calls[i])

\* Unblocking the vertex of a call leaves the vertices before it on the path
\* blocked.
Apart(i) ==
  \E S \in SUBSET V : /\ calls[i].vertex \in S /\ ClosedUnderLists(S)
                      /\ \A j \in 1..(i - 1) : calls[j].vertex \notin S

\* A vertex blocked off the path has no edge to the root, and waits in the list
\* of each neighbour above the root.
Waiting(v) ==
  /\ root \notin Neighbours(graph, v)
  /\ \A u \in Neighbours(graph, v) : u > root => v \in blockedLists[u]

BlockingInv ==
  /\ ListsOfBlocked
  /\ FruitlessEdges
  /\ \A i \in 1..Depth : Apart(i)
  /\ calls # <<>> => \A v \in blocked : ~OnPath(v) => Waiting(v)

SearchInv ==
  /\ Typed
  /\ PathInv
  /\ PathBlocked
  /\ Bounded /\ calls # <<>> => OnlyPathBlocked
  /\ ~Bounded => BlockingInv

\* Leaving a call blocks nothing, and unblocks nothing before it on the path.
LEMMA LeaveKeepsPath ==
  ASSUME SearchInv, Return
  PROVE  \A i \in 1..(Depth - 1) : calls[i].vertex \in blocked'
<1> DEFINE w == Running.vertex
<1>1. /\ Typed /\ calls # <<>> /\ Depth \in 1..Depth /\ Depth \in Nat /\ w \in V
      /\ w = calls[Depth].vertex
  BY TopCall DEF SearchInv, Return, Running
<1>2. \A i \in 1..(Depth - 1) : i \in 1..Depth /\ calls[i].vertex \in blocked /\ calls[i].vertex # w
  BY <1>1 DEF SearchInv, PathBlocked, PathInv
<1>3. CASE Bounded
  <2>1. blocked' = blocked \ {w}
    BY <1>3 DEF Return, Leave
  <2>2. QED
    BY <1>2, <2>1
<1>4. CASE ~Bounded /\ ~Running.found
  <2>1. blocked' = blocked
    BY <1>4 DEF Return, Leave, AddToBlockedLists
  <2>2. QED
    BY <1>2, <2>1
<1>5. CASE ~Bounded /\ Running.found
  <2>1. blocked' = blocked \ Released(w)
    BY <1>5 DEF Return, Leave, Unblock
  <2>2. PICK S \in SUBSET V : /\ w \in S /\ ClosedUnderLists(S)
                              /\ \A j \in 1..(Depth - 1) : calls[j].vertex \notin S
    BY <1>1, <1>5 DEF SearchInv, BlockingInv, Apart
  <2>3. Released(w) \subseteq S
    BY <1>1, <2>2, ReleasedIsLeast
  <2>4. QED
    BY <1>2, <2>1, <2>2, <2>3
<1>6. QED
  BY <1>3, <1>4, <1>5

LEMMA CalledVertex ==
  ASSUME SearchInv, Call
  PROVE  /\ NextVertex \in V /\ NextVertex > root /\ NextVertex \notin blocked
         /\ \A i \in 1..Depth : calls[i].vertex # NextVertex
         /\ Bounded => Depth < bound
<1>1. NextVertex \in V /\ calls # <<>> /\ root \in V /\ ~Skipped(NextVertex) /\ Depth \in Nat
  BY TopCall DEF SearchInv, Call
<1>2. NextVertex > root /\ NextVertex \notin blocked
  BY <1>1, VertexType DEF Skipped
<1>3. Bounded => Depth < bound
  <2>1. Bounded => bound \in Nat /\ ~(Depth >= bound)
    BY <1>1 DEF Skipped, SearchInv, Typed, Bounded
  <2>2. QED
    BY <1>1, <2>1
<1>4. QED
  BY <1>1, <1>2, <1>3 DEF SearchInv, PathBlocked

LEMMA PathStep ==
  ASSUME SearchInv, [Next]_vars
  PROVE  PathInv'
<1>1. /\ Typed /\ PathInv /\ graph' = graph /\ bound' = bound
      /\ Depth \in Nat
  BY InputUnchanged, StackShape DEF SearchInv
<1>2. Bounded' = Bounded
  BY <1>1 DEF Bounded
<1>3. CASE NextRoot
  <2>1. Depth' = 1 /\ calls'[1].vertex = root + 1 /\ root' = root + 1
    BY <1>1, <1>3, NextRootStep DEF NextRoot
  <2>2. Bounded => bound \in Nat \ {0}
    BY <1>1 DEF Typed, Bounded
  <2>3. QED
    BY <1>1, <1>2, <2>1, <2>2 DEF PathInv
<1>4. CASE Close \/ Skip
  <2>1. /\ Depth' = Depth /\ root' = root /\ calls # <<>>
        /\ \A i \in 1..Depth : calls'[i].vertex = calls[i].vertex
        /\ \A i \in 1..(Depth - 1) : calls'[i] = calls[i]
        /\ Depth \in 1..Depth
    BY <1>1, <1>4, EdgeStep, TopCall DEF Close, Skip
  <2>2. /\ \A i \in 1..(Depth - 1) : i \in 1..Depth /\ i + 1 \in 1..Depth
        /\ 1 \in 1..Depth
        /\ \A i \in 2..Depth : i \in 1..Depth
    BY <1>1, <2>1
  <2>3. \A i \in 1..(Depth - 1) :
          /\ calls'[i].offset >= 2
          /\ graph[calls'[i].vertex][calls'[i].offset - 1] = calls'[i + 1].vertex
    BY <1>1, <2>1, <2>2 DEF PathInv
  <2>4. /\ \A i, j \in 1..Depth : i # j => calls'[i].vertex # calls'[j].vertex
        /\ calls'[1].vertex = root
        /\ \A i \in 2..Depth : calls'[i].vertex > root
    BY <1>1, <2>1, <2>2 DEF PathInv
  <2>5. QED
    BY <1>1, <1>2, <2>1, <2>3, <2>4 DEF PathInv
<1>5. CASE Call
  <2>1. /\ Depth' = Depth + 1 /\ root' = root /\ calls # <<>> /\ ~Exhausted
        /\ \A i \in 1..Depth : calls'[i].vertex = calls[i].vertex
        /\ \A i \in 1..(Depth - 1) : calls'[i] = calls[i]
        /\ calls'[Depth].offset = calls[Depth].offset + 1
        /\ calls'[Depth + 1].vertex = NextVertex
    BY <1>1, <1>5, CallStep DEF Call
  <2>2. /\ \A i \in 1..(Depth - 1) : i \in 1..Depth /\ i + 1 \in 1..Depth
        /\ Depth \in 1..Depth /\ 1 \in 1..Depth
        /\ \A i \in 2..Depth : i \in 1..Depth
        /\ calls[Depth].offset \in Nat \ {0}
        /\ NextVertex = graph[calls[Depth].vertex][calls[Depth].offset]
    BY <1>1, <2>1, TopCall DEF Running, NextVertex, Edges
  <2>3. /\ NextVertex > root /\ \A i \in 1..Depth : calls[i].vertex # NextVertex
        /\ Bounded => Depth < bound
    BY <1>5, CalledVertex
  <2>4. /\ \A i, j \in 1..Depth : i # j => calls[i].vertex # calls[j].vertex
        /\ calls[1].vertex = root
        /\ \A i \in 2..Depth : calls[i].vertex > root
        /\ \A i \in 1..(Depth - 1) :
             /\ calls[i].offset >= 2
             /\ graph[calls[i].vertex][calls[i].offset - 1] = calls[i + 1].vertex
    BY <1>1, <2>1 DEF PathInv
  <2>5. \A i \in 1..(Depth + 1) : i \in 1..Depth \/ i = Depth + 1
    BY <1>1
  <2>6. \A i, j \in 1..(Depth + 1) : i # j => calls'[i].vertex # calls'[j].vertex
    BY <2>1, <2>3, <2>4, <2>5
  <2>7. calls'[1].vertex = root /\ \A i \in 2..(Depth + 1) : calls'[i].vertex > root
    <3>1. \A i \in 2..(Depth + 1) : i \in 2..Depth \/ i = Depth + 1
      BY <1>1
    <3>2. QED
      BY <2>1, <2>2, <2>3, <2>4, <3>1
  <2>8. ASSUME NEW i \in 1..Depth
        PROVE  /\ calls'[i].offset >= 2
               /\ graph[calls'[i].vertex][calls'[i].offset - 1] = calls'[i + 1].vertex
    <3>1. CASE i = Depth
      <4>1. /\ calls'[i].offset = calls[Depth].offset + 1
            /\ calls'[i].vertex = calls[Depth].vertex
            /\ calls'[i + 1].vertex = NextVertex
        BY <2>1, <2>2, <3>1
      <4>2. QED
        BY <2>2, <4>1
    <3>2. CASE i # Depth
      <4>1. i \in 1..(Depth - 1)
        BY <1>1, <3>2
      <4>2. calls'[i] = calls[i] /\ calls'[i + 1].vertex = calls[i + 1].vertex
        BY <1>1, <2>1, <2>2, <4>1
      <4>3. QED
        BY <2>4, <4>1, <4>2
    <3>3. QED
      BY <3>1, <3>2
  <2>9. Bounded => Depth + 1 <= bound
    <3>1. Bounded => bound \in Nat
      BY <1>1 DEF Typed, Bounded
    <3>2. QED
      BY <1>1, <2>3, <3>1
  <2>10. (Depth + 1) - 1 = Depth
    BY <1>1
  <2>11. QED
    BY <1>1, <1>2, <2>1, <2>6, <2>7, <2>8, <2>9, <2>10 DEF PathInv
<1>6. CASE Return
  <2>1. /\ Depth' = Depth - 1 /\ root' = root /\ calls # <<>>
        /\ \A i \in 1..(Depth - 1) : /\ calls'[i].vertex = calls[i].vertex
                                     /\ calls'[i].offset = calls[i].offset
        /\ calls' \in Seq(Frames)
    BY <1>1, <1>6, ReturnStep DEF Return
  <2>2. /\ \A i \in 1..(Depth - 2) : i \in 1..(Depth - 1) /\ i + 1 \in 1..(Depth - 1)
        /\ \A i \in 1..(Depth - 1) : i \in 1..Depth
        /\ \A i \in 2..(Depth - 1) : i \in 1..(Depth - 1) /\ i \in 2..Depth
        /\ (Depth - 1) - 1 = Depth - 2
    BY <1>1
  <2>3. calls' # <<>> => 1 \in 1..(Depth - 1)
    BY <1>1, <2>1, EmptySeq DEF Depth
  <2>4. /\ \A i, j \in 1..(Depth - 1) : i # j => calls'[i].vertex # calls'[j].vertex
        /\ calls' # <<>> => calls'[1].vertex = root
        /\ \A i \in 2..(Depth - 1) : calls'[i].vertex > root
    BY <1>1, <2>1, <2>2, <2>3 DEF PathInv
  <2>5. \A i \in 1..(Depth - 2) :
          /\ calls'[i].offset >= 2
          /\ graph[calls'[i].vertex][calls'[i].offset - 1] = calls'[i + 1].vertex
    BY <1>1, <2>1, <2>2 DEF PathInv
  <2>6. Bounded => Depth - 1 <= bound
    <3>1. Bounded => bound \in Nat /\ Depth <= bound
      BY <1>1 DEF Typed, PathInv, Bounded
    <3>2. QED
      BY <1>1, <3>1
  <2>7. QED
    BY <1>1, <1>2, <2>1, <2>2, <2>4, <2>5, <2>6 DEF PathInv
<1>7. CASE Report \/ UNCHANGED vars
  <2>1. calls' = calls /\ root' = root
    BY <1>7 DEF Report, vars
  <2>2. Depth' = Depth
    BY <2>1 DEF Depth
  <2>3. QED
    BY <1>1, <1>2, <2>1, <2>2 DEF PathInv
<1>8. QED
  BY <1>3, <1>4, <1>5, <1>6, <1>7 DEF Next, Returned

LEMMA PathBlockedStep ==
  ASSUME SearchInv, [Next]_vars
  PROVE  PathBlocked'
<1>1. Typed /\ PathBlocked /\ Depth \in Nat
  BY StackShape DEF SearchInv
<1>2. CASE NextRoot
  BY <1>1, <1>2, NextRootStep DEF NextRoot, PathBlocked
<1>3. CASE Close \/ Skip
  <2>1. /\ Depth' = Depth /\ blocked' = blocked
        /\ \A i \in 1..Depth : calls'[i].vertex = calls[i].vertex
    BY <1>1, <1>3, EdgeStep DEF Close, Skip
  <2>2. QED
    BY <1>1, <2>1 DEF PathBlocked
<1>4. CASE Call
  <2>1. /\ Depth' = Depth + 1 /\ blocked' = blocked \cup {NextVertex}
        /\ \A i \in 1..Depth : calls'[i].vertex = calls[i].vertex
        /\ calls'[Depth + 1].vertex = NextVertex
    BY <1>1, <1>4, CallStep DEF Call
  <2>2. \A i \in 1..(Depth + 1) : i \in 1..Depth \/ i = Depth + 1
    BY <1>1
  <2>3. QED
    BY <1>1, <2>1, <2>2 DEF PathBlocked
<1>5. CASE Return
  <2>1. /\ Depth' = Depth - 1
        /\ \A i \in 1..(Depth - 1) : calls'[i].vertex = calls[i].vertex
        /\ \A i \in 1..(Depth - 1) : calls[i].vertex \in blocked'
    BY <1>1, <1>5, ReturnStep, LeaveKeepsPath
  <2>2. QED
    BY <2>1 DEF PathBlocked
<1>6. CASE Report \/ UNCHANGED vars
  <2>1. calls' = calls /\ blocked' = blocked
    BY <1>6 DEF Report, vars
  <2>2. Depth' = Depth
    BY <2>1 DEF Depth
  <2>3. QED
    BY <1>1, <2>1, <2>2 DEF PathBlocked
<1>7. QED
  BY <1>2, <1>3, <1>4, <1>5, <1>6 DEF Next, Returned

LEMMA OnlyPathBlockedStep ==
  ASSUME SearchInv, [Next]_vars, Bounded, calls' # <<>>
  PROVE  OnlyPathBlocked'
<1>1. Typed /\ PathInv /\ Depth \in Nat
  BY StackShape DEF SearchInv
<1>2. CASE NextRoot
  <2>1. Depth' = 1 /\ calls'[1].vertex = root + 1 /\ blocked' = {root + 1}
    BY <1>1, <1>2, NextRootStep DEF NextRoot
  <2>2. QED
    BY <2>1 DEF OnlyPathBlocked, OnPath
<1>3. CASE calls # <<>>
  <2>1. \A v \in blocked : \E i \in 1..Depth : calls[i].vertex = v
    BY <1>3 DEF SearchInv, OnlyPathBlocked, OnPath
  <2>2. CASE Close \/ Skip
    <3>1. /\ Depth' = Depth /\ blocked' = blocked
          /\ \A i \in 1..Depth : calls'[i].vertex = calls[i].vertex
      BY <1>1, <2>2, EdgeStep DEF Close, Skip
    <3>2. QED
      BY <2>1, <3>1 DEF OnlyPathBlocked, OnPath
  <2>3. CASE Call
    <3>1. /\ Depth' = Depth + 1 /\ blocked' = blocked \cup {NextVertex}
          /\ \A i \in 1..Depth : calls'[i].vertex = calls[i].vertex
          /\ calls'[Depth + 1].vertex = NextVertex
      BY <1>1, <2>3, CallStep DEF Call
    <3>2. Depth + 1 \in 1..(Depth + 1) /\ \A i \in 1..Depth : i \in 1..(Depth + 1)
      BY <1>1
    <3>3. QED
      BY <2>1, <3>1, <3>2 DEF OnlyPathBlocked, OnPath
  <2>4. CASE Return
    <3>1. /\ Depth' = Depth - 1
          /\ \A i \in 1..(Depth - 1) : calls'[i].vertex = calls[i].vertex
      BY <1>1, <2>4, ReturnStep
    <3>2. blocked' = blocked \ {calls[Depth].vertex}
      BY <2>4 DEF Return, Leave, Running
    <3>3. \A i \in 1..Depth : i = Depth \/ i \in 1..(Depth - 1)
      BY <1>1
    <3>4. QED
      BY <2>1, <3>1, <3>2, <3>3 DEF OnlyPathBlocked, OnPath
  <2>5. CASE Report \/ UNCHANGED vars
    <3>1. calls' = calls /\ blocked' = blocked
      BY <2>5 DEF Report, vars
    <3>2. Depth' = Depth
      BY <3>1 DEF Depth
    <3>3. QED
      BY <2>1, <3>1, <3>2 DEF OnlyPathBlocked, OnPath
  <2>6. CASE NextRoot
    BY <1>2, <2>6
  <2>7. QED
    BY <2>2, <2>3, <2>4, <2>5, <2>6 DEF Next, Returned
<1>4. CASE calls = <<>>
  <2>1. NextRoot
    BY <1>4 DEF Next, Report, Close, Skip, Call, Return, Returned, vars
  <2>2. QED
    BY <1>2, <2>1
<1>5. QED
  BY <1>3, <1>4

\* What the return of a call does without a bound: it found a cycle and its
\* vertex is unblocked, or it did not and its vertex goes to the lists of its
\* neighbours, all of which are blocked.
LEMMA UnboundedReturn ==
  ASSUME SearchInv, Return, ~Bounded
  PROVE  \/ /\ Running.found
            /\ blocked' = blocked \ Released(Running.vertex)
            /\ \A u \in V : blockedLists'[u] = IF u \in Released(Running.vertex) THEN {}
                                               ELSE blockedLists[u]
         \/ /\ ~Running.found
            /\ blocked' = blocked
            /\ \A u \in V : blockedLists'[u] =
                 IF u > root /\ u \in Neighbours(graph, Running.vertex)
                 THEN blockedLists[u] \cup {Running.vertex} ELSE blockedLists[u]
            /\ \A u \in Neighbours(graph, Running.vertex) : u > root => u \in blocked
            /\ Depth > 1 => root \notin Neighbours(graph, Running.vertex)
<1>1. /\ Typed /\ calls # <<>> /\ Exhausted /\ Depth \in 1..Depth /\ Depth \in Nat
      /\ Running.found \in BOOLEAN /\ Running = calls[Depth]
      /\ BlockingInv
  BY TopCall DEF SearchInv, Return, Running
<1>2. CASE Running.found
  BY <1>2 DEF Return, Leave, Unblock
<1>3. CASE ~Running.found
  <2>1. /\ blocked' = blocked
        /\ \A u \in V : blockedLists'[u] =
             IF u > root /\ u \in Neighbours(graph, Running.vertex)
             THEN blockedLists[u] \cup {Running.vertex} ELSE blockedLists[u]
    BY <1>3 DEF Return, Leave, AddToBlockedLists
  <2>2. ~FoundFrom(Depth)
    BY <1>1, <1>3 DEF FoundFrom
  <2>3. Consumed(calls[Depth]) = Neighbours(graph, Running.vertex)
    BY <1>1, ConsumedAll
  <2>4. /\ \A u \in Neighbours(graph, Running.vertex) : u > root => u \in blocked
        /\ Depth >= 2 => root \notin Neighbours(graph, Running.vertex)
    BY <1>1, <2>2, <2>3 DEF BlockingInv, FruitlessEdges
  <2>5. Depth > 1 => root \notin Neighbours(graph, Running.vertex)
    <3>1. Depth > 1 => Depth >= 2
      BY <1>1
    <3>2. QED
      BY <2>4, <3>1
  <2>6. QED
    BY <1>3, <2>1, <2>4, <2>5
<1>4. QED
  BY <1>2, <1>3

LEMMA ListsStep ==
  ASSUME SearchInv, [Next]_vars, ~Bounded
  PROVE  ListsOfBlocked'
<1>1. /\ Typed /\ \A u \in V \ blocked : blockedLists[u] = {}
      /\ \A v \in V : Neighbours(graph, v) \in SUBSET V
  BY GraphShape DEF SearchInv, BlockingInv, ListsOfBlocked
<1>2. CASE NextRoot
  BY <1>2 DEF NextRoot, ListsOfBlocked
<1>3. CASE Close \/ Skip \/ Call \/ Report \/ UNCHANGED vars
  <2>1. blocked \subseteq blocked' /\ blockedLists' = blockedLists
    BY <1>3 DEF Close, Skip, Call, Report, vars
  <2>2. QED
    BY <1>1, <2>1 DEF ListsOfBlocked
<1>4. CASE Return
  BY <1>1, <1>4, UnboundedReturn DEF ListsOfBlocked
<1>5. QED
  BY <1>2, <1>3, <1>4 DEF Next, Returned

LEMMA FruitlessStep ==
  ASSUME SearchInv, [Next]_vars, ~Bounded
  PROVE  FruitlessEdges'
<1>1. /\ Typed /\ PathInv /\ Depth \in Nat /\ graph' = graph
      /\ \A i \in 1..Depth : ~FoundFrom(i) =>
           /\ \A u \in Consumed(calls[i]) : u > root => u \in blocked
           /\ i >= 2 => root \notin Consumed(calls[i])
  BY StackShape, InputUnchanged DEF SearchInv, BlockingInv, FruitlessEdges
<1>2. SUFFICES ASSUME NEW i \in 1..Depth', ~FoundFrom(i)'
               PROVE  /\ \A u \in Consumed(calls'[i]) : u > root' => u \in blocked'
                      /\ i >= 2 => root' \notin Consumed(calls'[i])
  BY <1>1 DEF FruitlessEdges, Consumed
<1>3. CASE NextRoot
  <2>1. Depth' = 1 /\ calls'[1].offset = 1
    BY <1>1, <1>3, NextRootStep
  <2>2. i = 1 /\ Consumed(calls'[i]) = {}
    BY <2>1, ConsumedNone
  <2>3. QED
    BY <2>2
<1>4. CASE Close \/ Skip
  <2>1. /\ Depth' = Depth /\ calls # <<>> /\ ~Exhausted /\ root' = root /\ blocked' = blocked
        /\ \A k \in 1..Depth : calls'[k].vertex = calls[k].vertex
        /\ \A k \in 1..(Depth - 1) : calls'[k] = calls[k]
        /\ calls'[Depth].offset = calls[Depth].offset + 1
    BY <1>1, <1>4, EdgeStep DEF Close, Skip
  <2>2. i \in 1..Depth /\ ~FoundFrom(i) /\ ~Close
    BY <1>1, <1>2, <1>4, <2>1, FoundGrows
  <2>3. CASE i = Depth
    <3>1. Consumed(calls'[i]) = Consumed(calls[i]) \cup {NextVertex}
      BY <1>1, <2>1, <2>2, <2>3, ConsumedOne
    <3>2. ~(NextVertex = root /\ Depth >= 2) /\ Skipped(NextVertex)
      BY <1>4, <2>2 DEF Skip
    <3>3. NextVertex > root => NextVertex \in blocked
      <4>1. NextVertex \in Int /\ root \in Int
        BY <1>1, <2>1, TopCall, VertexType
      <4>2. QED
        BY <3>2, <4>1 DEF Skipped
    <3>4. QED
      BY <1>1, <2>1, <2>2, <2>3, <3>1, <3>2, <3>3
  <2>4. CASE i # Depth
    <3>1. calls'[i] = calls[i]
      BY <1>1, <2>1, <2>2, <2>4
    <3>2. QED
      BY <1>1, <2>1, <2>2, <3>1
  <2>5. QED
    BY <2>3, <2>4
<1>5. CASE Call
  <2>1. /\ Depth' = Depth + 1 /\ calls # <<>> /\ ~Exhausted /\ root' = root
        /\ blocked' = blocked \cup {NextVertex}
        /\ \A k \in 1..Depth : calls'[k].vertex = calls[k].vertex
        /\ \A k \in 1..(Depth - 1) : calls'[k] = calls[k]
        /\ calls'[Depth].offset = calls[Depth].offset + 1
        /\ calls'[Depth + 1].offset = 1
    BY <1>1, <1>5, CallStep DEF Call
  <2>2. CASE i = Depth + 1
    <3>1. Consumed(calls'[i]) = {}
      BY <2>1, <2>2, ConsumedNone
    <3>2. QED
      BY <3>1
  <2>3. CASE i # Depth + 1
    <3>1. i \in 1..Depth /\ ~FoundFrom(i)
      BY <1>1, <1>2, <1>5, <2>1, <2>3, FoundGrows
    <3>2. CASE i = Depth
      <4>1. Consumed(calls'[i]) = Consumed(calls[i]) \cup {NextVertex}
        BY <1>1, <2>1, <3>1, <3>2, ConsumedOne
      <4>2. NextVertex > root /\ root \in Int /\ NextVertex \in Int
        BY <1>1, <1>5, <2>1, CalledVertex, TopCall, VertexType
      <4>3. QED
        BY <1>1, <2>1, <3>1, <4>1, <4>2
    <3>3. CASE i # Depth
      <4>1. calls'[i] = calls[i]
        BY <1>1, <2>1, <3>1, <3>3
      <4>2. QED
        BY <1>1, <2>1, <3>1, <4>1
    <3>4. QED
      BY <3>2, <3>3
  <2>4. QED
    BY <2>2, <2>3
<1>6. CASE Return
  <2>1. /\ Depth' = Depth - 1 /\ root' = root /\ calls # <<>>
        /\ \A k \in 1..(Depth - 1) : /\ calls'[k].vertex = calls[k].vertex
                                     /\ calls'[k].offset = calls[k].offset
        /\ Running.found /\ Depth > 1 => calls'[Depth - 1].found
    BY <1>1, <1>6, ReturnStep DEF Return
  <2>2. i \in 1..(Depth - 1) /\ i \in 1..Depth
    BY <1>1, <2>1
  <2>3. ~FoundFrom(i)
    BY <1>1, <1>2, <1>6, <2>2, FoundGrows
  <2>4. Consumed(calls'[i]) = Consumed(calls[i])
    BY <2>1, <2>2, ConsumedSame
  <2>5. blocked' = blocked
    <3>1. ~Running.found
      <4>1. Depth \in i..Depth /\ Running = calls[Depth]
        BY <1>1, <2>2 DEF Running
      <4>2. QED
        BY <2>3, <4>1 DEF FoundFrom
    <3>2. QED
      BY <1>6, <3>1, UnboundedReturn
  <2>6. QED
    BY <1>1, <2>1, <2>2, <2>3, <2>4, <2>5
<1>7. CASE Report \/ UNCHANGED vars
  <2>1. calls' = calls /\ blocked' = blocked /\ root' = root
    BY <1>7 DEF Report, vars
  <2>2. Depth' = Depth
    BY <2>1 DEF Depth
  <2>3. ~FoundFrom(i) /\ i \in 1..Depth
    BY <1>2, <2>1, <2>2 DEF FoundFrom
  <2>4. QED
    BY <1>1, <2>1, <2>3
<1>8. QED
  BY <1>3, <1>4, <1>5, <1>6, <1>7 DEF Next, Returned

LEMMA ApartStep ==
  ASSUME SearchInv, [Next]_vars, ~Bounded
  PROVE  \A i \in 1..Depth' : Apart(i)'
<1>1. /\ Typed /\ PathInv /\ PathBlocked /\ Depth \in Nat /\ ListsOfBlocked
      /\ blockedLists \in [V -> SUBSET V] /\ blocked \in SUBSET V
      /\ \A i \in 1..Depth : Apart(i)
      /\ \A v \in V : Neighbours(graph, v) \in SUBSET V
  BY StackShape, GraphShape DEF SearchInv, BlockingInv, Typed
<1>2. SUFFICES ASSUME NEW i \in 1..Depth'
               PROVE  \E S \in SUBSET V :
                        /\ calls'[i].vertex \in S
                        /\ \A u \in S : blockedLists'[u] \cap blocked' \subseteq S
                        /\ \A j \in 1..(i - 1) : calls'[j].vertex \notin S
  BY DEF Apart, ClosedUnderLists
<1>3. CASE NextRoot
  <2>1. /\ Depth' = 1 /\ calls'[1].vertex = root + 1 /\ root + 1 \in V
        /\ \A u \in V : blockedLists'[u] = {}
    BY <1>1, <1>3, NextRootStep DEF NextRoot
  <2>2. i = 1
    BY <2>1
  <2>3. QED
    BY <2>1, <2>2
<1>4. CASE Close \/ Skip \/ Report \/ UNCHANGED vars
  <2>1. /\ Depth' = Depth /\ blockedLists' = blockedLists /\ blocked' = blocked
        /\ \A k \in 1..Depth : calls'[k].vertex = calls[k].vertex
    <3>1. CASE Close \/ Skip
      BY <1>1, <3>1, EdgeStep DEF Close, Skip
    <3>2. CASE Report \/ UNCHANGED vars
      BY <3>2 DEF Report, vars, Depth
    <3>3. QED
      BY <1>4, <3>1, <3>2
  <2>2. PICK S \in SUBSET V : /\ calls[i].vertex \in S /\ ClosedUnderLists(S)
                              /\ \A j \in 1..(i - 1) : calls[j].vertex \notin S
    BY <1>1, <2>1 DEF Apart
  <2>3. i \in 1..Depth /\ \A j \in 1..(i - 1) : j \in 1..Depth
    BY <1>1, <2>1
  <2>4. QED
    BY <2>1, <2>2, <2>3 DEF ClosedUnderLists
<1>5. CASE Call
  <2>1. /\ Depth' = Depth + 1 /\ blockedLists' = blockedLists
        /\ blocked' = blocked \cup {NextVertex}
        /\ \A k \in 1..Depth : calls'[k].vertex = calls[k].vertex
        /\ calls'[Depth + 1].vertex = NextVertex
    BY <1>1, <1>5, CallStep DEF Call
  <2>2. /\ NextVertex \in V /\ blockedLists[NextVertex] = {}
        /\ \A k \in 1..Depth : calls[k].vertex # NextVertex
    BY <1>1, <1>5, CalledVertex DEF ListsOfBlocked
  <2>3. CASE i = Depth + 1
    <3>1. \A j \in 1..(i - 1) : j \in 1..Depth
      BY <1>1, <2>3
    <3>2. /\ {NextVertex} \in SUBSET V
          /\ calls'[i].vertex \in {NextVertex}
          /\ \A u \in {NextVertex} : blockedLists'[u] \cap blocked' \subseteq {NextVertex}
          /\ \A j \in 1..(i - 1) : calls'[j].vertex \notin {NextVertex}
      BY <2>1, <2>2, <2>3, <3>1
    <3>3. QED
      BY <3>2
  <2>4. CASE i # Depth + 1
    <3>1. i \in 1..Depth /\ \A j \in 1..(i - 1) : j \in 1..Depth
      BY <1>1, <2>1, <2>4
    <3>2. PICK S \in SUBSET V : /\ calls[i].vertex \in S /\ ClosedUnderLists(S)
                                /\ \A j \in 1..(i - 1) : calls[j].vertex \notin S
      BY <1>1, <3>1 DEF Apart
    <3> DEFINE T == S \cup {NextVertex}
    <3>3. T \in SUBSET V /\ calls'[i].vertex \in T
      BY <2>1, <2>2, <3>1, <3>2
    <3>4. \A u \in T : blockedLists'[u] \cap blocked' \subseteq T
      BY <2>1, <2>2, <3>2 DEF ClosedUnderLists
    <3>5. \A j \in 1..(i - 1) : calls'[j].vertex \notin T
      BY <2>1, <2>2, <3>1, <3>2
    <3>6. QED
      <4> HIDE DEF T
      <4> QED BY <3>3, <3>4, <3>5
  <2>5. QED
    BY <2>3, <2>4
<1>6. CASE Return
  <2>1. /\ Depth' = Depth - 1 /\ calls # <<>>
        /\ \A k \in 1..(Depth - 1) : calls'[k].vertex = calls[k].vertex
    BY <1>1, <1>6, ReturnStep
  <2>2. /\ i \in 1..(Depth - 1) /\ i \in 1..Depth /\ Depth \in 1..Depth
        /\ \A j \in 1..(i - 1) : j \in 1..(Depth - 1)
        /\ Running.vertex \in V /\ Running.vertex = calls[Depth].vertex
    BY <1>1, <2>1, TopCall DEF Running
  <2>3. PICK S \in SUBSET V : /\ calls[i].vertex \in S /\ ClosedUnderLists(S)
                              /\ \A j \in 1..(i - 1) : calls[j].vertex \notin S
    BY <1>1, <2>2 DEF Apart
  <2>4. CASE Running.found
    <3>1. blocked' \subseteq blocked /\ \A u \in V : blockedLists'[u] \subseteq blockedLists[u]
      BY <1>6, <2>4, UnboundedReturn
    <3>2. \A u \in S : blockedLists'[u] \cap blocked' \subseteq S
      BY <2>3, <3>1 DEF ClosedUnderLists
    <3>3. QED
      BY <2>1, <2>2, <2>3, <3>2
  <2>5. CASE ~Running.found
    <3>1. PICK R \in SUBSET V : /\ calls[Depth].vertex \in R /\ ClosedUnderLists(R)
                                /\ \A j \in 1..(Depth - 1) : calls[j].vertex \notin R
      BY <1>1, <2>2 DEF Apart
    <3> DEFINE T == S \cup R
    <3>2. T \in SUBSET V /\ calls'[i].vertex \in T
      BY <2>1, <2>2, <2>3, <3>1
    <3>3. \A u \in T : blockedLists'[u] \cap blocked' \subseteq T
      <4>1. /\ blocked' = blocked
            /\ \A u \in V : blockedLists'[u] \subseteq blockedLists[u] \cup {calls[Depth].vertex}
        BY <1>6, <2>2, <2>5, UnboundedReturn
      <4>2. QED
        BY <2>3, <3>1, <4>1 DEF ClosedUnderLists
    <3>4. \A j \in 1..(i - 1) : calls'[j].vertex \notin T
      BY <2>1, <2>2, <2>3, <3>1
    <3>5. QED
      <4> HIDE DEF T
      <4> QED BY <3>2, <3>3, <3>4
  <2>6. QED
    BY <2>4, <2>5
<1>7. QED
  BY <1>3, <1>4, <1>5, <1>6 DEF Next, Returned

LEMMA WaitingStep ==
  ASSUME SearchInv, [Next]_vars, ~Bounded, calls' # <<>>,
         NEW v \in blocked', ~OnPath(v)'
  PROVE  Waiting(v)'
<1>1. /\ Typed /\ PathInv /\ Depth \in Nat /\ graph' = graph
      /\ calls # <<>> => \A x \in blocked : ~OnPath(x) => Waiting(x)
      /\ \A x \in V : Neighbours(graph, x) \in SUBSET V
      /\ blocked \in SUBSET V
  BY StackShape, GraphShape, InputUnchanged DEF SearchInv, BlockingInv, Typed
<1>2. \A i \in 1..Depth' : calls'[i].vertex # v
  BY DEF OnPath
<1>3. SUFFICES /\ root' \notin Neighbours(graph, v)
               /\ \A u \in Neighbours(graph, v) : u > root' => v \in blockedLists'[u]
  BY <1>1 DEF Waiting
<1>4. CASE NextRoot
  <2>1. Depth' = 1 /\ calls'[1].vertex = root + 1 /\ blocked' = {root + 1}
    BY <1>1, <1>4, NextRootStep DEF NextRoot
  <2>2. QED
    BY <1>2, <2>1
<1>5. CASE Close \/ Skip \/ Call
  <2>1. /\ calls # <<>> /\ root' = root /\ blockedLists' = blockedLists
        /\ Depth' \in Nat /\ Depth' >= Depth
        /\ \A k \in 1..Depth : calls'[k].vertex = calls[k].vertex
        /\ v \in blocked \/ (Call /\ v = NextVertex /\ calls'[Depth + 1].vertex = v /\ Depth' = Depth + 1)
    <3>1. CASE Close \/ Skip
      BY <1>1, <3>1, EdgeStep DEF Close, Skip
    <3>2. CASE Call
      BY <1>1, <3>2, CallStep DEF Call
    <3>3. QED
      BY <1>5, <3>1, <3>2
  <2>2. v \in blocked
    BY <1>1, <1>2, <2>1
  <2>3. ~OnPath(v)
    BY <1>1, <1>2, <2>1 DEF OnPath
  <2>4. QED
    BY <1>1, <2>1, <2>2, <2>3 DEF Waiting
<1>6. CASE Return
  <2>1. /\ Depth' = Depth - 1 /\ calls # <<>> /\ root' = root
        /\ \A k \in 1..(Depth - 1) : calls'[k].vertex = calls[k].vertex
        /\ calls' \in Seq(Frames)
    BY <1>1, <1>6, ReturnStep DEF Return
  <2>2. /\ Running.vertex \in V /\ Running.vertex = calls[Depth].vertex
        /\ Depth > 1
    BY <1>1, <2>1, TopCall, EmptySeq DEF Running, Depth
  <2>3. v \in blocked
    BY <1>6, UnboundedReturn
  <2>4. v = Running.vertex \/ ~OnPath(v)
    <3>1. \A k \in 1..Depth : k = Depth \/ k \in 1..(Depth - 1)
      BY <1>1
    <3>2. QED
      BY <1>2, <2>1, <2>2, <3>1 DEF OnPath
  <2>5. CASE Running.found
    <3>1. /\ blocked' = blocked \ Released(Running.vertex)
          /\ \A u \in V : blockedLists'[u] = IF u \in Released(Running.vertex) THEN {}
                                             ELSE blockedLists[u]
      BY <1>6, <2>5, UnboundedReturn
    <3>2. Running.vertex \in Released(Running.vertex) /\ ClosedUnderLists(Released(Running.vertex))
      BY <1>1, <2>2, ReleasedIsLeast
    <3>3. v \notin Released(Running.vertex) /\ Waiting(v)
      BY <1>1, <2>1, <2>3, <2>4, <3>1, <3>2
    <3>4. ASSUME NEW u \in Neighbours(graph, v), u > root
          PROVE  v \in blockedLists'[u]
      <4>1. v \in blockedLists[u] /\ u \in V
        BY <1>1, <2>3, <3>3, <3>4 DEF Waiting
      <4>2. u \notin Released(Running.vertex)
        BY <2>3, <3>2, <3>3, <4>1 DEF ClosedUnderLists
      <4>3. QED
        BY <3>1, <4>1, <4>2
    <3>5. QED
      BY <2>1, <3>3, <3>4 DEF Waiting
  <2>6. CASE ~Running.found
    <3>1. /\ \A u \in V : blockedLists'[u] =
               IF u > root /\ u \in Neighbours(graph, Running.vertex)
               THEN blockedLists[u] \cup {Running.vertex} ELSE blockedLists[u]
          /\ root \notin Neighbours(graph, Running.vertex)
      BY <1>6, <2>2, <2>6, UnboundedReturn
    <3>2. CASE v = Running.vertex
      BY <1>1, <2>1, <2>2, <3>1, <3>2
    <3>3. CASE v # Running.vertex
      <4>1. Waiting(v)
        BY <1>1, <2>1, <2>3, <2>4, <3>3
      <4>2. \A u \in V : blockedLists[u] \subseteq blockedLists'[u]
        BY <3>1
      <4>3. QED
        BY <1>1, <2>1, <2>3, <4>1, <4>2 DEF Waiting
    <3>4. QED
      BY <3>2, <3>3
  <2>7. QED
    BY <2>5, <2>6
<1>7. CASE Report \/ UNCHANGED vars
  <2>1. calls' = calls /\ blocked' = blocked /\ blockedLists' = blockedLists /\ root' = root
    BY <1>7 DEF Report, vars
  <2>2. Depth' = Depth
    BY <2>1 DEF Depth
  <2>3. ~OnPath(v) /\ v \in blocked /\ calls # <<>>
    BY <1>2, <2>1, <2>2 DEF OnPath
  <2>4. QED
    BY <1>1, <2>1, <2>3 DEF Waiting
<1>8. QED
  BY <1>4, <1>5, <1>6, <1>7 DEF Next, Returned

LEMMA SearchStep == SearchInv /\ [Next]_vars => SearchInv'
<1> SUFFICES ASSUME SearchInv, [Next]_vars
             PROVE  SearchInv'
  OBVIOUS
<1>1. Bounded' = Bounded
  BY InputUnchanged DEF Bounded
<1>2. Typed' /\ PathInv' /\ PathBlocked'
  BY TypedStep, PathStep, PathBlockedStep DEF SearchInv
<1>3. Bounded /\ calls' # <<>> => OnlyPathBlocked'
  BY OnlyPathBlockedStep
<1>4. ASSUME ~Bounded
      PROVE  BlockingInv'
  <2>1. ListsOfBlocked' /\ FruitlessEdges'
    BY <1>4, ListsStep, FruitlessStep
  <2>2. (\A i \in 1..Depth : Apart(i))'
    BY <1>4, ApartStep
  <2>3. (calls # <<>> => \A v \in blocked : ~OnPath(v) => Waiting(v))'
    BY <1>4, WaitingStep
  <2>4. QED
    BY <2>1, <2>2, <2>3 DEF BlockingInv
<1>5. QED
  BY <1>1, <1>2, <1>3, <1>4 DEF SearchInv

LEMMA SearchInit == Init => SearchInv
<1> SUFFICES ASSUME Init
             PROVE  SearchInv
  OBVIOUS
<1>1. /\ Typed /\ calls = <<>> /\ Depth = 0
      /\ \A u \in V : blockedLists[u] = {}
  BY TypedInit DEF Init, Depth
<1>2. PathInv /\ PathBlocked
  <2>1. Bounded => bound \in Nat
    BY <1>1 DEF Typed, Bounded
  <2>2. QED
    BY <1>1, <2>1 DEF PathInv, PathBlocked
<1>3. BlockingInv
  BY <1>1 DEF BlockingInv, ListsOfBlocked, FruitlessEdges
<1>4. QED
  BY <1>1, <1>2, <1>3 DEF SearchInv

LEMMA SearchAlways == Spec => []SearchInv
BY SearchInit, SearchStep, PTL DEF Spec

-----------------------------------------------------------------------------
(***************************************************************************)
(* The theorems.                                                           *)
(***************************************************************************)
\* A path is as long as there are vertices, at most: circuit() recurses no
\* deeper.
LEMMA DepthBounded ==
  ASSUME Typed, PathInv
  PROVE  Depth <= N
<1>1. /\ Depth \in Nat /\ \A i \in 1..Depth : calls[i].vertex \in V
      /\ \A i, j \in 1..Depth : i # j => calls[i].vertex # calls[j].vertex
  BY StackShape DEF PathInv
<1>2. /\ IsFiniteSet(1..Depth) /\ Cardinality(1..Depth) = Depth
      /\ IsFiniteSet(V) /\ Cardinality(V) = N /\ N \in Nat
  BY <1>1, FS_Interval, VertexType, SMTT(30)
<1> DEFINE path == [i \in 1..Depth |-> calls[i].vertex]
<1>3. path \in [1..Depth -> V] /\ \A i, j \in 1..Depth : i # j => path[i] # path[j]
  BY <1>1
<1>4. ~(Cardinality(V) < Cardinality(1..Depth))
  <2> HIDE DEF path
  <2> DEFINE D == 1..Depth
  <2>1. path \in [D -> V] /\ IsFiniteSet(D)
    BY <1>2, <1>3
  <2> HIDE DEF D
  <2>2. Cardinality(V) < Cardinality(D) => \E x, y \in D : x # y /\ path[x] = path[y]
    BY <1>2, <2>1, FS_PigeonHole
  <2>3. QED
    BY <1>3, <2>2 DEF D
<1>5. QED
  BY <1>1, <1>2, <1>4

\* The search keeps to its arrays: the stack is no deeper than there are
\* vertices, an offset is at most one past the adjacency list, and the
\* histogram has an entry for each length counted.
THEOREM JohnsonTypes == Spec => []JohnsonTypeOK
<1>1. SearchInv => JohnsonTypeOK
  <2> SUFFICES ASSUME SearchInv
               PROVE  JohnsonTypeOK
    OBVIOUS
  <2>1. Typed /\ PathInv
    BY DEF SearchInv
  <2>2. QED
    BY <2>1, DepthBounded, StackShape DEF JohnsonTypeOK, Typed
<1>2. QED
  BY <1>1, SearchAlways, PTL

\* unblock() never clears the flag of a vertex on the path: path_ is a simple
\* path whatever the graph.
THEOREM JohnsonPathSimple == Spec => []PathStaysBlocked
<1>1. SearchInv => PathStaysBlocked
  <2> SUFFICES ASSUME SearchInv
               PROVE  PathStaysBlocked
    OBVIOUS
  <2>1. /\ \A i \in 1..Depth : Path[i] = calls[i].vertex /\ calls[i].vertex \in blocked
        /\ \A i, j \in 1..Depth : i # j => calls[i].vertex # calls[j].vertex
        /\ Depth \in Nat
    BY StackShape DEF SearchInv, PathBlocked, PathInv
  <2>2. \A i \in 1..Depth : \A j \in 1..(i - 1) : j \in 1..Depth /\ i # j
    BY <2>1
  <2>3. QED
    BY <2>1, <2>2 DEF PathStaysBlocked
<1>2. QED
  BY <1>1, SearchAlways, PTL

\* A vertex left blocked is in the blocked list of every neighbour that could
\* unblock it.
THEOREM JohnsonWaits == Spec => []WaitsForAllNeighbours
<1>1. SearchInv => WaitsForAllNeighbours
  <2> SUFFICES ASSUME SearchInv, ~Bounded, calls # <<>>,
                      NEW v \in blocked, \A i \in 1..Depth : v # Path[i]
               PROVE  \A u \in Neighbours(graph, v) : u > root => v \in blockedLists[u]
    BY DEF WaitsForAllNeighbours
  <2>1. ~OnPath(v)
    BY StackShape DEF SearchInv, OnPath
  <2>2. QED
    BY <2>1 DEF SearchInv, BlockingInv, Waiting
<1>2. QED
  BY <1>1, SearchAlways, PTL

\* A blocked vertex off the path cannot reach the root past the path: circuit()
\* loses no cycle by skipping it.
THEOREM JohnsonBlockingSound == Spec => []BlockedIsHopeless
<1>1. SearchInv => BlockedIsHopeless
  <2> SUFFICES ASSUME SearchInv, calls # <<>>
               PROVE  blocked \cap Hopeful = {}
    BY DEF BlockedIsHopeless
  <2> DEFINE S == {v \in V : v > root /\ v \notin blocked}
  <2>1. Typed
    BY DEF SearchInv
  <2>2. ASSUME NEW v \in V, v > root, \A i \in 1..Depth : v # Path[i],
               root \in Neighbours(graph, v) \/ Neighbours(graph, v) \cap S # {}
        PROVE  v \in S
    <3>1. ~OnPath(v)
      BY <2>1, <2>2, StackShape DEF OnPath
    <3>2. CASE Bounded
      BY <2>2, <3>1, <3>2 DEF SearchInv, OnlyPathBlocked
    <3>3. CASE ~Bounded
      <4>1. ASSUME v \in blocked
            PROVE  FALSE
        <5>1. Waiting(v)
          BY <3>1, <3>3, <4>1 DEF SearchInv, BlockingInv
        <5>2. PICK u \in Neighbours(graph, v) : u \in V /\ u > root /\ u \notin blocked
          BY <2>2, <5>1 DEF Waiting
        <5>3. blockedLists[u] = {}
          BY <3>3, <5>2 DEF SearchInv, BlockingInv, ListsOfBlocked
        <5>4. QED
          BY <5>1, <5>2, <5>3 DEF Waiting
      <4>2. QED
        BY <2>2, <4>1
    <3>4. QED
      BY <3>2, <3>3
  <2>3. Hopeful \subseteq S
    <3>1. S \in SUBSET V
      OBVIOUS
    <3> HIDE DEF S
    <3>2. QED
      BY <2>1, <2>2, <3>1, HopefulWithin
  <2>4. QED
    BY <2>3
<1>2. QED
  BY <1>1, SearchAlways, PTL

-----------------------------------------------------------------------------
(***************************************************************************)
(* The sequential Johnson search counts every simple cycle within the      *)
(* length bound exactly once, for every graph and every bound.             *)
(***************************************************************************)
\* The cycles the run has not come to yet: those of later roots, and those of
\* this root that leave the path by an edge not looked at.
Ahead(c) ==
  \/ c[1] > root
  \/ c[1] = root /\ Pending(graph, calls, 1, Depth, c)

CountInv ==
  /\ counted \subseteq cycles
  /\ IsFiniteSet(counted)
  /\ \A c \in cycles : c \in counted <=> ~Ahead(c)
  /\ histogram = HistogramOf(counted, N)
  /\ result # NoResult => calls = <<>> /\ root + 1 = N

\* The cycle goes on from the path by the edge the running call looks at.
TakesEdge(c) == Follows(calls, Depth, c) /\ Successor(c, Depth) = NextVertex

-----------------------------------------------------------------------------
(***************************************************************************)
(* Cycles and the path.                                                    *)
(***************************************************************************)
\* What the lemmas of CycleFacts ask of this search.
LEMMA SearchFacts ==
  ASSUME SearchInv
  PROVE  /\ Typed /\ PathInv
         /\ V \in SUBSET Int /\ graph \in Adjacencies(V)
         /\ MaxLength \in Nat /\ cycles = Cycles(graph, MaxLength)
         /\ Depth \in Nat /\ root \in Int
         /\ IsSearch(V, graph, calls, 1, Depth)
<1>1. Typed /\ PathInv /\ Depth \in Nat
  BY StackShape DEF SearchInv
<1>2. MaxLength \in Nat
  BY <1>1 DEF Typed, MaxLength
<1>3. \A i \in 1..Depth : /\ calls[i].vertex \in V
                          /\ calls[i].offset \in 1..(Len(graph[calls[i].vertex]) + 1)
  BY <1>1, StackShape
<1>4. IsSearch(V, graph, calls, 1, Depth)
  BY <1>1, <1>3 DEF IsSearch, PathInv
<1>5. QED
  BY <1>1, <1>2, <1>4, VertexType DEF Typed

LEMMA CycleOf ==
  ASSUME SearchInv, NEW c \in cycles
  PROVE  /\ Len(c) \in 2..MaxLength /\ Len(c) \in Nat /\ MaxLength \in Nat
         /\ c \in [1..Len(c) -> V] /\ 1 \in 1..Len(c)
         /\ \A i \in 1..Len(c) : c[i] \in V /\ c[i] \in Int
         /\ \A i, j \in 1..Len(c) : i # j => c[i] # c[j]
         /\ \A i \in 2..Len(c) : c[1] < c[i]
         /\ \A k \in 1..Len(c) : Successor(c, k) \in Neighbours(graph, c[k])
<1>1. graph \in Adjacencies(V) /\ MaxLength \in Nat /\ c \in Cycles(graph, MaxLength)
  BY SearchFacts
<1>2. /\ Len(c) \in 2..MaxLength /\ c \in [1..Len(c) -> V]
      /\ \A i \in 1..Len(c) : c[i] \in V
      /\ \A i, j \in 1..Len(c) : i # j => c[i] # c[j]
      /\ \A i \in 2..Len(c) : c[1] < c[i]
      /\ \A k \in 1..Len(c) : Successor(c, k) \in Neighbours(graph, c[k])
  BY <1>1, CycleShape
<1>3. Len(c) \in Nat /\ 1 \in 1..Len(c)
  BY <1>1, <1>2
<1>4. QED
  BY <1>1, <1>2, <1>3, VertexType

\* A cycle that follows the path starts at the root.
LEMMA FollowsFromRoot ==
  ASSUME SearchInv, calls # <<>>, NEW c \in cycles, Follows(calls, Depth, c)
  PROVE  /\ c[1] = root /\ Depth \in 1..Len(c)
         /\ \A i \in 1..Depth : c[i] = calls[i].vertex
         /\ Depth < Len(c) => Successor(c, Depth) = c[Depth + 1] /\ Depth + 1 \in 2..Len(c)
                              /\ Successor(c, Depth) > root
         /\ Depth = Len(c) => Successor(c, Depth) = root
<1>1. /\ Depth \in 1..Depth /\ Depth \in Nat \ {0} /\ calls[1].vertex = root
  BY TopCall DEF SearchInv, PathInv
<1>2. /\ Len(c) \in Nat /\ Depth <= Len(c)
      /\ \A i \in 1..Depth : c[i] = calls[i].vertex
  BY CycleOf DEF Follows
<1>3. c[1] = root
  BY <1>1, <1>2
<1>4. Depth \in 1..Len(c)
  BY <1>1, <1>2
<1>5. ASSUME Depth < Len(c)
      PROVE  Successor(c, Depth) = c[Depth + 1] /\ Depth + 1 \in 2..Len(c)
             /\ Successor(c, Depth) > root
  <2>1. Successor(c, Depth) = c[Depth + 1] /\ Depth + 1 \in 2..Len(c)
    BY <1>1, <1>2, <1>5 DEF Successor
  <2>2. c[Depth + 1] > c[1]
    <3>1. c[Depth + 1] \in Int /\ c[1] \in Int /\ c[1] < c[Depth + 1]
      <4>1. Depth + 1 \in 1..Len(c)
        BY <2>1, <1>2
      <4>2. QED
        BY <2>1, <4>1, CycleOf
    <3>2. QED
      BY <3>1
  <2>3. QED
    BY <1>3, <2>1, <2>2
<1>6. Depth = Len(c) => Successor(c, Depth) = root
  BY <1>3 DEF Successor
<1>7. QED
  BY <1>2, <1>3, <1>4, <1>5, <1>6

\* A cycle that goes on from the path to a blocked vertex would be blocked to
\* its end, from where the root is in reach.
LEMMA NoCycleThroughBlocked ==
  ASSUME SearchInv, calls # <<>>, NEW c \in cycles,
         Follows(calls, Depth, c), Depth < Len(c)
  PROVE  c[Depth + 1] \notin blocked
<1>1. /\ c[1] = root /\ Depth \in 1..Len(c) /\ Depth \in Nat
      /\ \A i \in 1..Depth : c[i] = calls[i].vertex
  BY FollowsFromRoot, SearchFacts
<1>2. /\ Len(c) \in Nat
      /\ \A i, j \in 1..Len(c) : i # j => c[i] # c[j]
      /\ \A i \in 2..Len(c) : c[1] < c[i]
      /\ \A i \in 1..Len(c) : c[i] \in V /\ c[i] \in Int
      /\ \A k \in 1..Len(c) : Successor(c, k) \in Neighbours(graph, c[k])
  BY CycleOf
<1>3. \A k \in (Depth + 1)..Len(c) : k \in 1..Len(c) /\ k \in 2..Len(c) /\ ~OnPath(c[k])
  <2>1. ASSUME NEW k \in (Depth + 1)..Len(c), NEW i \in 1..Depth
        PROVE  c[k] # calls[i].vertex
    <3>1. k \in 1..Len(c) /\ i \in 1..Len(c) /\ i # k
      BY <1>1, <1>2
    <3>2. QED
      BY <1>1, <1>2, <3>1
  <2>2. \A k \in (Depth + 1)..Len(c) : k \in 1..Len(c) /\ k \in 2..Len(c)
    BY <1>1, <1>2
  <2>3. QED
    BY <2>1, <2>2 DEF OnPath
<1>4. SUFFICES ASSUME c[Depth + 1] \in blocked
               PROVE  FALSE
  OBVIOUS
<1>5. Depth + 1 \in (Depth + 1)..Len(c) /\ Len(c) \in (Depth + 1)..Len(c)
  BY <1>1, <1>2
<1>6. CASE Bounded
  BY <1>3, <1>4, <1>5, <1>6 DEF SearchInv, OnlyPathBlocked
<1>7. CASE ~Bounded
  <2>1. /\ ListsOfBlocked /\ \A v \in blocked : ~OnPath(v) => Waiting(v)
    BY <1>7 DEF SearchInv, BlockingInv
  <2> DEFINE Blocked == {n \in Nat : Depth + 1 + n <= Len(c) => c[Depth + 1 + n] \in blocked}
  <2>2. 0 \in Blocked
    BY <1>1, <1>4
  <2>3. ASSUME NEW n \in Nat, n \in Blocked
        PROVE  n + 1 \in Blocked
    <3> DEFINE k == Depth + 1 + n
    <3>1. SUFFICES ASSUME k + 1 <= Len(c)
                   PROVE  c[k + 1] \in blocked
      <4>1. Depth + 1 + (n + 1) = k + 1
        BY <1>1
      <4>2. QED
        BY <4>1
    <3>2. k \in (Depth + 1)..Len(c) /\ k + 1 \in (Depth + 1)..Len(c) /\ k # Len(c) /\ k <= Len(c)
      BY <1>1, <1>2, <3>1
    <3>3. c[k] \in blocked
      BY <2>3, <3>2
    <3> HIDE DEF k
    <3>4. Waiting(c[k])
      BY <1>3, <2>1, <3>2, <3>3
    <3>5. c[k + 1] \in Neighbours(graph, c[k])
      BY <1>2, <1>3, <3>2 DEF Successor
    <3>6. c[k + 1] > root /\ c[k + 1] \in V
      <4>1. k + 1 \in 1..Len(c) /\ k + 1 \in 2..Len(c) /\ 1 \in 1..Len(c)
        BY <1>3, <3>2, <1>1, <1>2
      <4>2. c[1] < c[k + 1] /\ c[1] \in Int /\ c[k + 1] \in Int
        BY <1>2, <4>1
      <4>3. QED
        BY <1>1, <1>2, <4>1, <4>2
    <3>7. c[k] \in blockedLists[c[k + 1]]
      BY <3>4, <3>5, <3>6 DEF Waiting
    <3>8. QED
      BY <2>1, <3>6, <3>7 DEF ListsOfBlocked
  <2>4. \A n \in Nat : n \in Blocked
    <3> HIDE DEF Blocked
    <3> QED BY <2>2, <2>3, NatSetInduction
  <2>5. c[Len(c)] \in blocked
    <3>1. Len(c) - Depth - 1 \in Nat /\ Depth + 1 + (Len(c) - Depth - 1) = Len(c)
      BY <1>1, <1>2, <1>5
    <3>2. QED
      BY <1>2, <2>4, <3>1
  <2>6. Waiting(c[Len(c)])
    BY <1>3, <1>5, <2>1, <2>5
  <2>7. root \in Neighbours(graph, c[Len(c)])
    BY <1>1, <1>2, <1>3, <1>5 DEF Successor
  <2>8. QED
    BY <2>6, <2>7 DEF Waiting
<1>8. QED
  BY <1>6, <1>7

-----------------------------------------------------------------------------
(***************************************************************************)
(* What each step does to the cycles ahead.                                *)
(***************************************************************************)
\* The edge that closes the path is that of one cycle, the path.
LEMMA ClosingTakes ==
  ASSUME SearchInv, Close
  PROVE  /\ Path \in cycles /\ Len(Path) = Depth /\ Path[1] = root
         /\ \A c \in cycles : TakesEdge(c) <=> c = Path
<1>1. /\ calls # <<>> /\ NextVertex = root /\ Depth >= 2 /\ Depth \in Nat
      /\ NextVertex \in Neighbours(graph, calls[Depth].vertex)
      /\ Typed /\ PathInv /\ graph \in Adjacencies(V) /\ MaxLength \in Nat
      /\ cycles = Cycles(graph, MaxLength)
      /\ \A i \in 1..Depth : Path[i] = calls[i].vertex /\ calls[i].vertex \in V
  BY SearchFacts, TopCall, StackShape DEF Close, Running
<1>2. Path \in [1..Depth -> V]
  BY <1>1 DEF Path
<1>3. Depth \in 2..MaxLength
  <2>1. CASE Bounded
    BY <1>1, <2>1 DEF PathInv, MaxLength, Bounded
  <2>2. CASE ~Bounded
    <3>1. MaxLength = N
      BY <2>2 DEF MaxLength, Bounded
    <3>2. Depth <= N
      BY <1>1, DepthBounded
    <3>3. QED
      BY <1>1, <3>1, <3>2
  <2>3. QED
    BY <2>1, <2>2
<1>4. \A i, j \in 1..Depth : i # j => Path[i] # Path[j]
  BY <1>1 DEF PathInv
<1>5. Path[1] = root /\ Path[Depth] = calls[Depth].vertex
  BY <1>1 DEF PathInv
<1>6. \A i \in 2..Depth : Path[1] < Path[i]
  <2>1. ASSUME NEW i \in 2..Depth
        PROVE  root < Path[i]
    <3>1. i \in 1..Depth /\ calls[i].vertex > root
      BY <1>1 DEF PathInv
    <3>2. calls[i].vertex \in Int /\ root \in Int
      BY <1>1, <3>1, SearchFacts, VertexType
    <3>3. QED
      BY <1>1, <3>1, <3>2
  <2>2. QED
    BY <1>5, <2>1
<1>7. ASSUME NEW i \in 1..(Depth - 1)
      PROVE  Path[i + 1] \in Neighbours(graph, Path[i])
  <2>1. i \in 1..Depth /\ i + 1 \in 1..Depth
    BY <1>1
  <2>2. calls[i].offset >= 2 /\ graph[calls[i].vertex][calls[i].offset - 1] = calls[i + 1].vertex
    BY <1>1 DEF PathInv
  <2> DEFINE o == calls[i].offset
             v == calls[i].vertex
  <2>3. o \in 1..(Len(graph[v]) + 1) /\ o >= 2 /\ Len(graph[v]) \in Nat
    BY <1>1, <2>1, <2>2, StackShape, GraphShape
  <2>4. o - 1 \in 1..Len(graph[v])
    <3> HIDE DEF o, v
    <3> QED BY <2>3
  <2>5. QED
    BY <1>1, <2>1, <2>2, <2>4 DEF Neighbours
<1>8. Path[1] \in Neighbours(graph, Path[Depth])
  BY <1>1, <1>5
<1>9. Path \in Cycles(graph, MaxLength) /\ Len(Path) = Depth
  BY <1>1, <1>2, <1>3, <1>4, <1>6, <1>7, <1>8, ClosedPathIsCycle
<1>10. ASSUME NEW c \in cycles, TakesEdge(c)
       PROVE  c = Path
  <2>1. Follows(calls, Depth, c) /\ Successor(c, Depth) = root
    BY <1>1, <1>10 DEF TakesEdge
  <2>2. /\ Depth \in 1..Len(c) /\ Len(c) \in Nat /\ root \in Int
        /\ ~(Depth < Len(c))
        /\ \A i \in 1..Depth : c[i] = calls[i].vertex
    <3>1. Depth < Len(c) => root > root
      BY <1>1, <2>1, FollowsFromRoot
    <3>2. QED
      BY <1>1, <2>1, <3>1, FollowsFromRoot, CycleOf, SearchFacts
  <2>3. Depth = Len(c)
    BY <2>2
  <2>4. c \in [1..Depth -> V] /\ \A i \in 1..Depth : c[i] = Path[i]
    BY <1>1, <2>2, <2>3, CycleOf
  <2>5. c = [i \in 1..Depth |-> c[i]] /\ Path = [i \in 1..Depth |-> Path[i]]
    BY <1>2, <2>4
  <2>6. QED
    BY <2>4, <2>5
<1>11. TakesEdge(Path)
  <2>1. Follows(calls, Depth, Path)
    BY <1>1, <1>9 DEF Follows
  <2>2. Successor(Path, Depth) = root
    BY <1>5, <1>9 DEF Successor
  <2>3. QED
    BY <1>1, <2>1, <2>2 DEF TakesEdge
<1>12. QED
  BY <1>1, <1>5, <1>9, <1>10, <1>11

\* No cycle goes on by an edge that is skipped.
LEMMA SkippedTakes ==
  ASSUME SearchInv, Skip, NEW c \in cycles
  PROVE  ~TakesEdge(c)
<1>1. SUFFICES ASSUME Follows(calls, Depth, c), Successor(c, Depth) = NextVertex
               PROVE  FALSE
  BY DEF TakesEdge
<1>2. /\ calls # <<>> /\ ~(NextVertex = root /\ Depth >= 2) /\ Skipped(NextVertex)
      /\ Typed /\ Depth \in Nat \ {0} /\ root \in Int /\ NextVertex \in Int
  BY SearchFacts, TopCall DEF Skip
<1>3. /\ Len(c) \in 2..MaxLength /\ MaxLength \in Nat /\ Depth \in 1..Len(c)
      /\ Depth < Len(c) => /\ Successor(c, Depth) = c[Depth + 1]
                           /\ Successor(c, Depth) > root
      /\ Depth = Len(c) => Successor(c, Depth) = root
  BY <1>1, <1>2, CycleOf, FollowsFromRoot
<1>4. Depth < Len(c)
  BY <1>1, <1>2, <1>3
<1>5. NextVertex = c[Depth + 1] /\ NextVertex > root
  BY <1>1, <1>3, <1>4
<1>6. CASE NextVertex \in blocked
  BY <1>1, <1>2, <1>4, <1>5, <1>6, NoCycleThroughBlocked
<1>7. CASE Bounded /\ Depth >= bound
  <2>1. MaxLength = bound
    BY <1>7 DEF Bounded, MaxLength
  <2>2. QED
    BY <1>2, <1>3, <1>4, <1>7, <2>1
<1>8. CASE NextVertex <= root
  BY <1>2, <1>5, <1>8
<1>9. QED
  BY <1>2, <1>6, <1>7, <1>8 DEF Skipped

\* The cycles that take the edge of a call are those that follow the longer
\* path.
LEMMA CallTakes ==
  ASSUME SearchInv, Call, NEW c \in cycles
  PROVE  TakesEdge(c) <=> Follows(calls', Depth + 1, c)
<1>1. /\ calls # <<>> /\ Depth \in Nat \ {0} /\ NextVertex > root /\ Typed
      /\ root \in Int /\ NextVertex \in Int /\ Len(c) \in Nat
  BY SearchFacts, TopCall, CalledVertex, VertexType, CycleOf DEF Call
<1>2. /\ \A i \in 1..Depth : calls'[i].vertex = calls[i].vertex
      /\ calls'[Depth + 1].vertex = NextVertex
  BY <1>1, CallStep
<1>3. ASSUME TakesEdge(c)
      PROVE  Follows(calls', Depth + 1, c)
  <2>1. Follows(calls, Depth, c) /\ Successor(c, Depth) = NextVertex
    BY <1>3 DEF TakesEdge
  <2>2. /\ Depth \in 1..Len(c)
        /\ Depth < Len(c) => Successor(c, Depth) = c[Depth + 1]
        /\ Depth = Len(c) => Successor(c, Depth) = root
        /\ \A i \in 1..Depth : c[i] = calls[i].vertex
    BY <1>1, <2>1, FollowsFromRoot
  <2>3. Depth < Len(c)
    BY <1>1, <2>1, <2>2
  <2>4. Depth + 1 <= Len(c) /\ c[Depth + 1] = NextVertex
    BY <1>1, <2>1, <2>2, <2>3
  <2>5. \A i \in 1..(Depth + 1) : i \in 1..Depth \/ i = Depth + 1
    BY <1>1
  <2>6. QED
    BY <1>2, <2>2, <2>4, <2>5 DEF Follows
<1>4. ASSUME Follows(calls', Depth + 1, c)
      PROVE  TakesEdge(c)
  <2>1. /\ Depth + 1 <= Len(c)
        /\ \A i \in 1..(Depth + 1) : c[i] = calls'[i].vertex
    BY <1>4 DEF Follows
  <2>2. Depth <= Len(c) /\ Depth # Len(c) /\ Depth + 1 \in 1..(Depth + 1)
        /\ \A i \in 1..Depth : i \in 1..(Depth + 1)
    BY <1>1, <2>1
  <2>3. Follows(calls, Depth, c)
    BY <1>2, <2>1, <2>2 DEF Follows
  <2>4. Successor(c, Depth) = NextVertex
    BY <1>2, <2>1, <2>2 DEF Successor
  <2>5. QED
    BY <2>3, <2>4 DEF TakesEdge
<1>5. QED
  BY <1>3, <1>4

\* A cycle that takes the edge looked at is still ahead.
LEMMA TakenIsAhead ==
  ASSUME SearchInv, calls # <<>>, ~Exhausted, NEW c \in cycles, TakesEdge(c)
  PROVE  Pending(graph, calls, 1, Depth, c)
<1>1. /\ Typed /\ Depth \in 1..Depth /\ Running.offset \in 1..Len(Edges)
      /\ Len(Edges) \in Nat /\ Edges = graph[calls[Depth].vertex] /\ Running = calls[Depth]
  BY SearchFacts, TopCall DEF Running
<1>2. Running.offset \in Running.offset..Len(Edges)
  BY <1>1
<1>3. graph[calls[Depth].vertex][Running.offset] = Successor(c, Depth)
  BY <1>1 DEF TakesEdge, NextVertex
<1>4. QED
  BY <1>1, <1>2, <1>3 DEF Pending, TakesEdge

\* Looking at an edge leaves ahead the cycles but those that take it.
LEMMA EdgeConsumed ==
  ASSUME SearchInv, Close \/ Skip \/ Call, NEW c \in cycles
  PROVE  Pending(graph, calls', 1, Depth, c)
           <=> Pending(graph, calls, 1, Depth, c) /\ ~TakesEdge(c)
<1>1. /\ Typed /\ calls # <<>> /\ ~Exhausted
      /\ \A i \in 1..Depth : calls'[i].vertex = calls[i].vertex
      /\ \A i \in 1..(Depth - 1) : calls'[i] = calls[i]
      /\ calls'[Depth].offset = calls[Depth].offset + 1
  <2>1. Typed
    BY SearchFacts
  <2>2. CASE Close \/ Skip
    BY <2>1, <2>2, EdgeStep
  <2>3. CASE Call
    BY <2>1, <2>3, CallStep
  <2>4. QED
    BY <2>1, <2>2, <2>3
<1>2. /\ Depth \in Nat /\ 1 <= Depth /\ Len(Edges) \in Nat
      /\ Running.offset \in 1..Len(Edges)
      /\ Edges = graph[calls[Depth].vertex] /\ Running = calls[Depth]
  BY <1>1, TopCall DEF Running
<1>3. /\ calls[Depth].offset <= Len(graph[calls[Depth].vertex])
      /\ NextVertex = graph[calls[Depth].vertex][calls[Depth].offset]
  BY <1>2 DEF NextVertex
<1>4. /\ V \in SUBSET Int /\ graph \in Adjacencies(V) /\ MaxLength \in Nat
      /\ c \in Cycles(graph, MaxLength) /\ IsSearch(V, graph, calls, 1, Depth)
      /\ 1 \in Nat \ {0}
  BY SearchFacts
<1>5. \A i \in 1..(Depth - 1) : calls'[i].offset = calls[i].offset
  BY <1>1
<1>6. Pending(graph, calls', 1, Depth, c)
        <=> /\ Pending(graph, calls, 1, Depth, c)
            /\ ~ /\ Follows(calls, Depth, c)
                 /\ Successor(c, Depth) = graph[calls[Depth].vertex][calls[Depth].offset]
  BY <1>1, <1>2, <1>3, <1>4, <1>5, PendingConsume
<1>7. QED
  BY <1>3, <1>6 DEF TakesEdge

\* What the steps leave ahead: the path that is closed is counted and no cycle
\* else changes sides.
LEMMA AheadStep ==
  ASSUME SearchInv, CountInv, [Next]_vars, NEW c \in cycles
  PROVE  Ahead(c)' <=> Ahead(c) /\ ~(Close /\ c = Path)
<1>1. /\ Typed /\ graph' = graph /\ Depth \in Nat /\ root \in Int
      /\ Len(c) \in Nat /\ 1 \in 1..Len(c) /\ c[1] \in Int /\ V \in SUBSET Int
      /\ graph \in Adjacencies(V) /\ MaxLength \in Nat /\ c \in Cycles(graph, MaxLength)
  BY SearchFacts, CycleOf, InputUnchanged
<1>2. Ahead(c)' <=> c[1] > root' \/ (c[1] = root' /\ Pending(graph, calls', 1, Depth', c))
  BY <1>1 DEF Ahead
<1>3. CASE Close \/ Skip
  <2>1. Depth' = Depth /\ root' = root /\ calls # <<>>
    BY <1>1, <1>3, EdgeStep DEF Close, Skip
  <2>2. Pending(graph, calls', 1, Depth, c) <=> Pending(graph, calls, 1, Depth, c) /\ ~TakesEdge(c)
    BY <1>3, EdgeConsumed
  <2>3. TakesEdge(c) <=> Close /\ c = Path
    <3>1. Close => (TakesEdge(c) <=> c = Path)
      BY ClosingTakes
    <3>2. Skip => ~TakesEdge(c) /\ ~Close
      BY SkippedTakes DEF Skip, Close
    <3>3. QED
      BY <1>3, <3>1, <3>2
  <2>4. TakesEdge(c) => c[1] = root
    BY <2>1, FollowsFromRoot DEF TakesEdge
  <2>5. QED
    BY <1>1, <1>2, <2>1, <2>2, <2>3, <2>4 DEF Ahead
<1>4. CASE Call
  <2>1. /\ Depth' = Depth + 1 /\ root' = root /\ calls # <<>> /\ ~Exhausted /\ ~Close
        /\ calls'[Depth + 1].offset = 1
    BY <1>1, <1>4, CallStep DEF Call, Close
  <2>2. Pending(graph, calls', 1, Depth, c) <=> Pending(graph, calls, 1, Depth, c) /\ ~TakesEdge(c)
    BY <1>4, EdgeConsumed
  <2>3. Pending(graph, calls', 1, Depth + 1, c)
          <=> Pending(graph, calls', 1, Depth, c) \/ Follows(calls', Depth + 1, c)
    <3>1. 1 \in Nat \ {0} /\ 1 <= Depth + 1 /\ \A i \in 1..Depth : calls'[i] = calls'[i]
      BY <1>1
    <3>2. QED
      BY <1>1, <2>1, <3>1, PendingPush
  <2>4. TakesEdge(c) <=> Follows(calls', Depth + 1, c)
    BY <1>4, CallTakes
  <2>5. TakesEdge(c) => Pending(graph, calls, 1, Depth, c)
    BY <2>1, TakenIsAhead
  <2>6. Pending(graph, calls', 1, Depth', c) <=> Pending(graph, calls, 1, Depth, c)
    BY <2>1, <2>2, <2>3, <2>4, <2>5
  <2>7. QED
    BY <1>2, <2>1, <2>6 DEF Ahead
<1>5. CASE Return
  <2>1. /\ Depth' = Depth - 1 /\ root' = root /\ calls # <<>> /\ Exhausted /\ ~Close
        /\ \A i \in 1..(Depth - 1) : /\ calls'[i].vertex = calls[i].vertex
                                     /\ calls'[i].offset = calls[i].offset
    BY <1>1, <1>5, ReturnStep DEF Return, Close
  <2>2. /\ Depth \in Nat \ {0} /\ Running.offset \in Nat \ {0} /\ Len(Edges) \in Nat
        /\ Edges = graph[calls[Depth].vertex] /\ Running = calls[Depth]
    BY <1>1, <2>1, TopCall DEF Running
  <2>3. /\ calls[Depth].offset \in Nat /\ Len(graph[calls[Depth].vertex]) \in Nat
        /\ calls[Depth].offset > Len(graph[calls[Depth].vertex])
    BY <2>1, <2>2 DEF Exhausted
  <2>4. Pending(graph, calls', 1, Depth - 1, c) <=> Pending(graph, calls, 1, Depth, c)
    <3>1. 1 \in Nat \ {0}
      OBVIOUS
    <3>2. QED
      BY <1>1, <2>1, <2>2, <2>3, <3>1, PendingPop
  <2>5. QED
    BY <1>2, <2>1, <2>4 DEF Ahead
<1>6. CASE NextRoot
  <2>1. /\ Depth = 0 /\ Depth' = 1 /\ root' = root + 1 /\ ~Close
        /\ calls'[1].vertex = root + 1 /\ calls'[1].offset = 1
    BY <1>1, <1>6, NextRootStep DEF NextRoot, Close
  <2>2. ~Pending(graph, calls, 1, Depth, c)
    BY <2>1 DEF Pending
  <2>3. c[1] = root + 1 => Pending(graph, calls', 1, 1, c)
    <3>1. SUFFICES ASSUME c[1] = root + 1
                   PROVE  Pending(graph, calls', 1, 1, c)
      OBVIOUS
    <3>2. Follows(calls', 1, c)
      BY <1>1, <2>1, <3>1 DEF Follows
    <3>3. \E j \in calls'[1].offset..Len(graph[calls'[1].vertex]) :
             graph[calls'[1].vertex][j] = Successor(c, 1)
      <4>1. 1 \in Nat \ {0}
        OBVIOUS
      <4>2. QED
        BY <1>1, <2>1, <3>2, <4>1, PendingFresh
    <3>4. QED
      BY <3>2, <3>3 DEF Pending
  <2>4. QED
    BY <1>1, <1>2, <2>1, <2>2, <2>3 DEF Ahead
<1>7. CASE Report \/ UNCHANGED vars
  <2>1. calls' = calls /\ root' = root
    BY <1>7 DEF Report, vars
  <2>2. Depth' = Depth
    BY <2>1 DEF Depth
  <2>3. ASSUME Close
        PROVE  FALSE
    <3>1. calls # <<>> /\ calls'[Depth].offset = calls[Depth].offset + 1
      BY <1>1, <2>3, EdgeStep
    <3>2. calls[Depth].offset \in Nat
      BY <1>1, <3>1, TopCall DEF Running
    <3>3. QED
      BY <2>1, <3>1, <3>2
  <2>4. QED
    BY <1>1, <1>2, <2>1, <2>2, <2>3 DEF Ahead
<1>8. QED
  BY <1>3, <1>4, <1>5, <1>6, <1>7 DEF Next, Returned

-----------------------------------------------------------------------------
(***************************************************************************)
(* Every cycle is counted once.                                            *)
(***************************************************************************)
LEMMA CountInit == Init => CountInv
<1> SUFFICES ASSUME Init
             PROVE  CountInv
  OBVIOUS
<1>1. /\ SearchInv /\ counted = {} /\ root = -1 /\ result = NoResult
      /\ histogram = [len \in Lengths |-> 0]
  BY SearchInit DEF Init
<1>2. IsFiniteSet(counted) /\ histogram = HistogramOf(counted, N)
  <2>1. \A len \in Lengths : Cardinality(OfLength({}, len)) = 0
    BY FS_EmptySet DEF OfLength
  <2>2. IsFiniteSet({})
    BY FS_EmptySet
  <2>3. QED
    BY <1>1, <2>1, <2>2 DEF HistogramOf, Lengths
<1>3. \A c \in cycles : Ahead(c)
  <2>1. \A c \in cycles : c[1] \in V
    BY <1>1, CycleOf
  <2>2. QED
    BY <1>1, <2>1 DEF Ahead, V
<1>4. QED
  BY <1>1, <1>2, <1>3 DEF CountInv

\* The step that closes a path counts it, for the first time.
LEMMA CloseCounts ==
  ASSUME SearchInv, CountInv, Close
  PROVE  /\ Path \in cycles \ counted /\ counted' = counted \cup {Path}
         /\ IsFiniteSet(counted') /\ histogram' = HistogramOf(counted', N)
<1>1. /\ Path \in cycles /\ Len(Path) = Depth /\ TakesEdge(Path) /\ Path[1] = root
      /\ counted' = counted \cup {Path} /\ IsFiniteSet(counted)
      /\ histogram = HistogramOf(counted, N)
  BY ClosingTakes DEF CountInv, Close
<1>2. Path \notin counted
  BY <1>1, TakenIsAhead DEF CountInv, Close, Ahead
<1>3. IsFiniteSet(counted')
  BY <1>1, FS_AddElement
<1>4. histogram' = [histogram EXCEPT ![Depth] = histogram[Depth] + 1]
  BY DEF Close
<1>5. ASSUME NEW len \in 2..N
      PROVE  histogram'[len] = Cardinality(OfLength(counted', len))
  <2>1. histogram[len] = Cardinality(OfLength(counted, len)) /\ len \in DOMAIN histogram
    BY <1>1 DEF HistogramOf
  <2>2. histogram'[len] = IF len = Depth THEN histogram[len] + 1 ELSE histogram[len]
    BY <1>4, <2>1
  <2>3. Cardinality(OfLength(counted', len))
          = IF Len(Path) = len THEN Cardinality(OfLength(counted, len)) + 1
                               ELSE Cardinality(OfLength(counted, len))
    BY <1>1, <1>2, OfLengthAdd
  <2>4. QED
    BY <1>1, <2>1, <2>2, <2>3
<1>6. histogram' = HistogramOf(counted', N)
  <2>1. histogram' = [len \in 2..N |-> histogram'[len]]
    BY <1>1, <1>4 DEF HistogramOf
  <2>2. QED
    BY <1>5, <2>1 DEF HistogramOf
<1>7. QED
  BY <1>1, <1>2, <1>3, <1>6

LEMMA CountStep == SearchInv /\ CountInv /\ [Next]_vars => CountInv'
<1> SUFFICES ASSUME SearchInv, CountInv, [Next]_vars
             PROVE  CountInv'
  OBVIOUS
<1>1. cycles' = cycles
  BY InputUnchanged
<1>2. /\ counted' \subseteq cycles /\ IsFiniteSet(counted')
      /\ histogram' = HistogramOf(counted', N)
      /\ \A c \in cycles : c \in counted' <=> c \in counted \/ (Close /\ c = Path)
  <2>1. CASE Close
    BY <2>1, CloseCounts DEF CountInv
  <2>2. CASE ~Close
    <3>1. counted' = counted /\ histogram' = histogram
      BY <2>2 DEF Next, NextRoot, Report, Skip, Call, Return, Returned, vars
    <3>2. QED
      BY <2>2, <3>1 DEF CountInv
  <2>3. QED
    BY <2>1, <2>2
<1>3. \A c \in cycles : c \in counted' <=> ~Ahead(c)'
  <2>1. \A c \in cycles : Ahead(c)' <=> Ahead(c) /\ ~(Close /\ c = Path)
    BY AheadStep
  <2>2. \A c \in cycles : c \in counted <=> ~Ahead(c)
    BY DEF CountInv
  <2>3. QED
    BY <1>2, <2>1, <2>2
<1>4. result' # NoResult => calls' = <<>> /\ root' + 1 = N
  <2>1. result # NoResult => calls = <<>> /\ root + 1 = N
    BY DEF CountInv
  <2>2. CASE Report \/ UNCHANGED vars
    BY <2>1, <2>2 DEF Report, vars
  <2>3. CASE NextRoot \/ Close \/ Skip \/ Call \/ Return
    <3>1. result' = result /\ (calls # <<>> \/ root + 1 < N)
      BY <2>3 DEF NextRoot, Close, Skip, Call, Return
    <3>2. root \in Int /\ N \in Nat
      BY SearchFacts
    <3>3. QED
      BY <2>1, <3>1, <3>2
  <2>4. QED
    BY <2>2, <2>3 DEF Next, Returned
<1>5. QED
  BY <1>1, <1>2, <1>3, <1>4 DEF CountInv

LEMMA CountAlways == Spec => [](SearchInv /\ CountInv)
BY SearchInit, SearchStep, CountInit, CountStep, PTL DEF Spec

\* When run() has been through the last root every cycle is counted.
LEMMA AllCountedAtTheEnd ==
  ASSUME SearchInv, CountInv, calls = <<>>, root + 1 = N
  PROVE  counted = cycles
<1>1. Depth = 0 /\ root = N - 1
  BY SearchFacts DEF Depth
<1>2. \A c \in cycles : c[1] \in V
  BY CycleOf
<1>3. \A c \in cycles : ~Ahead(c)
  BY <1>1, <1>2 DEF Ahead, Pending, V
<1>4. QED
  BY <1>3 DEF CountInv

\* run() implements CycleCounting: each simple cycle within the bound is counted
\* once, and the histogram returned is theirs.
THEOREM JohnsonImplementsCounting == Spec => JohnsonCounts
<1>1. Init => Abstract!Init
  BY DEF Init, Abstract!Init
<1>2. SearchInv /\ CountInv /\ [Next]_vars => [Abstract!Next]_(Abstract!vars)
  <2> SUFFICES ASSUME SearchInv, CountInv, [Next]_vars
               PROVE  Abstract!Next \/ UNCHANGED Abstract!vars
    OBVIOUS
  <2>1. CASE Close
    <3>1. Path \in cycles \ counted /\ counted' = counted \cup {Path}
      BY <2>1, CloseCounts
    <3>2. result = NoResult /\ result' = result /\ cycles' = cycles
      BY <2>1, InputUnchanged DEF Close, CountInv
    <3>3. Abstract!Count
      BY <3>1, <3>2 DEF Abstract!Count
    <3>4. QED
      BY <3>3 DEF Abstract!Next
  <2>2. CASE Report
    <3>1. counted = cycles
      BY <2>2, AllCountedAtTheEnd DEF Report
    <3>2. /\ result = NoResult /\ result' = HistogramOf(counted, N)
          /\ counted' = counted /\ cycles' = cycles
      BY <2>2, InputUnchanged DEF Report, CountInv
    <3>3. Abstract!Report
      BY <3>1, <3>2 DEF Abstract!Report
    <3>4. QED
      BY <3>3 DEF Abstract!Next
  <2>3. CASE ~Close /\ ~Report
    <3>1. counted' = counted /\ result' = result /\ cycles' = cycles
      BY <2>3, InputUnchanged DEF Next, NextRoot, Skip, Call, Return, Returned, vars
    <3>2. QED
      BY <3>1 DEF Abstract!vars
  <2>4. QED
    BY <2>1, <2>2, <2>3
<1>3. QED
  BY <1>1, <1>2, CountAlways, PTL DEF Spec, JohnsonCounts, Abstract!Spec
=============================================================================
