------------------------ MODULE CudaWorkQueueProofs ------------------------
(***************************************************************************)
(* What holds of the work-queue kernel for every graph, grid and length    *)
(* bound.                                                                  *)
(***************************************************************************)
EXTENDS CudaWorkQueue, FiniteSetTheorems, SequenceTheorems, TLAPS

USE SizeAssumption, GraphAssumption

-----------------------------------------------------------------------------
(***************************************************************************)
(* The layout of the grid and of the stack pool.                           *)
(***************************************************************************)
LEMMA GridType == GridBlocks \in Nat
BY DEF GridBlocks

\* A product grows with its first factor by a whole second factor.
LEMMA MulStep ==
  ASSUME NEW a \in Nat, NEW b \in Nat, NEW m \in Nat, a < b
  PROVE  a * m + m <= b * m
<1>1. b - a - 1 \in Nat
  OBVIOUS
<1>2. (b - a - 1) * m >= 0
  BY <1>1
<1>3. QED
  BY <1>2

LEMMA MulNat == \A a, b \in Nat : a * b \in Nat
OBVIOUS

\* A thread belongs to a block of the grid.
LEMMA BlockOfType == \A t \in Threads : BlockOf(t) \in Blocks
<1>1. ASSUME NEW t \in Threads
      PROVE  BlockOf(t) \in Blocks
  <2>1. GridBlocks \in Nat /\ GridBlocks * BlockSize \in Nat /\ t \in Nat
        /\ t < GridBlocks * BlockSize
    BY GridType, MulNat DEF Threads
  <2>2. /\ t \div BlockSize \in Nat
        /\ (t \div BlockSize) * BlockSize <= t
    BY <2>1
  <2>3. t \div BlockSize < GridBlocks
    <3>1. SUFFICES ASSUME GridBlocks <= t \div BlockSize PROVE FALSE
      BY <2>1, <2>2
    <3>2. GridBlocks * BlockSize <= (t \div BlockSize) * BlockSize
      <4>1. CASE GridBlocks = t \div BlockSize
        BY <4>1, <2>1
      <4>2. CASE GridBlocks < t \div BlockSize
        BY <4>2, <2>1, <2>2, MulStep
      <4>3. QED
        BY <3>1, <4>1, <4>2, <2>1, <2>2
    <3>3. QED
      BY <3>2, <2>1, <2>2, MulNat
  <2>4. QED
    BY <2>1, <2>2, <2>3 DEF BlockOf, Blocks
<1>2. QED
  BY <1>1

\* Every slot a thread may use lies in the pool, and no slot has two uses.
LEMMA SlotInPool ==
  ASSUME NEW t \in Threads, NEW d \in 1..MaxCycleLength
  PROVE  Slot(t, d) \in Pool
<1>1. GridBlocks * BlockSize \in Nat /\ t \in Nat /\ t < GridBlocks * BlockSize
  BY GridType, MulNat DEF Threads
<1>2. t * MaxCycleLength + MaxCycleLength
        <= (GridBlocks * BlockSize) * MaxCycleLength
  BY <1>1, MulStep
<1>3. t * MaxCycleLength \in Nat /\ (GridBlocks * BlockSize) * MaxCycleLength \in Nat
  BY <1>1, MulNat
<1>4. QED
  BY <1>2, <1>3 DEF Slot, StackBase, Pool

LEMMA SlotInjective ==
  ASSUME NEW t \in Threads, NEW u \in Threads,
         NEW d \in 1..MaxCycleLength, NEW e \in 1..MaxCycleLength,
         Slot(t, d) = Slot(u, e)
  PROVE  t = u /\ d = e
<1>1. GridBlocks * BlockSize \in Nat /\ t \in Nat /\ u \in Nat
  BY GridType, MulNat DEF Threads
<1>2. t * MaxCycleLength \in Nat /\ u * MaxCycleLength \in Nat
  BY <1>1, MulNat
<1>3. CASE t < u
  BY <1>1, <1>2, <1>3, MulStep DEF Slot, StackBase
<1>4. CASE u < t
  BY <1>1, <1>2, <1>4, MulStep DEF Slot, StackBase
<1>5. CASE t = u
  BY <1>1, <1>2, <1>5 DEF Slot, StackBase
<1>6. QED
  BY <1>1, <1>3, <1>4, <1>5

-----------------------------------------------------------------------------
(***************************************************************************)
(* The adjacency a search walks.                                           *)
(***************************************************************************)
LEMMA AdjacencyType ==
  ASSUME TypeOK, NEW v \in V
  PROVE  /\ Len(graph[v]) \in Nat
         /\ \A i \in 1..Len(graph[v]) : graph[v][i] \in V
         /\ \A i, j \in 1..Len(graph[v]) : i # j => graph[v][i] # graph[v][j]
<1>1. graph \in Adjacencies(V)
  BY DEF TypeOK
<1>2. graph \in [V -> Seq(V)]
  BY <1>1 DEF Adjacencies
<1>3. graph[v] \in Seq(V)
  BY <1>2
<1>4. \A i, j \in 1..Len(graph[v]) : i < j => graph[v][i] < graph[v][j]
  BY <1>1 DEF Adjacencies
<1>5. Len(graph[v]) \in Nat /\ \A i \in 1..Len(graph[v]) : graph[v][i] \in V
  BY <1>3
<1>6. ASSUME NEW i \in 1..Len(graph[v]), NEW j \in 1..Len(graph[v]), i # j
      PROVE  graph[v][i] # graph[v][j]
  <2>1. graph[v][i] \in Int /\ graph[v][j] \in Int
    BY <1>5 DEF V
  <2>2. i < j \/ j < i
    BY <1>5, <1>6
  <2>3. QED
    BY <1>4, <2>1, <2>2
<1>7. QED
  BY <1>5, <1>6

\* The top frame of a searching thread and the edge it looks at.
LEMMA TopFrame ==
  ASSUME TypeOK, StackOK, NEW t \in Searching
  PROVE  /\ t \in Threads
         /\ depth[t] \in 1..MaxCycleLength
         /\ Slot(t, depth[t]) \in Pool
         /\ VertexAt(t, depth[t]) \in V
         /\ Cursor(t) = CursorAt(t, depth[t])
         /\ Adjacent(t) = graph[VertexAt(t, depth[t])]
         /\ Cursor(t) \in Nat \ {0}
         /\ Len(Adjacent(t)) \in Nat
         /\ ~Exhausted(t) => /\ Cursor(t) \in 1..Len(Adjacent(t))
                             /\ NextVertex(t) \in V
         /\ Exhausted(t) => Cursor(t) = Len(Adjacent(t)) + 1
<1>1. t \in Threads /\ depth[t] \in 1..MaxCycleLength
  BY DEF Searching, StackOK, PathOnStack, TypeOK
<1>2. Slot(t, depth[t]) \in Pool
  BY <1>1, SlotInPool
<1>3. /\ VertexAt(t, depth[t]) \in V
      /\ CursorAt(t, depth[t]) \in 1..(Len(graph[VertexAt(t, depth[t])]) + 1)
  BY <1>1 DEF StackOK, PathOnStack
<1>4. Cursor(t) = CursorAt(t, depth[t]) /\ Adjacent(t) = graph[VertexAt(t, depth[t])]
  BY DEF Cursor, CursorAt, Adjacent, VertexAt
<1>5. /\ Len(Adjacent(t)) \in Nat
      /\ \A i \in 1..Len(Adjacent(t)) : Adjacent(t)[i] \in V
  BY <1>3, <1>4, AdjacencyType
<1>6. QED
  BY <1>1, <1>2, <1>3, <1>4, <1>5 DEF Exhausted, NextVertex

-----------------------------------------------------------------------------
(***************************************************************************)
(* What each action that writes the pool does to the frames of all threads.*)
(***************************************************************************)
LEMMA ClaimRootFrames ==
  ASSUME TypeOK, NEW t \in Threads, ClaimRoot(t),
         NEW u \in Threads, NEW e \in 1..MaxCycleLength
  PROVE  /\ VertexAt(u, e)' = IF u = t /\ e = 1 THEN counter ELSE VertexAt(u, e)
         /\ CursorAt(u, e)' = IF u = t /\ e = 1 THEN 1 ELSE CursorAt(u, e)
<1>1. Slot(t, 1) \in Pool /\ Slot(u, e) \in Pool
  BY SlotInPool
<1>2. Slot(t, 1) = Slot(u, e) <=> u = t /\ e = 1
  BY SlotInjective
<1>3. QED
  BY <1>1, <1>2 DEF TypeOK, ClaimRoot, VertexAt, CursorAt

LEMMA AdvanceFrames ==
  ASSUME TypeOK, StackOK, NEW t \in Searching, Advance(t), paths' = paths,
         NEW u \in Threads, NEW e \in 1..MaxCycleLength
  PROVE  /\ VertexAt(u, e)' = VertexAt(u, e)
         /\ CursorAt(u, e)' = IF u = t /\ e = depth[t] THEN CursorAt(t, e) + 1
                                                       ELSE CursorAt(u, e)
<1>1. Slot(t, depth[t]) \in Pool /\ Slot(u, e) \in Pool
  BY SlotInPool, TopFrame
<1>2. Slot(t, depth[t]) = Slot(u, e) <=> u = t /\ e = depth[t]
  BY SlotInjective, TopFrame
<1>3. QED
  BY <1>1, <1>2 DEF TypeOK, Advance, VertexAt, CursorAt

LEMMA PushFrames ==
  ASSUME TypeOK, StackOK, NEW t \in Threads, Push(t),
         NEW u \in Threads, NEW e \in 1..MaxCycleLength
  PROVE  /\ VertexAt(u, e)' = IF u = t /\ e = depth[t] + 1 THEN NextVertex(t)
                                                           ELSE VertexAt(u, e)
         /\ CursorAt(u, e)' = IF u = t /\ e = depth[t] + 1 THEN 1
                              ELSE IF u = t /\ e = depth[t] THEN CursorAt(t, e) + 1
                              ELSE CursorAt(u, e)
<1>1. t \in Searching
  BY DEF Push, Searching
<1>2. depth[t] + 1 \in 1..MaxCycleLength
  BY <1>1, TopFrame DEF Push, Pruned
<1>3. Slot(t, depth[t]) \in Pool /\ Slot(t, depth[t] + 1) \in Pool /\ Slot(u, e) \in Pool
  BY <1>1, <1>2, SlotInPool, TopFrame
<1>4. Slot(t, depth[t]) = Slot(u, e) <=> u = t /\ e = depth[t]
  BY <1>1, SlotInjective, TopFrame
<1>5. Slot(t, depth[t] + 1) = Slot(u, e) <=> u = t /\ e = depth[t] + 1
  BY <1>2, SlotInjective
<1>6. Slot(t, depth[t]) # Slot(t, depth[t] + 1)
  BY <1>1, <1>2, SlotInjective, TopFrame
<1>7. QED
  BY <1>3, <1>4, <1>5, <1>6 DEF TypeOK, Push, VertexAt, CursorAt

-----------------------------------------------------------------------------
(***************************************************************************)
(* Types, and the shape of the stacks.                                     *)
(***************************************************************************)
LEMMA TypeInit == Init => TypeOK /\ StackOK /\ HostInStep /\ ClaimsExclusive
<1>1. ASSUME Init PROVE TypeOK
  BY <1>1 DEF Init, TypeOK, Phases
<1>2. ASSUME Init PROVE Searching = {}
  BY <1>2 DEF Init, Searching
<1>3. QED
  BY <1>1, <1>2 DEF Init, StackOK, HostInStep, ClaimsExclusive

LEMMA TypeStep == TypeOK /\ StackOK /\ [Next]_vars => TypeOK'
<1> SUFFICES ASSUME TypeOK, StackOK, [Next]_vars
             PROVE  TypeOK'
  OBVIOUS
<1> USE DEF TypeOK, Phases
<1>1. CASE ReturnEmpty
  BY <1>1 DEF ReturnEmpty, device
<1>2. CASE Launch
  BY <1>2 DEF Launch
<1>3. CASE Collect
  BY <1>3 DEF Collect, device
<1>4. ASSUME NEW t \in Threads, Clear(t) PROVE TypeOK'
  <2>1. BlockOf(t) \in Blocks
    BY BlockOfType
  <2>2. [i \in Lengths |-> IF i \in Stride(t) THEN 0 ELSE shared[BlockOf(t)][i]]
          \in [Lengths -> Nat]
    BY <2>1
  <2>3. shared' \in [Blocks -> [Lengths -> Nat]]
    BY <1>4, <2>1, <2>2 DEF Clear
  <2>4. QED
    BY <1>4, <2>3 DEF Clear
<1>5. ASSUME NEW t \in Threads, ClaimRoot(t) PROVE TypeOK'
  <2>1. Slot(t, 1) \in Pool
    BY SlotInPool
  <2>2. QED
    BY <1>5, <2>1 DEF ClaimRoot
<1>6. ASSUME NEW t \in Threads, LeaveQueue(t) PROVE TypeOK'
  BY <1>6 DEF LeaveQueue
<1>7. ASSUME NEW t \in Threads, Pop(t) PROVE TypeOK'
  <2>1. t \in Searching
    BY <1>7 DEF Pop, Searching
  <2>2. depth[t] - 1 \in 0..MaxCycleLength
    BY <2>1, TopFrame
  <2>3. QED
    BY <1>7, <2>2 DEF Pop
<1>8. ASSUME NEW t \in Threads, CountCycle(t) PROVE TypeOK'
  <2>1. t \in Searching
    BY <1>8 DEF CountCycle, Searching
  <2>2. /\ Slot(t, depth[t]) \in Pool
        /\ BlockOf(t) \in Blocks
        /\ depth[t] \in Lengths
    BY <2>1, TopFrame, BlockOfType DEF Lengths
  <2>3. cursors' \in [Pool -> Nat]
    BY <1>8, <2>2 DEF CountCycle, Advance
  <2>4. shared' \in [Blocks -> [Lengths -> Nat]]
    BY <1>8, <2>2 DEF CountCycle
  <2>5. QED
    BY <1>8, <2>3, <2>4 DEF CountCycle
<1>9. ASSUME NEW t \in Threads, SkipEdge(t) PROVE TypeOK'
  <2>1. t \in Searching
    BY <1>9 DEF SkipEdge, Searching
  <2>2. Slot(t, depth[t]) \in Pool
    BY <2>1, TopFrame
  <2>3. QED
    BY <1>9, <2>2 DEF SkipEdge, Advance
<1>10. ASSUME NEW t \in Threads, Push(t) PROVE TypeOK'
  <2>1. t \in Searching
    BY <1>10 DEF Push, Searching
  <2>2. /\ depth[t] + 1 \in 1..MaxCycleLength
        /\ NextVertex(t) \in Nat
        /\ Slot(t, depth[t]) \in Pool
    <3>1. ~(depth[t] >= MaxCycleLength)
      BY <1>10 DEF Push, Pruned
    <3>2. depth[t] \in 1..MaxCycleLength /\ Slot(t, depth[t]) \in Pool
      BY <2>1, TopFrame
    <3>3. NextVertex(t) \in Nat
      BY <1>10, <2>1, TopFrame DEF Push, V
    <3>4. QED
      BY <3>1, <3>2, <3>3
  <2>3. Slot(t, depth[t] + 1) \in Pool
    BY <2>2, SlotInPool
  <2>4. paths' \in [Pool -> Nat] /\ cursors' \in [Pool -> Nat]
    BY <1>10, <2>2, <2>3 DEF Push
  <2>5. QED
    BY <1>10, <2>2, <2>4 DEF Push
<1>11. ASSUME NEW t \in Threads, Flush(t) PROVE TypeOK'
  BY <1>11, BlockOfType DEF Flush
<1>12. ASSUME NEW b \in Blocks, Sync(b) PROVE TypeOK'
  BY <1>12 DEF Sync, ClearBarrier, FlushBarrier, Barrier
<1>13. CASE UNCHANGED vars
  BY <1>13 DEF vars, device
<1>14. QED
  BY <1>1, <1>2, <1>3, <1>4, <1>5, <1>6, <1>7, <1>8, <1>9, <1>10, <1>11,
     <1>12, <1>13 DEF Next, Host, Thread, Search, Returned

\* A thread whose frames and registers a step leaves alone keeps its path.
LEMMA PathUntouched ==
  ASSUME TypeOK, graph' = graph,
         NEW u \in Searching, PathOnStack(u), u \in Searching',
         depth'[u] = depth[u], root'[u] = root[u],
         \A e \in 1..MaxCycleLength :
            VertexAt(u, e)' = VertexAt(u, e) /\ CursorAt(u, e)' = CursorAt(u, e)
  PROVE  PathOnStack(u)'
<1>1. u \in Threads /\ depth[u] \in 0..MaxCycleLength
  BY DEF Searching, TypeOK
<1>2. \A e \in 1..depth[u] : e \in 1..MaxCycleLength
  BY <1>1
<1>3. QED
  BY <1>1, <1>2 DEF PathOnStack

LEMMA StackStep == TypeOK /\ StackOK /\ [Next]_vars => StackOK'
<1> SUFFICES ASSUME TypeOK, StackOK, [Next]_vars,
                    NEW u \in Searching'
             PROVE  PathOnStack(u)'
  BY DEF StackOK
<1>0. u \in Threads
  BY DEF Searching
<1>a. ASSUME graph' = graph, pc' = pc, depth' = depth, root' = root,
             paths' = paths, cursors' = cursors
      PROVE  PathOnStack(u)'
  BY <1>a DEF StackOK, PathOnStack, Searching, VertexAt, CursorAt
<1>b. ASSUME u \in Searching, graph' = graph, depth' = depth, root' = root,
             paths' = paths, cursors' = cursors
      PROVE  PathOnStack(u)'
  BY <1>b DEF StackOK, PathOnStack, VertexAt, CursorAt
<1>1. CASE ReturnEmpty
  BY <1>1, <1>a DEF ReturnEmpty, device
<1>2. CASE Launch
  BY <1>2, <1>0 DEF Launch, Searching
<1>3. CASE Collect
  BY <1>3, <1>a DEF Collect, device
<1>4. ASSUME NEW t \in Threads, Clear(t) \/ LeaveQueue(t) \/ Flush(t)
      PROVE  PathOnStack(u)'
  <2>1. u \in Searching
    BY <1>4, <1>0 DEF Clear, LeaveQueue, Flush, Searching, TypeOK
  <2>2. QED
    BY <1>4, <2>1, <1>b DEF Clear, LeaveQueue, Flush
<1>5. ASSUME NEW t \in Threads, ClaimRoot(t) PROVE PathOnStack(u)'
  <2>1. CASE u = t
    <3>1. depth'[t] = 1 /\ root'[t] = counter /\ graph' = graph /\ counter \in V
      BY <1>5 DEF ClaimRoot, TypeOK, V
    <3>2. VertexAt(t, 1)' = counter /\ CursorAt(t, 1)' = 1
      BY <1>5, ClaimRootFrames
    <3>3. Len(graph[counter]) \in Nat
      BY <3>1, AdjacencyType
    <3>4. QED
      BY <2>1, <3>1, <3>2, <3>3 DEF PathOnStack
  <2>2. CASE u # t
    <3>1. u \in Searching /\ depth'[u] = depth[u] /\ root'[u] = root[u] /\ graph' = graph
      BY <2>2, <1>5, <1>0 DEF ClaimRoot, TypeOK, Searching
    <3>2. \A e \in 1..MaxCycleLength :
            VertexAt(u, e)' = VertexAt(u, e) /\ CursorAt(u, e)' = CursorAt(u, e)
      BY <2>2, <1>0, <1>5, ClaimRootFrames
    <3>3. QED
      BY <3>1, <3>2, PathUntouched DEF StackOK
  <2>3. QED
    BY <2>1, <2>2
<1>6. ASSUME NEW t \in Threads, Pop(t) PROVE PathOnStack(u)'
  <2>1. /\ graph' = graph /\ root' = root /\ paths' = paths /\ cursors' = cursors
        /\ t \in Searching /\ u \in Searching
    BY <1>6, <1>0 DEF Pop, Searching, TypeOK
  <2>2. CASE u = t
    <3>1. depth[t] # 1
      BY <2>2, <1>6 DEF Pop, Searching, TypeOK
    <3>2. depth'[t] = depth[t] - 1 /\ depth[t] - 1 >= 1 /\ depth[t] \in 1..MaxCycleLength
      BY <3>1, <2>1, <1>6, TopFrame DEF Pop, TypeOK
    <3>3. \A e \in 1..MaxCycleLength :
            VertexAt(u, e)' = VertexAt(u, e) /\ CursorAt(u, e)' = CursorAt(u, e)
      BY <2>1 DEF VertexAt, CursorAt
    <3>4. PathOnStack(u)
      BY <2>1 DEF StackOK
    <3>5. \A e \in 1..(depth[t] - 1) : e \in 1..depth[t] /\ e \in 1..MaxCycleLength
      BY <3>2
    <3>6. \A e \in 1..(depth[t] - 2) : e \in 1..(depth[t] - 1) /\ e + 1 \in 1..(depth[t] - 1)
      BY <3>2
    <3>7. /\ \A i \in 1..(depth[t] - 1) :
               /\ VertexAt(u, i)' \in V
               /\ CursorAt(u, i)' \in 1..(Len(graph[VertexAt(u, i)']) + 1)
          /\ \A i \in 2..(depth[t] - 1) : root[t] < VertexAt(u, i)'
          /\ \A i, j \in 1..(depth[t] - 1) : i # j => VertexAt(u, i)' # VertexAt(u, j)'
      BY <2>2, <3>2, <3>3, <3>4, <3>5 DEF PathOnStack
    <3>8. \A i \in 1..(depth[t] - 2) :
            /\ CursorAt(u, i)' >= 2
            /\ VertexAt(u, i + 1)' = graph[VertexAt(u, i)'][CursorAt(u, i)' - 1]
      BY <2>2, <3>2, <3>3, <3>4, <3>5, <3>6 DEF PathOnStack
    <3>9. VertexAt(u, 1)' = root[t]
      BY <2>2, <3>2, <3>3, <3>4 DEF PathOnStack
    <3>10. QED
      BY <2>1, <2>2, <3>2, <3>7, <3>8, <3>9 DEF PathOnStack
  <2>3. CASE u # t
    <3>1. depth'[u] = depth[u]
      BY <2>3, <1>0, <1>6 DEF Pop, TypeOK
    <3>2. QED
      BY <2>1, <3>1, PathUntouched DEF StackOK, VertexAt, CursorAt
  <2>4. QED
    BY <2>2, <2>3
<1>7. ASSUME NEW t \in Threads, CountCycle(t) \/ SkipEdge(t)
      PROVE  PathOnStack(u)'
  <2>1. /\ graph' = graph /\ root' = root /\ paths' = paths /\ depth' = depth
        /\ t \in Searching /\ u \in Searching /\ Advance(t) /\ ~Exhausted(t)
    BY <1>7, <1>0 DEF CountCycle, SkipEdge, Searching, TypeOK
  <2>2. \A e \in 1..MaxCycleLength :
          /\ VertexAt(u, e)' = VertexAt(u, e)
          /\ CursorAt(u, e)' = IF u = t /\ e = depth[t] THEN CursorAt(t, e) + 1
                                                        ELSE CursorAt(u, e)
    BY <2>1, <1>0, AdvanceFrames
  <2>3. CASE u = t
    <3>1. /\ depth[t] \in 1..MaxCycleLength
          /\ CursorAt(t, depth[t]) \in 1..Len(graph[VertexAt(t, depth[t])])
      BY <2>1, TopFrame
    <3>2. PathOnStack(u)
      BY <2>1 DEF StackOK
    <3>3. /\ \A e \in 1..depth[t] : e \in 1..MaxCycleLength
          /\ \A e \in 1..(depth[t] - 1) : e + 1 \in 1..depth[t] /\ e # depth[t]
      BY <3>1
    <3>4. \A i \in 1..depth[t] :
            /\ VertexAt(t, i)' = VertexAt(t, i)
            /\ CursorAt(t, i)' = IF i = depth[t] THEN CursorAt(t, i) + 1 ELSE CursorAt(t, i)
      BY <2>2, <2>3, <3>3
    <3>5. ASSUME NEW i \in 1..depth[t]
          PROVE  CursorAt(t, i)' \in 1..(Len(graph[VertexAt(t, i)']) + 1)
      <4>1. /\ CursorAt(t, i) \in 1..(Len(graph[VertexAt(t, i)]) + 1)
            /\ Len(graph[VertexAt(t, i)]) \in Nat
        BY <2>3, <3>2, AdjacencyType DEF PathOnStack
      <4>2. CASE i = depth[t]
        BY <4>1, <4>2, <3>1, <3>4
      <4>3. CASE i # depth[t]
        BY <4>1, <4>3, <3>4
      <4>4. QED
        BY <4>2, <4>3
    <3>6. ASSUME NEW i \in 1..(depth[t] - 1)
          PROVE  /\ CursorAt(t, i)' >= 2
                 /\ VertexAt(t, i + 1)' = graph[VertexAt(t, i)'][CursorAt(t, i)' - 1]
      <4>1. i \in 1..depth[t] /\ i + 1 \in 1..depth[t] /\ i # depth[t]
        BY <3>1, <3>3
      <4>2. /\ VertexAt(t, i)' = VertexAt(t, i)
            /\ VertexAt(t, i + 1)' = VertexAt(t, i + 1)
            /\ CursorAt(t, i)' = CursorAt(t, i)
        BY <4>1, <3>4
      <4>3. QED
        BY <4>1, <4>2, <2>3, <3>2 DEF PathOnStack
    <3>7. /\ depth[t] >= 1
          /\ VertexAt(t, 1)' = root[t]
          /\ \A i \in 1..depth[t] : VertexAt(t, i)' \in V
          /\ \A i \in 2..depth[t] : root[t] < VertexAt(t, i)'
          /\ \A i, j \in 1..depth[t] : i # j => VertexAt(t, i)' # VertexAt(t, j)'
      <4>1. 1 \in 1..depth[t] /\ \A i \in 2..depth[t] : i \in 1..depth[t]
        BY <3>1
      <4>2. QED
        BY <2>3, <3>1, <3>2, <3>4, <4>1 DEF PathOnStack
    <3>8. QED
      BY <2>1, <2>3, <3>5, <3>6, <3>7 DEF PathOnStack
  <2>4. CASE u # t
    BY <2>1, <2>2, <2>4, PathUntouched DEF StackOK
  <2>5. QED
    BY <2>3, <2>4
<1>8. ASSUME NEW t \in Threads, Push(t) PROVE PathOnStack(u)'
  <2>1. /\ graph' = graph /\ root' = root
        /\ t \in Searching /\ u \in Searching /\ ~Exhausted(t) /\ ~Pruned(t, NextVertex(t))
    BY <1>8, <1>0 DEF Push, Searching, TypeOK
  <2>2. \A e \in 1..MaxCycleLength :
          /\ VertexAt(u, e)' = IF u = t /\ e = depth[t] + 1 THEN NextVertex(t)
                                                            ELSE VertexAt(u, e)
          /\ CursorAt(u, e)' = IF u = t /\ e = depth[t] + 1 THEN 1
                               ELSE IF u = t /\ e = depth[t] THEN CursorAt(t, e) + 1
                               ELSE CursorAt(u, e)
    BY <1>8, <1>0, PushFrames
  <2>3. CASE u = t
    <3> DEFINE d == depth[t]
               x == NextVertex(t)
    <3>1. /\ d \in 1..MaxCycleLength /\ d + 1 \in 1..MaxCycleLength
          /\ depth'[t] = d + 1
      BY <2>1, <1>8, TopFrame DEF Pruned, Push, TypeOK
    <3>2. /\ x \in V
          /\ CursorAt(t, d) \in 1..Len(graph[VertexAt(t, d)])
          /\ x = graph[VertexAt(t, d)][CursorAt(t, d)]
      BY <2>1, TopFrame DEF NextVertex
    <3>3. root[t] \in Nat /\ root[t] < x /\ \A i \in 1..d : VertexAt(t, i) # x
      <4>1. root[t] \in Nat /\ x \in Nat
        BY <2>1, <3>2 DEF V, TypeOK, Searching
      <4>2. ~(x <= root[t]) /\ ~PathContains(t, x)
        BY <2>1 DEF Pruned
      <4>3. \A i \in 1..d : VertexAt(t, i) # x
        BY <4>2 DEF PathContains, VertexAt
      <4>4. QED
        BY <4>1, <4>2, <4>3
    <3>4. PathOnStack(t)
      BY <2>1 DEF StackOK
    <3>5. Len(graph[x]) \in Nat
      BY <3>2, AdjacencyType
    <3>6. \A e \in 1..(d + 1) :
            /\ VertexAt(t, e)' = IF e = d + 1 THEN x ELSE VertexAt(t, e)
            /\ CursorAt(t, e)' = IF e = d + 1 THEN 1
                                 ELSE IF e = d THEN CursorAt(t, d) + 1
                                 ELSE CursorAt(t, e)
      BY <2>2, <2>3, <3>1
    <3> HIDE DEF d, x
    <3>7. VertexAt(t, 1)' = root[t]
      BY <3>1, <3>4, <3>6 DEF PathOnStack
    <3>8. \A i \in 1..(d + 1) :
            /\ VertexAt(t, i)' \in V
            /\ CursorAt(t, i)' \in 1..(Len(graph[VertexAt(t, i)']) + 1)
      <4> TAKE i \in 1..(d + 1)
      <4>1. CASE i = d + 1
        BY <3>2, <3>5, <3>6, <4>1
      <4>2. CASE i # d + 1
        <5>1. i \in 1..d
          BY <3>1, <4>2
        <5>2. VertexAt(t, i) \in V /\ CursorAt(t, i) \in 1..(Len(graph[VertexAt(t, i)]) + 1)
          BY <3>4, <5>1 DEF PathOnStack, d
        <5>3. /\ VertexAt(t, i)' = VertexAt(t, i)
              /\ CursorAt(t, i)' = IF i = d THEN CursorAt(t, d) + 1 ELSE CursorAt(t, i)
          BY <3>6, <4>2
        <5>4. CASE i = d
          BY <3>2, <5>2, <5>3, <5>4
        <5>5. CASE i # d
          BY <5>2, <5>3, <5>5
        <5>6. QED
          BY <5>4, <5>5
      <4>3. QED
        BY <4>1, <4>2
    <3>9. \A i \in 2..(d + 1) : root[t] < VertexAt(t, i)'
      BY <3>1, <3>3, <3>4, <3>6 DEF PathOnStack, d
    <3>10. \A i, j \in 1..(d + 1) : i # j => VertexAt(t, i)' # VertexAt(t, j)'
      BY <3>1, <3>3, <3>4, <3>6 DEF PathOnStack, d
    <3>a. ASSUME NEW i \in 1..d
          PROVE  /\ CursorAt(t, i)' >= 2
                 /\ VertexAt(t, i + 1)' = graph[VertexAt(t, i)'][CursorAt(t, i)' - 1]
      <4>1. /\ i \in 1..(d + 1) /\ i + 1 \in 1..(d + 1) /\ i # d + 1
            /\ i + 1 = d + 1 <=> i = d
        BY <3>1
      <4>2. CASE i = d
        <5>1. CursorAt(t, i)' = CursorAt(t, i) + 1 /\ CursorAt(t, i) \in Nat \ {0}
          BY <4>1, <4>2, <3>4, <3>6 DEF PathOnStack, d
        <5>2. VertexAt(t, i + 1)' = x /\ VertexAt(t, i)' = VertexAt(t, i)
          BY <4>1, <4>2, <3>6
        <5>3. QED
          BY <4>2, <5>1, <5>2, <3>2
      <4>3. CASE i # d
        <5>1. i \in 1..(d - 1)
          BY <3>1, <4>3
        <5>2. QED
          BY <4>1, <4>3, <5>1, <3>4, <3>6 DEF PathOnStack, d
      <4>4. QED
        BY <4>2, <4>3
    <3>11. \A i \in 1..d :
            /\ CursorAt(t, i)' >= 2
            /\ VertexAt(t, i + 1)' = graph[VertexAt(t, i)'][CursorAt(t, i)' - 1]
      BY <3>a
    <3>12. QED
      BY <2>1, <2>3, <3>1, <3>7, <3>8, <3>9, <3>10, <3>11 DEF PathOnStack
  <2>4. CASE u # t
    <3>1. depth'[u] = depth[u]
      BY <2>4, <1>0, <1>8 DEF Push, TypeOK
    <3>2. QED
      BY <2>1, <2>2, <2>4, <3>1, PathUntouched DEF StackOK
  <2>5. QED
    BY <2>3, <2>4
<1>9. ASSUME NEW b \in Blocks, Sync(b) PROVE PathOnStack(u)'
  <2>1. u \in Searching
    BY <1>9, <1>0 DEF Sync, ClearBarrier, FlushBarrier, Barrier, Searching, TypeOK
  <2>2. QED
    BY <1>9, <2>1, <1>b DEF Sync, ClearBarrier, FlushBarrier, Barrier
<1>10. CASE UNCHANGED vars
  BY <1>10, <1>a DEF vars, device
<1>11. QED
  BY <1>1, <1>2, <1>3, <1>4, <1>5, <1>6, <1>7, <1>8, <1>9, <1>10
     DEF Next, Host, Thread, Search, Returned

-----------------------------------------------------------------------------
(***************************************************************************)
(* Host and device agree, and a root has one owner.                        *)
(***************************************************************************)
LEMMA HostStep == TypeOK /\ HostInStep /\ [Next]_vars => HostInStep'
<1> SUFFICES ASSUME TypeOK, HostInStep, [Next]_vars
             PROVE  HostInStep'
  OBVIOUS
<1> USE DEF TypeOK, HostInStep, HasNoEdges
<1>1. CASE ReturnEmpty
  BY <1>1 DEF ReturnEmpty, device
<1>2. CASE Launch
  BY <1>2 DEF Launch
<1>3. CASE Collect
  BY <1>3 DEF Collect, device
<1>4. ASSUME NEW t \in Threads, Thread(t) PROVE HostInStep'
  <2>1. graph' = graph /\ host' = host
    BY <1>4 DEF Thread, Search, Clear, ClaimRoot, LeaveQueue, Pop, CountCycle,
                SkipEdge, Push, Flush
  <2>2. /\ pc[t] \notin {"off", "exited"} /\ pc'[t] # "off"
        /\ \A u \in Threads : u # t => pc'[u] = pc[u]
    BY <1>4 DEF Thread, Search, Clear, ClaimRoot, LeaveQueue, Pop, CountCycle,
                SkipEdge, Push, Flush
  <2>3. host = "running"
    BY <2>2
  <2>4. QED
    BY <2>1, <2>2, <2>3
<1>5. ASSUME NEW b \in Blocks, Sync(b) PROVE HostInStep'
  BY <1>5 DEF Sync, ClearBarrier, FlushBarrier, Barrier
<1>6. CASE UNCHANGED vars
  BY <1>6 DEF vars, device
<1>7. QED
  BY <1>1, <1>2, <1>3, <1>4, <1>5, <1>6 DEF Next, Host, Returned

LEMMA ClaimsStep ==
  TypeOK /\ HostInStep /\ ClaimsExclusive /\ [Next]_vars => ClaimsExclusive'
<1> SUFFICES ASSUME TypeOK, HostInStep, ClaimsExclusive, [Next]_vars
             PROVE  ClaimsExclusive'
  OBVIOUS
<1>a. ASSUME Searching' \subseteq Searching, Claimed' = Claimed, root' = root
      PROVE  ClaimsExclusive'
  BY <1>a DEF ClaimsExclusive
<1>1. CASE Host
  <2>1. Searching = {} \/ pc' = pc
    BY <1>1 DEF Host, ReturnEmpty, Launch, Collect, Searching, HostInStep, device
  <2>2. CASE Searching' = {}
    BY <2>2 DEF ClaimsExclusive
  <2>3. CASE Searching' # {}
    <3>1. Searching # {} /\ pc' = pc
      BY <2>1, <2>3, <1>1
         DEF Host, ReturnEmpty, Launch, Collect, Searching, device
    <3>2. Collect \/ ReturnEmpty
      BY <3>1, <1>1 DEF Host, Launch, HostInStep, Searching, TypeOK
    <3>3. host # "idle"
      BY <3>1 DEF HostInStep, Searching
    <3>4. Claimed' = Claimed /\ root' = root /\ Searching' = Searching
      BY <3>1, <3>2, <3>3 DEF Collect, ReturnEmpty, Claimed, Searching, device
    <3>5. QED
      BY <3>4, <1>a
  <2>4. QED
    BY <2>2, <2>3
<1>2. ASSUME NEW t \in Threads, ClaimRoot(t) PROVE ClaimsExclusive'
  <2>1. /\ host # "idle" /\ host' = host /\ counter \in V /\ counter' = counter + 1
        /\ root'[t] = counter
        /\ \A u \in Threads : u # t => root'[u] = root[u]
        /\ Searching' \subseteq Searching \cup {t}
    BY <1>2 DEF ClaimRoot, HostInStep, V, Searching, TypeOK
  <2>2. Claimed' = Claimed \cup {counter} /\ counter \notin Claimed
    BY <2>1 DEF Claimed, V
  <2>3. \A u \in Searching' : u # t => u \in Searching /\ u \in Threads
    BY <2>1 DEF Searching
  <2>4. QED
    BY <2>1, <2>2, <2>3 DEF ClaimsExclusive
<1>3. ASSUME NEW t \in Threads, LeaveQueue(t) PROVE ClaimsExclusive'
  <2>1. counter \in Nat /\ counter >= N /\ counter' = counter + 1
    BY <1>3 DEF LeaveQueue, TypeOK
  <2>2. Claimed' = Claimed
    <3>1. \A r \in V : r < counter /\ r < counter'
      BY <2>1 DEF V
    <3>2. QED
      BY <1>3, <3>1 DEF LeaveQueue, Claimed
  <2>3. QED
    BY <1>3, <2>2, <1>a DEF LeaveQueue, Searching, TypeOK
<1>4. ASSUME NEW t \in Threads, Clear(t) \/ Search(t) \/ Flush(t)
      PROVE  ClaimsExclusive'
  <2>1. Claimed' = Claimed /\ root' = root
    BY <1>4 DEF Clear, Search, Pop, CountCycle, SkipEdge, Push, Flush, Claimed
  <2>2. Searching' \subseteq Searching
    BY <1>4 DEF Clear, Search, Pop, CountCycle, SkipEdge, Push, Flush, Searching, TypeOK
  <2>3. QED
    BY <2>1, <2>2, <1>a
<1>5. ASSUME NEW b \in Blocks, Sync(b) PROVE ClaimsExclusive'
  <2>1. Claimed' = Claimed /\ root' = root
    BY <1>5 DEF Sync, ClearBarrier, FlushBarrier, Barrier, Claimed
  <2>2. Searching' \subseteq Searching
    BY <1>5 DEF Sync, ClearBarrier, FlushBarrier, Barrier, Searching, TypeOK
  <2>3. QED
    BY <2>1, <2>2, <1>a
<1>6. CASE UNCHANGED vars
  BY <1>6, <1>a DEF vars, device, Searching, Claimed
<1>7. QED
  BY <1>1, <1>2, <1>3, <1>4, <1>5, <1>6 DEF Next, Thread, Returned

ShapeInv == TypeOK /\ StackOK /\ HostInStep /\ ClaimsExclusive

LEMMA ShapeInvariant == Spec => []ShapeInv
<1>1. Init => ShapeInv
  BY TypeInit DEF ShapeInv
<1>2. ShapeInv /\ [Next]_vars => ShapeInv'
  BY TypeStep, StackStep, HostStep, ClaimsStep DEF ShapeInv
<1>3. QED
  BY <1>1, <1>2, PTL DEF Spec

\* The state of host, device and memory keeps its types; in particular a stack
\* never grows past the slice of the pool that is its thread's.
THEOREM TypeCorrect == Spec => []TypeOK
BY ShapeInvariant, PTL DEF ShapeInv

\* Every stack is a simple path from the claimed root, each vertex the
\* neighbour its frame has consumed last.
THEOREM StacksHoldPaths == Spec => []StackOK
BY ShapeInvariant, PTL DEF ShapeInv

\* The work counter hands out a root once: no two searches share one.
THEOREM ClaimsAreExclusive == Spec => []ClaimsExclusive
BY ShapeInvariant, PTL DEF ShapeInv

\* A step writes the live frames of one thread at most.
THEOREM StacksArePrivate == Spec => StacksPrivate
<1>1. ShapeInv /\ [Next]_vars =>
        [\A t, u \in Searching :
           LiveStack(t)' # LiveStack(t) /\ LiveStack(u)' # LiveStack(u) => t = u]_vars
  <2> SUFFICES ASSUME ShapeInv, Next
               PROVE  \A t, u \in Searching :
                        LiveStack(t)' # LiveStack(t) /\ LiveStack(u)' # LiveStack(u)
                          => t = u
    OBVIOUS
  <2> USE DEF ShapeInv
  <2>a. ASSUME NEW t \in Threads, NEW u \in Searching, u # t, u \in Searching',
               depth'[u] = depth[u],
               \A e \in 1..MaxCycleLength :
                 VertexAt(u, e)' = VertexAt(u, e) /\ CursorAt(u, e)' = CursorAt(u, e)
        PROVE  LiveStack(u)' = LiveStack(u)
    <3>1. \A e \in 1..depth[u] : e \in 1..MaxCycleLength
      BY DEF TypeOK, Searching
    <3>2. QED
      BY <2>a, <3>1 DEF LiveStack
  <2>b. ASSUME paths' = paths, cursors' = cursors,
               NEW u \in Searching, u \in Searching', depth'[u] = depth[u]
        PROVE  LiveStack(u)' = LiveStack(u)
    BY <2>b DEF LiveStack, VertexAt, CursorAt
  <2>1. ASSUME NEW t \in Threads, Thread(t), NEW u \in Searching, u # t
        PROVE  LiveStack(u)' = LiveStack(u)
    <3>1. u \in Threads /\ u \in Searching' /\ depth'[u] = depth[u]
      BY <2>1 DEF Thread, Search, Clear, ClaimRoot, LeaveQueue, Pop, CountCycle,
                  SkipEdge, Push, Flush, Searching, TypeOK
    <3>2. CASE ClaimRoot(t)
      BY <3>1, <3>2, <2>1, <2>a, ClaimRootFrames
    <3>3. CASE CountCycle(t) \/ SkipEdge(t)
      <4>1. t \in Searching /\ Advance(t) /\ paths' = paths
        BY <3>3 DEF CountCycle, SkipEdge, Searching
      <4>2. \A e \in 1..MaxCycleLength :
              VertexAt(u, e)' = VertexAt(u, e) /\ CursorAt(u, e)' = CursorAt(u, e)
        BY <4>1, <3>1, <2>1, AdvanceFrames
      <4>3. QED
        BY <3>1, <4>2, <2>1, <2>a
    <3>4. CASE Push(t)
      BY <3>1, <3>4, <2>1, <2>a, PushFrames
    <3>5. CASE Clear(t) \/ LeaveQueue(t) \/ Pop(t) \/ Flush(t)
      BY <3>1, <3>5, <2>b DEF Clear, LeaveQueue, Pop, Flush
    <3>6. QED
      BY <2>1, <3>2, <3>3, <3>4, <3>5 DEF Thread, Search
  <2>2. CASE Host
    <3>1. CASE Searching = {}
      BY <3>1
    <3>2. CASE Searching # {}
      <4>1. host # "idle"
        BY <3>2 DEF HostInStep, Searching
      <4>2. Collect
        BY <4>1, <2>2 DEF Host, ReturnEmpty, Launch
      <4>3. \A u \in Searching : LiveStack(u)' = LiveStack(u)
        BY <4>2, <2>b DEF Collect, device, Searching
      <4>4. QED
        BY <4>3
    <3>3. QED
      BY <3>1, <3>2
  <2>3. ASSUME NEW b \in Blocks, Sync(b), NEW u \in Searching
        PROVE  LiveStack(u)' = LiveStack(u)
    <3>1. u \in Searching'
      BY <2>3 DEF Sync, ClearBarrier, FlushBarrier, Barrier, Searching, TypeOK
    <3>2. QED
      BY <2>3, <3>1, <2>b DEF Sync, ClearBarrier, FlushBarrier, Barrier
  <2>4. CASE Returned
    BY <2>4, <2>b DEF Returned, vars, device, Searching
  <2>5. QED
    BY <2>1, <2>2, <2>3, <2>4 DEF Next
<1>2. QED
  BY <1>1, ShapeInvariant, PTL DEF Spec, StacksPrivate

-----------------------------------------------------------------------------
(***************************************************************************)
(* The cycles of the graph.                                                *)
(***************************************************************************)
LEMMA LenOfFunction ==
  ASSUME NEW S, NEW k \in Nat, NEW c \in [1..k -> S]
  PROVE  Len(c) = k
<1>1. c \in Seq(S)
  BY SeqDef
<1>2. Len(c) \in Nat /\ 1..Len(c) = 1..k
  BY <1>1, LenProperties
<1>3. QED
  BY <1>2

LEMMA CycleShape ==
  ASSUME TypeOK, NEW c \in AllCycles
  PROVE  /\ Len(c) \in 2..MaxCycleLength
         /\ c \in [1..Len(c) -> V]
         /\ \A i \in 1..Len(c) : c[i] \in V
         /\ \A i, j \in 1..Len(c) : i # j => c[i] # c[j]
         /\ \A i \in 2..Len(c) : c[1] < c[i]
         /\ \A k \in 1..Len(c) : Successor(c, k) \in Neighbours(graph, c[k])
<1>1. graph \in [V -> Seq(V)]
  BY DEF TypeOK, Adjacencies
<1>2. c \in Cycles(graph, MaxCycleLength)
  BY DEF TypeOK, AllCycles, CyclesOf
<1>3. PICK k \in 2..MaxCycleLength : c \in [1..k -> V]
  BY <1>1, <1>2 DEF Cycles
<1>4. Len(c) = k
  BY <1>3, LenOfFunction
<1>5. IsSimpleCycle(graph, c)
  BY <1>2 DEF Cycles
<1>6. QED
  BY <1>3, <1>4, <1>5 DEF IsSimpleCycle

\* A path on the stack whose last vertex has the root as neighbour is a cycle.
LEMMA ClosedStackIsCycle ==
  ASSUME TypeOK, StackOK, NEW t \in Searching, ~Exhausted(t),
         Closes(t, NextVertex(t))
  PROVE  /\ OnStack(t) \in AllCycles
         /\ Len(OnStack(t)) = depth[t]
<1> DEFINE c == OnStack(t)
           d == depth[t]
<1>1. d \in 2..MaxCycleLength /\ d \in 1..MaxCycleLength
  BY TopFrame DEF Closes
<1>2. PathOnStack(t)
  BY DEF StackOK
<1>3. c \in [1..d -> V] /\ \A i \in 1..d : c[i] = VertexAt(t, i)
  BY <1>2 DEF OnStack, PathOnStack, VertexAt
<1>4. Len(c) = d
  BY <1>1, <1>3, LenOfFunction
<1>5. graph \in [V -> Seq(V)]
  BY DEF TypeOK, Adjacencies
<1>6. ASSUME NEW k \in 1..d PROVE Successor(c, k) \in Neighbours(graph, c[k])
  <2>1. CASE k = d
    <3>1. NextVertex(t) = root[t] /\ Cursor(t) \in 1..Len(Adjacent(t))
          /\ Adjacent(t) = graph[VertexAt(t, d)]
      BY TopFrame DEF Closes
    <3>2. root[t] \in Neighbours(graph, VertexAt(t, d))
      BY <3>1 DEF Neighbours, NextVertex
    <3>3. Successor(c, k) = root[t] /\ c[k] = VertexAt(t, d)
      BY <1>1, <1>2, <1>3, <1>4, <2>1 DEF Successor, PathOnStack
    <3>4. QED
      BY <3>2, <3>3
  <2>2. CASE k # d
    <3>1. k \in 1..(d - 1) /\ k + 1 \in 1..d
      BY <1>1, <2>2
    <3>2. /\ VertexAt(t, k) \in V
          /\ CursorAt(t, k) \in 2..(Len(graph[VertexAt(t, k)]) + 1)
          /\ VertexAt(t, k + 1) = graph[VertexAt(t, k)][CursorAt(t, k) - 1]
      BY <1>2, <3>1 DEF PathOnStack
    <3>3. CursorAt(t, k) - 1 \in 1..Len(graph[VertexAt(t, k)])
      BY <3>2, AdjacencyType
    <3>4. VertexAt(t, k + 1) \in Neighbours(graph, VertexAt(t, k))
      BY <3>2, <3>3 DEF Neighbours
    <3>5. Successor(c, k) = VertexAt(t, k + 1) /\ c[k] = VertexAt(t, k)
      BY <1>3, <1>4, <2>2, <3>1 DEF Successor
    <3>6. QED
      BY <3>4, <3>5
  <2>3. QED
    BY <2>1, <2>2
<1>7. \A i \in 2..d : c[1] < c[i]
  BY <1>1, <1>2, <1>3 DEF PathOnStack
<1>8. \A i, j \in 1..d : i # j => c[i] # c[j]
  BY <1>2, <1>3 DEF PathOnStack
<1> HIDE DEF c, d
<1>9. IsSimpleCycle(graph, c)
  BY <1>4, <1>6, <1>7, <1>8 DEF IsSimpleCycle
<1>10. c \in Cycles(graph, MaxCycleLength)
  BY <1>1, <1>3, <1>5, <1>9 DEF Cycles
<1>11. QED
  BY <1>4, <1>10 DEF TypeOK, AllCycles, CyclesOf, c, d

-----------------------------------------------------------------------------
(***************************************************************************)
(* What a frame has consumed.                                              *)
(***************************************************************************)
\* A frame below the top has consumed the vertex of the frame above it.
LEMMA ChildConsumed ==
  ASSUME TypeOK, StackOK, NEW t \in Searching, NEW k \in 1..(depth[t] - 1)
  PROVE  VertexAt(t, k + 1) \in Consumed(t, k)
<1>1. depth[t] \in 1..MaxCycleLength
  BY TopFrame
<1>2. k \in 1..depth[t]
  BY <1>1
<1>3. /\ CursorAt(t, k) >= 2 /\ VertexAt(t, k) \in V
      /\ CursorAt(t, k) \in 1..(Len(graph[VertexAt(t, k)]) + 1)
      /\ VertexAt(t, k + 1) = graph[VertexAt(t, k)][CursorAt(t, k) - 1]
  BY <1>2 DEF StackOK, PathOnStack
<1>4. CursorAt(t, k) - 1 \in 1..(CursorAt(t, k) - 1)
  BY <1>3, AdjacencyType
<1>5. QED
  BY <1>3, <1>4 DEF Consumed

\* The edge the top frame looks at is not consumed yet.
LEMMA NextNotConsumed ==
  ASSUME TypeOK, StackOK, NEW t \in Searching, ~Exhausted(t)
  PROVE  NextVertex(t) \notin Consumed(t, depth[t])
<1>1. /\ VertexAt(t, depth[t]) \in V
      /\ Cursor(t) = CursorAt(t, depth[t])
      /\ Adjacent(t) = graph[VertexAt(t, depth[t])]
      /\ Cursor(t) \in 1..Len(Adjacent(t)) /\ Len(Adjacent(t)) \in Nat
  BY TopFrame
<1>2. \A j \in 1..(CursorAt(t, depth[t]) - 1) :
        j \in 1..Len(Adjacent(t)) /\ j # Cursor(t)
  BY <1>1
<1>3. \A j \in 1..(CursorAt(t, depth[t]) - 1) : Adjacent(t)[j] # Adjacent(t)[Cursor(t)]
  BY <1>1, <1>2, AdjacencyType
<1>4. QED
  BY <1>1, <1>3 DEF Consumed, NextVertex

\* An exhausted frame has consumed every neighbour of its vertex.
LEMMA ExhaustedConsumed ==
  ASSUME TypeOK, StackOK, NEW t \in Searching, Exhausted(t)
  PROVE  Consumed(t, depth[t]) = Neighbours(graph, VertexAt(t, depth[t]))
<1>1. /\ CursorAt(t, depth[t]) - 1 = Len(graph[VertexAt(t, depth[t])])
  BY TopFrame
<1>2. QED
  BY <1>1 DEF Consumed, Neighbours

\* Advancing the cursor consumes one more neighbour.
LEMMA ConsumedAdvance ==
  ASSUME TypeOK, StackOK, NEW t \in Searching, ~Exhausted(t),
         graph' = graph, NEW k \in 1..MaxCycleLength, k = depth[t],
         VertexAt(t, k)' = VertexAt(t, k), CursorAt(t, k)' = CursorAt(t, k) + 1
  PROVE  Consumed(t, k)' = Consumed(t, k) \cup {NextVertex(t)}
<1>1. CursorAt(t, k) \in Nat \ {0} /\ NextVertex(t) = graph[VertexAt(t, k)][CursorAt(t, k)]
  BY TopFrame DEF NextVertex
<1>2. 1..CursorAt(t, k) = 1..(CursorAt(t, k) - 1) \cup {CursorAt(t, k)}
  BY <1>1
<1>3. Consumed(t, k)' = {graph[VertexAt(t, k)][j] : j \in 1..CursorAt(t, k)}
  BY <1>1 DEF Consumed
<1>4. QED
  BY <1>1, <1>2, <1>3 DEF Consumed

-----------------------------------------------------------------------------
(***************************************************************************)
(* The searches pass cycles exactly when they count them.                  *)
(***************************************************************************)
LEMMA BehindUntouched ==
  ASSUME TypeOK, graph' = graph, NEW u \in Searching, NEW c,
         depth'[u] = depth[u],
         \A e \in 1..MaxCycleLength :
            VertexAt(u, e)' = VertexAt(u, e) /\ CursorAt(u, e)' = CursorAt(u, e)
  PROVE  Behind(u, c)' = Behind(u, c)
<1>1. u \in Threads /\ depth[u] \in 0..MaxCycleLength
  BY DEF Searching, TypeOK
<1>2. ASSUME NEW k \in 1..depth[u]
      PROVE  /\ Follows(c, u, k)' = Follows(c, u, k)
             /\ Consumed(u, k)' = Consumed(u, k)
             /\ k < depth[u] => VertexAt(u, k + 1)' = VertexAt(u, k + 1)
  <2>1. k \in 1..MaxCycleLength /\ \A i \in 1..k : i \in 1..MaxCycleLength
    BY <1>1
  <2>2. k < depth[u] => k + 1 \in 1..MaxCycleLength
    BY <1>1
  <2>3. QED
    BY <2>1, <2>2 DEF Follows, Consumed
<1>3. QED
  BY <1>1, <1>2 DEF Behind

\* A cycle of the root that a search has gone all through is behind it.
LEMMA AllBehindExhaustedRoot ==
  ASSUME TypeOK, StackOK, NEW t \in Searching, Exhausted(t), depth[t] = 1,
         NEW c \in AllCycles, c[1] = root[t]
  PROVE  Behind(t, c)
<1>1. VertexAt(t, 1) = root[t]
  BY DEF StackOK, PathOnStack
<1>2. Len(c) \in 2..MaxCycleLength /\ Successor(c, 1) \in Neighbours(graph, c[1])
  BY CycleShape
<1>3. Consumed(t, 1) = Neighbours(graph, VertexAt(t, 1))
  BY ExhaustedConsumed
<1>4. QED
  BY <1>1, <1>2, <1>3 DEF Behind, Follows

\* Dropping an exhausted frame passes no cycle and forgets none.
LEMMA BehindPop ==
  ASSUME TypeOK, StackOK, NEW t \in Searching, Pop(t), depth[t] # 1,
         NEW c \in AllCycles, c[1] = root[t]
  PROVE  Behind(t, c)' = Behind(t, c)
<1> DEFINE d == depth[t]
<1>1. d \in 2..MaxCycleLength /\ depth'[t] = depth[t] - 1 /\ graph' = graph
      /\ paths' = paths /\ cursors' = cursors
  BY TopFrame DEF Pop, TypeOK
<1>2. \A k : /\ VertexAt(t, k)' = VertexAt(t, k)
             /\ Follows(c, t, k)' = Follows(c, t, k)
             /\ Consumed(t, k)' = Consumed(t, k)
  BY <1>1 DEF VertexAt, CursorAt, Follows, Consumed
<1>3. Consumed(t, d) = Neighbours(graph, VertexAt(t, d))
  BY ExhaustedConsumed DEF Pop
<1>4. VertexAt(t, d) \in Consumed(t, d - 1)
  <2>1. d - 1 \in 1..(depth[t] - 1)
    BY <1>1
  <2>2. QED
    BY <1>1, <2>1, ChildConsumed
<1>5. /\ Len(c) \in 2..MaxCycleLength
      /\ \A k \in 1..Len(c) : Successor(c, k) \in Neighbours(graph, c[k])
      /\ c[1] # VertexAt(t, d)
  BY <1>1, CycleShape DEF StackOK, PathOnStack
<1>6. Follows(c, t, d) <=>
        Follows(c, t, d - 1) /\ Successor(c, d - 1) = VertexAt(t, d)
  BY <1>1, <1>5 DEF Follows, Successor
<1>7. Follows(c, t, d) => Successor(c, d) \in Consumed(t, d)
  BY <1>1, <1>3, <1>5 DEF Follows
<1>8. Behind(t, c) <=>
        \/ \E k \in 1..(d - 1) : /\ Follows(c, t, k)
                                 /\ Successor(c, k) \in Consumed(t, k)
                                 /\ Successor(c, k) # VertexAt(t, k + 1)
        \/ Follows(c, t, d) /\ Successor(c, d) \in Consumed(t, d)
  BY <1>1 DEF Behind
<1>9. Behind(t, c)' <=>
        \E k \in 1..(d - 1) : /\ Follows(c, t, k)
                              /\ Successor(c, k) \in Consumed(t, k)
                              /\ k < d - 1 => Successor(c, k) # VertexAt(t, k + 1)
  BY <1>1, <1>2 DEF Behind
<1> HIDE DEF d
<1>10. (d - 1) \in 1..(d - 1) /\ (d - 1) + 1 = d
       /\ \A k \in 1..(d - 1) : k < d - 1 \/ k = d - 1
  BY <1>1
<1>11. ASSUME Behind(t, c) PROVE Behind(t, c)'
  <2>1. CASE Follows(c, t, d)
    BY <2>1, <1>4, <1>6, <1>9, <1>10
  <2>2. CASE ~Follows(c, t, d)
    BY <2>2, <1>8, <1>9, <1>11
  <2>3. QED
    BY <2>1, <2>2
<1>12. ASSUME NEW k \in 1..(d - 1), Follows(c, t, k),
              Successor(c, k) \in Consumed(t, k),
              k < d - 1 => Successor(c, k) # VertexAt(t, k + 1)
       PROVE  Behind(t, c)
  <2>1. CASE Successor(c, k) # VertexAt(t, k + 1)
    BY <2>1, <1>8, <1>12
  <2>2. CASE k = d - 1 /\ Successor(c, k) = VertexAt(t, d)
    BY <2>2, <1>6, <1>7, <1>8, <1>12
  <2>3. QED
    BY <2>1, <2>2, <1>10, <1>12
<1>13. Behind(t, c) \in BOOLEAN /\ Behind(t, c)' \in BOOLEAN
  BY DEF Behind
<1>14. QED
  BY <1>9, <1>11, <1>12, <1>13

\* The edge the top frame advances over puts behind the search the cycles that
\* follow the whole stack and leave it by that edge.
LEMMA BehindAdvance ==
  ASSUME TypeOK, StackOK, NEW t \in Searching, ~Exhausted(t), Advance(t),
         paths' = paths, depth' = depth, graph' = graph, NEW c
  PROVE  Behind(t, c)' <=>
           \/ Behind(t, c)
           \/ Follows(c, t, depth[t]) /\ Successor(c, depth[t]) = NextVertex(t)
<1>1. t \in Threads /\ depth[t] \in 1..MaxCycleLength
  BY TopFrame
<1>2. \A e \in 1..MaxCycleLength :
        /\ VertexAt(t, e)' = VertexAt(t, e)
        /\ CursorAt(t, e)' = IF e = depth[t] THEN CursorAt(t, e) + 1
                                             ELSE CursorAt(t, e)
  BY <1>1, AdvanceFrames
<1>3. ASSUME NEW k \in 1..depth[t]
      PROVE  /\ Follows(c, t, k)' = Follows(c, t, k)
             /\ k < depth[t] => /\ VertexAt(t, k + 1)' = VertexAt(t, k + 1)
                                /\ Consumed(t, k)' = Consumed(t, k)
             /\ k = depth[t] => Consumed(t, k)' = Consumed(t, k) \cup {NextVertex(t)}
  <2>1. k \in 1..MaxCycleLength /\ \A i \in 1..k : i \in 1..MaxCycleLength
    BY <1>1
  <2>2. k < depth[t] => k + 1 \in 1..MaxCycleLength
    BY <1>1
  <2>3. k = depth[t] => Consumed(t, k)' = Consumed(t, k) \cup {NextVertex(t)}
    BY <1>2, <2>1, ConsumedAdvance
  <2>4. k < depth[t] => Consumed(t, k)' = Consumed(t, k)
    BY <1>1, <1>2, <2>1 DEF Consumed
  <2>5. Follows(c, t, k)' = Follows(c, t, k)
    BY <1>2, <2>1 DEF Follows
  <2>6. QED
    BY <1>2, <2>2, <2>3, <2>4, <2>5
<1>4. depth[t] \in 1..depth[t] /\ \A k \in 1..depth[t] : k < depth[t] \/ k = depth[t]
  BY <1>1
<1>5. QED
  BY <1>1, <1>3, <1>4 DEF Behind

\* Entering a subtree passes no cycle and forgets none.
LEMMA BehindPush ==
  ASSUME TypeOK, StackOK, NEW t \in Searching, Push(t), NEW c
  PROVE  Behind(t, c)' = Behind(t, c)
<1>1. /\ t \in Threads /\ depth[t] \in 1..MaxCycleLength
      /\ depth[t] + 1 \in 1..MaxCycleLength
      /\ depth'[t] = depth[t] + 1 /\ graph' = graph /\ ~Exhausted(t)
  BY TopFrame DEF Push, Pruned, TypeOK
<1>2. \A e \in 1..MaxCycleLength :
        /\ VertexAt(t, e)' = IF e = depth[t] + 1 THEN NextVertex(t) ELSE VertexAt(t, e)
        /\ CursorAt(t, e)' = IF e = depth[t] + 1 THEN 1
                             ELSE IF e = depth[t] THEN CursorAt(t, e) + 1
                             ELSE CursorAt(t, e)
  BY <1>1, PushFrames
<1>3. ASSUME NEW k \in 1..depth[t]
      PROVE  /\ Follows(c, t, k)' = Follows(c, t, k)
             /\ k < depth[t] => /\ VertexAt(t, k + 1)' = VertexAt(t, k + 1)
                                /\ Consumed(t, k)' = Consumed(t, k)
             /\ k = depth[t] => /\ VertexAt(t, k + 1)' = NextVertex(t)
                                /\ Consumed(t, k)' = Consumed(t, k) \cup {NextVertex(t)}
  <2>1. k \in 1..MaxCycleLength /\ k # depth[t] + 1
        /\ \A i \in 1..k : i \in 1..MaxCycleLength /\ i # depth[t] + 1
    BY <1>1
  <2>2. k + 1 \in 1..MaxCycleLength
    BY <1>1
  <2>3. k = depth[t] => Consumed(t, k)' = Consumed(t, k) \cup {NextVertex(t)}
    BY <1>1, <1>2, <2>1, ConsumedAdvance
  <2>4. k < depth[t] => Consumed(t, k)' = Consumed(t, k)
    BY <1>1, <1>2, <2>1 DEF Consumed
  <2>5. Follows(c, t, k)' = Follows(c, t, k)
    BY <1>2, <2>1 DEF Follows
  <2>6. /\ k < depth[t] => VertexAt(t, k + 1)' = VertexAt(t, k + 1)
        /\ k = depth[t] => VertexAt(t, k + 1)' = NextVertex(t)
    BY <1>1, <1>2, <2>2
  <2>7. QED
    BY <2>3, <2>4, <2>5, <2>6
<1>4. ASSUME NEW k \in 1..MaxCycleLength, k = depth[t] + 1
      PROVE  Consumed(t, k)' = {}
  <2>1. CursorAt(t, k)' = 1
    BY <1>2, <1>4
  <2>2. QED
    BY <2>1 DEF Consumed
<1>5. NextVertex(t) \notin Consumed(t, depth[t])
  BY <1>1, NextNotConsumed
<1>6. Behind(t, c)' <=>
        \E k \in 1..depth[t] : /\ Follows(c, t, k)
                               /\ Successor(c, k) \in Consumed(t, k)'
                               /\ Successor(c, k) # VertexAt(t, k + 1)'
  <2>1. /\ \A k \in 1..(depth[t] + 1) : k \in 1..depth[t] \/ k = depth[t] + 1
        /\ \A k \in 1..depth[t] : k \in 1..(depth[t] + 1) /\ k < depth[t] + 1
    BY <1>1
  <2>2. QED
    BY <1>1, <1>3, <1>4, <2>1 DEF Behind
<1>7. \A k \in 1..depth[t] : k < depth[t] \/ k = depth[t]
  BY <1>1
<1>8. ASSUME NEW k \in 1..depth[t]
      PROVE  (/\ Successor(c, k) \in Consumed(t, k)'
              /\ Successor(c, k) # VertexAt(t, k + 1)')
             <=> (/\ Successor(c, k) \in Consumed(t, k)
                  /\ k < depth[t] => Successor(c, k) # VertexAt(t, k + 1))
  BY <1>3, <1>5, <1>7
<1>9. QED
  BY <1>6, <1>8 DEF Behind

\* A walk that follows the whole stack and leaves it for the root is the
\* stack's cycle; one that leaves it by a pruned edge is no cycle.
LEMMA ClosingCycle ==
  ASSUME TypeOK, StackOK, NEW t \in Searching, ~Exhausted(t),
         Closes(t, NextVertex(t)), NEW c \in AllCycles, c[1] = root[t]
  PROVE  Follows(c, t, depth[t]) /\ Successor(c, depth[t]) = NextVertex(t)
           <=> c = OnStack(t)
<1> DEFINE s == OnStack(t)
<1>1. /\ depth[t] \in 2..MaxCycleLength /\ NextVertex(t) = root[t]
  BY TopFrame DEF Closes
<1>2. /\ s \in AllCycles /\ Len(s) = depth[t]
      /\ \A i \in 1..depth[t] : s[i] = VertexAt(t, i)
  BY ClosedStackIsCycle DEF OnStack, VertexAt
<1>3. /\ Len(c) \in 2..MaxCycleLength /\ \A i \in 2..Len(c) : c[1] < c[i]
      /\ \A i \in 1..Len(c) : c[i] \in V
      /\ c \in [1..Len(c) -> V]
  BY CycleShape
<1>4. s \in [1..depth[t] -> V]
  BY <1>2, CycleShape
<1>5. ASSUME Follows(c, t, depth[t]), Successor(c, depth[t]) = root[t]
      PROVE  c = s
  <2>1. depth[t] <= Len(c) /\ \A i \in 1..depth[t] : c[i] = s[i]
    BY <1>2, <1>5 DEF Follows
  <2>2. depth[t] = Len(c)
    <3>1. SUFFICES ASSUME depth[t] < Len(c) PROVE FALSE
      BY <1>1, <1>3, <2>1
    <3>2. depth[t] + 1 \in 2..Len(c) /\ Successor(c, depth[t]) = c[depth[t] + 1]
      BY <1>1, <1>3, <3>1 DEF Successor
    <3>3. c[1] \in Int /\ c[depth[t] + 1] \in Int
      BY <1>1, <1>3, <3>1 DEF V
    <3>4. QED
      BY <1>3, <1>5, <3>2, <3>3
  <2>3. QED
    BY <1>3, <1>4, <2>1, <2>2
<1>6. ASSUME c = s
      PROVE  Follows(c, t, depth[t]) /\ Successor(c, depth[t]) = root[t]
  BY <1>1, <1>2, <1>6 DEF Follows, Successor
<1>7. QED
  BY <1>1, <1>5, <1>6

LEMMA PrunedLosesNothing ==
  ASSUME TypeOK, StackOK, NEW t \in Searching, ~Exhausted(t),
         ~Closes(t, NextVertex(t)), Pruned(t, NextVertex(t)),
         NEW c \in AllCycles, c[1] = root[t], Follows(c, t, depth[t]),
         Successor(c, depth[t]) = NextVertex(t)
  PROVE  FALSE
<1> DEFINE d == depth[t]
<1>1. /\ d \in 1..MaxCycleLength /\ NextVertex(t) \in V
      /\ root[t] \in Nat
  BY TopFrame DEF TypeOK
<1>2. /\ Len(c) \in 2..MaxCycleLength /\ \A i \in 2..Len(c) : c[1] < c[i]
      /\ \A i, j \in 1..Len(c) : i # j => c[i] # c[j]
  BY CycleShape
<1>3. d <= Len(c) /\ \A i \in 1..d : c[i] = VertexAt(t, i)
  BY DEF Follows
<1>4. CASE d = Len(c)
  BY <1>1, <1>2, <1>4 DEF Successor, Closes
<1>5. CASE d < Len(c)
  <2>1. /\ d + 1 \in 2..Len(c) /\ d + 1 \in 1..Len(c) /\ c[d + 1] = NextVertex(t)
        /\ d < MaxCycleLength
    BY <1>1, <1>2, <1>5 DEF Successor
  <2>2. root[t] < NextVertex(t)
    BY <1>2, <2>1
  <2>3. PICK i \in 1..d : VertexAt(t, i) = NextVertex(t)
    BY <1>1, <2>1, <2>2 DEF Pruned, PathContains, VertexAt, V
  <2>4. i \in 1..Len(c) /\ i # d + 1 /\ c[i] = c[d + 1]
    BY <1>1, <1>2, <1>3, <1>5, <2>1, <2>3
  <2>5. QED
    BY <1>2, <2>1, <2>4
<1>6. QED
  BY <1>1, <1>2, <1>3, <1>4, <1>5

LEMMA PassedInit == Init => CountedArePassed
BY DEF Init, CountedArePassed, AllCounted, Claimed

\* The equivalence for one cycle, which each action is shown to preserve.
Passed(c) ==
  /\ c[1] \in Claimed
  /\ \A t \in Searching : root[t] = c[1] => Behind(t, c)

LEMMA PassedStep ==
  ShapeInv /\ CountedArePassed /\ [Next]_vars => CountedArePassed'
<1> SUFFICES ASSUME ShapeInv, CountedArePassed, [Next]_vars
             PROVE  CountedArePassed'
  OBVIOUS
<1>0. TypeOK /\ StackOK /\ HostInStep /\ ClaimsExclusive
  BY DEF ShapeInv
<1>p. AllCounted \subseteq AllCycles /\ \A c \in AllCycles : c \in AllCounted <=> Passed(c)
  BY DEF CountedArePassed, Passed
<1>q. ASSUME AllCounted' \subseteq AllCycles',
             \A c \in AllCycles' : c \in AllCounted' <=> Passed(c)'
      PROVE  CountedArePassed'
  BY <1>q DEF CountedArePassed, Passed
<1>a. ASSUME graph' = graph, counted' = counted,
             \A c \in AllCycles : Passed(c)' <=> Passed(c)
      PROVE  CountedArePassed'
  BY <1>a, <1>p, <1>q DEF AllCycles, AllCounted
<1>b. ASSUME graph' = graph, counted' = counted, Searching' = Searching,
             Claimed' = Claimed, root' = root, depth' = depth,
             paths' = paths, cursors' = cursors
      PROVE  CountedArePassed'
  <2>1. \A c \in AllCycles : Passed(c)' <=> Passed(c)
    BY <1>b DEF Passed, Behind, Follows, Consumed, VertexAt, CursorAt
  <2>2. QED
    BY <1>a, <1>b, <2>1
<1>1. CASE ReturnEmpty
  <2>1. AllCycles = {}
    <3>1. SUFFICES ASSUME NEW c \in AllCycles PROVE FALSE
      OBVIOUS
    <3>2. c[1] \in V /\ Successor(c, 1) \in Neighbours(graph, c[1])
      BY <1>0, CycleShape
    <3>3. graph[c[1]] = <<>>
      BY <3>2, <1>1 DEF ReturnEmpty, HasNoEdges
    <3>4. QED
      BY <3>2, <3>3 DEF Neighbours
  <2>2. AllCycles' = {} /\ AllCounted' = AllCounted
    BY <1>1, <2>1 DEF ReturnEmpty, AllCycles, AllCounted, device
  <2>3. QED
    BY <1>p, <1>q, <2>1, <2>2
<1>2. CASE Launch
  <2>1. Claimed = {} /\ Claimed' = {} /\ graph' = graph /\ counted' = counted
    BY <1>2 DEF Launch, Claimed, V
  <2>2. QED
    BY <2>1, <1>a DEF Passed
<1>3. CASE Collect
  BY <1>3, <1>b DEF Collect, device, Searching, Claimed
<1>4. ASSUME NEW t \in Threads, Clear(t) \/ LeaveQueue(t) \/ Flush(t)
      PROVE  CountedArePassed'
  <2>1. Searching' = Searching
    BY <1>4, <1>0 DEF Clear, LeaveQueue, Flush, Searching, TypeOK
  <2>2. Claimed' = Claimed
    <3>1. CASE LeaveQueue(t)
      <4>1. \A r \in V : r < counter /\ r < counter'
        BY <3>1, <1>0 DEF LeaveQueue, TypeOK, V
      <4>2. QED
        BY <3>1, <4>1 DEF LeaveQueue, Claimed
    <3>2. QED
      BY <1>4, <3>1 DEF Clear, Flush, Claimed
  <2>3. QED
    BY <1>4, <1>b, <2>1, <2>2 DEF Clear, LeaveQueue, Flush
<1>5. ASSUME NEW t \in Threads, ClaimRoot(t) PROVE CountedArePassed'
  <2>1. /\ host # "idle" /\ host' = host /\ counter \in V /\ counter' = counter + 1
        /\ root'[t] = counter /\ depth'[t] = 1 /\ graph' = graph /\ counted' = counted
        /\ t \notin Searching /\ Searching' = Searching \cup {t}
    BY <1>5, <1>0 DEF ClaimRoot, HostInStep, V, Searching, TypeOK
  <2>2. Claimed' = Claimed \cup {counter} /\ counter \notin Claimed
    BY <2>1 DEF Claimed, V
  <2>3. ASSUME NEW u \in Searching, NEW c
        PROVE  Behind(u, c)' = Behind(u, c) /\ root'[u] = root[u]
    <3>1. u # t /\ u \in Threads /\ depth'[u] = depth[u] /\ root'[u] = root[u]
      BY <2>1, <1>5, <1>0 DEF ClaimRoot, Searching, TypeOK
    <3>2. \A e \in 1..MaxCycleLength :
            VertexAt(u, e)' = VertexAt(u, e) /\ CursorAt(u, e)' = CursorAt(u, e)
      BY <3>1, <1>0, <1>5, ClaimRootFrames
    <3>3. QED
      BY <2>1, <3>1, <3>2, <1>0, BehindUntouched
  <2>4. ASSUME NEW c PROVE ~Behind(t, c)'
    <3>1. CursorAt(t, 1)' = 1
      BY <1>0, <1>5, ClaimRootFrames
    <3>2. Consumed(t, 1)' = {}
      BY <3>1 DEF Consumed
    <3>3. QED
      BY <2>1, <3>2 DEF Behind
  <2>5. ASSUME NEW c \in AllCycles PROVE Passed(c)' <=> Passed(c)
    <3>1. CASE c[1] = counter
      BY <3>1, <2>1, <2>2, <2>4 DEF Passed
    <3>2. CASE c[1] # counter
      BY <3>2, <2>1, <2>2, <2>3 DEF Passed
    <3>3. QED
      BY <3>1, <3>2
  <2>6. QED
    BY <2>1, <2>5, <1>a
<1>6. ASSUME NEW t \in Threads, Search(t) PROVE CountedArePassed'
  <2>1. /\ t \in Searching /\ graph' = graph /\ Claimed' = Claimed /\ root' = root
        /\ root[t] \in Claimed
    BY <1>6, <1>0 DEF Search, Pop, CountCycle, SkipEdge, Push, Searching, Claimed,
                      ClaimsExclusive
  <2>2. ASSUME NEW u \in Searching, u # t, NEW c
        PROVE  u \in Searching' /\ Behind(u, c)' = Behind(u, c)
    <3>1. u \in Threads /\ u \in Searching' /\ depth'[u] = depth[u]
      BY <1>6, <1>0, <2>2 DEF Search, Pop, CountCycle, SkipEdge, Push, Searching, TypeOK
    <3>2. ASSUME NEW e \in 1..MaxCycleLength
          PROVE  VertexAt(u, e)' = VertexAt(u, e) /\ CursorAt(u, e)' = CursorAt(u, e)
      <4>1. CASE Pop(t)
        BY <4>1 DEF Pop, VertexAt, CursorAt
      <4>2. CASE CountCycle(t) \/ SkipEdge(t)
        <5>1. Advance(t) /\ paths' = paths
          BY <4>2 DEF CountCycle, SkipEdge
        <5>2. QED
          BY <5>1, <1>0, <2>1, <2>2, <3>1, AdvanceFrames
      <4>3. CASE Push(t)
        BY <4>3, <1>0, <2>2, <3>1, PushFrames
      <4>4. QED
        BY <1>6, <4>1, <4>2, <4>3 DEF Search
    <3>3. QED
      BY <1>0, <2>1, <3>1, <3>2, BehindUntouched
  <2>3. Searching' \subseteq Searching
    BY <1>6, <1>0 DEF Search, Pop, CountCycle, SkipEdge, Push, Searching, TypeOK
  <2>4. \A u \in Searching : root[u] = root[t] => u = t
    BY <1>0, <2>1 DEF ClaimsExclusive
  \* Only the cycles of the root of t are concerned.
  <2>5. ASSUME NEW c, c[1] # root[t] PROVE Passed(c)' <=> Passed(c)
    BY <2>1, <2>2, <2>3, <2>5 DEF Passed
  <2>6. ASSUME NEW c, c[1] = root[t]
        PROVE  /\ Passed(c) <=> Behind(t, c)
               /\ Passed(c)' <=> (t \in Searching' => Behind(t, c)')
    BY <2>1, <2>3, <2>4, <2>6 DEF Passed
  <2>7. CASE Pop(t) /\ depth[t] = 1
    <3>1. t \notin Searching' /\ counted' = counted /\ Exhausted(t)
      BY <2>7, <1>0 DEF Pop, Searching, TypeOK
    <3>2. \A c \in AllCycles : Passed(c)' <=> Passed(c)
      BY <1>0, <2>1, <2>5, <2>6, <2>7, <3>1, AllBehindExhaustedRoot
    <3>3. QED
      BY <2>1, <3>1, <3>2, <1>a
  <2>8. CASE Pop(t) /\ depth[t] # 1
    <3>1. t \in Searching' /\ counted' = counted
      BY <2>8, <2>1, <1>0 DEF Pop, Searching, TypeOK
    <3>2. \A c \in AllCycles : Passed(c)' <=> Passed(c)
      BY <1>0, <2>1, <2>5, <2>6, <2>8, <3>1, BehindPop
    <3>3. QED
      BY <2>1, <3>1, <3>2, <1>a
  <2>9. CASE SkipEdge(t)
    <3>1. /\ t \in Searching' /\ counted' = counted /\ ~Exhausted(t) /\ Advance(t)
          /\ paths' = paths /\ depth' = depth
          /\ ~Closes(t, NextVertex(t)) /\ Pruned(t, NextVertex(t))
      BY <2>9, <2>1, <1>0 DEF SkipEdge, Searching, TypeOK
    <3>2. ASSUME NEW c \in AllCycles, c[1] = root[t] PROVE Behind(t, c)' <=> Behind(t, c)
      BY <1>0, <2>1, <3>1, <3>2, BehindAdvance, PrunedLosesNothing
    <3>3. \A c \in AllCycles : Passed(c)' <=> Passed(c)
      BY <2>5, <2>6, <3>1, <3>2
    <3>4. QED
      BY <2>1, <3>1, <3>3, <1>a
  <2>10. CASE Push(t)
    <3>1. t \in Searching' /\ counted' = counted
      BY <2>10, <2>1, <1>0 DEF Push, Searching, TypeOK
    <3>2. ASSUME NEW c \in AllCycles PROVE Behind(t, c)' <=> Behind(t, c)
      BY <1>0, <2>1, <2>10, BehindPush
    <3>3. \A c \in AllCycles : Passed(c)' <=> Passed(c)
      BY <2>5, <2>6, <3>1, <3>2
    <3>4. QED
      BY <2>1, <3>1, <3>3, <1>a
  <2>11. CASE CountCycle(t)
    <3>1. /\ t \in Searching' /\ ~Exhausted(t) /\ Advance(t)
          /\ paths' = paths /\ depth' = depth
          /\ Closes(t, NextVertex(t))
      BY <2>11, <2>1, <1>0 DEF CountCycle, Searching, TypeOK
    <3>2. OnStack(t) \in AllCycles /\ OnStack(t)[1] = root[t]
      <4>1. OnStack(t)[1] = VertexAt(t, 1) /\ VertexAt(t, 1) = root[t]
        BY <1>0, <2>1, TopFrame DEF OnStack, VertexAt, StackOK, PathOnStack
      <4>2. QED
        BY <1>0, <2>1, <3>1, <4>1, ClosedStackIsCycle
    <3>3. AllCounted' = AllCounted \cup {OnStack(t)}
      <4>1. BlockOf(t) \in Blocks /\ DOMAIN counted = Blocks
            /\ counted' = [counted EXCEPT ![BlockOf(t)] = @ \cup {OnStack(t)}]
        BY <1>0, <2>11, BlockOfType DEF CountCycle, TypeOK
      <4>2. \A b \in Blocks : counted'[b] = IF b = BlockOf(t)
                                THEN counted[b] \cup {OnStack(t)} ELSE counted[b]
        BY <4>1
      <4>3. QED
        BY <4>1, <4>2 DEF AllCounted
    <3>4. ASSUME NEW c \in AllCycles, c[1] = root[t]
          PROVE  Behind(t, c)' <=> Behind(t, c) \/ c = OnStack(t)
      BY <1>0, <2>1, <3>1, <3>4, BehindAdvance, ClosingCycle
    <3>5. \A c \in AllCycles : Passed(c)' <=> Passed(c) \/ c = OnStack(t)
      BY <2>5, <2>6, <3>1, <3>2, <3>4
    <3>6. AllCycles' = AllCycles
      BY <2>1 DEF AllCycles
    <3>7. QED
      BY <1>p, <1>q, <3>2, <3>3, <3>5, <3>6
  <2>12. QED
    BY <1>6, <2>7, <2>8, <2>9, <2>10, <2>11 DEF Search
<1>7. ASSUME NEW b \in Blocks, Sync(b) PROVE CountedArePassed'
  <2>1. Searching' = Searching /\ Claimed' = Claimed
    BY <1>7, <1>0 DEF Sync, ClearBarrier, FlushBarrier, Barrier, Searching, TypeOK, Claimed
  <2>2. QED
    BY <1>7, <1>b, <2>1 DEF Sync, ClearBarrier, FlushBarrier, Barrier
<1>8. CASE UNCHANGED vars
  BY <1>8, <1>b DEF vars, device, Searching, Claimed
<1>9. QED
  BY <1>1, <1>2, <1>3, <1>4, <1>5, <1>6, <1>7, <1>8 DEF Next, Host, Thread, Returned

\* At every moment the counted cycles are exactly those the searches have
\* passed: no pruned branch holds a cycle, and nothing else is counted.
THEOREM CountedExactly == Spec => []CountedArePassed
<1>1. ShapeInv /\ CountedArePassed /\ [Next]_vars => CountedArePassed'
  BY PassedStep
<1>2. QED
  BY <1>1, PassedInit, ShapeInvariant, PTL DEF Spec

-----------------------------------------------------------------------------
(***************************************************************************)
(* That the integers of the work-queue kernel, and the histogram it        *)
(* returns, are the cardinalities of sets of cycles, for every graph, grid *)
(* and length bound.                                                       *)
(***************************************************************************)

(***************************************************************************)
(* The strides of a block cover its histogram, without overlap.            *)
(***************************************************************************)
LEMMA DivMod ==
  ASSUME NEW t \in Nat
  PROVE  /\ t \div BlockSize \in Nat
         /\ t % BlockSize \in 0..(BlockSize - 1)
         /\ t = (t \div BlockSize) * BlockSize + (t % BlockSize)
<1>1. t \div BlockSize \in Nat /\ t % BlockSize \in 0..(BlockSize - 1)
  BY SizeAssumption
<1>2. t = BlockSize * (t \div BlockSize) + (t % BlockSize)
  BY SizeAssumption
<1>3. BlockSize * (t \div BlockSize) = (t \div BlockSize) * BlockSize
  BY <1>1, SizeAssumption
<1>4. QED
  BY <1>1, <1>2, <1>3

LEMMA DivModUnique ==
  ASSUME NEW p \in Nat, NEW q \in Nat,
         NEW r \in 0..(BlockSize - 1), NEW s \in 0..(BlockSize - 1),
         p * BlockSize + r = q * BlockSize + s
  PROVE  p = q /\ r = s
<1>1. p * BlockSize \in Nat /\ q * BlockSize \in Nat
  BY MulNat
<1>2. CASE p < q
  BY <1>1, <1>2, MulStep
<1>3. CASE q < p
  BY <1>1, <1>3, MulStep
<1>4. CASE p = q
  BY <1>1, <1>4
<1>5. QED
  BY <1>2, <1>3, <1>4

\* The thread of block b that visits index i.
LEMMA StrideCovers ==
  ASSUME NEW b \in Blocks, NEW i \in Lengths
  PROVE  \E t \in Threads : BlockOf(t) = b /\ i \in Stride(t)
<1> DEFINE l == i % BlockSize
           t == b * BlockSize + l
<1>1. GridBlocks \in Nat /\ b \in Nat /\ b < GridBlocks /\ i \in Nat
  BY GridType DEF Blocks, Lengths
<1>2. l \in 0..(BlockSize - 1)
  BY <1>1, DivMod
<1>3. b * BlockSize \in Nat /\ GridBlocks * BlockSize \in Nat
      /\ b * BlockSize + BlockSize <= GridBlocks * BlockSize
  BY <1>1, MulNat, MulStep
<1>4. t \in Nat /\ t \in Threads
  BY <1>2, <1>3 DEF Threads
<1>5. t \div BlockSize = b /\ t % BlockSize = l
  <2>1. /\ t \div BlockSize \in Nat /\ t % BlockSize \in 0..(BlockSize - 1)
        /\ b * BlockSize + l = (t \div BlockSize) * BlockSize + (t % BlockSize)
    BY <1>4, DivMod
  <2>2. \A p, q \in Nat : \A r, s \in 0..(BlockSize - 1) :
          p * BlockSize + r = q * BlockSize + s => p = q /\ r = s
    BY DivModUnique
  <2> HIDE DEF t, l
  <2>3. QED
    BY <1>1, <1>2, <2>1, <2>2
<1>6. QED
  BY <1>4, <1>5 DEF BlockOf, Stride, LaneOf

LEMMA StrideOwner ==
  ASSUME NEW t \in Threads, NEW u \in Threads, BlockOf(t) = BlockOf(u),
         NEW i \in Stride(t), i \in Stride(u)
  PROVE  t = u
<1>1. t \in Nat /\ u \in Nat
  BY GridType, MulNat DEF Threads
<1>2. t % BlockSize = u % BlockSize /\ t \div BlockSize = u \div BlockSize
  BY DEF Stride, LaneOf, BlockOf
<1>3. QED
  BY <1>1, <1>2, DivMod

\* Sets of cycles by length.
LEMMA OfLengthFinite ==
  ASSUME NEW S, IsFiniteSet(S), NEW n
  PROVE  IsFiniteSet(OfLength(S, n)) /\ Cardinality(OfLength(S, n)) \in Nat
<1>1. OfLength(S, n) \subseteq S
  BY DEF OfLength
<1>2. QED
  BY <1>1, FS_Subset, FS_CardinalityType

LEMMA OfLengthAdd ==
  ASSUME NEW S, IsFiniteSet(S), NEW c, c \notin S, NEW n
  PROVE  Cardinality(OfLength(S \cup {c}, n))
           = IF Len(c) = n THEN Cardinality(OfLength(S, n)) + 1
                           ELSE Cardinality(OfLength(S, n))
<1>1. CASE Len(c) = n
  <2>1. OfLength(S \cup {c}, n) = OfLength(S, n) \cup {c} /\ c \notin OfLength(S, n)
    BY <1>1 DEF OfLength
  <2>2. QED
    BY <1>1, <2>1, OfLengthFinite, FS_AddElement
<1>2. CASE Len(c) # n
  <2>1. OfLength(S \cup {c}, n) = OfLength(S, n)
    BY <1>2 DEF OfLength
  <2>2. QED
    BY <1>2, <2>1
<1>3. QED
  BY <1>1, <1>2

LEMMA OfLengthUnion ==
  ASSUME NEW S, IsFiniteSet(S), NEW T, IsFiniteSet(T), S \cap T = {}, NEW n
  PROVE  Cardinality(OfLength(S \cup T, n))
           = Cardinality(OfLength(S, n)) + Cardinality(OfLength(T, n))
<1>1. /\ OfLength(S \cup T, n) = OfLength(S, n) \cup OfLength(T, n)
      /\ OfLength(S, n) \cap OfLength(T, n) = {}
  BY DEF OfLength
<1>2. Cardinality(OfLength(S, n) \cap OfLength(T, n)) = 0
  BY <1>1, FS_EmptySet
<1>3. IsFiniteSet(OfLength(S, n)) /\ IsFiniteSet(OfLength(T, n))
      /\ Cardinality(OfLength(S, n)) \in Nat /\ Cardinality(OfLength(T, n)) \in Nat
  BY OfLengthFinite
<1>4. Cardinality(OfLength(S, n) \cup OfLength(T, n))
        = Cardinality(OfLength(S, n)) + Cardinality(OfLength(T, n))
            - Cardinality(OfLength(S, n) \cap OfLength(T, n))
  BY <1>3, FS_Union
<1>5. Cardinality(OfLength(S, n) \cup OfLength(T, n))
        = Cardinality(OfLength(S, n)) + Cardinality(OfLength(T, n))
  BY <1>2, <1>3, <1>4
<1>6. QED
  BY <1>1, <1>5

-----------------------------------------------------------------------------
(***************************************************************************)
(* The strengthening of TalliesExact and ResultExact.                      *)
(***************************************************************************)
\* A block that has not passed its first barrier has counted nothing.
NoneCounted == \A b \in Blocks : ~Counting(b) => counted[b] = {}

\* A thread that waits at that barrier has cleared its stride.
StridesClear ==
  \A t \in Threads : pc[t] = "cleared" =>
    \A i \in Stride(t) : shared[BlockOf(t)][i] = 0

\* A thread leaves the search loop when the queue is exhausted.
Drained == \A t \in Threads : pc[t] \in {"drained", "flush", "exited"} => counter >= N

TallyInv ==
  /\ ShapeInv
  /\ CountedArePassed
  /\ BlocksInStep
  /\ NoneCounted
  /\ StridesClear
  /\ Drained
  /\ IsFiniteSet(AllCounted)
  /\ host # "done" => result = NoResult
  /\ TalliesExact

\* Where the threads are after a step of one thread or of one barrier.
LEMMA ThreadMoves ==
  ASSUME TypeOK, NEW t \in Threads, Thread(t)
  PROVE  /\ \A u \in Threads : u # t => pc'[u] = pc[u]
         /\ pc[t] \in {"clear", "claim", "search", "flush"}
         /\ pc[t] = "clear" => pc'[t] = "cleared"
         /\ pc[t] = "claim" => pc'[t] \in {"search", "drained"}
         /\ pc[t] = "search" => pc'[t] \in {"search", "claim"}
         /\ pc[t] = "flush" => pc'[t] = "exited"
         /\ host' = host /\ graph' = graph /\ result' = result
BY DEF Thread, Search, Clear, ClaimRoot, LeaveQueue, Pop, CountCycle, SkipEdge,
       Push, Flush, TypeOK

LEMMA SyncMoves ==
  ASSUME TypeOK, NEW b \in Blocks, Sync(b)
  PROVE  /\ \A u \in Threads : BlockOf(u) # b => pc'[u] = pc[u]
         /\ \/ /\ ClearBarrier(b)
               /\ \A u \in Threads : BlockOf(u) = b => pc[u] = "cleared" /\ pc'[u] = "claim"
            \/ /\ FlushBarrier(b)
               /\ \A u \in Threads : BlockOf(u) = b => pc[u] = "drained" /\ pc'[u] = "flush"
         /\ UNCHANGED <<graph, host, result, counter, global, shared, counted>>
BY DEF Sync, ClearBarrier, FlushBarrier, Barrier, TypeOK

LEMMA StepInBlock ==
  TypeOK /\ BlocksInStep /\ [Next]_vars => BlocksInStep'
<1> SUFFICES ASSUME TypeOK, BlocksInStep, [Next]_vars,
                    NEW t \in Threads, NEW u \in Threads, BlockOf(t) = BlockOf(u)
             PROVE  /\ pc'[t] \in {"clear", "cleared"} => pc'[u] \in {"clear", "cleared"}
                    /\ pc'[t] \in {"flush", "exited"} => pc'[u] \in {"flush", "exited"}
  BY DEF BlocksInStep
<1>0. /\ pc[t] \in {"clear", "cleared"} <=> pc[u] \in {"clear", "cleared"}
      /\ pc[t] \in {"flush", "exited"} <=> pc[u] \in {"flush", "exited"}
  BY DEF BlocksInStep
<1>1. CASE pc' = pc
  BY <1>0, <1>1
<1>2. CASE Launch
  BY <1>2 DEF Launch
<1>3. ASSUME NEW w \in Threads, Thread(w)
      PROVE  /\ pc'[t] \in {"clear", "cleared"} => pc'[u] \in {"clear", "cleared"}
             /\ pc'[t] \in {"flush", "exited"} => pc'[u] \in {"flush", "exited"}
  BY <1>0, <1>3, ThreadMoves
<1>4. ASSUME NEW b \in Blocks, Sync(b)
      PROVE  /\ pc'[t] \in {"clear", "cleared"} => pc'[u] \in {"clear", "cleared"}
             /\ pc'[t] \in {"flush", "exited"} => pc'[u] \in {"flush", "exited"}
  BY <1>0, <1>4, SyncMoves
<1>5. QED
  BY <1>1, <1>2, <1>3, <1>4 DEF Next, Host, ReturnEmpty, Collect, Returned, vars, device

\* Every block has a thread; a thread past the first barrier has its block
\* counting.
LEMMA BlockInhabited == \A b \in Blocks : \E t \in Threads : BlockOf(t) = b
BY StrideCovers DEF Lengths

LEMMA CountingBlock ==
  ASSUME HostInStep, TypeOK, BlocksInStep, NEW t \in Threads,
         pc[t] \notin {"off", "clear", "cleared"}
  PROVE  Counting(BlockOf(t))
<1> SUFFICES ASSUME NEW u \in Threads, BlockOf(u) = BlockOf(t)
             PROVE  pc[u] \notin {"off", "clear", "cleared"}
  BY DEF Counting
<1>1. pc[u] # "off"
  BY DEF HostInStep, TypeOK
<1>2. QED
  BY <1>1 DEF BlocksInStep

\* Which blocks count changes at their first barrier only.
LEMMA CountingStep ==
  ASSUME TypeOK, HostInStep, [Next]_vars, NEW b \in Blocks
  PROVE  /\ Counting(b) => Counting(b)'
         /\ Counting(b)' => Counting(b) \/ ClearBarrier(b)
<1>1. CASE pc' = pc
  BY <1>1 DEF Counting
<1>2. CASE Launch
  <2>1. PICK t \in Threads : BlockOf(t) = b
    BY BlockInhabited
  <2>2. pc[t] = "off" /\ pc'[t] = "clear"
    BY <1>2 DEF Launch, HostInStep
  <2>3. QED
    BY <2>1, <2>2 DEF Counting
<1>3. ASSUME NEW w \in Threads, Thread(w)
      PROVE  Counting(b)' <=> Counting(b)
  BY <1>3, ThreadMoves DEF Counting
<1>4. ASSUME NEW d \in Blocks, Sync(d)
      PROVE  /\ Counting(b) => Counting(b)'
             /\ Counting(b)' => Counting(b) \/ ClearBarrier(b)
  <2>1. CASE d = b
    BY <1>4, <2>1, SyncMoves DEF Counting
  <2>2. CASE d # b
    BY <1>4, <2>2, SyncMoves DEF Counting
  <2>3. QED
    BY <2>1, <2>2
<1>5. QED
  BY <1>1, <1>2, <1>3, <1>4 DEF Next, Host, ReturnEmpty, Collect, Returned, vars, device

\* What CountCycle adds: one cycle, new to every block.
LEMMA CountedIsNew ==
  ASSUME ShapeInv, CountedArePassed, NEW t \in Threads, CountCycle(t)
  PROVE  /\ t \in Searching
         /\ OnStack(t) \notin AllCounted
         /\ OnStack(t) \in AllCycles
         /\ Len(OnStack(t)) = depth[t]
         /\ BlockOf(t) \in Blocks
         /\ \A b \in Blocks : counted'[b] = IF b = BlockOf(t)
                                THEN counted[b] \cup {OnStack(t)} ELSE counted[b]
         /\ AllCounted' = AllCounted \cup {OnStack(t)}
<1> DEFINE c == OnStack(t)
           d == depth[t]
<1>0. TypeOK /\ StackOK /\ t \in Searching
  BY DEF ShapeInv, CountCycle, Searching
<1>1. ~Exhausted(t) /\ NextVertex(t) = root[t] /\ Closes(t, NextVertex(t))
  BY DEF CountCycle, Closes
<1>2. c \in AllCycles /\ Len(c) = d
  BY <1>0, <1>1, ClosedStackIsCycle
<1>3. d \in 1..MaxCycleLength /\ VertexAt(t, 1) = root[t]
      /\ \A i \in 1..d : c[i] = VertexAt(t, i)
  BY <1>0, TopFrame DEF OnStack, VertexAt, StackOK, PathOnStack
<1>4. ~Behind(t, c)
  <2>1. SUFFICES ASSUME NEW k \in 1..d, Successor(c, k) \in Consumed(t, k),
                        k < d => Successor(c, k) # VertexAt(t, k + 1)
                 PROVE  FALSE
    BY DEF Behind
  <2>2. CASE k = d
    <3>1. Successor(c, k) = NextVertex(t)
      BY <1>1, <1>2, <1>3, <2>2 DEF Successor
    <3>2. QED
      BY <1>0, <1>1, <2>1, <2>2, <3>1, NextNotConsumed
  <2>3. CASE k # d
    <3>1. k < d /\ k + 1 \in 1..d
      BY <1>3, <2>3
    <3>2. Successor(c, k) = VertexAt(t, k + 1)
      BY <1>2, <1>3, <2>3, <3>1 DEF Successor
    <3>3. QED
      BY <2>1, <3>1, <3>2
  <2>4. QED
    BY <2>2, <2>3
<1>5. c \notin AllCounted
  BY <1>0, <1>2, <1>3, <1>4 DEF CountedArePassed
<1>6. BlockOf(t) \in Blocks
      /\ \A b \in Blocks : counted'[b] = IF b = BlockOf(t)
                                THEN counted[b] \cup {c} ELSE counted[b]
  BY <1>0, BlockOfType DEF CountCycle, TypeOK
<1>7. AllCounted' = AllCounted \cup {c}
  BY <1>6 DEF AllCounted
<1>8. QED
  BY <1>0, <1>2, <1>5, <1>6, <1>7

\* Only CountCycle writes the history.
LEMMA CountedFrame ==
  ASSUME [Next]_vars
  PROVE  counted' = counted \/ \E t \in Threads : CountCycle(t)
BY DEF Next, Host, ReturnEmpty, Launch, Collect, Thread, Search, Clear, ClaimRoot,
       LeaveQueue, Pop, SkipEdge, Push, Flush, Sync, ClearBarrier, FlushBarrier,
       Barrier, Returned, vars, device

LEMMA NoneCountedStep ==
  TallyInv /\ [Next]_vars => NoneCounted'
<1> SUFFICES ASSUME TallyInv, [Next]_vars, NEW b \in Blocks, ~Counting(b)'
             PROVE  counted'[b] = {}
  BY DEF NoneCounted
<1>0. TypeOK /\ HostInStep /\ BlocksInStep
  BY DEF TallyInv, ShapeInv
<1>1. ~Counting(b)
  BY <1>0, CountingStep
<1>2. counted[b] = {}
  BY <1>1 DEF TallyInv, NoneCounted
<1>3. ASSUME NEW t \in Threads, CountCycle(t) PROVE b # BlockOf(t)
  <2>1. pc[t] = "search"
    BY <1>3 DEF CountCycle
  <2>2. QED
    BY <1>0, <1>1, <2>1, CountingBlock
<1>4. QED
  BY <1>2, <1>3, CountedFrame, CountedIsNew DEF TallyInv

LEMMA FiniteStep ==
  TallyInv /\ [Next]_vars => IsFiniteSet(AllCounted')
<1> SUFFICES ASSUME TallyInv, [Next]_vars PROVE IsFiniteSet(AllCounted')
  OBVIOUS
<1>1. CASE counted' = counted
  BY <1>1 DEF TallyInv, AllCounted
<1>2. ASSUME NEW t \in Threads, CountCycle(t) PROVE IsFiniteSet(AllCounted')
  <2>1. AllCounted' = AllCounted \cup {OnStack(t)}
    BY <1>2, CountedIsNew DEF TallyInv
  <2>2. QED
    BY <2>1, FS_AddElement DEF TallyInv
<1>3. QED
  BY <1>1, <1>2, CountedFrame

LEMMA StridesClearStep ==
  TallyInv /\ [Next]_vars => StridesClear'
<1> SUFFICES ASSUME TallyInv, [Next]_vars, NEW t \in Threads, pc'[t] = "cleared",
                    NEW i \in Stride(t)
             PROVE  shared'[BlockOf(t)][i] = 0
  BY DEF StridesClear, Stride, LaneOf
<1>0. TypeOK /\ HostInStep /\ BlocksInStep /\ StridesClear
      /\ BlockOf(t) \in Blocks /\ i \in Lengths
  BY BlockOfType DEF TallyInv, ShapeInv, Stride
<1>1. CASE pc' = pc /\ shared' = shared
  BY <1>0, <1>1 DEF StridesClear
<1>2. CASE Launch
  BY <1>2 DEF Launch
<1>3. ASSUME NEW w \in Threads, Clear(w) PROVE shared'[BlockOf(t)][i] = 0
  <2>1. shared'[BlockOf(t)] = IF BlockOf(t) = BlockOf(w)
             THEN [k \in Lengths |-> IF k \in Stride(w) THEN 0 ELSE shared[BlockOf(w)][k]]
             ELSE shared[BlockOf(t)]
    BY <1>0, <1>3 DEF Clear, TypeOK
  <2>2. CASE w = t
    BY <1>0, <2>1, <2>2
  <2>3. CASE w # t
    <3>1. pc[t] = "cleared"
      BY <1>0, <1>3, <2>3 DEF Clear, TypeOK
    <3>2. shared[BlockOf(t)][i] = 0
      BY <1>0, <3>1 DEF StridesClear
    <3>3. QED
      BY <1>0, <2>1, <3>2
  <2>4. QED
    BY <2>2, <2>3
<1>4. ASSUME NEW w \in Threads, CountCycle(w) PROVE shared'[BlockOf(t)][i] = 0
  <2>1. pc[w] = "search" /\ pc[t] = "cleared"
    BY <1>4 DEF CountCycle
  <2>2. BlockOf(w) # BlockOf(t)
    BY <1>0, <2>1 DEF BlocksInStep
  <2>3. shared'[BlockOf(t)] = shared[BlockOf(t)]
    BY <1>0, <1>4, <2>2 DEF CountCycle, TypeOK
  <2>4. QED
    BY <1>0, <2>1, <2>3 DEF StridesClear
<1>5. ASSUME NEW w \in Threads,
             ClaimRoot(w) \/ LeaveQueue(w) \/ Pop(w) \/ SkipEdge(w) \/ Push(w) \/ Flush(w)
      PROVE  shared'[BlockOf(t)][i] = 0
  <2>1. shared' = shared /\ pc[t] = "cleared"
    BY <1>0, <1>5 DEF ClaimRoot, LeaveQueue, Pop, SkipEdge, Push, Flush, TypeOK
  <2>2. QED
    BY <1>0, <2>1 DEF StridesClear
<1>6. ASSUME NEW b \in Blocks, Sync(b) PROVE shared'[BlockOf(t)][i] = 0
  <2>1. shared' = shared /\ pc[t] = "cleared"
    BY <1>0, <1>6, SyncMoves
  <2>2. QED
    BY <1>0, <2>1 DEF StridesClear
<1>7. QED
  BY <1>1, <1>2, <1>3, <1>4, <1>5, <1>6
     DEF Next, Host, ReturnEmpty, Collect, Thread, Search, Returned, vars, device

LEMMA DrainedStep ==
  TallyInv /\ [Next]_vars => Drained'
<1> SUFFICES ASSUME TallyInv, [Next]_vars, NEW t \in Threads,
                    pc'[t] \in {"drained", "flush", "exited"}
             PROVE  counter' >= N
  BY DEF Drained
<1>0. TypeOK /\ Drained
  BY DEF TallyInv, ShapeInv
<1>1. CASE pc' = pc /\ counter' = counter
  BY <1>0, <1>1 DEF Drained
<1>2. CASE Launch
  BY <1>2 DEF Launch
<1>3. ASSUME NEW w \in Threads, ClaimRoot(w) \/ LeaveQueue(w) PROVE counter' >= N
  BY <1>0, <1>3 DEF Drained, ClaimRoot, LeaveQueue, TypeOK
<1>4. ASSUME NEW w \in Threads, Clear(w) \/ Search(w) \/ Flush(w) PROVE counter' >= N
  BY <1>0, <1>4 DEF Drained, Clear, Search, Pop, CountCycle, SkipEdge, Push, Flush, TypeOK
<1>5. ASSUME NEW b \in Blocks, Sync(b) PROVE counter' >= N
  <2>1. counter' = counter /\ pc[t] \in {"drained", "flush", "exited"}
    <3>1. CASE BlockOf(t) = b
      BY <1>0, <1>5, <3>1, SyncMoves
    <3>2. CASE BlockOf(t) # b
      BY <1>0, <1>5, <3>2, SyncMoves
    <3>3. QED
      BY <3>1, <3>2
  <2>2. QED
    BY <1>0, <2>1 DEF Drained
<1>6. QED
  BY <1>1, <1>2, <1>3, <1>4, <1>5
     DEF Next, Host, ReturnEmpty, Collect, Thread, Returned, vars, device

LEMMA DisjointStep ==
  TallyInv /\ [Next]_vars =>
    \A b1, b2 \in Blocks : b1 # b2 => counted'[b1] \cap counted'[b2] = {}
<1> SUFFICES ASSUME TallyInv, [Next]_vars,
                    NEW b1 \in Blocks, NEW b2 \in Blocks, b1 # b2
             PROVE  counted'[b1] \cap counted'[b2] = {}
  OBVIOUS
<1>1. counted[b1] \cap counted[b2] = {}
  BY DEF TallyInv, TalliesExact
<1>2. ASSUME NEW t \in Threads, CountCycle(t)
      PROVE  counted'[b1] \cap counted'[b2] = {}
  <2>1. \A b \in Blocks : /\ OnStack(t) \notin counted[b]
                          /\ counted'[b] = IF b = BlockOf(t)
                               THEN counted[b] \cup {OnStack(t)} ELSE counted[b]
    <3>1. ShapeInv /\ CountedArePassed
      BY DEF TallyInv
    <3>2. /\ OnStack(t) \notin AllCounted
          /\ \A b \in Blocks : counted'[b] = IF b = BlockOf(t)
                                THEN counted[b] \cup {OnStack(t)} ELSE counted[b]
      BY <1>2, <3>1, CountedIsNew
    <3>3. \A b \in Blocks : counted[b] \subseteq AllCounted
      BY DEF AllCounted
    <3>4. QED
      BY <3>2, <3>3
  <2>2. QED
    BY <1>1, <2>1
<1>3. QED
  BY <1>1, <1>2, CountedFrame

\* The shared histograms.
LEMMA SharedStep ==
  TallyInv /\ [Next]_vars =>
    \A b \in Blocks : Counting(b)' =>
      \A i \in Lengths : shared'[b][i] = Cardinality(OfLength(counted'[b], i))
<1> SUFFICES ASSUME TallyInv, [Next]_vars,
                    NEW b \in Blocks, Counting(b)', NEW i \in Lengths
             PROVE  shared'[b][i] = Cardinality(OfLength(counted'[b], i))
  OBVIOUS
<1>0. TypeOK /\ HostInStep /\ BlocksInStep
  BY DEF TallyInv, ShapeInv
<1>1. CASE ClearBarrier(b)
  <2>1. PICK t \in Threads : BlockOf(t) = b /\ i \in Stride(t)
    BY StrideCovers
  <2>2. pc[t] = "cleared" /\ shared' = shared /\ counted' = counted
    BY <1>1, <2>1 DEF ClearBarrier, Barrier
  <2>3. shared[b][i] = 0
    BY <2>1, <2>2 DEF TallyInv, StridesClear
  <2>4. counted[b] = {}
    BY <2>1, <2>2 DEF TallyInv, NoneCounted, Counting
  <2>5. OfLength({}, i) = {}
    BY DEF OfLength
  <2>6. QED
    BY <2>2, <2>3, <2>4, <2>5, FS_EmptySet
<1>2. CASE Counting(b)
  <2>1. shared[b][i] = Cardinality(OfLength(counted[b], i))
    BY <1>2 DEF TallyInv, TalliesExact
  <2>2. CASE shared'[b] = shared[b] /\ counted' = counted
    BY <2>1, <2>2
  <2>3. ASSUME NEW t \in Threads, Clear(t) PROVE shared'[b] = shared[b] /\ counted' = counted
    <3>1. pc[t] = "clear"
      BY <2>3 DEF Clear
    <3>2. BlockOf(t) # b
      BY <1>2, <3>1 DEF Counting
    <3>3. QED
      BY <1>0, <2>3, <3>2 DEF Clear, TypeOK
  <2>4. ASSUME NEW t \in Threads, CountCycle(t)
        PROVE  shared'[b][i] = Cardinality(OfLength(counted'[b], i))
    <3>1. /\ OnStack(t) \notin counted[b]
          /\ Len(OnStack(t)) = depth[t]
          /\ counted'[b] = IF b = BlockOf(t)
               THEN counted[b] \cup {OnStack(t)} ELSE counted[b]
          /\ t \in Searching
      BY <2>4, CountedIsNew DEF TallyInv, AllCounted
    <3>2. shared'[b][i] = IF b = BlockOf(t) /\ i = depth[t] THEN shared[b][i] + 1
                                                            ELSE shared[b][i]
      BY <1>0, <2>4 DEF CountCycle, TypeOK
    <3>3. IsFiniteSet(counted[b])
      <4>1. counted[b] \subseteq AllCounted
        BY DEF AllCounted
      <4>2. QED
        BY <4>1, FS_Subset DEF TallyInv
    <3>4. CASE b = BlockOf(t)
      <4>1. Cardinality(OfLength(counted[b] \cup {OnStack(t)}, i))
              = IF depth[t] = i THEN Cardinality(OfLength(counted[b], i)) + 1
                                ELSE Cardinality(OfLength(counted[b], i))
        BY <3>1, <3>3, OfLengthAdd
      <4>2. QED
        BY <2>1, <3>1, <3>2, <3>4, <4>1
    <3>5. CASE b # BlockOf(t)
      BY <2>1, <3>1, <3>2, <3>5
    <3>6. QED
      BY <3>4, <3>5
  <2>5. QED
    BY <2>2, <2>3, <2>4
       DEF Next, Host, ReturnEmpty, Launch, Collect, Thread, Search, ClaimRoot,
           LeaveQueue, Pop, SkipEdge, Push, Flush, Sync, ClearBarrier, FlushBarrier,
           Barrier, Returned, vars, device
<1>3. QED
  BY <1>0, <1>1, <1>2, CountingStep

\* The global histogram.
Exited(i) == {u \in Threads : pc[u] = "exited" /\ i \in Stride(u)}

LEMMA FlushedIs ==
  ASSUME NEW i
  PROVE  /\ Flushed(i) = UNION {counted[BlockOf(t)] : t \in Exited(i)}
         /\ Flushed(i) \subseteq AllCounted
BY BlockOfType DEF Flushed, Exited, AllCounted

LEMMA GlobalFlush ==
  ASSUME TallyInv, NEW t \in Threads, Flush(t), NEW i \in Lengths,
         global[i] = Cardinality(OfLength(Flushed(i), i))
  PROVE  global'[i] = Cardinality(OfLength(Flushed(i)', i))
<1>0. TypeOK /\ HostInStep /\ BlocksInStep /\ BlockOf(t) \in Blocks
  BY BlockOfType DEF TallyInv, ShapeInv
<1>1. counted' = counted /\ pc[t] = "flush"
      /\ \A u \in Threads : pc'[u] = IF u = t THEN "exited" ELSE pc[u]
  BY <1>0 DEF Flush, TypeOK
<1>2. CASE i \in Stride(t)
  <2>1. Exited(i)' = Exited(i) \cup {t}
    BY <1>1, <1>2 DEF Exited, Stride, LaneOf
  <2>2. Flushed(i)' = Flushed(i) \cup counted[BlockOf(t)]
    BY <1>1, <2>1 DEF Flushed, Exited, Stride, LaneOf
  <2>3. Flushed(i) \cap counted[BlockOf(t)] = {}
    <3>1. ASSUME NEW u \in Exited(i) PROVE BlockOf(u) # BlockOf(t) /\ BlockOf(u) \in Blocks
      BY <1>1, <1>2, StrideOwner, BlockOfType DEF Exited
    <3>2. \A u \in Exited(i) : counted[BlockOf(u)] \cap counted[BlockOf(t)] = {}
      BY <1>0, <3>1 DEF TallyInv, TalliesExact
    <3>3. QED
      BY <3>2, FlushedIs
  <2>4. IsFiniteSet(Flushed(i)) /\ IsFiniteSet(counted[BlockOf(t)])
    <3>1. Flushed(i) \subseteq AllCounted /\ counted[BlockOf(t)] \subseteq AllCounted
      BY <1>0, FlushedIs DEF AllCounted
    <3>2. QED
      BY <3>1, FS_Subset DEF TallyInv
  <2>5. shared[BlockOf(t)][i] = Cardinality(OfLength(counted[BlockOf(t)], i))
    BY <1>0, <1>1, CountingBlock DEF TallyInv, TalliesExact
  <2>6. global'[i] = global[i] + shared[BlockOf(t)][i]
    BY <1>2 DEF Flush
  <2>7. QED
    BY <2>2, <2>3, <2>4, <2>5, <2>6, OfLengthUnion
<1>3. CASE i \notin Stride(t)
  <2>1. Exited(i)' = Exited(i)
    BY <1>1, <1>3 DEF Exited, Stride, LaneOf
  <2>2. Flushed(i)' = Flushed(i)
    BY <1>1, <2>1 DEF Flushed, Exited, Stride, LaneOf
  <2>3. global'[i] = global[i]
    BY <1>3 DEF Flush
  <2>4. QED
    BY <2>2, <2>3
<1>4. QED
  BY <1>2, <1>3

LEMMA GlobalStep ==
  TallyInv /\ [Next]_vars =>
    (host' # "idle" /\ ~HasNoEdges' =>
       \A i \in Lengths : global'[i] = Cardinality(OfLength(Flushed(i)', i)))
<1> SUFFICES ASSUME TallyInv, [Next]_vars, host' # "idle", ~HasNoEdges',
                    NEW i \in Lengths
             PROVE  global'[i] = Cardinality(OfLength(Flushed(i)', i))
  OBVIOUS
<1>0. TypeOK /\ HostInStep /\ BlocksInStep
  BY DEF TallyInv, ShapeInv
<1>1. CASE Launch
  <2>1. Flushed(i)' = {}
    BY <1>1 DEF Launch, Flushed
  <2>2. OfLength({}, i) = {} /\ global'[i] = 0
    BY <1>1 DEF OfLength, Launch
  <2>3. QED
    BY <2>1, <2>2, FS_EmptySet
<1>2. CASE ReturnEmpty
  BY <1>2 DEF ReturnEmpty, HasNoEdges
<1>3. CASE host # "idle" /\ ~HasNoEdges
  <2>1. global[i] = Cardinality(OfLength(Flushed(i), i))
    BY <1>3 DEF TallyInv, TalliesExact
  <2>2. ASSUME NEW t \in Threads, Flush(t)
        PROVE  global'[i] = Cardinality(OfLength(Flushed(i)', i))
    BY <2>1, <2>2, GlobalFlush
  <2>3. ASSUME NEW t \in Threads, CountCycle(t)
        PROVE  global'[i] = Cardinality(OfLength(Flushed(i)', i))
    <3>1. pc' = pc /\ global' = global /\ pc[t] = "search"
      BY <2>3 DEF CountCycle
    <3>2. \A u \in Exited(i) : BlockOf(u) # BlockOf(t) /\ BlockOf(u) \in Blocks
      BY <1>0, <3>1, BlockOfType DEF BlocksInStep, Exited
    <3>3. \A u \in Exited(i) : counted'[BlockOf(u)] = counted[BlockOf(u)]
      BY <2>3, <3>2, CountedIsNew DEF TallyInv
    <3>4. Exited(i)' = Exited(i)
      BY <3>1 DEF Exited, Stride, LaneOf
    <3>5. Flushed(i)' = UNION {counted'[BlockOf(u)] : u \in Exited(i)'}
      BY DEF Flushed, Exited, Stride, LaneOf, BlockOf
    <3>6. Flushed(i)' = Flushed(i)
      BY <3>3, <3>4, <3>5, FlushedIs
    <3>7. QED
      BY <2>1, <3>1, <3>6
  <2>4. ASSUME counted' = counted, global' = global,
               \A u \in Threads : pc'[u] = "exited" <=> pc[u] = "exited"
        PROVE  global'[i] = Cardinality(OfLength(Flushed(i)', i))
    <3>1. Flushed(i)' = Flushed(i)
      BY <2>4 DEF Flushed, Stride, LaneOf, BlockOf
    <3>2. QED
      BY <2>1, <2>4, <3>1
  <2>5. ASSUME NEW t \in Threads,
               Clear(t) \/ ClaimRoot(t) \/ LeaveQueue(t) \/ Pop(t) \/ SkipEdge(t) \/ Push(t)
        PROVE  global'[i] = Cardinality(OfLength(Flushed(i)', i))
    <3>1. counted' = counted /\ global' = global /\ Thread(t) /\ pc[t] # "flush"
      BY <2>5 DEF Thread, Search, Clear, ClaimRoot, LeaveQueue, Pop, SkipEdge, Push
    <3>2. QED
      BY <1>0, <2>4, <3>1, ThreadMoves
  <2>6. ASSUME NEW b \in Blocks, Sync(b)
        PROVE  global'[i] = Cardinality(OfLength(Flushed(i)', i))
    <3>1. \A u \in Threads : pc'[u] = "exited" <=> pc[u] = "exited"
      <4>1. ASSUME NEW u \in Threads PROVE pc'[u] = "exited" <=> pc[u] = "exited"
        <5>1. CASE BlockOf(u) = b
          BY <1>0, <2>6, <5>1, SyncMoves
        <5>2. CASE BlockOf(u) # b
          BY <1>0, <2>6, <5>2, SyncMoves
        <5>3. QED
          BY <5>1, <5>2
      <4>2. QED
        BY <4>1
    <3>2. QED
      BY <1>0, <2>4, <2>6, <3>1, SyncMoves
  <2>7. CASE Collect \/ UNCHANGED vars
    BY <2>4, <2>7 DEF Collect, vars, device
  <2>8. QED
    BY <1>1, <1>2, <2>2, <2>3, <2>5, <2>6, <2>7
       DEF Next, Host, Thread, Search, Returned
<1>4. CASE host = "idle" \/ HasNoEdges
  <2>1. graph' = graph /\ HasNoEdges' = HasNoEdges
    BY DEF Next, Host, ReturnEmpty, Launch, Collect, Thread, Search, Clear, ClaimRoot,
           LeaveQueue, Pop, CountCycle, SkipEdge, Push, Flush, Sync, ClearBarrier,
           FlushBarrier, Barrier, Returned, vars, device, HasNoEdges
  <2>2. host = "idle"
    BY <1>4, <2>1
  <2>3. QED
    BY <1>0, <1>1, <1>2, <2>2, ThreadMoves, SyncMoves
       DEF Next, Host, Collect, Returned, vars
<1>5. QED
  BY <1>3, <1>4

-----------------------------------------------------------------------------
(***************************************************************************)
(* The result.                                                             *)
(***************************************************************************)
\* Without edges there is nothing to count.
LEMMA EdgelessHasNoCycle ==
  ASSUME TypeOK, HasNoEdges
  PROVE  AllCycles = {}
<1>1. SUFFICES ASSUME NEW c \in AllCycles PROVE FALSE
  OBVIOUS
<1>2. c[1] \in V /\ Successor(c, 1) \in Neighbours(graph, c[1])
  BY CycleShape
<1>3. graph[c[1]] = <<>>
  BY <1>2 DEF HasNoEdges
<1>4. QED
  BY <1>2, <1>3 DEF Neighbours

\* When every thread has left the kernel, every cycle is counted and every
\* count has reached the global histogram.
LEMMA NothingLeft ==
  ASSUME TallyInv, host = "running", \A t \in Threads : pc[t] = "exited"
  PROVE  /\ AllCounted = AllCycles
         /\ \A i \in Lengths : global[i] = Cardinality(OfLength(AllCycles, i))
<1>0. TypeOK /\ ~HasNoEdges
  BY DEF TallyInv, ShapeInv, HostInStep
<1>1. V # {}
  BY <1>0 DEF HasNoEdges
<1>2. GridBlocks \in Nat \ {0}
  BY <1>1, GridType DEF V, GridBlocks
<1>3. \E t \in Threads : TRUE
  BY <1>2, BlockInhabited DEF Blocks
<1>4. counter >= N
  BY <1>3 DEF TallyInv, Drained
<1>5. Claimed = V /\ Searching = {}
  BY <1>0, <1>4 DEF Claimed, V, Searching, TypeOK
<1>6. AllCounted = AllCycles
  <2>1. \A c \in AllCycles : c[1] \in V
    BY <1>0, CycleShape
  <2>2. QED
    BY <1>5, <2>1 DEF TallyInv, CountedArePassed
<1>7. ASSUME NEW i \in Lengths
      PROVE  global[i] = Cardinality(OfLength(AllCycles, i))
  <2>1. \A b \in Blocks : \E t \in Exited(i) : BlockOf(t) = b
    BY StrideCovers DEF Exited
  <2>2. Flushed(i) = AllCounted
    BY <2>1, FlushedIs DEF AllCounted
  <2>3. global[i] = Cardinality(OfLength(Flushed(i), i))
    BY <1>0 DEF TallyInv, TalliesExact
  <2>4. QED
    BY <1>6, <2>2, <2>3
<1>8. QED
  BY <1>6, <1>7

\* The two ways the call returns, and the frame of all other steps.
LEMMA Reports ==
  ASSUME TallyInv, ReturnEmpty \/ Collect
  PROVE  /\ AllCounted = AllCycles
         /\ result = NoResult
         /\ result' = HistogramOf(AllCycles, MaxCycleLength)
         /\ UNCHANGED <<graph, counted>>
<1>0. TypeOK /\ CountedArePassed /\ result = NoResult
  BY DEF TallyInv, ShapeInv, ReturnEmpty, Collect
<1>1. CASE ReturnEmpty
  <2>1. AllCycles = {} /\ AllCounted = {}
    BY <1>0, <1>1, EdgelessHasNoCycle DEF ReturnEmpty, CountedArePassed
  <2>2. \A len : Cardinality(OfLength({}, len)) = 0
    BY FS_EmptySet DEF OfLength
  <2>3. QED
    BY <1>0, <1>1, <2>1, <2>2 DEF ReturnEmpty, HistogramOf, device
<1>2. CASE Collect
  <2>1. AllCounted = AllCycles
        /\ \A i \in Lengths : global[i] = Cardinality(OfLength(AllCycles, i))
    BY <1>2, NothingLeft DEF Collect
  <2>2. \A len \in 2..MaxCycleLength : len \in Lengths
    BY DEF Lengths
  <2>3. QED
    BY <1>0, <1>2, <2>1, <2>2 DEF Collect, HistogramOf, device
<1>3. QED
  BY <1>1, <1>2

LEMMA Elsewhere ==
  ASSUME [Next]_vars, ~ReturnEmpty, ~Collect
  PROVE  /\ UNCHANGED <<graph, result>>
         /\ host' = "done" <=> host = "done"
BY DEF Next, Host, Launch, Thread, Search, Clear, ClaimRoot, LeaveQueue, Pop,
       CountCycle, SkipEdge, Push, Flush, Sync, ClearBarrier, FlushBarrier, Barrier,
       Returned, vars, device

LEMMA TallyInit == Init => TallyInv /\ ResultExact
<1> SUFFICES ASSUME Init PROVE TallyInv /\ ResultExact
  OBVIOUS
<1>1. ShapeInv /\ CountedArePassed
  BY TypeInit, PassedInit DEF ShapeInv
<1>2. \A b \in Blocks : counted[b] = {} /\ ~Counting(b)
  BY BlockInhabited DEF Init, Counting
<1>3. AllCounted = {} /\ IsFiniteSet(AllCounted)
  BY <1>2, FS_EmptySet DEF AllCounted
<1>4. TalliesExact
  BY <1>2 DEF Init, TalliesExact
<1>5. QED
  BY <1>1, <1>2, <1>3, <1>4
     DEF TallyInv, Init, BlocksInStep, NoneCounted, StridesClear, Drained, ResultExact

LEMMA TallyStep == TallyInv /\ [Next]_vars => TallyInv'
<1> SUFFICES ASSUME TallyInv, [Next]_vars PROVE TallyInv'
  OBVIOUS
<1>1. ShapeInv'
  BY TypeStep, StackStep, HostStep, ClaimsStep DEF TallyInv, ShapeInv
<1>2. CountedArePassed'
  BY PassedStep DEF TallyInv
<1>3. BlocksInStep'
  BY StepInBlock DEF TallyInv, ShapeInv
<1>4. NoneCounted' /\ StridesClear' /\ Drained' /\ IsFiniteSet(AllCounted')
  BY NoneCountedStep, StridesClearStep, DrainedStep, FiniteStep
<1>5. host' # "done" => result' = NoResult
  BY Elsewhere DEF TallyInv, ReturnEmpty, Collect
<1>6. TalliesExact'
  BY DisjointStep, SharedStep, GlobalStep DEF TalliesExact
<1>7. QED
  BY <1>1, <1>2, <1>3, <1>4, <1>5, <1>6 DEF TallyInv

LEMMA TallyInvariant == Spec => []TallyInv
<1>1. Init => TallyInv
  BY TallyInit
<1>2. QED
  BY <1>1, TallyStep, PTL DEF Spec

\* No count is lost or made twice between the threads of a block, or between
\* the blocks and the global histogram.
THEOREM TalliesAreExact == Spec => []TalliesExact
<1>1. TallyInv => TalliesExact
  BY DEF TallyInv
<1>2. QED
  BY <1>1, TallyInvariant, PTL

\* The histogram the call returns is that of the simple cycles of its graph,
\* for every graph, grid and length bound.
THEOREM ReturnsTheHistogram == Spec => []ResultExact
<1>1. TallyInv /\ ResultExact /\ [Next]_vars => ResultExact'
  <2> SUFFICES ASSUME TallyInv, ResultExact, [Next]_vars, host' = "done"
               PROVE  result' = HistogramOf(AllCycles', MaxCycleLength)
    BY DEF ResultExact
  <2>1. CASE ReturnEmpty \/ Collect
    BY <2>1, Reports DEF AllCycles
  <2>2. CASE ~ReturnEmpty /\ ~Collect
    BY <2>2, Elsewhere DEF ResultExact, AllCycles
  <2>3. QED
    BY <2>1, <2>2
<1>2. Init => ResultExact
  BY TallyInit
<1>3. QED
  BY <1>1, <1>2, TallyInvariant, PTL DEF Spec

\* The backend implements CycleCounting: it counts every cycle once and then
\* reports, whatever the order in which its threads run.
THEOREM ImplementsCounting == Spec => CountsCycles
<1>1. Init => Abstract!Init
  BY DEF Init, Abstract!Init, AllCounted
<1>2. TallyInv /\ [Next]_vars => [Abstract!Next]_(Abstract!vars)
  <2> SUFFICES ASSUME TallyInv, [Next]_vars
               PROVE  Abstract!Next \/ UNCHANGED Abstract!vars
    OBVIOUS
  <2>1. CASE ReturnEmpty \/ Collect
    <3>1. AllCounted' = AllCounted /\ AllCycles' = AllCycles
      BY <2>1, Reports DEF AllCounted, AllCycles
    <3>2. Abstract!Report
      BY <2>1, <3>1, Reports DEF Abstract!Report
    <3>3. QED
      BY <3>2 DEF Abstract!Next
  <2>2. ASSUME NEW t \in Threads, CountCycle(t) PROVE Abstract!Next
    <3>1. /\ AllCounted' = AllCounted \cup {OnStack(t)}
          /\ OnStack(t) \in AllCycles \ AllCounted
      BY <2>2, CountedIsNew DEF TallyInv
    <3>2. AllCycles' = AllCycles /\ result' = result
      BY <2>2 DEF CountCycle, AllCycles
    <3>3. result = NoResult
      <4>1. pc[t] = "search"
        BY <2>2 DEF CountCycle
      <4>2. host # "done"
        BY <4>1 DEF TallyInv, ShapeInv, HostInStep
      <4>3. QED
        BY <4>2 DEF TallyInv
    <3>4. Abstract!Count
      BY <3>1, <3>2, <3>3 DEF Abstract!Count
    <3>5. QED
      BY <3>4 DEF Abstract!Next
  <2>3. CASE ~ReturnEmpty /\ ~Collect /\ counted' = counted
    BY <2>3, Elsewhere DEF Abstract!vars, AllCounted, AllCycles
  <2>4. QED
    BY <2>1, <2>2, <2>3, CountedFrame
<1>3. QED
  BY <1>1, <1>2, TallyInvariant, PTL DEF Spec, CountsCycles, Abstract!Spec
=============================================================================
