--------------------------- MODULE CudaWorkQueue ----------------------------
(***************************************************************************)
(* The work-queue backend for static simple cycles:                        *)
(* count_simple_cycles_johnson_queue_device on the host and                *)
(* count_roots_queue_kernel on the device.                                 *)
(*                                                                         *)
(* The host clears a global histogram and a work counter, launches a fixed *)
(* grid and waits for it.  Each thread clears its stride of the histogram  *)
(* its block shares, then claims roots from the counter with atomicAdd and *)
(* searches each depth first for the cycles whose least vertex it is, on a *)
(* stack that is a slice of one pool allocated for the whole grid.  When   *)
(* the counter is exhausted the block meets at a barrier and its threads   *)
(* add the shared histogram to the global one, a stride each.              *)
(*                                                                         *)
(* One action is one visit to shared or global memory: an iteration of the *)
(* search loop makes at most one atomicAdd and otherwise touches only the  *)
(* thread's own registers and stack.  A thread's stride of a clear or of a *)
(* flush is one action: no other thread touches that stride meanwhile, and *)
(* the additions to the global histogram commute.                          *)
(***************************************************************************)
EXTENDS SimpleCycles

CONSTANTS
  N,                \* vertex_count
  MaxCycleLength,   \* max_cycle_length
  ResidentBlocks,   \* blocks_per_sm times the device's multiprocessor count
  BlockSize,        \* block_size
  Graphs,           \* the graphs a caller may pass
  Junk,             \* what uninitialised device memory holds
  NoResult          \* stands for a call that has not returned

V == 0..(N - 1)

ASSUME SizeAssumption ==
  /\ N \in Nat
  /\ MaxCycleLength \in Nat /\ MaxCycleLength >= 2   \* validate_max_cycle_length
  /\ ResidentBlocks \in Nat \ {0}
  /\ BlockSize \in Nat \ {0}
  /\ Junk \in Nat

ASSUME GraphAssumption == Graphs \subseteq Adjacencies(V)

(***************************************************************************)
(* plan_work_queue_launch: a wave of resident blocks, never more blocks    *)
(* than work items.                                                        *)
(***************************************************************************)
GridBlocks == IF ResidentBlocks <= N THEN ResidentBlocks ELSE N

Blocks  == 0..(GridBlocks - 1)
Threads == 0..(GridBlocks * BlockSize - 1)     \* thread_id over the grid
Lengths == 0..MaxCycleLength                   \* indices of a histogram

BlockOf(t) == t \div BlockSize                 \* blockIdx.x
LaneOf(t)  == t % BlockSize                    \* threadIdx.x

\* The indices thread t visits when its block strides over a histogram.
Stride(t) == {i \in Lengths : i % BlockSize = LaneOf(t)}

\* Mutant: slices one slot too short, so that neighbours overlap.
StackBaseShort(t) == t * (MaxCycleLength - 1)

\* base of thread t, and its slot of the pool for a one-based depth d.
StackBase(t) == t * MaxCycleLength
Slot(t, d) == StackBase(t) + d - 1
Pool == 0..(GridBlocks * BlockSize * MaxCycleLength - 1)

VARIABLES
  graph,        \* the uploaded adjacency
  host,         \* "idle", "running" (kernel launched), "done"
  result,       \* the histogram the host returns
  counter,      \* *work_counter
  global,       \* histogram, in global memory
  shared,       \* block_histogram of each block
  pc,           \* where each thread is
  root,         \* root, a register of each thread
  depth,        \* depth, a register of each thread
  paths,        \* the pool of path vertices
  cursors,      \* the pool of cursors, one-based in the adjacency of the vertex
  counted       \* history: the cycles each block has counted

device == <<counter, global, shared, pc, root, depth, paths, cursors, counted>>
vars == <<graph, host, result, device>>

Init ==
  /\ graph \in Graphs
  /\ host = "idle"
  /\ result = NoResult
  /\ counter = Junk
  /\ global = [i \in Lengths |-> Junk]
  /\ shared = [b \in Blocks |-> [i \in Lengths |-> Junk]]
  /\ pc = [t \in Threads |-> "off"]
  /\ root = [t \in Threads |-> 0]
  /\ depth = [t \in Threads |-> 0]
  /\ paths = [s \in Pool |-> Junk]
  /\ cursors = [s \in Pool |-> Junk]
  /\ counted = [b \in Blocks |-> {}]

-----------------------------------------------------------------------------
(***************************************************************************)
(* The host.                                                               *)
(***************************************************************************)
HasNoEdges == \A v \in V : graph[v] = <<>>

\* The early return: a graph without vertices or edges has no cycle.
ReturnEmpty ==
  /\ host = "idle"
  /\ HasNoEdges
  /\ host' = "done"
  /\ result' = [len \in 2..MaxCycleLength |-> 0]
  /\ UNCHANGED <<graph, device>>

\* The two cudaMemset calls and the launch.
Launch ==
  /\ host = "idle"
  /\ ~HasNoEdges
  /\ host' = "running"
  /\ counter' = 0
  /\ global' = [i \in Lengths |-> 0]
  /\ pc' = [t \in Threads |-> "clear"]
  /\ UNCHANGED <<graph, result, shared, root, depth, paths, cursors, counted>>

\* Mutant: the histogram is copied back without waiting for the kernel.
CollectEarly ==
  /\ host = "running"
  /\ host' = "done"
  /\ result' = [len \in 2..MaxCycleLength |-> global[len]]
  /\ UNCHANGED <<graph, device>>

\* cudaDeviceSynchronize returns once every thread has left the kernel; the
\* histogram is copied back and lengths 2 .. max become the result.
Collect ==
  /\ host = "running"
  /\ \A t \in Threads : pc[t] = "exited"
  /\ host' = "done"
  /\ result' = [len \in 2..MaxCycleLength |-> global[len]]
  /\ UNCHANGED <<graph, device>>

-----------------------------------------------------------------------------
(***************************************************************************)
(* The block histogram.                                                    *)
(***************************************************************************)
\* clear_block_histogram, up to its __syncthreads.
Clear(t) ==
  /\ pc[t] = "clear"
  /\ shared' = [shared EXCEPT ![BlockOf(t)] =
                  [i \in Lengths |-> IF i \in Stride(t) THEN 0 ELSE @[i]]]
  /\ pc' = [pc EXCEPT ![t] = "cleared"]
  /\ UNCHANGED <<graph, host, result, counter, global, root, depth, paths,
                 cursors, counted>>

\* __syncthreads: the threads of block b leave it together, when all are there.
Barrier(b, from, to) ==
  /\ \A u \in Threads : BlockOf(u) = b => pc[u] = from
  /\ pc' = [u \in Threads |-> IF BlockOf(u) = b THEN to ELSE pc[u]]
  /\ UNCHANGED <<graph, host, result, counter, global, shared, root, depth,
                 paths, cursors, counted>>

\* Mutants: a barrier that is missing holds nobody back.
LeaveAlone(b, from, to) ==
  \E u \in Threads :
    /\ BlockOf(u) = b
    /\ pc[u] = from
    /\ pc' = [pc EXCEPT ![u] = to]
    /\ UNCHANGED <<graph, host, result, counter, global, shared, root, depth,
                   paths, cursors, counted>>
NoClearBarrier(b) == LeaveAlone(b, "cleared", "claim")
NoFlushBarrier(b) == LeaveAlone(b, "drained", "flush")

ClearBarrier(b) == Barrier(b, "cleared", "claim")

FlushBarrier(b) == Barrier(b, "drained", "flush")

\* flush_block_histogram after its __syncthreads: one atomicAdd per index of
\* the stride (adding zero is the skipped addition).
Flush(t) ==
  /\ pc[t] = "flush"
  /\ global' = [i \in Lengths |->
                  IF i \in Stride(t) THEN global[i] + shared[BlockOf(t)][i]
                                     ELSE global[i]]
  /\ pc' = [pc EXCEPT ![t] = "exited"]
  /\ UNCHANGED <<graph, host, result, counter, shared, root, depth, paths,
                 cursors, counted>>

-----------------------------------------------------------------------------
(***************************************************************************)
(* Claiming a root.                                                        *)
(***************************************************************************)
\* Mutant: the counter is read and written back without atomicAdd, so the
\* increment of another thread may be lost.
ClaimRootTorn(t) ==
  /\ pc[t] = "claim"
  /\ counter < N
  /\ counter' \in {counter, counter + 1}
  /\ root' = [root EXCEPT ![t] = counter]
  /\ depth' = [depth EXCEPT ![t] = 1]
  /\ paths' = [paths EXCEPT ![Slot(t, 1)] = counter]
  /\ cursors' = [cursors EXCEPT ![Slot(t, 1)] = 1]
  /\ pc' = [pc EXCEPT ![t] = "search"]
  /\ UNCHANGED <<graph, host, result, global, shared, counted>>

\* atomicAdd(work_counter, 1) returned a vertex: the search starts at it.
ClaimRoot(t) ==
  /\ pc[t] = "claim"
  /\ counter < N
  /\ counter' = counter + 1
  /\ root' = [root EXCEPT ![t] = counter]
  /\ depth' = [depth EXCEPT ![t] = 1]
  /\ paths' = [paths EXCEPT ![Slot(t, 1)] = counter]
  /\ cursors' = [cursors EXCEPT ![Slot(t, 1)] = 1]
  /\ pc' = [pc EXCEPT ![t] = "search"]
  /\ UNCHANGED <<graph, host, result, global, shared, counted>>

\* It returned a number past the last vertex: the queue is exhausted.  The
\* counter still moves.
LeaveQueue(t) ==
  /\ pc[t] = "claim"
  /\ counter >= N
  /\ counter' = counter + 1
  /\ pc' = [pc EXCEPT ![t] = "drained"]
  /\ UNCHANGED <<graph, host, result, global, shared, root, depth, paths,
                 cursors, counted>>

-----------------------------------------------------------------------------
(***************************************************************************)
(* One iteration of the search loop.                                       *)
(***************************************************************************)
Cursor(t) == cursors[Slot(t, depth[t])]
Adjacent(t) == graph[paths[Slot(t, depth[t])]]

Exhausted(t) == Cursor(t) > Len(Adjacent(t))
NextVertex(t) == Adjacent(t)[Cursor(t)]

\* The cycle on the stack of t, from the root to the top frame.
OnStack(t) == [i \in 1..depth[t] |-> paths[Slot(t, i)]]

\* path_contains: is x on the stack of t?
PathContains(t, x) == \E i \in 1..depth[t] : paths[Slot(t, i)] = x

Closes(t, x) == x = root[t] /\ depth[t] >= 2

\* Mutants: the length bound is forgotten, the path is not searched for the
\* vertex, the bound is off by one.
PrunedUnbounded(t, x) == x <= root[t] \/ PathContains(t, x)
PrunedRevisiting(t, x) == x <= root[t] \/ depth[t] >= MaxCycleLength
PrunedEarly(t, x) ==
  x <= root[t] \/ depth[t] >= MaxCycleLength - 1 \/ PathContains(t, x)

Pruned(t, x) ==
  \/ x <= root[t]
  \/ depth[t] >= MaxCycleLength
  \/ PathContains(t, x)

\* The frame is exhausted: drop it; without frames the thread claims again.
Pop(t) ==
  /\ pc[t] = "search"
  /\ Exhausted(t)
  /\ depth' = [depth EXCEPT ![t] = @ - 1]
  /\ pc' = [pc EXCEPT ![t] = IF depth[t] = 1 THEN "claim" ELSE @]
  /\ UNCHANGED <<graph, host, result, counter, global, shared, root, paths,
                 cursors, counted>>

\* ++cursor on the top frame.
Advance(t) == cursors' = [cursors EXCEPT ![Slot(t, depth[t])] = @ + 1]

\* The edge closes a cycle: increment_block_histogram.
CountCycle(t) ==
  /\ pc[t] = "search"
  /\ ~Exhausted(t)
  /\ Closes(t, NextVertex(t))
  /\ Advance(t)
  /\ shared' = [shared EXCEPT ![BlockOf(t)][depth[t]] = @ + 1]
  /\ counted' = [counted EXCEPT ![BlockOf(t)] = @ \cup {OnStack(t)}]
  /\ UNCHANGED <<graph, host, result, counter, global, pc, root, depth, paths>>

\* Mutant: the cursor stays on a skipped edge.
SkipEdgeForever(t) ==
  /\ pc[t] = "search"
  /\ ~Exhausted(t)
  /\ ~Closes(t, NextVertex(t))
  /\ Pruned(t, NextVertex(t))
  /\ UNCHANGED vars

\* The edge leads nowhere the search of this root goes.
SkipEdge(t) ==
  /\ pc[t] = "search"
  /\ ~Exhausted(t)
  /\ ~Closes(t, NextVertex(t))
  /\ Pruned(t, NextVertex(t))
  /\ Advance(t)
  /\ UNCHANGED <<graph, host, result, counter, global, shared, pc, root, depth,
                 paths, counted>>

\* The edge extends the path by a frame of its own.
Push(t) ==
  /\ pc[t] = "search"
  /\ ~Exhausted(t)
  /\ ~Closes(t, NextVertex(t))
  /\ ~Pruned(t, NextVertex(t))
  /\ depth' = [depth EXCEPT ![t] = @ + 1]
  /\ paths' = [paths EXCEPT ![Slot(t, depth[t] + 1)] = NextVertex(t)]
  /\ cursors' = [cursors EXCEPT ![Slot(t, depth[t])] = @ + 1,
                                ![Slot(t, depth[t] + 1)] = 1]
  /\ UNCHANGED <<graph, host, result, counter, global, shared, pc, root, counted>>

-----------------------------------------------------------------------------
Search(t) == Pop(t) \/ CountCycle(t) \/ SkipEdge(t) \/ Push(t)

Thread(t) == Clear(t) \/ ClaimRoot(t) \/ LeaveQueue(t) \/ Search(t) \/ Flush(t)

Sync(b) == ClearBarrier(b) \/ FlushBarrier(b)

Host == ReturnEmpty \/ Launch \/ Collect

\* The call has returned; nothing is left to do.
Returned == host = "done" /\ UNCHANGED vars

Next ==
  \/ Host
  \/ \E t \in Threads : Thread(t)
  \/ \E b \in Blocks : Sync(b)
  \/ Returned

\* The device keeps running every thread of a launched grid, releases a
\* complete barrier, and cudaDeviceSynchronize returns.
Fairness ==
  /\ WF_vars(Host)
  /\ \A t \in Threads : WF_vars(Thread(t))
  /\ \A b \in Blocks : WF_vars(Sync(b))

Spec == Init /\ [][Next]_vars

FairSpec == Spec /\ Fairness

-----------------------------------------------------------------------------
(***************************************************************************)
(* Properties.                                                             *)
(***************************************************************************)
Phases ==
  {"off", "clear", "cleared", "claim", "search", "drained", "flush", "exited"}

\* Types of the host's and the device's state.
TypeOK ==
  /\ graph \in Graphs
  /\ host \in {"idle", "running", "done"}
  /\ counter \in Nat
  /\ global \in [Lengths -> Nat]
  /\ shared \in [Blocks -> [Lengths -> Nat]]
  /\ pc \in [Threads -> Phases]
  /\ root \in [Threads -> Nat]
  /\ depth \in [Threads -> 0..MaxCycleLength]
  /\ paths \in [Pool -> Nat]
  /\ cursors \in [Pool -> Nat]
  /\ DOMAIN counted = Blocks

VertexAt(t, d) == paths[Slot(t, d)]
CursorAt(t, d) == cursors[Slot(t, d)]
Consumed(t, d) == {graph[VertexAt(t, d)][j] : j \in 1..(CursorAt(t, d) - 1)}

Searching == {t \in Threads : pc[t] = "search"}

PathOnStack(t) ==
  /\ depth[t] >= 1
  /\ VertexAt(t, 1) = root[t]
  /\ \A i \in 1..depth[t] :
       /\ VertexAt(t, i) \in V
       /\ CursorAt(t, i) \in 1..(Len(graph[VertexAt(t, i)]) + 1)
  /\ \A i \in 2..depth[t] : root[t] < VertexAt(t, i)
  /\ \A i, j \in 1..depth[t] : i # j => VertexAt(t, i) # VertexAt(t, j)
  /\ \A i \in 1..(depth[t] - 1) :
       /\ CursorAt(t, i) >= 2
       /\ VertexAt(t, i + 1) = graph[VertexAt(t, i)][CursorAt(t, i) - 1]

\* The stack of a searching thread holds a simple path of vertices above its
\* root, each the neighbour that the frame below has consumed last.
StackOK == \A t \in Searching : PathOnStack(t)

\* The device works for a launched kernel only.
HostInStep ==
  /\ host = "idle" => \A t \in Threads : pc[t] = "off"
  /\ host = "running" => ~HasNoEdges
  /\ host # "idle" =>
       \A t \in Threads : IF HasNoEdges THEN pc[t] = "off" ELSE pc[t] # "off"
  /\ host = "done" => \A t \in Threads : pc[t] \in {"off", "exited"}

Claimed == IF host = "idle" THEN {} ELSE {r \in V : r < counter}

\* The work counter hands out each root to one thread.
ClaimsExclusive ==
  \A t \in Searching :
    /\ root[t] \in Claimed
    /\ \A u \in Searching : root[t] = root[u] => t = u

\* The closed walk c runs along the stack of t up to frame k.
Follows(c, t, k) == k <= Len(c) /\ \A i \in 1..k : c[i] = VertexAt(t, i)

\* The search of t has passed cycle c: c follows the stack of t up to some
\* frame and leaves it by an edge this frame has consumed, and not into the
\* subtree being searched.
Behind(t, c) ==
  \E k \in 1..depth[t] :
    /\ Follows(c, t, k)
    /\ Successor(c, k) \in Consumed(t, k)
    /\ k < depth[t] => Successor(c, k) # VertexAt(t, k + 1)

CyclesOf == [g \in Graphs |-> Cycles(g, MaxCycleLength)]
AllCycles == CyclesOf[graph]
AllCounted == UNION {counted[b] : b \in Blocks}

\* At every moment the counted cycles are exactly those of finished roots and
\* those that the searches of claimed roots have passed: no branch is cut that
\* holds a cycle, and nothing but a cycle is counted.
CountedArePassed ==
  /\ AllCounted \subseteq AllCycles
  /\ \A c \in AllCycles :
       c \in AllCounted <=>
         /\ c[1] \in Claimed
         /\ \A t \in Searching : root[t] = c[1] => Behind(t, c)

\* The threads of a block pass its barriers together: none counts before every
\* stride is cleared, none flushes before every search of the block is over.
BlocksInStep ==
  \A t, u \in Threads :
    BlockOf(t) = BlockOf(u) =>
      /\ pc[t] \in {"clear", "cleared"} => pc[u] \in {"clear", "cleared"}
      /\ pc[t] \in {"flush", "exited"} => pc[u] \in {"flush", "exited"}

Counting(b) ==
  \A t \in Threads : BlockOf(t) = b => pc[t] \notin {"off", "clear", "cleared"}

Flushed(i) ==
  UNION {counted[BlockOf(t)] : t \in {u \in Threads : pc[u] = "exited" /\ i \in Stride(u)}}

\* The integers agree with the cycles they stand for: no block counts a cycle
\* another one counts, a shared histogram holds the number of cycles its block
\* has counted, and the global one those of the blocks whose stride is flushed.
TalliesExact ==
  /\ \A b1, b2 \in Blocks : b1 # b2 => counted[b1] \cap counted[b2] = {}
  /\ \A b \in Blocks : Counting(b) =>
       \A i \in Lengths : shared[b][i] = Cardinality(OfLength(counted[b], i))
  /\ host # "idle" /\ ~HasNoEdges =>
       \A i \in Lengths : global[i] = Cardinality(OfLength(Flushed(i), i))

\* What the call returns is the histogram of the graph's simple cycles.
ResultExact ==
  host = "done" => result = HistogramOf(AllCycles, MaxCycleLength)

LiveStack(t) ==
  IF t \in Searching
  THEN [i \in 1..depth[t] |-> <<VertexAt(t, i), CursorAt(t, i)>>]
  ELSE <<>>

\* A step never writes the live frames of two threads.
StacksPrivate ==
  [][\A t, u \in Searching :
       LiveStack(t)' # LiveStack(t) /\ LiveStack(u)' # LiveStack(u) => t = u]_vars

Abstract == INSTANCE CycleCounting WITH cycles <- AllCycles, counted <- AllCounted

\* The backend counts each cycle once and reports when none is left, whatever
\* the interleaving of its threads.
CountsCycles == Abstract!Spec

\* The call returns: no thread is left at a barrier, no search runs for ever.
Returns == <>(host = "done")
=============================================================================
