---------------------------- MODULE CudaKernels -----------------------------
(***************************************************************************)
(* The CUDA counters that give each work item a thread of its own: one for *)
(* a root of the static search, one for a start event of the time-window   *)
(* and the temporal search.                                                *)
(*                                                                         *)
(* The host packs the graph into flat arrays, lists the work and launches  *)
(* as many blocks as it takes; the last one may have threads without work. *)
(* Every thread clears and flushes its stride of the block's histogram.    *)
(* The frames of thread t are a slice of pools made for the work, so that  *)
(* the positions of a slice depend on the bound of the request.            *)
(*                                                                         *)
(* As in CudaWorkQueue an action is one iteration of a search loop, which  *)
(* makes at most one atomicAdd, or a thread's stride of a clear or flush.  *)
(***************************************************************************)
EXTENDS CycleUnion, CudaTimestamp, CudaBranchSplit, FiniteSetsExt

CONSTANTS
  N,            \* vertex_count
  MaxLength,    \* the longest cycle a histogram here can show
  BlockSize,    \* threads in a block
  OffsetMax,    \* std::numeric_limits<DeviceOffset>::max()
  Junk,         \* what uninitialised device memory holds
  Requests,     \* the calls: mode, view, width and bound
  NoResult,     \* stands for a call that has not returned
  Refused       \* stands for a call that throws

V == 0..(N - 1)
Modes == {"static", "window", "temporal"}

\* The view is one that build_graph_view returns: no self-loops, entries and
\* timestamps in order.
ASSUME KernelAssumption ==
  /\ N \in Nat \ {0} /\ MaxLength \in Nat /\ BlockSize \in Nat \ {0}
  /\ OffsetMax \in Nat /\ TimeMax \in Nat /\ Junk \in Int
  /\ \A r \in Requests :
       /\ r.mode \in Modes /\ r.width \in Int /\ r.bound \in 0..MaxLength
       /\ r.view \in [V -> Seq([vertex : V, times : Seq(0..TimeMax)])]
       /\ \A v \in V : \A e \in 1..Len(r.view[v]) :
            LET entry == r.view[v][e]
            IN  /\ entry.vertex # v
                /\ \A d \in 1..(e - 1) : r.view[v][d].vertex < entry.vertex
                /\ entry.times # <<>>
                /\ \A i, j \in 1..Len(entry.times) : i < j => entry.times[i] <= entry.times[j]

VARIABLES
  request,      \* the call
  cycles,       \* history: the cycles the call is to count
  host,         \* "idle", "running" (kernel launched), "done"
  result,       \* the histogram the host returns
  packed,       \* the uploaded arrays
  work,         \* the uploaded work items
  global,       \* histogram, in global memory
  shared,       \* block_histogram of each block
  pc,           \* where each thread is
  depth,        \* depth, a register of each thread
  frames,       \* the pools, whose arrays have the same slots, as records
  counted       \* history: the cycles counted

device == <<packed, work, global, shared, pc, depth, frames, counted>>
vars == <<request, cycles, host, result, device>>

Mode == request.mode
Bound == request.bound
Lengths == 0..Bound

-----------------------------------------------------------------------------
(***************************************************************************)
(* pack_graph_for_cuda.  Positions count from one.                         *)
(***************************************************************************)
Adjacency(g) == [v \in DOMAIN g |-> [e \in 1..Len(g[v]) |-> g[v][e].vertex]]

\* The arrays: the entries of v have the positions from offsets[v] up to, and not,
\* offsets[v + 1]; so have the timestamps of entry e from begins[e] to ends[e].
Pack(g) ==
  LET entries == FlattenSeq([v \in 1..N |-> g[v - 1]])
      timesOf(n) == FlattenSeq([e \in 1..n |-> entries[e].times])
      edgesOf(n) == FlattenSeq([v \in 1..n |-> g[v - 1]])
  IN  [offsets |-> [v \in 0..N |-> 1 + Len(edgesOf(v))],
       neighbors |-> [e \in 1..Len(entries) |-> entries[e].vertex],
       begins |-> [e \in 1..Len(entries) |-> 1 + Len(timesOf(e - 1))],
       ends |-> [e \in 1..Len(entries) |-> 1 + Len(timesOf(e))],
       timestamps |-> timesOf(Len(entries))]

(***************************************************************************)
(* The work.  "of" is the start an event comes from; the device has not    *)
(* got it.                                                                 *)
(***************************************************************************)
Roots == [i \in 1..N |-> [root |-> i - 1]]

\* build_start_events, a loop each for the events of an entry, a vertex and the view.
EntryEvents(g, v, e) ==
  [k \in 1..Len(g[v][e].times) |->
     [root |-> v, first |-> g[v][e].vertex, start |-> g[v][e].times[k],
      of |-> [root |-> v, entry |-> e, at |-> k]]]

VertexEvents(g, v) == FlattenSeq([e \in 1..Len(g[v]) |-> EntryEvents(g, v, e)])
StartEvents(g) == FlattenSeq([i \in 1..N |-> VertexEvents(g, i - 1)])

\* build_temporal_start_events
TemporalStartEvents(g, width) ==
  LET all == StartEvents(g)
      keeps(event) == Union(g, event.root, event.first, event.start, width) # {}
  IN  FlattenSeq([i \in 1..Len(all) |-> IF keeps(all[i]) THEN <<all[i]>> ELSE <<>>])

Work ==
  CASE Mode = "static" -> Roots
    [] Mode = "window" -> StartEvents(request.view)
    [] Mode = "temporal" -> TemporalStartEvents(request.view, request.width)

-----------------------------------------------------------------------------
(***************************************************************************)
(* The grid.                                                               *)
(***************************************************************************)
GridBlocks(count) == (count + BlockSize - 1) \div BlockSize   \* checked_grid_blocks

Blocks  == 0..(GridBlocks(Len(work)) - 1)
Threads == 0..(GridBlocks(Len(work)) * BlockSize - 1)
BlockOf(t) == t \div BlockSize
Stride(t) == {i \in Lengths : i % BlockSize = t % BlockSize}

\* Mutant: a slice is one frame too short.
BaseShort(t) == t * (Bound - 1)

\* base; the slot of a one-based depth d.
Base(t) == t * Bound
Slot(t, d) == Base(t) + d - 1

\* checked_stack_slots throws.
TooManySlots(count) == Bound # 0 /\ count > OffsetMax \div Bound

\* The work of thread t, whose number is that of its item.
HasWork(t) == t < Len(work)
Item(t) == work[t + 1]

JunkFrame == [vertex |-> Junk, edge |-> Junk, active |-> Junk,
              stamp |-> Junk, stampEnd |-> Junk, arrival |-> Junk]

\* All cycles the call is to count, with their lengths.
Counted(n, c) == [length |-> n, cycle |-> c]

CyclesOf(r) ==
  CASE r.mode = "static" ->
         {Counted(Len(c), c) : c \in Cycles(Adjacency(r.view), r.bound)}
    [] r.mode = "window" ->
         {Counted(Len(c[2]), c) : c \in WindowCycles(r.view, r.width, r.bound)}
    [] r.mode = "temporal" ->
         {Counted(Len(c), c) : c \in TemporalCycles(r.view, r.width, r.bound)}

Init ==
  /\ request \in Requests
  /\ cycles = CyclesOf(request)
  /\ host = "idle"
  /\ result = NoResult
  /\ packed = <<>> /\ work = <<>>
  /\ global = <<>> /\ shared = <<>>
  /\ pc = <<>> /\ depth = <<>> /\ frames = <<>>
  /\ counted = {}

-----------------------------------------------------------------------------
(***************************************************************************)
(* The host.                                                               *)
(***************************************************************************)
\* validate_max_cycle_length and validate_window_width.
Invalid == Bound < 2 \/ (Mode # "static" /\ request.width < 0)

\* compute_temporal_cycle_union throws for a start, even if it is on no cycle.
UnionOverflows ==
  /\ Mode = "temporal"
  /\ \E s \in Starts(request.view) : Overflows(StartTime(request.view, s), request.width)

HasNoEdges == \A v \in V : request.view[v] = <<>>

Return(histogram) ==
  /\ host' = "done"
  /\ result' = histogram
  /\ UNCHANGED <<request, cycles, device>>

Refuse ==
  /\ host = "idle"
  /\ \/ Invalid \/ UnionOverflows
     \/ ~HasNoEdges /\ TooManySlots(Len(Work))
  /\ Return(Refused)

ReturnEmpty ==
  /\ host = "idle"
  /\ ~Invalid /\ ~UnionOverflows
  /\ HasNoEdges \/ Work = <<>>
  /\ Return([len \in 2..MaxLength |-> 0])

\* The upload, the allocations, the cudaMemset and the launch.
Launch ==
  /\ host = "idle"
  /\ ~Invalid /\ ~UnionOverflows /\ ~HasNoEdges
  /\ Work # <<>> /\ ~TooManySlots(Len(Work))
  /\ host' = "running"
  /\ packed' = Pack(request.view)
  /\ work' = Work
  /\ LET blocks == GridBlocks(Len(Work))
         threads == 0..(blocks * BlockSize - 1)
     IN  /\ global' = [i \in Lengths |-> 0]
         /\ shared' = [b \in 0..(blocks - 1) |-> [i \in Lengths |-> Junk]]
         /\ pc' = [t \in threads |-> "clear"]
         /\ depth' = [t \in threads |-> 0]
         /\ frames' = [slot \in 0..(Len(Work) * Bound - 1) |-> JunkFrame]
  /\ UNCHANGED <<request, cycles, result, counted>>

\* cudaDeviceSynchronize returns and the histogram is copied back.
Collect ==
  /\ host = "running"
  /\ \A t \in Threads : pc[t] = "exited"
  /\ Return([len \in 2..MaxLength |-> IF len <= Bound THEN global[len] ELSE 0])

HostSteps == Refuse \/ ReturnEmpty \/ Launch \/ Collect

\* The three entry points share these steps and differ in the work.
CountSimpleCycles == Mode = "static" /\ HostSteps
CountTimeWindowCycles == Mode = "window" /\ HostSteps
CountTemporalCycles == Mode = "temporal" /\ HostSteps

-----------------------------------------------------------------------------
(***************************************************************************)
(* The histogram of a block.                                               *)
(***************************************************************************)
Frame == <<request, cycles, host, result, packed, work>>

\* clear_block_histogram, up to its __syncthreads.
Clear(t) ==
  /\ pc[t] = "clear"
  /\ shared' = [shared EXCEPT ![BlockOf(t)] =
                  [i \in Lengths |-> IF i \in Stride(t) THEN 0 ELSE @[i]]]
  /\ pc' = [pc EXCEPT ![t] = "cleared"]
  /\ UNCHANGED <<Frame, global, depth, frames, counted>>

\* __syncthreads lets the threads of block b go when all are there.
Barrier(b, from, to) ==
  LET block == {t \in Threads : BlockOf(t) = b}
  IN  /\ \A t \in block : pc[t] = from
      /\ pc' = [t \in Threads |-> IF t \in block THEN to ELSE pc[t]]
      /\ UNCHANGED <<Frame, global, shared, depth, frames, counted>>

Sync(b) == Barrier(b, "cleared", "begin") \/ Barrier(b, "drained", "flush")

\* flush_block_histogram after its __syncthreads.
Flush(t) ==
  /\ pc[t] = "flush"
  /\ global' = [i \in Lengths |->
                  IF i \in Stride(t) THEN global[i] + shared[BlockOf(t)][i] ELSE global[i]]
  /\ pc' = [pc EXCEPT ![t] = "exited"]
  /\ UNCHANGED <<Frame, shared, depth, frames, counted>>

-----------------------------------------------------------------------------
(***************************************************************************)
(* The search of one item.  Its first frame is the root's; that of an      *)
(* event never runs, as the edge to the second one is given.               *)
(***************************************************************************)
FirstDepth == IF Mode = "static" THEN 1 ELSE 2

FrameAt(v, arrival) ==
  [JunkFrame EXCEPT !.vertex = v, !.edge = packed.offsets[v], !.active = 0,
                    !.stamp = 0, !.stampEnd = 0, !.arrival = arrival]

HasSearch(t) ==
  HasWork(t) /\ (Mode = "temporal" => ~Overflows(Item(t).start, request.width))

\* Threads past the work, and events the temporal kernel finds overflowing, have
\* nothing to search but meet the others at the barriers.
BeginIdle(t) ==
  /\ pc[t] = "begin" /\ ~HasSearch(t)
  /\ pc' = [pc EXCEPT ![t] = "drained"]
  /\ UNCHANGED <<Frame, global, shared, depth, frames, counted>>

BeginRoot(t) ==
  frames' = [frames EXCEPT ![Slot(t, 1)] = FrameAt(Item(t).root, Junk)]

BeginEvent(t) ==
  frames' = [frames EXCEPT
    ![Slot(t, 1)] = [JunkFrame EXCEPT !.vertex = Item(t).root, !.arrival = Item(t).start],
    ![Slot(t, 2)] = FrameAt(Item(t).first, Item(t).start)]

Begin(t) ==
  /\ pc[t] = "begin" /\ HasSearch(t)
  /\ IF Mode = "static" THEN BeginRoot(t) ELSE BeginEvent(t)
  /\ depth' = [depth EXCEPT ![t] = FirstDepth]
  /\ pc' = [pc EXCEPT ![t] = "search"]
  /\ UNCHANGED <<Frame, global, shared, counted>>

Top(t) == frames[Slot(t, depth[t])]
VertexAt(t, d) == frames[Slot(t, d)].vertex

HasEdge(t) == Top(t).edge < packed.offsets[Top(t).vertex + 1]
HasStamp(t) == Mode = "temporal" /\ Top(t).stamp < Top(t).stampEnd

\* The temporal search visits the next vertex once for each timestamp of the active
\* edge, the others once for each edge.
HasNext(t) == IF Mode = "temporal" THEN HasStamp(t) ELSE HasEdge(t)
NextEdge(t) == IF Mode = "temporal" THEN Top(t).active ELSE Top(t).edge
NextVertex(t) == packed.neighbors[NextEdge(t)]

Advanced(t) ==
  IF Mode = "temporal" THEN [Top(t) EXCEPT !.stamp = @ + 1]
                       ELSE [Top(t) EXCEPT !.edge = @ + 1]

\* Mutant: the start's own timestamp may be used again by every edge.
AdmittedTwice(t) ==
  Mode = "window" =>
    DeviceHasTimestamp(packed.timestamps, packed.begins[NextEdge(t)],
                       packed.ends[NextEdge(t)], Item(t).start, request.width, TRUE)

\* The time-window search takes an edge that has a timestamp in the window.
Admitted(t) ==
  Mode = "window" =>
    DeviceHasTimestamp(packed.timestamps, packed.begins[NextEdge(t)],
                       packed.ends[NextEdge(t)], Item(t).start, request.width,
                       Item(t).root > Top(t).vertex)

PathContains(t, v) == \E d \in 1..depth[t] : VertexAt(t, d) = v

ClosesCycle(t) == Admitted(t) /\ NextVertex(t) = Item(t).root /\ depth[t] >= 2

Pruned(t) ==
  \/ ~Admitted(t)
  \/ Mode = "static" /\ NextVertex(t) <= Item(t).root
  \/ depth[t] >= Bound
  \/ PathContains(t, NextVertex(t))

\* The cycle on the frames of t.  The event that leaves a vertex is the one its
\* frame has consumed last, or is consuming.
EventAt(t, d, stamp) ==
  LET frame == frames[Slot(t, d)]
  IN  [root |-> frame.vertex,
       entry |-> frame.active - packed.offsets[frame.vertex] + 1,
       at |-> stamp - packed.begins[frame.active] + 1]

OnFrames(t) ==
  CASE Mode = "static" -> [d \in 1..depth[t] |-> VertexAt(t, d)]
    [] Mode = "window" -> <<Item(t).of, [d \in 1..depth[t] |-> VertexAt(t, d)]>>
    [] Mode = "temporal" ->
         [d \in 1..depth[t] |->
            IF d = 1 THEN Item(t).of
            ELSE EventAt(t, d, frames[Slot(t, d)].stamp - (IF d < depth[t] THEN 1 ELSE 0))]

\* The edge, or event, closes a cycle: increment_block_histogram.
CountCycle(t) ==
  /\ pc[t] = "search" /\ HasNext(t)
  /\ ClosesCycle(t)
  /\ frames' = [frames EXCEPT ![Slot(t, depth[t])] = Advanced(t)]
  /\ shared' = [shared EXCEPT ![BlockOf(t)][depth[t]] = @ + 1]
  /\ counted' = counted \cup {Counted(depth[t], OnFrames(t))}
  /\ UNCHANGED <<Frame, global, pc, depth>>

Skip(t) ==
  /\ pc[t] = "search" /\ HasNext(t)
  /\ ~ClosesCycle(t) /\ Pruned(t)
  /\ frames' = [frames EXCEPT ![Slot(t, depth[t])] = Advanced(t)]
  /\ UNCHANGED <<Frame, global, shared, pc, depth, counted>>

Push(t) ==
  /\ pc[t] = "search" /\ HasNext(t)
  /\ ~ClosesCycle(t) /\ ~Pruned(t)
  /\ LET arrival == IF Mode = "temporal" THEN packed.timestamps[Top(t).stamp] ELSE Junk
     IN  frames' = [frames EXCEPT ![Slot(t, depth[t])] = Advanced(t),
                                  ![Slot(t, depth[t] + 1)] = FrameAt(NextVertex(t), arrival)]
  /\ depth' = [depth EXCEPT ![t] = @ + 1]
  /\ UNCHANGED <<Frame, global, shared, pc, counted>>

\* Mutant: an edge without later timestamps is looked at again.
ActivateForever(t) ==
  /\ pc[t] = "search" /\ Mode = "temporal"
  /\ ~HasStamp(t) /\ HasEdge(t)
  /\ LET range == DeviceAfter(packed.timestamps, packed.begins[Top(t).edge],
                              packed.ends[Top(t).edge], Top(t).arrival,
                              Item(t).start + request.width)
     IN  frames' = [frames EXCEPT ![Slot(t, depth[t])] =
                      IF IsEmpty(range) THEN @
                      ELSE [@ EXCEPT !.edge = @ + 1, !.active = Top(t).edge,
                                     !.stamp = range.begin, !.stampEnd = range.end]]
  /\ UNCHANGED <<Frame, global, shared, pc, depth, counted>>

\* The temporal search takes up the next edge, if it has a timestamp after the
\* arrival and in the window.
Activate(t) ==
  /\ pc[t] = "search" /\ Mode = "temporal"
  /\ ~HasStamp(t) /\ HasEdge(t)
  /\ LET range == DeviceAfter(packed.timestamps, packed.begins[Top(t).edge],
                              packed.ends[Top(t).edge], Top(t).arrival,
                              Item(t).start + request.width)
         passed == [Top(t) EXCEPT !.edge = @ + 1]
     IN  frames' = [frames EXCEPT ![Slot(t, depth[t])] =
                      IF IsEmpty(range) THEN passed
                      ELSE [passed EXCEPT !.active = Top(t).edge,
                                          !.stamp = range.begin, !.stampEnd = range.end]]
  /\ UNCHANGED <<Frame, global, shared, pc, depth, counted>>

Pop(t) ==
  /\ pc[t] = "search" /\ ~HasStamp(t) /\ ~HasEdge(t)
  /\ depth' = [depth EXCEPT ![t] = @ - 1]
  /\ pc' = [pc EXCEPT ![t] = IF depth[t] = FirstDepth THEN "drained" ELSE @]
  /\ UNCHANGED <<Frame, global, shared, frames, counted>>

Search(t) ==
  BeginIdle(t) \/ Begin(t) \/ CountCycle(t) \/ Skip(t) \/ Push(t) \/ Activate(t) \/ Pop(t)

CountRoots(t) == Mode = "static" /\ Search(t)
CountTimeWindowStartEvents(t) == Mode = "window" /\ Search(t)
CountTemporalStartEvents(t) == Mode = "temporal" /\ Search(t)

-----------------------------------------------------------------------------
Host == CountSimpleCycles \/ CountTimeWindowCycles \/ CountTemporalCycles

Thread(t) ==
  \/ Clear(t) \/ Flush(t)
  \/ CountRoots(t) \/ CountTimeWindowStartEvents(t) \/ CountTemporalStartEvents(t)

\* The call has returned; nothing is left to do.
Returned == host = "done" /\ UNCHANGED vars

Next ==
  \/ Host
  \/ \E t \in Threads : Thread(t)
  \/ \E b \in Blocks : Sync(b)
  \/ Returned

Spec == Init /\ [][Next]_vars

\* The device runs every thread of a launched grid and releases a complete
\* barrier, and cudaDeviceSynchronize returns.
FairSpec ==
  /\ Spec
  /\ WF_vars(Host)
  /\ WF_vars(\E t \in Threads : Thread(t))
  /\ WF_vars(\E b \in Blocks : Sync(b))

-----------------------------------------------------------------------------
(***************************************************************************)
(* Properties.                                                             *)
(***************************************************************************)
Searching == {t \in Threads : pc[t] = "search"}

\* The frame at depth d leads to vertex w, by an edge of its vertex.
LeadsTo(t, d, w) ==
  LET frame == frames[Slot(t, d)]
      edge == IF Mode = "temporal" THEN frame.active ELSE frame.edge - 1
  IN  /\ edge \in packed.offsets[frame.vertex]..(packed.offsets[frame.vertex + 1] - 1)
      /\ packed.neighbors[edge] = w

\* The frame at depth d is entered by an event the one below has consumed last,
\* after the event that one is entered by.
Arrives(t, d) ==
  LET frame == frames[Slot(t, d)]
      below == frames[Slot(t, d - 1)]
  IN  /\ below.stamp - 1 \in packed.begins[below.active]..(below.stampEnd - 1)
      /\ frame.arrival = packed.timestamps[below.stamp - 1]
      /\ frame.arrival > below.arrival

\* A thread's frames hold a simple path from its item to where its search is, made
\* of edges of the packed graph: no thread's slice reaches into another's, and the
\* flat positions never leave the entries of a vertex or an edge.  In the temporal
\* search the arrivals increase along the path.
PathsIntact ==
  \A t \in Searching :
    /\ VertexAt(t, 1) = Item(t).root
    /\ Mode # "static" => VertexAt(t, 2) = Item(t).first
    /\ \A c, d \in 1..depth[t] : c # d => VertexAt(t, c) # VertexAt(t, d)
    /\ \A d \in FirstDepth..(depth[t] - 1) : LeadsTo(t, d, VertexAt(t, d + 1))
    /\ Mode = "temporal" => \A d \in 3..depth[t] : Arrives(t, d)

\* The counts by length of a set of cycles.
CountsByLength(S, max) == [len \in 2..max |-> Cardinality({c \in S : c.length = len})]

Abstract == INSTANCE CycleCounting
  WITH HistogramOf <- CountsByLength, MaxCycleLength <- MaxLength,
       result <- IF result = Refused THEN NoResult ELSE result

\* The kernels count each simple, time-window or temporal cycle once, from the
\* start it has by definition, whatever the interleaving of the threads and of
\* their additions; nothing is reported while a cycle is left.
CountsCycles == Abstract!Spec

\* The call ends: no thread is left at a barrier, with work or without.
CallEnds == <>(host = "done")

\* The positions of a range.
Positions(range) == range.begin..(range.end - 1)

\* In every entry of the packed graph the device's binary searches find the
\* timestamps that the host's definitions name, for any start and width, also where
\* a timestamp repeats, where no timestamp or all of them match, where the end of
\* the window is the greatest timestamp there is, and nothing past that.
DeviceSearchAgrees ==
  host = "idle" =>
    LET g == request.view
        p == Pack(g)
        EdgeAt(v, e) == p.offsets[v] + e - 1
    IN  \A v \in V : \A e \in 1..Len(g[v]) :
          LET b == p.begins[EdgeAt(v, e)]
              n == p.ends[EdgeAt(v, e)]
          IN  \A start \in 0..TimeMax :
                /\ \A end \in 0..TimeMax :
                     Positions(DeviceAfter(p.timestamps, b, n, start, end)) =
                       {i + b - 1 : i \in TimestampsAfter(g[v][e], start, end)}
                /\ \A width \in -1..TimeMax, root \in V :
                     DeviceHasTimestamp(p.timestamps, b, n, start, width, root > v) =
                       /\ width >= 0 /\ start + width <= TimeMax
                       /\ HasTimestamp(g[v][e], v, root, start, width)

\* The start events that the cycle union leaves out start no temporal cycle, and the
\* union of each of the others has all vertices of the cycles it starts, although it
\* ignores the order of the events between.
UnionKeepsCycles ==
  host = "idle" =>
    \A width \in 0..TimeMax :
      \A c \in TemporalCycles(request.view, width, N) :
        {c[i].root : i \in 1..Len(c)} \subseteq
          Union(request.view, c[1].root, Target(request.view, c[1]),
                StartTime(request.view, c[1]), width)

\* A static search split at any depth counts each cycle once: on the host, those
\* that are shorter than the cutoff; from the one item whose path it begins with
\* each of the others, also one of the cutoff's length, which its item has to close
\* at once.  So say the comment of cuda_branch_split.cpp and cuda_work_splitting.md.
SplitCountsOnce ==
  host = "idle" =>
    LET g == Adjacency(request.view)
    IN  \A cutoff \in 2..(N + 1), bound \in 2..N :
          LET closed == SplitClosed(g, cutoff, bound)
              items == SplitItems(g, cutoff, bound)
          IN  /\ closed = {c \in Cycles(g, bound) : Len(c) < cutoff}
              /\ UNION {Continuation(g, item, bound) : item \in items} =
                   {c \in Cycles(g, bound) : Len(c) >= cutoff}
              /\ \A item \in items : \A other \in items \ {item} :
                   Continuation(g, item, bound) \cap Continuation(g, other, bound) = {}

\* The header, cuda_branch_split.hpp:44: cycles that close at a length up to the
\* cutoff, the cutoff included, are counted by the host into closed.
ClosedUpToCutoff ==
  host = "idle" =>
    LET g == Adjacency(request.view)
    IN  \A cutoff \in 2..(N + 1), bound \in 2..N :
          {c \in Cycles(g, bound) : Len(c) <= cutoff} \subseteq SplitClosed(g, cutoff, bound)

\* The comment of checked_window_end: the host rejects negative widths and overflow
\* before kernels are launched.
WindowsFit ==
  host = "running" /\ Mode # "static" =>
    \A t \in Threads : HasWork(t) => ~Overflows(Item(t).start, request.width)
=============================================================================
