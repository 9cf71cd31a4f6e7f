----------------------------- MODULE CudaUpdate -----------------------------
(***************************************************************************)
(* The two ways to update a histogram after a batch: a team of threads, as *)
(* DynamicUpdate has it, or update_static_histogram_cuda, which launches a *)
(* kernel for the deletions and one for the insertions.                    *)
(*                                                                         *)
(* Each changed edge has a thread of its own, all of them at once; its     *)
(* index is the edge's.  Path and cursor slices have as many slots as a    *)
(* cycle has vertices at most, visited slices as many as the graph has.    *)
(* The threads share one array of counts.  Variables of DynamicUpdate that *)
(* are not the caller's, or the result's, belong to the team.              *)
(***************************************************************************)
EXTENDS DynamicUpdate

CONSTANT Junk       \* what uninitialised device memory holds

VARIABLES
  backend,      \* "openmp" or "cuda"
  pc,           \* where each thread of the kernel is; none before the launch
  depth,        \* depth of each thread
  path,         \* path_pool
  cursor,       \* cursor_pool, one-based in the adjacency of the vertex
  marks,        \* visited_pool
  tallies,      \* counts
  deleted       \* the counts of the first kernel, copied back

team == <<next, owner, calls, visited, counts, local>>
device == <<pc, depth, path, cursor, marks, tallies, deleted>>
allVars == <<vars, backend, device>>

InitUpdate ==
  /\ Init
  /\ backend \in {"openmp", "cuda"}
  /\ pc = <<>> /\ depth = <<>>
  /\ path = <<>> /\ cursor = <<>> /\ marks = <<>>
  /\ tallies = NoCounts /\ deleted = NoCounts

-----------------------------------------------------------------------------
(***************************************************************************)
(* The pools: the slices of the thread of a change.                        *)
(***************************************************************************)
Works == DOMAIN pc
PathSlot(work, d) == (work - 1) * MaxLength + d - 1

\* Mutant: the visited slices have the size of the others.
VisitedSlotShort(work, v) == (work - 1) * MaxLength + v

VisitedSlot(work, v) == (work - 1) * N + v

Source(work) == Changes[work][1]
Target(work) == Changes[work][2]
VertexAt(work, d) == path[PathSlot(work, d)]
Top(work) == VertexAt(work, depth[work])
Cursor(work) == cursor[PathSlot(work, depth[work])]
OutOfEdges(work) == Cursor(work) > Len(graph[Top(work)])
NextOf(work) == graph[Top(work)][Cursor(work)]

\* find_change: the index of the change from v to w, 0 for none.
FindChange(v, w) ==
  LET search[range \in (1..(Len(Changes) + 1)) \X (0..Len(Changes))] ==
        LET low == range[1]
            high == range[2]
            mid == (low + high) \div 2
        IN  IF low > high THEN 0
            ELSE IF SmallerEdge(Changes[mid], <<v, w>>) THEN search[<<mid + 1, high>>]
            ELSE IF SmallerEdge(<<v, w>>, Changes[mid]) THEN search[<<low, mid - 1>>]
            ELSE mid
  IN  search[<<1, Len(Changes)>>]

\* The edge to the next vertex belongs to an earlier change.
OwnedBefore(work) == FindChange(Top(work), NextOf(work)) \in 1..(work - 1)

-----------------------------------------------------------------------------
(***************************************************************************)
(* The host: count_owned_cycles_device, for each phase.                    *)
(***************************************************************************)
\* The upload, the allocations, the two cudaMemset and the launch.
Launch ==
  /\ phase # "done" /\ pc = <<>> /\ Changes # <<>>
  /\ LET works == 1..Len(Changes)
     IN  /\ pc' = [work \in works |-> "begin"]
         /\ depth' = [work \in works |-> 0]
         /\ path' = [slot \in 0..(Len(Changes) * MaxLength - 1) |-> Junk]
         /\ cursor' = [slot \in 0..(Len(Changes) * MaxLength - 1) |-> Junk]
         /\ marks' = [slot \in 0..(Len(Changes) * N - 1) |-> 0]
  /\ tallies' = NoCounts
  /\ UNCHANGED <<vars, backend, deleted>>

\* cudaFree; what the device held is of no use to the next launch.
FreeKernel ==
  /\ pc' = <<>> /\ depth' = <<>>
  /\ path' = <<>> /\ cursor' = <<>> /\ marks' = <<>>
  /\ tallies' = NoCounts

\* cudaDeviceSynchronize has returned, or there was nothing to launch.
KernelOver == \A work \in Works : pc[work] = "exited"

Finished == KernelOver /\ (pc = <<>> => Changes = <<>>)

\* The counts are copied back, the device memory is freed, the batch is applied.
CollectDeletions ==
  /\ phase = "delete" /\ Finished
  /\ deleted' = tallies
  /\ phase' = "insert"
  /\ graph' = ApplyBatch(initial, batch)
  /\ FreeKernel
  /\ UNCHANGED <<input, team, delta, result, live, backend>>

\* The counts of the insertions, less those of the deletions, are the delta.
CollectInsertions ==
  /\ phase = "insert" /\ Finished
  /\ delta' = [len \in Lengths |-> tallies[len] - deleted[len]]
  /\ phase' = "done"
  /\ result' = ApplyDelta(HistogramOf(before, MaxLength), delta')
  /\ FreeKernel
  /\ UNCHANGED <<input, team, graph, live, backend, deleted>>

-----------------------------------------------------------------------------
(***************************************************************************)
(* The kernel: count_owned_cycles_kernel, an iteration of its loop each.   *)
(***************************************************************************)
Kernel == <<input, team, phase, graph, delta, result, backend, deleted>>

BeginChange(work) ==
  /\ pc[work] = "begin"
  /\ marks' = [marks EXCEPT ![VisitedSlot(work, Source(work))] = 1,
                            ![VisitedSlot(work, Target(work))] = 1]
  /\ depth' = [depth EXCEPT ![work] = 1]
  /\ path' = [path EXCEPT ![PathSlot(work, 1)] = Target(work)]
  /\ cursor' = [cursor EXCEPT ![PathSlot(work, 1)] = 1]
  /\ pc' = [pc EXCEPT ![work] = "search"]
  /\ UNCHANGED <<Kernel, tallies, live>>

\* visited[current] = 0, the target's mark included.
Pop(work) ==
  /\ pc[work] = "search" /\ OutOfEdges(work)
  /\ marks' = [marks EXCEPT ![VisitedSlot(work, Top(work))] = 0]
  /\ depth' = [depth EXCEPT ![work] = @ - 1]
  /\ pc' = [pc EXCEPT ![work] = IF depth[work] = 1 THEN "exited" ELSE @]
  /\ UNCHANGED <<Kernel, path, cursor, tallies, live>>

Advance(work) == cursor' = [cursor EXCEPT ![PathSlot(work, depth[work])] = @ + 1]

ClosesChange(work) == ~OwnedBefore(work) /\ NextOf(work) = Source(work)

CycleOf(work) == Rotated(<<Source(work)>> \o [d \in 1..depth[work] |-> VertexAt(work, d)])

\* atomicAdd(&counts[length], 1): depth is below the bound, as it is in DynamicUpdate.
CountOwned(work) ==
  /\ pc[work] = "search" /\ ~OutOfEdges(work)
  /\ ClosesChange(work)
  /\ Advance(work)
  /\ tallies' = [tallies EXCEPT ![depth[work] + 1] = @ + 1]
  /\ live' = IF phase = "delete" THEN live \ {CycleOf(work)} ELSE live \cup {CycleOf(work)}
  /\ UNCHANGED <<Kernel, pc, depth, path, marks>>

LeadsNowhere(work) ==
  \/ OwnedBefore(work)
  \/ NextOf(work) = Target(work) \/ marks[VisitedSlot(work, NextOf(work))] # 0
  \/ depth[work] + 1 >= MaxLength

Pass(work) ==
  /\ pc[work] = "search" /\ ~OutOfEdges(work)
  /\ ~ClosesChange(work) /\ LeadsNowhere(work)
  /\ Advance(work)
  /\ UNCHANGED <<Kernel, pc, depth, path, marks, tallies, live>>

Push(work) ==
  /\ pc[work] = "search" /\ ~OutOfEdges(work)
  /\ ~ClosesChange(work) /\ ~LeadsNowhere(work)
  /\ marks' = [marks EXCEPT ![VisitedSlot(work, NextOf(work))] = 1]
  /\ path' = [path EXCEPT ![PathSlot(work, depth[work] + 1)] = NextOf(work)]
  /\ cursor' = [cursor EXCEPT ![PathSlot(work, depth[work])] = @ + 1,
                              ![PathSlot(work, depth[work] + 1)] = 1]
  /\ depth' = [depth EXCEPT ![work] = @ + 1]
  /\ UNCHANGED <<Kernel, pc, tallies, live>>

CountOwnedCycles(work) ==
  BeginChange(work) \/ Pop(work) \/ CountOwned(work) \/ Pass(work) \/ Push(work)

-----------------------------------------------------------------------------
UpdateCuda ==
  /\ backend = "cuda"
  /\ Launch \/ CollectDeletions \/ CollectInsertions \/ \E work \in Works : CountOwnedCycles(work)

UpdateOpenMP == backend = "openmp" /\ Next /\ UNCHANGED <<backend, device>>

\* The call has returned; nothing is left to do.
CudaReturned == phase = "done" /\ backend = "cuda" /\ UNCHANGED allVars

NextUpdate == UpdateCuda \/ UpdateOpenMP \/ CudaReturned

UpdateSpec == InitUpdate /\ [][NextUpdate]_allVars

-----------------------------------------------------------------------------
(***************************************************************************)
(* Properties.                                                             *)
(***************************************************************************)
\* All changes are searched at once in three pools, and no slice reaches into
\* another: that of a change holds a simple path from its target, by edges of the
\* phase's graph, none of an earlier change; it marks this path and the source and,
\* when the search is over, the source only.
SlicesPrivate ==
  \A work \in Works :
    pc[work] # "begin" =>
      /\ {v \in V : marks[VisitedSlot(work, v)] # 0} =
           {Source(work)} \cup {VertexAt(work, d) : d \in 1..depth[work]}
      /\ \A c, d \in 1..depth[work] : c # d => VertexAt(work, c) # VertexAt(work, d)
      /\ depth[work] > 0 => VertexAt(work, 1) = Target(work)
      /\ \A d \in 1..(depth[work] - 1) :
           LET edge == <<VertexAt(work, d), VertexAt(work, d + 1)>>
           IN  edge \in Edges(graph) /\ \A i \in 1..(work - 1) : Changes[i] # edge

\* What the device has counted, with the counts it has copied back, is at any time
\* the difference between the histogram before the batch and that of the cycles
\* accounted for: no cycle is counted for two of the changes searched at once.
DeviceLedgerExact ==
  \A len \in Lengths :
    Cardinality(OfLength(live, len)) =
      HistogramOf(before, MaxLength)[len] - deleted[len]
        + (IF phase = "done" THEN delta[len] + deleted[len] ELSE Sign * tallies[len])

\* The sums of the threads, or the device's counts, are exact while they are made.
LedgersExact == IF backend = "openmp" THEN LedgerExact ELSE DeviceLedgerExact
=============================================================================
