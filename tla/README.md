# Specifications of the cycle-enumeration library

The library counts the cycles of a directed graph with timestamped edges, by
length. A request names a *mode* (static simple cycles, simple cycles within a
time window, temporal cycles), an *algorithm* (brute force, Johnson,
Read-Tarjan) and an *execution* (sequential, OpenMP, CUDA); all of them must
return the same histogram. A fourth operation takes the histogram of a graph and
a batch of edge changes and returns the histogram of the changed graph without
counting anew.

The modules here are translated from the code under `src/` (paths below are
relative to the repository). They are checked with TLC on small instances; the
`*Proofs` modules prove theorems for every value of the constants with TLAPS.

    tlc -workers 2 -config MCCudaWorkQueue.cfg MCCudaWorkQueue
    tlapm CudaWorkQueueProofs.tla

## The system

| Component | Source | State | Operations |
|---|---|---|---|
| CUDA work queue, static | `src/cuda/cuda_johnson_kernel.cu`, `cuda_johnson.cpp` | global histogram, work counter, a shared histogram per block, a pool of stacks, registers | memset, launch, clear, claim (atomicAdd), search iteration, barriers, flush, collect |
| Sequential Johnson | `src/sequential/johnson.cpp` | recursion, `blocked_`, `blocked_list_`, `path_`, histogram | `circuit`, `circuit_bounded`, `unblock`, `add_to_blocked_lists`, `run`; a second class for time windows |
| Sequential Read-Tarjan | `src/sequential/read_tarjan.cpp` | recursion with a copied blocked set, a main and an alternate path per call; `current_` shared | `find_path`, `follow_path`, `cycles_read_tarjan`, `run`; a second class for time windows |
| Brute force | `src/sequential/bruteforce.cpp` | path, visited flags | three depth-first searches, the reference the tests compare with |
| Incremental update | `src/dynamic/` | normalised batch, index of forbidden edges, `visited` and `counts` per thread, partial sums, delta | `apply_batch`, `count_cycles_through_edge`, merge, `apply_histogram_delta`; OpenMP and CUDA variants |
| Temporal Johnson, Read-Tarjan | `src/sequential/temporal_*.cpp` | closing times of a start; Johnson: a bundle of arrivals per call | `start`, `can_reach_root`, `dfs` with `extend_bundle` and `closing_count`, or `extend` |
| Cycle union | `src/sequential/cycle_union.cpp` | none | the vertices that may be on a temporal cycle with a start |
| OpenMP root-parallel counters | `src/openmp/openmp_{johnson,read_tarjan,temporal_johnson,temporal_read_tarjan}.cpp` | buffers and a histogram per thread | dynamic schedule over roots, `count_root`, merge |
| OpenMP task counter | `src/openmp/openmp_read_tarjan_tasks.cpp` | tasks with copied paths, a histogram per thread | task per branch, serial search below the cutoff |
| CUDA one thread per work item | `src/cuda/cuda_johnson_kernel.cu`, `cuda_johnson.cpp` | a slice of two to six pools per thread, a shared histogram per block, the global one | static, time-window and temporal kernel and host function |
| CUDA work items, packing, timestamp search | `src/cuda/cuda_work_item.cpp`, `cuda_graph.cpp`, `include/cycle_enum/cuda/cuda_timestamp.hpp` | flat arrays, start events | build, filter by the cycle union, binary searches |
| CUDA branch splitting | `src/cuda/cuda_branch_split.cpp` | prefixes, closed cycles | host search to the cutoff depth |
| Graph, parser, histogram, timestamps | `src/core/` | adjacency sorted by neighbour, timestamps sorted, a map from length to count | parse, build, increment, merge, range search |
| Options, engine, command line | `src/core/`, `src/cli/` | none | parse, validate, dispatch |

Who talks to whom. The engine calls one counter with a read-only graph view and
an options record; counters share no state with one another. Within a CUDA
counter the host and the threads of the grid meet through device memory, the
threads of a block through the shared histogram and `__syncthreads`, the host
and the grid through the launch and `cudaDeviceSynchronize`. Within an OpenMP
counter the threads share the schedule of the loop and write buffers of their
own, merged after it. The update calls the graph builder between its two loops.

What is hard, and what must hold:

* **Interleaving.** Roots are claimed, shared histograms cleared, increased and
  flushed by many threads in any order. Each root must be searched by one
  thread, no thread may use another's stack, and the sum must not depend on the
  order.
* **State that outlives what it was learnt from.** Johnson's blocked vertices,
  Read-Tarjan's known paths, the closing times of the temporal searches, the
  update's `visited` buffers. Using one of them when it is no longer true loses a
  cycle, silently.
* **Failure inside a team.** A worker may throw on one thread while others count.
* **Bounds.** The maximal length is at once the pruning depth, the number of
  slots of a stack and the size of a histogram; each is one off from another.
* **Equal timestamps.** A cycle within a window belongs to one of its edges, and
  of several with one timestamp to the least.
* **Batches.** A cycle through several changed edges belongs to the first of
  them, whichever thread looks first, and on the right snapshot of the graph.
* **Termination** of kernels with barriers and of recursions that prune by
  mutable flags.

Nothing in the repository is persisted or sent over a network: there are no
crashes, restarts or lost messages to model.

## The modules

| Module | What it is |
|---|---|
| `SimpleCycles` | the static graph and its simple cycles, as sets: the reference of the static counters |
| `WindowCycles` | the same for cycles within a time window, each with its start edge and timestamp |
| `CycleCounting` | abstract specification of any counter |
| `HistogramUpdate` | abstract specification of any incremental update |
| `CudaWorkQueue`, `MCCudaWorkQueue` | the work-queue kernel and its host function |
| `CudaWorkQueueProofs` | theorems about it |
| `CycleFacts` | lemmas: induction, least fixed points, iteration, cycles, depth-first search, sums |
| `Johnson`, `MCJohnson` | static Johnson, bounded and unbounded |
| `JohnsonProofs` | theorems about it |
| `JohnsonWindow` | time-window Johnson |
| `JohnsonWindowProofs` | theorems about it |
| `ReadTarjanPaths` | `find_path` and `follow_path`, shared by the two searches below |
| `ReadTarjan`, `MCReadTarjan` | static Read-Tarjan |
| `ReadTarjanProofs` | theorems about it |
| `ReadTarjanWindow` | time-window Read-Tarjan |
| `WindowParity`, `MCWindowParity` | the two time-window searches, given the same request one after the other |
| `OpenMPTasks`, `MCOpenMPTasks` | the tree of OpenMP tasks that counts static cycles |
| `OpenMPTasksProofs` | theorems about it |
| `DynamicUpdate` | the incremental update with a team of threads |
| `CudaUpdate`, `MCDynamicUpdate` | the same update by two kernels; both ways are checked together |
| `UpdateProofs` | theorems about the team and about both ways together, and lemmas about their lists, batches and first changes |
| `TemporalCycles` | temporal cycles as sequences of events: the reference of the temporal counters |
| `ClosingTimes` | `can_reach_root` with the closing times it keeps, and what they stand for |
| `RootTeam` | a team of threads over the roots: validation, schedule, failure, merge |
| `StaticRoots` | a thread's search of a root, static |
| `TemporalRoots` | what the temporal workers do alike: starts, closing times, pruning |
| `TemporalJohnson`, `TemporalReadTarjan` | the two temporal searches, of bundles and of single events |
| `OpenMPCounters`, `MCOpenMPCounters` | the four root-parallel counters over one team |
| `CudaTimestamp` | the device's binary searches and ranges |
| `CycleUnion` | the cycle union of a start |
| `CudaBranchSplit` | the splitting of a static search at a cutoff |
| `CudaKernels`, `MCCudaKernels` | the three kernels with one thread for each work item, and their hosts |
| `CudaKernelsProofs` | theorems about them, the binary searches, the union and the splitting |

A *history variable* `counted` (or `live`) holds the set of cycles behind the
integers of the code, which only know how many there were. It lets a property
say *which* cycle is lost or counted twice; no guard reads it.

**`CycleCounting`** has a set of cycles, counts them one at a time in any order,
each once, and reports the histogram when none is left. **`HistogramUpdate`**
drops the cycles the deletions destroy, turns, adds those the insertions create
and reports. The detailed modules implement them (`CountsCycles`,
`JohnsonCounts`, `CountsWindowCycles`, `ReadTarjanCounts`, `TasksCount`,
`UpdateIsRecompute`).
`CountsNothingTwice` is the part of that promise the time-window Read-Tarjan
search keeps.

**`CudaWorkQueue`.** The host is `ReturnEmpty`, `Launch`, `Collect`. A thread is
`Clear`, `ClaimRoot` or `LeaveQueue` (the two outcomes of the `atomicAdd`), the
search iterations `Pop`, `CountCycle`, `SkipEdge`, `Push`, and `Flush`; a block
is `ClearBarrier` and `FlushBarrier`. The two pools are arrays over all slots,
so that a wrong slice would show; depths and cursors start at one where the code
starts at zero. Uninitialised memory holds an arbitrary number `Junk`. One
action is one visit to shared or global memory. A thread's whole stride of a
clear or a flush is one action: no other thread of the block touches the stride,
and additions to the global histogram commute.

**`Johnson`, `ReadTarjan` and their window variants** keep the recursion as a
sequence of calls, with the loop offset and the locals of each. An action is an
iteration of the innermost call's loop or its return, with everything the return
does (`unblock` with its cascade, `add_to_blocked_lists`, restoring `current_`).
In `ReadTarjan*` the paths that `find_path` and `follow_path` compute are
operators, for they change nothing but the copies they are given: functions that
are recursive in the depth of the search, or in the number of edges looked at,
over a record that says which edges the search may take.

`WindowParity` gives the two time-window searches one request after the other, as
the parity test does; there they are checked and compared.

**`DynamicUpdate`.** The two loops of the update are handed out change by change
(`Claim`, in order, to any idle thread). A search reads a graph and a list that
are frozen for the phase and writes its thread's buffers only, so its iterations
(`Close`, `Skip`, `Descend`, `Backtrack`, `Finish`) interleave freely.
`EndDeletions` and `EndInsertions` are the merge at the end of each loop with
what follows it. With one thread the steps are those of the sequential update.

**`OpenMPTasks`.** `EnterSingle` and `MakeRootTask` are the single region,
`Begin` and the scheduling constraint of tied tasks are the OpenMP runtime's
(modelled from how the code uses it), `Spawn` makes a task of an extension below
the cutoff, `Descend` and `Backtrack` are the serial search above it, `Close`
counts into the histogram of the executing thread, `Join` is the barrier that
ends the region with the merge after it. A thread keeps a stack of tasks: those
it has suspended at the point where they made another, and the one it runs. A
task made and run at once by its maker is `Spawn` followed by `Begin`.

**`OpenMPCounters`.** `RootTeam` has the team: `Reject` is an argument refused
before there is one, `Enter` the making of a thread's worker in the region,
`Take` the schedule's next root for a free thread, `LoopOver` the barrier that
ends the loop, `Store` and `Merge` what follows. `StaticRoots`,
`TemporalJohnson` and `TemporalReadTarjan` extend it with the searches; they are
instances over the same variables, and a request names the one that runs. A team
of one is the sequential counter, so the sequential temporal searches
(`src/sequential/temporal_*.cpp`, the same members and loops) are modelled by the
same actions. A call of `can_reach_root` is part of the action that begins `dfs`
or `extend` (`Open`); it computes with the closing times as its recursion leaves
them. An exception ends a call of one thread with `Thrown`, and one that meets
the end of a parallel region ends the process, `Terminated`, as OpenMP has it.
The headers document exceptions whatever the number of threads: `FailureThrown`
states that, and does not hold (see the findings).

**`CudaKernels`.** `Refuse`, `ReturnEmpty`, `Launch` and `Collect` are the host,
for the work that `Work` lists: roots, start events, or the start events that the
cycle union keeps. A thread is `Clear`, `Begin` (or `BeginIdle` without work),
the iterations `CountCycle`, `Skip`, `Push`, `Activate` (the temporal search
takes up an edge's timestamps) and `Pop`, and `Flush`. The pools are one array of
records, for they have the same slots; what the code leaves uninitialised is
`Junk`. The graph is read through the packed arrays, whose positions the model
computes with as the code does, so that a wrong offset would leave its entry. The
kernel does not know which cycle it counts: `counted` reads it off the frames.

**`CudaUpdate`** extends `DynamicUpdate` by the device's way to the same result.
`Launch`, `CollectDeletions` and `CollectInsertions` are the host;
`BeginChange`, `Pop`, `CountOwned`, `Pass` and `Push` the iterations of a
thread. The three pools are arrays over all slots, of two strides.

## What the runs check

| Run | Instance | States | Shows |
|---|---|---|---|
| `work_queue` | 2 blocks of 2 threads, 5 vertices, bound 4, two graphs | 342,264 | every interleaving of claims, searches and flushes |
| `johnson` | 4096 graphs on 5 vertices, bound 4 or none | 392,754 | blocking loses no cycle; termination |
| `window_parity` | 2187 graphs on 4 vertices, timestamps 0 and 1, width 1, bound 3 or none | 271,257 | Johnson's blocking in a window, and what both time-window searches count |
| `window_parity_bounded` | one graph on 7 vertices, bound 6 | | both searches miss a cycle, and one counts a walk that is none (two findings) |
| `read_tarjan` | 4096 graphs on 5 vertices, bound 4 or none | 241,792 | the two known paths of each branch |
| `dynamic_update` | 2 threads or a kernel, ring of 5 with up to 4 chords, up to 3 deletions and 2 insertions, bound 4 | 334,688 | every interleaving of two threads, or of the threads of a kernel, over a batch |
| `openmp_counters` | teams of 1 and 2, 4 vertices, timestamps up to 10, four algorithms | 13,195 | every interleaving of a team over the roots, with bad arguments and overflowing windows |
| `openmp_failure_thrown` | temporal counters, teams of 1 and 2, a bad width, a bad bound, a window that overflows | | the process ends instead of an exception (finding) |
| `cuda_kernels` | blocks of 2 threads, 4 vertices, bounds 1 to 4, timestamps up to 9 | 110,644 | every interleaving of the three kernels; timestamp search, cycle union and branch splitting by definition |
| `cuda_window_overflow` | one graph | | a window that overflows is launched (finding) |
| `cuda_split_cutoff` | one graph | | cycles of the cutoff's length are not counted on the host (finding) |

Why these are enough to mean something:

* `work_queue`: two threads in a block race for the counter, share a histogram
  and meet at barriers; two blocks race for the counter and the global
  histogram. The 5 histogram entries are more than the 2 threads of a block, so
  strides have unequal sizes. The graph has searches that meet their own path, that
  are one edge too long, and a root without edges; the second graph has none at
  all (the early return).
* `johnson`, `read_tarjan`: with 4 inner vertices and every set of the 12 edges
  between them, a vertex fails, waits, is released through a chain and is
  reached again. The bound 4 is one less than the longest cycle.
* `window_parity`: two timestamps and a width of one let an edge lie at the opening
  of the window, within it, or before it; one edge carries two equal timestamps and
  a later one. Bound 3 is one less than the longest cycle. On four vertices it does
  Johnson's search no harm (`CountsWindowCycles` holds for it as well), which says
  nothing of larger graphs.
* `window_parity_bounded`: one graph is enough to show a disagreement. Seven
  vertices and bound 6 are what it takes for a vertex to be unblocked while it is
  on the path; that Johnson's search misses a cycle shows on five vertices already,
  and that Read-Tarjan's does on three, without a bound.
* `openmp_tasks`: cutoff 1 makes roots tasks only, 2 and 3 make tasks that make
  tasks, 4 is past the bound of its request, so that nothing is left to the
  serial search; two paths of one root meet in one pair of vertices.
* `dynamic_update`: the ring is one edge longer than the bound, so that chords
  decide; the changed edges share cycles and vertices; an edge may be deleted
  and inserted in one batch; the lists arrive unsorted with a duplicate. Batches
  satisfy the generator's contract (`src/dynamic/batch_generator.cpp`): deletions
  exist, insertions do not, or are deleted first. The two threads are symmetric.
  The kernel's threads are as many as the changes, all at once; slices of `path`
  and of `visited` differ in size, as the bound differs from the vertices.
* `openmp_counters`: a timestamp is repeated on an edge and across edges, there
  are cycles of one vertex set in several event orders, vertices that lead back
  to the root for some arrivals only, and requests with a bound, with none, with
  one too small, with a negative width, without threads, and with a window that
  ends past the greatest timestamp. Threads share nothing but the schedule, so
  two of them show every conflict there could be.
* `cuda_kernels`: work that is not a multiple of the block size, so that a block
  has a thread without an item; starts that the cycle union drops; equal
  timestamps, windows that open at one and end at the greatest timestamp there
  is; more histogram entries than threads; a pool that exceeds the range of an
  offset; no edges at all. A window search meets its own path, an edge past its
  window, and a bound below its longest cycle. The requests whose window
  overflows are those of `cuda_window_overflow`, for there the counts are wrong
  as that run shows. The
  definitions for the timestamp search, the union and the splitting are compared
  for every start, end, width, cutoff and bound within the instance.

Every invariant and property has a mutated definition under which its run fails;
the mutants stand next to what they mutate and are marked as such.

**Properties.** For the work queue: stacks hold simple paths (`StackOK`) and are
written by their owner only (`StacksPrivate`), claims are exclusive, the counted
cycles are at every moment exactly those the searches have passed
(`CountedArePassed`), the integers are the cardinalities of those sets
(`TalliesExact`), the result is the histogram (`ResultExact`), and the call
returns (`Returns`). For Johnson: `BlockedIsHopeless` says why blocking is
sound (from a blocked vertex every way to the root crosses the path),
`WaitsForAllNeighbours` says what the lists must hold for unblocking to keep it
so, `PathStaysBlocked` that a cascade never reaches the path. For Read-Tarjan:
`KnownPathsStayOpen` (a path found once is good until taken) and
`NoFruitlessBranch` (a branch takes both its paths, which is what makes the
algorithm fast). For the task tree: `OnePlace` (every cycle is ahead of one task,
or of the thread that makes the roots' tasks, or counted by one thread) and
`NestingBounded`. For the update: `VisitedRestored`; `LedgersExact`, which
balances the sums of all threads, or the device's counts, in mid-flight against
the cycles accounted for; and `SlicesPrivate` for the pools of the kernel. For
the root-parallel counters: `TallyExact` (at any moment the histograms together
are the number of cycles that lie behind the searches: the bundles of Johnson and
the single events of Read-Tarjan are held to one count), `ClosedIsClosed` (a
closing time is right on every path of its start, not only on the one it was
learnt on) and `ReturnsAllOrNone` (a failure leaves no partial sum, and a result
comes without one; how a failed call ends is the matter of `FailureThrown`). For the kernels: `PathsIntact` (frames are
paths of the packed graph, with increasing arrivals), `DeviceSearchAgrees` (the
device finds the timestamps the host's definitions name), `UnionKeepsCycles` and
`SplitCountsOnce` (the host counts the cycles shorter than the cutoff, each of the
others has one item), against which `ClosedUpToCutoff` holds the header.

**Deadlock** is checked in every run. A call that has returned stutters
(`Returned`), which is the only step left to it.

**Fairness.** In `CudaWorkQueue` each thread, each barrier and the host are
weakly fair: the grid is at most a wave of resident blocks
(`plan_work_queue_launch`), so the device runs all of its threads and none waits
for a block that is not resident; a complete barrier is released and
`cudaDeviceSynchronize` returns. No order between threads is assumed. The
sequential searches are weakly fair in their next step: the program counter
moves. In `OpenMPTasks` each thread of the team and the closing barrier are
weakly fair: OpenMP threads run, and a thread that waits at the barrier executes
tasks while there are any. In `OpenMPCounters` so are each thread of the team and
the calling thread. In `CudaKernels` the host is weakly fair, and so is the grid
as a whole and the barriers as a whole: some thread that can go on does. That is
less than a device gives its resident blocks, and all that the call needs, for
no thread waits but at a barrier of its own block; it also allows the device to
run one block after another, as it does with a grid larger than a wave.
`DynamicUpdate` and `CudaUpdate` state safety only, and assume no fairness.

## What is proved

The theorems hold for every value of the constants, under the assumptions named
in the modules: any number of vertices, any graph of the shape
`build_graph_view` gives (each list sorted, naming a vertex once; for a window
and for Read-Tarjan also not the vertex itself, as the parser skips loops,
`src/core/graph.cpp:178`), any bound of at least two or none, any width, any
number of threads or blocks, any cutoff of at least one.

Two assumptions on requests are contracts of callers rather than of the program.
A batch deletes edges that are there and inserts edges that are not, or that it
also deletes, and none from a vertex to itself: what `generate_batch` gives
(`RequestAssumption` of `DynamicUpdate`). The views of the one-thread-per-item
kernels are what `build_graph_view` returns: entries by neighbour, each once, with
timestamps in order, and no loops (`KernelAssumption`).

| Theorem | States |
|---|---|
| **`CudaWorkQueueProofs`** | |
| `TypeCorrect` | `TypeOK`; no thread leaves its slice of the pool |
| `StacksHoldPaths` | `StackOK` |
| `ClaimsAreExclusive` | `ClaimsExclusive` |
| `StacksArePrivate` | the action property `StacksPrivate` |
| `CountedExactly` | `CountedArePassed` |
| `TalliesAreExact` | `TalliesExact` |
| `ReturnsTheHistogram` | `ResultExact` |
| `ImplementsCounting` | `CountsCycles`: the kernel implements `CycleCounting` |
| **`JohnsonProofs`** | |
| `JohnsonTypes` | `JohnsonTypeOK` |
| `JohnsonPathSimple` | `PathStaysBlocked` |
| `JohnsonWaits` | `WaitsForAllNeighbours` |
| `JohnsonBlockingSound` | `BlockedIsHopeless` |
| `JohnsonImplementsCounting` | `JohnsonCounts`: bounded or not, `run` implements `CycleCounting` |
| **`JohnsonWindowProofs`** | |
| `WindowPathIsSimple` | `WindowPathSimple` |
| `WindowBlockingSound` | `WindowBlockedIsHopeless` |
| `WindowImplementsCounting` | `CountsWindowCycles`, of a request without a length bound |
| **`ReadTarjanProofs`** | |
| `ReadTarjanPathsOpen` | `KnownPathsStayOpen` |
| `ReadTarjanBranchesPay` | `NoFruitlessBranch` |
| `ReadTarjanImplementsCounting` | `ReadTarjanCounts`: bounded or not, `run` implements `CycleCounting` |
| **`OpenMPTasksProofs`** | |
| `TasksNestingBounded` | `NestingBounded` |
| `TasksOnePlace` | `OnePlace` |
| `TasksImplementCounting` | `TasksCount`: any schedule of the tasks implements `CycleCounting` |
| **`UpdateProofs`**, the team alone | |
| `UpdateInvariant` | the inductive invariant |
| `VisitedRestoredAlways`, `LedgerExactAlways` | `VisitedRestored`, and `LedgerExact` of the team's sums |
| `UpdateImplementsRecompute` | the team implements `HistogramUpdate` |
| **`UpdateProofs`**, the team or the kernel | |
| `BackendInvariant` | the inductive invariant of both |
| `BuffersRestoredAlways` | `VisitedRestored` |
| `SlicesPrivateAlways` | `SlicesPrivate` |
| `LedgersExactAlways` | `LedgersExact` |
| `BackendsImplementRecompute` | `UpdateIsRecompute`: either way implements `HistogramUpdate` |
| **`CudaKernelsProofs`** | |
| `DeviceSearchAgreesAlways` | `DeviceSearchAgrees` |
| `UnionKeepsCyclesAlways` | `UnionKeepsCycles` |
| `SplitCountsOnceAlways` | `SplitCountsOnce` |
| `PathsIntactAlways` | `PathsIntact` |

**The work queue.** The argument has three layers.

1. *Shape.* `ShapeInv` is `TypeOK`, `StackOK`, `HostInStep` and
   `ClaimsExclusive`; it is inductive. Types alone are not: that a cursor stays
   in its list and a depth in its slice follows from what the stacks hold. Two
   lemmas about the layout (`SlotInPool`, `SlotInjective`) carry the privacy of
   the stacks.
2. *Which cycles.* `CountedArePassed` says a cycle is counted exactly when its
   root is claimed and, if that root is being searched, the search has passed
   it (`Behind`). Each search iteration has a lemma: popping and skipping an
   edge pass no uncounted cycle (`PrunedLosesNothing`: not below the root, not
   onto the path, not past the bound), closing passes the one on the stack,
   pushing passes none.
3. *How many.* `TallyInv` adds what ties the integers to the sets: the barriers
   keep a block in step, a block that is still clearing has counted nothing, a
   stride that is cleared holds zeros, a thread that left the loop left an
   exhausted queue, and a cycle being counted is new. The strides of a block
   cover its histogram without overlap (`StrideCovers`, `StrideOwner`), so the
   flushes add each entry once. The refinement of `CycleCounting` follows.

**Johnson, static.** The three properties the run checks are not inductive
together; `SearchInv` is. Beyond types and the shape of the path (`PathInv`: a
call was made for the edge its caller consumed last) it has four parts for a
search without a bound:

* `ListsOfBlocked`: a vertex that is not blocked has an empty list;
* `FruitlessEdges`: a call without a cycle, in itself or in a call under way
  below it, has looked at blocked vertices only, so that when it returns it waits
  for blocked vertices;
* `Waiting`: a vertex blocked off the path is not next to the root, and is in the
  list of each neighbour above it;
* `Apart(i)`: some set of vertices holds the vertex of call i and the blocked
  dependents of its members, and none of the vertices before it on the path. This
  is why a cascade that starts at call i stays off the path.

What `unblock` releases is the least such set (`ReleasedIsLeast`). The code's
cascade, a recursion, is in the model a function that iterates N times; that it
has then reached its least fixed point is `Iteration` in `CycleFacts`. A blocked
vertex off the path could reach the root only over a neighbour that is not
blocked, which has an empty list, yet the vertex waits in it
(`JohnsonBlockingSound`). With a bound only the path is blocked
(`OnlyPathBlocked`).

`CountInv` then says which cycles are counted: all but those of later roots, and
those that leave the path by an edge not looked at yet (`Pending`). Closing takes
the one cycle that is the path (`ClosingTakes`), skipping takes none
(`SkippedTakes`, from `NoCycleThroughBlocked`: along a cycle that went on to a
blocked vertex every vertex would be blocked, up to the one before the root), a
call takes those that follow the longer path (`CallTakes`). The refinement of
`CycleCounting` follows.

**Johnson in a time window.** The same two invariants with the edges that have a
timestamp in the window (`Reach`) in the place of the edges. The root is never
blocked and vertices below it are on the path, so it is part of the invariant
that the root stays unblocked; a vertex waits for every neighbour. A cycle is
pending as in a search whose first frame is the root with its edges consumed.
All of this is for a request without a length bound, `bound = Unbounded`: with
one the search is neither complete nor sound, see `window_parity_bounded`.

**Read-Tarjan, static.** What `find_path` and `follow_path` compute comes first.

1. *Recursion.* A definition by recursion says something only once the function is
   shown to exist: `FixpointExists` builds it from a rank that falls with every
   call, and `RankInduction` is the induction that goes with it. For the
   depth-first search the rank counts the vertices not visited before the edges
   not looked at.
2. *Paths.* A search that succeeds returns a `Way`: simple, above the root, past
   what is blocked, and to the root by the first edge there is to it. One that
   fails leaves a set that is `Dead`: no edge of it leads to the root or to a
   vertex that is not blocked (`FindPathFacts`), so to block it loses no cycle.
   `Following` is what holds of `follow_path` at each vertex it walks through: the
   current path is simple and blocked, the rest of the path is a way back, the
   blocked vertices off the path are dead, and the cycles that take the first edge
   are those that take the edges walked.
3. *Calls.* `KnownPathsStayOpen` is not inductive: that an alternate path is not cut
   off by the vertices the main one blocks has to be known of each call, with the
   part of `current_` that is its own (`Size`). `SearchInv` says of every call that
   this part is a simple path to its vertex, blocked, that whatever else is blocked
   is dead (`OnPath`), that each known path begins with an edge the call has still
   to look at, that the two differ there, and that an edge to the root is one that
   the main path takes (`CallFits`); and that a call continues the path of the one
   that made it by the edge looked at last (`Stacked`). `NoFruitlessBranch` follows:
   a path that is left when no edge is would begin with none.
4. *Counting.* `CountInv` says that the cycles not counted are those of later roots
   and those that leave the part of some call by an edge it has still to look at
   (`Left`). A skipped edge is taken by none, from the dead vertices
   (`SkipsNone`); an edge followed to the root by exactly one, the path
   (`FoundFacts`); an edge followed to a branch by those that begin with the longer
   path, all ahead of the new call (`AheadBranch`).

**The task tree.** `TasksInv` says that every task is a depth-first search of the
subtree at its base (`SoundTask`), and that a suspended task makes tasks, so that
the one above it starts at a longer path; from that `NestingBounded`. `CountInv`
says that of each cycle there is one place, among those that hold it. Each step
moves it at most from one place to another: from a thread that makes roots' tasks
to the root's task, from a task to the one it spawns, from a waiting task to the
stack of the thread that takes it, from a task to the histogram of its thread.
The merge adds the histograms of the threads over a finite set, whatever its size
(`SumOfDisjoint`).

**The update.** The set of cycles before, between and after the two loops come
from graphs, the searches work on lists of changed edges; in between stand facts
about each.

1. *Inputs.* A list sorted by ranks has each element once
   (`ListOfVertices`, `ListOfEdges`), so that the graph after a batch has exactly
   the edges it should (`GraphAfterBatch`) and the cycles a phase is about are
   those that use a change of its list (`CyclesWithout`, `InputSound`).
2. *Owners.* Such a cycle is *owned* by the first change it uses (`HasOwner`,
   `OneOwner`). A search for change `i` runs from the change's target back to its
   source and takes no earlier change; the closed walk it finds, rotated to its
   least vertex, is the cycle, and each owned cycle is found as one walk only
   (`RotatedWalk`, `SameCycle`, `ClosedWalkUses`, `SearchCloses`).
3. *Steps.* `Ahead` is what a search has still to find. Closing takes the one
   cycle from it, skipping none (`SearchSkips`: a vertex that is visited, an edge
   that an earlier change owns, a path at the bound), descending and returning
   none (`SearchPushes`, `SearchPops`).
4. *The team.* `UpdateInv` has four parts. `PhaseInv` fixes the graph that a phase
   reads; `TeamInv` says that each thread's calls are a search of its own change
   and its buffer holds the change's source and the path (`VisitedRestored`
   follows); `Accounted` says which cycles have been dropped or added: those not
   in `Rest`, where a change not handed out yet has all the cycles it owns and one
   under way those ahead; `TeamLedger` ties the sums of the threads and `delta` to
   that set. When the last change is finished nothing is left, and the turn and the
   report are steps of `HistogramUpdate`.

**The update on the device.** A thread of the kernel is the same search in slices
of three pools (`WorkOk` says so of a slice), so the lemmas on searches are used
again; what is new is the layout and the look-up. `SlotFacts` says that slices of
one stride do not meet and `OwnSlices` that a step writes its own. That
`find_change` finds an edge in the sorted list exactly if it is there
(`FindsChange`) is an induction on the size of the range, over a function that is
shown to exist and to be the only one. `BackendInv` joins the team's invariant with
the kernel's, and the refinement follows as for the team.

**The kernels.** The binary searches split a sorted array at the one point where
the key belongs (`LowerBoundSplits`, `UpperBoundSplits`), which is what the
definitions of a window and of the events after an arrival name (`WindowFinds`,
`AfterFinds`). The packed arrays hold each vertex's entries in place because
flattening puts each element where the lengths before it say (`FlattenPlaces`,
`PackFacts`). The cycle union is closed under the edges in its window once it is
iterated as often as there are vertices (`ReachableClosed`), so it holds every
vertex of a walk from the start and, in the reversed graph, to it
(`UnionHoldsCycle`). The splitting's `expand` has an explicit form: a cycle is
closed in the prefix or led to by exactly one branch (`ExpandFinds`, `CycleIsLed`).

`PathsIntact` is not inductive: a step of the search needs the frame's cursor
within the entry and the arrivals found for it, and a thread that starts needs its
work item to be one. `SearchInv` adds these: the slice of a searching thread fits
its item (`ThreadFits`), the work is what the view lists (`WorkIsItems`). A step
writes one slot of its own slice (`SlotsApart`, `WriteFrame`), and what it does to
the path is one of three things, `PathAdvances`, `PathGrows`, `PathShrinks`.

`CycleFacts` has the lemmas these proofs share: a cycle as a walk that is pending
at a frame (`WalkConsume`, `WalkFresh`, `WalkPush`, `PendingPop`), the shapes of
graphs and cycles, the add-one lemma of a histogram, and induction. The library's
induction theorems take an operator as a parameter, which the provers here cannot
instantiate; `NatSetInduction` and `FiniteSetInduction` state the same about a
*set* of numbers or of subsets, which they can.

**Only model-checked.**

* Termination of the work queue, the static Johnson search, the task counter, the
  root-parallel counters and the kernels (`Returns`, `JohnsonReturns`, `TasksJoin`,
  `CallEnds` of both): liveness under fairness is beyond TLAPS here. The two
  time-window searches, the static Read-Tarjan search and the update state safety
  only; that they end is not checked.
* `CountsNothingTwice` of the time-window Read-Tarjan search. The lemmas on paths
  are about searches above their root; this one starts alternate paths at the root
  and blocks it, which is why it is not complete.
* `OpenMPCounters`: `TallyExact`, `ClosedIsClosed` and `ReturnsAllOrNone`.
* `CountsCycles` of `CudaKernels`: that the kernels count each cycle once. What a
  thread's slice holds, and the searches it is computed with, are proved.

## Findings

* `window_parity_bounded`: the time-window Johnson search applies the length
  bound and keeps blocking (`src/sequential/johnson.cpp:233-246`). The comment on
  the static search (line 45) explains why the two do not go together, and the
  static search switches to path blocking; the window search does not. On seven
  vertices with bound 6 it misses the cycle 0 1 4 6 2 and counts the walk
  0 1 6 4 6 2, which visits a vertex twice: 6 failed for its length only, waits in
  the list of 2, which is not blocked, and is unblocked from there when it is on
  the path. The second came up when the invariant that keeps the path blocked,
  proved for the static search, was found not to be inductive here.
* `window_parity_bounded`, on the same graph: the time-window Read-Tarjan search may
  look for an alternate path from the root itself
  (`src/sequential/read_tarjan.cpp:325`, which the static search excludes at line
  137). The search fails and blocks the root, and the cycle 6 4 is missed; the
  bound has no part in it. The parity test
  (`tests/integration/sequential_parity_test.cpp:56`) and
  `docs/design/validation.md:21` promise agreement with brute force.
* `cuda_window_overflow`: the comment of the device's `checked_window_end`
  (`src/include/cycle_enum/cuda/cuda_timestamp.hpp:59`) says that the host rejects
  overflow before kernels are launched. The time-window host validates the bound
  and the sign of the width (`src/cuda/cuda_johnson.cpp:87-88`) and launches; the
  device then finds no timestamp in the window and the cycles of such a start are
  missing from the result, where the host counters throw.
* `cuda_split_cutoff`: the header of the branch splitting
  (`src/include/cycle_enum/cuda/cuda_branch_split.hpp:44-48`) gives the cycles of
  exactly the cutoff's length to the host; `expand` leaves them to the items
  (`src/cuda/cuda_branch_split.cpp:53-57`), as the comment of that file and
  `docs/design/cuda_work_splitting.md:31-33` say. `SplitCountsOnce` states the
  latter and holds.
* `openmp_failure_thrown`: the headers of the two
  temporal OpenMP counters (`openmp_temporal_johnson.hpp:49-53`,
  `openmp_temporal_read_tarjan.hpp:47-51`) promise `invalid_argument` and
  `overflow_error` for any number of threads. With more than one the workers throw
  inside the parallel region (`src/openmp/openmp_temporal_johnson.cpp:318`, `:119`;
  `openmp_temporal_read_tarjan.cpp:243`, `:85`) and the process terminates. The
  static counters validate before their region; the tests ask for the exceptions
  with one thread.

## Bounds and abstractions

* Timestamps are small. Where a window's end may overflow (`OpenMPCounters`,
  `CudaKernels`, `CudaTimestamp`) the greatest timestamp is a constant, `TimeMax`;
  in the time-window searches of `JohnsonWindow` and `ReadTarjanWindow` the
  overflow check is not modelled.
* Counters are unbounded naturals; the code's are 64 bits wide and every count
  here is at most the number of cycles of a small graph. So the overflow checks of
  a histogram, of a bundle's counts and of a merge never fire here.
* Lists of a launch (pools, offsets) are bounded by `OffsetMax`; the limits of an
  `int` on the bound and on the number of blocks throw in the same place and are
  left out.
* Tuning by environment variables, timing events, profiling, copies to and from
  the device and failed allocations (which throw) are left out.
* The starts of a time-window search are visited in the code's order, by vertex,
  entry and timestamp.

## Not modelled

| Component | Why, or when |
|---|---|
| Parser | text processing within one call; only the shape that `build_graph_view` gives a graph is used |
| Histogram arithmetic | counts near 2^64; see above |
| Timestamp groups, visited set | no kernel uses them |
| Incoming adjacency of the packed graph | no kernel reads it |
| Options, engine, command line | a chain of conditions over one call, without state |
| Batch generator | random sampling; its contract is the assumption on update batches |
| Device queries, profiling, statistics, benchmarks, scripts | no control of their own |
| A build without OpenMP or CUDA | a call throws at once, or runs the sequential loop |

## Plan

All components with concurrency or with state that outlives a step are modelled
and checked, and all but the time-window Read-Tarjan search and the root-parallel
counters have proofs. What is left are proofs, in this order:

1. `RootTeam` and `StaticRoots`: that every root is with one thread or none, and
   the tally of the static counters.
2. `ClosedIsClosed`: the closing times as `can_reach_root` leaves them, by induction
   on the time that is left.
3. `CudaKernels`: from `SearchInv`, the cycles ahead of a thread, as for the work
   queue, and the refinement of `CycleCounting`.
4. `CountsNothingTwice`, from `Following` without the part on dead vertices.
