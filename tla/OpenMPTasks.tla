---------------------------- MODULE OpenMPTasks -----------------------------
(***************************************************************************)
(* count_simple_cycles_read_tarjan_tasks with more than one thread: static *)
(* simple cycles, counted by a tree of OpenMP tasks.                       *)
(*                                                                         *)
(* One thread of the team makes a task of every root.  A task whose path   *)
(* is shorter than the cutoff makes a task of each of its extensions, with *)
(* copies of path and visited flags; any other task searches what is below *)
(* it.  Whatever thread runs a task counts into a histogram of its own.    *)
(*                                                                         *)
(* Tasks are tied: one that is suspended, after it has made another task,  *)
(* is resumed by its thread, which may run only its descendants before.    *)
(* The barrier that ends the parallel region waits for all tasks.  An      *)
(* action is one iteration of a task's innermost loop.                     *)
(***************************************************************************)
EXTENDS SimpleCycles, FiniteSetsExt

CONSTANTS
  N,            \* graph.vertex_count()
  Threads,      \* the team
  Requests,     \* the graphs, bounds and cutoffs a caller may pass, as records
  Unbounded,    \* the max_cycle_length of a request without one
  Nobody,       \* stands for no thread
  NoResult      \* stands for a call that has not returned

V == 0..(N - 1)
Lengths == 2..N

ASSUME TeamAssumption ==
  /\ N \in Nat \ {0}
  /\ IsFiniteSet(Threads) /\ Nobody \notin Threads
  /\ Unbounded \notin Nat

ASSUME RequestAssumption ==
  \A request \in Requests :
    /\ request.graph \in Adjacencies(V)
    /\ request.bound \in {Unbounded} \cup (Nat \ {0, 1})
    /\ request.cutoff \in Nat \ {0}                    \* task_cutoff_depth

VARIABLES
  request,      \* the arguments
  cycles,       \* what there is to count: the cycles of the request
  producer,     \* the thread in the single region, Nobody before that
  made,         \* the roots it has made tasks of are those below this one
  pool,         \* the tasks that wait for a thread
  stack,        \* the tasks of each thread: suspended ones, and on top the one
                \* that runs
  local,        \* local_histograms
  result,       \* what the call returns
  counted       \* history: the cycles each thread has counted

input == <<request, cycles>>
vars == <<input, producer, made, pool, stack, local, result, counted>>

graph == request.graph
Bounded == request.bound # Unbounded

Init ==
  /\ request \in Requests
  /\ cycles = Cycles(graph, IF Bounded THEN request.bound ELSE N)
  /\ producer = Nobody
  /\ made = 0
  /\ pool = {}
  /\ stack = [t \in Threads |-> <<>>]
  /\ local = [t \in Threads |-> [len \in Lengths |-> 0]]
  /\ result = NoResult
  /\ counted = [t \in Threads |-> {}]

-----------------------------------------------------------------------------
(***************************************************************************)
(* Tasks.  The frames are those of the path, from the root; the offsets    *)
(* below the first frame the task has searched, its base, are not used.    *)
(***************************************************************************)
NewFrame(v) == [vertex |-> v, offset |-> 1]
RootTask(v) == [frames |-> <<NewFrame(v)>>, base |-> 1]

Depth(task) == Len(task.frames)
VertexAt(task, i) == task.frames[i].vertex
OffsetAt(task, i) == task.frames[i].offset
Path(task) == [i \in 1..Depth(task) |-> VertexAt(task, i)]
Root(task) == VertexAt(task, 1)
Current(task) == VertexAt(task, Depth(task))
Offset(task) == OffsetAt(task, Depth(task))
Exhausted(task) == Offset(task) > Len(graph[Current(task)])
NextVertex(task) == graph[Current(task)][Offset(task)]

\* Mutant: the cutoff is one too deep.
ExpandsPast(task) == task.base <= request.cutoff

\* The task makes tasks: path.size() < task_cutoff_depth.
Expands(task) == task.base < request.cutoff

\* ++offset
Advanced(task) == [task EXCEPT !.frames[Depth(task)].offset = @ + 1]

Closes(task, w) == w = Root(task) /\ Depth(task) >= 2

Pruned(task, w) ==
  \/ w <= Root(task)
  \/ \E i \in 1..Depth(task) : VertexAt(task, i) = w         \* visited
  \/ Bounded /\ Depth(task) >= request.bound

\* The task made of an extension of the path.
Child(task, w) ==
  [frames |-> Append(task.frames, NewFrame(w)), base |-> Depth(task) + 1]

Busy(t) == stack[t] # <<>>
Top(t) == stack[t][Len(stack[t])]
Runs(t, task) == stack' = [stack EXCEPT ![t] = [@ EXCEPT ![Len(@)] = task]]

-----------------------------------------------------------------------------
(***************************************************************************)
(* The region.                                                             *)
(***************************************************************************)
\* The first thread to arrive at the single region takes it.
EnterSingle(t) ==
  /\ producer = Nobody
  /\ producer' = t
  /\ UNCHANGED <<input, made, pool, stack, local, result, counted>>

\* One iteration of its loop over the roots.
MakeRootTask(t) ==
  /\ producer = t /\ ~Busy(t)
  /\ made < N
  /\ made' = made + 1
  /\ pool' = pool \cup {RootTask(made)}
  /\ UNCHANGED <<input, producer, stack, local, result, counted>>

\* The last thing the task did was to make a task.
AtSchedulingPoint(task) ==
  /\ Expands(task) /\ Offset(task) > 1
  /\ LET w == graph[Current(task)][Offset(task) - 1]
     IN  ~Closes(task, w) /\ ~Pruned(task, w)

Descends(task, from) ==
  /\ Depth(from) < Depth(task)
  /\ \A i \in 1..Depth(from) : VertexAt(task, i) = VertexAt(from, i)

\* The runtime gives a waiting task to a thread: to one that has none, or to
\* one whose task has just made another and is suspended.
Begin(t) ==
  \E task \in pool :
    /\ Busy(t) => AtSchedulingPoint(Top(t)) /\ Descends(task, Top(t))
    /\ pool' = pool \ {task}
    /\ stack' = [stack EXCEPT ![t] = Append(@, task)]
    /\ UNCHANGED <<input, producer, made, local, result, counted>>

Merged == [len \in Lengths |-> MapThenSumSet(LAMBDA t : local[t][len], Threads)]

\* Mutant: the region ends when no task waits, though some still run.
JoinEarly ==
  /\ result = NoResult
  /\ made = N /\ pool = {}
  /\ result' = Merged
  /\ UNCHANGED <<input, producer, made, pool, stack, local, counted>>

\* All threads are at the barrier and no task is left; the histograms are
\* merged.
Join ==
  /\ result = NoResult
  /\ made = N /\ pool = {} /\ \A t \in Threads : ~Busy(t)
  /\ result' = Merged
  /\ UNCHANGED <<input, producer, made, pool, stack, local, counted>>

-----------------------------------------------------------------------------
(***************************************************************************)
(* The task a thread runs: task_expand and count_subtree_serial have the   *)
(* same loop but for what an extension becomes.                            *)
(***************************************************************************)
\* The edge closes a cycle; the thread counts it in its own histogram.
Close(t) ==
  /\ Busy(t) /\ ~Exhausted(Top(t))
  /\ Closes(Top(t), NextVertex(Top(t)))
  /\ Runs(t, Advanced(Top(t)))
  /\ local' = [local EXCEPT ![t][Depth(Top(t))] = @ + 1]
  /\ counted' = [counted EXCEPT ![t] = @ \cup {Path(Top(t))}]
  /\ UNCHANGED <<input, producer, made, pool, result>>

\* Mutant: the offset stays on a skipped edge.
SkipForever(t) ==
  /\ Busy(t) /\ ~Exhausted(Top(t))
  /\ ~Closes(Top(t), NextVertex(Top(t))) /\ Pruned(Top(t), NextVertex(Top(t)))
  /\ UNCHANGED vars

Skip(t) ==
  /\ Busy(t) /\ ~Exhausted(Top(t))
  /\ ~Closes(Top(t), NextVertex(Top(t))) /\ Pruned(Top(t), NextVertex(Top(t)))
  /\ Runs(t, Advanced(Top(t)))
  /\ UNCHANGED <<input, producer, made, pool, local, result, counted>>

\* Mutant: the child shares its parent's path, which grows with it.
SpawnShared(t) ==
  LET task == Top(t)
      w == NextVertex(task)
  IN
  /\ Busy(t) /\ ~Exhausted(task) /\ Expands(task)
  /\ ~Closes(task, w) /\ ~Pruned(task, w)
  /\ Runs(t, [Advanced(task) EXCEPT !.frames = Append(@, NewFrame(w))])
  /\ pool' = pool \cup {Child(task, w)}
  /\ UNCHANGED <<input, producer, made, local, result, counted>>

\* The extension becomes a task.
Spawn(t) ==
  /\ Busy(t) /\ ~Exhausted(Top(t)) /\ Expands(Top(t))
  /\ ~Closes(Top(t), NextVertex(Top(t))) /\ ~Pruned(Top(t), NextVertex(Top(t)))
  /\ Runs(t, Advanced(Top(t)))
  /\ pool' = pool \cup {Child(Top(t), NextVertex(Top(t)))}
  /\ UNCHANGED <<input, producer, made, local, result, counted>>

\* The extension is searched by a recursive call.
Descend(t) ==
  /\ Busy(t) /\ ~Exhausted(Top(t)) /\ ~Expands(Top(t))
  /\ ~Closes(Top(t), NextVertex(Top(t))) /\ ~Pruned(Top(t), NextVertex(Top(t)))
  /\ Runs(t, [Advanced(Top(t)) EXCEPT !.frames = Append(@, NewFrame(NextVertex(Top(t))))])
  /\ UNCHANGED <<input, producer, made, pool, local, result, counted>>

\* The recursive call returns.
Backtrack(t) ==
  /\ Busy(t) /\ Exhausted(Top(t))
  /\ Depth(Top(t)) > Top(t).base
  /\ Runs(t, [Top(t) EXCEPT !.frames = SubSeq(@, 1, Len(@) - 1)])
  /\ UNCHANGED <<input, producer, made, pool, local, result, counted>>

\* The task ends; the thread resumes the one it has suspended, if any.
Finish(t) ==
  /\ Busy(t) /\ Exhausted(Top(t))
  /\ Depth(Top(t)) = Top(t).base
  /\ stack' = [stack EXCEPT ![t] = SubSeq(@, 1, Len(@) - 1)]
  /\ UNCHANGED <<input, producer, made, pool, local, result, counted>>

-----------------------------------------------------------------------------
Run(t) ==
  Close(t) \/ Skip(t) \/ Spawn(t) \/ Descend(t) \/ Backtrack(t) \/ Finish(t)

Thread(t) == EnterSingle(t) \/ MakeRootTask(t) \/ Begin(t) \/ Run(t)

Returned == result # NoResult /\ UNCHANGED vars

Next == Join \/ (\E t \in Threads : Thread(t)) \/ Returned

Spec == Init /\ [][Next]_vars

\* Every thread of the team runs, and one without a task takes one at the
\* barrier.
FairSpec == Spec /\ WF_vars(Join) /\ \A t \in Threads : WF_vars(Thread(t))

-----------------------------------------------------------------------------
(***************************************************************************)
(* Properties.                                                             *)
(***************************************************************************)
\* The cycle c is still to be found by the task: it follows the task's path up
\* to one of its own frames and leaves it by an edge not consumed there.
Ahead(task, c) ==
  \E k \in task.base..Depth(task) :
    /\ k <= Len(c)
    /\ \A i \in 1..k : c[i] = VertexAt(task, i)
    /\ \E j \in OffsetAt(task, k)..Len(graph[VertexAt(task, k)]) :
         graph[VertexAt(task, k)][j] = Successor(c, k)

Slots == UNION {{<<t, i>> : i \in 1..Len(stack[t])} : t \in Threads}

\* The places that hold cycle c.
Places(c) ==
  {<<"root", v>> : v \in {v \in made..(N - 1) : v = c[1]}}
    \cup {<<"waiting", task>> : task \in {task \in pool : Ahead(task, c)}}
    \cup {<<"active", s>> : s \in {s \in Slots : Ahead(stack[s[1]][s[2]], c)}}
    \cup {<<"counted", t>> : t \in {t \in Threads : c \in counted[t]}}

\* At any moment every cycle is in one place: its root is not made a task yet,
\* or it is ahead of one task, or one thread has counted it.  Nothing is lost
\* when work moves between threads, and nothing is there twice.
OnePlace == \A c \in cycles : Cardinality(Places(c)) = 1

\* A thread nests no more tasks than the cutoff: those it has suspended are
\* prefixes of the one it runs, and all but this one make tasks.
NestingBounded == \A t \in Threads : Len(stack[t]) <= request.cutoff

AllCounted == UNION {counted[t] : t \in Threads}

Abstract == INSTANCE CycleCounting WITH counted <- AllCounted, MaxCycleLength <- N

\* The tasks count every cycle once, and the call returns their histogram.
TasksCount == Abstract!Spec

\* The call returns.
TasksJoin == <>(result # NoResult)
=============================================================================
