--------------------------- MODULE OpenMPCounters ---------------------------
(***************************************************************************)
(* The four root-parallel OpenMP counters: one team, and for each of them  *)
(* what its threads do with a root.                                        *)
(*                                                                         *)
(* The two static counters have the same search.  The temporal workers     *)
(* have the members and loops of the sequential classes, so that a team of *)
(* one thread is also the sequential temporal counter.  Threads write      *)
(* nothing of one another; an action is one iteration of a search's loop,  *)
(* with the call of can_reach_root that it begins with.                    *)
(***************************************************************************)
EXTENDS RootTeam

Static == INSTANCE StaticRoots
Johnson == INSTANCE TemporalJohnson
ReadTarjan == INSTANCE TemporalReadTarjan

Init ==
  /\ InitTeam
  /\ ~Temporal => Static!InitStatic
  /\ Temporal => Johnson!InitTemporal

CountJohnson(t) == request.algorithm = "johnson" /\ Static!CountRoot(t)

CountReadTarjan(t) == request.algorithm = "read_tarjan" /\ Static!CountRoot(t)

CountTemporalJohnson(t) ==
  request.algorithm = "temporal_johnson" /\ Johnson!CountRoot(t)

CountTemporalReadTarjan(t) ==
  request.algorithm = "temporal_read_tarjan" /\ ReadTarjan!CountRoot(t)

Thread(t) ==
  \/ Enter(t) \/ Store(t)
  \/ CountJohnson(t) \/ CountReadTarjan(t)
  \/ CountTemporalJohnson(t) \/ CountTemporalReadTarjan(t)

Returned == result # NoResult /\ UNCHANGED vars

Next == Reject \/ (\E t \in Threads : Thread(t)) \/ Merge \/ Returned

Spec == Init /\ [][Next]_vars

\* The threads of the region run, and the calling thread does what is left.
FairSpec ==
  Spec /\ WF_vars(Reject) /\ WF_vars(Merge) /\ \A t \in Threads : WF_vars(Thread(t))

-----------------------------------------------------------------------------
(***************************************************************************)
(* Properties.                                                             *)
(***************************************************************************)
HistogramOf(S) == [len \in Lengths |-> Cardinality({c \in S : Len(c) = len})]

\* A cycle no thread has counted: its root is not handed out, or it lies ahead of
\* the thread that has the root.
Waits(c) ==
  \/ ~Temporal /\ Static!Waits(c)
  \/ request.algorithm = "temporal_johnson" /\ Johnson!Waits(c)
  \/ request.algorithm = "temporal_read_tarjan" /\ ReadTarjan!Waits(c)

\* Whatever thread has which root, and however far it is with it: together the
\* histograms of the threads count each cycle that lies behind the searches, once,
\* and none that is still ahead.  For temporal cycles this is a count of event
\* sequences, which a search of bundles and one of single events must agree on.
TallyExact == Sum = HistogramOf({c \in cycles : ~Waits(c)})

\* A closing time is right whatever path it was learnt on: from no arrival at or
\* after it does a walk of increasing timestamps lead back to the root in the
\* window.  The searches prune by it on every other path of the start, so a
\* closing time that held for one path, root or start only would lose cycles.
ClosedIsClosed == Temporal => Johnson!ClosedIsClosed

\* What stops a call: an argument it refuses, or a window whose end overflows.
RefusedArgument == Rejected \/ WorkerRefuses
OverflowingWindow ==
  Temporal /\ \E s \in Starts(graph) : StartTime(graph, s) > TimeMax - request.width

\* A call returns the histogram of all its cycles, or, when one of its windows
\* overflows or it refuses an argument, none: no thread's failure leaves the sum of
\* the others as the result, and no failure comes from anything else.  How a call
\* ends that has failed is the matter of FailureThrown.
ReturnsAllOrNone ==
  result # NoResult =>
    IF result \in {Thrown, Terminated}
    THEN RefusedArgument \/ OverflowingWindow
    ELSE result = HistogramOf(cycles) /\ ~RefusedArgument /\ ~OverflowingWindow

\* The headers of the temporal counters, openmp_temporal_johnson.hpp:49-53 and
\* openmp_temporal_read_tarjan.hpp:47-51: a negative width, a bound below two and a
\* window that overflows throw, whatever the number of threads, to a caller that may
\* catch it.
FailureThrown ==
  result # NoResult /\ (RefusedArgument \/ OverflowingWindow) => result = Thrown

\* Every call ends: no thread waits at the end of the loop for one that never comes.
CallEnds == <>(result # NoResult)
=============================================================================
