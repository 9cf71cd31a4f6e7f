--------------------------- MODULE HistogramUpdate ---------------------------
(***************************************************************************)
(* The promise of an incremental update, whatever its scheduling: it       *)
(* leaves out the cycles that the deletions of a batch destroy, then takes *)
(* in those that its insertions create, each one once, and returns the     *)
(* histogram of the graph after the batch.                                 *)
(***************************************************************************)
CONSTANTS
  HistogramOf(_, _),  \* the counts by length of a set, up to a bound
  MaxCycleLength,     \* the length bound of the request
  NoResult            \* stands for an update that has not returned

VARIABLES
  before,             \* the cycles of the graph before the batch
  between,            \* those that no deletion destroys
  after,              \* the cycles of the graph after the batch
  phase,              \* "delete", "insert" or "done"
  live,               \* the cycles accounted for
  result              \* the histogram returned, NoResult before that

input == <<before, between, after>>
vars == <<input, phase, live, result>>

Init ==
  /\ phase = "delete"
  /\ live = before
  /\ result = NoResult

Drop ==
  /\ phase = "delete"
  /\ \E c \in live \ between : live' = live \ {c}
  /\ UNCHANGED <<input, phase, result>>

Turn ==
  /\ phase = "delete"
  /\ live = between
  /\ phase' = "insert"
  /\ UNCHANGED <<input, live, result>>

Add ==
  /\ phase = "insert"
  /\ \E c \in after \ live : live' = live \cup {c}
  /\ UNCHANGED <<input, phase, result>>

Report ==
  /\ phase = "insert"
  /\ live = after
  /\ phase' = "done"
  /\ result' = HistogramOf(after, MaxCycleLength)
  /\ UNCHANGED <<input, live>>

Next == Drop \/ Turn \/ Add \/ Report

Spec == Init /\ [][Next]_vars
=============================================================================
