--------------------------- MODULE CycleCounting ----------------------------
(***************************************************************************)
(* The promise of a counting backend, whatever its scheduling: it comes    *)
(* across the cycles of its input one at a time, in any order, and never   *)
(* the same one twice; when none is left it reports, once, how many there  *)
(* are of each length.                                                     *)
(***************************************************************************)
CONSTANTS
  HistogramOf(_, _),  \* the counts by length of a set, up to a bound
  MaxCycleLength,     \* the length bound of the request
  NoResult            \* stands for a call that has not returned

VARIABLES
  cycles,             \* the cycles of the input, whatever mode defines them
  counted,            \* the cycles counted so far
  result              \* the histogram returned, NoResult before that

vars == <<cycles, counted, result>>

Init ==
  /\ counted = {}
  /\ result = NoResult

Count ==
  /\ result = NoResult
  /\ \E c \in cycles \ counted : counted' = counted \cup {c}
  /\ UNCHANGED <<cycles, result>>

Report ==
  /\ result = NoResult
  /\ counted = cycles
  /\ result' = HistogramOf(counted, MaxCycleLength)
  /\ UNCHANGED <<cycles, counted>>

Next == Count \/ Report

Spec == Init /\ [][Next]_vars
=============================================================================
